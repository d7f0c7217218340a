SPECIFICATION Spec
CONSTANTS
  p = p
  c1 = c1
  c2 = c2
  Names <- OneProduct
  Urls <- AnyUrl
  Calls <- TwoCalls
  MaxSecrets = 4
SYMMETRY CallSymmetry
INVARIANTS
  TypeOK
  OldSecretIsDead
  HandedOutWorks
