SPECIFICATION Spec
CONSTANTS
  ann = ann
  bob = bob
  s1 = s1
  p1 = p1
  p2 = p2
  l1 = l1
  l2 = l2
  r1 = r1
  r2 = r2
  Emails <- Ann
  Subs <- OneSub
  Clients <- OneClient
  EmailOf <- OfAnn
  Reliable <- Nobody
  WriteBack <- Nobody
  Logins <- TwoLogins
  Revocations <- TwoRevs
  Impatient <- TwoRevs
SYMMETRY Symmetry
INVARIANTS
  TypeOK
  NothingUnrecorded
  ClearedIsOut
  NoSilentSurvivor
