SPECIFICATION Spec
CONSTANTS
  m1 = m1
  m2 = m2
  q1 = q1
  q2 = q2
  r1 = r1
  People <- Two
  YearOf <- Years
  CreatedAt <- Hours
  Forms <- SomeForms
  Previews <- TwoPreviews
  Runs <- OneRun
SYMMETRY Symmetry
INVARIANTS
  TypeOK
  NoSurprise
PROPERTIES
  ListsWhoIsMeant
