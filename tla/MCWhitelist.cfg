SPECIFICATION Spec
CONSTANTS
  a = a
  b = b
  x = x
  r1 = r1
  r2 = r2
  Emails <- PeopleAndX
  EligibleEmails <- TwoPeople
  Requests <- TwoRequests
SYMMETRY Symmetry
INVARIANTS
  TypeOK
  UnderAuthority
  AcknowledgedHolds
  RefusalChangedNothing
PROPERTIES
  ImplementsRoster
  KeepsAnAdmin
