SPECIFICATION Spec
CONSTANTS
  a1 = a1
  a2 = a2
  u1 = u1
  u2 = u2
  u3 = u3
  u4 = u4
  c1 = c1
  c2 = c2
  c3 = c3
  Emails <- TwoEmails
  Allowed <- OneEmail
  Uids <- FourUids
  Calls <- ThreeCalls
SYMMETRY Symmetry
INVARIANTS
  TypeOK
  NothingRefersToDeleted
  OneUidPerPerson
  VouchedForOwner
