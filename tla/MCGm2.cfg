SPECIFICATION Spec
CONSTANTS
  a1 = a1
  a2 = a2
  s1 = s1
  c1 = c1
  c2 = c2
  c3 = c3
  t1 = t1
  t2 = t2
  t3 = t3
  Emails <- TwoEmails
  Subs <- OneSub
  Vouched <- BothVouched
  Tokens <- ThreeTokens
  Calls <- ThreeCalls
  MaxDevices = 2
SYMMETRY Symmetry
INVARIANTS
  TypeOK
  OneAccountPerLogin
  OtherDevicesStayIn
  RevokedTokenIsDead
