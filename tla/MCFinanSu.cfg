SPECIFICATION Spec
CONSTANTS
  u1 = u1
  u2 = u2
  a1 = a1
  a2 = a2
  s1 = s1
  s2 = s2
  t1 = t1
  t2 = t2
  c1 = c1
  c2 = c2
  Users <- MCUsers
  Emails <- MCEmails
  Subs <- MCSubs
  AccessTokens <- MCTokens
  Calls <- MCCalls
SYMMETRY Symmetry
INVARIANTS
  TypeOK
  OneAccountPerLogin
  LinkedHasAuth
  ReplacedTokenIsDead
  RevokedTokenIsDead
