SPECIFICATION FairSpec
CONSTANTS
  ann = ann
  bob = bob
  s1 = s1
  p1 = p1
  p2 = p2
  l1 = l1
  l2 = l2
  r1 = r1
  r2 = r2
  Emails <- Both
  Subs <- OneSub
  Clients <- TwoClients
  EmailOf <- OfAnn
  Reliable <- OneClient
  WriteBack <- TheOther
  Logins <- OneLogin
  Revocations <- OneRev
  Impatient <- Nobody
INVARIANTS
  ClearedIsOut
  NothingForgotten
PROPERTIES
  EveryTargetReported
  ReachableIsSignedOut
  Answered
