CONSTANTS
  fa = fa
  fb = fb
  sa = sa
  s1 = s1
  s2 = s2
  s3 = s3
  FastTopics = {fa, fb}
  SlowTopics = {sa}
  Subscribers = {s1, s2, s3}
  Single = {s1, s3}
  SubscribeTypes <- TwoFast
  Callers = {c1, c2}
  MaxCalls = 2
  ClockTopics = {}
  ExactLimit = 1
  IgnoreExpire = {}
  SeqNos = {0}
  RingSizes = {1}
  SmallRing = 1
  DefaultRing = 1
  LogInstalled = TRUE
  MaxSent = 4
  Panicking = {}
  SlowRing = 1
  OwnerSet = TRUE
  MaxSlowSent = 4
SPECIFICATION FairSpec
INVARIANT RegistrationHolds
PROPERTY CallsReturn
CHECK_DEADLOCK FALSE
