CONSTANTS
  a = a
  nil = nil
  Self = self
  Addrs = {self, a}
  NilMember = nil
  Lists <- SmallLists
  Changers = {c1}
  K = 1
  ZeroMapUsable = TRUE
  Reporting = TRUE
  MaxLists = 2
  MaxProbes = 1
  Subscribers = {s1, s2}
  Faulty = {s2}
  RingSizes = {1}
  SmallRing = 1
  DefaultRing = 1
  SeqNos = {0}
  ExactLimit = 1
  LogInstalled = TRUE
  MaxSent = 3
SPECIFICATION FairSpec
INVARIANTS TableIsLatestList AdditionsTold
PROPERTY SubscribersConverge
CHECK_DEADLOCK FALSE
