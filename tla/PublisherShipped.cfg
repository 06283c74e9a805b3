CONSTANTS
  Topics = {ta}
  ClockTopics = {}
  Subscribers = {s1, s2}
  IgnoreExpire = {s1}
  Faulty = {}
  SeqNos = {1, 2}
  RingSizes = {1, 2}
  SmallRing = 1
  DefaultRing = 1
  ExactLimit = 1
  LogInstalled = FALSE
  MaxSent = 3
SPECIFICATION FairSpec
PROPERTY AcceptedIsDispatched
