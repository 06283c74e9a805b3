CONSTANTS
  Topics = {ta}
  ClockTopics = {ta}
  Subscribers = {s1, s2}
  IgnoreExpire = {s1}
  Faulty = {s1}
  SeqNos = {4, 5, 7}
  RingSizes = {1, 2}
  SmallRing = 1
  DefaultRing = 1
  ExactLimit = 4
  LogInstalled = TRUE
  MaxSent = 3
  SlowTopics = {ta, tb}
  Listeners = {s1, s2}
  Panicking = {s2}
  SlowRing = 1
  OwnerSet = TRUE
  MaxSlowSent = 2
SPECIFICATION PublishersSpec
INVARIANTS DeliveredOnceInOrder NoExpiredDelivery NothingLost SlowInOrderNoneLost NoCallbackAfterRemove
PROPERTY AcceptedIsDispatched
