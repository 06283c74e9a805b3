CONSTANTS
  Requests = {r1, r2}
  Namespaces = {n}
  ServiceNames = {s}
  ClusterNames = {c}
  Addrs = {a, b}
  ZeroMapUsable = TRUE
  MaxCrashes = 1
  ClusterSet = {c1, c2}
  InstanceKeys = {i1}
  Adders = {a1, a2}
  Finders = {f1}
  MaxChanges = 3
  k1 = k1
  Absent = Absent
  Loop = Loop
  LeaseKeys = {k1}
  SlotNum = 3
  Lease = 3
  Second = 2
  Half = 8
  Half32 = 2
  MaxNow = 1
  MaxGrants = 2
  MaxWatchers = 1
  MaxCtx = 3
SPECIFICATION ServerSpec
INVARIANTS InstanceHasService OneService FindAnswers ReportsBounded LeaseIsWatched ShutdownReach
PROPERTY TypeSetOnce
CHECK_DEADLOCK FALSE
