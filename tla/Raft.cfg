SPECIFICATION RaftSpec
CONSTANTS
  g1 = g1
  g2 = g2
  a1 = a1
  a2 = a2
  n1 = n1
  n2 = n2
  Groups = {g1, g2}
  Callers = {a1, a2}
  Batches <- SomeBatches
  MaxAdds = 2
  MaxShutdowns = 2
  StartAccepted = TRUE
  Nodes = {n1, n2}
  SnapshotEntries = 1
  CompactionOverhead = 1
  MaxLog = 3
  MaxStarts = 2
  Kinds = {tcp, http}
  Tcp = tcp
  Addrs = {a, b}
  None = None
  Slots = {0, 1}
  MaxTasks = 2
INVARIANTS MissingOnlyBelowSnapshot NothingBehindAFailure AcceptedIsScheduled AtMostOneMoreRun
PROPERTY OrphanForEver CommittedIsReached CheckedUntilRemoved
CHECK_DEADLOCK FALSE
