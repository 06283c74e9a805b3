CONSTANTS
  KeySet = {1, 2, 3, 4, 5}
  MaxSize = 7
  c1 = c1
  c2 = c2
  Callers = {c1, c2}
  Batches <- SomeBatches
  MaxOps = 2
  s1 = s1
  k1 = k1
  i1 = i1
  i2 = i2
  r1 = r1
  Services = {s1}
  Clusters = {k1}
  Instances = {i1, i2}
  Readers = {r1}
  MaxVersion = 3
  MaxCrashes = 1
  q1 = q1
  q2 = q2
  q3 = q3
  Sessions = {q1, q2, q3}
  Rows = {1, 2}
  StatementLists <- SomeStatements
  Nobody = Nobody
SPECIFICATION StorageSpec
INVARIANTS TreeCoversStore BatchSeenWhole ListNotNewer RemovedIsGone ModifiesAreWhole
PROPERTY TreeKeepsKeys LockComesFree
CHECK_DEADLOCK FALSE
