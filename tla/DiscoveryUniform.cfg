CONSTANTS
  Requests = {r1, r2}
  Namespaces = {n}
  ServiceNames = {s}
  ClusterNames = {c}
  Addrs = {a, b}
  ZeroMapUsable = TRUE
  MaxCrashes = 0
SPECIFICATION Spec
INVARIANT ClusterUniform
CHECK_DEADLOCK FALSE
