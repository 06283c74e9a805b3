SPECIFICATION MembersSpec
CONSTANTS
  s1 = s1
  s2 = s2
  n1 = n1
  n2 = n2
  n3 = n3
  RingNodes <- MCRingNodes
  MaxCode = 4
  Switchers <- MCSwitchers
  FirstKind = "file"
  LogInstalled = TRUE
  CleanParse = TRUE
  MaxQueue = 1
  MaxLookups = 3
  MaxWrites = 2
INVARIANTS SettledIsLive LateListAtMostOne
PROPERTY FileChangeDelivered RingMovesLittle
CHECK_DEADLOCK FALSE
