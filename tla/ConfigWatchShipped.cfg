CONSTANTS
  Requests = {r1, r2}
  Asks <- SmallAsks
  Changes <- SmallChanges
  Unencodable <- SmallUnencodable
  ValuesSpread = FALSE
  MaxEvents = 2
SPECIFICATION FairSpec
PROPERTIES WatchersTold
CHECK_DEADLOCK FALSE
