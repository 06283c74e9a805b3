CONSTANTS
  Requests = {r1, r2}
  Asks <- SmallAsks
  Changes <- SmallChanges
  Unencodable <- SmallUnencodable
  ValuesSpread = TRUE
  MaxEvents = 2
  Operations = {o1, o2}
  MaxClock = 3
SPECIFICATION ConfigSpec
INVARIANTS ToldOnceWhatIsWatched NewerLostOnlyToOverlap
PROPERTY WatchersTold
CHECK_DEADLOCK FALSE
