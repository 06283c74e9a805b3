SPECIFICATION LifeSpec
INVARIANT ShutdownCloses
CHECK_DEADLOCK FALSE
