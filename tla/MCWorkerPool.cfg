\* Two keys, workers replaced after a panic, a full channel and a shutdown at any point.
SPECIFICATION MCFairSpec
CONSTANTS
  Id = {k1, k2}
  Capacity = 2
  MaxGeneration = 4
  MaxEvents = 5
  MaxPanics = 1
  Parallel = TRUE
INVARIANTS
  MutualExclusion
  NoOvertaking
  PendingAccounting
PROPERTIES
  NothingAbandoned
  DeliversEverything
  ShutdownEndsWorkers
