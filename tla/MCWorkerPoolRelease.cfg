\* The promise of the retained release, with production's shape: capacity above one.
SPECIFICATION MCSpec
CONSTANTS
  Id = {k1}
  Capacity = 2
  MaxGeneration = 4
  MaxEvents = 6
  MaxPanics = 0
  Parallel = FALSE
INVARIANTS
  ReleaseRetained
