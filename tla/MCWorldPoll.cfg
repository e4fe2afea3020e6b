\* Two callers, two generations, a change of focus while captures may fail, one
\* retained event.
SPECIFICATION FairSpec
CONSTANTS
  Caller = {p, q}
  Window = {left}
  NoWindow = NoWindow
  Capacity = 1
  MaxRequests = 2
  MaxChanges = 1
INVARIANTS
  RefreshIsFresh
  CacheFollows
PROPERTIES
  RefreshReturns
