\* Three menus over two windows with three keys pressed, two changes of focus, a tick and
\* a refused rebind or reload; two identifiers, two gestures and two stops by two callers;
\* a selector with four keys pressed, one refused message and one reload; and a connection
\* with two servers, two commands of the user and two changes of the permissions.
SPECIFICATION Spec
CONSTANTS
  Menu = {"root", "one", "two"}
  Root = "root"
  Key = {"a", "b", "c", "x"}
  Win = {"w1", "w2"}
  View <- Views
  Failing = failing
  NoWin = noWin
  Pushed = pushed
  FirstWin = "w1"
  MaxDepth = 4
  MaxPressed = 3
  MaxMoves = 2
  MaxTicks = 1
  MaxGiveUps = 1
  Gesture = {g1, g2}
  Caller = {c1, c2}
  MaxRuns = 2
  MaxStops = 2
  Count <- Matching
  MaxVisible = 3
  MaxQuery = 2
  MaxKeys = 4
  MaxRefused = 1
  MaxReloads = 1
  EventTap = TRUE
  MaxSpawns = 2
  MaxControls = 2
  MaxFlips = 2
INVARIANTS
  ModesReachable
  NoOrphanedRepeat
  WindowHoldsSelection
  SelectorSettles
  HealthTellsConnection
  NoOrphanServer
PROPERTIES
  RootKeysServe
  OneShotsSurvive
  StopsReturn
  ShutdownFinishes
CHECK_DEADLOCK FALSE
