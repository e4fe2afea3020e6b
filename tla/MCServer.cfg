\* Two connections, one after the other or together, and a parent that may die; and a
\* lane with two snapshot classes, room for two events, and four notifications.
SPECIFICATION Spec
CONSTANTS
  Conn = {a, b}
  HasParent = TRUE
  Slot = {hud, heartbeat}
  LaneCapacity = 2
  MaxNotices = 4
INVARIANTS
  SleepsOnlyWhenDone
PROPERTIES
  IdleOnlyWhenAlone
  ServerEnds
  EndsWhenAlone
CHECK_DEADLOCK FALSE
