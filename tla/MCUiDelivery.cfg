\* A lane with room for as many events as threads send, and events enough to
\* fill it and to wait with a snapshot before it.
SPECIFICATION FairSpec
CONSTANTS
  driver = driver
  tray = tray
  hud = hud
  selector = selector
  Sender = {driver, tray}
  Class = {hud, selector}
  Sends <- Kinds
  Inputs <- Doings
  Capacity = 2
  MaxEvents = 4
INVARIANTS
  SenderOrder
  NewestLast
  Accounted
PROPERTIES
  SendsEnd
CHECK_DEADLOCK FALSE
