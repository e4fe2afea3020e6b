\* The assertion of the flush loop, with a full lane.
SPECIFICATION Spec
CONSTANTS
  driver = driver
  tray = tray
  hud = hud
  selector = selector
  Sender = {driver, tray}
  Class = {hud}
  Sends <- Kinds
  Inputs <- Doings
  Capacity = 3
  MaxEvents = 5
INVARIANT SnapshotPresent
CHECK_DEADLOCK FALSE
