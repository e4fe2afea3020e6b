SPECIFICATION FairSpec
CONSTANTS
  a = a
  b = b
  left = left
  right = right
  holds = holds
  acts = acts
  Ident = {a, b}
  Window = {left, right}
  NoWindow = NoWindow
  FirstFocus = left
  Config = {holds, acts}
  Binding <- Bindings
  Asks <- HeldAsks
  MaxId = 6
  MaxPresses = 3
  MaxFocus = 1
  MaxRefusals = 1
  MaxEffects = 1
INVARIANTS
  GesturesEnd
  HeldUntilRelease
  OneTransaction
  ModeSettles
PROPERTIES
  SessionPinned
  ComesToRest
CHECK_DEADLOCK FALSE
