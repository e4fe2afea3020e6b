SPECIFICATION Spec
CONSTANTS
  a = a
  b = b
  left = left
  right = right
  holds = holds
  acts = acts
  Ident = {a, b}
  Window = {left, right}
  NoWindow = NoWindow
  FirstFocus = left
  Config = {holds, acts}
  Binding <- Bindings
  Asks <- HeldAsks
  MaxId = 8
  MaxPresses = 4
  MaxFocus = 1
  MaxRefusals = 0
  MaxEffects = 0
INVARIANT ContextSettles
CHECK_DEADLOCK FALSE
