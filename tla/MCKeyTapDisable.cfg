\* One key, one disabled tap: a press record outlives its key-up.
SPECIFICATION Spec
CONSTANTS
  Key = {a}
  Mods = {plain}
  IdSpace = 4
  MaxRegistrations = 1
  MaxGuards = 1
  MaxDisables = 1
INVARIANTS
  ReleasedPressForgotten
