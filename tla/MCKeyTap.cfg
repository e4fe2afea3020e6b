\* Two keys, ids that wrap after three, nested guards of depth one.
SPECIFICATION Spec
CONSTANTS
  Key = {a, b}
  Mods = {plain}
  IdSpace = 4
  MaxRegistrations = 4
  MaxGuards = 1
  MaxDisables = 1
INVARIANTS
  ConsumerInSync
  NoPartialKeystroke
  RetainedIdentity
