\* Three identifiers, two chords, five registrations, one event under way: an
\* update may keep, move, add and remove a binding, and fail after any of them.
SPECIFICATION Spec
CONSTANTS
  Ident = {i, j, k}
  Chord = {c, d}
  MaxId = 5
  MaxEvents = 1
SYMMETRY Symmetry
INVARIANTS
  LookupsAgree
  ResolvedIsPressed
  NoInterceptionGap
PROPERTY ImplementsTable
CHECK_DEADLOCK FALSE
