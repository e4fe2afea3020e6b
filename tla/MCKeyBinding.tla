---------------------------- MODULE MCKeyBinding -----------------------------
(* KeyBinding for TLC: identifiers are alike, and so are chords. *)
EXTENDS KeyBinding, TLC

Symmetry == Permutations(Ident) \cup Permutations(Chord)

=============================================================================
