---------------------------- MODULE BindingTable -----------------------------
(***************************************************************************)
(* What the key binding manager promises the engine: asked for a table of  *)
(* chords, it replaces the one in force as a whole, or refuses and leaves  *)
(* it as it was.                                                           *)
(***************************************************************************)
CONSTANTS Ident, Chord

VARIABLES
  chords,   \* identifier -> the chord it is bound to, a partial function
  asked,    \* an update is under way
  wanted    \* the table asked for

vars == <<chords, asked, wanted>>

Wanted == UNION {[S -> Chord] : S \in SUBSET Ident}
Nothing == {f \in Wanted : DOMAIN f = {}}

Init ==
  /\ chords \in Nothing
  /\ asked = FALSE
  /\ wanted \in Nothing

Ask(w) ==
  /\ ~asked
  /\ asked' = TRUE
  /\ wanted' = w
  /\ UNCHANGED chords

Answer ==
  /\ asked
  /\ asked' = FALSE
  /\ wanted' \in Nothing

Grant == Answer /\ chords' = wanted
Refuse == Answer /\ chords' = chords

Next == (\E w \in Wanted : Ask(w)) \/ Grant \/ Refuse

Spec == Init /\ [][Next]_vars

=============================================================================
