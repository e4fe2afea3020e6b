------------------------------- MODULE Tables --------------------------------
(***************************************************************************)
(* Partial functions, for the maps the code keeps: a HashMap from D to R   *)
(* is a function from some of D to R.                                      *)
(***************************************************************************)

Table(D, R) == UNION {[S -> R] : S \in SUBSET D}
Put(f, x, v) == [y \in DOMAIN f \cup {x} |-> IF y = x THEN v ELSE f[y]]
Without(f, x) == [y \in DOMAIN f \ {x} |-> f[y]]

=============================================================================
