-------------------------- MODULE MCEngineDispatch ---------------------------
(* EngineDispatch for TLC: two keys, two windows and two configurations. *)
EXTENDS EngineDispatch

CONSTANTS a, b, left, right, holds, acts

Bind(fa, fb) == [i \in Ident |-> IF i = a THEN fa ELSE fb]

\* holds: key a enters a mode, and reloads or hides there; b holds a relay
\* there, and outside only in the left window.
\* acts: every other kind of binding; b is bound in one mode and not in another.
Bindings ==
  [c \in Config |-> [m \in Mode |-> [w \in Window |->
     IF c = holds
     THEN IF m = "child" THEN IF w = left THEN Bind("reload", "holdStay")
                                          ELSE Bind("hide", "holdStay")
          ELSE IF w = left THEN Bind("enter", "hold")
          ELSE Bind("enter", "none")
     ELSE IF m = "child" THEN IF w = left THEN Bind("leave", "error")
                                          ELSE Bind("root", "once")
          ELSE IF w = left THEN Bind("enter", "none")
          ELSE Bind("enter", "reload")]]]

\* What is held outside a mode enters one or reloads, what is held in it goes back.
HeldAsks ==
  [k \in HeldKind |->
     IF k = "hold" THEN {"enter", "reload"} ELSE {"leave", "root", "hide"}]

=============================================================================
