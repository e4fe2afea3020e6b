------------------------------- MODULE MCParts -------------------------------
(* The mode stack, the repeater, the selector and the app's connection share no *)
(* state here: each is explored alone. *)
EXTENDS ModeStack, Repeats, Selector, AppDriver

Enter(chord, menu, all) ==
  [chord |-> chord, kind |-> "enter", to |-> menu,
   asks |-> FALSE, global |-> all, held |-> FALSE]
Act(chord, nav, menu, all, hold) ==
  [chord |-> chord, kind |-> nav, to |-> menu, asks |-> FALSE, global |-> all, held |-> hold]
Lists(declared, all) == [bindings |-> declared, capture |-> all]

\* The root offers one menu in a window and the other in the other window; a way out is
\* global, and so is the entry of the second menu.  The first menu declares a chord
\* twice and hides the way out, and is empty in the other window, where the second fails.
Views ==
  [root |->
     [w1 |-> Lists(<<Enter("a", "one", FALSE), Act("x", "exit", "root", TRUE, FALSE),
                     Enter("b", "two", TRUE)>>, FALSE),
      w2 |-> Lists(<<Enter("a", "two", FALSE),
                     Act("x", "hideHud", "root", TRUE, FALSE)>>, FALSE)],
   one |->
     [w1 |-> Lists(<<Act("a", "push", "two", FALSE, TRUE), Enter("a", "one", FALSE),
                     Enter("c", "two", FALSE), Act("x", "stay", "root", FALSE, FALSE)>>, TRUE),
      w2 |-> Lists(<<>>, FALSE)],
   two |->
     [w1 |-> Lists(<<Act("a", "pop", "root", FALSE, TRUE),
                     Act("c", "showRoot", "root", TRUE, FALSE)>>, FALSE),
      w2 |-> Failing]]

\* Four items match the empty query, three a character, none two.
Matching == [q \in 0..2 |-> CASE q = 0 -> 4 [] q = 1 -> 3 [] q = 2 -> 0]

VARIABLE part      \* the part that runs; the others stay as they began

Init ==
  /\ part \in {"modes", "repeats", "selector", "connection"}
  /\ InitStack /\ RepeatsInit /\ SelectorInit /\ AppInit
  /\ part # "selector" => ~hudShown
  /\ part # "connection" => granted

RunModes ==
  part = "modes" /\ ModeStackNext /\ UNCHANGED <<part, repeatsVars, selectorVars, appVars>>
RunRepeats ==
  part = "repeats" /\ RepeatsNext /\ UNCHANGED <<part, modeStackVars, selectorVars, appVars>>
RunSelector ==
  part = "selector" /\ SelectorNext /\ UNCHANGED <<part, modeStackVars, repeatsVars, appVars>>
RunConnection ==
  part = "connection" /\ AppNext /\ UNCHANGED <<part, modeStackVars, repeatsVars, selectorVars>>

Next == RunModes \/ RunRepeats \/ RunSelector \/ RunConnection

\* AppFair of the part that runs: the connection that never begins is not to be fair.
\* The repeater that never begins has nothing to do, and RepeatsFair holds of it.
ConnectionFair ==
  /\ WF_appVars(part = "connection" /\ ConnectStep)
  /\ WF_appVars(part = "connection" /\ DriverStep)

Spec ==
  /\ Init /\ [][Next]_<<part, modeStackVars, repeatsVars, selectorVars, appVars>>
  /\ RepeatsFair /\ ConnectionFair

=============================================================================
