---------------------------- MODULE KeyedDelivery ----------------------------
(***************************************************************************)
(* What the worker pool promises its two neighbours: the dispatcher, which *)
(* hands it the messages of each key in order, and the engine, which must  *)
(* see them one at a time in that order.  Keys are independent.            *)
(***************************************************************************)
EXTENDS Naturals, Sequences

CONSTANTS Id, Message, NoMessage

VARIABLES
  backlog,   \* key -> accepted messages the engine has not seen, oldest first
  serving    \* key -> the message inside the engine, or NoMessage

vars == <<backlog, serving>>

Init ==
  /\ backlog = [i \in Id |-> <<>>]
  /\ serving = [i \in Id |-> NoMessage]

Accept(i, m) ==
  /\ backlog' = [backlog EXCEPT ![i] = Append(@, m)]
  /\ UNCHANGED serving

Serve(i) ==
  /\ serving[i] = NoMessage
  /\ backlog[i] # <<>>
  /\ serving' = [serving EXCEPT ![i] = Head(backlog[i])]
  /\ backlog' = [backlog EXCEPT ![i] = Tail(@)]

Finish(i) ==
  /\ serving[i] # NoMessage
  /\ serving' = [serving EXCEPT ![i] = NoMessage]
  /\ UNCHANGED backlog

\* A panic while serving loses that message and the oldest n of the backlog.
Crash(i) ==
  /\ serving[i] # NoMessage
  /\ serving' = [serving EXCEPT ![i] = NoMessage]
  /\ \E n \in 0..Len(backlog[i]) :
       backlog' = [backlog EXCEPT ![i] = SubSeq(@, n + 1, Len(@))]

Next == \E i \in Id :
  \/ \E m \in Message : Accept(i, m)
  \/ Serve(i)
  \/ Finish(i)
  \/ Crash(i)

Spec == Init /\ [][Next]_vars

\* With nobody crashing, whatever is accepted is served.
Fairness == \A i \in Id : WF_vars(Serve(i)) /\ WF_vars(Finish(i))

FairSpec == Spec /\ Fairness

=============================================================================
