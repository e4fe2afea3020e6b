---------------------------- MODULE MCWorkerPool ----------------------------
(* Small instances of WorkerPool for TLC. *)
EXTENDS WorkerPool

\* Nothing left to read and every worker gone: the pool may rest here, so a
\* deadlock anywhere else is an error.
Terminated ==
  /\ DispatcherWaits
  /\ \A g \in Generation : ~Live(g)
  /\ UNCHANGED vars

MCNext == Next \/ Terminated
MCSpec == Init /\ [][MCNext]_vars
MCFairSpec == MCSpec /\ Fairness

=============================================================================
