----------------------- MODULE EngineDispatchProofs ------------------------
(***************************************************************************)
(* Proofs about EngineDispatch, for any keys, bindings, workers and        *)
(* bounds.                                                                 *)
(*                                                                         *)
(* First the configuration transaction: those who rebind, reload or clear  *)
(* stand in its queue once each, and only its head works (CoreIInv). On    *)
(* that rest the others, which follow the presses, the releases and the    *)
(* wish to render through the queues of the workers.                       *)
(***************************************************************************)
EXTENDS EngineDispatch, FiniteSetTheorems, SequenceTheorems, TLAPS

----------------------------------------------------------------------------
(* Jobs. *)

Pc == {"idle", "refresh", "rebind", "clear", "release", "select", "resolve", "execute",
       "autoExit", "prepare", "commit", "endRelay", "hudUp", "stop"}
Then == {"idle", "select", "autoExit", "stop"}

\* The fields of a job.
LEMMA JobFields ==
  ASSUME NEW j \in Job
  PROVE  /\ j.pc \in Pc /\ j.focus \in Window /\ j.ctx \in Window /\ j.kind \in Kind
         /\ j.tell \in BOOLEAN /\ j.waits \in BOOLEAN /\ j.then \in Then
  BY DEF Job, Pc, Then

LEMMA IdleIsJob == Idle \in Job /\ Idle.pc = "idle"
  BY EngineAssumption DEF Idle, Job, Kind

\* A job that has gone on, with what else was written to it.
LEMMA JobGoes ==
  ASSUME NEW j \in Job, NEW p \in Pc
  PROVE  /\ [j EXCEPT !.pc = p] \in Job
         /\ [j EXCEPT !.pc = p].pc = p
  BY DEF Job, Pc

LEMMA JobWaits ==
  ASSUME NEW j \in Job, NEW p \in Pc, NEW w \in BOOLEAN
  PROVE  /\ [j EXCEPT !.pc = p, !.waits = w] \in Job
         /\ [j EXCEPT !.pc = p, !.waits = w].pc = p
  BY DEF Job, Pc

LEMMA JobThen ==
  ASSUME NEW j \in Job, NEW p \in Pc, NEW th \in Then
  PROVE  /\ [j EXCEPT !.pc = p, !.then = th] \in Job
         /\ [j EXCEPT !.pc = p, !.then = th].pc = p
  BY DEF Job, Pc, Then

LEMMA JobSelects ==
  ASSUME NEW j \in Job, NEW p \in Pc, NEW th \in Then, NEW f \in Window
  PROVE  /\ [j EXCEPT !.pc = p, !.focus = f, !.then = th] \in Job
         /\ [j EXCEPT !.pc = p, !.focus = f, !.then = th].pc = p
  BY DEF Job, Pc, Then

LEMMA JobResolves ==
  ASSUME NEW j \in Job, NEW p \in Pc, NEW k \in Kind, NEW c \in Window
  PROVE  /\ [j EXCEPT !.pc = p, !.kind = k, !.ctx = c] \in Job
         /\ [j EXCEPT !.pc = p, !.kind = k, !.ctx = c].pc = p
  BY DEF Job, Pc

LEMMA JobPrepares ==
  ASSUME NEW j \in Job, NEW p \in Pc, NEW c \in Window
  PROVE  /\ [j EXCEPT !.pc = p, !.ctx = c] \in Job
         /\ [j EXCEPT !.pc = p, !.ctx = c].pc = p
  BY DEF Job, Pc

LEMMA JobStarts ==
  ASSUME NEW b \in BOOLEAN, NEW w \in BOOLEAN
  PROVE  /\ [Idle EXCEPT !.pc = "refresh", !.tell = b] \in Job
         /\ [Idle EXCEPT !.pc = "refresh", !.tell = b].pc = "refresh"
         /\ [Idle EXCEPT !.pc = "endRelay", !.tell = b, !.waits = w] \in Job
         /\ [Idle EXCEPT !.pc = "endRelay", !.tell = b, !.waits = w].pc = "endRelay"
  BY EngineAssumption DEF Idle, Job, Kind

----------------------------------------------------------------------------
(* Types. *)

\* Workers work for registrations that were made.
IdsMade ==
  /\ \A i \in Ident : bound[i] <= nextId /\ pressed[i] <= nextId
  /\ \A id \in held : id <= nextId
  /\ \A id \in Id : queue[id] # <<>> \/ ~At(id, "idle") => id <= nextId

TypeIInv == TypeOK /\ IdsMade /\ refusals \in Nat

\* A step of one task from one of some places to one of others.
Moves(t, from, to) ==
  /\ t \in Task
  /\ job[t].pc \in from
  /\ job' \in [Task -> Job]
  /\ job'[t].pc \in to
  /\ \A u \in Task \ {t} : job'[u] = job[u]

LEMMA MovesTo ==
  ASSUME TypeIInv, NEW t \in Task, NEW j \in Job, job' = [job EXCEPT ![t] = j]
  PROVE  Moves(t, {job[t].pc}, {j.pc})
  BY DEF TypeIInv, TypeOK, Moves

LEMMA GoMoves ==
  ASSUME TypeIInv, NEW t \in Task, NEW p \in Pc, Go(t, p)
  PROVE  Moves(t, {job[t].pc}, {p})
<1>1. job[t] \in Job
  BY DEF TypeIInv, TypeOK
<1> QED
  BY <1>1, JobGoes, MovesTo DEF Go

LEMMA DoneMoves ==
  ASSUME TypeIInv, NEW t \in Task, Done(t)
  PROVE  Moves(t, {job[t].pc}, {"idle"})
  BY IdleIsJob, MovesTo DEF Done

LEMMA ReturnMoves ==
  ASSUME TypeIInv, NEW t \in Task, Return(t)
  PROVE  Moves(t, {job[t].pc}, Then)
<1>1. job[t].then \in Then /\ Then \subseteq Pc
  BY JobFields DEF TypeIInv, TypeOK, Then, Pc
<1>2. CASE job[t].then = "idle" /\ Done(t)
  BY <1>1, <1>2, DoneMoves DEF Moves
<1>3. CASE job[t].then # "idle" /\ Go(t, job[t].then)
  BY <1>1, <1>3, GoMoves DEF Moves
<1> QED
  BY <1>2, <1>3 DEF Return

LEMMA LockMoves ==
  ASSUME TypeIInv, NEW t \in Task, NEW p \in Pc, Lock(t, p)
  PROVE  Moves(t, {job[t].pc}, {p}) /\ transaction' = Append(transaction, t)
<1>1. job[t] \in Job /\ (transaction # <<>>) \in BOOLEAN
  BY DEF TypeIInv, TypeOK
<1> DEFINE j == [job[t] EXCEPT !.pc = p, !.waits = transaction # <<>>]
<1>2. job' = [job EXCEPT ![t] = j]
  BY DEF Lock
<1>3. j \in Job /\ j.pc = p
  BY <1>1, JobWaits
<1> QED
  BY <1>2, <1>3, MovesTo DEF Lock

\* What a key does in what is rendered, and the window a binding works in.
LEMMA KindsTyped ==
  ASSUME TypeIInv, NEW i \in Ident PROVE Kinds(rendered, i) \in Kind
  BY EngineAssumption DEF TypeIInv, TypeOK, Kinds

LEMMA ContextTyped ==
  ASSUME TypeIInv, NEW w \in Window PROVE Context(w) \in Window
  BY DEF TypeIInv, TypeOK, Context

LEMMA OwnerTyped ==
  ASSUME TypeIInv, NEW id \in Id, queue[id] # <<>> \/ ~At(id, "idle")
  PROVE  id \in 1..nextId /\ owner[id] \in Ident /\ id \in Task /\ job[id] \in Job
<1>1. nextId \in Nat /\ id \in Nat /\ id >= 1 /\ id <= nextId
  BY EngineAssumption DEF TypeIInv, TypeOK, IdsMade, Id
<1>2. id \in 1..nextId
  BY <1>1
<1> QED
  BY <1>2 DEF TypeIInv, TypeOK, Task

\* As many ids as keys, no two of them for one id: each id is some key's.
LEMMA EveryIdHasKey ==
  ASSUME NEW new \in SUBSET Ident, NEW n \in Nat, NEW m, m = n + Cardinality(new),
         NEW ids \in [new -> (n + 1)..m],
         \A i, j \in new : ids[i] = ids[j] => i = j
  PROVE  /\ m \in Nat /\ n <= m
         /\ \A id \in (n + 1)..m : (CHOOSE i \in new : ids[i] = id) \in new
<1>1. IsFiniteSet(new) /\ Cardinality(new) \in Nat
  BY EngineAssumption, FS_Subset, FS_CardinalityType
<1>2. m \in Nat /\ n <= m
  BY <1>1
<1>3. /\ IsFiniteSet((n + 1)..m)
      /\ Cardinality((n + 1)..m) = Cardinality(new)
  <2>1. n + 1 \in Int /\ m \in Int
    BY <1>2
  <2>2. /\ IsFiniteSet((n + 1)..m)
        /\ Cardinality((n + 1)..m) = IF n + 1 > m THEN 0 ELSE m - (n + 1) + 1
    BY <2>1, FS_Interval
  <2> QED
    BY <1>1, <2>2
<1>4. ids \in Injection(new, (n + 1)..m)
  BY DEF Injection, IsInjective
<1>5. ids \in Surjection(new, (n + 1)..m)
  BY <1>3, <1>4, FS_Injection
<1>6. \A id \in (n + 1)..m : \E i \in new : ids[i] = id
  BY <1>5 DEF Surjection
<1> QED
  BY <1>2, <1>6

\* rebind's registrations: the ids that were made keep their owners.
LEMMA RerenderTyped ==
  ASSUME TypeIInv, NEW view \in [config : Config, mode : Mode, window : Window], Rerender(view)
  PROVE  /\ rendered' = view
         /\ nextId' \in 0..MaxId /\ nextId <= nextId' /\ nextId \in Nat
         /\ bound' \in [Ident -> Id \cup {NoId}]
         /\ \A i \in Ident : bound'[i] <= nextId'
         /\ owner' \in [1..nextId' -> Ident]
         /\ \A id \in 1..nextId : owner'[id] = owner[id]
         /\ strayed' = FALSE
<1> DEFINE new == Keys(view) \ Keys(rendered)
<1>1. PICK ids \in [new -> (nextId + 1)..nextId'] :
        /\ \A i, j \in new : ids[i] = ids[j] => i = j
        /\ bound' = [i \in Ident |-> IF i \in new THEN ids[i]
                                     ELSE IF i \in Keys(view) THEN bound[i]
                                     ELSE NoId]
        /\ owner' = [id \in 1..nextId' |->
                       IF id <= nextId THEN owner[id]
                       ELSE CHOOSE i \in new : ids[i] = id]
  BY DEF Rerender
<1>2. /\ rendered' = view /\ strayed' = FALSE /\ nextId' = nextId + Cardinality(new)
      /\ nextId + Cardinality(new) <= MaxId
  BY DEF Rerender
<1>3. /\ nextId \in Nat /\ nextId \in 0..MaxId /\ MaxId \in Nat
      /\ bound \in [Ident -> Id \cup {NoId}] /\ owner \in [1..nextId -> Ident]
      /\ \A i \in Ident : bound[i] <= nextId
  BY EngineAssumption DEF TypeIInv, TypeOK, IdsMade
<1>4. new \in SUBSET Ident
  BY DEF Keys
<1> HIDE DEF new
<1>5. /\ nextId' \in Nat /\ nextId <= nextId'
      /\ \A id \in (nextId + 1)..nextId' : (CHOOSE i \in new : ids[i] = id) \in new
  <2>1. PICK n, m : n = nextId /\ m = nextId'
    OBVIOUS
  <2>2. n \in Nat /\ m = n + Cardinality(new)
    BY <1>2, <1>3, <2>1
  <2>3. ids \in [new -> (n + 1)..m] /\ \A i, j \in new : ids[i] = ids[j] => i = j
    BY <1>1, <2>1
  <2>4. /\ m \in Nat /\ n <= m
        /\ \A id \in (n + 1)..m : (CHOOSE i \in new : ids[i] = id) \in new
    BY <1>4, <2>2, <2>3, EveryIdHasKey
  <2> QED
    BY <2>1, <2>4
<1>6. nextId' \in 0..MaxId
  BY <1>2, <1>3, <1>5
<1>7. ASSUME NEW i \in Ident
      PROVE  bound'[i] \in Id \cup {NoId} /\ bound'[i] <= nextId'
  <2>1. CASE i \in new
    <3>1. bound'[i] = ids[i] /\ ids[i] \in (nextId + 1)..nextId'
      BY <1>1, <2>1
    <3> QED
      BY <1>3, <1>5, <1>6, <3>1 DEF Id
  <2>2. CASE i \notin new /\ i \in Keys(view)
    <3>1. bound'[i] = bound[i] /\ bound[i] <= nextId /\ bound[i] \in Id \cup {NoId}
      BY <1>1, <1>3, <2>2
    <3>2. bound[i] \in Nat
      BY <1>3, <3>1 DEF Id, NoId
    <3> QED
      BY <1>3, <1>5, <3>1, <3>2
  <2>3. CASE i \notin new /\ i \notin Keys(view)
    <3>1. bound'[i] = NoId
      BY <1>1, <2>3
    <3> QED
      BY <1>5, <3>1 DEF NoId
  <2> QED
    BY <2>1, <2>2, <2>3
<1>8. ASSUME NEW id \in 1..nextId'
      PROVE  owner'[id] \in Ident /\ (id <= nextId => owner'[id] = owner[id])
  <2>1. CASE id <= nextId
    BY <1>1, <1>3, <2>1
  <2>2. CASE ~(id <= nextId)
    <3>1. id \in (nextId + 1)..nextId'
      BY <1>3, <1>5, <2>2
    <3>2. owner'[id] = CHOOSE i \in new : ids[i] = id
      BY <1>1, <2>2
    <3> QED
      BY <1>4, <1>5, <2>2, <3>1, <3>2
  <2> QED
    BY <2>1, <2>2
<1>9. bound' \in [Ident -> Id \cup {NoId}]
  BY <1>1, <1>7
<1>10. owner' \in [1..nextId' -> Ident]
  BY <1>1, <1>8
<1>11. \A id \in 1..nextId : owner'[id] = owner[id]
  <2>1. \A id \in 1..nextId : id \in 1..nextId' /\ id <= nextId
    BY <1>3, <1>5
  <2> QED
    BY <1>8, <2>1
<1> QED
  BY <1>2, <1>3, <1>5, <1>6, <1>7, <1>9, <1>10, <1>11

----------------------------------------------------------------------------
(* Where each action leads. *)

LEMMA StartDownMoves ==
  ASSUME TypeIInv, NEW id \in Id, StartDown(id)
  PROVE  Moves(id, {"idle"}, {"refresh"})
<1> DEFINE j == [Idle EXCEPT !.pc = "refresh", !.tell = owner[id] \notin tracked]
<1>1. j \in Job /\ j.pc = "refresh" /\ id \in Task
  BY JobStarts DEF Task
<1>2. job' = [job EXCEPT ![id] = j] /\ job[id].pc = "idle"
  BY DEF StartDown, At
<1> HIDE DEF j
<1> QED
  BY <1>1, <1>2, MovesTo

LEMMA AdoptMoves ==
  ASSUME TypeIInv, NEW t \in Task, NEW w \in Window, NEW th \in Then, Adopt(t, w, th)
  PROVE  /\ focusCtx' \in Window
         /\ \/ Moves(t, {job[t].pc}, {th}) /\ UNCHANGED transaction
            \/ Moves(t, {job[t].pc}, {"rebind"}) /\ transaction' = Append(transaction, t)
<1>1. job[t] \in Job /\ focusCtx \in Window /\ th \in Pc
  BY DEF TypeIInv, TypeOK, Then, Pc
<1>2. CASE w = focusCtx
  <2>1. UNCHANGED <<focusCtx, transaction>> /\ (IF th = "idle" THEN Done(t) ELSE Go(t, th))
    BY <1>2 DEF Adopt
  <2> QED
    BY <1>1, <2>1, DoneMoves, GoMoves
<1>3. CASE w # focusCtx
  <2> DEFINE taken == transaction # <<>>
             j == [job[t] EXCEPT !.pc = "rebind", !.focus = w, !.then = th, !.waits = taken]
  <2>1. /\ focusCtx' = w /\ transaction' = Append(transaction, t)
        /\ job' = [job EXCEPT ![t] = j]
    BY <1>3 DEF Adopt
  <2>2. "rebind" \in Pc /\ taken \in BOOLEAN
    BY DEF Pc
  <2> HIDE DEF taken
  <2>3. j \in Job /\ j.pc = "rebind"
    BY <1>1, <2>2 DEF Job, Pc, Then
  <2> HIDE DEF j
  <2> QED
    BY <2>1, <2>3, MovesTo
<1> QED
  BY <1>2, <1>3

LEMMA SelectMoves ==
  ASSUME TypeIInv, NEW id \in Id, Select(id) PROVE Moves(id, {"select"}, {"resolve"})
<1> DEFINE j == [job[id] EXCEPT !.pc = "resolve", !.focus = focusCtx, !.then = "idle"]
<1>1. id \in Task /\ job[id] \in Job /\ focusCtx \in Window
  BY DEF TypeIInv, TypeOK, Task
<1>2. "resolve" \in Pc /\ "idle" \in Then
  BY DEF Pc, Then
<1>3. j \in Job /\ j.pc = "resolve"
  BY <1>1, <1>2, JobSelects
<1>4. job' = [job EXCEPT ![id] = j] /\ job[id].pc = "select"
  BY DEF Select, At
<1> HIDE DEF j
<1> QED
  BY <1>1, <1>3, <1>4, MovesTo

LEMMA ResolveMoves ==
  ASSUME TypeIInv, NEW id \in Id, Resolve(id) PROVE Moves(id, {"resolve"}, {"execute"})
<1> DEFINE k == Kinds(rendered, owner[id])
           c == Context(job[id].focus)
           j == [job[id] EXCEPT !.pc = "execute", !.kind = k, !.ctx = c]
<1>1. id \in Task /\ job[id] \in Job /\ owner[id] \in Ident /\ job[id].pc = "resolve"
  BY OwnerTyped DEF Resolve, At
<1>2. k \in Kind /\ c \in Window
  BY <1>1, KindsTyped, ContextTyped, JobFields
<1>3. "execute" \in Pc
  BY DEF Pc
<1>4. job' = [job EXCEPT ![id] = j]
  BY DEF Resolve
<1> HIDE DEF k, c
<1>5. j \in Job /\ j.pc = "execute"
  BY <1>1, <1>2, <1>3, JobResolves
<1> HIDE DEF j
<1> QED
  BY <1>1, <1>4, <1>5, MovesTo

LEMMA AutoExitMoves ==
  ASSUME TypeIInv, NEW id \in Id, AutoExit(id)
  PROVE  Moves(id, {"autoExit"}, {"rebind"}) /\ transaction' = Append(transaction, id)
<1> DEFINE taken == transaction # <<>>
           j == [job[id] EXCEPT !.pc = "rebind", !.then = "idle", !.waits = taken]
<1>1. id \in Task /\ job[id] \in Job
  BY DEF TypeIInv, TypeOK, Task
<1>2. "rebind" \in Pc /\ "idle" \in Then /\ taken \in BOOLEAN
  BY DEF Pc, Then
<1>3. job' = [job EXCEPT ![id] = j] /\ job[id].pc = "autoExit" /\ transaction' = Append(transaction, id)
  BY DEF AutoExit, At
<1> HIDE DEF taken
<1>4. j \in Job /\ j.pc = "rebind"
  BY <1>1, <1>2 DEF Job, Pc, Then
<1> HIDE DEF j
<1> QED
  BY <1>1, <1>3, <1>4, MovesTo

LEMMA PrepareMoves ==
  ASSUME TypeIInv, NEW t \in Task, PrepareConfig(t) PROVE Moves(t, {"prepare"}, {"commit"})
<1> DEFINE j == [job[t] EXCEPT !.pc = "commit", !.ctx = rendered.window]
<1>1. job[t] \in Job /\ rendered.window \in Window /\ "commit" \in Pc
  BY DEF TypeIInv, TypeOK, Pc
<1>2. j \in Job /\ j.pc = "commit"
  BY <1>1, JobPrepares
<1>3. job' = [job EXCEPT ![t] = j] /\ job[t].pc = "prepare"
  BY DEF PrepareConfig, At
<1> HIDE DEF j
<1> QED
  BY <1>1, <1>2, <1>3, MovesTo

\* Where a reload leads, or its error.
Ended == {"autoExit", "stop", "idle"}

LEMMA ReloadedLeads ==
  ASSUME NEW t PROVE Reloaded(t) \in Ended /\ Reloaded(t) \in Then /\ Reloaded(t) \in Pc
  BY DEF Reloaded, Ended, Then, Pc

LEMMA EndedMoves ==
  ASSUME TypeIInv, NEW t \in Task, Go(t, Reloaded(t)) \/ GiveUp(t)
  PROVE  Moves(t, {job[t].pc}, Ended)
<1>1. CASE Go(t, Reloaded(t))
  <2>1. Moves(t, {job[t].pc}, {Reloaded(t)})
    BY <1>1, GoMoves, ReloadedLeads
  <2> QED
    BY <2>1, ReloadedLeads DEF Moves
<1>2. CASE GiveUp(t)
  <2>1. Moves(t, {job[t].pc}, {"idle"}) \/ Moves(t, {job[t].pc}, {"stop"})
    BY <1>2, DoneMoves, GoMoves DEF GiveUp, Pc
  <2> QED
    BY <2>1 DEF Moves, Ended
<1> QED
  BY <1>1, <1>2

LEMMA CommitMoves ==
  ASSUME TypeIInv, NEW t \in Task, NEW config \in Config, CommitConfig(t, config)
  PROVE  \/ Moves(t, {"commit"}, {"clear"}) /\ UNCHANGED transaction
         \/ Moves(t, {"commit"}, Ended) /\ Unlock
<1> DEFINE changed == Keys([config |-> config, mode |-> "root", window |-> job[t].ctx]) # Keys(rendered)
           th == Reloaded(t)
           p == IF changed THEN "clear" ELSE th
           j == [job[t] EXCEPT !.pc = p, !.then = th]
<1>1. job[t] \in Job /\ p \in Pc /\ th \in Then /\ th \in Ended
  BY ReloadedLeads DEF TypeIInv, TypeOK, Pc
<1>2. job' = [job EXCEPT ![t] = j] /\ job[t].pc = "commit"
  BY DEF CommitConfig, At
<1>3. \/ p = "clear" /\ UNCHANGED transaction
      \/ p = th /\ Unlock
  BY DEF CommitConfig
<1> HIDE DEF p, th
<1>4. j \in Job /\ j.pc = p
  BY <1>1, JobThen
<1> HIDE DEF j
<1>5. Moves(t, {"commit"}, {p})
  BY <1>1, <1>2, <1>4, MovesTo
<1>6. ASSUME p = th PROVE Moves(t, {"commit"}, Ended)
  BY <1>1, <1>5, <1>6 DEF Moves
<1> QED
  BY <1>3, <1>5, <1>6

LEMMA StartUpMoves ==
  ASSUME TypeIInv, NEW id \in Id, StartUp(id) PROVE Moves(id, {"idle"}, {"endRelay"})
<1> DEFINE told == owner[id] \in notified
           ticked == owner[id] \in ticker
           j == [Idle EXCEPT !.pc = "endRelay", !.tell = told, !.waits = ticked]
<1>1. told \in BOOLEAN /\ ticked \in BOOLEAN /\ id \in Task
  BY DEF Task
<1>2. job' = [job EXCEPT ![id] = j] /\ job[id].pc = "idle"
  BY DEF StartUp, At
<1> HIDE DEF told, ticked
<1>3. j \in Job /\ j.pc = "endRelay"
  BY <1>1, JobStarts
<1> HIDE DEF j
<1> QED
  BY <1>1, <1>2, <1>3, MovesTo

LEMMA ClearMoves ==
  ASSUME TypeIInv, NEW t \in Task, ClearTickers(t) PROVE Moves(t, {"clear"}, {"release"})
<1> DEFINE j == [job[t] EXCEPT !.pc = "release", !.waits = ticker # {}]
<1>1. job[t] \in Job /\ "release" \in Pc /\ (ticker # {}) \in BOOLEAN
  BY DEF TypeIInv, TypeOK, Pc
<1>2. j \in Job /\ j.pc = "release"
  BY <1>1, JobWaits
<1>3. job' = [job EXCEPT ![t] = j] /\ job[t].pc = "clear"
  BY DEF ClearTickers, At
<1> HIDE DEF j
<1> QED
  BY <1>1, <1>2, <1>3, MovesTo

----------------------------------------------------------------------------
(* Every step keeps the types. *)

\* A step in which nobody is registered, pressed or retained, and no worker begins.
LEMMA IdsKept ==
  ASSUME TypeIInv, UNCHANGED <<bound, pressed, held, nextId>>,
         \A id \in Id : queue'[id] # <<>> \/ ~At(id, "idle")' => queue[id] # <<>> \/ ~At(id, "idle")
  PROVE  IdsMade'
  BY DEF TypeIInv, IdsMade

LEMMA MovesKeepsIds ==
  ASSUME TypeIInv, UNCHANGED <<bound, pressed, held, nextId, queue>>,
         NEW t \in Task, NEW from, NEW to, Moves(t, from, to), "idle" \notin from \/ t \notin Id
  PROVE  IdsMade'
<1>1. \A id \in Id : id \in Task
  BY DEF Task
<1>2. \A id \in Id : ~At(id, "idle")' => ~At(id, "idle")
  BY <1>1 DEF Moves, At
<1> QED
  BY <1>2, IdsKept

LEMMA TypeBegins == Init => TypeIInv
<1> SUFFICES ASSUME Init PROVE TypeIInv
  OBVIOUS
<1>1. PICK config \in Config :
        rendered = [config |-> config, mode |-> "root", window |-> FirstFocus]
  BY DEF Init
<1>2. rendered \in [config : Config, mode : Mode, window : Window]
  BY <1>1, EngineAssumption DEF Mode
<1> DEFINE keys == Keys(rendered)
<1>3. PICK ids \in [keys -> 1..nextId] :
        /\ \A i, j \in keys : ids[i] = ids[j] => i = j
        /\ bound = [i \in Ident |-> IF i \in keys THEN ids[i] ELSE NoId]
        /\ owner = [id \in 1..nextId |-> CHOOSE i \in keys : ids[i] = id]
  BY DEF Init
<1>4. nextId = Cardinality(keys) /\ Cardinality(keys) <= MaxId
  BY DEF Init
<1>5. keys \in SUBSET Ident
  BY DEF Keys
<1> HIDE DEF keys
<1>6. nextId \in Nat /\ \A id \in 1..nextId : (CHOOSE i \in keys : ids[i] = id) \in keys
  <2>1. nextId = 0 + Cardinality(keys) /\ ids \in [keys -> (0 + 1)..nextId] /\ 0 \in Nat
    <3>1. Cardinality(keys) \in Nat
      BY <1>5, EngineAssumption, FS_Subset, FS_CardinalityType
    <3> QED
      BY <1>3, <1>4, <3>1
  <2>2. nextId \in Nat /\ \A id \in (0 + 1)..nextId : (CHOOSE i \in keys : ids[i] = id) \in keys
    BY <1>3, <1>5, <2>1, EveryIdHasKey
  <2> QED
    BY <2>2
<1>7. nextId \in 0..MaxId /\ MaxId \in Nat
  BY <1>4, <1>6, EngineAssumption
<1>8. owner \in [1..nextId -> Ident]
  BY <1>3, <1>5, <1>6
<1>9. \A i \in Ident : bound[i] \in Id \cup {NoId} /\ bound[i] <= nextId
  <2> SUFFICES ASSUME NEW i \in Ident PROVE bound[i] \in Id \cup {NoId} /\ bound[i] <= nextId
    OBVIOUS
  <2>1. bound[i] \in 1..nextId \/ bound[i] = NoId
    BY <1>3
  <2> QED
    BY <1>6, <1>7, <2>1 DEF Id, NoId
<1>10. bound \in [Ident -> Id \cup {NoId}]
  BY <1>3, <1>9
<1>11. /\ worldFocus = FirstFocus /\ worldEvents = <<>> /\ focusCtx = FirstFocus
       /\ mode = "root" /\ hud = FALSE /\ session = NoWindow /\ transaction = <<>>
       /\ held = {} /\ tracked = {} /\ notified = {} /\ relay = {} /\ ticker = {} /\ busy = {}
       /\ captured = [i \in Ident |-> [kind |-> "hold", window |-> FirstFocus]]
       /\ ticks = [i \in Ident |-> <<>>] /\ strayed = FALSE /\ job = [t \in Task |-> Idle]
       /\ queue = [id \in Id |-> <<>>] /\ pressed = [i \in Ident |-> NoId] /\ refusals = 0
  BY DEF Init
<1>12. job \in [Task -> Job]
  BY <1>11, IdleIsJob
<1>13. TypeOK
  <2>1. /\ worldFocus \in Window /\ focusCtx \in Window
        /\ mode \in Mode /\ hud \in BOOLEAN /\ session \in Window \cup {NoWindow}
    BY <1>11, EngineAssumption DEF Mode
  <2>2. /\ worldEvents \in Seq(Window)
        /\ transaction \in Seq(Task)
        /\ ticks \in [Ident -> Seq(Invocation)]
        /\ queue \in [Id -> Seq({"down", "up"})]
        /\ pressed \in [Ident -> Id \cup {NoId}]
    BY <1>11
  <2>3. captured \in [Ident -> Invocation]
    BY <1>11, EngineAssumption DEF Invocation, HeldKind
  <2> QED
    BY <1>2, <1>7, <1>8, <1>10, <1>11, <1>12, <2>1, <2>2, <2>3 DEF TypeOK
<1>14. IdsMade
  BY <1>6, <1>9, <1>11, IdleIsJob DEF IdsMade, At, Task, NoId
<1> QED
  BY <1>11, <1>13, <1>14 DEF TypeIInv

LEMMA PressTyped == ASSUME TypeIInv, NEW i \in Ident, Press(i) PROVE TypeIInv'
<1> DEFINE id == bound[i]
<1>1. /\ pressed' = [pressed EXCEPT ![i] = id] /\ id # NoId
      /\ queue' = [queue EXCEPT ![id] = Append(queue[id], "down")]
      /\ UNCHANGED <<worldVars, focusCtx, modeVars, bindVars, transaction, keyVars, repeatVars,
                     job, refusals>>
  BY DEF Press
<1>2. id \in Id /\ id <= nextId
  BY <1>1 DEF TypeIInv, TypeOK, IdsMade
<1> HIDE DEF id
<1>3. queue' \in [Id -> Seq({"down", "up"})] /\ pressed' \in [Ident -> Id \cup {NoId}]
  BY <1>1, <1>2 DEF TypeIInv, TypeOK
<1>4. TypeOK'
  BY <1>1, <1>3 DEF TypeIInv, TypeOK, worldVars, modeVars, bindVars, keyVars, repeatVars, tickVars
<1>5. \A j \in Ident : pressed'[j] <= nextId
  BY <1>1, <1>2 DEF TypeIInv, TypeOK, IdsMade
<1>6. \A d \in Id : queue'[d] = queue[d] \/ d = id
  BY <1>1 DEF TypeIInv, TypeOK
<1>7. IdsMade'
  BY <1>1, <1>2, <1>5, <1>6 DEF TypeIInv, IdsMade, At, bindVars, keyVars
<1> QED
  BY <1>1, <1>4, <1>7 DEF TypeIInv

LEMMA ReleaseTyped == ASSUME TypeIInv, NEW i \in Ident, Release(i) PROVE TypeIInv'
<1> DEFINE id == pressed[i]
<1>1. /\ pressed' = [pressed EXCEPT ![i] = NoId] /\ id # NoId
      /\ queue' = [queue EXCEPT ![id] = Append(queue[id], "up")]
      /\ UNCHANGED <<worldVars, focusCtx, modeVars, bindVars, transaction, keyVars, repeatVars,
                     job, refusals>>
  BY DEF Release
<1>2. id \in Id /\ id <= nextId /\ nextId \in Nat
  BY <1>1, EngineAssumption DEF TypeIInv, TypeOK, IdsMade
<1> HIDE DEF id
<1>3. queue' \in [Id -> Seq({"down", "up"})] /\ pressed' \in [Ident -> Id \cup {NoId}]
  BY <1>1, <1>2 DEF TypeIInv, TypeOK
<1>4. TypeOK'
  BY <1>1, <1>3 DEF TypeIInv, TypeOK, worldVars, modeVars, bindVars, keyVars, repeatVars, tickVars
<1>5. \A j \in Ident : pressed'[j] <= nextId
  BY <1>1, <1>2 DEF TypeIInv, TypeOK, IdsMade, NoId
<1>6. \A d \in Id : queue'[d] = queue[d] \/ d = id
  BY <1>1 DEF TypeIInv, TypeOK
<1>7. IdsMade'
  BY <1>1, <1>2, <1>5, <1>6 DEF TypeIInv, IdsMade, At, bindVars, keyVars
<1> QED
  BY <1>1, <1>4, <1>7 DEF TypeIInv

LEMMA MoveFocusTyped == ASSUME TypeIInv, NEW w \in Window, MoveFocus(w) PROVE TypeIInv'
<1>1. /\ worldFocus' = w /\ worldEvents' = Append(worldEvents, w)
      /\ UNCHANGED <<focusCtx, modeVars, bindVars, transaction, keyVars, repeatVars, job,
                     inputVars, refusals>>
  BY DEF MoveFocus
<1>2. worldEvents' \in Seq(Window)
  BY <1>1 DEF TypeIInv, TypeOK
<1>3. TypeOK'
  BY <1>1, <1>2 DEF TypeIInv, TypeOK, modeVars, bindVars, keyVars, repeatVars, tickVars, inputVars
<1>4. IdsMade'
  BY <1>1 DEF TypeIInv, IdsMade, At, bindVars, keyVars, inputVars
<1> QED
  BY <1>1, <1>3, <1>4 DEF TypeIInv

----------------------------------------------------------------------------
(* The transaction lock. *)

Queued == {"rebind", "prepare", "commit", "clear", "release"}
Working == {"commit", "clear", "release"}

InLine(t) == \E n \in 1..Len(transaction) : transaction[n] = t

LEMMA LineOfTasks ==
  ASSUME TypeIInv
  PROVE  /\ transaction \in Seq(Task) /\ Len(transaction) \in Nat
         /\ \A n \in 1..Len(transaction) : transaction[n] \in Task
         /\ \A t : Has(t) <=> Len(transaction) > 0 /\ transaction[1] = t
  BY DEF TypeIInv, TypeOK, Has

\* A task that neither joins nor leaves the queue.
LEMMA LockKept ==
  ASSUME TypeIInv, OneTransaction, UNCHANGED transaction,
         NEW t \in Task, NEW from, NEW to, Moves(t, from, to),
         \/ from \subseteq Queued /\ to \subseteq Queued
         \/ from \cap Queued = {} /\ to \cap Queued = {},
         to \cap Working = {} \/ Has(t)
  PROVE  OneTransaction' /\ transaction' \in Seq(Task)
<1>1. \A u \in Task : job'[u].pc \in Queued <=> job[u].pc \in Queued
  BY DEF Moves
<1>2. \A u \in Task : job'[u].pc \in Working => job[u].pc \in Working \/ Has(u)
  BY DEF Moves
<1> QED
  BY <1>1, <1>2 DEF OneTransaction, Queued, Working, TypeIInv, TypeOK, Has

LEMMA LockUntouched ==
  ASSUME TypeIInv, OneTransaction, UNCHANGED <<transaction, job>>
  PROVE  OneTransaction' /\ transaction' \in Seq(Task)
  BY DEF TypeIInv, TypeOK, OneTransaction, Has

\* A task that queues for the lock.
LEMMA LockJoined ==
  ASSUME TypeIInv, OneTransaction, NEW t \in Task, transaction' = Append(transaction, t),
         NEW from, NEW to, Moves(t, from, to), from \cap Queued = {}, to \subseteq {"rebind", "prepare"}
  PROVE  OneTransaction' /\ transaction' \in Seq(Task)
<1> DEFINE len == Len(transaction)
<1>1. /\ transaction \in Seq(Task) /\ len \in Nat
      /\ transaction' \in Seq(Task) /\ Len(transaction') = len + 1
      /\ transaction'[len + 1] = t
      /\ \A n \in 1..len : transaction'[n] = transaction[n]
  BY LineOfTasks
<1> HIDE DEF len
<1>2. ~InLine(t)
  BY DEF OneTransaction, Moves, InLine, Queued
<1>3. \A n \in 1..len : transaction[n] # t
  BY <1>2 DEF InLine, len
<1>4. \A n \in 1..len + 1 : n \in 1..len \/ n = len + 1
  BY <1>1
<1>5. ASSUME NEW u \in Task
      PROVE  job'[u].pc \in Queued <=> \E n \in 1..Len(transaction') : transaction'[n] = u
  <2>1. CASE u = t
    <3>1. len + 1 \in 1..len + 1
      BY <1>1
    <3> QED
      BY <1>1, <2>1, <3>1 DEF Moves, Queued
  <2>2. CASE u # t
    <3>1. job'[u] = job[u]
      BY <2>2 DEF Moves
    <3>2. job[u].pc \in Queued <=> \E n \in 1..len : transaction[n] = u
      BY DEF OneTransaction, Queued, len
    <3>3. \A n \in 1..len : n \in 1..len + 1
      BY <1>1
    <3> QED
      BY <1>1, <1>4, <2>2, <3>1, <3>2, <3>3
  <2> QED
    BY <2>1, <2>2
<1>6. \A n, m \in 1..Len(transaction') : transaction'[n] = transaction'[m] => n = m
  <2>1. \A n, m \in 1..len : transaction[n] = transaction[m] => n = m
    BY DEF OneTransaction, len
  <2> QED
    BY <1>1, <1>3, <1>4, <2>1
<1>7. \A u \in Task : job'[u].pc \in Working => Has(u)'
  <2> SUFFICES ASSUME NEW u \in Task, job'[u].pc \in Working PROVE Has(u)'
    OBVIOUS
  <2>1. job[u].pc \in Working
    BY DEF Moves, Working
  <2>2. Has(u)
    BY <2>1 DEF OneTransaction, Working
  <2>3. len > 0 /\ transaction[1] = u
    BY <2>2, LineOfTasks DEF len
  <2>4. 1 \in 1..len /\ transaction'[1] = u
    BY <1>1, <2>3
  <2>5. transaction' # <<>> /\ Head(transaction') = transaction'[1]
    BY <1>1
  <2> QED
    BY <2>4, <2>5 DEF Has
<1> QED
  BY <1>1, <1>5, <1>6, <1>7 DEF OneTransaction, Queued, Working

\* The task that has the lock gives it up.
LEMMA LockLeft ==
  ASSUME TypeIInv, OneTransaction, NEW t \in Task, Has(t), Unlock,
         NEW from, NEW to, Moves(t, from, to), to \cap Queued = {}
  PROVE  OneTransaction' /\ transaction' \in Seq(Task)
<1> DEFINE len == Len(transaction)
<1>1. /\ transaction \in Seq(Task) /\ len \in Nat /\ len > 0 /\ transaction[1] = t
  BY LineOfTasks
<1>2. /\ transaction' \in Seq(Task) /\ Len(transaction') = len - 1
      /\ \A n \in 1..len - 1 : transaction'[n] = transaction[n + 1]
  BY <1>1 DEF Unlock
<1> HIDE DEF len
<1>3. \A n, m \in 1..len : transaction[n] = transaction[m] => n = m
  BY DEF OneTransaction, len
<1>4. \A n \in 1..len - 1 : n + 1 \in 1..len /\ n + 1 # 1
  BY <1>1
<1>5. 1 \in 1..len
  BY <1>1
<1>6. \A n \in 1..len - 1 : transaction[n + 1] # t
  BY <1>1, <1>3, <1>4, <1>5
<1>7. ASSUME NEW u \in Task
      PROVE  job'[u].pc \in Queued <=> \E n \in 1..Len(transaction') : transaction'[n] = u
  <2>1. CASE u = t
    BY <1>2, <1>6, <2>1 DEF Moves
  <2>2. CASE u # t
    <3>1. job'[u] = job[u]
      BY <2>2 DEF Moves
    <3>2. job[u].pc \in Queued <=> \E n \in 1..len : transaction[n] = u
      BY DEF OneTransaction, Queued, len
    <3>3. ASSUME NEW n \in 1..len, transaction[n] = u
          PROVE  n - 1 \in 1..len - 1 /\ transaction'[n - 1] = u
      <4>1. n # 1
        BY <1>1, <2>2, <3>3
      <4>2. n - 1 \in 1..len - 1 /\ (n - 1) + 1 = n
        BY <1>1, <4>1
      <4> QED
        BY <1>2, <3>3, <4>2
    <3> QED
      BY <1>2, <1>4, <3>1, <3>2, <3>3
  <2> QED
    BY <2>1, <2>2
<1>8. ASSUME NEW n \in 1..len - 1, NEW m \in 1..len - 1, transaction'[n] = transaction'[m]
      PROVE  n = m
  <2>1. n + 1 = m + 1
    BY <1>2, <1>3, <1>4, <1>8
  <2> QED
    BY <2>1
<1>9. \A u \in Task : job'[u].pc \notin Working
  <2> SUFFICES ASSUME NEW u \in Task, job'[u].pc \in Working PROVE FALSE
    OBVIOUS
  <2>1. u # t /\ job[u].pc \in Working
    BY DEF Moves, Queued, Working
  <2>2. Has(u)
    BY <2>1 DEF OneTransaction, Working
  <2> QED
    BY <1>1, <2>1, <2>2 DEF Has
<1> QED
  BY <1>2, <1>7, <1>8, <1>9 DEF OneTransaction, Queued, Working

CoreIInv == TypeIInv /\ OneTransaction

LEMMA WorkersAreTasks == \A id \in Id : id \in Task
  BY DEF Task

LEMMA OthersAreTasks ==
  World \in Task /\ World \notin Id /\ \A i \in Ident : i \in Task /\ i \notin Id
  BY EngineAssumption DEF Id, Task, World

LEMMA RefusedCounts == ASSUME TypeIInv, Refused \/ UNCHANGED refusals PROVE refusals' \in Nat
  BY DEF TypeIInv, Refused

\* A press begins.
LEMMA StartDownTyped == ASSUME CoreIInv, NEW id \in Id, StartDown(id) PROVE CoreIInv'
<1>1. TypeIInv /\ OneTransaction /\ id \in Task
  BY WorkersAreTasks DEF CoreIInv
<1>2. /\ queue[id] # <<>> /\ queue' = [queue EXCEPT ![id] = Tail(queue[id])]
      /\ held' = held \cup {id} /\ tracked' = tracked \cup {owner[id]}
      /\ UNCHANGED <<worldVars, focusCtx, modeVars, bindVars, transaction,
                     notified, repeatVars, pressed, presses, refusals>>
  BY DEF StartDown
<1>3. Moves(id, {"idle"}, {"refresh"})
  BY <1>1, StartDownMoves
<1>4. OneTransaction' /\ transaction' \in Seq(Task)
  BY <1>1, <1>2, <1>3, LockKept DEF Queued, Working
<1>5. owner[id] \in Ident /\ id \in 1..nextId /\ nextId \in Nat
  BY <1>1, <1>2, OwnerTyped DEF TypeIInv, TypeOK
<1>6. queue' \in [Id -> Seq({"down", "up"})]
  BY <1>1, <1>2 DEF TypeIInv, TypeOK
<1>7. TypeOK'
  BY <1>1, <1>2, <1>3, <1>4, <1>5, <1>6
  DEF TypeIInv, TypeOK, Moves, worldVars, modeVars, bindVars, repeatVars, tickVars
<1>8. \A d \in Id : d # id => queue'[d] = queue[d] /\ job'[d] = job[d]
  BY <1>1, <1>2, <1>3, WorkersAreTasks DEF TypeIInv, TypeOK, Moves
<1>9. IdsMade'
  BY <1>1, <1>2, <1>5, <1>8 DEF TypeIInv, IdsMade, At, bindVars
<1> QED
  BY <1>1, <1>2, <1>4, <1>7, <1>9 DEF CoreIInv, TypeIInv

LEMMA DropTyped == ASSUME CoreIInv, NEW id \in Id, Drop(id) PROVE CoreIInv'
<1>1. TypeIInv /\ OneTransaction
  BY DEF CoreIInv
<1>2. /\ queue[id] # <<>> /\ queue' = [queue EXCEPT ![id] = Tail(queue[id])]
      /\ UNCHANGED <<worldVars, focusCtx, modeVars, bindVars, transaction, keyVars,
                     repeatVars, job, pressed, presses, refusals>>
  BY DEF Drop
<1>3. OneTransaction' /\ transaction' \in Seq(Task)
  BY <1>1, <1>2, LockUntouched
<1>4. queue' \in [Id -> Seq({"down", "up"})]
  BY <1>1, <1>2 DEF TypeIInv, TypeOK
<1>5. TypeOK'
  BY <1>1, <1>2, <1>4 DEF TypeIInv, TypeOK, worldVars, modeVars, bindVars, keyVars, repeatVars, tickVars
<1>6. \A d \in Id : d # id => queue'[d] = queue[d]
  BY <1>1, <1>2 DEF TypeIInv, TypeOK
<1>7. IdsMade'
  BY <1>1, <1>2, <1>6, IdsKept DEF At, bindVars, keyVars
<1> QED
  BY <1>1, <1>2, <1>3, <1>5, <1>7 DEF CoreIInv, TypeIInv

\* The focus the world has, or that it told of, is taken over.
LEMMA AdoptTyped ==
  ASSUME CoreIInv, NEW t \in Task, NEW w \in Window, NEW th \in Then, Adopt(t, w, th),
         job[t].pc \notin Queued, job[t].pc # "idle" \/ t \notin Id,
         worldEvents' \in Seq(Window), UNCHANGED <<worldFocus, modeVars, bindVars, keyVars,
                                                   repeatVars, inputVars, refusals>>
  PROVE  CoreIInv'
<1>1. TypeIInv /\ OneTransaction
  BY DEF CoreIInv
<1>2. /\ focusCtx' \in Window
      /\ \/ Moves(t, {job[t].pc}, {th}) /\ UNCHANGED transaction
         \/ Moves(t, {job[t].pc}, {"rebind"}) /\ transaction' = Append(transaction, t)
  BY <1>1, AdoptMoves
<1>3. {th} \cap Queued = {} /\ {th} \cap Working = {} /\ {job[t].pc} \cap Queued = {}
  BY DEF Then, Queued, Working
<1>4. OneTransaction' /\ transaction' \in Seq(Task)
  BY <1>1, <1>2, <1>3, LockKept, LockJoined
<1>5. job' \in [Task -> Job]
  BY <1>2 DEF Moves
<1>6. TypeOK'
  BY <1>1, <1>2, <1>4, <1>5 DEF TypeIInv, TypeOK, modeVars, bindVars, keyVars, repeatVars, tickVars, inputVars
<1>7. IdsMade'
  BY <1>1, <1>2, MovesKeepsIds DEF bindVars, keyVars, inputVars
<1> QED
  BY <1>1, <1>4, <1>6, <1>7 DEF CoreIInv, TypeIInv

LEMMA RefreshTyped == ASSUME CoreIInv, NEW id \in Id, Refresh(id) PROVE CoreIInv'
<1>1. /\ job[id].pc = "refresh" /\ Adopt(id, worldFocus, "select")
      /\ UNCHANGED <<worldVars, modeVars, bindVars, keyVars, repeatVars, inputVars, refusals>>
  BY DEF Refresh, At
<1>2. "select" \in Then /\ "refresh" \notin Queued /\ id \in Task
  BY WorkersAreTasks DEF Then, Queued
<1>3. worldFocus \in Window /\ worldEvents' \in Seq(Window) /\ worldFocus' = worldFocus
  BY <1>1 DEF CoreIInv, TypeIInv, TypeOK, worldVars
<1> QED
  BY <1>1, <1>2, <1>3, AdoptTyped

LEMMA FollowFocusTyped == ASSUME CoreIInv, FollowFocus PROVE CoreIInv'
<1>1. /\ job[World].pc = "idle" /\ worldEvents # <<>> /\ worldEvents' = Tail(worldEvents)
      /\ Adopt(World, Head(worldEvents), "idle")
      /\ UNCHANGED <<worldFocus, modeVars, bindVars, keyVars, repeatVars, inputVars, refusals>>
  BY DEF FollowFocus, At
<1>2. "idle" \in Then /\ "idle" \notin Queued /\ World \in Task /\ World \notin Id
  BY OthersAreTasks DEF Then, Queued
<1>3. Head(worldEvents) \in Window /\ worldEvents' \in Seq(Window)
  BY <1>1 DEF CoreIInv, TypeIInv, TypeOK
<1> QED
  BY <1>1, <1>2, <1>3, AdoptTyped

\* A step of a task that changes nothing that others use.
LEMMA AloneTyped ==
  ASSUME CoreIInv, NEW t \in Task, NEW from, NEW to, Moves(t, from, to),
         "idle" \notin from, from \cap Queued = {}, to \cap Queued = {},
         UNCHANGED <<worldVars, focusCtx, modeVars, bindVars, transaction, held, tracked, ticker,
                     tickVars, busy, inputVars>>,
         notified' \subseteq Ident, relay' \subseteq Ident, refusals' \in Nat
  PROVE  CoreIInv'
<1>1. TypeIInv /\ OneTransaction /\ to \cap Working = {}
  BY DEF CoreIInv, Queued, Working
<1>2. OneTransaction' /\ transaction' \in Seq(Task)
  BY <1>1, LockKept
<1>3. job' \in [Task -> Job]
  BY DEF Moves
<1>4. TypeOK'
  BY <1>1, <1>2, <1>3 DEF TypeIInv, TypeOK, worldVars, modeVars, bindVars, tickVars, inputVars
<1>5. IdsMade'
  BY <1>1, MovesKeepsIds DEF bindVars, inputVars
<1> QED
  BY <1>2, <1>4, <1>5 DEF CoreIInv, TypeIInv

LEMMA QuietTyped ==
  ASSUME CoreIInv, NEW id \in Id,
         Select(id) \/ Unbound(id) \/ Resolve(id) \/ EndRelay(id) \/ HudUp(id)
  PROVE  CoreIInv'
<1>1. TypeIInv /\ id \in Task /\ notified \subseteq Ident /\ relay \subseteq Ident
  BY WorkersAreTasks DEF CoreIInv, TypeIInv, TypeOK
<1>2. /\ UNCHANGED <<worldVars, focusCtx, modeVars, bindVars, transaction, held, tracked, ticker,
                     tickVars, busy, inputVars>>
      /\ Refused \/ UNCHANGED refusals
  BY DEF Select, Unbound, Resolve, EndRelay, HudUp, keyVars, repeatVars, tickVars
<1>3. refusals' \in Nat
  BY <1>1, <1>2, RefusedCounts
<1>4. notified' \subseteq Ident /\ relay' \subseteq Ident
  <2>1. notified' = notified \/ notified' = notified \cup ({owner[id]} \cap tracked)
    BY DEF Select, Unbound, Resolve, EndRelay, HudUp, keyVars
  <2>2. relay' = relay \/ relay' = relay \ {owner[id]}
    BY DEF Select, Unbound, Resolve, EndRelay, HudUp, repeatVars, tickVars
  <2>3. tracked \subseteq Ident
    BY <1>1 DEF TypeIInv, TypeOK
  <2> QED
    BY <1>1, <2>1, <2>2, <2>3
<1>5. \/ Moves(id, {"select"}, {"resolve"}) \/ Moves(id, {"resolve"}, {"idle"})
      \/ Moves(id, {"resolve"}, {"execute"}) \/ Moves(id, {"endRelay"}, {"hudUp"})
      \/ Moves(id, {"endRelay"}, {"idle"}) \/ Moves(id, {"hudUp"}, {"idle"})
  <2>1. "hudUp" \in Pc
    BY DEF Pc
  <2> QED
    BY <1>1, <2>1, SelectMoves, ResolveMoves, DoneMoves, GoMoves
    DEF Unbound, EndRelay, HudUp, At
<1>6. \A p \in {"select", "resolve", "execute", "endRelay", "hudUp", "idle"} : {p} \cap Queued = {}
  BY DEF Queued
<1>7. \A p \in {"select", "resolve", "endRelay", "hudUp"} : "idle" \notin {p}
  OBVIOUS
<1>8. ASSUME NEW p \in {"select", "resolve", "endRelay", "hudUp"},
             NEW q \in {"resolve", "execute", "hudUp", "idle"}, Moves(id, {p}, {q})
      PROVE  CoreIInv'
  <2>1. {p} \cap Queued = {} /\ {q} \cap Queued = {} /\ "idle" \notin {p}
    BY <1>6, <1>7
  <2> QED
    BY <1>1, <1>2, <1>3, <1>4, <1>8, <2>1, AloneTyped
<1> QED
  BY <1>5, <1>8

\* Modes and navigation.
LEMMA NavigateTyped == ASSUME CoreIInv, NEW id \in Id, Navigate(id) PROVE CoreIInv'
<1>1. /\ TypeIInv /\ OneTransaction /\ id \in Task /\ job[id].pc = "execute" /\ Lock(id, "rebind")
      /\ UNCHANGED <<worldVars, focusCtx, bindVars, keyVars, repeatVars, inputVars, refusals>>
  BY WorkersAreTasks DEF CoreIInv, Navigate, At
<1>2. Moves(id, {"execute"}, {"rebind"}) /\ transaction' = Append(transaction, id)
  BY <1>1, LockMoves DEF Pc
<1>3. OneTransaction' /\ transaction' \in Seq(Task)
  BY <1>1, <1>2, LockJoined DEF Queued
<1>4. Context(job[id].ctx) \in Window
  BY <1>1, ContextTyped, JobFields DEF TypeIInv, TypeOK
<1>5. mode' \in Mode /\ hud' \in BOOLEAN /\ session' \in Window \cup {NoWindow}
  BY <1>1, <1>4 DEF Navigate, Enter, Leave, ShowRoot, HideHud, Mode, TypeIInv, TypeOK
<1>6. job' \in [Task -> Job]
  BY <1>2 DEF Moves
<1>7. TypeOK'
  BY <1>1, <1>3, <1>5, <1>6
  DEF TypeIInv, TypeOK, worldVars, bindVars, keyVars, repeatVars, tickVars, inputVars
<1>8. IdsMade'
  BY <1>1, <1>2, MovesKeepsIds DEF bindVars, keyVars, inputVars
<1> QED
  BY <1>1, <1>3, <1>7, <1>8 DEF CoreIInv, TypeIInv

\* A step of a task to a place it works at alone, or to the queue.
LEMMA JoinsOrStays ==
  ASSUME CoreIInv, NEW t \in Task, NEW from, NEW to, Moves(t, from, to), from \cap Queued = {},
         \/ to \cap Queued = {} /\ UNCHANGED transaction
         \/ to \subseteq {"rebind", "prepare"} /\ transaction' = Append(transaction, t)
  PROVE  OneTransaction' /\ transaction' \in Seq(Task)
<1>1. TypeIInv /\ OneTransaction
  BY DEF CoreIInv
<1>2. CASE to \cap Queued = {} /\ UNCHANGED transaction
  <2>1. to \cap Working = {}
    BY <1>2 DEF Queued, Working
  <2> QED
    BY <1>1, <1>2, <2>1, LockKept
<1>3. CASE to \subseteq {"rebind", "prepare"} /\ transaction' = Append(transaction, t)
  BY <1>1, <1>3, LockJoined
<1> QED
  BY <1>2, <1>3

LEMMA RunOnceTyped == ASSUME CoreIInv, NEW id \in Id, RunOnce(id) PROVE CoreIInv'
<1>1. /\ TypeIInv /\ id \in Task /\ job[id].pc = "execute"
      /\ UNCHANGED <<worldVars, focusCtx, modeVars, bindVars, keyVars, repeatVars,
                     inputVars, refusals>>
  BY WorkersAreTasks DEF CoreIInv, RunOnce, At
<1>2. \/ Moves(id, {"execute"}, {"autoExit"}) /\ UNCHANGED transaction
      \/ Moves(id, {"execute"}, {"idle"}) /\ UNCHANGED transaction
      \/ Moves(id, {"execute"}, {"prepare"}) /\ transaction' = Append(transaction, id)
  <2>1. "autoExit" \in Pc /\ "prepare" \in Pc
    BY DEF Pc
  <2> QED
    BY <1>1, <2>1, GoMoves, DoneMoves, LockMoves DEF RunOnce
<1>3. ASSUME NEW p \in {"autoExit", "idle", "prepare"}, Moves(id, {"execute"}, {p}),
             \/ p # "prepare" /\ UNCHANGED transaction
             \/ p = "prepare" /\ transaction' = Append(transaction, id)
      PROVE  CoreIInv'
  <2>1. /\ {"execute"} \cap Queued = {} /\ "idle" \notin {"execute"}
        /\ \/ {p} \cap Queued = {} /\ UNCHANGED transaction
           \/ {p} \subseteq {"rebind", "prepare"} /\ transaction' = Append(transaction, id)
    BY <1>3 DEF Queued
  <2>2. OneTransaction' /\ transaction' \in Seq(Task)
    BY <1>1, <1>3, <2>1, JoinsOrStays
  <2>3. job' \in [Task -> Job]
    BY <1>3 DEF Moves
  <2>4. TypeOK'
    BY <1>1, <2>2, <2>3
    DEF TypeIInv, TypeOK, worldVars, modeVars, bindVars, keyVars, repeatVars, tickVars, inputVars
  <2>5. IdsMade'
    BY <1>1, <1>3, <2>1, MovesKeepsIds DEF bindVars, keyVars, inputVars
  <2> QED
    BY <1>1, <2>2, <2>4, <2>5 DEF CoreIInv, TypeIInv
<1> QED
  BY <1>2, <1>3

\* A held action begins its relay and its ticker.
LEMMA HoldTyped == ASSUME CoreIInv, NEW id \in Id, Hold(id) PROVE CoreIInv'
<1>1. /\ TypeIInv /\ id \in Task /\ job[id].pc = "execute" /\ owner[id] \in Ident
      /\ UNCHANGED <<worldVars, focusCtx, modeVars, bindVars, keyVars, ticks, inputVars, refusals>>
      /\ job[id].kind \in HeldKind
  BY WorkersAreTasks, OwnerTyped DEF CoreIInv, Hold, At
<1>2. \/ Moves(id, {"execute"}, {"autoExit"}) /\ UNCHANGED transaction
      \/ Moves(id, {"execute"}, {"rebind"}) /\ transaction' = Append(transaction, id)
  <2>1. "autoExit" \in Pc /\ "rebind" \in Pc
    BY DEF Pc
  <2> QED
    BY <1>1, <2>1, GoMoves, LockMoves DEF Hold
<1>3. relay' \subseteq Ident /\ ticker' \subseteq Ident /\ busy' \subseteq ticker'
  BY <1>1 DEF Hold, TypeIInv, TypeOK
<1>5. captured' \in [Ident -> Invocation]
  <2>1. captured \in [Ident -> Invocation] /\ job[id].ctx \in Window
    BY <1>1, JobFields DEF TypeIInv, TypeOK
  <2>2. [kind |-> job[id].kind, window |-> job[id].ctx] \in Invocation
    BY <1>1, <2>1 DEF Invocation
  <2> QED
    BY <2>1, <2>2 DEF Hold
<1>4. ASSUME NEW p \in {"autoExit", "rebind"}, Moves(id, {"execute"}, {p}),
             \/ p # "rebind" /\ UNCHANGED transaction
             \/ p = "rebind" /\ transaction' = Append(transaction, id)
      PROVE  CoreIInv'
  <2>1. /\ {"execute"} \cap Queued = {} /\ "idle" \notin {"execute"}
        /\ \/ {p} \cap Queued = {} /\ UNCHANGED transaction
           \/ {p} \subseteq {"rebind", "prepare"} /\ transaction' = Append(transaction, id)
    BY <1>4 DEF Queued
  <2>2. OneTransaction' /\ transaction' \in Seq(Task)
    BY <1>1, <1>4, <2>1, JoinsOrStays
  <2>3. job' \in [Task -> Job]
    BY <1>4 DEF Moves
  <2>4. TypeOK'
    BY <1>1, <1>3, <1>5, <2>2, <2>3
    DEF TypeIInv, TypeOK, worldVars, modeVars, bindVars, keyVars, inputVars
  <2>5. IdsMade'
    BY <1>1, <1>4, <2>1, MovesKeepsIds DEF bindVars, keyVars, inputVars
  <2> QED
    BY <1>1, <2>2, <2>4, <2>5 DEF CoreIInv, TypeIInv
<1> QED
  BY <1>2, <1>4

LEMMA AutoExitTyped == ASSUME CoreIInv, NEW id \in Id, AutoExit(id) PROVE CoreIInv'
<1>1. /\ TypeIInv /\ OneTransaction /\ id \in Task
      /\ mode' = "root" /\ hud' = FALSE /\ session' = NoWindow
      /\ UNCHANGED <<worldVars, focusCtx, bindVars, keyVars, repeatVars, inputVars, refusals>>
  BY WorkersAreTasks DEF CoreIInv, AutoExit, Leave
<1>2. Moves(id, {"autoExit"}, {"rebind"}) /\ transaction' = Append(transaction, id)
  BY <1>1, AutoExitMoves
<1>3. OneTransaction' /\ transaction' \in Seq(Task)
  BY <1>1, <1>2, LockJoined DEF Queued
<1>4. job' \in [Task -> Job]
  BY <1>2 DEF Moves
<1>5. TypeOK'
  BY <1>1, <1>3, <1>4
  DEF TypeIInv, TypeOK, Mode, worldVars, bindVars, keyVars, repeatVars, tickVars, inputVars
<1>6. IdsMade'
  BY <1>1, <1>2, MovesKeepsIds DEF bindVars, keyVars, inputVars
<1> QED
  BY <1>1, <1>3, <1>5, <1>6 DEF CoreIInv, TypeIInv

LEMMA PrepareTyped == ASSUME CoreIInv, NEW t \in Task, PrepareConfig(t) PROVE CoreIInv'
<1>1. /\ TypeIInv /\ OneTransaction /\ Has(t)
      /\ UNCHANGED <<worldVars, focusCtx, modeVars, bindVars, transaction, keyVars,
                     repeatVars, inputVars, refusals>>
  BY DEF CoreIInv, PrepareConfig
<1>2. Moves(t, {"prepare"}, {"commit"})
  BY <1>1, PrepareMoves
<1>3. OneTransaction' /\ transaction' \in Seq(Task)
  BY <1>1, <1>2, LockKept DEF Queued
<1>4. job' \in [Task -> Job]
  BY <1>2 DEF Moves
<1>5. TypeOK'
  BY <1>1, <1>3, <1>4
  DEF TypeIInv, TypeOK, worldVars, modeVars, bindVars, keyVars, repeatVars, tickVars, inputVars
<1>6. IdsMade'
  BY <1>1, <1>2, MovesKeepsIds DEF bindVars, keyVars, inputVars
<1> QED
  BY <1>1, <1>3, <1>5, <1>6 DEF CoreIInv, TypeIInv

\* A task that has the lock and clears what changed, or gives the lock back.
LEMMA KeepsOrLeaves ==
  ASSUME CoreIInv, NEW t \in Task, Has(t), NEW from, NEW to, Moves(t, from, to),
         \/ from \subseteq Queued /\ to \subseteq Queued /\ UNCHANGED transaction
         \/ to \cap Queued = {} /\ Unlock
  PROVE  OneTransaction' /\ transaction' \in Seq(Task)
<1>1. TypeIInv /\ OneTransaction
  BY DEF CoreIInv
<1>2. CASE from \subseteq Queued /\ to \subseteq Queued /\ UNCHANGED transaction
  BY <1>1, <1>2, LockKept
<1>3. CASE to \cap Queued = {} /\ Unlock
  BY <1>1, <1>3, LockLeft
<1> QED
  BY <1>2, <1>3

\* Registrations made for another view.
LEMMA RerenderKeepsIds ==
  ASSUME CoreIInv, NEW view \in [config : Config, mode : Mode, window : Window], Rerender(view),
         NEW t \in Task, NEW from, NEW to, Moves(t, from, to), "idle" \notin from,
         UNCHANGED <<keyVars, inputVars>>
  PROVE  IdsMade'
<1>1. TypeIInv /\ TypeOK /\ IdsMade /\ OneTransaction
  BY DEF CoreIInv, TypeIInv
<1>2. /\ nextId <= nextId' /\ nextId \in Nat /\ nextId' \in Nat
      /\ \A i \in Ident : bound'[i] <= nextId'
  <2>1. /\ nextId' \in 0..MaxId /\ nextId <= nextId' /\ nextId \in Nat
        /\ \A i \in Ident : bound'[i] <= nextId'
    BY <1>1, RerenderTyped
  <2>2. MaxId \in Nat
    BY EngineAssumption
  <2> QED
    BY <2>1, <2>2
<1>3. \A id \in Id : id \in Task /\ (~At(id, "idle")' => ~At(id, "idle"))
  BY WorkersAreTasks DEF Moves, At
<1>4. \A id \in Id : id \in Nat /\ (id <= nextId => id <= nextId')
  BY <1>2 DEF Id
<1>5. \A i \in Ident : pressed[i] <= nextId'
  <2> SUFFICES ASSUME NEW i \in Ident PROVE pressed[i] <= nextId'
    OBVIOUS
  <2>1. pressed[i] \in Nat /\ pressed[i] <= nextId
    BY <1>1 DEF TypeOK, IdsMade, Id, NoId
  <2> QED
    BY <1>2, <2>1
<1>6. \A id \in held : id <= nextId'
  BY <1>1, <1>4 DEF TypeOK, IdsMade
<1> QED
  BY <1>1, <1>2, <1>3, <1>4, <1>5, <1>6 DEF IdsMade, keyVars, inputVars

LEMMA CommitTyped ==
  ASSUME CoreIInv, NEW t \in Task, NEW config \in Config, CommitConfig(t, config)
  PROVE  CoreIInv'
<1> DEFINE view == [config |-> config, mode |-> "root", window |-> job[t].ctx]
<1>1. /\ TypeIInv /\ OneTransaction /\ job[t].pc = "commit"
      /\ job[t].ctx \in Window
  BY JobFields DEF CoreIInv, CommitConfig, At, TypeIInv, TypeOK
<1>2. /\ mode' = "root" /\ session' = (IF hud THEN job[t].ctx ELSE NoWindow) /\ Rerender(view)
      /\ UNCHANGED <<worldVars, focusCtx, hud, keyVars, repeatVars, inputVars, refusals>>
  BY DEF CommitConfig
<1>3. view \in [config : Config, mode : Mode, window : Window]
  BY <1>1 DEF Mode
<1> HIDE DEF view
<1>4. Has(t)
  BY <1>1 DEF OneTransaction
<1>5. /\ rendered' \in [config : Config, mode : Mode, window : Window]
      /\ nextId' \in 0..MaxId /\ bound' \in [Ident -> Id \cup {NoId}]
      /\ owner' \in [1..nextId' -> Ident] /\ strayed' = FALSE
  BY <1>1, <1>2, <1>3, RerenderTyped
<1>6. mode' \in Mode /\ session' \in Window \cup {NoWindow}
  BY <1>1, <1>2 DEF Mode
<1>7. ASSUME NEW to, Moves(t, {"commit"}, to),
             \/ to = {"clear"} /\ UNCHANGED transaction
             \/ to = Ended /\ Unlock
      PROVE  CoreIInv'
  <2>1. \/ {"commit"} \subseteq Queued /\ to \subseteq Queued /\ UNCHANGED transaction
        \/ to \cap Queued = {} /\ Unlock
    BY <1>7 DEF Queued, Ended
  <2>2. OneTransaction' /\ transaction' \in Seq(Task)
    BY <1>1, <1>4, <1>7, <2>1, KeepsOrLeaves
  <2>3. job' \in [Task -> Job]
    BY <1>7 DEF Moves
  <2>4. TypeOK'
    BY <1>1, <1>2, <1>5, <1>6, <2>2, <2>3
    DEF TypeIInv, TypeOK, worldVars, keyVars, repeatVars, tickVars, inputVars
  <2>5. IdsMade'
    BY <1>1, <1>2, <1>3, <1>7, RerenderKeepsIds
  <2> QED
    BY <1>1, <1>2, <2>2, <2>4, <2>5 DEF CoreIInv, TypeIInv
<1>8. CASE Moves(t, {"commit"}, {"clear"}) /\ UNCHANGED transaction
  BY <1>7, <1>8
<1>9. CASE Moves(t, {"commit"}, Ended) /\ Unlock
  BY <1>7, <1>9
<1> QED
  BY <1>1, <1>8, <1>9, CommitMoves

LEMMA RebindTyped == ASSUME CoreIInv, NEW t \in Task, Rebind(t) PROVE CoreIInv'
<1> DEFINE view == View(Context(job[t].focus))
           changed == Keys(view) # Keys(rendered)
<1>1. TypeIInv /\ OneTransaction /\ job[t].pc = "rebind" /\ Has(t) /\ job[t].focus \in Window
  BY JobFields DEF CoreIInv, Rebind, At, TypeIInv, TypeOK
<1>2. /\ Rerender(view)
      /\ UNCHANGED <<worldVars, focusCtx, modeVars, keyVars, repeatVars, inputVars, refusals>>
      /\ IF changed THEN Go(t, "clear") /\ UNCHANGED transaction ELSE Return(t) /\ Unlock
  BY DEF Rebind
<1>3. view \in [config : Config, mode : Mode, window : Window]
  BY <1>1, ContextTyped DEF View, TypeIInv, TypeOK
<1> HIDE DEF view, changed
<1>4. /\ rendered' \in [config : Config, mode : Mode, window : Window]
      /\ nextId' \in 0..MaxId /\ bound' \in [Ident -> Id \cup {NoId}]
      /\ owner' \in [1..nextId' -> Ident] /\ strayed' = FALSE
  BY <1>1, <1>2, <1>3, RerenderTyped
<1>5. \/ Moves(t, {"rebind"}, {"clear"}) /\ UNCHANGED transaction
      \/ Moves(t, {"rebind"}, Then) /\ Unlock
  BY <1>1, <1>2, GoMoves, ReturnMoves DEF Pc
<1>6. ASSUME NEW to, Moves(t, {"rebind"}, to),
             \/ to = {"clear"} /\ UNCHANGED transaction
             \/ to = Then /\ Unlock
      PROVE  CoreIInv'
  <2>1. /\ "idle" \notin {"rebind"}
        /\ \/ {"rebind"} \subseteq Queued /\ to \subseteq Queued /\ UNCHANGED transaction
           \/ to \cap Queued = {} /\ Unlock
    BY <1>6 DEF Queued, Then
  <2>2. OneTransaction' /\ transaction' \in Seq(Task)
    BY <1>1, <1>6, <2>1, KeepsOrLeaves
  <2>3. job' \in [Task -> Job]
    BY <1>6 DEF Moves
  <2>4. TypeOK'
    BY <1>1, <1>2, <1>4, <2>2, <2>3
    DEF TypeIInv, TypeOK, worldVars, modeVars, keyVars, repeatVars, tickVars, inputVars
  <2>5. IdsMade'
    BY <1>2, <1>3, <1>6, <2>1, RerenderKeepsIds
  <2> QED
    BY <1>1, <1>2, <2>2, <2>4, <2>5 DEF CoreIInv, TypeIInv
<1>7. CASE Moves(t, {"rebind"}, {"clear"}) /\ UNCHANGED transaction
  BY <1>6, <1>7
<1>8. CASE Moves(t, {"rebind"}, Then) /\ Unlock
  BY <1>6, <1>8
<1> QED
  BY <1>5, <1>7, <1>8

\* The holder of the lock gives it back, and changes nothing but a relay or the count.
LEMMA LeaveTyped ==
  ASSUME CoreIInv, NEW t \in Task, Has(t), Unlock,
         NEW from, NEW to, Moves(t, from, to), "idle" \notin from, to \cap Queued = {},
         UNCHANGED <<worldVars, focusCtx, modeVars, bindVars, keyVars, ticker, tickVars, busy,
                     inputVars>>,
         relay' \subseteq Ident, refusals' \in Nat
  PROVE  CoreIInv'
<1>1. TypeIInv
  BY DEF CoreIInv
<1>2. OneTransaction' /\ transaction' \in Seq(Task)
  BY KeepsOrLeaves
<1>3. job' \in [Task -> Job]
  BY DEF Moves
<1>4. TypeOK'
  BY <1>1, <1>2, <1>3
  DEF TypeIInv, TypeOK, worldVars, modeVars, bindVars, keyVars, tickVars, inputVars
<1>5. IdsMade'
  BY <1>1, MovesKeepsIds DEF bindVars, keyVars, inputVars
<1> QED
  BY <1>2, <1>4, <1>5 DEF CoreIInv, TypeIInv

LEMMA PrepareFailsTyped == ASSUME CoreIInv, NEW t \in Task, PrepareFails(t) PROVE CoreIInv'
<1>1. /\ TypeIInv /\ job[t].pc = "prepare" /\ Has(t) /\ Unlock
      /\ Refused \/ UNCHANGED refusals
      /\ Go(t, Reloaded(t)) \/ GiveUp(t)
      /\ UNCHANGED <<worldVars, focusCtx, modeVars, bindVars, keyVars, repeatVars, inputVars>>
  BY DEF CoreIInv, PrepareFails, At
<1>2. refusals' \in Nat /\ relay' \subseteq Ident
  BY <1>1, RefusedCounts DEF TypeIInv, TypeOK, repeatVars
<1>3. Moves(t, {"prepare"}, Ended)
  BY <1>1, EndedMoves
<1>4. Ended \cap Queued = {} /\ "idle" \notin {"prepare"}
  BY DEF Queued, Ended
<1> QED
  BY <1>1, <1>2, <1>3, <1>4, LeaveTyped DEF repeatVars

LEMMA CommitRefusedTyped == ASSUME CoreIInv, NEW t \in Task, CommitRefused(t) PROVE CoreIInv'
<1>1. /\ TypeIInv /\ OneTransaction /\ job[t].pc = "commit" /\ Unlock /\ Refused
      /\ Go(t, Reloaded(t)) \/ GiveUp(t)
      /\ UNCHANGED <<worldVars, focusCtx, modeVars, bindVars, keyVars, repeatVars, inputVars>>
  BY DEF CoreIInv, CommitRefused, At
<1>2. Has(t) /\ refusals' \in Nat /\ relay' \subseteq Ident
  BY <1>1, RefusedCounts DEF OneTransaction, TypeIInv, TypeOK, repeatVars
<1>3. Moves(t, {"commit"}, Ended)
  BY <1>1, EndedMoves
<1>4. Ended \cap Queued = {} /\ "idle" \notin {"commit"}
  BY DEF Queued, Ended
<1> QED
  BY <1>1, <1>2, <1>3, <1>4, LeaveTyped DEF repeatVars

LEMMA RebindRefusedTyped == ASSUME CoreIInv, NEW t \in Task, RebindRefused(t) PROVE CoreIInv'
<1>1. /\ TypeIInv /\ job[t].pc = "rebind" /\ Has(t) /\ Unlock /\ Refused /\ Done(t)
      /\ UNCHANGED <<worldVars, focusCtx, modeVars, bindVars, keyVars, repeatVars, inputVars>>
  BY DEF CoreIInv, RebindRefused, At
<1>2. refusals' \in Nat /\ relay' \subseteq Ident
  BY <1>1, RefusedCounts DEF TypeIInv, TypeOK, repeatVars, tickVars
<1>3. Moves(t, {"rebind"}, {"idle"})
  BY <1>1, DoneMoves
<1>4. {"idle"} \cap Queued = {} /\ "idle" \notin {"rebind"}
  BY DEF Queued
<1> QED
  BY <1>1, <1>2, <1>3, <1>4, LeaveTyped DEF repeatVars, tickVars

LEMMA ReleaseAllTyped == ASSUME CoreIInv, NEW t \in Task, ReleaseAll(t) PROVE CoreIInv'
<1>1. /\ TypeIInv /\ OneTransaction /\ job[t].pc = "release" /\ Unlock /\ Return(t) /\ relay' = {}
      /\ UNCHANGED <<worldVars, focusCtx, modeVars, bindVars, keyVars, ticker, tickVars, busy,
                     inputVars, refusals>>
  BY DEF CoreIInv, ReleaseAll, At
<1>2. Has(t) /\ refusals' \in Nat /\ relay' \subseteq Ident
  BY <1>1 DEF OneTransaction, TypeIInv
<1>3. Moves(t, {"release"}, Then)
  BY <1>1, ReturnMoves
<1>4. Then \cap Queued = {} /\ "idle" \notin {"release"}
  BY DEF Queued, Then
<1> QED
  BY <1>1, <1>2, <1>3, <1>4, LeaveTyped

LEMMA ClearTyped == ASSUME CoreIInv, NEW t \in Task, ClearTickers(t) PROVE CoreIInv'
<1>1. /\ TypeIInv /\ OneTransaction /\ job[t].pc = "clear" /\ ticker' = {} /\ busy' = {}
      /\ UNCHANGED <<worldVars, focusCtx, modeVars, bindVars, transaction, keyVars,
                     relay, tickVars, inputVars, refusals>>
  BY DEF CoreIInv, ClearTickers, At
<1>2. Has(t)
  BY <1>1 DEF OneTransaction
<1>3. Moves(t, {"clear"}, {"release"})
  BY <1>1, ClearMoves
<1>4. OneTransaction' /\ transaction' \in Seq(Task)
  BY <1>1, <1>2, <1>3, KeepsOrLeaves DEF Queued
<1>5. job' \in [Task -> Job]
  BY <1>3 DEF Moves
<1>6. TypeOK'
  BY <1>1, <1>4, <1>5
  DEF TypeIInv, TypeOK, worldVars, modeVars, bindVars, keyVars, tickVars, inputVars
<1>7. IdsMade'
  BY <1>1, <1>3, MovesKeepsIds DEF bindVars, keyVars, inputVars
<1> QED
  BY <1>1, <1>4, <1>6, <1>7 DEF CoreIInv, TypeIInv

\* A release begins.
LEMMA StartUpTyped == ASSUME CoreIInv, NEW id \in Id, StartUp(id) PROVE CoreIInv'
<1>1. TypeIInv /\ OneTransaction /\ id \in Task
  BY WorkersAreTasks DEF CoreIInv
<1>2. /\ queue[id] # <<>> /\ queue' = [queue EXCEPT ![id] = Tail(queue[id])]
      /\ held' = held \ {id} /\ tracked' = tracked \ {owner[id]}
      /\ notified' = notified \ {owner[id]}
      /\ ticker' = ticker \ {owner[id]} /\ busy' = busy \ {owner[id]}
      /\ UNCHANGED <<worldVars, focusCtx, modeVars, bindVars, transaction,
                     relay, tickVars, pressed, presses, refusals>>
  BY DEF StartUp
<1>3. Moves(id, {"idle"}, {"endRelay"})
  BY <1>1, StartUpMoves
<1>4. OneTransaction' /\ transaction' \in Seq(Task)
  BY <1>1, <1>2, <1>3, LockKept DEF Queued, Working
<1>5. id \in 1..nextId /\ nextId \in Nat
  BY <1>1, <1>2, OwnerTyped DEF TypeIInv, TypeOK
<1>6. queue' \in [Id -> Seq({"down", "up"})]
  BY <1>1, <1>2 DEF TypeIInv, TypeOK
<1>7. TypeOK'
  BY <1>1, <1>2, <1>3, <1>4, <1>6
  DEF TypeIInv, TypeOK, Moves, worldVars, modeVars, bindVars, tickVars
<1>8. \A d \in Id : d # id => queue'[d] = queue[d] /\ job'[d] = job[d]
  BY <1>1, <1>2, <1>3, WorkersAreTasks DEF TypeIInv, TypeOK, Moves
<1>9. IdsMade'
  BY <1>1, <1>2, <1>5, <1>8 DEF TypeIInv, IdsMade, At, bindVars
<1> QED
  BY <1>1, <1>2, <1>4, <1>7, <1>9 DEF CoreIInv, TypeIInv

\* Ticks, what they ask for, and their ends.
LEMMA WithoutTyped ==
  ASSUME NEW S, NEW s \in Seq(S), NEW n \in Nat, n = 1 \/ n \in 1..Len(s)
  PROVE  Without(s, n) \in Seq(S)
<1>1. Len(s) \in Nat
  OBVIOUS
<1>2. CASE Len(s) = 0
  <2>1. n = 1 /\ SubSeq(s, 1, 0) = <<>> /\ SubSeq(s, 2, 0) = <<>>
    BY <1>2
  <2> QED
    BY <1>2, <2>1 DEF Without
<1>3. CASE Len(s) > 0
  <2>1. n \in 1..Len(s) /\ n - 1 \in 0..Len(s) /\ n + 1 \in 1..Len(s) + 1
    BY <1>1, <1>3
  <2>2. SubSeq(s, 1, n - 1) \in Seq(S)
    BY <1>1, <2>1, SubSeqProperties
  <2>3. SubSeq(s, n + 1, Len(s)) \in Seq(S)
    BY <1>1, <2>1, SubSeqProperties
  <2> QED
    BY <2>2, <2>3, ConcatProperties DEF Without
<1> QED
  BY <1>1, <1>2, <1>3

LEMMA EndsTyped ==
  ASSUME TypeIInv, NEW i \in Ident, NEW n \in Nat, n = 1 \/ n \in 1..Len(ticks[i]),
         NEW stop \in BOOLEAN, Ends(i, n, stop)
  PROVE  /\ ticker' \subseteq ticker /\ busy' \subseteq ticker'
         /\ ticks' \in [Ident -> Seq(Invocation)]
<1>1. ticks \in [Ident -> Seq(Invocation)] /\ ticks[i] \in Seq(Invocation) /\ busy \subseteq ticker
  BY DEF TypeIInv, TypeOK
<1>2. Without(ticks[i], n) \in Seq(Invocation)
  BY <1>1, WithoutTyped
<1>3. ticks' = [ticks EXCEPT ![i] = Without(ticks[i], n)]
  BY DEF Ends
<1>4. ticker' \subseteq ticker /\ busy' \subseteq ticker'
  BY <1>1 DEF Ends
<1> QED
  BY <1>1, <1>2, <1>3, <1>4

LEMMA RunningTyped ==
  ASSUME TypeIInv, NEW i \in Ident, NEW n \in Running(i)
  PROVE  n \in Nat /\ n \in 1..Len(ticks[i]) /\ ticks[i][n] \in Invocation
  BY DEF TypeIInv, TypeOK, Running

LEMMA TickTyped == ASSUME CoreIInv, NEW i \in Ident, Tick(i) PROVE CoreIInv'
<1>1. /\ TypeIInv /\ OneTransaction
      /\ UNCHANGED <<worldVars, focusCtx, modeVars, bindVars, transaction, keyVars, relay, ticker,
                     captured, job, inputVars, refusals>>
  BY DEF CoreIInv, Tick
<1>2. busy' \subseteq ticker' /\ ticks' \in [Ident -> Seq(Invocation)]
  <2>1. ticks[i] \in Seq(Invocation) /\ captured[i] \in Invocation
    BY <1>1 DEF TypeIInv, TypeOK
  <2>2. Append(ticks[i], captured[i]) \in Seq(Invocation)
    BY <2>1
  <2> QED
    BY <1>1, <2>2 DEF Tick, TypeIInv, TypeOK
<1>3. OneTransaction' /\ transaction' \in Seq(Task)
  BY <1>1, LockUntouched
<1>4. TypeOK'
  BY <1>1, <1>2, <1>3 DEF TypeIInv, TypeOK, worldVars, modeVars, bindVars, keyVars, inputVars
<1>5. IdsMade'
  BY <1>1 DEF TypeIInv, IdsMade, At, bindVars, keyVars, inputVars
<1> QED
  BY <1>1, <1>3, <1>4, <1>5 DEF CoreIInv, TypeIInv

LEMMA EndTickTyped ==
  ASSUME CoreIInv, NEW i \in Ident, NEW n \in Running(i), NEW stop \in BOOLEAN, EndTick(i, n, stop)
  PROVE  CoreIInv'
<1>1. /\ TypeIInv /\ OneTransaction /\ Ends(i, n, stop)
      /\ UNCHANGED <<worldVars, focusCtx, modeVars, bindVars, transaction, keyVars, relay,
                     captured, job, inputVars, refusals>>
  BY DEF CoreIInv, EndTick, Ends
<1>2. ticker' \subseteq ticker /\ busy' \subseteq ticker' /\ ticks' \in [Ident -> Seq(Invocation)]
  BY <1>1, RunningTyped, EndsTyped
<1>3. OneTransaction' /\ transaction' \in Seq(Task)
  BY <1>1, LockUntouched
<1>4. TypeOK'
  BY <1>1, <1>2, <1>3 DEF TypeIInv, TypeOK, worldVars, modeVars, bindVars, keyVars, inputVars
<1>5. IdsMade'
  BY <1>1 DEF TypeIInv, IdsMade, At, bindVars, keyVars, inputVars
<1> QED
  BY <1>1, <1>3, <1>4, <1>5 DEF CoreIInv, TypeIInv

LEMMA StopTickTyped == ASSUME CoreIInv, NEW i \in Ident, StopTick(i) PROVE CoreIInv'
<1>1. /\ TypeIInv /\ OneTransaction /\ Ends(i, 1, TRUE) /\ job[i].pc = "stop" /\ Done(i)
      /\ UNCHANGED <<worldVars, focusCtx, modeVars, bindVars, transaction, keyVars, relay,
                     captured, inputVars, refusals>>
  BY DEF CoreIInv, StopTick, Ends, At
<1>2. ticker' \subseteq ticker /\ busy' \subseteq ticker' /\ ticks' \in [Ident -> Seq(Invocation)]
  BY <1>1, EndsTyped
<1>3. i \in Task /\ i \notin Id
  BY OthersAreTasks
<1>4. Moves(i, {"stop"}, {"idle"})
  BY <1>1, <1>3, DoneMoves
<1>5. OneTransaction' /\ transaction' \in Seq(Task)
  BY <1>1, <1>3, <1>4, LockKept DEF Queued, Working
<1>6. job' \in [Task -> Job]
  BY <1>4 DEF Moves
<1>7. TypeOK'
  BY <1>1, <1>2, <1>5, <1>6
  DEF TypeIInv, TypeOK, worldVars, modeVars, bindVars, keyVars, inputVars
<1>8. IdsMade'
  BY <1>1, <1>3, <1>4, MovesKeepsIds DEF bindVars, keyVars, inputVars
<1> QED
  BY <1>1, <1>5, <1>7, <1>8 DEF CoreIInv, TypeIInv

LEMMA TickNavigatesTyped ==
  ASSUME CoreIInv, NEW i \in Ident, NEW n \in Running(i), TickNavigates(i, n) PROVE CoreIInv'
<1>1. /\ TypeIInv /\ OneTransaction
      /\ UNCHANGED <<worldVars, focusCtx, rendered, bound, owner, nextId, transaction, keyVars,
                     relay, ticker, busy, captured, ticks, job, inputVars, refusals>>
      /\ strayed' = (strayed \/ mode' # mode)
  BY DEF CoreIInv, TickNavigates
<1>2. Context(ticks[i][n].window) \in Window
  <2>1. ticks[i][n].window \in Window
    BY <1>1, RunningTyped DEF Invocation
  <2> QED
    BY <1>1, <2>1, ContextTyped
<1>3. mode' \in Mode /\ hud' \in BOOLEAN /\ session' \in Window \cup {NoWindow}
  BY <1>1, <1>2 DEF TickNavigates, Enter, Leave, ShowRoot, HideHud, Mode, TypeIInv, TypeOK
<1>4. OneTransaction' /\ transaction' \in Seq(Task)
  BY <1>1, LockUntouched
<1>5. strayed' \in BOOLEAN
  BY <1>1
<1>6. TypeOK'
  BY <1>1, <1>3, <1>4, <1>5 DEF TypeIInv, TypeOK, worldVars, keyVars, inputVars
<1>7. IdsMade'
  BY <1>1 DEF TypeIInv, IdsMade, At, keyVars, inputVars
<1> QED
  BY <1>1, <1>4, <1>6, <1>7 DEF CoreIInv, TypeIInv

LEMMA ReloadMoves ==
  ASSUME TypeIInv, NEW i \in Ident, TickReloads(i)
  PROVE  Moves(i, {"idle"}, {"prepare"}) /\ transaction' = Append(transaction, i)
<1>1. job[i].pc = "idle" /\ Lock(i, "prepare") /\ i \in Task /\ "prepare" \in Pc
  BY OthersAreTasks DEF TickReloads, Requests, Running, At, Pc
<1> QED
  BY <1>1, LockMoves

LEMMA TickReloadsTyped == ASSUME CoreIInv, NEW i \in Ident, TickReloads(i) PROVE CoreIInv'
<1>1. /\ TypeIInv /\ OneTransaction
      /\ UNCHANGED <<worldVars, focusCtx, modeVars, bindVars, keyVars, relay, ticker, busy,
                     captured, ticks, inputVars, refusals>>
  BY DEF CoreIInv, TickReloads
<1>2. Moves(i, {"idle"}, {"prepare"}) /\ transaction' = Append(transaction, i)
  BY <1>1, ReloadMoves
<1>3. i \in Task /\ i \notin Id
  BY OthersAreTasks
<1>4. OneTransaction' /\ transaction' \in Seq(Task)
  BY <1>1, <1>2, <1>3, LockJoined DEF Queued
<1>5. job' \in [Task -> Job]
  BY <1>2 DEF Moves
<1>6. TypeOK'
  BY <1>1, <1>4, <1>5 DEF TypeIInv, TypeOK, worldVars, modeVars, bindVars, keyVars, inputVars
<1>7. IdsMade'
  BY <1>1, <1>2, <1>3, MovesKeepsIds DEF bindVars, keyVars, inputVars
<1> QED
  BY <1>1, <1>4, <1>6, <1>7 DEF CoreIInv, TypeIInv

LEMMA HeldTyped == ASSUME CoreIInv, Held PROVE CoreIInv'
  BY TickTyped, TickReloadsTyped, TickNavigatesTyped, EndTickTyped DEF Held

LEMMA InputTyped ==
  ASSUME CoreIInv, \/ \E i \in Ident : Press(i) \/ Release(i)
                   \/ \E w \in Window : MoveFocus(w)
                   \/ UNCHANGED vars
  PROVE  CoreIInv'
<1>1. TypeIInv /\ OneTransaction
  BY DEF CoreIInv
<1>2. UNCHANGED <<transaction, job>>
  BY DEF Press, Release, MoveFocus, vars
<1>3. OneTransaction'
  BY <1>1, <1>2, LockUntouched
<1>4. ASSUME UNCHANGED vars PROVE TypeIInv'
  <2>1. UNCHANGED <<worldVars, focusCtx, modeVars, bindVars, transaction, keyVars, repeatVars, job,
                    inputVars, refusals>>
    BY <1>4 DEF vars
  <2>2. TypeOK'
    BY <1>1, <2>1 DEF TypeIInv, TypeOK, worldVars, modeVars, bindVars, keyVars, repeatVars, tickVars, inputVars
  <2>3. IdsMade'
    BY <1>1, <2>1 DEF TypeIInv, IdsMade, At, bindVars, keyVars, inputVars
  <2> QED
    BY <1>1, <2>1, <2>2, <2>3 DEF TypeIInv
<1>5. ASSUME \E i \in Ident : Press(i) \/ Release(i) PROVE TypeIInv'
  BY <1>1, <1>5, PressTyped, ReleaseTyped
<1>6. ASSUME \E w \in Window : MoveFocus(w) PROVE TypeIInv'
  BY <1>1, <1>6, MoveFocusTyped
<1>7. TypeIInv'
  BY <1>4, <1>5, <1>6
<1> QED
  BY <1>3, <1>7 DEF CoreIInv

LEMMA WorkerTyped == ASSUME CoreIInv, NEW id \in Id, Worker(id) PROVE CoreIInv'
<1>1. CASE StartDown(id) \/ Drop(id) \/ Refresh(id) \/ StartUp(id)
  BY <1>1, StartDownTyped, DropTyped, RefreshTyped, StartUpTyped
<1>2. CASE Select(id) \/ Unbound(id) \/ Resolve(id) \/ EndRelay(id) \/ HudUp(id)
  BY <1>2, QuietTyped
<1>3. CASE Navigate(id) \/ RunOnce(id) \/ Hold(id) \/ AutoExit(id)
  BY <1>3, NavigateTyped, RunOnceTyped, HoldTyped, AutoExitTyped
<1> QED
  BY <1>1, <1>2, <1>3 DEF Worker

LEMMA RebindingTyped == ASSUME CoreIInv, NEW t \in Task, Rebinding(t) PROVE CoreIInv'
<1>1. CASE Rebind(t) \/ RebindRefused(t) \/ ClearTickers(t) \/ ReleaseAll(t)
  BY <1>1, RebindTyped, RebindRefusedTyped, ClearTyped, ReleaseAllTyped
<1>2. CASE PrepareConfig(t) \/ PrepareFails(t) \/ CommitRefused(t)
  BY <1>2, PrepareTyped, PrepareFailsTyped, CommitRefusedTyped
<1>3. CASE \E config \in Config : CommitConfig(t, config)
  BY <1>3, CommitTyped
<1> QED
  BY <1>1, <1>2, <1>3 DEF Rebinding

\* CoreIInv holds at the start and is kept by every step, so always.
THEOREM CoreInvariant == Spec => []CoreIInv
<1>1. Init => CoreIInv
  <2> SUFFICES ASSUME Init PROVE CoreIInv
    OBVIOUS
  <2>1. TypeIInv
    BY TypeBegins
  <2>2. transaction = <<>> /\ job = [t \in Task |-> Idle]
    BY DEF Init
  <2>3. /\ Len(transaction) = 0 /\ \A t \in Task : job[t].pc = "idle"
        /\ \A n \in 1..Len(transaction) : FALSE
    BY <2>2, IdleIsJob
  <2>4. OneTransaction
    BY <2>3 DEF OneTransaction
  <2> QED
    BY <2>1, <2>4 DEF CoreIInv
<1>2. CoreIInv /\ [Next]_vars => CoreIInv'
  BY InputTyped, WorkerTyped, RebindingTyped, FollowFocusTyped, StopTickTyped, HeldTyped
  DEF Next, Tasks
<1> QED
  BY <1>1, <1>2, PTL DEF Spec

\* However registrations, modes, reloads and workers interleave, every variable
\* of the dispatch keeps its type.
THEOREM DispatchTyped == Spec => []TypeOK
  BY CoreInvariant, PTL DEF CoreIInv, TypeIInv

\* The configuration transaction (Engine::config_transaction): those who rebind,
\* reload or clear stand in its queue once each, and only its holder commits,
\* clears tickers or releases relays.
THEOREM AlwaysOneTransaction == Spec => []OneTransaction
  BY CoreInvariant, PTL DEF CoreIInv

----------------------------------------------------------------------------
(* Gestures end. *)

LEMMA MovesWider ==
  ASSUME NEW t, NEW from, NEW p, NEW to, Moves(t, from, {p}), p \in to PROVE Moves(t, from, to)
  BY DEF Moves

\* Where the steps of a worker lead.
LEMMA WorkerMoves ==
  ASSUME TypeIInv, NEW id \in Id
  PROVE  /\ Refresh(id) => Moves(id, {"refresh"}, {"select", "rebind"})
         /\ Unbound(id) => Moves(id, {"resolve"}, {"idle"})
         /\ Navigate(id) => Moves(id, {"execute"}, {"rebind"})
         /\ RunOnce(id) => Moves(id, {"execute"}, {"autoExit", "idle", "prepare"})
         /\ Hold(id) => Moves(id, {"execute"}, {"autoExit", "rebind"})
         /\ EndRelay(id) => Moves(id, {"endRelay"}, {"hudUp", "idle"})
         /\ HudUp(id) => Moves(id, {"hudUp"}, {"idle"})
<1>1. id \in Task
  BY WorkersAreTasks
<1>2. ASSUME Refresh(id) PROVE Moves(id, {"refresh"}, {"select", "rebind"})
  <2>1. job[id].pc = "refresh" /\ Adopt(id, worldFocus, "select") /\ worldFocus \in Window
    BY <1>2 DEF Refresh, At, TypeIInv, TypeOK
  <2>2. Moves(id, {"refresh"}, {"select"}) \/ Moves(id, {"refresh"}, {"rebind"})
    BY <1>1, <2>1, AdoptMoves DEF Then
  <2> QED
    BY <2>2, MovesWider
<1>3. ASSUME Unbound(id) PROVE Moves(id, {"resolve"}, {"idle"})
  BY <1>1, <1>3, DoneMoves DEF Unbound, At
<1>4. ASSUME Navigate(id) PROVE Moves(id, {"execute"}, {"rebind"})
  BY <1>1, <1>4, LockMoves DEF Navigate, At, Pc
<1>5. ASSUME RunOnce(id) PROVE Moves(id, {"execute"}, {"autoExit", "idle", "prepare"})
  <2>1. /\ job[id].pc = "execute"
        /\ Go(id, "autoExit") \/ Done(id) \/ Lock(id, "prepare")
    BY <1>5 DEF RunOnce, At
  <2>2. \/ Moves(id, {"execute"}, {"autoExit"}) \/ Moves(id, {"execute"}, {"idle"})
        \/ Moves(id, {"execute"}, {"prepare"})
    BY <1>1, <2>1, GoMoves, DoneMoves, LockMoves DEF Pc
  <2> QED
    BY <2>2, MovesWider
<1>6. ASSUME Hold(id) PROVE Moves(id, {"execute"}, {"autoExit", "rebind"})
  <2>1. job[id].pc = "execute" /\ (Go(id, "autoExit") \/ Lock(id, "rebind"))
    BY <1>6 DEF Hold, At
  <2>2. Moves(id, {"execute"}, {"autoExit"}) \/ Moves(id, {"execute"}, {"rebind"})
    BY <1>1, <2>1, GoMoves, LockMoves DEF Pc
  <2> QED
    BY <2>2, MovesWider
<1>8. ASSUME EndRelay(id) PROVE Moves(id, {"endRelay"}, {"hudUp", "idle"})
  <2>1. job[id].pc = "endRelay" /\ (Go(id, "hudUp") \/ Done(id))
    BY <1>8 DEF EndRelay, At
  <2>2. Moves(id, {"endRelay"}, {"hudUp"}) \/ Moves(id, {"endRelay"}, {"idle"})
    BY <1>1, <2>1, GoMoves, DoneMoves DEF Pc
  <2> QED
    BY <2>2, MovesWider
<1>9. ASSUME HudUp(id) PROVE Moves(id, {"hudUp"}, {"idle"})
  BY <1>1, <1>9, DoneMoves DEF HudUp, At
<1> QED
  BY <1>2, <1>3, <1>4, <1>5, <1>6, <1>8, <1>9

\* Where the steps of whoever binds again lead.
LEMMA RebindingMoves ==
  ASSUME TypeIInv, NEW t \in Task
  PROVE  /\ Rebind(t) => Moves(t, {"rebind"}, {"clear"} \cup Then)
         /\ RebindRefused(t) => Moves(t, {"rebind"}, {"idle"})
         /\ ReleaseAll(t) => Moves(t, {"release"}, Then)
         /\ FollowFocus => Moves(World, {"idle"}, {"idle", "rebind"})
         /\ PrepareFails(t) => Moves(t, {"prepare"}, Ended)
         /\ CommitRefused(t) => Moves(t, {"commit"}, Ended)
         /\ \A config \in Config :
              CommitConfig(t, config) => Moves(t, {"commit"}, {"clear"} \cup Ended)
<1>1. ASSUME Rebind(t) PROVE Moves(t, {"rebind"}, {"clear"} \cup Then)
  <2>1. job[t].pc = "rebind" /\ (Go(t, "clear") \/ Return(t))
    BY <1>1 DEF Rebind, At
  <2>2. Moves(t, {"rebind"}, {"clear"}) \/ Moves(t, {"rebind"}, Then)
    BY <2>1, GoMoves, ReturnMoves DEF Pc
  <2> QED
    BY <2>2 DEF Moves
<1>2. ASSUME RebindRefused(t) PROVE Moves(t, {"rebind"}, {"idle"})
  BY <1>2, DoneMoves DEF RebindRefused, At
<1>3. ASSUME ReleaseAll(t) PROVE Moves(t, {"release"}, Then)
  BY <1>3, ReturnMoves DEF ReleaseAll, At
<1>4. ASSUME FollowFocus PROVE Moves(World, {"idle"}, {"idle", "rebind"})
  <2>1. /\ job[World].pc = "idle" /\ Adopt(World, Head(worldEvents), "idle")
        /\ worldEvents # <<>>
    BY <1>4 DEF FollowFocus, At
  <2>2. World \in Task /\ "idle" \in Then /\ Head(worldEvents) \in Window
    BY <2>1 DEF Task, Then, TypeIInv, TypeOK
  <2>3. Moves(World, {"idle"}, {"idle"}) \/ Moves(World, {"idle"}, {"rebind"})
    BY <2>1, <2>2, AdoptMoves
  <2> QED
    BY <2>3, MovesWider
<1>5. ASSUME PrepareFails(t) PROVE Moves(t, {"prepare"}, Ended)
  BY <1>5, EndedMoves DEF PrepareFails, At
<1>6. ASSUME CommitRefused(t) PROVE Moves(t, {"commit"}, Ended)
  BY <1>6, EndedMoves DEF CommitRefused, At
<1>7. ASSUME NEW config \in Config, CommitConfig(t, config)
      PROVE  Moves(t, {"commit"}, {"clear"} \cup Ended)
  <2>1. Moves(t, {"commit"}, {"clear"}) \/ Moves(t, {"commit"}, Ended)
    BY <1>7, CommitMoves
  <2> QED
    BY <2>1 DEF Moves
<1> QED
  BY <1>1, <1>2, <1>3, <1>4, <1>5, <1>6, <1>7

\* The worker of an id is in the middle of a press.
InPress(t) == job[t].pc \notin {"idle", "endRelay", "hudUp"}

\* A worker retains a press from its beginning to the beginning of its release.
PressHeld == \A id \in Id : InPress(id) => id \in held

KeyHeld(i) == \E id \in held : owner[id] = i
KeyEnds(i) == \E id \in 1..nextId : At(id, "endRelay") /\ owner[id] = i

\* A key that is down or ticks is retained; one that is relayed is retained or
\* its release is about to end the relay.
KeysHeld ==
  /\ \A i \in tracked \cup ticker : KeyHeld(i)
  /\ \A i \in relay : KeyHeld(i) \/ KeyEnds(i)

GestureIInv == CoreIInv /\ PressHeld /\ KeysHeld

\* What a step may do that begins and ends no gesture.
Quiet(t) ==
  /\ t \in Task /\ ~At(t, "endRelay") /\ (InPress(t)' /\ t \in Id => InPress(t))
  /\ \A u \in Task \ {t} : job'[u] = job[u]
  /\ held' = held /\ tracked' \subseteq tracked /\ ticker' \subseteq ticker /\ relay' \subseteq relay
  /\ nextId <= nextId' /\ nextId' \in Nat /\ \A id \in 1..nextId : owner'[id] = owner[id]

\* The ids that were made.
LEMMA Made ==
  ASSUME TypeIInv
  PROVE  /\ nextId \in Nat /\ nextId <= MaxId /\ MaxId \in Nat
         /\ \A id \in held : id \in 1..nextId
         /\ \A id \in 1..nextId : id \in Id /\ id \in Task
<1>1. nextId \in Nat /\ nextId <= MaxId /\ MaxId \in Nat
  BY EngineAssumption DEF TypeIInv, TypeOK
<1>2. \A id \in held : id \in Nat /\ id >= 1 /\ id <= nextId
  BY <1>1 DEF TypeIInv, TypeOK, IdsMade, Id
<1> QED
  BY <1>1, <1>2 DEF Id, Task

LEMMA QuietKeeps ==
  ASSUME GestureIInv, NEW t, Quiet(t) PROVE PressHeld' /\ KeysHeld'
<1>1. TypeIInv
  BY DEF GestureIInv, CoreIInv
<1>2. PressHeld'
  <2> SUFFICES ASSUME NEW id \in Id, InPress(id)' PROVE id \in held'
    BY DEF PressHeld
  <2>1. id \in Task
    BY WorkersAreTasks
  <2>2. InPress(id)
    BY <2>1 DEF Quiet, InPress
  <2> QED
    BY <2>2 DEF Quiet, PressHeld, GestureIInv
<1>3. ASSUME NEW i, KeyHeld(i) PROVE KeyHeld(i)'
  BY <1>1, <1>3, Made DEF KeyHeld, Quiet
<1>4. ASSUME NEW i, KeyEnds(i) PROVE KeyEnds(i)'
  <2>1. PICK id \in 1..nextId : At(id, "endRelay") /\ owner[id] = i
    BY <1>4 DEF KeyEnds
  <2>2. id \in Task /\ id # t
    BY <1>1, <2>1, Made DEF Quiet
  <2>3. At(id, "endRelay")' /\ owner'[id] = i
    BY <2>1, <2>2 DEF Quiet, At
  <2>4. id \in 1..nextId'
    BY <1>1, Made DEF Quiet
  <2> QED
    BY <2>3, <2>4 DEF KeyEnds
<1> QED
  BY <1>2, <1>3, <1>4 DEF KeysHeld, Quiet, GestureIInv

\* A step of a task that binds nothing, presses nothing and releases nothing.
LEMMA QuietMoves ==
  ASSUME TypeIInv, NEW t \in Task, NEW from, NEW to, Moves(t, from, to), "endRelay" \notin from,
         t \notin Id \/ ("idle" \notin from /\ "hudUp" \notin from) \/ to = {"idle"},
         UNCHANGED <<bindVars, held, tracked>>, ticker' \subseteq ticker, relay' \subseteq relay
  PROVE  Quiet(t)
<1>1. ~At(t, "endRelay") /\ (InPress(t)' /\ t \in Id => InPress(t))
  BY DEF Moves, InPress, At
<1> QED
  BY <1>1, Made DEF Moves, Quiet, bindVars

LEMMA QuietRerender ==
  ASSUME TypeIInv, NEW t \in Task, NEW from, NEW to, Moves(t, from, to),
         "endRelay" \notin from, "idle" \notin from, "hudUp" \notin from,
         NEW view \in [config : Config, mode : Mode, window : Window], Rerender(view),
         UNCHANGED <<keyVars, repeatVars>>
  PROVE  Quiet(t)
<1>1. ~At(t, "endRelay") /\ (InPress(t)' /\ t \in Id => InPress(t))
  BY DEF Moves, InPress, At
<1>2. nextId' \in Nat /\ nextId <= nextId' /\ \A id \in 1..nextId : owner'[id] = owner[id]
  <2>1. /\ nextId' \in 0..MaxId /\ nextId <= nextId'
        /\ \A id \in 1..nextId : owner'[id] = owner[id]
    BY RerenderTyped
  <2>2. MaxId \in Nat
    BY EngineAssumption
  <2> QED
    BY <2>1, <2>2
<1> QED
  BY <1>1, <1>2 DEF Moves, Quiet, keyVars, repeatVars, tickVars

\* Every step of a worker but the beginning and the end of a gesture is quiet.
LEMMA QuietWorker ==
  ASSUME GestureIInv, NEW id \in Id, Worker(id),
         ~StartDown(id), ~Drop(id), ~Hold(id), ~StartUp(id), ~EndRelay(id)
  PROVE  Quiet(id)
<1>1. TypeIInv /\ id \in Task
  BY WorkersAreTasks DEF GestureIInv, CoreIInv
<1>2. CASE Refresh(id) \/ Select(id) \/ Unbound(id) \/ Resolve(id) \/ HudUp(id)
  <2>1. UNCHANGED <<bindVars, held, tracked, ticker, relay>>
    BY <1>2 DEF Refresh, Select, Unbound, Resolve, HudUp, keyVars, repeatVars, tickVars
  <2>2. \/ Moves(id, {"refresh"}, {"select", "rebind"}) \/ Moves(id, {"select"}, {"resolve"})
        \/ Moves(id, {"resolve"}, {"idle"}) \/ Moves(id, {"resolve"}, {"execute"})
        \/ Moves(id, {"hudUp"}, {"idle"})
    BY <1>1, <1>2, WorkerMoves, SelectMoves, ResolveMoves
  <2> QED
    BY <1>1, <2>1, <2>2, QuietMoves
<1>3. CASE Navigate(id) \/ RunOnce(id) \/ AutoExit(id)
  <2>1. UNCHANGED <<bindVars, held, tracked, ticker, relay>>
    BY <1>3 DEF Navigate, RunOnce, AutoExit, keyVars, repeatVars, tickVars
  <2>2. \/ Moves(id, {"execute"}, {"rebind"}) \/ Moves(id, {"execute"}, {"autoExit", "idle", "prepare"})
        \/ Moves(id, {"autoExit"}, {"rebind"})
    BY <1>1, <1>3, WorkerMoves, AutoExitMoves
  <2> QED
    BY <1>1, <2>1, <2>2, QuietMoves
<1> QED
  BY <1>2, <1>3 DEF Worker

LEMMA QuietRebinding ==
  ASSUME GestureIInv, NEW t \in Task, Rebinding(t) PROVE Quiet(t)
<1>1. TypeIInv
  BY DEF GestureIInv, CoreIInv
<1>2. CASE Rebind(t)
  <2> DEFINE view == View(Context(job[t].focus))
  <2>1. Rerender(view) /\ UNCHANGED <<keyVars, repeatVars>>
    BY <1>2 DEF Rebind
  <2>2. view \in [config : Config, mode : Mode, window : Window]
    BY <1>1, ContextTyped, JobFields DEF View, TypeIInv, TypeOK
  <2>3. Moves(t, {"rebind"}, {"clear"} \cup Then)
    BY <1>1, <1>2, RebindingMoves
  <2> HIDE DEF view
  <2> QED
    BY <1>1, <2>1, <2>2, <2>3, QuietRerender
<1>3. CASE RebindRefused(t)
  <2>1. UNCHANGED <<bindVars, held, tracked, ticker, relay>>
    BY <1>3 DEF RebindRefused, keyVars, repeatVars, tickVars
  <2>2. Moves(t, {"rebind"}, {"idle"})
    BY <1>1, <1>3, RebindingMoves
  <2> QED
    BY <1>1, <2>1, <2>2, QuietMoves
<1>4. CASE ClearTickers(t)
  <2>1. UNCHANGED <<bindVars, held, tracked, relay>> /\ ticker' = {}
    BY <1>4 DEF ClearTickers, keyVars
  <2>2. Moves(t, {"clear"}, {"release"})
    BY <1>1, <1>4, ClearMoves
  <2> QED
    BY <1>1, <2>1, <2>2, QuietMoves
<1>5. CASE ReleaseAll(t)
  <2>1. UNCHANGED <<bindVars, held, tracked, ticker>> /\ relay' = {}
    BY <1>5 DEF ReleaseAll, keyVars
  <2>2. Moves(t, {"release"}, Then)
    BY <1>1, <1>5, RebindingMoves
  <2> QED
    BY <1>1, <2>1, <2>2, QuietMoves
<1>6. CASE PrepareConfig(t) \/ PrepareFails(t) \/ CommitRefused(t)
  <2>1. UNCHANGED <<bindVars, held, tracked, ticker, relay>>
    BY <1>6 DEF PrepareConfig, PrepareFails, CommitRefused, keyVars, repeatVars
  <2>2. \/ Moves(t, {"prepare"}, {"commit"}) \/ Moves(t, {"prepare"}, Ended)
        \/ Moves(t, {"commit"}, Ended)
    BY <1>1, <1>6, RebindingMoves, PrepareMoves
  <2> QED
    BY <1>1, <2>1, <2>2, QuietMoves
<1>7. CASE \E config \in Config : CommitConfig(t, config)
  <2>1. PICK config \in Config : CommitConfig(t, config)
    BY <1>7
  <2> DEFINE view == [config |-> config, mode |-> "root", window |-> job[t].ctx]
  <2>2. Rerender(view) /\ UNCHANGED <<keyVars, repeatVars>>
    BY <2>1 DEF CommitConfig
  <2>3. view \in [config : Config, mode : Mode, window : Window]
    BY <1>1, JobFields DEF Mode, TypeIInv, TypeOK
  <2>4. Moves(t, {"commit"}, {"clear"} \cup Ended)
    BY <1>1, <2>1, RebindingMoves
  <2> HIDE DEF view
  <2> QED
    BY <1>1, <2>2, <2>3, <2>4, QuietRerender
<1> QED
  BY <1>2, <1>3, <1>4, <1>5, <1>6, <1>7 DEF Rebinding

\* A press begins: the key is retained and down.
LEMMA StartDownHeld ==
  ASSUME GestureIInv, NEW id \in Id, StartDown(id) PROVE PressHeld' /\ KeysHeld'
<1>1. TypeIInv /\ Moves(id, {"idle"}, {"refresh"})
  BY StartDownMoves DEF GestureIInv, CoreIInv
<1>2. /\ held' = held \cup {id} /\ tracked' = tracked \cup {owner[id]}
      /\ UNCHANGED <<owner, nextId, relay, ticker>>
  BY DEF StartDown, bindVars, repeatVars, tickVars
<1>3. PressHeld'
  BY <1>1, <1>2, WorkersAreTasks DEF PressHeld, GestureIInv, InPress, Moves
<1>4. \A i : KeyHeld(i) => KeyHeld(i)'
  BY <1>2 DEF KeyHeld
<1>5. KeyHeld(owner[id])'
  BY <1>2 DEF KeyHeld
<1>6. \A i : KeyEnds(i) => KeyEnds(i)'
  BY <1>1, <1>2, Made DEF KeyEnds, At, Moves
<1> QED
  BY <1>2, <1>3, <1>4, <1>5, <1>6 DEF KeysHeld, GestureIInv

\* A held action begins while its press is retained.
LEMMA HoldHeld ==
  ASSUME GestureIInv, NEW id \in Id, Hold(id) PROVE PressHeld' /\ KeysHeld'
<1>1. TypeIInv /\ Moves(id, {"execute"}, {"autoExit", "rebind"})
  BY WorkerMoves DEF GestureIInv, CoreIInv
<1>2. /\ relay' = relay \cup {owner[id]} /\ (owner[id] \in tracked \/ ticker' = ticker)
      /\ ticker' \subseteq ticker \cup {owner[id]}
      /\ UNCHANGED <<owner, nextId, held, tracked>>
  BY DEF Hold, bindVars, keyVars
<1>3. PressHeld'
  BY <1>1, <1>2, WorkersAreTasks DEF PressHeld, GestureIInv, InPress, Moves
<1>4. \A i : KeyHeld(i)' <=> KeyHeld(i)
  BY <1>2 DEF KeyHeld
<1>5. KeyHeld(owner[id])
  BY <1>1 DEF KeyHeld, GestureIInv, PressHeld, InPress, Moves
<1>6. \A i : KeyEnds(i) => KeyEnds(i)'
  BY <1>1, <1>2, Made DEF KeyEnds, At, Moves
<1> QED
  BY <1>2, <1>3, <1>4, <1>5, <1>6 DEF KeysHeld, GestureIInv

\* A release begins: the key is neither down nor ticking, and its relay is about
\* to end.
LEMMA StartUpHeld ==
  ASSUME GestureIInv, NEW id \in Id, StartUp(id) PROVE PressHeld' /\ KeysHeld'
<1>1. TypeIInv /\ Moves(id, {"idle"}, {"endRelay"})
  BY StartUpMoves DEF GestureIInv, CoreIInv
<1>2. /\ held' = held \ {id} /\ tracked' = tracked \ {owner[id]} /\ ticker' = ticker \ {owner[id]}
      /\ UNCHANGED <<owner, nextId, relay>> /\ queue[id] # <<>>
  BY DEF StartUp, bindVars
<1>3. PressHeld'
  BY <1>1, <1>2, WorkersAreTasks DEF PressHeld, GestureIInv, InPress, Moves
<1>4. ASSUME NEW i, KeyHeld(i) PROVE i = owner[id] \/ KeyHeld(i)'
  BY <1>2, <1>4 DEF KeyHeld
<1>5. id \in 1..nextId
  BY <1>1, <1>2, OwnerTyped
<1>6. KeyEnds(owner[id])'
  BY <1>1, <1>2, <1>5 DEF KeyEnds, At, Moves
<1>7. \A i : KeyEnds(i) => KeyEnds(i)'
  BY <1>1, <1>2, Made DEF KeyEnds, At, Moves
<1> QED
  BY <1>2, <1>3, <1>4, <1>6, <1>7 DEF KeysHeld, GestureIInv

\* The relay of the key ends.
LEMMA EndRelayHeld ==
  ASSUME GestureIInv, NEW id \in Id, EndRelay(id) PROVE PressHeld' /\ KeysHeld'
<1>1. TypeIInv /\ Moves(id, {"endRelay"}, {"hudUp", "idle"})
  BY WorkerMoves DEF GestureIInv, CoreIInv
<1>2. relay' = relay \ {owner[id]} /\ UNCHANGED <<owner, nextId, held, tracked, ticker>>
  BY DEF EndRelay, bindVars, keyVars
<1>3. PressHeld'
  BY <1>1, <1>2, WorkersAreTasks DEF PressHeld, GestureIInv, InPress, Moves
<1>4. \A i : KeyHeld(i)' <=> KeyHeld(i)
  BY <1>2 DEF KeyHeld
<1>5. ASSUME NEW i, KeyEnds(i), i # owner[id] PROVE KeyEnds(i)'
  BY <1>1, <1>2, <1>5, Made DEF KeyEnds, At, Moves
<1> QED
  BY <1>2, <1>3, <1>4, <1>5 DEF KeysHeld, GestureIInv

\* A step in which no task moves.
LEMMA RestHeld ==
  ASSUME GestureIInv, UNCHANGED <<job, owner, nextId, held, tracked, relay>>, ticker' \subseteq ticker
  PROVE  PressHeld' /\ KeysHeld'
<1>1. PressHeld'
  BY DEF GestureIInv, PressHeld, InPress
<1>2. \A i : (KeyHeld(i)' <=> KeyHeld(i)) /\ (KeyEnds(i)' <=> KeyEnds(i))
  BY DEF KeyHeld, KeyEnds, At
<1> QED
  BY <1>1, <1>2 DEF GestureIInv, KeysHeld

LEMMA GesturesKept == ASSUME GestureIInv, [Next]_vars PROVE PressHeld' /\ KeysHeld'
<1>1. CASE \E i \in Ident : Press(i) \/ Release(i)
  BY <1>1, RestHeld DEF Press, Release, bindVars, keyVars, repeatVars, tickVars
<1>2. CASE \E w \in Window : MoveFocus(w)
  BY <1>2, RestHeld DEF MoveFocus, bindVars, keyVars, repeatVars, tickVars
<1>3. ASSUME NEW id \in Id, Worker(id) PROVE PressHeld' /\ KeysHeld'
  <2>1. CASE Drop(id)
    BY <2>1, RestHeld DEF Drop, bindVars, keyVars, repeatVars, tickVars
  <2> QED
    BY <1>3, <2>1, QuietWorker, QuietKeeps, StartDownHeld, HoldHeld, StartUpHeld, EndRelayHeld
<1>4. ASSUME NEW t \in Task, Rebinding(t) PROVE PressHeld' /\ KeysHeld'
  BY <1>4, QuietRebinding, QuietKeeps
<1>5. CASE FollowFocus
  <2>1. Moves(World, {"idle"}, {"idle", "rebind"}) /\ World \in Task /\ World \notin Id /\ TypeIInv
    BY <1>5, OthersAreTasks, RebindingMoves DEF GestureIInv, CoreIInv
  <2>2. UNCHANGED <<bindVars, held, tracked, ticker, relay>>
    BY <1>5 DEF FollowFocus, keyVars, repeatVars, tickVars
  <2>3. Quiet(World)
    BY <2>1, <2>2, QuietMoves
  <2> QED
    BY <2>3, QuietKeeps
<1>6. ASSUME NEW i \in Ident, NEW n \in Running(i),
             TickNavigates(i, n) \/ \E stop \in BOOLEAN : EndTick(i, n, stop)
      PROVE  PressHeld' /\ KeysHeld'
  <2>1. UNCHANGED <<job, owner, nextId, held, tracked, relay>> /\ ticker' \subseteq ticker
    BY <1>6 DEF TickNavigates, EndTick, Ends, bindVars, keyVars
  <2> QED
    BY <2>1, RestHeld
<1>7. ASSUME NEW i \in Ident, Tick(i) PROVE PressHeld' /\ KeysHeld'
  <2>1. UNCHANGED <<job, owner, nextId, held, tracked, relay, ticker>>
    BY <1>7 DEF Tick, bindVars, keyVars
  <2> QED
    BY <2>1, RestHeld
<1>8. ASSUME NEW i \in Ident, TickReloads(i) \/ StopTick(i) PROVE PressHeld' /\ KeysHeld'
  <2>1. TypeIInv /\ i \in Task /\ i \notin Id
    BY OthersAreTasks DEF GestureIInv, CoreIInv
  <2>2. UNCHANGED <<bindVars, held, tracked, relay>> /\ ticker' \subseteq ticker
    BY <1>8 DEF TickReloads, StopTick, Ends, keyVars
  <2>3. Moves(i, {"idle"}, {"prepare"}) \/ Moves(i, {"stop"}, {"idle"})
    BY <1>8, <2>1, ReloadMoves, DoneMoves DEF StopTick, At
  <2>4. Quiet(i)
    BY <2>1, <2>2, <2>3, QuietMoves
  <2> QED
    BY <2>4, QuietKeeps
<1>9. CASE UNCHANGED vars
  BY <1>9, RestHeld DEF vars, bindVars, keyVars, repeatVars
<1> QED
  BY <1>1, <1>2, <1>3, <1>4, <1>5, <1>6, <1>7, <1>8, <1>9 DEF Next, Tasks, Held

LEMMA GesturesInvariant == Spec => []GestureIInv
<1>1. Init => PressHeld /\ KeysHeld
  <2> SUFFICES ASSUME Init PROVE PressHeld /\ KeysHeld
    OBVIOUS
  <2>1. /\ tracked = {} /\ ticker = {} /\ relay = {} /\ \A t \in Task : job[t].pc = "idle"
    BY IdleIsJob DEF Init
  <2> QED
    BY <2>1, WorkersAreTasks DEF PressHeld, KeysHeld, InPress
<1>2. CoreIInv /\ CoreIInv' /\ PressHeld /\ KeysHeld /\ [Next]_vars => PressHeld' /\ KeysHeld'
  BY GesturesKept DEF GestureIInv
<1>3. GestureIInv <=> CoreIInv /\ PressHeld /\ KeysHeld
  BY DEF GestureIInv
<1> QED
  BY <1>1, <1>2, <1>3, CoreInvariant, PTL DEF Spec

\* No relay, ticker or record of a key outlives its presses
\* (KeyEventProcessor, the repeater): while one is active, some worker still has
\* the release of that key to handle, for every keyboard, configuration and bound.
THEOREM GesturesAlwaysEnd == Spec => []GesturesEnd
<1>1. GestureIInv => GesturesEnd
  <2> SUFFICES ASSUME GestureIInv, NEW i \in relay \cup ticker \cup tracked
               PROVE  \E id \in 1..nextId : Owes(id, i)
    BY DEF GesturesEnd
  <2>1. KeyHeld(i) \/ KeyEnds(i)
    BY DEF GestureIInv, KeysHeld
  <2>2. CASE KeyHeld(i)
    BY <2>2, Made DEF KeyHeld, Owes, GestureIInv, CoreIInv
  <2>3. CASE KeyEnds(i)
    BY <2>3 DEF KeyEnds, Owes, At
  <2> QED
    BY <2>1, <2>2, <2>3
<1> QED
  BY <1>1, GesturesInvariant, PTL

----------------------------------------------------------------------------
(* What is retained is given up. *)

Awaited(id) == \E i \in Ident : pressed[i] = id
UpAfter(q, n) == \E m \in 1..Len(q) : m > n /\ q[m] = "up"

\* A press that waits in a queue has its release behind it, or still to come.
DownsEnd ==
  \A id \in Id : \A n \in 1..Len(queue[id]) :
    queue[id][n] = "down" => Awaited(id) \/ UpAfter(queue[id], n)

ReleaseIInv == CoreIInv /\ DownsEnd /\ HeldUntilRelease

LEMMA HeldUps ==
  /\ HeldUntilRelease <=> \A id \in held : Awaited(id) \/ UpAfter(queue[id], 0)
  /\ HeldUntilRelease' <=> \A id \in held' : Awaited(id)' \/ UpAfter(queue'[id], 0)
<1>1. \A q : (\E n \in 1..Len(q) : q[n] = "up") <=> UpAfter(q, 0)
  BY DEF UpAfter
<1> QED
  BY <1>1 DEF HeldUntilRelease, Awaited

LEMMA QueueTyped ==
  ASSUME TypeIInv, NEW id \in Id PROVE queue[id] \in Seq({"down", "up"})
  BY DEF TypeIInv, TypeOK

LEMMA UpAppended ==
  ASSUME NEW q \in Seq({"down", "up"}), NEW e \in {"down", "up"}, NEW n \in Nat
  PROVE  /\ UpAfter(q, n) => UpAfter(Append(q, e), n)
         /\ e = "up" /\ n <= Len(q) => UpAfter(Append(q, e), n)
         /\ Len(Append(q, e)) = Len(q) + 1 /\ Len(q) \in Nat
         /\ \A m \in 1..Len(q) : Append(q, e)[m] = q[m]
         /\ Append(q, e)[Len(q) + 1] = e
  BY DEF UpAfter

LEMMA UpTaken ==
  ASSUME NEW q \in Seq({"down", "up"}), q # <<>>, NEW n \in Nat, UpAfter(q, n + 1)
  PROVE  UpAfter(Tail(q), n)
<1>1. PICK m \in 1..Len(q) : m > n + 1 /\ q[m] = "up"
  BY DEF UpAfter
<1>2. Len(q) \in Nat /\ Len(Tail(q)) = Len(q) - 1 /\ \A k \in 1..Len(q) - 1 : Tail(q)[k] = q[k + 1]
  OBVIOUS
<1>3. m - 1 \in 1..Len(q) - 1 /\ m - 1 > n /\ (m - 1) + 1 = m
  BY <1>1, <1>2
<1> QED
  BY <1>1, <1>2, <1>3 DEF UpAfter

\* What the tap hands to one worker.
LEMMA DownsAppended ==
  ASSUME ReleaseIInv, NEW id \in Id, NEW e \in {"down", "up"},
         queue' = [queue EXCEPT ![id] = Append(queue[id], e)], held' = held,
         \A d \in Id : d # id => (Awaited(d) => Awaited(d)'),
         e = "down" => Awaited(id)'
  PROVE  DownsEnd' /\ HeldUntilRelease'
<1>1. /\ queue[id] \in Seq({"down", "up"})
      /\ queue'[id] = Append(queue[id], e) /\ \A d \in Id : d # id => queue'[d] = queue[d]
  BY QueueTyped DEF ReleaseIInv, CoreIInv, TypeIInv, TypeOK
<1>2. DownsEnd'
  <2> SUFFICES ASSUME NEW d \in Id, NEW n \in 1..Len(queue'[d]), queue'[d][n] = "down"
               PROVE  Awaited(d)' \/ UpAfter(queue'[d], n)
    BY DEF DownsEnd
  <2>1. CASE d # id
    BY <1>1, <2>1 DEF DownsEnd, ReleaseIInv
  <2>2. CASE d = id /\ e = "down"
    BY <2>2
  <2>3. CASE d = id /\ e = "up"
    <3>1. n \in Nat /\ n <= Len(queue[id])
      BY <1>1, <2>3, UpAppended
    <3> QED
      BY <1>1, <2>3, <3>1, UpAppended
  <2> QED
    BY <2>1, <2>2, <2>3
<1>3. \A d \in held' : Awaited(d)' \/ UpAfter(queue'[d], 0)
  <2> SUFFICES ASSUME NEW d \in held PROVE Awaited(d)' \/ UpAfter(queue'[d], 0)
    OBVIOUS
  <2>1. d \in Id /\ (Awaited(d) \/ UpAfter(queue[d], 0))
    BY HeldUps DEF ReleaseIInv, CoreIInv, TypeIInv, TypeOK
  <2>2. CASE d # id
    BY <1>1, <2>1, <2>2
  <2>3. CASE d = id /\ e = "down"
    BY <2>3
  <2>4. CASE d = id /\ e = "up"
    <3>1. 0 \in Nat /\ 0 <= Len(queue[id])
      BY <1>1
    <3> QED
      BY <1>1, <2>4, <3>1, UpAppended
  <2> QED
    BY <2>2, <2>3, <2>4
<1>4. HeldUntilRelease' <=> \A d \in held' : Awaited(d)' \/ UpAfter(queue'[d], 0)
  BY HeldUps
<1> QED
  BY <1>2, <1>3, <1>4

LEMMA PressAwaited ==
  ASSUME ReleaseIInv, NEW i \in Ident, Press(i) PROVE DownsEnd' /\ HeldUntilRelease'
<1>0. PICK id : id = bound[i]
  OBVIOUS
<1>1. /\ pressed[i] = NoId /\ id # NoId /\ pressed' = [pressed EXCEPT ![i] = id]
      /\ queue' = [queue EXCEPT ![id] = Append(queue[id], "down")] /\ held' = held
  BY <1>0 DEF Press, keyVars
<1>2. id \in Id /\ pressed \in [Ident -> Id \cup {NoId}]
  BY <1>0, <1>1 DEF ReleaseIInv, CoreIInv, TypeIInv, TypeOK
<1>3. Awaited(id)'
  BY <1>1, <1>2 DEF Awaited
<1>4. \A d \in Id : Awaited(d) => Awaited(d)'
  <2> SUFFICES ASSUME NEW d \in Id, Awaited(d) PROVE Awaited(d)'
    OBVIOUS
  <2>1. PICK j \in Ident : pressed[j] = d
    BY DEF Awaited
  <2>2. j # i
    BY <1>1, <2>1 DEF Id, NoId
  <2> QED
    BY <1>1, <1>2, <2>1, <2>2 DEF Awaited
<1> QED
  BY <1>1, <1>2, <1>3, <1>4, DownsAppended

LEMMA ReleaseAwaited ==
  ASSUME ReleaseIInv, NEW i \in Ident, Release(i) PROVE DownsEnd' /\ HeldUntilRelease'
<1>0. PICK id : id = pressed[i]
  OBVIOUS
<1>1. /\ id # NoId /\ pressed' = [pressed EXCEPT ![i] = NoId]
      /\ queue' = [queue EXCEPT ![id] = Append(queue[id], "up")] /\ held' = held
  BY <1>0 DEF Release, keyVars
<1>2. id \in Id /\ pressed \in [Ident -> Id \cup {NoId}]
  BY <1>0, <1>1 DEF ReleaseIInv, CoreIInv, TypeIInv, TypeOK
<1>3. \A d \in Id : d # id => (Awaited(d) => Awaited(d)')
  BY <1>0, <1>1, <1>2 DEF Awaited
<1> QED
  BY <1>1, <1>2, <1>3, DownsAppended

\* What one worker takes from its queue.
LEMMA DownsTaken ==
  ASSUME ReleaseIInv, NEW id \in Id, queue[id] # <<>>,
         queue' = [queue EXCEPT ![id] = Tail(queue[id])], pressed' = pressed,
         \A d \in held' : d = id \/ d \in held,
         id \in held' => Awaited(id) \/ UpAfter(queue[id], 1)
  PROVE  DownsEnd' /\ HeldUntilRelease'
<1>1. /\ queue[id] \in Seq({"down", "up"})
      /\ queue'[id] = Tail(queue[id]) /\ \A d \in Id : d # id => queue'[d] = queue[d]
  BY QueueTyped DEF ReleaseIInv, CoreIInv, TypeIInv, TypeOK
<1>2. \A d : Awaited(d)' <=> Awaited(d)
  BY DEF Awaited
<1>3. DownsEnd'
  <2> SUFFICES ASSUME NEW d \in Id, NEW n \in 1..Len(queue'[d]), queue'[d][n] = "down"
               PROVE  Awaited(d)' \/ UpAfter(queue'[d], n)
    BY DEF DownsEnd
  <2>1. CASE d # id
    BY <1>1, <1>2, <2>1 DEF DownsEnd, ReleaseIInv
  <2>2. CASE d = id
    <3>0. n \in 1..Len(Tail(queue[id])) /\ Tail(queue[id])[n] = "down"
      BY <1>1, <2>2
    <3>1. n \in Nat /\ n + 1 \in 1..Len(queue[id]) /\ queue[id][n + 1] = "down"
      BY <1>1, <3>0
    <3>2. Awaited(id) \/ UpAfter(queue[id], n + 1)
      BY <3>1 DEF DownsEnd, ReleaseIInv
    <3> QED
      BY <1>1, <1>2, <2>2, <3>1, <3>2, UpTaken
  <2> QED
    BY <2>1, <2>2
<1>4. \A d \in held' : Awaited(d)' \/ UpAfter(queue'[d], 0)
  <2> SUFFICES ASSUME NEW d \in held' PROVE Awaited(d)' \/ UpAfter(queue'[d], 0)
    OBVIOUS
  <2>1. CASE d = id
    <3>1. 0 \in Nat /\ 0 + 1 = 1
      OBVIOUS
    <3>2. UpAfter(queue[id], 0 + 1) => UpAfter(Tail(queue[id]), 0)
      BY <1>1, <3>1, UpTaken
    <3> QED
      BY <1>1, <1>2, <2>1, <3>1, <3>2
  <2>2. CASE d # id
    <3>1. d \in held /\ d \in Id /\ (Awaited(d) \/ UpAfter(queue[d], 0))
      BY <2>2, HeldUps DEF ReleaseIInv, CoreIInv, TypeIInv, TypeOK
    <3> QED
      BY <1>1, <1>2, <2>2, <3>1
  <2> QED
    BY <2>1, <2>2
<1>5. HeldUntilRelease' <=> \A d \in held' : Awaited(d)' \/ UpAfter(queue'[d], 0)
  BY HeldUps
<1> QED
  BY <1>3, <1>4, <1>5

LEMMA StartDownAwaited ==
  ASSUME ReleaseIInv, NEW id \in Id, StartDown(id) PROVE DownsEnd' /\ HeldUntilRelease'
<1>1. /\ queue[id] # <<>> /\ Head(queue[id]) = "down"
      /\ queue' = [queue EXCEPT ![id] = Tail(queue[id])] /\ pressed' = pressed
      /\ held' = held \cup {id}
  BY DEF StartDown
<1>2. 1 \in 1..Len(queue[id]) /\ queue[id][1] = "down"
  BY <1>1, QueueTyped DEF ReleaseIInv, CoreIInv
<1>3. Awaited(id) \/ UpAfter(queue[id], 1)
  BY <1>2 DEF DownsEnd, ReleaseIInv
<1> QED
  BY <1>1, <1>3, DownsTaken

LEMMA DropAwaited ==
  ASSUME ReleaseIInv, NEW id \in Id, Drop(id) PROVE DownsEnd' /\ HeldUntilRelease'
<1>1. /\ queue[id] # <<>> /\ queue' = [queue EXCEPT ![id] = Tail(queue[id])]
      /\ pressed' = pressed /\ held' = held /\ (Head(queue[id]) = "up" => id \notin held)
  BY DEF Drop, keyVars, UpKnown
<1>2. ASSUME id \in held PROVE Awaited(id) \/ UpAfter(queue[id], 1)
  <2>1. Awaited(id) \/ UpAfter(queue[id], 0)
    BY <1>2, HeldUps DEF ReleaseIInv
  <2>2. queue[id] \in Seq({"down", "up"}) /\ queue[id][1] # "up"
    BY <1>1, <1>2, QueueTyped DEF ReleaseIInv, CoreIInv
  <2>3. \A m \in 1..Len(queue[id]) : queue[id][m] = "up" => m > 1
    BY <2>2
  <2> QED
    BY <2>1, <2>3 DEF UpAfter
<1> QED
  BY <1>1, <1>2, DownsTaken

LEMMA StartUpAwaited ==
  ASSUME ReleaseIInv, NEW id \in Id, StartUp(id) PROVE DownsEnd' /\ HeldUntilRelease'
<1>1. /\ queue[id] # <<>> /\ queue' = [queue EXCEPT ![id] = Tail(queue[id])]
      /\ pressed' = pressed /\ held' = held \ {id}
  BY DEF StartUp
<1> QED
  BY <1>1, DownsTaken

LEMMA ReleasesKept == ASSUME ReleaseIInv, [Next]_vars PROVE DownsEnd' /\ HeldUntilRelease'
<1>1. ASSUME UNCHANGED <<queue, pressed, held>> PROVE DownsEnd' /\ HeldUntilRelease'
  BY <1>1 DEF ReleaseIInv, DownsEnd, HeldUntilRelease, Awaited, UpAfter
<1>2. CASE \E i \in Ident : Press(i) \/ Release(i)
  BY <1>2, PressAwaited, ReleaseAwaited
<1>3. CASE \E w \in Window : MoveFocus(w)
  BY <1>1, <1>3 DEF MoveFocus, keyVars, inputVars
<1>4. ASSUME NEW id \in Id, Worker(id) PROVE DownsEnd' /\ HeldUntilRelease'
  <2>1. CASE StartDown(id) \/ Drop(id) \/ StartUp(id)
    BY <2>1, StartDownAwaited, DropAwaited, StartUpAwaited
  <2>2. CASE ~(StartDown(id) \/ Drop(id) \/ StartUp(id))
    <3>1. UNCHANGED <<queue, pressed, held>>
      BY <1>4, <2>2
      DEF Worker, Refresh, Select, Unbound, Resolve, Navigate, RunOnce, Hold, AutoExit,
          EndRelay, HudUp, keyVars, inputVars
    <3> QED
      BY <1>1, <3>1
  <2> QED
    BY <2>1, <2>2
<1>5. CASE \E t \in Task : Rebinding(t)
  BY <1>1, <1>5
  DEF Rebinding, Rebind, RebindRefused, ClearTickers, ReleaseAll, PrepareConfig, PrepareFails,
      CommitRefused, CommitConfig, keyVars, inputVars
<1>6. CASE FollowFocus \/ Held \/ \E i \in Ident : StopTick(i)
  BY <1>1, <1>6
  DEF FollowFocus, Held, Tick, TickReloads, TickNavigates, EndTick, StopTick, Ends, keyVars,
      inputVars
<1>7. CASE UNCHANGED vars
  BY <1>1, <1>7 DEF vars, keyVars, inputVars
<1> QED
  BY <1>2, <1>3, <1>4, <1>5, <1>6, <1>7 DEF Next, Tasks

\* What a worker retains of a press (Engine::held_bindings) is given up by a
\* release that is queued with it or that the keyboard still owes: events dropped
\* for ids that are no longer registered never lose that release.
THEOREM HeldAlwaysReleased == Spec => []HeldUntilRelease
<1>1. Init => DownsEnd /\ HeldUntilRelease
  BY DEF Init, DownsEnd, HeldUntilRelease
<1>2. CoreIInv /\ DownsEnd /\ HeldUntilRelease /\ [Next]_vars => DownsEnd' /\ HeldUntilRelease'
  BY ReleasesKept DEF ReleaseIInv
<1> QED
  BY <1>1, <1>2, CoreInvariant, PTL DEF Spec

----------------------------------------------------------------------------
(* What is registered is the mode the engine is in. *)

\* Either what is registered is the mode, or somebody is going to bind again, or
\* the UI channel refused a message, or a tick changed the mode since.
ModeShown == refusals = 0 /\ ~strayed => rendered.mode = mode \/ \E t \in Task : At(t, "rebind")

LEMMA ModeStays ==
  ASSUME TypeIInv, ModeShown, mode' = mode, rendered' = rendered, strayed' = strayed,
         refusals' = refusals \/ Refused,
         \A t \in Task : At(t, "rebind") => At(t, "rebind")'
  PROVE  ModeShown'
<1>1. refusals' = 0 => refusals = 0
  BY DEF Refused, TypeIInv
<1> QED
  BY <1>1 DEF ModeShown

LEMMA ModeMoves ==
  ASSUME TypeIInv, ModeShown, mode' = mode, rendered' = rendered, strayed' = strayed,
         refusals' = refusals \/ Refused,
         NEW t, NEW from, NEW to, Moves(t, from, to), "rebind" \notin from
  PROVE  ModeShown'
<1>1. \A u \in Task : At(u, "rebind") => At(u, "rebind")'
  BY DEF Moves, At
<1> QED
  BY <1>1, ModeStays

LEMMA ModeWorker ==
  ASSUME TypeIInv, ModeShown, NEW id \in Id, Worker(id) PROVE ModeShown'
<1>1. id \in Task
  BY WorkersAreTasks
<1>2. CASE StartDown(id) \/ Refresh(id) \/ Select(id) \/ Unbound(id) \/ Resolve(id)
  <2>1. mode' = mode /\ rendered' = rendered /\ strayed' = strayed /\ (refusals' = refusals \/ Refused)
    BY <1>2 DEF StartDown, Refresh, Select, Unbound, Resolve, modeVars, bindVars
  <2>2. \/ Moves(id, {"idle"}, {"refresh"}) \/ Moves(id, {"refresh"}, {"select", "rebind"})
        \/ Moves(id, {"select"}, {"resolve"}) \/ Moves(id, {"resolve"}, {"idle"})
        \/ Moves(id, {"resolve"}, {"execute"})
    BY <1>2, WorkerMoves, StartDownMoves, SelectMoves, ResolveMoves
  <2> QED
    BY <2>1, <2>2, ModeMoves
<1>3. CASE Drop(id)
  BY <1>3, ModeStays DEF Drop, modeVars, bindVars, At
<1>4. CASE Navigate(id) \/ AutoExit(id)
  <2>1. Moves(id, {"execute"}, {"rebind"}) \/ Moves(id, {"autoExit"}, {"rebind"})
    BY <1>4, WorkerMoves, AutoExitMoves
  <2>2. At(id, "rebind")'
    BY <2>1 DEF Moves, At
  <2> QED
    BY <1>1, <2>2 DEF ModeShown
<1>5. CASE RunOnce(id) \/ Hold(id)
  <2>1. mode' = mode /\ rendered' = rendered /\ strayed' = strayed /\ (refusals' = refusals \/ Refused)
    BY <1>5 DEF RunOnce, Hold, modeVars, bindVars
  <2>2. \/ Moves(id, {"execute"}, {"autoExit", "idle", "prepare"})
        \/ Moves(id, {"execute"}, {"autoExit", "rebind"})
    BY <1>5, WorkerMoves
  <2> QED
    BY <2>1, <2>2, ModeMoves
<1>7. CASE StartUp(id) \/ EndRelay(id) \/ HudUp(id)
  <2>1. mode' = mode /\ rendered' = rendered /\ strayed' = strayed /\ (refusals' = refusals \/ Refused)
    BY <1>7 DEF StartUp, EndRelay, HudUp, modeVars, bindVars
  <2>2. \/ Moves(id, {"idle"}, {"endRelay"}) \/ Moves(id, {"endRelay"}, {"hudUp", "idle"})
        \/ Moves(id, {"hudUp"}, {"idle"})
    BY <1>7, WorkerMoves, StartUpMoves
  <2> QED
    BY <2>1, <2>2, ModeMoves
<1> QED
  BY <1>2, <1>3, <1>4, <1>5, <1>7 DEF Worker

LEMMA ModeRebinding ==
  ASSUME TypeIInv, ModeShown, NEW t \in Task, Rebinding(t) PROVE ModeShown'
<1>1. CASE Rebind(t)
  <2>1. mode' = mode /\ rendered'.mode = mode
    BY <1>1 DEF Rebind, Rerender, View, modeVars
  <2> QED
    BY <2>1 DEF ModeShown
<1>2. CASE RebindRefused(t)
  <2>1. refusals' # 0
    BY <1>2 DEF RebindRefused, Refused, TypeIInv
  <2> QED
    BY <2>1 DEF ModeShown
<1>3. CASE ClearTickers(t) \/ ReleaseAll(t)
  <2>1. mode' = mode /\ rendered' = rendered /\ strayed' = strayed /\ refusals' = refusals
    BY <1>3 DEF ClearTickers, ReleaseAll, modeVars, bindVars
  <2>2. Moves(t, {"clear"}, {"release"}) \/ Moves(t, {"release"}, Then)
    BY <1>3, ClearMoves, RebindingMoves
  <2> QED
    BY <2>1, <2>2, ModeMoves
<1>4. CASE PrepareConfig(t) \/ PrepareFails(t) \/ CommitRefused(t)
  <2>1. mode' = mode /\ rendered' = rendered /\ strayed' = strayed /\ (refusals' = refusals \/ Refused)
    BY <1>4 DEF PrepareConfig, PrepareFails, CommitRefused, modeVars, bindVars
  <2>2. \/ Moves(t, {"prepare"}, {"commit"}) \/ Moves(t, {"prepare"}, Ended)
        \/ Moves(t, {"commit"}, Ended)
    BY <1>4, PrepareMoves, RebindingMoves
  <2> QED
    BY <2>1, <2>2, ModeMoves
<1>5. CASE \E config \in Config : CommitConfig(t, config)
  <2>1. mode' = "root" /\ rendered'.mode = "root"
    BY <1>5 DEF CommitConfig, Rerender
  <2> QED
    BY <2>1 DEF ModeShown
<1> QED
  BY <1>1, <1>2, <1>3, <1>4, <1>5 DEF Rebinding

LEMMA ModeKept == ASSUME TypeIInv, ModeShown, [Next]_vars PROVE ModeShown'
<1>1. CASE \E i \in Ident : Press(i) \/ Release(i)
  BY <1>1, ModeStays DEF Press, Release, modeVars, bindVars, At
<1>2. CASE \E w \in Window : MoveFocus(w)
  BY <1>2, ModeStays DEF MoveFocus, modeVars, bindVars, At
<1>3. CASE FollowFocus
  <2>1. Moves(World, {"idle"}, {"idle", "rebind"})
    BY <1>3, RebindingMoves DEF Task
  <2>2. mode' = mode /\ rendered' = rendered /\ strayed' = strayed /\ refusals' = refusals
    BY <1>3 DEF FollowFocus, modeVars, bindVars
  <2> QED
    BY <2>1, <2>2, ModeMoves
<1>4. ASSUME NEW i \in Ident, Tick(i) \/ \E n \in Running(i), stop \in BOOLEAN : EndTick(i, n, stop)
      PROVE  ModeShown'
  <2>1. /\ mode' = mode /\ rendered' = rendered /\ strayed' = strayed /\ refusals' = refusals
        /\ job' = job
    BY <1>4 DEF Tick, EndTick, Ends, modeVars, bindVars
  <2> QED
    BY <2>1, ModeStays DEF At
<1>5. ASSUME NEW i \in Ident, TickReloads(i) \/ StopTick(i) PROVE ModeShown'
  <2>1. mode' = mode /\ rendered' = rendered /\ strayed' = strayed /\ refusals' = refusals
    BY <1>5 DEF TickReloads, StopTick, Ends, modeVars, bindVars
  <2>2. Moves(i, {"idle"}, {"prepare"}) \/ Moves(i, {"stop"}, {"idle"})
    BY <1>5, OthersAreTasks, ReloadMoves, DoneMoves DEF StopTick, At
  <2> QED
    BY <2>1, <2>2, ModeMoves
<1>6. ASSUME NEW i \in Ident, NEW n \in Running(i), TickNavigates(i, n) PROVE ModeShown'
  <2>1. rendered' = rendered /\ refusals' = refusals /\ job' = job /\ strayed' = (strayed \/ mode' # mode)
    BY <1>6 DEF TickNavigates
  <2>2. CASE mode' = mode
    BY <2>1, <2>2 DEF ModeShown, At
  <2>3. CASE mode' # mode
    BY <2>1, <2>3 DEF ModeShown
  <2> QED
    BY <2>2, <2>3
<1>7. CASE UNCHANGED vars
  BY <1>7, ModeStays DEF vars, modeVars, bindVars, At
<1>8. CASE Held
  BY <1>4, <1>5, <1>6, <1>8 DEF Held
<1> QED
  BY <1>1, <1>2, <1>3, <1>5, <1>7, <1>8, ModeWorker, ModeRebinding DEF Next, Tasks

\* Whenever the engine comes to rest, the keys registered are those of the mode
\* it is in: a worker that changes the mode binds again, whoever else binds
\* meanwhile.  It need not be so when the UI channel refused a refresh, or when a
\* tick of a held action changed the mode and nothing has bound since.
THEOREM ModeAlwaysSettles == Spec => []ModeSettles
<1>1. Init => ModeShown
  BY DEF Init, ModeShown
<1>2. TypeIInv /\ ModeShown /\ [Next]_vars => ModeShown'
  BY ModeKept
<1>3. ModeShown => ModeSettles
  BY DEF ModeShown, ModeSettles, Settled, At
<1>4. CoreIInv => TypeIInv
  BY DEF CoreIInv
<1> QED
  BY <1>1, <1>2, <1>3, <1>4, CoreInvariant, PTL DEF Spec

----------------------------------------------------------------------------
(* Sessions are pinned. *)

PinnedStep ==
  session # NoWindow /\ ~Reloads =>
    /\ session' \in {session, NoWindow}
    /\ rendered' # rendered /\ session' = session => rendered'.window = session

\* Only these change the session or what is rendered.
LEMMA PinnedWorker ==
  ASSUME TypeIInv, NEW id \in Id, Worker(id), session # NoWindow, ~Reloads PROVE PinnedStep
<1>1. \A w : Context(w) = session
  BY DEF Context
<1>2. CASE Navigate(id) \/ AutoExit(id)
  <2>1. session' \in {session, NoWindow} /\ rendered' = rendered
    BY <1>1, <1>2 DEF Navigate, AutoExit, Enter, Leave, ShowRoot, HideHud, bindVars
  <2> QED
    BY <2>1 DEF PinnedStep
<1>3. CASE ~(Navigate(id) \/ AutoExit(id))
  <2>1. session' = session /\ rendered' = rendered
    BY <1>3 DEF Worker, StartDown, Drop, Refresh, Select, Unbound, Resolve, RunOnce, Hold,
                StartUp, EndRelay, HudUp, modeVars, bindVars
  <2> QED
    BY <2>1 DEF PinnedStep
<1> QED
  BY <1>2, <1>3

LEMMA PinnedRebinding ==
  ASSUME TypeIInv, NEW t \in Task, Rebinding(t), session # NoWindow, ~Reloads PROVE PinnedStep
<1>1. CASE Rebind(t)
  <2>1. session' = session /\ rendered'.window = session
    BY <1>1 DEF Rebind, Rerender, View, Context, modeVars
  <2> QED
    BY <2>1 DEF PinnedStep
<1>2. CASE \/ RebindRefused(t) \/ ClearTickers(t) \/ ReleaseAll(t)
           \/ PrepareConfig(t) \/ PrepareFails(t) \/ CommitRefused(t)
  <2>1. session' = session /\ rendered' = rendered
    BY <1>2 DEF RebindRefused, ClearTickers, ReleaseAll, PrepareConfig, PrepareFails,
                CommitRefused, modeVars, bindVars
  <2> QED
    BY <2>1 DEF PinnedStep
<1>3. CASE \E config \in Config : CommitConfig(t, config)
  <2>1. Moves(t, {"commit"}, {"clear"} \cup Ended)
    BY <1>3, RebindingMoves
  <2>2. Reloads
    BY <2>1 DEF Reloads, Moves, At, Ended
  <2> QED
    BY <2>2
<1> QED
  BY <1>1, <1>2, <1>3 DEF Rebinding

LEMMA PinnedKept == ASSUME TypeIInv, [Next]_vars PROVE PinnedStep
<1> SUFFICES ASSUME session # NoWindow, ~Reloads PROVE PinnedStep
  BY DEF PinnedStep
<1>1. CASE \/ \E i \in Ident : Press(i) \/ Release(i) \/ StopTick(i)
           \/ \E w \in Window : MoveFocus(w)
           \/ FollowFocus \/ UNCHANGED vars
  <2>1. session' = session /\ rendered' = rendered
    BY <1>1 DEF Press, Release, StopTick, Ends, MoveFocus, FollowFocus, vars, modeVars, bindVars
  <2> QED
    BY <2>1 DEF PinnedStep
<1>2. CASE Held
  <2>1. rendered' = rendered
    BY <1>2 DEF Held, Tick, TickReloads, TickNavigates, EndTick, Ends, bindVars
  <2>2. session' \in {session, NoWindow}
    BY <1>2 DEF Held, Tick, TickReloads, TickNavigates, EndTick, Ends, modeVars, Enter, Leave,
                ShowRoot, HideHud, Context
  <2> QED
    BY <2>1, <2>2 DEF PinnedStep
<1> QED
  BY <1>1, <1>2, PinnedWorker, PinnedRebinding DEF Next, Tasks

\* "A transient mode-stack session pins its opening window" (lib.rs:22), whoever
\* binds again and for whatever focus: no step but a reload moves the window of
\* an open session, or renders another one while it stays open.
THEOREM SessionAlwaysPinned == Spec => SessionPinned
<1>1. CoreIInv /\ [Next]_vars =>
        [session # NoWindow /\ ~Reloads =>
           /\ session' \in {session, NoWindow}
           /\ rendered' # rendered /\ session' = session => rendered'.window = session]_vars
  BY PinnedKept DEF CoreIInv, PinnedStep
<1> QED
  BY <1>1, CoreInvariant, PTL DEF Spec, SessionPinned
============================================================================
