----------------------------- MODULE WorkerPool -----------------------------
(***************************************************************************)
(* The per-hotkey worker pool of the server                                *)
(* (crates/hotki-server/src/ipc/service/workers.rs), fed by the hotkey     *)
(* dispatcher task of service.rs.                                          *)
(*                                                                         *)
(* Each registration id owns one worker at a time.  A worker generation    *)
(* has an unbounded channel, a `pending' counter that makes the channel    *)
(* logically bounded, a `release_pending' flag, and a share of the handoff *)
(* mutex that serialises it with the generation it replaces.               *)
(*                                                                         *)
(* Granularity: a step ends at every await, every acquisition of the map   *)
(* lock and every channel operation.  The server runs on a current-thread  *)
(* runtime (server.rs:262), where tasks interleave only at awaits; the     *)
(* pool itself (Arc, atomics, map lock) is written for any runtime.  The   *)
(* constant Parallel chooses: TRUE interleaves every step.                 *)
(***************************************************************************)
EXTENDS Naturals, Sequences

CONSTANTS
  Id,             \* registration ids handed out by mac_hotkey::Manager
  Capacity,       \* WorkerPool::queue_capacity (64 in production)
  MaxGeneration,  \* bound: worker generations ever spawned
  MaxEvents,      \* bound: events read from the event tap
  MaxPanics,      \* bound: worker tasks lost to a panic in Engine::dispatch
  Parallel        \* whether tasks run in parallel or on a current-thread runtime

ASSUME PoolAssumption ==
  /\ Id # {}
  /\ Capacity \in Nat \ {0}
  /\ MaxGeneration \in Nat
  /\ MaxEvents \in Nat
  /\ MaxPanics \in Nat
  /\ Parallel \in BOOLEAN

Generation == 1..MaxGeneration
NoWorker == 0       \* absent map entry, and free handoff mutex
Holder == 0..MaxGeneration

Kind == {"down", "repeat", "up"}    \* EventKind and the repeat flag
Message == Kind \cup {"forced"}     \* WorkerMessage
NoMessage == "none"

WorkerPc == {"unborn", "gate", "loop", "recv", "dispatch", "close", "drain",
             "remove", "done"}
DispatcherPc == {"idle", "lookup", "check", "choose", "send", "replace",
                 "stopped"}

VARIABLES
  workers,         \* id -> generation of the handle in the map, or NoWorker
  nextGeneration,  \* WorkerPool::next_generation
  owner,           \* generation -> its id
  handoff,         \* generation -> the handoff mutex it shares, named by the
                   \* generation that created it
  gate,            \* mutex -> generation holding it, or NoWorker
  pc,              \* generation -> point of the worker task
  closed,          \* generation -> its receiver is closed
  queue,           \* generation -> accepted messages not yet received
  current,         \* generation -> message inside Engine::dispatch
  pending,         \* generation -> WorkerHandle::pending
  releasePending,  \* generation -> WorkerHandle::release_pending
  dpc,             \* point of the dispatcher task in dispatch_with
  event,           \* [id, kind] being dispatched
  attempt,         \* loop variable of dispatch_with
  target,          \* generation whose handle the dispatcher cloned
  message,         \* message chosen for the target
  shutdown,        \* ShutdownCoordinator flag
  physical,        \* id -> the key is physically down
  held,            \* id -> the engine has seen its last press and no release
  events,          \* events read so far
  panics           \* worker panics so far

workerVars == <<workers, nextGeneration, owner, handoff>>
taskVars == <<gate, pc, closed>>
channelVars == <<queue, current, pending, releasePending>>
dispatcherVars == <<dpc, event, attempt, target, message>>
outsideVars == <<shutdown, physical, held, events, panics>>
vars == <<workerVars, taskVars, channelVars, dispatcherVars, outsideVars>>

----------------------------------------------------------------------------
Init ==
  /\ workers = [i \in Id |-> NoWorker]
  /\ nextGeneration = 1
  /\ owner = [g \in Generation |-> CHOOSE i \in Id : TRUE]
  /\ handoff = [g \in Generation |-> g]
  /\ gate = [g \in Generation |-> NoWorker]
  /\ pc = [g \in Generation |-> "unborn"]
  /\ closed = [g \in Generation |-> FALSE]
  /\ queue = [g \in Generation |-> <<>>]
  /\ current = [g \in Generation |-> NoMessage]
  /\ pending = [g \in Generation |-> 0]
  /\ releasePending = [g \in Generation |-> FALSE]
  /\ dpc = "idle"
  /\ event = [id |-> CHOOSE i \in Id : TRUE, kind |-> "down"]
  /\ attempt = 0
  /\ target = NoWorker
  /\ message = NoMessage
  /\ shutdown = FALSE
  /\ physical = [i \in Id |-> FALSE]
  /\ held = [i \in Id |-> FALSE]
  /\ events = 0
  /\ panics = 0

----------------------------------------------------------------------------
(* The runtime: on one thread a task runs on until its next await.  Recv on a *)
(* closed channel never waits, so the drain of a closed channel is no await.  *)

DispatcherWaits == dpc \in {"idle", "stopped"}
WorkerWaits(g) == pc[g] \in {"unborn", "gate", "recv", "dispatch", "done"}

\* The dispatcher task is at point p and may run.
At(p) ==
  /\ dpc = p
  /\ Parallel \/ \A g \in Generation : WorkerWaits(g)

\* Worker g is at point `from', may run, and moves on to point `to'.
Goto(g, from, to) ==
  /\ pc[g] = from
  /\ Parallel \/ (DispatcherWaits /\
                  \A h \in Generation \ {g} : WorkerWaits(h))
  /\ pc' = [pc EXCEPT ![g] = to]

----------------------------------------------------------------------------
(* The dispatcher task. *)

\* The tap pairs a press of a key with its repeats and its release.
Follows(i, kind) == (kind = "down") # physical[i]

\* The dispatcher receives the next event and leaves its loop once shutdown is
\* requested.  The channels before it are unbounded and ordered, so reading an
\* event stands for its emission too.
Take(i, kind) ==
  /\ At("idle")
  /\ events < MaxEvents
  /\ nextGeneration + 2 <= MaxGeneration    \* bound: room for both attempts
  /\ Follows(i, kind)
  /\ events' = events + 1
  /\ physical' = [physical EXCEPT ![i] = kind # "up"]
  /\ IF shutdown
     THEN dpc' = "stopped" /\ UNCHANGED <<event, attempt>>
     ELSE /\ dpc' = "lookup"
          /\ event' = [id |-> i, kind |-> kind]
          /\ attempt' = 0
  /\ UNCHANGED <<workerVars, taskVars, channelVars, target, message, shutdown,
                 held, panics>>

\* spawn_worker: a fresh generation that shares mutex h and waits for it.
SpawnWorker(h) ==
  LET g == nextGeneration IN
  /\ g \in Generation
  /\ nextGeneration' = g + 1
  /\ owner' = [owner EXCEPT ![g] = event.id]
  /\ handoff' = [handoff EXCEPT ![g] = h]
  /\ pc' = [pc EXCEPT ![g] = "gate"]
  /\ workers' = [workers EXCEPT ![event.id] = g]

\* Clone the handle in the map, spawning a worker with a mutex of its own when
\* there is none.
Lookup ==
  /\ At("lookup")
  /\ dpc' = "check"
  /\ \/ /\ workers[event.id] # NoWorker
        /\ target' = workers[event.id]
        /\ UNCHANGED <<workerVars, pc>>
     \/ /\ workers[event.id] = NoWorker
        /\ SpawnWorker(nextGeneration)
        /\ target' = nextGeneration
  /\ UNCHANGED <<gate, closed, channelVars, event, attempt, message,
                 outsideVars>>

\* remove_generation: only the generation the map still names.
RemoveGeneration(i, g) ==
  workers' = IF workers[i] = g THEN [workers EXCEPT ![i] = NoWorker]
                               ELSE workers

\* The channel of the target is closed: try once more with a replacement, or
\* give up with QueueClosed.
Rejected ==
  \/ /\ attempt = 0
     /\ dpc' = "replace"
     /\ UNCHANGED workers
  \/ /\ attempt = 1
     /\ dpc' = "idle"
     /\ RemoveGeneration(event.id, target)

CheckClosed ==
  /\ At("check")
  /\ IF closed[target] THEN Rejected ELSE dpc' = "choose" /\ UNCHANGED workers
  /\ UNCHANGED <<nextGeneration, owner, handoff, taskVars, channelVars, event,
                 attempt, target, message, outsideVars>>

\* Defect: the capacity test is off by one.
FullPastCapacity(g) == pending[g] > Capacity

\* The logical bound: pending >= queue_capacity.
Full(g) == pending[g] >= Capacity

\* Below capacity the event itself is sent.  At capacity one release is
\* retained as a forced release, and everything else is refused (QueueFull).
Choose ==
  /\ At("choose")
  /\ \/ /\ ~Full(target)
        /\ message' = event.kind
        /\ dpc' = "send"
        /\ UNCHANGED releasePending
     \/ /\ Full(target)
        /\ event.kind = "up" /\ ~releasePending[target]
        /\ message' = "forced"
        /\ releasePending' = [releasePending EXCEPT ![target] = TRUE]
        /\ dpc' = "send"
     \/ /\ Full(target)
        /\ event.kind # "up" \/ releasePending[target]
        /\ dpc' = "idle"
        /\ UNCHANGED <<message, releasePending>>
  /\ UNCHANGED <<workerVars, taskVars, queue, current, pending, event, attempt,
                 target, outsideVars>>

\* Queued or ReleaseQueued; a send to a receiver closed meanwhile is undone.
Send ==
  /\ At("send")
  /\ IF closed[target]
     THEN /\ Rejected
          /\ releasePending' =
               [releasePending EXCEPT ![target] = @ /\ message # "forced"]
          /\ UNCHANGED <<queue, pending>>
     ELSE /\ dpc' = "idle"
          /\ queue' = [queue EXCEPT ![target] = Append(@, message)]
          /\ pending' = [pending EXCEPT ![target] = @ + 1]
          /\ UNCHANGED <<workers, releasePending>>
  /\ message' = NoMessage
  /\ UNCHANGED <<nextGeneration, owner, handoff, taskVars, current, event,
                 attempt, target, outsideVars>>

\* Defect: the replacement gets a mutex of its own.
ReplaceWithFreshMutex ==
  /\ At("replace")
  /\ IF workers[event.id] \in {NoWorker, target}
     THEN SpawnWorker(nextGeneration)
     ELSE UNCHANGED <<workerVars, pc>>
  /\ dpc' = "lookup"
  /\ attempt' = 1
  /\ UNCHANGED <<gate, closed, channelVars, event, target, message,
                 outsideVars>>

\* replace_closed_generation: the replacement inherits the handoff mutex of the
\* closed generation, unless the map already moved on.
Replace ==
  /\ At("replace")
  /\ IF workers[event.id] \in {NoWorker, target}
     THEN SpawnWorker(handoff[target])
     ELSE UNCHANGED <<workerVars, pc>>
  /\ dpc' = "lookup"
  /\ attempt' = 1
  /\ UNCHANGED <<gate, closed, channelVars, event, target, message,
                 outsideVars>>

----------------------------------------------------------------------------
(* The worker task of generation g. *)

\* handoff.lock_owned().await, then the shared engine is initialised.
AcquireGate(g) ==
  /\ Goto(g, "gate", "loop")
  /\ gate[handoff[g]] = NoWorker
  /\ gate' = [gate EXCEPT ![handoff[g]] = g]
  /\ UNCHANGED <<workerVars, closed, channelVars, dispatcherVars, outsideVars>>

\* Head of the worker loop.
CheckShutdown(g) ==
  /\ Goto(g, "loop", IF shutdown THEN "close" ELSE "recv")
  /\ UNCHANGED <<workerVars, gate, closed, channelVars, dispatcherVars,
                 outsideVars>>

\* rx.recv() yields the next message, in the loop or in the final drain.
Receive(g, from) ==
  /\ Goto(g, from, "dispatch")
  /\ queue[g] # <<>>
  /\ current' = [current EXCEPT ![g] = Head(queue[g])]
  /\ queue' = [queue EXCEPT ![g] = Tail(queue[g])]
  /\ UNCHANGED <<workerVars, gate, closed, pending, releasePending,
                 dispatcherVars, outsideVars>>

\* timeout(idle_timeout, rx.recv()) expires only when nothing is queued.
IdleTimeout(g) ==
  /\ Goto(g, "recv", "close")
  /\ queue[g] = <<>>
  /\ UNCHANGED <<workerVars, gate, closed, channelVars, dispatcherVars,
                 outsideVars>>

\* The engine's key tracker after it dispatched m.
Tracked(m, down) == IF m = "down" THEN TRUE
                    ELSE IF m \in {"up", "forced"} THEN FALSE ELSE down

\* process_worker_message after Engine::dispatch returned.
Finish(g) ==
  /\ Goto(g, "dispatch", IF closed[g] THEN "drain" ELSE "loop")
  /\ pending' = [pending EXCEPT ![g] = @ - 1]
  /\ releasePending' =
       [releasePending EXCEPT ![g] = @ /\ current[g] # "forced"]
  /\ held' = [held EXCEPT ![owner[g]] = Tracked(current[g], @)]
  /\ current' = [current EXCEPT ![g] = NoMessage]
  /\ UNCHANGED <<workerVars, gate, closed, queue, dispatcherVars, shutdown,
                 physical, events, panics>>

\* Defect: the receiver is dropped instead of closed.
CloseByDrop(g) ==
  /\ Goto(g, "close", "drain")
  /\ closed' = [closed EXCEPT ![g] = TRUE]
  /\ queue' = [queue EXCEPT ![g] = <<>>]
  /\ UNCHANGED <<workerVars, gate, current, pending, releasePending,
                 dispatcherVars, outsideVars>>

\* rx.close(): later sends fail, accepted messages stay readable.
Close(g) ==
  /\ Goto(g, "close", "drain")
  /\ closed' = [closed EXCEPT ![g] = TRUE]
  /\ UNCHANGED <<workerVars, gate, channelVars, dispatcherVars, outsideVars>>

\* Defect: the generation leaves with messages still in its channel.
DrainedEarly(g) ==
  /\ Goto(g, "drain", "remove")
  /\ UNCHANGED <<workerVars, gate, closed, channelVars, dispatcherVars,
                 outsideVars>>

\* The drain ends at the first try_recv that finds nothing.
Drained(g) ==
  /\ Goto(g, "drain", "remove")
  /\ queue[g] = <<>>
  /\ UNCHANGED <<workerVars, gate, closed, channelVars, dispatcherVars,
                 outsideVars>>

\* Defect: the handoff guard outlives the task.
RetireHoldingGate(g) ==
  /\ Goto(g, "remove", "done")
  /\ RemoveGeneration(owner[g], g)
  /\ UNCHANGED <<nextGeneration, owner, handoff, gate, closed, channelVars,
                 dispatcherVars, outsideVars>>

\* remove_generation, then the task ends and its guard opens the gate.
Retire(g) ==
  /\ Goto(g, "remove", "done")
  /\ RemoveGeneration(owner[g], g)
  /\ gate' = [gate EXCEPT ![handoff[g]] = NoWorker]
  /\ UNCHANGED <<nextGeneration, owner, handoff, closed, channelVars,
                 dispatcherVars, outsideVars>>

\* A panic inside Engine::dispatch ends the task: its receiver is dropped with
\* whatever it held, the guard opens the gate, the map keeps the dead handle.
Panic(g) ==
  /\ panics < MaxPanics
  /\ Goto(g, "dispatch", "done")
  /\ panics' = panics + 1
  /\ closed' = [closed EXCEPT ![g] = TRUE]
  /\ queue' = [queue EXCEPT ![g] = <<>>]
  /\ current' = [current EXCEPT ![g] = NoMessage]
  /\ gate' = [gate EXCEPT ![handoff[g]] = NoWorker]
  /\ UNCHANGED <<workerVars, pending, releasePending, dispatcherVars, shutdown,
                 physical, held, events>>

\* ShutdownCoordinator::request, from any thread.
RequestShutdown ==
  /\ ~shutdown
  /\ shutdown' = TRUE
  /\ UNCHANGED <<workerVars, taskVars, channelVars, dispatcherVars, physical,
                 held, events, panics>>

----------------------------------------------------------------------------
Dispatcher == Lookup \/ CheckClosed \/ Choose \/ Send \/ Replace

Worker(g) ==
  \/ AcquireGate(g)
  \/ CheckShutdown(g)
  \/ Receive(g, "recv")
  \/ IdleTimeout(g)
  \/ Finish(g)
  \/ Close(g)
  \/ Receive(g, "drain")
  \/ Drained(g)
  \/ Retire(g)

Next ==
  \/ \E i \in Id, kind \in Kind : Take(i, kind)
  \/ Dispatcher
  \/ \E g \in Generation : Worker(g) \/ Panic(g)
  \/ RequestShutdown

\* Tokio polls a woken task again, its timers fire, and Engine::dispatch
\* returns; nobody has to press a key or request a shutdown.
Fairness == WF_vars(Dispatcher) /\ \A g \in Generation : WF_vars(Worker(g))

Spec == Init /\ [][Next]_vars
FairSpec == Spec /\ Fairness

----------------------------------------------------------------------------
(* Types, and the positions of a worker the properties speak of. *)

MapTypes ==
  /\ workers \in [Id -> Holder]
  /\ nextGeneration \in 1..(MaxGeneration + 1)
  /\ owner \in [Generation -> Id]
  /\ handoff \in [Generation -> Generation]

TaskTypes ==
  /\ gate \in [Generation -> Holder]
  /\ pc \in [Generation -> WorkerPc]
  /\ closed \in [Generation -> BOOLEAN]

ChannelTypes ==
  /\ queue \in [Generation -> Seq(Message)]
  /\ current \in [Generation -> Message \cup {NoMessage}]
  /\ pending \in [Generation -> Nat]
  /\ releasePending \in [Generation -> BOOLEAN]

DispatcherTypes ==
  /\ dpc \in DispatcherPc
  /\ event \in [id : Id, kind : Kind]
  /\ attempt \in {0, 1}
  /\ target \in Holder
  /\ message \in Message \cup {NoMessage}

OutsideTypes ==
  /\ shutdown \in BOOLEAN
  /\ physical \in [Id -> BOOLEAN]
  /\ held \in [Id -> BOOLEAN]
  /\ events \in Nat
  /\ panics \in Nat

\* Every variable keeps the shape of the Rust field or local it stands for; in
\* particular `pending', an unsigned counter, never drops below zero.
TypeOK ==
  /\ MapTypes
  /\ TaskTypes
  /\ ChannelTypes
  /\ DispatcherTypes
  /\ OutsideTypes

Dispatching(g) == pc[g] = "dispatch"
Live(g) == pc[g] \notin {"unborn", "done"}
\* Positions of the forced releases in a channel.
ForcedIn(q) == {k \in 1..Len(q) : q[k] = "forced"}
Sending(g, m) == dpc = "send" /\ target = g /\ message = m
One(b) == IF b THEN 1 ELSE 0

----------------------------------------------------------------------------
(* Safety. *)

\* The promise of the handoff mutex: two generations of one id are never inside
\* Engine::dispatch together, whatever closes, retires, panics or is replaced.
MutualExclusion ==
  \A g, h \in Generation :
    owner[g] = owner[h] /\ Dispatching(g) /\ Dispatching(h) => g = h

\* "A replacement cannot overtake them" (workers.rs:247): while a generation
\* dispatches, no earlier generation of its id still holds an accepted message.
NoOvertaking ==
  \A g, h \in Generation :
    g < h /\ owner[g] = owner[h] /\ Dispatching(h) =>
      queue[g] = <<>> /\ ~Dispatching(g)

\* The logical bound: `pending' counts exactly what is queued or in dispatch,
\* and exceeds the capacity only by the one retained release.
PendingAccounting ==
  \A g \in Generation : Live(g) =>
    /\ pending[g] = Len(queue[g]) + One(Dispatching(g))
    /\ pending[g] <= Capacity + One(releasePending[g])

\* release_pending is up exactly while one forced release is about to be sent,
\* queued or in dispatch: a lost flag would refuse every later release of a
\* saturated worker, a stale reset would let the queue grow without bound.
ReleaseTracked(g) ==
  LET queued == ForcedIn(queue[g]) # {}
      inDispatch == current[g] = "forced"
      sending == Sending(g, "forced")
  IN /\ \A j, k \in ForcedIn(queue[g]) : j = k
     /\ releasePending[g] = (queued \/ inDispatch \/ sending)
     /\ ~(queued /\ inDispatch)
     /\ ~(queued /\ sending)
     /\ ~(inDispatch /\ sending)

ReleaseFlagTracksRelease ==
  \A g \in Generation : Live(g) => ReleaseTracked(g)

\* An accepted message leaves the channel only into dispatch (no generation
\* ends with messages in it), except for those a panic takes along.
NothingAbandoned ==
  [][\A g \in Generation :
       queue'[g] # queue[g] /\ panics' = panics =>
         \/ \E m \in Message : queue'[g] = Append(queue[g], m) /\ ~closed[g]
         \/ /\ current'[g] = Head(queue[g])
            /\ queue'[g] = Tail(queue[g])
            /\ current[g] = NoMessage]_vars

----------------------------------------------------------------------------
(* Liveness, and what the comments about saturation promise. *)

Busy(g) == queue[g] # <<>> \/ Dispatching(g)

\* After a shutdown request every worker that was ever spawned ends.
ShutdownEndsWorkers ==
  shutdown ~> \A g \in Generation : ~Live(g)

Quiescent == dpc = "idle" /\ \A g \in Generation : ~Busy(g)

\* The retained release (workers.rs:56 and :66, the warning of service.rs:407):
\* once everything accepted was dispatched, the engine holds no key down that
\* the user has let go.
ReleaseRetained ==
  Quiescent /\ ~shutdown /\ panics = 0 =>
    \A i \in Id : held[i] => physical[i]

----------------------------------------------------------------------------
(* What the pool promises its neighbours. *)

\* The generations of an id with a channel, closed or open, that holds accepted
\* messages.  There is at most one of each: one that drains its closed channel,
\* and the open one of its replacement.
Unread(i, isClosed) ==
  {g \in Generation : owner[g] = i /\ closed[g] = isClosed /\ queue[g] # <<>>}

Waiting(i, isClosed) ==
  IF Unread(i, isClosed) = {} THEN <<>>
  ELSE queue[CHOOSE g \in Unread(i, isClosed) : TRUE]

\* What the engine is to see of an id, the closed channel first.
Backlog(i) == Waiting(i, TRUE) \o Waiting(i, FALSE)

\* What the engine sees of it now.
Serving(i) ==
  IF \E g \in Generation : owner[g] = i /\ Dispatching(g)
  THEN current[CHOOSE g \in Generation : owner[g] = i /\ Dispatching(g)]
  ELSE NoMessage

Delivery == INSTANCE KeyedDelivery WITH
  backlog <- [i \in Id |-> Backlog(i)],
  serving <- [i \in Id |-> Serving(i)]

\* dispatch_with and spawn_worker: the pool delivers each key in order, one message at
\* a time, across every generation of its worker, and everything it accepts in the end;
\* only a panic loses messages, and then the oldest.
DeliversEverything == Delivery!FairSpec

=============================================================================
