--------------------------- MODULE ServerProofs ----------------------------
(***************************************************************************)
(* Proofs about the parts of the server and its client: the worker pool    *)
(* (WorkerPool), the life of the server (ServerLife), and the lane on      *)
(* which a client receives events (ClientLane).                            *)
(***************************************************************************)
EXTENDS WorkerPool, ServerLife, ClientLane, TLAPS, SequenceTheorems

----------------------------------------------------------------------------
(***************************************************************************)
(* Proofs about WorkerPool, for every number of ids, every capacity and    *)
(* every bound.                                                            *)
(*                                                                         *)
(* MutualExclusion and NoOvertaking are not inductive: they hold because a *)
(* generation that passed its gate leaves only Inert predecessors behind   *)
(* (Order), which rests on who may be in the map (Map), on who holds the   *)
(* gates (Gates), and on the dispatcher giving up on a second attempt only *)
(* after a replacement that received nothing (Target).                     *)
(***************************************************************************)

Born(g) == g < nextGeneration

\* Past its gate, and not ended.
Holds(g) == pc[g] \in {"loop", "recv", "dispatch", "close", "drain", "remove"}

\* Nothing of g can reach the engine any more.
Inert(g) == closed[g] /\ queue[g] = <<>> /\ pc[g] # "dispatch"

\* A generation not yet spawned is untouched, and only dispatch holds a message.
Unborn ==
  \A g \in Generation :
    /\ pc[g] = "unborn" <=> ~Born(g)
    /\ pc[g] = "unborn" =>
         /\ ~closed[g]
         /\ queue[g] = <<>>
         /\ pending[g] = 0
         /\ ~releasePending[g]
    /\ pc[g] # "dispatch" => current[g] = NoMessage

\* A worker past its gate holds it, so no other generation that shares it does.
Gates ==
  \A g \in Generation : Holds(g) => gate[handoff[g]] = g

\* Where a worker may be with an open and with a closed channel.
Channels ==
  \A g \in Generation :
    /\ closed[g] => pc[g] \in {"dispatch", "drain", "remove", "done"}
    /\ pc[g] \in {"drain", "remove", "done"} => closed[g]
    /\ pc[g] \in {"remove", "done"} => queue[g] = <<>>

\* The map names the newest generation of an id, or every generation of that
\* id is inert; an open channel belongs to the generation in the map.
Map ==
  /\ \A i \in Id : workers[i] # NoWorker =>
       /\ Born(workers[i])
       /\ owner[workers[i]] = i
       /\ \A g \in Generation : Born(g) /\ owner[g] = i => g <= workers[i]
  /\ \A i \in Id : workers[i] = NoWorker =>
       \A g \in Generation : Born(g) /\ owner[g] = i => Inert(g)
  /\ \A g \in Generation : Born(g) /\ ~closed[g] => workers[owner[g]] = g

\* Whoever passed a gate has only inert predecessors; the others wait behind
\* the gate of the predecessor they replace.
Order ==
  \A g, h \in Generation :
    g < h /\ Born(h) /\ owner[g] = owner[h] =>
      \/ Inert(g)
      \/ pc[h] = "gate" /\ handoff[g] = handoff[h]

\* Nothing was sent to g yet.
Fresh(g) == queue[g] = <<>> /\ pc[g] # "dispatch"

\* The handle the dispatcher works on is the newest of its id, and on the
\* second attempt it received nothing.
Target ==
  /\ dpc \in {"check", "choose", "send", "replace"} =>
       /\ target \in Generation
       /\ Born(target)
       /\ owner[target] = event.id
       /\ \A g \in Generation :
            Born(g) /\ owner[g] = event.id => g <= target
       /\ attempt = 1 => Fresh(target)
  /\ dpc = "replace" => closed[target]
  /\ dpc = "lookup" /\ attempt = 1 /\ workers[event.id] # NoWorker =>
       Fresh(workers[event.id])
  /\ dpc = "send" => message \in Message

\* The accounting of `pending', with the room the dispatcher has seen.
Count ==
  \A g \in Generation : pc[g] # "done" =>
    /\ pending[g] = Len(queue[g]) + One(pc[g] = "dispatch")
    /\ pending[g] <= Capacity + One(releasePending[g])
    /\ dpc = "send" /\ target = g =>
         IF message = "forced" THEN pending[g] <= Capacity
                               ELSE pending[g] < Capacity

\* The inductive invariant.
PoolIInv ==
  /\ TypeOK
  /\ Unborn
  /\ Gates
  /\ Channels
  /\ Map
  /\ Order
  /\ Target
  /\ Count
  /\ ReleaseFlagTracksRelease

USE DEF workerVars, taskVars, channelVars, dispatcherVars, outsideVars

----------------------------------------------------------------------------
\* What the proofs need of the numbers that name generations.
LEMMA Generations ==
  /\ Generation \subseteq Nat
  /\ Holder = Generation \cup {NoWorker}
  /\ NoWorker \notin Generation
  /\ nextGeneration \in 1..(MaxGeneration + 1) => nextGeneration \in Nat
  BY PoolAssumption DEF Generation, Holder, NoWorker

\* Forced releases after a send and after a receive.
LEMMA ForcedAppend ==
  ASSUME NEW q \in Seq(Message), NEW m \in Message
  PROVE  ForcedIn(Append(q, m)) =
           ForcedIn(q) \cup (IF m = "forced" THEN {Len(q) + 1} ELSE {})
  BY DEF ForcedIn

LEMMA ForcedTail ==
  ASSUME NEW q \in Seq(Message), q # <<>>
  PROVE  /\ Head(q) = "forced" <=> 1 \in ForcedIn(q)
         /\ \A k \in ForcedIn(Tail(q)) : k \in Nat \ {0} /\ k + 1 \in ForcedIn(q)
         /\ \A k \in ForcedIn(q) : k = 1 \/ k - 1 \in ForcedIn(Tail(q))
  BY DEF ForcedIn

\* Reading an event from the tap keeps the invariant.
LEMMA TakePreserves ==
  ASSUME PoolIInv, NEW i \in Id, NEW kind \in Kind, Take(i, kind)
  PROVE  PoolIInv'
<1> USE DEF Take, At, Follows
<1>a. MapTypes /\ TaskTypes /\ ChannelTypes /\ DispatcherTypes /\ OutsideTypes
  BY DEF PoolIInv, TypeOK
<1>b. /\ Unborn /\ Gates /\ Channels /\ Map /\ Order /\ Target
      /\ Count /\ ReleaseFlagTracksRelease
  BY DEF PoolIInv
<1>1. MapTypes'
    BY Generations, <1>a DEF MapTypes, DispatcherTypes, DispatcherPc, Message,
     Kind
<1>2. TaskTypes'
    BY Generations, <1>a DEF TaskTypes, WorkerPc
<1>3. ChannelTypes'
    BY Generations, <1>a, <1>b DEF ChannelTypes, Message, Kind,
     DispatcherTypes, DispatcherPc, Target, Born, Fresh
<1>4. DispatcherTypes'
    BY Generations, <1>a DEF DispatcherTypes, DispatcherPc, Message, Kind
<1>5. OutsideTypes'
    BY Generations, <1>a DEF OutsideTypes
<1>6. Unborn'
    BY Generations, <1>a, <1>b DEF Unborn, Born, MapTypes, TaskTypes,
     ChannelTypes, DispatcherTypes, Target, Fresh
<1>7. Gates'
    BY Generations, <1>a, <1>b DEF Gates, Holds, MapTypes, TaskTypes
<1>8. Channels'
    BY Generations, <1>a, <1>b DEF Channels, TaskTypes, ChannelTypes,
     DispatcherTypes, Target, Born, Fresh
<1>9. Map'
    BY Generations, <1>a, <1>b DEF Map, Born, Inert, MapTypes, TaskTypes,
     ChannelTypes, Target, Fresh, Order, Channels, Unborn, DispatcherTypes
<1>10. Order'
    BY Generations, <1>a, <1>b DEF Order, Born, Inert, MapTypes, TaskTypes,
     ChannelTypes, Target, Fresh, DispatcherTypes
<1>11. Target'
    BY Generations, <1>a, <1>b DEF Target, Born, Fresh, MapTypes, TaskTypes,
     ChannelTypes, Message, Kind, DispatcherTypes, Map, Inert
<1>12. Count'
    BY Generations, <1>a, <1>b DEF Count, One, TaskTypes, ChannelTypes,
     Message, Kind, DispatcherTypes, Target, Born, Fresh, MapTypes
<1>13. ReleaseFlagTracksRelease'
    BY Generations, <1>a, <1>b DEF ReleaseFlagTracksRelease, ReleaseTracked,
     Live, Sending, ForcedIn, TaskTypes, ChannelTypes, DispatcherTypes
<1> QED
  BY <1>1, <1>2, <1>3, <1>4, <1>5, <1>6, <1>7, <1>8, <1>9, <1>10, <1>11,
     <1>12, <1>13 DEF PoolIInv, TypeOK

\* Looking up or spawning the worker of an event keeps the invariant.
LEMMA LookupPreserves ==
  ASSUME PoolIInv, Lookup
  PROVE  PoolIInv'
<1> USE DEF Lookup, SpawnWorker, At
<1>a. MapTypes /\ TaskTypes /\ ChannelTypes /\ DispatcherTypes /\ OutsideTypes
  BY DEF PoolIInv, TypeOK
<1>b. /\ Unborn /\ Gates /\ Channels /\ Map /\ Order /\ Target
      /\ Count /\ ReleaseFlagTracksRelease
  BY DEF PoolIInv
<1>1. MapTypes'
  <2>1. CASE UNCHANGED workerVars
    BY <1>a, <2>1 DEF MapTypes
  <2>2. CASE nextGeneration \in Generation /\ nextGeneration' = nextGeneration + 1
    <3>1. nextGeneration' \in 1..(MaxGeneration + 1)
      BY <2>2, PoolAssumption DEF Generation
    <3>2. event.id \in Id /\ nextGeneration \in Holder
      BY <1>a, <2>2, Generations DEF DispatcherTypes
    <3> QED
      BY <1>a, <1>b, <2>2, <3>1, <3>2 DEF MapTypes
  <2> QED BY <2>1, <2>2
<1>2. TaskTypes'
    BY Generations, <1>a DEF TaskTypes, WorkerPc, MapTypes
<1>3. ChannelTypes'
    BY Generations, <1>a DEF ChannelTypes, Message, Kind
<1>4. DispatcherTypes'
    BY Generations, <1>a DEF DispatcherTypes, DispatcherPc, Message, Kind,
     MapTypes
<1>5. OutsideTypes'
    BY Generations, <1>a DEF OutsideTypes
<1>6. Unborn'
    BY Generations, <1>a, <1>b DEF Unborn, Born, MapTypes, TaskTypes,
     ChannelTypes, DispatcherTypes
<1>7. Gates'
    BY Generations, <1>a, <1>b DEF Gates, Holds, MapTypes, TaskTypes, Unborn,
     Born, DispatcherTypes, Target, Fresh
<1>8. Channels'
    BY Generations, <1>a, <1>b DEF Channels, TaskTypes, ChannelTypes, Unborn,
     Born, MapTypes
<1>9. Map'
  <2>1. CASE UNCHANGED <<workerVars, pc>>
    <3>1. queue' = queue /\ closed' = closed
      OBVIOUS
    <3>2. \A g \in Generation : pc'[g] = pc[g]
      BY <2>1
    <3> QED BY <1>b, <2>1, <3>1, <3>2 DEF Map, Born, Inert
  <2>2. CASE SpawnWorker(nextGeneration) /\ workers[event.id] = NoWorker
    <3>1. /\ nextGeneration \in Generation /\ event.id \in Id
          /\ workers' = [workers EXCEPT ![event.id] = nextGeneration]
          /\ owner' = [owner EXCEPT ![nextGeneration] = event.id]
          /\ pc' = [pc EXCEPT ![nextGeneration] = "gate"]
          /\ \A g \in Generation : Born(g)' <=> Born(g) \/ g = nextGeneration
      BY <1>a, <2>2, Generations DEF Born, DispatcherTypes
    <3>2. \A g \in Generation : Born(g) => g # nextGeneration /\ owner'[g] = owner[g]
      BY <1>a, <3>1, Generations DEF Born, MapTypes
    <3>3. \A g \in Generation : Born(g) => Inert(g)' = Inert(g)
      BY <1>a, <3>1, <3>2 DEF Inert, TaskTypes
    <3>4. ASSUME NEW i \in Id, workers'[i] # NoWorker
          PROVE  /\ Born(workers[i])'
                 /\ owner'[workers'[i]] = i
                 /\ \A g \in Generation : Born(g)' /\ owner'[g] = i => g <= workers'[i]
      <4>1. CASE i = event.id
        <5>1. workers'[i] = nextGeneration /\ owner'[nextGeneration] = i
          BY <1>a, <3>1, <4>1 DEF MapTypes
        <5>2. nextGeneration \in Nat /\ nextGeneration' = nextGeneration + 1
          BY <1>a, <2>2, Generations DEF MapTypes
        <5>3. \A g \in Generation : g \in Nat
          BY Generations
        <5>4. \A g \in Generation : Born(g)' => g <= nextGeneration
          BY <5>2, <5>3 DEF Born
        <5>5. Born(workers[i])'
          BY <5>1, <5>2 DEF Born
        <5> QED BY <5>1, <5>4, <5>5
      <4>2. CASE i # event.id
        <5>1. workers'[i] = workers[i] /\ workers[i] \in Generation
          BY <1>a, <3>1, <3>4, <4>2, Generations DEF MapTypes
        <5>2. owner'[nextGeneration] # i
          BY <1>a, <3>1, <4>2 DEF MapTypes
        <5> QED
          BY <1>b, <3>1, <3>2, <3>4, <5>1, <5>2 DEF Map, Born
      <4> QED BY <4>1, <4>2
    <3>5. ASSUME NEW i \in Id, workers'[i] = NoWorker,
                 NEW g \in Generation, Born(g)', owner'[g] = i
          PROVE  Inert(g)'
      <4>1. i # event.id /\ workers[i] = NoWorker
        BY <1>a, <3>1, <3>5, Generations DEF MapTypes
      <4>2. Born(g) /\ owner[g] = i
        BY <1>a, <3>1, <3>2, <3>5, <4>1 DEF MapTypes
      <4> QED BY <1>b, <3>3, <4>1, <4>2 DEF Map
    <3>6. ASSUME NEW g \in Generation, Born(g)', ~closed'[g]
          PROVE  workers'[owner'[g]] = g
      <4>1. CASE g = nextGeneration
        BY <1>a, <3>1, <4>1 DEF MapTypes
      <4>2. CASE g # nextGeneration
        <5>1. Born(g) /\ owner'[g] = owner[g] /\ owner[g] \in Id
          BY <1>a, <3>1, <3>2, <3>6, <4>2 DEF MapTypes
        <5>2. workers[owner[g]] = g
          BY <1>b, <3>6, <5>1 DEF Map
        <5>3. owner[g] # event.id
          BY <2>2, <5>2, Generations
        <5> QED BY <1>a, <3>1, <5>1, <5>2, <5>3 DEF MapTypes
      <4> QED BY <4>1, <4>2
    <3> QED BY <3>4, <3>5, <3>6 DEF Map, Born, Inert
  <2> QED BY <2>1, <2>2
<1>10. Order'
    BY Generations, <1>a, <1>b DEF Order, Born, Inert, MapTypes, TaskTypes,
     ChannelTypes, Unborn, Target, Fresh, Map, DispatcherTypes
<1>11. Target'
    BY Generations, <1>a, <1>b DEF Target, Born, Fresh, MapTypes, TaskTypes,
     ChannelTypes, Message, Kind, DispatcherTypes, Unborn, Map, Inert
<1>12. Count'
    BY Generations, <1>a, <1>b DEF Count, One, TaskTypes, ChannelTypes,
     Message, Kind, DispatcherTypes, Unborn, Born, Target, Fresh, MapTypes
<1>13. ReleaseFlagTracksRelease'
  <2> SUFFICES ASSUME NEW h \in Generation, Live(h)'
               PROVE  ReleaseTracked(h)'
    BY DEF ReleaseFlagTracksRelease
  <2>1. queue' = queue /\ current' = current /\ releasePending' = releasePending
    OBVIOUS
  <2>2. ~Sending(h, "forced") /\ ~Sending(h, "forced")'
    BY DEF Sending
  <2>3. CASE Live(h)
    <3>1. ReleaseTracked(h)
      BY <1>b, <2>3 DEF ReleaseFlagTracksRelease
    <3> QED BY <2>1, <2>2, <3>1 DEF ReleaseTracked, ForcedIn, Sending
  <2>4. CASE ~Live(h)
    <3>1. pc[h] = "unborn"
      BY <1>a, <1>b, <2>4, Generations DEF Live, Unborn, Born, TaskTypes, MapTypes
    <3>2. queue[h] = <<>> /\ ~releasePending[h] /\ current[h] # "forced"
      BY <1>b, <3>1 DEF Unborn, NoMessage
    <3>3. releasePending[h] \in BOOLEAN
      BY <1>a DEF ChannelTypes
    <3> QED BY <2>1, <2>2, <3>2, <3>3 DEF ReleaseTracked, ForcedIn
  <2> QED BY <2>3, <2>4
<1> QED
  BY <1>1, <1>2, <1>3, <1>4, <1>5, <1>6, <1>7, <1>8, <1>9, <1>10, <1>11,
     <1>12, <1>13 DEF PoolIInv, TypeOK

\* The check that the channel is open, and giving up on it, keeps the invariant.
LEMMA CheckClosedPreserves ==
  ASSUME PoolIInv, CheckClosed
  PROVE  PoolIInv'
<1> USE DEF CheckClosed, Rejected, RemoveGeneration, At
<1>a. MapTypes /\ TaskTypes /\ ChannelTypes /\ DispatcherTypes /\ OutsideTypes
  BY DEF PoolIInv, TypeOK
<1>b. /\ Unborn /\ Gates /\ Channels /\ Map /\ Order /\ Target
      /\ Count /\ ReleaseFlagTracksRelease
  BY DEF PoolIInv
<1>1. MapTypes'
    BY Generations, <1>a DEF MapTypes, DispatcherTypes, DispatcherPc, Message,
     Kind
<1>2. TaskTypes'
    BY Generations, <1>a DEF TaskTypes, WorkerPc
<1>3. ChannelTypes'
    BY Generations, <1>a, <1>b DEF ChannelTypes, Message, Kind,
     DispatcherTypes, DispatcherPc, Target, Born, Fresh
<1>4. DispatcherTypes'
    BY Generations, <1>a DEF DispatcherTypes, DispatcherPc, Message, Kind
<1>5. OutsideTypes'
    BY Generations, <1>a DEF OutsideTypes
<1>6. Unborn'
    BY Generations, <1>a, <1>b DEF Unborn, Born, MapTypes, TaskTypes,
     ChannelTypes, DispatcherTypes, Target, Fresh
<1>7. Gates'
    BY Generations, <1>a, <1>b DEF Gates, Holds, MapTypes, TaskTypes
<1>8. Channels'
    BY Generations, <1>a, <1>b DEF Channels, TaskTypes, ChannelTypes,
     DispatcherTypes, Target, Born, Fresh
<1>9. Map'
    BY Generations, <1>a, <1>b DEF Map, Born, Inert, MapTypes, TaskTypes,
     ChannelTypes, Target, Fresh, Order, Channels, Unborn, DispatcherTypes
<1>10. Order'
    BY Generations, <1>a, <1>b DEF Order, Born, Inert, MapTypes, TaskTypes,
     ChannelTypes, Target, Fresh, DispatcherTypes
<1>11. Target'
    BY Generations, <1>a, <1>b DEF Target, Born, Fresh, MapTypes, TaskTypes,
     ChannelTypes, Message, Kind, DispatcherTypes, Map, Inert
<1>12. Count'
    BY Generations, <1>a, <1>b DEF Count, One, TaskTypes, ChannelTypes,
     Message, Kind, DispatcherTypes, Target, Born, Fresh, MapTypes
<1>13. ReleaseFlagTracksRelease'
    BY Generations, <1>a, <1>b DEF ReleaseFlagTracksRelease, ReleaseTracked,
     Live, Sending, ForcedIn, TaskTypes, ChannelTypes, DispatcherTypes
<1> QED
  BY <1>1, <1>2, <1>3, <1>4, <1>5, <1>6, <1>7, <1>8, <1>9, <1>10, <1>11,
     <1>12, <1>13 DEF PoolIInv, TypeOK

\* Choosing between the event, a forced release and a refusal keeps the invariant.
LEMMA ChoosePreserves ==
  ASSUME PoolIInv, Choose
  PROVE  PoolIInv'
<1> USE DEF Choose, Full, At
<1>a. MapTypes /\ TaskTypes /\ ChannelTypes /\ DispatcherTypes /\ OutsideTypes
  BY DEF PoolIInv, TypeOK
<1>b. /\ Unborn /\ Gates /\ Channels /\ Map /\ Order /\ Target
      /\ Count /\ ReleaseFlagTracksRelease
  BY DEF PoolIInv
<1>1. MapTypes'
    BY Generations, <1>a DEF MapTypes, DispatcherTypes, DispatcherPc, Message,
     Kind
<1>2. TaskTypes'
    BY Generations, <1>a DEF TaskTypes, WorkerPc
<1>3. ChannelTypes'
    BY Generations, <1>a, <1>b DEF ChannelTypes, Message, Kind,
     DispatcherTypes, DispatcherPc, Target, Born, Fresh
<1>4. DispatcherTypes'
    BY Generations, <1>a DEF DispatcherTypes, DispatcherPc, Message, Kind
<1>5. OutsideTypes'
    BY Generations, <1>a DEF OutsideTypes
<1>6. Unborn'
    BY Generations, <1>a, <1>b DEF Unborn, Born, MapTypes, TaskTypes,
     ChannelTypes, DispatcherTypes, Target, Fresh
<1>7. Gates'
    BY Generations, <1>a, <1>b DEF Gates, Holds, MapTypes, TaskTypes
<1>8. Channels'
    BY Generations, <1>a, <1>b DEF Channels, TaskTypes, ChannelTypes,
     DispatcherTypes, Target, Born, Fresh
<1>9. Map'
    BY Generations, <1>a, <1>b DEF Map, Born, Inert, MapTypes, TaskTypes,
     ChannelTypes, Target, Fresh, Order, Channels, Unborn, DispatcherTypes
<1>10. Order'
    BY Generations, <1>a, <1>b DEF Order, Born, Inert, MapTypes, TaskTypes,
     ChannelTypes, Target, Fresh, DispatcherTypes
<1>11. Target'
    BY Generations, <1>a, <1>b DEF Target, Born, Fresh, MapTypes, TaskTypes,
     ChannelTypes, Message, Kind, DispatcherTypes, Map, Inert
<1>12. Count'
  BY PoolAssumption, Generations, <1>a, <1>b
  DEF Count, One, TaskTypes, ChannelTypes, Message, Kind, DispatcherTypes,
      Target
<1>13. ReleaseFlagTracksRelease'
  <2> SUFFICES ASSUME NEW h \in Generation, Live(h)'
               PROVE  ReleaseTracked(h)'
    BY DEF ReleaseFlagTracksRelease
  <2>1. ReleaseTracked(h) /\ ~Sending(h, "forced")
    BY <1>b DEF ReleaseFlagTracksRelease, Live, Sending
  <2>2. CASE h = target /\ dpc' = "send" /\ message' = "forced"
    <3>1. /\ releasePending' = [releasePending EXCEPT ![target] = TRUE]
          /\ ~releasePending[target]
      BY <1>a, <2>2 DEF DispatcherTypes, Kind
    <3>2. releasePending'[h] /\ Sending(h, "forced")'
      BY <1>a, <2>2, <3>1 DEF ChannelTypes, Sending
    <3>3. queue'[h] = queue[h] /\ current'[h] = current[h]
      OBVIOUS
    <3> HIDE DEF Choose
    <3> QED
      BY <2>1, <2>2, <3>1, <3>2, <3>3 DEF ReleaseTracked, ForcedIn, ReleaseFlagTracksRelease
  <2>3. CASE ~(h = target /\ dpc' = "send" /\ message' = "forced")
    <3>1. ~Sending(h, "forced")'
      BY <2>3 DEF Sending
    <3>2. releasePending'[h] = releasePending[h]
      BY <1>a, <2>3 DEF ChannelTypes, DispatcherTypes, Kind
    <3>3. queue'[h] = queue[h] /\ current'[h] = current[h]
      OBVIOUS
    <3> HIDE DEF Choose
    <3> QED
      BY <2>1, <3>1, <3>2, <3>3 DEF ReleaseTracked, ForcedIn
  <2> QED BY <2>2, <2>3
<1> QED
  BY <1>1, <1>2, <1>3, <1>4, <1>5, <1>6, <1>7, <1>8, <1>9, <1>10, <1>11,
     <1>12, <1>13 DEF PoolIInv, TypeOK

\* Sending to an open or a closed channel keeps the invariant.
LEMMA SendPreserves ==
  ASSUME PoolIInv, Send
  PROVE  PoolIInv'
<1> USE DEF Send, Rejected, RemoveGeneration, At
<1>a. MapTypes /\ TaskTypes /\ ChannelTypes /\ DispatcherTypes /\ OutsideTypes
  BY DEF PoolIInv, TypeOK
<1>b. /\ Unborn /\ Gates /\ Channels /\ Map /\ Order /\ Target
      /\ Count /\ ReleaseFlagTracksRelease
  BY DEF PoolIInv
<1>1. MapTypes'
    BY Generations, <1>a DEF MapTypes, DispatcherTypes, DispatcherPc, Message,
     Kind
<1>2. TaskTypes'
    BY Generations, <1>a DEF TaskTypes, WorkerPc
<1>3. ChannelTypes'
  <2>1. target \in Generation /\ message \in Message
    BY <1>b DEF Target
  <2>2. CASE closed[target]
    BY <1>a, <2>1, <2>2 DEF ChannelTypes
  <2>3. CASE ~closed[target]
    <3>1. /\ queue' = [queue EXCEPT ![target] = Append(@, message)]
          /\ pending' = [pending EXCEPT ![target] = @ + 1]
          /\ current' = current /\ releasePending' = releasePending
      BY <2>3
    <3>2. Append(queue[target], message) \in Seq(Message)
      BY <1>a, <2>1 DEF ChannelTypes
    <3>3. queue' \in [Generation -> Seq(Message)]
      BY <1>a, <2>1, <3>1, <3>2 DEF ChannelTypes
    <3>4. pending' \in [Generation -> Nat]
      BY <1>a, <2>1, <3>1 DEF ChannelTypes
    <3> QED BY <1>a, <3>1, <3>3, <3>4 DEF ChannelTypes
  <2> QED BY <2>2, <2>3
<1>4. DispatcherTypes'
    BY Generations, <1>a DEF DispatcherTypes, DispatcherPc, Message, Kind
<1>5. OutsideTypes'
    BY Generations, <1>a DEF OutsideTypes
<1>6. Unborn'
    BY Generations, <1>a, <1>b DEF Unborn, Born, MapTypes, TaskTypes,
     ChannelTypes, DispatcherTypes, Target, Fresh
<1>7. Gates'
    BY Generations, <1>a, <1>b DEF Gates, Holds, MapTypes, TaskTypes
<1>8. Channels'
    BY Generations, <1>a, <1>b DEF Channels, TaskTypes, ChannelTypes,
     DispatcherTypes, Target, Born, Fresh
<1>9. Map'
    BY Generations, <1>a, <1>b DEF Map, Born, Inert, MapTypes, TaskTypes,
     ChannelTypes, Target, Fresh, Order, Channels, Unborn, DispatcherTypes
<1>10. Order'
    BY Generations, <1>a, <1>b DEF Order, Born, Inert, MapTypes, TaskTypes,
     ChannelTypes, Target, Fresh, DispatcherTypes
<1>11. Target'
    BY Generations, <1>a, <1>b DEF Target, Born, Fresh, MapTypes, TaskTypes,
     ChannelTypes, Message, Kind, DispatcherTypes, Map, Inert
<1>12. Count'
  <2>1. target \in Generation /\ message \in Message /\ dpc' # "send"
    BY <1>b DEF Target
  <2>2. CASE closed[target]
    <3>1. pending' = pending /\ queue' = queue /\ pc' = pc
      BY <2>2
    <3>2. pc[target] # "done" /\ message = "forced" => pending[target] <= Capacity
      BY <1>b, <2>1 DEF Count
    <3>3. \A h \in Generation :
            releasePending'[h] = releasePending[h] \/ (h = target /\ message = "forced")
      <4> TAKE h \in Generation
      <4>1. /\ releasePending \in [Generation -> BOOLEAN]
            /\ releasePending' = [releasePending EXCEPT ![target] = @ /\ message # "forced"]
        BY <1>a, <2>2 DEF ChannelTypes
      <4>2. CASE h # target
        BY <2>1, <4>1, <4>2
      <4>3. CASE h = target
        BY <2>1, <4>1, <4>3
      <4> QED BY <4>2, <4>3
    <3>4. ASSUME NEW h \in Generation, pc[h] # "done"
          PROVE  /\ pending[h] = Len(queue[h]) + One(pc[h] = "dispatch")
                 /\ pending[h] <= Capacity + One(releasePending'[h])
      <4>1. pending[h] \in Nat /\ Capacity \in Nat
        BY <1>a, PoolAssumption DEF ChannelTypes
      <4>2. /\ pending[h] = Len(queue[h]) + One(pc[h] = "dispatch")
            /\ pending[h] <= Capacity + One(releasePending[h])
        BY <1>b, <3>4 DEF Count
      <4>3. CASE releasePending'[h] = releasePending[h]
        BY <4>2, <4>3
      <4>4. CASE h = target /\ message = "forced"
        <5>1. pending[h] <= Capacity
          BY <3>2, <3>4, <4>4
        <5>2. One(releasePending'[h]) \in {0, 1}
          BY DEF One
        <5> QED BY <4>1, <4>2, <5>1, <5>2
      <4> QED BY <3>3, <4>3, <4>4
    <3> QED BY <2>1, <3>1, <3>4 DEF Count
  <2>3. CASE ~closed[target]
    <3>1. /\ queue' = [queue EXCEPT ![target] = Append(@, message)]
          /\ pending' = [pending EXCEPT ![target] = @ + 1]
          /\ pc' = pc /\ releasePending' = releasePending
      BY <2>3
    <3>2. ASSUME NEW h \in Generation, h # target
          PROVE  pending'[h] = pending[h] /\ queue'[h] = queue[h]
      BY <1>a, <3>1, <3>2 DEF ChannelTypes
    <3>3. /\ pending'[target] = pending[target] + 1
          /\ Len(queue'[target]) = Len(queue[target]) + 1
          /\ Len(queue[target]) \in Nat
          /\ pending[target] \in Nat
      BY <1>a, <2>1, <3>1 DEF ChannelTypes
    <3>4. ASSUME pc[target] # "done"
          PROVE  pending'[target] <= Capacity + One(releasePending[target])
      <4>1. CASE message # "forced"
        <5>1. pending[target] < Capacity
          BY <1>b, <2>1, <3>4, <4>1 DEF Count
        <5> QED BY <3>3, <5>1, PoolAssumption DEF One
      <4>2. CASE message = "forced"
        <5>1. pending[target] <= Capacity
          BY <1>b, <2>1, <3>4, <4>2 DEF Count
        <5>2. releasePending[target]
          BY <1>a, <1>b, <2>1, <3>4, <4>2
          DEF ReleaseFlagTracksRelease, ReleaseTracked, Live, Sending, Unborn,
              Target
        <5> QED BY <3>3, <5>1, <5>2, PoolAssumption DEF One
      <4> QED BY <4>1, <4>2
    <3>5. ASSUME NEW h \in Generation, pc[h] # "done"
          PROVE  /\ pending'[h] = Len(queue'[h]) + One(pc[h] = "dispatch")
                 /\ pending'[h] <= Capacity + One(releasePending[h])
      <4>1. CASE h = target
        <5>1. /\ pending[target] = Len(queue[target]) + One(pc[target] = "dispatch")
              /\ One(pc[target] = "dispatch") \in Nat
          BY <1>b, <2>1, <3>5, <4>1 DEF Count, One
        <5> QED BY <3>3, <3>4, <3>5, <4>1, <5>1
      <4>2. CASE h # target
        BY <1>b, <3>2, <3>5, <4>2 DEF Count
      <4> QED BY <4>1, <4>2
    <3> QED BY <2>1, <3>1, <3>5 DEF Count
  <2> QED BY <2>2, <2>3
<1>13. ReleaseFlagTracksRelease'
  <2> SUFFICES ASSUME NEW h \in Generation, Live(h)'
               PROVE  ReleaseTracked(h)'
    BY DEF ReleaseFlagTracksRelease
  <2>1. ReleaseTracked(h) /\ target \in Generation /\ message \in Message
    BY <1>b DEF ReleaseFlagTracksRelease, Live, Target
  <2>2. ~Sending(h, "forced")' /\ current' = current
    BY DEF Sending
  <2>3. CASE h # target
    <3>1. ~Sending(h, "forced")
      BY <2>3 DEF Sending
    <3>2. releasePending'[h] = releasePending[h] /\ queue'[h] = queue[h]
      BY <1>a, <2>3 DEF ChannelTypes
    <3> QED BY <2>1, <2>2, <3>1, <3>2 DEF ReleaseTracked, ForcedIn, Sending
  <2>4. CASE h = target /\ closed[target]
    <3>1. queue' = queue
      BY <2>4
    <3>2. releasePending'[h] = (releasePending[h] /\ message # "forced")
      BY <1>a, <2>1, <2>4 DEF ChannelTypes
    <3>3. Sending(h, "forced") <=> message = "forced"
      BY <2>4 DEF Sending
    <3> QED BY <2>1, <2>2, <3>1, <3>2, <3>3 DEF ReleaseTracked, ForcedIn
  <2>5. CASE h = target /\ ~closed[target]
    <3>1. releasePending' = releasePending
      BY <2>5
    <3>2. queue'[h] = Append(queue[h], message) /\ queue[h] \in Seq(Message)
      BY <1>a, <2>1, <2>5 DEF ChannelTypes
    <3>3. Sending(h, "forced") <=> message = "forced"
      BY <2>5 DEF Sending
    <3>4. ForcedIn(queue'[h]) =
            ForcedIn(queue[h]) \cup (IF message = "forced" THEN {Len(queue[h]) + 1} ELSE {})
      BY <2>1, <3>2, ForcedAppend
    <3>5. ForcedIn(queue[h])' = ForcedIn(queue'[h])
      BY DEF ForcedIn
    <3> QED BY <2>1, <2>2, <3>1, <3>3, <3>4, <3>5 DEF ReleaseTracked
  <2> QED BY <2>3, <2>4, <2>5
<1> QED
  BY <1>1, <1>2, <1>3, <1>4, <1>5, <1>6, <1>7, <1>8, <1>9, <1>10, <1>11,
     <1>12, <1>13 DEF PoolIInv, TypeOK

\* Replacing a closed generation keeps the invariant.
LEMMA ReplacePreserves ==
  ASSUME PoolIInv, Replace
  PROVE  PoolIInv'
<1> USE DEF Replace, SpawnWorker, At
<1>a. MapTypes /\ TaskTypes /\ ChannelTypes /\ DispatcherTypes /\ OutsideTypes
  BY DEF PoolIInv, TypeOK
<1>b. /\ Unborn /\ Gates /\ Channels /\ Map /\ Order /\ Target
      /\ Count /\ ReleaseFlagTracksRelease
  BY DEF PoolIInv
<1>1. MapTypes'
  <2>1. CASE UNCHANGED workerVars
    BY <1>a, <2>1 DEF MapTypes
  <2>2. CASE nextGeneration \in Generation /\ nextGeneration' = nextGeneration + 1
    <3>1. nextGeneration' \in 1..(MaxGeneration + 1)
      BY <2>2, PoolAssumption DEF Generation
    <3>2. event.id \in Id /\ nextGeneration \in Holder
      BY <1>a, <2>2, Generations DEF DispatcherTypes
    <3> QED
      BY <1>a, <1>b, <2>2, <3>1, <3>2 DEF MapTypes, Target
  <2> QED BY <2>1, <2>2
<1>2. TaskTypes'
    BY Generations, <1>a DEF TaskTypes, WorkerPc, MapTypes
<1>3. ChannelTypes'
    BY Generations, <1>a DEF ChannelTypes, Message, Kind
<1>4. DispatcherTypes'
    BY Generations, <1>a DEF DispatcherTypes, DispatcherPc, Message, Kind,
     MapTypes
<1>5. OutsideTypes'
    BY Generations, <1>a DEF OutsideTypes
<1>6. Unborn'
    BY Generations, <1>a, <1>b DEF Unborn, Born, MapTypes, TaskTypes,
     ChannelTypes, DispatcherTypes
<1>7. Gates'
    BY Generations, <1>a, <1>b DEF Gates, Holds, MapTypes, TaskTypes, Unborn,
     Born, DispatcherTypes, Target, Fresh
<1>8. Channels'
    BY Generations, <1>a, <1>b DEF Channels, TaskTypes, ChannelTypes, Unborn,
     Born, MapTypes
<1>9. Map'
  <2>1. CASE UNCHANGED <<workerVars, pc>>
    <3>1. queue' = queue /\ closed' = closed
      OBVIOUS
    <3>2. \A g \in Generation : pc'[g] = pc[g]
      BY <2>1
    <3> QED BY <1>b, <2>1, <3>1, <3>2 DEF Map, Born, Inert
  <2>2. CASE /\ SpawnWorker(handoff[target])
            /\ workers[event.id] \in {NoWorker, target}
    <3>1. /\ nextGeneration \in Generation /\ event.id \in Id
          /\ workers' = [workers EXCEPT ![event.id] = nextGeneration]
          /\ owner' = [owner EXCEPT ![nextGeneration] = event.id]
          /\ pc' = [pc EXCEPT ![nextGeneration] = "gate"]
          /\ \A g \in Generation : Born(g)' <=> Born(g) \/ g = nextGeneration
      BY <1>a, <2>2, Generations DEF Born, DispatcherTypes
    <3>2. \A g \in Generation : Born(g) => g # nextGeneration /\ owner'[g] = owner[g]
      BY <1>a, <3>1, Generations DEF Born, MapTypes
    <3>3. \A g \in Generation : Born(g) => Inert(g)' = Inert(g)
      BY <1>a, <3>1, <3>2 DEF Inert, TaskTypes
    <3>4. ASSUME NEW i \in Id, workers'[i] # NoWorker
          PROVE  /\ Born(workers[i])'
                 /\ owner'[workers'[i]] = i
                 /\ \A g \in Generation : Born(g)' /\ owner'[g] = i => g <= workers'[i]
      <4>1. CASE i = event.id
        <5>1. workers'[i] = nextGeneration /\ owner'[nextGeneration] = i
          BY <1>a, <3>1, <4>1 DEF MapTypes
        <5>2. nextGeneration \in Nat /\ nextGeneration' = nextGeneration + 1
          BY <1>a, <2>2, Generations DEF MapTypes
        <5>3. \A g \in Generation : g \in Nat
          BY Generations
        <5>4. \A g \in Generation : Born(g)' => g <= nextGeneration
          BY <5>2, <5>3 DEF Born
        <5>5. Born(workers[i])'
          BY <5>1, <5>2 DEF Born
        <5> QED BY <5>1, <5>4, <5>5
      <4>2. CASE i # event.id
        <5>1. workers'[i] = workers[i] /\ workers[i] \in Generation
          BY <1>a, <3>1, <3>4, <4>2, Generations DEF MapTypes
        <5>2. owner'[nextGeneration] # i
          BY <1>a, <3>1, <4>2 DEF MapTypes
        <5> QED
          BY <1>b, <3>1, <3>2, <3>4, <5>1, <5>2 DEF Map, Born
      <4> QED BY <4>1, <4>2
    <3>5. ASSUME NEW i \in Id, workers'[i] = NoWorker,
                 NEW g \in Generation, Born(g)', owner'[g] = i
          PROVE  Inert(g)'
      <4>1. i # event.id /\ workers[i] = NoWorker
        BY <1>a, <3>1, <3>5, Generations DEF MapTypes
      <4>2. Born(g) /\ owner[g] = i
        BY <1>a, <3>1, <3>2, <3>5, <4>1 DEF MapTypes
      <4> QED BY <1>b, <3>3, <4>1, <4>2 DEF Map
    <3>6. ASSUME NEW g \in Generation, Born(g)', ~closed'[g]
          PROVE  workers'[owner'[g]] = g
      <4>1. CASE g = nextGeneration
        BY <1>a, <3>1, <4>1 DEF MapTypes
      <4>2. CASE g # nextGeneration
        <5>1. Born(g) /\ owner'[g] = owner[g] /\ owner[g] \in Id
          BY <1>a, <3>1, <3>2, <3>6, <4>2 DEF MapTypes
        <5>2. workers[owner[g]] = g
          BY <1>b, <3>6, <5>1 DEF Map
        <5>3. owner[g] # event.id
          BY <1>b, <2>2, <3>6, <5>2, Generations DEF Target
        <5> QED BY <1>a, <3>1, <5>1, <5>2, <5>3 DEF MapTypes
      <4> QED BY <4>1, <4>2
    <3> QED BY <3>4, <3>5, <3>6 DEF Map, Born, Inert
  <2> QED BY <2>1, <2>2
<1>10. Order'
    BY Generations, <1>a, <1>b DEF Order, Born, Inert, MapTypes, TaskTypes,
     ChannelTypes, Unborn, Target, Fresh, Map, DispatcherTypes
<1>11. Target'
  <2>1. CASE workers[event.id] \in {NoWorker, target}
    BY Generations, <2>1, <1>a, <1>b
    DEF Target, Born, Fresh, MapTypes, TaskTypes, ChannelTypes,
        DispatcherTypes, Unborn, Map, Inert
  <2>2. CASE workers[event.id] \notin {NoWorker, target}
    <3>1. /\ target \in Generation /\ Born(target) /\ owner[target] = event.id
          /\ \A g \in Generation :
               Born(g) /\ owner[g] = event.id => g <= target
      BY <1>b DEF Target
    <3>2. event.id \in Id /\ workers[event.id] \in Generation
      BY <1>a, <2>2, Generations DEF MapTypes, DispatcherTypes
    <3>3. /\ Born(workers[event.id]) /\ owner[workers[event.id]] = event.id
          /\ target <= workers[event.id]
      BY <1>b, <2>2, <3>1, <3>2 DEF Map
    <3>4. workers[event.id] = target
      BY <3>1, <3>2, <3>3, Generations
    <3> QED BY <2>2, <3>4
  <2> QED BY <2>1, <2>2
<1>12. Count'
    BY Generations, <1>a, <1>b DEF Count, One, TaskTypes, ChannelTypes,
     Message, Kind, DispatcherTypes, Unborn, Born, Target, Fresh, MapTypes
<1>13. ReleaseFlagTracksRelease'
  <2> SUFFICES ASSUME NEW h \in Generation, Live(h)'
               PROVE  ReleaseTracked(h)'
    BY DEF ReleaseFlagTracksRelease
  <2>1. queue' = queue /\ current' = current /\ releasePending' = releasePending
    OBVIOUS
  <2>2. ~Sending(h, "forced") /\ ~Sending(h, "forced")'
    BY DEF Sending
  <2>3. CASE Live(h)
    <3>1. ReleaseTracked(h)
      BY <1>b, <2>3 DEF ReleaseFlagTracksRelease
    <3> QED BY <2>1, <2>2, <3>1 DEF ReleaseTracked, ForcedIn, Sending
  <2>4. CASE ~Live(h)
    <3>1. pc[h] = "unborn"
      BY <1>a, <1>b, <2>4, Generations DEF Live, Unborn, Born, TaskTypes, MapTypes
    <3>2. queue[h] = <<>> /\ ~releasePending[h] /\ current[h] # "forced"
      BY <1>b, <3>1 DEF Unborn, NoMessage
    <3>3. releasePending[h] \in BOOLEAN
      BY <1>a DEF ChannelTypes
    <3> QED BY <2>1, <2>2, <3>2, <3>3 DEF ReleaseTracked, ForcedIn
  <2> QED BY <2>3, <2>4
<1> QED
  BY <1>1, <1>2, <1>3, <1>4, <1>5, <1>6, <1>7, <1>8, <1>9, <1>10, <1>11,
     <1>12, <1>13 DEF PoolIInv, TypeOK

\* Passing the handoff mutex keeps the invariant.
LEMMA AcquireGatePreserves ==
  ASSUME PoolIInv, NEW g \in Generation, AcquireGate(g)
  PROVE  PoolIInv'
<1> USE DEF AcquireGate, Goto
<1>a. MapTypes /\ TaskTypes /\ ChannelTypes /\ DispatcherTypes /\ OutsideTypes
  BY DEF PoolIInv, TypeOK
<1>b. /\ Unborn /\ Gates /\ Channels /\ Map /\ Order /\ Target
      /\ Count /\ ReleaseFlagTracksRelease
  BY DEF PoolIInv
<1>1. MapTypes'
    BY Generations, <1>a DEF MapTypes
<1>2. TaskTypes'
    BY Generations, <1>a DEF TaskTypes, WorkerPc, MapTypes
<1>3. ChannelTypes'
    BY Generations, <1>a DEF ChannelTypes, Message, Kind
<1>4. DispatcherTypes'
    BY Generations, <1>a DEF DispatcherTypes, DispatcherPc, Message, Kind
<1>5. OutsideTypes'
    BY Generations, <1>a DEF OutsideTypes
<1>6. Unborn'
    BY Generations, <1>a, <1>b DEF Unborn, Born, MapTypes, TaskTypes,
     ChannelTypes
<1>7. Gates'
    BY Generations, <1>a, <1>b DEF Gates, Holds, MapTypes, TaskTypes
<1>8. Channels'
    BY Generations, <1>a, <1>b DEF Channels, TaskTypes, ChannelTypes
<1>9. Map'
    BY Generations, <1>a, <1>b DEF Map, Born, Inert, MapTypes, TaskTypes,
     ChannelTypes
<1>10. Order'
    BY Generations, <1>a, <1>b DEF Order, Born, Inert, MapTypes, TaskTypes,
     ChannelTypes, Gates, Holds, Channels, Map, Unborn
<1>11. Target'
    BY Generations, <1>a, <1>b DEF Target, Born, Fresh, MapTypes, TaskTypes,
     ChannelTypes, Message, Kind, DispatcherTypes
<1>12. Count'
    BY Generations, <1>a, <1>b DEF Count, One, TaskTypes, ChannelTypes,
     Message, Kind, DispatcherTypes
<1>13. ReleaseFlagTracksRelease'
    BY Generations, <1>a, <1>b DEF ReleaseFlagTracksRelease, ReleaseTracked,
     Live, Sending, ForcedIn, TaskTypes, ChannelTypes, DispatcherTypes
<1> QED
  BY <1>1, <1>2, <1>3, <1>4, <1>5, <1>6, <1>7, <1>8, <1>9, <1>10, <1>11,
     <1>12, <1>13 DEF PoolIInv, TypeOK

\* The head of the worker loop keeps the invariant.
LEMMA CheckShutdownPreserves ==
  ASSUME PoolIInv, NEW g \in Generation, CheckShutdown(g)
  PROVE  PoolIInv'
<1> USE DEF CheckShutdown, Goto
<1>a. MapTypes /\ TaskTypes /\ ChannelTypes /\ DispatcherTypes /\ OutsideTypes
  BY DEF PoolIInv, TypeOK
<1>b. /\ Unborn /\ Gates /\ Channels /\ Map /\ Order /\ Target
      /\ Count /\ ReleaseFlagTracksRelease
  BY DEF PoolIInv
<1>1. MapTypes'
    BY Generations, <1>a DEF MapTypes
<1>2. TaskTypes'
    BY Generations, <1>a DEF TaskTypes, WorkerPc
<1>3. ChannelTypes'
    BY Generations, <1>a DEF ChannelTypes, Message, Kind
<1>4. DispatcherTypes'
    BY Generations, <1>a DEF DispatcherTypes, DispatcherPc, Message, Kind
<1>5. OutsideTypes'
    BY Generations, <1>a DEF OutsideTypes
<1>6. Unborn'
    BY Generations, <1>a, <1>b DEF Unborn, Born, MapTypes, TaskTypes,
     ChannelTypes
<1>7. Gates'
    BY Generations, <1>a, <1>b DEF Gates, Holds, MapTypes, TaskTypes
<1>8. Channels'
    BY Generations, <1>a, <1>b DEF Channels, TaskTypes, ChannelTypes
<1>9. Map'
    BY Generations, <1>a, <1>b DEF Map, Born, Inert, MapTypes, TaskTypes,
     ChannelTypes
<1>10. Order'
    BY Generations, <1>a, <1>b DEF Order, Born, Inert, MapTypes, TaskTypes,
     ChannelTypes
<1>11. Target'
    BY Generations, <1>a, <1>b DEF Target, Born, Fresh, MapTypes, TaskTypes,
     ChannelTypes, Message, Kind, DispatcherTypes
<1>12. Count'
    BY Generations, <1>a, <1>b DEF Count, One, TaskTypes, ChannelTypes,
     Message, Kind, DispatcherTypes
<1>13. ReleaseFlagTracksRelease'
    BY Generations, <1>a, <1>b DEF ReleaseFlagTracksRelease, ReleaseTracked,
     Live, Sending, ForcedIn, TaskTypes, ChannelTypes, DispatcherTypes
<1> QED
  BY <1>1, <1>2, <1>3, <1>4, <1>5, <1>6, <1>7, <1>8, <1>9, <1>10, <1>11,
     <1>12, <1>13 DEF PoolIInv, TypeOK

\* Receiving a message keeps the invariant.
LEMMA ReceivePreserves ==
  ASSUME PoolIInv, NEW g \in Generation, NEW from \in {"recv", "drain"}, Receive(g, from)
  PROVE  PoolIInv'
<1> USE DEF Receive, Goto
<1>a. MapTypes /\ TaskTypes /\ ChannelTypes /\ DispatcherTypes /\ OutsideTypes
  BY DEF PoolIInv, TypeOK
<1>b. /\ Unborn /\ Gates /\ Channels /\ Map /\ Order /\ Target
      /\ Count /\ ReleaseFlagTracksRelease
  BY DEF PoolIInv
<1>1. MapTypes'
    BY Generations, <1>a DEF MapTypes
<1>2. TaskTypes'
    BY Generations, <1>a DEF TaskTypes, WorkerPc
<1>3. ChannelTypes'
    BY Generations, <1>a DEF ChannelTypes, Message, Kind
<1>4. DispatcherTypes'
    BY Generations, <1>a DEF DispatcherTypes, DispatcherPc, Message, Kind
<1>5. OutsideTypes'
    BY Generations, <1>a DEF OutsideTypes
<1>6. Unborn'
    BY Generations, <1>a, <1>b DEF Unborn, Born, MapTypes, TaskTypes,
     ChannelTypes
<1>7. Gates'
    BY Generations, <1>a, <1>b DEF Gates, Holds, MapTypes, TaskTypes
<1>8. Channels'
    BY Generations, <1>a, <1>b DEF Channels, TaskTypes, ChannelTypes, Unborn,
     Born
<1>9. Map'
    BY Generations, <1>a, <1>b DEF Map, Born, Inert, MapTypes, TaskTypes,
     ChannelTypes, Unborn
<1>10. Order'
    BY Generations, <1>a, <1>b DEF Order, Born, Inert, MapTypes, TaskTypes,
     ChannelTypes, Unborn
<1>11. Target'
    BY Generations, <1>a, <1>b DEF Target, Born, Fresh, MapTypes, TaskTypes,
     ChannelTypes, Message, Kind, DispatcherTypes
<1>12. Count'
  <2> SUFFICES
        ASSUME NEW h \in Generation, pc'[h] # "done"
        PROVE  /\ pending'[h] = Len(queue'[h]) + One(pc'[h] = "dispatch")
               /\ pending'[h] <= Capacity + One(releasePending'[h])
               /\ dpc' = "send" /\ target' = h =>
                    IF message' = "forced" THEN pending'[h] <= Capacity
                                           ELSE pending'[h] < Capacity
    BY DEF Count
  <2>1. CASE h = g
    <3>1. queue[g] \in Seq(Message) /\ queue[g] # <<>>
      BY <1>a DEF ChannelTypes
    <3>2. Len(queue[g]) = Len(Tail(queue[g])) + 1 /\ Len(Tail(queue[g])) \in Nat
      BY <3>1
    <3> QED
      BY <2>1, <1>a, <1>b, <3>2 DEF Count, One, TaskTypes, ChannelTypes
  <2>2. CASE h # g
    BY <2>2, <1>a, <1>b DEF Count, TaskTypes, ChannelTypes
  <2> QED BY <2>1, <2>2
<1>13. ReleaseFlagTracksRelease'
  <2> SUFFICES ASSUME NEW h \in Generation, Live(h)'
               PROVE  ReleaseTracked(h)'
    BY DEF ReleaseFlagTracksRelease
  <2>1. ReleaseTracked(h)
    BY <1>a, <1>b DEF ReleaseFlagTracksRelease, Live, TaskTypes
  <2>2. releasePending' = releasePending /\ Sending(h, "forced")' = Sending(h, "forced")
    BY DEF Sending
  <2>3. CASE h # g
    <3>1. queue'[h] = queue[h] /\ current'[h] = current[h]
      BY <1>a, <2>3 DEF ChannelTypes
    <3> QED BY <2>1, <2>2, <3>1 DEF ReleaseTracked, ForcedIn, Sending
  <2>4. CASE h = g
    <3>1. /\ queue'[h] = Tail(queue[h]) /\ current'[h] = Head(queue[h])
          /\ queue[h] \in Seq(Message) /\ queue[h] # <<>>
      BY <1>a, <2>4 DEF ChannelTypes
    <3>2. current[h] # "forced"
      BY <1>b, <2>4 DEF Unborn, NoMessage
    <3>3. ForcedIn(queue[h])' = ForcedIn(Tail(queue[h]))
      BY <3>1 DEF ForcedIn
    <3>4. /\ Head(queue[h]) = "forced" <=> 1 \in ForcedIn(queue[h])
          /\ \A k \in ForcedIn(Tail(queue[h])) :
               k \in Nat \ {0} /\ k + 1 \in ForcedIn(queue[h])
          /\ \A k \in ForcedIn(queue[h]) :
               k = 1 \/ k - 1 \in ForcedIn(Tail(queue[h]))
      BY <3>1, ForcedTail
    <3>5. \A j, k \in ForcedIn(Tail(queue[h])) : j = k
      <4> TAKE j, k \in ForcedIn(Tail(queue[h]))
      <4>1. j + 1 = k + 1
        BY <2>1, <3>4 DEF ReleaseTracked
      <4> QED BY <3>4, <4>1
    <3>6. Head(queue[h]) = "forced" => ForcedIn(Tail(queue[h])) = {}
      <4> SUFFICES ASSUME Head(queue[h]) = "forced",
                          NEW k \in ForcedIn(Tail(queue[h]))
                   PROVE  FALSE
        OBVIOUS
      <4>1. k \in Nat \ {0} /\ 1 = k + 1
        BY <2>1, <3>4 DEF ReleaseTracked
      <4> QED BY <4>1
    <3>7. ForcedIn(queue[h]) # {} <=>
            Head(queue[h]) = "forced" \/ ForcedIn(Tail(queue[h])) # {}
      BY <3>4
    <3> QED BY <2>1, <2>2, <3>1, <3>2, <3>3, <3>5, <3>6, <3>7 DEF ReleaseTracked
  <2> QED BY <2>3, <2>4
<1> QED
  BY <1>1, <1>2, <1>3, <1>4, <1>5, <1>6, <1>7, <1>8, <1>9, <1>10, <1>11,
     <1>12, <1>13 DEF PoolIInv, TypeOK

\* An idle timeout keeps the invariant.
LEMMA IdleTimeoutPreserves ==
  ASSUME PoolIInv, NEW g \in Generation, IdleTimeout(g)
  PROVE  PoolIInv'
<1> USE DEF IdleTimeout, Goto
<1>a. MapTypes /\ TaskTypes /\ ChannelTypes /\ DispatcherTypes /\ OutsideTypes
  BY DEF PoolIInv, TypeOK
<1>b. /\ Unborn /\ Gates /\ Channels /\ Map /\ Order /\ Target
      /\ Count /\ ReleaseFlagTracksRelease
  BY DEF PoolIInv
<1>1. MapTypes'
    BY Generations, <1>a DEF MapTypes
<1>2. TaskTypes'
    BY Generations, <1>a DEF TaskTypes, WorkerPc
<1>3. ChannelTypes'
    BY Generations, <1>a DEF ChannelTypes, Message, Kind
<1>4. DispatcherTypes'
    BY Generations, <1>a DEF DispatcherTypes, DispatcherPc, Message, Kind
<1>5. OutsideTypes'
    BY Generations, <1>a DEF OutsideTypes
<1>6. Unborn'
    BY Generations, <1>a, <1>b DEF Unborn, Born, MapTypes, TaskTypes,
     ChannelTypes
<1>7. Gates'
    BY Generations, <1>a, <1>b DEF Gates, Holds, MapTypes, TaskTypes
<1>8. Channels'
    BY Generations, <1>a, <1>b DEF Channels, TaskTypes, ChannelTypes
<1>9. Map'
    BY Generations, <1>a, <1>b DEF Map, Born, Inert, MapTypes, TaskTypes,
     ChannelTypes
<1>10. Order'
    BY Generations, <1>a, <1>b DEF Order, Born, Inert, MapTypes, TaskTypes,
     ChannelTypes
<1>11. Target'
    BY Generations, <1>a, <1>b DEF Target, Born, Fresh, MapTypes, TaskTypes,
     ChannelTypes, Message, Kind, DispatcherTypes
<1>12. Count'
    BY Generations, <1>a, <1>b DEF Count, One, TaskTypes, ChannelTypes,
     Message, Kind, DispatcherTypes
<1>13. ReleaseFlagTracksRelease'
    BY Generations, <1>a, <1>b DEF ReleaseFlagTracksRelease, ReleaseTracked,
     Live, Sending, ForcedIn, TaskTypes, ChannelTypes, DispatcherTypes
<1> QED
  BY <1>1, <1>2, <1>3, <1>4, <1>5, <1>6, <1>7, <1>8, <1>9, <1>10, <1>11,
     <1>12, <1>13 DEF PoolIInv, TypeOK

\* The end of a dispatch keeps the invariant.
LEMMA FinishPreserves ==
  ASSUME PoolIInv, NEW g \in Generation, Finish(g)
  PROVE  PoolIInv'
<1> USE DEF Finish, Goto, Tracked
<1>a. MapTypes /\ TaskTypes /\ ChannelTypes /\ DispatcherTypes /\ OutsideTypes
  BY DEF PoolIInv, TypeOK
<1>b. /\ Unborn /\ Gates /\ Channels /\ Map /\ Order /\ Target
      /\ Count /\ ReleaseFlagTracksRelease
  BY DEF PoolIInv
<1>1. MapTypes'
    BY Generations, <1>a DEF MapTypes
<1>2. TaskTypes'
    BY Generations, <1>a DEF TaskTypes, WorkerPc
<1>3. ChannelTypes'
    BY Generations, <1>a, <1>b DEF ChannelTypes, Message, Kind, Count, One
<1>4. DispatcherTypes'
    BY Generations, <1>a DEF DispatcherTypes, DispatcherPc, Message, Kind
<1>5. OutsideTypes'
    BY Generations, <1>a DEF OutsideTypes, MapTypes
<1>6. Unborn'
    BY Generations, <1>a, <1>b DEF Unborn, Born, MapTypes, TaskTypes,
     ChannelTypes
<1>7. Gates'
    BY Generations, <1>a, <1>b DEF Gates, Holds, MapTypes, TaskTypes
<1>8. Channels'
    BY Generations, <1>a, <1>b DEF Channels, TaskTypes, ChannelTypes
<1>9. Map'
    BY Generations, <1>a, <1>b DEF Map, Born, Inert, MapTypes, TaskTypes,
     ChannelTypes
<1>10. Order'
    BY Generations, <1>a, <1>b DEF Order, Born, Inert, MapTypes, TaskTypes,
     ChannelTypes
<1>11. Target'
    BY Generations, <1>a, <1>b DEF Target, Born, Fresh, MapTypes, TaskTypes,
     ChannelTypes, Message, Kind, DispatcherTypes
<1>12. Count'
  <2> SUFFICES
        ASSUME NEW h \in Generation, pc'[h] # "done"
        PROVE  /\ pending'[h] = Len(queue'[h]) + One(pc'[h] = "dispatch")
               /\ pending'[h] <= Capacity + One(releasePending'[h])
               /\ dpc' = "send" /\ target' = h =>
                    IF message' = "forced" THEN pending'[h] <= Capacity
                                           ELSE pending'[h] < Capacity
    BY DEF Count
  <2>1. CASE h = g
    <3>1. Len(queue[g]) \in Nat
      BY <1>a DEF ChannelTypes
    <3>2. pending[g] = Len(queue[g]) + 1 /\ pending[g] <= Capacity + 1
      BY <1>a, <1>b, PoolAssumption DEF Count, One, ChannelTypes
    <3>3. /\ pending'[g] = Len(queue[g])
          /\ pc'[g] # "dispatch"
          /\ queue' = queue
      BY <3>1, <3>2, <1>a DEF TaskTypes, ChannelTypes
    <3>4. dpc = "send" /\ target = g => pending[g] <= Capacity
      BY <1>b, <3>1, <3>2, PoolAssumption DEF Count
    <3>5. dpc = "send" /\ target = g /\ message # "forced" =>
            pending[g] < Capacity
      BY <1>b DEF Count
    <3> QED
      BY PoolAssumption, <2>1, <3>1, <3>2, <3>3, <3>4, <3>5 DEF One
  <2>2. CASE h # g
    BY <2>2, <1>a, <1>b DEF Count, TaskTypes, ChannelTypes
  <2> QED BY <2>1, <2>2
<1>13. ReleaseFlagTracksRelease'
  <2> SUFFICES ASSUME NEW h \in Generation, Live(h)'
               PROVE  ReleaseTracked(h)'
    BY DEF ReleaseFlagTracksRelease
  <2>1. ReleaseTracked(h)
    BY <1>a, <1>b DEF ReleaseFlagTracksRelease, Live, TaskTypes
  <2>2. queue' = queue /\ Sending(h, "forced")' = Sending(h, "forced")
    BY DEF Sending
  <2>3. CASE h # g
    <3>1. releasePending'[h] = releasePending[h] /\ current'[h] = current[h]
      BY <1>a, <2>3 DEF ChannelTypes
    <3> QED BY <2>1, <2>2, <3>1 DEF ReleaseTracked, ForcedIn, Sending
  <2>4. CASE h = g
    <3>1. /\ releasePending'[h] = (releasePending[h] /\ current[h] # "forced")
          /\ current'[h] # "forced"
      BY <1>a, <2>4 DEF ChannelTypes, NoMessage
    <3>2. CASE current[h] = "forced"
      BY <2>1, <2>2, <3>1, <3>2 DEF ReleaseTracked, ForcedIn, Sending
    <3>3. CASE current[h] # "forced"
      BY <2>1, <2>2, <3>1, <3>3 DEF ReleaseTracked, ForcedIn, Sending
    <3> QED BY <3>2, <3>3
  <2> QED BY <2>3, <2>4
<1> QED
  BY <1>1, <1>2, <1>3, <1>4, <1>5, <1>6, <1>7, <1>8, <1>9, <1>10, <1>11,
     <1>12, <1>13 DEF PoolIInv, TypeOK

\* Closing the receiver keeps the invariant.
LEMMA ClosePreserves ==
  ASSUME PoolIInv, NEW g \in Generation, Close(g)
  PROVE  PoolIInv'
<1> USE DEF Close, Goto
<1>a. MapTypes /\ TaskTypes /\ ChannelTypes /\ DispatcherTypes /\ OutsideTypes
  BY DEF PoolIInv, TypeOK
<1>b. /\ Unborn /\ Gates /\ Channels /\ Map /\ Order /\ Target
      /\ Count /\ ReleaseFlagTracksRelease
  BY DEF PoolIInv
<1>1. MapTypes'
    BY Generations, <1>a DEF MapTypes
<1>2. TaskTypes'
    BY Generations, <1>a DEF TaskTypes, WorkerPc
<1>3. ChannelTypes'
    BY Generations, <1>a DEF ChannelTypes, Message, Kind
<1>4. DispatcherTypes'
    BY Generations, <1>a DEF DispatcherTypes, DispatcherPc, Message, Kind
<1>5. OutsideTypes'
    BY Generations, <1>a DEF OutsideTypes
<1>6. Unborn'
    BY Generations, <1>a, <1>b DEF Unborn, Born, MapTypes, TaskTypes,
     ChannelTypes
<1>7. Gates'
    BY Generations, <1>a, <1>b DEF Gates, Holds, MapTypes, TaskTypes
<1>8. Channels'
    BY Generations, <1>a, <1>b DEF Channels, TaskTypes, ChannelTypes
<1>9. Map'
    BY Generations, <1>a, <1>b DEF Map, Born, Inert, MapTypes, TaskTypes,
     ChannelTypes
<1>10. Order'
    BY Generations, <1>a, <1>b DEF Order, Born, Inert, MapTypes, TaskTypes,
     ChannelTypes
<1>11. Target'
    BY Generations, <1>a, <1>b DEF Target, Born, Fresh, MapTypes, TaskTypes,
     ChannelTypes, Message, Kind, DispatcherTypes
<1>12. Count'
    BY Generations, <1>a, <1>b DEF Count, One, TaskTypes, ChannelTypes,
     Message, Kind, DispatcherTypes
<1>13. ReleaseFlagTracksRelease'
    BY Generations, <1>a, <1>b DEF ReleaseFlagTracksRelease, ReleaseTracked,
     Live, Sending, ForcedIn, TaskTypes, ChannelTypes, DispatcherTypes
<1> QED
  BY <1>1, <1>2, <1>3, <1>4, <1>5, <1>6, <1>7, <1>8, <1>9, <1>10, <1>11,
     <1>12, <1>13 DEF PoolIInv, TypeOK

\* The end of the final drain keeps the invariant.
LEMMA DrainedPreserves ==
  ASSUME PoolIInv, NEW g \in Generation, Drained(g)
  PROVE  PoolIInv'
<1> USE DEF Drained, Goto
<1>a. MapTypes /\ TaskTypes /\ ChannelTypes /\ DispatcherTypes /\ OutsideTypes
  BY DEF PoolIInv, TypeOK
<1>b. /\ Unborn /\ Gates /\ Channels /\ Map /\ Order /\ Target
      /\ Count /\ ReleaseFlagTracksRelease
  BY DEF PoolIInv
<1>1. MapTypes'
    BY Generations, <1>a DEF MapTypes
<1>2. TaskTypes'
    BY Generations, <1>a DEF TaskTypes, WorkerPc
<1>3. ChannelTypes'
    BY Generations, <1>a DEF ChannelTypes, Message, Kind
<1>4. DispatcherTypes'
    BY Generations, <1>a DEF DispatcherTypes, DispatcherPc, Message, Kind
<1>5. OutsideTypes'
    BY Generations, <1>a DEF OutsideTypes
<1>6. Unborn'
    BY Generations, <1>a, <1>b DEF Unborn, Born, MapTypes, TaskTypes,
     ChannelTypes
<1>7. Gates'
    BY Generations, <1>a, <1>b DEF Gates, Holds, MapTypes, TaskTypes
<1>8. Channels'
    BY Generations, <1>a, <1>b DEF Channels, TaskTypes, ChannelTypes
<1>9. Map'
    BY Generations, <1>a, <1>b DEF Map, Born, Inert, MapTypes, TaskTypes,
     ChannelTypes
<1>10. Order'
    BY Generations, <1>a, <1>b DEF Order, Born, Inert, MapTypes, TaskTypes,
     ChannelTypes
<1>11. Target'
    BY Generations, <1>a, <1>b DEF Target, Born, Fresh, MapTypes, TaskTypes,
     ChannelTypes, Message, Kind, DispatcherTypes
<1>12. Count'
    BY Generations, <1>a, <1>b DEF Count, One, TaskTypes, ChannelTypes,
     Message, Kind, DispatcherTypes
<1>13. ReleaseFlagTracksRelease'
    BY Generations, <1>a, <1>b DEF ReleaseFlagTracksRelease, ReleaseTracked,
     Live, Sending, ForcedIn, TaskTypes, ChannelTypes, DispatcherTypes
<1> QED
  BY <1>1, <1>2, <1>3, <1>4, <1>5, <1>6, <1>7, <1>8, <1>9, <1>10, <1>11,
     <1>12, <1>13 DEF PoolIInv, TypeOK

\* Leaving the map and opening the gate keeps the invariant.
LEMMA RetirePreserves ==
  ASSUME PoolIInv, NEW g \in Generation, Retire(g)
  PROVE  PoolIInv'
<1> USE DEF Retire, RemoveGeneration, Goto
<1>a. MapTypes /\ TaskTypes /\ ChannelTypes /\ DispatcherTypes /\ OutsideTypes
  BY DEF PoolIInv, TypeOK
<1>b. /\ Unborn /\ Gates /\ Channels /\ Map /\ Order /\ Target
      /\ Count /\ ReleaseFlagTracksRelease
  BY DEF PoolIInv
<1>1. MapTypes'
    BY Generations, <1>a DEF MapTypes
<1>2. TaskTypes'
    BY Generations, <1>a DEF TaskTypes, WorkerPc
<1>3. ChannelTypes'
    BY Generations, <1>a DEF ChannelTypes, Message, Kind
<1>4. DispatcherTypes'
    BY Generations, <1>a DEF DispatcherTypes, DispatcherPc, Message, Kind
<1>5. OutsideTypes'
    BY Generations, <1>a DEF OutsideTypes
<1>6. Unborn'
    BY Generations, <1>a, <1>b DEF Unborn, Born, MapTypes, TaskTypes,
     ChannelTypes
<1>7. Gates'
    BY Generations, <1>a, <1>b DEF Gates, Holds, MapTypes, TaskTypes
<1>8. Channels'
    BY Generations, <1>a, <1>b DEF Channels, TaskTypes, ChannelTypes
<1>9. Map'
    BY Generations, <1>a, <1>b DEF Map, Born, Inert, MapTypes, TaskTypes,
     ChannelTypes, Order, Channels, Unborn
<1>10. Order'
    BY Generations, <1>a, <1>b DEF Order, Born, Inert, MapTypes, TaskTypes,
     ChannelTypes
<1>11. Target'
    BY Generations, <1>a, <1>b DEF Target, Born, Fresh, MapTypes, TaskTypes,
     ChannelTypes, Message, Kind, DispatcherTypes
<1>12. Count'
    BY Generations, <1>a, <1>b DEF Count, One, TaskTypes, ChannelTypes,
     Message, Kind, DispatcherTypes
<1>13. ReleaseFlagTracksRelease'
    BY Generations, <1>a, <1>b DEF ReleaseFlagTracksRelease, ReleaseTracked,
     Live, Sending, ForcedIn, TaskTypes, ChannelTypes, DispatcherTypes
<1> QED
  BY <1>1, <1>2, <1>3, <1>4, <1>5, <1>6, <1>7, <1>8, <1>9, <1>10, <1>11,
     <1>12, <1>13 DEF PoolIInv, TypeOK

\* A panic inside a dispatch keeps the invariant.
LEMMA PanicPreserves ==
  ASSUME PoolIInv, NEW g \in Generation, Panic(g)
  PROVE  PoolIInv'
<1> USE DEF Panic, Goto
<1>a. MapTypes /\ TaskTypes /\ ChannelTypes /\ DispatcherTypes /\ OutsideTypes
  BY DEF PoolIInv, TypeOK
<1>b. /\ Unborn /\ Gates /\ Channels /\ Map /\ Order /\ Target
      /\ Count /\ ReleaseFlagTracksRelease
  BY DEF PoolIInv
<1>1. MapTypes'
    BY Generations, <1>a DEF MapTypes
<1>2. TaskTypes'
    BY Generations, <1>a DEF TaskTypes, WorkerPc
<1>3. ChannelTypes'
    BY Generations, <1>a DEF ChannelTypes, Message, Kind
<1>4. DispatcherTypes'
    BY Generations, <1>a DEF DispatcherTypes, DispatcherPc, Message, Kind
<1>5. OutsideTypes'
    BY Generations, <1>a DEF OutsideTypes
<1>6. Unborn'
    BY Generations, <1>a, <1>b DEF Unborn, Born, MapTypes, TaskTypes,
     ChannelTypes
<1>7. Gates'
    BY Generations, <1>a, <1>b DEF Gates, Holds, MapTypes, TaskTypes
<1>8. Channels'
    BY Generations, <1>a, <1>b DEF Channels, TaskTypes, ChannelTypes
<1>9. Map'
    BY Generations, <1>a, <1>b DEF Map, Born, Inert, MapTypes, TaskTypes,
     ChannelTypes
<1>10. Order'
    BY Generations, <1>a, <1>b DEF Order, Born, Inert, MapTypes, TaskTypes,
     ChannelTypes
<1>11. Target'
    BY Generations, <1>a, <1>b DEF Target, Born, Fresh, MapTypes, TaskTypes,
     ChannelTypes, Message, Kind, DispatcherTypes
<1>12. Count'
    BY Generations, <1>a, <1>b DEF Count, One, TaskTypes, ChannelTypes,
     Message, Kind, DispatcherTypes
<1>13. ReleaseFlagTracksRelease'
    BY Generations, <1>a, <1>b DEF ReleaseFlagTracksRelease, ReleaseTracked,
     Live, Sending, ForcedIn, TaskTypes, ChannelTypes, DispatcherTypes
<1> QED
  BY <1>1, <1>2, <1>3, <1>4, <1>5, <1>6, <1>7, <1>8, <1>9, <1>10, <1>11,
     <1>12, <1>13 DEF PoolIInv, TypeOK

\* A shutdown request keeps the invariant.
LEMMA RequestShutdownPreserves ==
  ASSUME PoolIInv, RequestShutdown
  PROVE  PoolIInv'
<1> USE DEF RequestShutdown
<1>a. MapTypes /\ TaskTypes /\ ChannelTypes /\ DispatcherTypes /\ OutsideTypes
  BY DEF PoolIInv, TypeOK
<1>b. /\ Unborn /\ Gates /\ Channels /\ Map /\ Order /\ Target
      /\ Count /\ ReleaseFlagTracksRelease
  BY DEF PoolIInv
<1>1. MapTypes'
    BY Generations, <1>a DEF MapTypes
<1>2. TaskTypes'
    BY Generations, <1>a DEF TaskTypes, WorkerPc
<1>3. ChannelTypes'
    BY Generations, <1>a DEF ChannelTypes, Message, Kind
<1>4. DispatcherTypes'
    BY Generations, <1>a DEF DispatcherTypes, DispatcherPc, Message, Kind
<1>5. OutsideTypes'
    BY Generations, <1>a DEF OutsideTypes
<1>6. Unborn'
    BY Generations, <1>a, <1>b DEF Unborn, Born, MapTypes, TaskTypes,
     ChannelTypes
<1>7. Gates'
    BY Generations, <1>a, <1>b DEF Gates, Holds, MapTypes, TaskTypes
<1>8. Channels'
    BY Generations, <1>a, <1>b DEF Channels, TaskTypes, ChannelTypes
<1>9. Map'
    BY Generations, <1>a, <1>b DEF Map, Born, Inert, MapTypes, TaskTypes,
     ChannelTypes
<1>10. Order'
    BY Generations, <1>a, <1>b DEF Order, Born, Inert, MapTypes, TaskTypes,
     ChannelTypes
<1>11. Target'
    BY Generations, <1>a, <1>b DEF Target, Born, Fresh, MapTypes, TaskTypes,
     ChannelTypes, Message, Kind, DispatcherTypes
<1>12. Count'
    BY Generations, <1>a, <1>b DEF Count, One, TaskTypes, ChannelTypes,
     Message, Kind, DispatcherTypes
<1>13. ReleaseFlagTracksRelease'
    BY Generations, <1>a, <1>b DEF ReleaseFlagTracksRelease, ReleaseTracked,
     Live, Sending, ForcedIn, TaskTypes, ChannelTypes, DispatcherTypes
<1> QED
  BY <1>1, <1>2, <1>3, <1>4, <1>5, <1>6, <1>7, <1>8, <1>9, <1>10, <1>11,
     <1>12, <1>13 DEF PoolIInv, TypeOK

----------------------------------------------------------------------------
\* The invariant holds before the first event.
LEMMA InitInv ==
  ASSUME Init
  PROVE  PoolIInv
<1> USE DEF Init
<1>1. (CHOOSE i \in Id : TRUE) \in Id
  BY PoolAssumption
<1>2. TypeOK
  <2>1. MapTypes
    <3>1. NoWorker \in Holder
      BY Generations
    <3>2. nextGeneration \in 1..(MaxGeneration + 1)
      BY PoolAssumption
    <3> QED BY <1>1, <3>1, <3>2 DEF MapTypes
  <2>2. TaskTypes
    BY Generations DEF TaskTypes, WorkerPc
  <2>3. ChannelTypes
    BY DEF ChannelTypes
  <2>4. DispatcherTypes
    BY <1>1, Generations DEF DispatcherTypes, DispatcherPc, Kind
  <2>5. OutsideTypes
    BY DEF OutsideTypes
  <2> QED BY <2>1, <2>2, <2>3, <2>4, <2>5 DEF TypeOK
<1>3. \A g \in Generation : ~Born(g) /\ pc[g] = "unborn"
  BY DEF Born, Generation
<1>4. Unborn
  BY <1>3 DEF Unborn
<1>5. Gates /\ Channels
  BY <1>3 DEF Gates, Channels, Holds
<1>6. Map
  BY <1>3 DEF Map
<1>7. Order
  BY <1>3 DEF Order
<1>8. Target
  BY DEF Target
<1>9. Count
  BY <1>3, PoolAssumption DEF Count, One
<1>10. ReleaseFlagTracksRelease
  BY <1>3 DEF ReleaseFlagTracksRelease, Live
<1> QED
  BY <1>2, <1>4, <1>5, <1>6, <1>7, <1>8, <1>9, <1>10 DEF PoolIInv

\* The invariant speaks of nothing but the variables.
LEMMA StutterPreserves ==
  ASSUME PoolIInv, UNCHANGED vars
  PROVE  PoolIInv'
<1> USE DEF vars
<1>1. TypeOK'
  BY DEF PoolIInv, TypeOK, MapTypes, TaskTypes, ChannelTypes, DispatcherTypes,
         OutsideTypes
<1>2. (Unborn /\ Gates /\ Channels)'
  BY DEF PoolIInv, Unborn, Gates, Channels, Born, Holds
<1>3. (Map /\ Order)'
  BY DEF PoolIInv, Map, Order, Born, Inert
<1>4. (Target /\ Count)'
  BY DEF PoolIInv, Target, Count, Born, Fresh
<1>5. ReleaseFlagTracksRelease'
  BY DEF PoolIInv, ReleaseFlagTracksRelease, ReleaseTracked, Live, ForcedIn,
         Sending
<1> QED BY <1>1, <1>2, <1>3, <1>4, <1>5 DEF PoolIInv

\* Every step of the pool, the workers and their surroundings keeps it.
LEMMA NextPreserves ==
  ASSUME PoolIInv, [Next]_vars
  PROVE  PoolIInv'
<1>1. ASSUME NEW i \in Id, NEW kind \in Kind, Take(i, kind)
      PROVE  PoolIInv'
  BY <1>1, TakePreserves
<1>2. CASE Dispatcher
  BY <1>2, LookupPreserves, CheckClosedPreserves, ChoosePreserves,
     SendPreserves, ReplacePreserves DEF Dispatcher
<1>3. ASSUME NEW g \in Generation, Worker(g)
      PROVE  PoolIInv'
  BY <1>3, AcquireGatePreserves, CheckShutdownPreserves, ReceivePreserves,
     IdleTimeoutPreserves, FinishPreserves, ClosePreserves, DrainedPreserves,
     RetirePreserves DEF Worker
<1>4. ASSUME NEW g \in Generation, Panic(g)
      PROVE  PoolIInv'
  BY <1>4, PanicPreserves
<1>5. CASE RequestShutdown
  BY <1>5, RequestShutdownPreserves
<1>6. CASE UNCHANGED vars
  BY <1>6, StutterPreserves
<1> QED BY <1>1, <1>2, <1>3, <1>4, <1>5, <1>6 DEF Next

\* The inductive invariant holds in every behaviour of the pool.
THEOREM PoolInvariant == Spec => []PoolIInv
<1>1. Init => PoolIInv
  BY InitInv
<1>2. PoolIInv /\ [Next]_vars => PoolIInv'
  BY NextPreserves
<1> QED BY <1>1, <1>2, PTL DEF Spec

\* A generation that entered dispatch has only inert predecessors.
LEMMA DispatchingPredecessors ==
  ASSUME PoolIInv,
         NEW g \in Generation, NEW h \in Generation,
         g < h, owner[g] = owner[h], Dispatching(h)
  PROVE  Inert(g)
<1>1. Unborn /\ Order
  BY DEF PoolIInv
<1>2. Born(h)
  BY <1>1 DEF Unborn, Dispatching
<1>3. pc[h] # "gate"
  BY DEF Dispatching
<1> QED BY <1>1, <1>2, <1>3 DEF Order

----------------------------------------------------------------------------
\* Every variable keeps the shape of the Rust value it stands for; `pending',
\* an unsigned counter decremented by process_worker_message, never underflows.
THEOREM PoolTyped == Spec => []TypeOK
<1>1. PoolIInv => TypeOK
  BY DEF PoolIInv
<1> QED BY <1>1, PoolInvariant, PTL

\* The handoff mutex of spawn_worker and replace_closed_generation keeps two
\* generations of one id from dispatching together, for any number of ids,
\* generations, panics and any capacity.
THEOREM HandoffExcludes == Spec => []MutualExclusion
<1>1. ASSUME PoolIInv
      PROVE  MutualExclusion
  <2> SUFFICES ASSUME NEW g \in Generation, NEW h \in Generation,
                      owner[g] = owner[h], Dispatching(g), Dispatching(h),
                      g # h
               PROVE  FALSE
    BY DEF MutualExclusion
  <2>1. g < h \/ h < g
    BY Generations
  <2>2. Inert(g) \/ Inert(h)
    BY <1>1, <2>1, DispatchingPredecessors
  <2> QED BY <2>2 DEF Inert, Dispatching
<1> QED BY <1>1, PoolInvariant, PTL

\* A replacement generation starts dispatching only after the generations
\* before it have emptied their channels: "a replacement cannot overtake them".
THEOREM ReplacementWaits == Spec => []NoOvertaking
<1>1. ASSUME PoolIInv
      PROVE  NoOvertaking
  <2> SUFFICES ASSUME NEW g \in Generation, NEW h \in Generation,
                      g < h, owner[g] = owner[h], Dispatching(h)
               PROVE  queue[g] = <<>> /\ ~Dispatching(g)
    BY DEF NoOvertaking
  <2> QED BY <1>1, DispatchingPredecessors DEF Inert, Dispatching
<1> QED BY <1>1, PoolInvariant, PTL

\* The logical bound of the unbounded channel: `pending' counts what is queued
\* or in dispatch and passes the capacity by at most the one retained release.
THEOREM LogicalBound == Spec => []PendingAccounting
<1>1. ASSUME PoolIInv
      PROVE  PendingAccounting
  BY <1>1 DEF PoolIInv, Count, PendingAccounting, Live, Dispatching
<1> QED BY <1>1, PoolInvariant, PTL

\* release_pending is raised exactly while one forced release is on its way.
THEOREM FlagIsExact == Spec => []ReleaseFlagTracksRelease
<1>1. PoolIInv => ReleaseFlagTracksRelease
  BY DEF PoolIInv
<1> QED BY <1>1, PoolInvariant, PTL

\* An accepted message leaves its channel only into dispatch: neither the final
\* drain, nor a replacement, nor shutdown drops one.  A panic may.
THEOREM AcceptedStay == Spec => NothingAbandoned
<1> DEFINE Kept(g) ==
      queue'[g] # queue[g] /\ panics' = panics =>
        \/ \E m \in Message : queue'[g] = Append(queue[g], m) /\ ~closed[g]
        \/ /\ current'[g] = Head(queue[g])
           /\ queue'[g] = Tail(queue[g])
           /\ current[g] = NoMessage
<1>1. ASSUME PoolIInv, [Next]_vars, NEW g \in Generation
      PROVE  Kept(g)
  <2>1. ChannelTypes /\ OutsideTypes /\ Unborn /\ Target
    BY <1>1 DEF PoolIInv, TypeOK
  <2>2. CASE queue' = queue
    BY <2>2
  <2>3. CASE Send
    <3>1. target \in Generation /\ message \in Message
      BY <2>1, <2>3 DEF Send, At, Target
    <3>2. CASE closed[target]
      BY <2>3, <3>2 DEF Send
    <3>3. CASE ~closed[target]
      <4>1. queue' = [queue EXCEPT ![target] = Append(@, message)]
        BY <2>3, <3>3 DEF Send
      <4>2. g # target => queue'[g] = queue[g]
        BY <2>1, <4>1 DEF ChannelTypes
      <4>3. g = target => queue'[g] = Append(queue[g], message)
        BY <2>1, <4>1 DEF ChannelTypes
      <4> QED BY <3>1, <3>3, <4>2, <4>3
    <3> QED BY <3>2, <3>3
  <2>4. ASSUME NEW h \in Generation, NEW from \in {"recv", "drain"},
               Receive(h, from)
        PROVE  Kept(g)
    <3>1. /\ current' = [current EXCEPT ![h] = Head(queue[h])]
          /\ queue' = [queue EXCEPT ![h] = Tail(queue[h])]
          /\ pc[h] # "dispatch"
      BY <2>4 DEF Receive, Goto
    <3>2. current[h] = NoMessage
      BY <2>1, <3>1 DEF Unborn
    <3>3. g # h => queue'[g] = queue[g]
      BY <2>1, <3>1 DEF ChannelTypes
    <3>4. g = h => queue'[g] = Tail(queue[g]) /\ current'[g] = Head(queue[g])
      BY <2>1, <3>1 DEF ChannelTypes
    <3> QED BY <3>2, <3>3, <3>4
  <2>5. ASSUME NEW h \in Generation, Panic(h)
        PROVE  panics' # panics
    BY <2>1, <2>5 DEF Panic, OutsideTypes
  <2>6. ASSUME NEW h \in Generation, Worker(h)
        PROVE  Kept(g)
    <3>1. \/ Receive(h, "recv") \/ Receive(h, "drain")
          \/ queue' = queue
      BY <2>6 DEF Worker, AcquireGate, CheckShutdown, IdleTimeout, Finish,
                  Close, Drained, Retire
    <3> QED BY <2>2, <2>4, <3>1
  <2>7. ASSUME NEW i \in Id, NEW kind \in Kind, Take(i, kind)
        PROVE  queue' = queue
    BY <2>7 DEF Take
  <2>8. CASE Dispatcher
    <3>1. Send \/ queue' = queue
      BY <2>8 DEF Dispatcher, Lookup, CheckClosed, Choose, Replace
    <3> QED BY <2>2, <2>3, <3>1
  <2>9. CASE RequestShutdown
    BY <2>2, <2>9 DEF RequestShutdown
  <2>10. CASE UNCHANGED vars
    BY <2>2, <2>10 DEF vars
  <2> QED
    BY <1>1, <2>2, <2>5, <2>6, <2>7, <2>8, <2>9, <2>10 DEF Next
<1>2. PoolIInv /\ [Next]_vars => [\A g \in Generation : Kept(g)]_vars
  BY <1>1
<1>3. Spec => [][\A g \in Generation : Kept(g)]_vars
  BY <1>2, PoolInvariant, PTL DEF Spec
<1> QED BY <1>3 DEF NothingAbandoned

----------------------------------------------------------------------------
(* The pool implements KeyedDelivery. *)

\* What is in dispatch is a message.
InDispatch == \A g \in Generation : pc[g] = "dispatch" => current[g] \in Message

LEMMA InDispatchAlways == Spec => []InDispatch
<1>1. Init => InDispatch
  BY DEF Init, InDispatch
<1>2. PoolIInv /\ InDispatch /\ [Next]_vars => InDispatch'
  <2> SUFFICES ASSUME PoolIInv, InDispatch, [Next]_vars PROVE InDispatch'
    OBVIOUS
  <2>0. MapTypes /\ TaskTypes /\ ChannelTypes /\ DispatcherTypes
    BY DEF PoolIInv, TypeOK
  <2>1. CASE UNCHANGED <<pc, current>>
    BY <2>1 DEF InDispatch
  <2>2. CASE Lookup \/ Replace
    <3>1. current' = current /\ (pc' = pc \/ \E g \in Generation : pc' = [pc EXCEPT ![g] = "gate"])
      BY <2>2 DEF Lookup, Replace, SpawnWorker
    <3> QED
      BY <2>0, <3>1 DEF InDispatch, TaskTypes
  <2>3. ASSUME NEW g \in Generation, Worker(g) \/ Panic(g) PROVE InDispatch'
    <3>1. CASE Receive(g, "recv") \/ Receive(g, "drain")
      <4>1. /\ queue[g] # <<>> /\ current' = [current EXCEPT ![g] = Head(queue[g])]
            /\ pc' = [pc EXCEPT ![g] = "dispatch"]
        BY <3>1 DEF Receive, Goto
      <4>2. Head(queue[g]) \in Message
        <5>1. queue[g] \in Seq(Message)
          BY <2>0 DEF ChannelTypes
        <5> QED
          BY <4>1, <5>1
      <4> QED
        BY <2>0, <4>1, <4>2 DEF InDispatch, TaskTypes, ChannelTypes
    <3>2. CASE Finish(g) \/ Panic(g)
      <4>1. /\ current' = [current EXCEPT ![g] = NoMessage]
            /\ \E to \in {"drain", "loop", "done"} : pc' = [pc EXCEPT ![g] = to]
        BY <3>2 DEF Finish, Panic, Goto
      <4> QED
        BY <2>0, <4>1 DEF InDispatch, TaskTypes, ChannelTypes
    <3>3. CASE AcquireGate(g) \/ CheckShutdown(g) \/ IdleTimeout(g) \/ Close(g) \/ Drained(g) \/ Retire(g)
      <4>1. /\ current' = current
            /\ \E to \in {"loop", "close", "recv", "drain", "remove", "done"} : pc' = [pc EXCEPT ![g] = to]
        BY <3>3 DEF AcquireGate, CheckShutdown, IdleTimeout, Close, Drained, Retire, Goto
      <4> QED
        BY <2>0, <4>1 DEF InDispatch, TaskTypes, ChannelTypes
    <3> QED
      BY <2>3, <3>1, <3>2, <3>3 DEF Worker
  <2> QED
    BY <2>1, <2>2, <2>3 DEF Next, Dispatcher, Take, CheckClosed, Choose, Send, RequestShutdown, vars
<1> QED
  BY <1>1, <1>2, PoolInvariant, PTL DEF Spec

----------------------------------------------------------------------------
\* Sequences end to end.
LEMMA AppendBehind ==
  ASSUME NEW X, NEW q \in Seq(X), NEW w \in Seq(X), NEW m \in X
  PROVE  q \o Append(w, m) = Append(q \o w, m)
<1>1. Append(w, m) = w \o <<m>> /\ <<m>> \in Seq(X) /\ q \o w \in Seq(X)
  BY AppendIsConcat, ConcatProperties
<1>2. (q \o w) \o <<m>> = q \o (w \o <<m>>)
  BY <1>1, ConcatAssociative
<1>3. Append(q \o w, m) = (q \o w) \o <<m>>
  BY <1>1, AppendIsConcat
<1> QED
  BY <1>1, <1>2, <1>3

LEMMA FirstOfJoined ==
  ASSUME NEW X, NEW q \in Seq(X), NEW w \in Seq(X), q # <<>>
  PROVE  q \o w # <<>> /\ Head(q \o w) = Head(q) /\ Tail(q \o w) = Tail(q) \o w
<1>1. /\ q \o w \in Seq(X) /\ Len(q \o w) = Len(q) + Len(w)
      /\ \A i \in 1..Len(q) + Len(w) : (q \o w)[i] = IF i <= Len(q) THEN q[i] ELSE w[i - Len(q)]
  BY ConcatProperties
<1>2. /\ Len(q) \in Nat /\ Len(q) > 0 /\ Len(w) \in Nat /\ Tail(q) \in Seq(X)
      /\ Len(Tail(q)) = Len(q) - 1 /\ Head(q) = q[1]
      /\ \A i \in 1..Len(Tail(q)) : Tail(q)[i] = q[i + 1]
  BY HeadTailProperties
<1>3. q \o w # <<>> /\ Head(q \o w) = (q \o w)[1]
  <2>1. Len(q \o w) > 0
    BY <1>1, <1>2
  <2> QED
    BY <1>1, <2>1
<1>4. Head(q \o w) = Head(q)
  <2>1. 1 \in 1..Len(q) + Len(w) /\ 1 <= Len(q)
    BY <1>2
  <2> QED
    BY <1>1, <1>2, <1>3, <2>1
<1>5. /\ Tail(q \o w) \in Seq(X) /\ Len(Tail(q \o w)) = Len(q) + Len(w) - 1
      /\ \A i \in 1..Len(Tail(q \o w)) : Tail(q \o w)[i] = (q \o w)[i + 1]
  <2>1. /\ Tail(q \o w) \in Seq(X) /\ Len(Tail(q \o w)) = Len(q \o w) - 1
        /\ \A i \in 1..Len(Tail(q \o w)) : Tail(q \o w)[i] = (q \o w)[i + 1]
    BY <1>1, <1>3, HeadTailProperties
  <2> QED
    BY <1>1, <1>2, <2>1
<1>6. /\ Tail(q) \o w \in Seq(X) /\ Len(Tail(q) \o w) = Len(q) + Len(w) - 1
      /\ \A i \in 1..Len(Tail(q)) + Len(w) :
           (Tail(q) \o w)[i] = IF i <= Len(Tail(q)) THEN Tail(q)[i] ELSE w[i - Len(Tail(q))]
  <2>1. /\ Tail(q) \o w \in Seq(X) /\ Len(Tail(q) \o w) = Len(Tail(q)) + Len(w)
        /\ \A i \in 1..Len(Tail(q)) + Len(w) :
             (Tail(q) \o w)[i] = IF i <= Len(Tail(q)) THEN Tail(q)[i] ELSE w[i - Len(Tail(q))]
    BY <1>2, ConcatProperties
  <2> QED
    BY <1>2, <2>1
<1>7. ASSUME NEW i \in 1..Len(Tail(q \o w)) PROVE Tail(q \o w)[i] = (Tail(q) \o w)[i]
  <2>1. i \in 1..Len(Tail(q)) + Len(w) /\ i + 1 \in 1..Len(q) + Len(w)
    BY <1>2, <1>5
  <2>2. Tail(q \o w)[i] = IF i + 1 <= Len(q) THEN q[i + 1] ELSE w[(i + 1) - Len(q)]
    BY <1>1, <1>5, <2>1
  <2>3. CASE i <= Len(Tail(q))
    <3>1. i \in 1..Len(Tail(q)) /\ i + 1 <= Len(q)
      BY <1>2, <2>1, <2>3
    <3> QED
      BY <1>2, <1>6, <2>1, <2>2, <3>1
  <2>4. CASE ~(i <= Len(Tail(q)))
    <3>1. ~(i + 1 <= Len(q)) /\ (i + 1) - Len(q) = i - Len(Tail(q))
      BY <1>2, <2>1, <2>4
    <3> QED
      BY <1>6, <2>1, <2>2, <2>4, <3>1
  <2> QED
    BY <2>3, <2>4
<1>8. Tail(q \o w) = Tail(q) \o w
  BY <1>5, <1>6, <1>7, SeqEqual
<1> QED
  BY <1>3, <1>4, <1>8

LEMMA RestOfJoined ==
  ASSUME NEW X, NEW q \in Seq(X), NEW w \in Seq(X)
  PROVE  /\ Len(q) \in 0..Len(q \o w)
         /\ SubSeq(q \o w, Len(q) + 1, Len(q \o w)) = w
<1>1. /\ q \o w \in Seq(X) /\ Len(q \o w) = Len(q) + Len(w)
      /\ \A i \in 1..Len(q) + Len(w) : (q \o w)[i] = IF i <= Len(q) THEN q[i] ELSE w[i - Len(q)]
  BY ConcatProperties
<1>2. Len(q) \in Nat /\ Len(w) \in Nat
  OBVIOUS
<1> DEFINE m == Len(q) + 1
           n == Len(q) + Len(w)
<1>3. m \in Int /\ n \in Int /\ n - m + 1 = Len(w)
  BY <1>2
<1>4. \A i \in m..n : (q \o w)[i] \in X
  <2>1. \A i \in m..n : i \in 1..Len(q \o w)
    BY <1>1, <1>2
  <2> QED
    BY <1>1, <2>1
<1>5. /\ SubSeq(q \o w, m, n) \in Seq(X)
      /\ Len(SubSeq(q \o w, m, n)) = IF m <= n THEN n - m + 1 ELSE 0
      /\ \A i \in 1..n - m + 1 : SubSeq(q \o w, m, n)[i] = (q \o w)[m + i - 1]
  <2>1. ASSUME NEW a \in Int, NEW b \in Int, NEW t, \A i \in a..b : t[i] \in X
        PROVE  /\ SubSeq(t, a, b) \in Seq(X)
               /\ Len(SubSeq(t, a, b)) = IF a <= b THEN b - a + 1 ELSE 0
               /\ \A i \in 1..b - a + 1 : SubSeq(t, a, b)[i] = t[a + i - 1]
    BY <2>1, SubSeqProperties
  <2> HIDE DEF m, n
  <2> QED
    BY <1>3, <1>4, <2>1
<1>6. Len(SubSeq(q \o w, m, n)) = Len(w)
  BY <1>2, <1>5
<1>7. ASSUME NEW i \in 1..Len(w) PROVE SubSeq(q \o w, m, n)[i] = w[i]
  <2>1. i \in 1..n - m + 1 /\ m + i - 1 = Len(q) + i
    BY <1>2
  <2>2. SubSeq(q \o w, m, n)[i] = (q \o w)[Len(q) + i]
    BY <1>5, <2>1
  <2>3. Len(q) + i \in 1..Len(q) + Len(w) /\ ~(Len(q) + i <= Len(q)) /\ (Len(q) + i) - Len(q) = i
    BY <1>2
  <2> QED
    BY <1>1, <2>2, <2>3
<1>8. SubSeq(q \o w, m, n) = w
  <2> HIDE DEF m, n
  <2> QED
    BY <1>5, <1>6, <1>7, SeqEqual
<1> QED
  BY <1>1, <1>2, <1>8

----------------------------------------------------------------------------
\* Which channels of an id matter.

\* The invariant's parts, and what follows from a channel's state.
LEMMA PoolParts ==
  ASSUME PoolIInv
  PROVE  /\ Unborn /\ Channels /\ Map /\ Order /\ Target /\ Gates
         /\ MapTypes /\ TaskTypes /\ ChannelTypes /\ DispatcherTypes
         /\ \A g \in Generation : Holds(g) \/ queue[g] # <<>> \/ closed[g] \/ Dispatching(g) => Born(g)
         /\ \A g \in Generation : ~closed[g] \/ queue[g] # <<>> \/ Dispatching(g) => ~Inert(g)
         /\ \A g \in Generation : queue[g] \in Seq(Message)
  BY DEF PoolIInv, TypeOK, Unborn, Holds, Dispatching, Inert, ChannelTypes

LEMMA OneOpen ==
  ASSUME PoolIInv, NEW g \in Generation, NEW h \in Generation, owner[g] = owner[h],
         ~closed[g], ~closed[h], Born(g), Born(h)
  PROVE  g = h
<1>1. Map
  BY PoolParts
<1> QED
  BY <1>1 DEF Map

LEMMA OneDraining ==
  ASSUME PoolIInv, NEW g \in Generation, NEW h \in Generation, owner[g] = owner[h],
         closed[g], closed[h], ~Inert(g), ~Inert(h)
  PROVE  g = h
<1>1. /\ Order /\ Born(g) /\ Born(h) /\ pc[g] # "gate" /\ pc[h] # "gate"
  BY PoolParts DEF Channels
<1>2. ~(g < h) /\ ~(h < g)
  BY <1>1 DEF Order
<1> QED
  BY <1>2, Generations

\* Whoever is past its gate with something to do comes before all others, and
\* the only other one that matters is its replacement, behind the gate.
LEMMA Leading ==
  ASSUME PoolIInv, NEW g \in Generation, NEW h \in Generation, g # h, owner[g] = owner[h],
         Holds(g), ~Inert(g), ~Inert(h), Born(h)
  PROVE  pc[h] = "gate" /\ ~closed[h]
<1>1. Order /\ Channels /\ Born(g) /\ pc[g] # "gate"
  BY PoolParts DEF Holds
<1>2. ~(h < g)
  BY <1>1 DEF Order
<1>3. g < h
  BY <1>2, Generations
<1>4. pc[h] = "gate"
  BY <1>1, <1>3 DEF Order
<1> QED
  BY <1>1, <1>4 DEF Channels

\* The channel of g is what waits of its id, on its side.
Located ==
  \A g \in Generation : Born(g) /\ ~Inert(g) => Waiting(owner[g], closed[g]) = queue[g]

LEMMA LocatedHolds == PoolIInv => Located
<1> SUFFICES ASSUME PoolIInv, NEW g \in Generation, Born(g), ~Inert(g)
             PROVE  Waiting(owner[g], closed[g]) = queue[g]
  BY DEF Located
<1>1. ASSUME NEW h \in Unread(owner[g], closed[g]) PROVE h = g
  <2>1. h \in Generation /\ owner[h] = owner[g] /\ closed[h] = closed[g] /\ queue[h] # <<>>
    BY <1>1 DEF Unread
  <2>2. Born(h) /\ ~Inert(h) /\ closed[g] \in BOOLEAN
    BY <2>1, PoolParts DEF TaskTypes
  <2>3. CASE closed[g]
    BY <2>1, <2>2, <2>3, OneDraining
  <2>4. CASE ~closed[g]
    BY <2>1, <2>2, <2>4, OneOpen
  <2> QED
    BY <2>3, <2>4
<1>2. CASE queue[g] = <<>>
  <2>1. Unread(owner[g], closed[g]) = {}
    BY <1>1, <1>2 DEF Unread
  <2> QED
    BY <1>2, <2>1 DEF Waiting
<1>3. CASE queue[g] # <<>>
  <2>1. Unread(owner[g], closed[g]) = {g}
    BY <1>1, <1>3 DEF Unread
  <2> QED
    BY <2>1 DEF Waiting
<1> QED
  BY <1>2, <1>3

\* What comes after the channel of the one that is past its gate.
Behind(g) == IF closed[g] THEN Waiting(owner[g], FALSE) ELSE <<>>

Fronted ==
  \A g \in Generation : Holds(g) /\ ~Inert(g) => Backlog(owner[g]) = queue[g] \o Behind(g)

LEMMA WaitingType ==
  ASSUME PoolIInv, NEW i, NEW c PROVE Waiting(i, c) \in Seq(Message)
<1>1. \A g \in Generation : queue[g] \in Seq(Message)
  BY PoolParts
<1>2. Unread(i, c) \subseteq Generation
  BY DEF Unread
<1>3. <<>> \in Seq(Message)
  OBVIOUS
<1> QED
  BY <1>1, <1>2, <1>3 DEF Waiting

LEMMA BehindType ==
  ASSUME PoolIInv, NEW g PROVE Behind(g) \in Seq(Message)
<1>1. PICK i : i = owner[g]
  OBVIOUS
<1>2. Waiting(i, FALSE) \in Seq(Message)
  BY WaitingType
<1>3. <<>> \in Seq(Message)
  OBVIOUS
<1> QED
  BY <1>1, <1>2, <1>3 DEF Behind

LEMMA NobodyDrains ==
  ASSUME PoolIInv, NEW g \in Generation, Holds(g), ~closed[g] PROVE Waiting(owner[g], TRUE) = <<>>
<1> SUFFICES ASSUME NEW h \in Unread(owner[g], TRUE) PROVE FALSE
  BY DEF Waiting
<1>1. h \in Generation /\ owner[h] = owner[g] /\ closed[h] /\ queue[h] # <<>> /\ h # g
  BY DEF Unread
<1>2. Born(h) /\ ~Inert(h) /\ ~Inert(g)
  BY <1>1, PoolParts
<1> QED
  BY <1>1, <1>2, Leading

LEMMA FrontedHolds == PoolIInv => Fronted
<1> SUFFICES ASSUME PoolIInv, NEW g \in Generation, Holds(g), ~Inert(g)
             PROVE  Backlog(owner[g]) = queue[g] \o Behind(g)
  BY DEF Fronted
<1>1. Waiting(owner[g], closed[g]) = queue[g] /\ closed[g] \in BOOLEAN /\ queue[g] \in Seq(Message)
  BY LocatedHolds, PoolParts DEF Located, TaskTypes
<1>2. CASE closed[g]
  <2>1. closed[g] = TRUE
    BY <1>1, <1>2
  <2> QED
    BY <1>1, <2>1 DEF Backlog, Behind
<1>3. CASE ~closed[g]
  <2>1. Waiting(owner[g], TRUE) = <<>> /\ Behind(g) = <<>> /\ closed[g] = FALSE
    BY <1>1, <1>3, NobodyDrains DEF Behind
  <2>2. <<>> \o queue[g] = queue[g] /\ queue[g] \o <<>> = queue[g]
    BY <1>1, ConcatEmptySeq
  <2> QED
    BY <1>1, <2>1, <2>2 DEF Backlog
<1> QED
  BY <1>1, <1>2, <1>3

\* Who serves an id.
Served ==
  \A g \in Generation : Dispatching(g) => Serving(owner[g]) = current[g]

LEMMA ServedHolds == PoolIInv => Served
<1> SUFFICES ASSUME PoolIInv, NEW g \in Generation, Dispatching(g) PROVE Serving(owner[g]) = current[g]
  BY DEF Served
<1>1. ASSUME NEW h \in Generation, owner[h] = owner[g], Dispatching(h) PROVE h = g
  <2>1. Holds(g) /\ ~Inert(g) /\ ~Inert(h) /\ Born(h) /\ pc[h] # "gate"
    BY <1>1, PoolParts DEF Holds, Dispatching
  <2> QED
    BY <1>1, <2>1, Leading
<1>2. (CHOOSE h \in Generation : owner[h] = owner[g] /\ Dispatching(h)) = g
  BY <1>1
<1> QED
  BY <1>2 DEF Serving

LEMMA Whereabouts == PoolIInv => Located /\ Fronted /\ Served
  BY LocatedHolds, FrontedHolds, ServedHolds

LEMMA WhereaboutsNext == PoolIInv' => Located' /\ Fronted' /\ Served'
  BY Whereabouts, PTL

\* Channels and dispatches that a step leaves alone.
LEMMA WaitingSame ==
  ASSUME NEW i, NEW c,
         \A g \in Generation :
           /\ g \in Unread(i, c)' <=> g \in Unread(i, c)
           /\ g \in Unread(i, c) => queue'[g] = queue[g]
  PROVE  Waiting(i, c)' = Waiting(i, c)
<1>1. Unread(i, c)' = Unread(i, c) /\ Unread(i, c) \subseteq Generation
  BY DEF Unread
<1> QED
  BY <1>1 DEF Waiting

LEMMA ServingSame ==
  ASSUME NEW i,
         \A g \in Generation :
           /\ owner'[g] = i /\ Dispatching(g)' <=> owner[g] = i /\ Dispatching(g)
           /\ owner[g] = i /\ Dispatching(g) => current'[g] = current[g]
  PROVE  Serving(i)' = Serving(i)
<1> DEFINE D == {g \in Generation : owner[g] = i /\ Dispatching(g)}
<1>1. D' = D
  OBVIOUS
<1>2. Serving(i) = IF D = {} THEN NoMessage ELSE current[CHOOSE g \in D : TRUE]
  BY DEF Serving
<1> QED
  BY <1>1, <1>2 DEF Serving

----------------------------------------------------------------------------
\* The steps.

\* A step that leaves the channels and the dispatches as they are.
LEMMA RestDelivers ==
  ASSUME UNCHANGED <<queue, closed, current>>,
         \A g \in Generation : queue[g] # <<>> \/ Dispatching(g) => owner'[g] = owner[g],
         \A g \in Generation : Dispatching(g)' <=> Dispatching(g),
         \A g \in Generation : owner'[g] = owner[g] \/ (queue[g] = <<>> /\ ~Dispatching(g))
  PROVE  UNCHANGED Delivery!vars
<1>1. ASSUME NEW i \in Id, NEW c PROVE Waiting(i, c)' = Waiting(i, c)
  <2>1. \A g \in Generation : g \in Unread(i, c)' <=> g \in Unread(i, c)
    BY DEF Unread
  <2> QED
    BY <2>1, WaitingSame
<1>2. ASSUME NEW i \in Id PROVE Serving(i)' = Serving(i)
  BY ServingSame
<1> QED
  BY <1>1, <1>2 DEF Delivery!vars, Backlog

\* A step of one generation.
Alone(g) ==
  /\ owner' = owner
  /\ \A h \in Generation \ {g} :
       /\ queue'[h] = queue[h] /\ closed'[h] = closed[h]
       /\ current'[h] = current[h] /\ (Dispatching(h)' <=> Dispatching(h))

LEMMA OthersRest ==
  ASSUME NEW g \in Generation, Alone(g), NEW i \in Id \ {owner[g]}
  PROVE  Backlog(i)' = Backlog(i) /\ Serving(i)' = Serving(i)
<1>1. ASSUME NEW c PROVE Waiting(i, c)' = Waiting(i, c)
  <2>1. \A h \in Generation : /\ h \in Unread(i, c)' <=> h \in Unread(i, c)
                              /\ h \in Unread(i, c) => queue'[h] = queue[h]
    BY DEF Unread, Alone
  <2> QED
    BY <2>1, WaitingSame
<1>2. Serving(i)' = Serving(i)
  <2>1. \A h \in Generation :
           /\ owner'[h] = i /\ Dispatching(h)' <=> owner[h] = i /\ Dispatching(h)
           /\ owner[h] = i /\ Dispatching(h) => current'[h] = current[h]
    BY DEF Alone
  <2> QED
    BY <2>1, ServingSame
<1>3. Waiting(i, TRUE)' = Waiting(i, TRUE)
  BY <1>1
<1>4. Waiting(i, FALSE)' = Waiting(i, FALSE)
  BY <1>1
<1> QED
  BY <1>2, <1>3, <1>4 DEF Backlog

\* The open channels of an id are not touched by one that is closed.
LEMMA OpenSame ==
  ASSUME PoolIInv, NEW g \in Generation, Alone(g), closed[g], closed'[g]
  PROVE  Waiting(owner[g], FALSE)' = Waiting(owner[g], FALSE)
<1>1. owner' = owner
  BY DEF Alone
<1>2. \A h \in Generation : /\ h \in Unread(owner[g], FALSE)' <=> h \in Unread(owner[g], FALSE)
                            /\ h \in Unread(owner[g], FALSE) => queue'[h] = queue[h]
  BY DEF Unread, Alone
<1>3. PICK i : i = owner[g]
  OBVIOUS
<1> QED
  BY <1>1, <1>2, <1>3, WaitingSame

\* The next message of an id goes into dispatch.
LEMMA ReceiveDelivers ==
  ASSUME PoolIInv, PoolIInv', NEW g \in Generation, NEW from \in {"recv", "drain"}, Receive(g, from)
  PROVE  Delivery!Serve(owner[g])
<1>0. PICK i \in Id : i = owner[g]
  BY PoolParts DEF MapTypes
<1>1. /\ pc[g] = from /\ queue[g] # <<>> /\ pc' = [pc EXCEPT ![g] = "dispatch"]
      /\ current' = [current EXCEPT ![g] = Head(queue[g])]
      /\ queue' = [queue EXCEPT ![g] = Tail(queue[g])]
      /\ UNCHANGED <<owner, closed, nextGeneration>>
  BY DEF Receive, Goto
<1>2. /\ Holds(g) /\ ~Inert(g) /\ Born(g) /\ ~Dispatching(g)
      /\ \A h \in Generation : queue[h] \in Seq(Message) /\ closed[h] \in BOOLEAN
  BY <1>1, PoolParts DEF Holds, Dispatching, TaskTypes
<1>3. /\ queue'[g] = Tail(queue[g]) /\ current'[g] = Head(queue[g]) /\ pc'[g] = "dispatch"
      /\ Alone(g)
  BY <1>1, PoolParts DEF ChannelTypes, TaskTypes, Alone, Dispatching
<1>4. Serving(i) = NoMessage
  <2>1. ASSUME NEW h \in Generation, owner[h] = i, Dispatching(h) PROVE FALSE
    <3>1. h # g /\ Born(h) /\ ~Inert(h)
      BY <1>2, <2>1, PoolParts
    <3> QED
      BY <1>0, <1>2, <2>1, <3>1, Leading DEF Dispatching
  <2> QED
    BY <2>1 DEF Serving
<1>5. Serving(i)' = Head(queue[g])
  BY <1>0, <1>1, <1>3, WhereaboutsNext DEF Served, Dispatching
<1>6. Backlog(i) = queue[g] \o Behind(g)
  BY <1>0, <1>2, Whereabouts DEF Fronted
<1>7. Backlog(i)' = Tail(queue[g]) \o Behind(g)
  <2>1. Holds(g)' /\ ~Inert(g)' /\ owner'[g] = i
    BY <1>0, <1>1, <1>3 DEF Holds, Inert
  <2>2. Backlog(i)' = queue'[g] \o Behind(g)'
    BY <2>1, WhereaboutsNext DEF Fronted
  <2>3. Behind(g)' = Behind(g)
    <3>1. CASE closed[g]
      BY <1>1, <1>3, <3>1, OpenSame DEF Behind
    <3>2. CASE ~closed[g]
      BY <1>1, <3>2 DEF Behind
    <3> QED
      BY <3>1, <3>2
  <2> QED
    BY <1>3, <2>2, <2>3
<1>8. /\ Backlog(i) # <<>> /\ Serving(i)' = Head(Backlog(i)) /\ Backlog(i)' = Tail(Backlog(i))
  <2>1. PICK q, w : q = queue[g] /\ w = Behind(g)
    OBVIOUS
  <2>2. q \in Seq(Message) /\ w \in Seq(Message) /\ q # <<>>
    BY <1>1, <1>2, <2>1, BehindType
  <2>3. q \o w # <<>> /\ Head(q \o w) = Head(q) /\ Tail(q \o w) = Tail(q) \o w
    BY <2>2, FirstOfJoined
  <2> QED
    BY <1>5, <1>6, <1>7, <2>1, <2>3
<1>9. \A j \in Id \ {i} : Backlog(j)' = Backlog(j) /\ Serving(j)' = Serving(j)
  BY <1>0, <1>3, OthersRest
<1> QED
  BY <1>0, <1>4, <1>8, <1>9 DEF Delivery!Serve

\* Nobody else serves the id of g.
LEMMA ServesAlone ==
  ASSUME PoolIInv, NEW g \in Generation, Dispatching(g), Alone(g), ~Dispatching(g)',
         NEW i, i = owner[g]
  PROVE  Serving(i)' = NoMessage
<1>1. ASSUME NEW h \in Generation, owner'[h] = i, Dispatching(h)' PROVE FALSE
  <2>1. h # g /\ owner[h] = i /\ Dispatching(h)
    BY <1>1 DEF Alone
  <2>2. Born(h) /\ ~Inert(h) /\ ~Inert(g) /\ Holds(g)
    BY <2>1, PoolParts DEF Holds, Dispatching
  <2> QED
    BY <2>1, <2>2, Leading DEF Dispatching
<1> QED
  BY <1>1 DEF Serving

\* The engine returns.
LEMMA FinishDelivers ==
  ASSUME PoolIInv, InDispatch, NEW g \in Generation, Finish(g)
  PROVE  Delivery!Finish(owner[g])
<1>0. PICK i \in Id : i = owner[g]
  BY PoolParts DEF MapTypes
<1>1. /\ pc[g] = "dispatch" /\ pc' = [pc EXCEPT ![g] = IF closed[g] THEN "drain" ELSE "loop"]
      /\ current' = [current EXCEPT ![g] = NoMessage] /\ UNCHANGED <<queue, owner, closed>>
  BY DEF Finish, Goto
<1>2. Dispatching(g) /\ ~Dispatching(g)' /\ Alone(g)
  BY <1>1, PoolParts DEF ChannelTypes, TaskTypes, Alone, Dispatching
<1>3. Serving(i)' = NoMessage
  BY <1>0, <1>2, ServesAlone
<1>4. Serving(i) # NoMessage
  <2>1. Serving(i) = current[g] /\ current[g] \in Message
    BY <1>0, <1>1, <1>2, Whereabouts DEF Served, InDispatch
  <2> QED
    BY <2>1 DEF Message, Kind, NoMessage
<1>5. \A j \in Id : Backlog(j)' = Backlog(j)
  BY <1>1 DEF Backlog, Waiting, Unread
<1>6. \A j \in Id \ {i} : Serving(j)' = Serving(j)
  BY <1>0, <1>2, OthersRest
<1> QED
  BY <1>0, <1>3, <1>4, <1>5, <1>6 DEF Delivery!Finish

\* Closing moves the channel of an id to the other side, and changes nothing.
LEMMA CloseDelivers ==
  ASSUME PoolIInv, PoolIInv', NEW g \in Generation, Close(g)
  PROVE  UNCHANGED Delivery!vars
<1>0. PICK i \in Id : i = owner[g]
  BY PoolParts DEF MapTypes
<1>1. /\ pc[g] = "close" /\ pc' = [pc EXCEPT ![g] = "drain"]
      /\ closed' = [closed EXCEPT ![g] = TRUE]
      /\ UNCHANGED <<queue, owner, current, nextGeneration>>
  BY DEF Close, Goto
<1>2. /\ Holds(g) /\ ~closed[g] /\ ~Inert(g) /\ Born(g)
      /\ ~Dispatching(g) /\ ~Dispatching(g)' /\ closed'[g] /\ Alone(g)
      /\ \A h \in Generation : queue[h] \in Seq(Message) /\ closed[h] \in BOOLEAN
  BY <1>1, PoolParts DEF Holds, Dispatching, Inert, Channels, TaskTypes, Alone
<1>3. Backlog(i) = queue[g]
  <2>1. Backlog(i) = queue[g] \o Behind(g) /\ Behind(g) = <<>>
    BY <1>0, <1>2, Whereabouts DEF Fronted, Behind
  <2> QED
    BY <1>2, <2>1, ConcatEmptySeq
<1>4. Waiting(i, FALSE)' = <<>>
  <2>1. ASSUME NEW h \in Unread(i, FALSE)' PROVE FALSE
    <3>1. h \in Generation /\ owner[h] = i /\ closed'[h] = FALSE /\ queue[h] # <<>>
      BY <1>1, <2>1 DEF Unread
    <3>2. h # g /\ ~closed[h] /\ Born(h)
      BY <1>1, <1>2, <3>1, PoolParts
    <3> QED
      BY <1>0, <1>2, <3>1, <3>2, OneOpen
  <2> QED
    BY <2>1 DEF Waiting
<1>5. Waiting(i, TRUE)' = queue[g]
  <2>1. ASSUME NEW h \in Unread(i, TRUE)' PROVE h = g /\ queue[g] # <<>>
    <3>1. h \in Generation /\ owner[h] = i /\ closed'[h] = TRUE /\ queue[h] # <<>>
      BY <1>1, <2>1 DEF Unread
    <3>2. ASSUME h # g PROVE FALSE
      <4>1. closed[h] /\ Born(h) /\ ~Inert(h)
        BY <1>1, <1>2, <3>1, <3>2, PoolParts
      <4> QED
        BY <1>0, <1>2, <3>1, <3>2, <4>1, Leading
    <3> QED
      BY <3>1, <3>2
  <2>2. CASE queue[g] = <<>>
    BY <2>1, <2>2 DEF Waiting
  <2>3. CASE queue[g] # <<>>
    <3>1. g \in Unread(i, TRUE)'
      BY <1>0, <1>1, <1>2, <2>3 DEF Unread
    <3>2. Unread(i, TRUE)' = {g}
      BY <2>1, <3>1
    <3> QED
      BY <1>1, <3>2 DEF Waiting
  <2> QED
    BY <2>2, <2>3
<1>6. Backlog(i)' = Backlog(i)
  <2>1. Backlog(i)' = queue[g] \o <<>>
    BY <1>4, <1>5 DEF Backlog
  <2> QED
    BY <1>2, <1>3, <2>1, ConcatEmptySeq
<1>7. Serving(i)' = Serving(i)
  <2>1. \A h \in Generation :
           /\ owner'[h] = i /\ Dispatching(h)' <=> owner[h] = i /\ Dispatching(h)
           /\ owner[h] = i /\ Dispatching(h) => current'[h] = current[h]
    BY <1>2 DEF Alone
  <2> QED
    BY <2>1, ServingSame
<1>8. \A j \in Id \ {i} : Backlog(j)' = Backlog(j) /\ Serving(j)' = Serving(j)
  BY <1>0, <1>2, OthersRest
<1> QED
  BY <1>6, <1>7, <1>8 DEF Delivery!vars

\* A panic takes the channel along, and leaves what is behind it.
LEMMA PanicDelivers ==
  ASSUME PoolIInv, PoolIInv', InDispatch, NEW g \in Generation, Panic(g)
  PROVE  Delivery!Crash(owner[g])
<1>0. PICK i \in Id : i = owner[g]
  BY PoolParts DEF MapTypes
<1>1. /\ pc[g] = "dispatch" /\ pc' = [pc EXCEPT ![g] = "done"]
      /\ closed' = [closed EXCEPT ![g] = TRUE]
      /\ queue' = [queue EXCEPT ![g] = <<>>]
      /\ current' = [current EXCEPT ![g] = NoMessage]
      /\ UNCHANGED <<owner, nextGeneration>>
  BY DEF Panic, Goto
<1>2. /\ Holds(g) /\ ~Inert(g) /\ Born(g)
      /\ Dispatching(g) /\ ~Dispatching(g)' /\ closed'[g] /\ queue'[g] = <<>> /\ Alone(g)
      /\ \A h \in Generation : queue[h] \in Seq(Message) /\ closed[h] \in BOOLEAN
  BY <1>1, PoolParts DEF Holds, Dispatching, Inert, ChannelTypes, TaskTypes, Alone
<1>3. Backlog(i) = queue[g] \o Behind(g)
  BY <1>0, <1>2, Whereabouts DEF Fronted
<1>4. Waiting(i, TRUE)' = <<>>
  <2>1. ASSUME NEW h \in Unread(i, TRUE)' PROVE FALSE
    <3>1. h \in Generation /\ owner[h] = i /\ closed'[h] = TRUE /\ queue'[h] # <<>>
      BY <1>1, <2>1 DEF Unread
    <3>2. h # g /\ closed[h] /\ Born(h) /\ ~Inert(h)
      BY <1>2, <3>1, PoolParts DEF Alone
    <3> QED
      BY <1>0, <1>2, <3>1, <3>2, Leading
  <2> QED
    BY <2>1 DEF Waiting
<1>5. Waiting(i, FALSE)' = Behind(g)
  <2>1. CASE closed[g]
    <3>1. \A h \in Generation : /\ h \in Unread(i, FALSE)' <=> h \in Unread(i, FALSE)
                                /\ h \in Unread(i, FALSE) => queue'[h] = queue[h]
      BY <1>2, <2>1 DEF Unread, Alone
    <3>2. Waiting(i, FALSE)' = Waiting(i, FALSE)
      BY <3>1, WaitingSame
    <3> QED
      BY <1>0, <2>1, <3>2 DEF Behind
  <2>2. CASE ~closed[g]
    <3>1. ASSUME NEW h \in Unread(i, FALSE)' PROVE FALSE
      <4>1. h \in Generation /\ owner[h] = i /\ closed'[h] = FALSE /\ queue'[h] # <<>>
        BY <1>1, <3>1 DEF Unread
      <4>2. h # g /\ ~closed[h] /\ Born(h)
        BY <1>2, <4>1, PoolParts DEF Alone
      <4> QED
        BY <1>0, <1>2, <2>2, <4>1, <4>2, OneOpen
    <3> QED
      BY <2>2, <3>1 DEF Waiting, Behind
  <2> QED
    BY <2>1, <2>2
<1>6. \E n \in 0..Len(Backlog(i)) : Backlog(i)' = SubSeq(Backlog(i), n + 1, Len(Backlog(i)))
  <2>1. Backlog(i)' = Behind(g)
    <3>1. Backlog(i)' = <<>> \o Behind(g)
      BY <1>4, <1>5 DEF Backlog
    <3> QED
      BY <3>1, BehindType, ConcatEmptySeq
  <2>2. PICK q, w : q = queue[g] /\ w = Behind(g)
    OBVIOUS
  <2>3. q \in Seq(Message) /\ w \in Seq(Message)
    BY <1>2, <2>2, BehindType
  <2>4. /\ Len(q) \in 0..Len(q \o w)
        /\ SubSeq(q \o w, Len(q) + 1, Len(q \o w)) = w
    BY <2>3, RestOfJoined
  <2> QED
    BY <1>3, <2>1, <2>2, <2>4
<1>7. Serving(i)' = NoMessage
  BY <1>0, <1>2, ServesAlone
<1>8. Serving(i) # NoMessage
  <2>1. Serving(i) = current[g] /\ current[g] \in Message
    BY <1>0, <1>1, <1>2, Whereabouts DEF Served, InDispatch
  <2> QED
    BY <2>1 DEF Message, Kind, NoMessage
<1>9. \A j \in Id \ {i} : Backlog(j)' = Backlog(j) /\ Serving(j)' = Serving(j)
  BY <1>0, <1>2, OthersRest
<1> QED
  BY <1>0, <1>6, <1>7, <1>8, <1>9 DEF Delivery!Crash

\* An accepted message goes behind everything its id waits for.
LEMMA SendDelivers ==
  ASSUME PoolIInv, PoolIInv', Send, ~closed[target]
  PROVE  Delivery!Accept(event.id, message)
<1>0. PICK i \in Id, m \in Message, g \in Generation :
        i = event.id /\ m = message /\ g = target /\ owner[g] = i /\ Born(g)
  BY PoolParts DEF DispatcherTypes, Target, Send, At
<1>1. /\ queue' = [queue EXCEPT ![g] = Append(@, m)]
      /\ UNCHANGED <<pc, owner, closed, current, nextGeneration>> /\ ~closed[g]
  BY <1>0 DEF Send
<1>2. /\ queue'[g] = Append(queue[g], m) /\ Alone(g)
      /\ closed[g] = FALSE /\ queue[g] \in Seq(Message)
  BY <1>1, PoolParts DEF ChannelTypes, TaskTypes, Alone, Dispatching
<1>3. Waiting(i, FALSE) = queue[g]
  BY <1>0, <1>2, Whereabouts DEF Located, Inert
<1>4. Waiting(i, FALSE)' = Append(queue[g], m)
  <2>1. Born(g)' /\ ~Inert(g)' /\ owner'[g] = i /\ closed'[g] = FALSE
    BY <1>0, <1>1, <1>2 DEF Born, Inert
  <2> QED
    BY <1>2, <2>1, WhereaboutsNext DEF Located
<1>5. Waiting(i, TRUE)' = Waiting(i, TRUE)
  <2>1. \A h \in Generation : /\ h \in Unread(i, TRUE)' <=> h \in Unread(i, TRUE)
                              /\ h \in Unread(i, TRUE) => queue'[h] = queue[h]
    BY <1>1, <1>2 DEF Unread, Alone
  <2> QED
    BY <2>1, WaitingSame
<1>6. Backlog(i)' = Append(Backlog(i), m)
  <2>1. PICK q, w : q = Waiting(i, TRUE) /\ w = queue[g]
    OBVIOUS
  <2>2. q \in Seq(Message) /\ w \in Seq(Message)
    BY <1>2, <2>1, WaitingType
  <2>3. q \o Append(w, m) = Append(q \o w, m)
    BY <1>0, <2>2, AppendBehind
  <2> QED
    BY <1>3, <1>4, <1>5, <2>1, <2>3 DEF Backlog
<1>7. \A j \in Id : Serving(j)' = Serving(j)
  BY <1>1 DEF Serving, Dispatching
<1>8. \A j \in Id \ {i} : Backlog(j)' = Backlog(j)
  BY <1>0, <1>2, OthersRest
<1> QED
  BY <1>0, <1>6, <1>7, <1>8 DEF Delivery!Accept

----------------------------------------------------------------------------
\* The pool implements its promise.

\* Spawning touches a generation that was never born.
LEMMA SpawnDelivers ==
  ASSUME PoolIInv, Lookup \/ Replace
  PROVE  UNCHANGED Delivery!vars
<1>1. UNCHANGED <<queue, closed, current>>
  BY DEF Lookup, Replace
<1>2. \/ owner' = owner /\ pc' = pc
      \/ \E g \in Generation : /\ g = nextGeneration /\ pc' = [pc EXCEPT ![g] = "gate"]
                              /\ owner' = [owner EXCEPT ![g] = event.id]
  BY DEF Lookup, Replace, SpawnWorker
<1>3. CASE owner' = owner /\ pc' = pc
  BY <1>1, <1>3, RestDelivers DEF Dispatching
<1>4. ASSUME NEW g \in Generation, g = nextGeneration, pc' = [pc EXCEPT ![g] = "gate"],
             owner' = [owner EXCEPT ![g] = event.id]
      PROVE  UNCHANGED Delivery!vars
  <2>1. pc[g] = "unborn" /\ queue[g] = <<>>
    <3>1. Unborn /\ ~Born(g)
      BY <1>4, PoolParts, Generations DEF Born
    <3> QED
      BY <3>1 DEF Unborn
  <2>2. pc \in [Generation -> WorkerPc] /\ owner \in [Generation -> Id]
    BY PoolParts DEF TaskTypes, MapTypes
  <2>3. \A h \in Generation : Dispatching(h)' <=> Dispatching(h)
    BY <1>4, <2>1, <2>2 DEF Dispatching
  <2>4. \A h \in Generation : owner'[h] = owner[h] \/ (queue[h] = <<>> /\ ~Dispatching(h))
    BY <1>4, <2>1, <2>2 DEF Dispatching
  <2> QED
    BY <1>1, <2>3, <2>4, RestDelivers
<1> QED
  BY <1>2, <1>3, <1>4

\* Steps that neither fill nor empty a channel.
LEMMA OtherDelivers ==
  ASSUME PoolIInv,
         \/ UNCHANGED vars
         \/ RequestShutdown \/ CheckClosed \/ Choose \/ (Send /\ closed[target])
         \/ \E i \in Id, kind \in Kind : Take(i, kind)
         \/ \E g \in Generation :
              \/ AcquireGate(g) \/ CheckShutdown(g) \/ IdleTimeout(g) \/ Drained(g) \/ Retire(g)
  PROVE  UNCHANGED Delivery!vars
<1>1. UNCHANGED <<queue, closed, current, owner>>
  BY DEF vars, RequestShutdown, CheckClosed, Choose, Send, Take, AcquireGate, CheckShutdown,
         IdleTimeout, Drained, Retire
<1>2. \/ pc' = pc
      \/ \E g \in Generation, to \in {"loop", "close", "recv", "remove", "done"} :
           pc[g] # "dispatch" /\ pc' = [pc EXCEPT ![g] = to]
  BY DEF vars, RequestShutdown, CheckClosed, Choose, Send, Take, AcquireGate, CheckShutdown,
         IdleTimeout, Drained, Retire, Goto
<1>3. \A g \in Generation : Dispatching(g)' <=> Dispatching(g)
  BY <1>2, PoolParts DEF Dispatching, TaskTypes
<1> QED
  BY <1>1, <1>3, RestDelivers

LEMMA StepDelivers ==
  ASSUME PoolIInv, PoolIInv', InDispatch, [Next]_vars
  PROVE  [Delivery!Next]_(Delivery!vars)
<1>1. ASSUME NEW g \in Generation, Worker(g) \/ Panic(g) PROVE [Delivery!Next]_(Delivery!vars)
  <2>0. owner[g] \in Id
    BY PoolParts DEF MapTypes
  <2>1. CASE Receive(g, "recv")
    BY <2>0, <2>1, ReceiveDelivers DEF Delivery!Next
  <2>2. CASE Receive(g, "drain")
    BY <2>0, <2>2, ReceiveDelivers DEF Delivery!Next
  <2>3. CASE Finish(g)
    BY <2>0, <2>3, FinishDelivers DEF Delivery!Next
  <2>4. CASE Close(g)
    BY <2>4, CloseDelivers
  <2>5. CASE Panic(g)
    BY <2>0, <2>5, PanicDelivers DEF Delivery!Next
  <2>6. CASE AcquireGate(g) \/ CheckShutdown(g) \/ IdleTimeout(g) \/ Drained(g) \/ Retire(g)
    BY <2>6, OtherDelivers
  <2> QED
    BY <1>1, <2>1, <2>2, <2>3, <2>4, <2>5, <2>6 DEF Worker
<1>2. CASE Send /\ ~closed[target]
  <2>1. event.id \in Id /\ message \in Message
    BY <1>2, PoolParts DEF DispatcherTypes, Target, Send, At
  <2> QED
    BY <1>2, <2>1, SendDelivers DEF Delivery!Next
<1>3. CASE Lookup \/ Replace
  BY <1>3, SpawnDelivers
<1>4. CASE \/ UNCHANGED vars
           \/ RequestShutdown \/ CheckClosed \/ Choose \/ (Send /\ closed[target])
           \/ \E i \in Id, kind \in Kind : Take(i, kind)
  BY <1>4, OtherDelivers
<1> QED
  BY <1>1, <1>2, <1>3, <1>4 DEF Next, Dispatcher

\* KeyedDelivery, of dispatch_with and the worker tasks: whatever closes, is replaced,
\* retires or panics, the engine gets the messages of each registration one at a time and in
\* the order they were accepted; a panic alone loses messages, and then the oldest.
THEOREM PoolDeliversInOrder == Spec => Delivery!Spec
<1>1. Init => Delivery!Init
  <2> SUFFICES ASSUME Init PROVE Delivery!Init
    OBVIOUS
  <2>1. /\ pc = [g \in Generation |-> "unborn"] /\ queue = [g \in Generation |-> <<>>]
    BY DEF Init
  <2>2. ASSUME NEW i \in Id PROVE Backlog(i) = <<>> /\ Serving(i) = NoMessage
    <3>1. ASSUME NEW c PROVE Waiting(i, c) = <<>>
      BY <2>1 DEF Waiting, Unread
    <3>2. Waiting(i, TRUE) = <<>>
      BY <3>1
    <3>3. Waiting(i, FALSE) = <<>>
      BY <3>1
    <3>4. <<>> \o <<>> = <<>>
      OBVIOUS
    <3>5. Serving(i) = NoMessage
      BY <2>1 DEF Serving, Dispatching
    <3> QED
      BY <3>2, <3>3, <3>4, <3>5 DEF Backlog
  <2> QED
    BY <2>2 DEF Delivery!Init
<1>2. PoolIInv /\ PoolIInv' /\ InDispatch /\ [Next]_vars => [Delivery!Next]_(Delivery!vars)
  BY StepDelivers
<1> QED
  BY <1>1, <1>2, PoolInvariant, InDispatchAlways, PTL DEF Spec, Delivery!Spec

HIDE DEF workerVars, taskVars, channelVars, dispatcherVars, outsideVars

----------------------------------------------------------------------------
(***************************************************************************)
(* Proofs about ServerLife, for any connections and any bounds.            *)
(*                                                                         *)
(* That the loop ends the server only when it may is not inductive: the    *)
(* count it keeps follows the registry through the queue of wake events.   *)
(* Until a shutdown is asked for, a registered client is known to the      *)
(* loop, or in the queue after every event that says otherwise, or about   *)
(* to be put there.                                                        *)
(***************************************************************************)

WakeEvent == {"connected", "disconnected", "shutdown"}

\* No later wake event takes a client's arrival back.
Welcome(q, lonely) ==
  /\ lonely => \E i \in 1..Len(q) : q[i] = "connected"
  /\ \A j \in 1..Len(q) : q[j] = "disconnected" =>
       \E i \in 1..Len(q) : j < i /\ q[i] = "connected"

\* Until a shutdown is asked for the loop knows of a registered client, or will when
\* it has taken the wake events that are there.
LoopKnows ==
  /\ wake \in Seq(WakeEvent)
  /\ requested \/ clients = {} \/ Welcome(wake, gone)

\* Nothing the loop is told makes it forget a client that is there.
LEMMA PostWelcomes ==
  ASSUME NEW q \in Seq(WakeEvent), NEW lonely
  PROVE  Append(q, "connected") \in Seq(WakeEvent) /\ Welcome(Append(q, "connected"), lonely)
<1>1. "connected" \in WakeEvent
  BY DEF WakeEvent
<1>2. /\ Append(q, "connected") \in Seq(WakeEvent)
      /\ Len(Append(q, "connected")) = Len(q) + 1 /\ Len(q) \in Nat
      /\ Append(q, "connected")[Len(q) + 1] = "connected"
  BY <1>1
<1> QED
  BY <1>2 DEF Welcome

\* post_user_event keeps the queue a queue.
LEMMA PostTyped ==
  ASSUME wake \in Seq(WakeEvent), NEW e \in WakeEvent, Post(e)
  PROVE  wake' \in Seq(WakeEvent)
  BY DEF Post

LEMMA RequestHolds == ASSUME LoopKnows, Request PROVE LoopKnows'
<1>1. "shutdown" \in WakeEvent
  BY DEF WakeEvent
<1> QED
  BY <1>1, PostTyped DEF LoopKnows, Request

\* One callback of the loop, for an event that is in the queue or none.
LEMMA CallbackGone ==
  ASSUME NEW e, Callback(e), ~requested'
  PROVE  /\ e \notin {"connected", "disconnected"} => gone' = gone
         /\ e = "connected" => ~gone'
         /\ ~gone /\ e # "disconnected" => ~gone'
  BY DEF Callback, Handle, Disarm, idleVars

LEMMA WokenHolds == ASSUME LoopKnows, Woken PROVE LoopKnows'
<1> DEFINE e == Head(wake)
<1>1. /\ wake # <<>> /\ wake \in Seq(WakeEvent) /\ wake' = Tail(wake)
      /\ Callback(e) /\ UNCHANGED clients
  BY DEF LoopKnows, Woken, InLoop
<1>2. /\ wake' \in Seq(WakeEvent) /\ e = wake[1] /\ Len(wake) \in Nat /\ Len(wake) > 0
      /\ Len(wake') = Len(wake) - 1
      /\ \A i \in 1..Len(wake') : wake'[i] = wake[i + 1]
  BY <1>1
<1>3. ASSUME ~requested', clients' # {} PROVE Welcome(wake', gone')
  <2>1. ~requested
    BY <1>1, <1>3 DEF Callback
  <2>2. Welcome(wake, gone)
    BY <1>1, <1>3, <2>1 DEF LoopKnows
  <2>3. ASSUME NEW j \in 1..Len(wake'), wake'[j] = "disconnected"
        PROVE  \E i \in 1..Len(wake') : j < i /\ wake'[i] = "connected"
    <3>1. j + 1 \in 1..Len(wake) /\ wake[j + 1] = "disconnected"
      BY <1>2, <2>3
    <3>2. PICK i \in 1..Len(wake) : j + 1 < i /\ wake[i] = "connected"
      BY <2>2, <3>1 DEF Welcome
    <3>3. i - 1 \in 1..Len(wake') /\ j < i - 1 /\ wake'[i - 1] = "connected"
      BY <1>2, <3>2
    <3> QED
      BY <3>3
  <2>4. ASSUME gone' PROVE \E i \in 1..Len(wake') : wake'[i] = "connected"
    <3>1. e # "connected"
      BY <1>1, <1>3, <2>4, CallbackGone
    <3>2. gone \/ e = "disconnected"
      BY <1>1, <1>3, <2>4, CallbackGone
    <3>3. PICK i \in 1..Len(wake) : wake[i] = "connected"
      BY <1>2, <2>2, <3>2 DEF Welcome
    <3>4. i # 1
      BY <1>2, <3>1, <3>3
    <3>5. i - 1 \in 1..Len(wake') /\ wake'[i - 1] = "connected"
      BY <1>2, <3>3, <3>4
    <3> QED
      BY <3>5
  <2> QED
    BY <2>3, <2>4 DEF Welcome
<1> QED
  BY <1>2, <1>3 DEF LoopKnows

\* An event that is not in the queue.
LEMMA OtherEventHolds ==
  ASSUME LoopKnows, NEW e, e \notin {"connected", "disconnected"}, Callback(e),
         UNCHANGED <<clients, wake>>
  PROVE  LoopKnows'
<1>1. ASSUME ~requested', clients' # {} PROVE Welcome(wake', gone')
  <2>1. gone' = gone
    BY <1>1, CallbackGone
  <2>2. ~requested
    BY <1>1 DEF Callback
  <2> QED
    BY <1>1, <2>1, <2>2 DEF LoopKnows
<1> QED
  BY <1>1 DEF LoopKnows

\* A client that arrives is told to the loop.
LEMMA ConnectedHolds == ASSUME LoopKnows, NEW c \in Conn, Connected(c) PROVE LoopKnows'
<1>1. wake' = Append(wake, "connected")
  BY DEF Connected, Post
<1> QED
  BY <1>1, PostWelcomes DEF LoopKnows

\* Of the clients that go only the last one is.
LEMMA SentHolds ==
  ASSUME LoopKnows, NEW t \in Caster, NEW c \in Conn, Sent(t, c)
  PROVE  LoopKnows'
<1>1. UNCHANGED <<requested, gone>>
  BY DEF Sent, loopVars, idleVars
<1>2. "disconnected" \in WakeEvent
  BY DEF WakeEvent
<1>3. \/ UNCHANGED <<clients, wake>>
      \/ clients' = {} /\ Post("disconnected")
      \/ clients # {} /\ UNCHANGED wake
      \/ clients' = {} /\ UNCHANGED wake
  BY DEF Sent, Remove
<1> QED
  BY <1>1, <1>2, <1>3, PostTyped DEF LoopKnows

\* Stopping the pipeline clears the registry.
LEMMA StopHolds ==
  ASSUME LoopKnows, StopPipeline, UNCHANGED wake \/ Request
  PROVE  LoopKnows'
<1>1. "shutdown" \in WakeEvent
  BY DEF WakeEvent
<1> QED
  BY <1>1, PostTyped DEF LoopKnows, StopPipeline, Request

LEMMA LifeBegins == ServerInit => LoopKnows
  BY DEF ServerInit, LoopKnows

LEMMA LifeHolds == LoopKnows /\ [ServerNext]_serverVars => LoopKnows'
<1> SUFFICES ASSUME LoopKnows, [ServerNext]_serverVars PROVE LoopKnows'
  OBVIOUS
<1>1. CASE Cleared \/ SystemEvent \/ Expired
  <2>1. \/ Callback("cleared") /\ UNCHANGED <<clients, wake>>
        \/ Callback("system") /\ UNCHANGED <<clients, wake>>
        \/ Callback("expired") /\ UNCHANGED <<clients, wake>>
    BY <1>1 DEF Cleared, SystemEvent, Expired, InLoop
  <2>2. {"cleared", "system", "expired"} \cap {"connected", "disconnected"} = {}
    OBVIOUS
  <2> QED
    BY <2>1, <2>2, OtherEventHolds
<1>2. CASE LoopDestroyed \/ ParentGone \/ IpcFails \/ IpcEnds
  BY <1>2, RequestHolds DEF LoopDestroyed, ParentGone, IpcFails, IpcEnds
<1>3. CASE Unserve \/ ShutdownRpc
  BY <1>3, StopHolds DEF Unserve, ShutdownRpc, askVars
<1>4. CASE UNCHANGED <<requested, wake, gone, clients>>
  BY <1>4 DEF LoopKnows
<1>5. CASE TimePasses \/ Joined \/ ParentExits \/ WatcherStops \/ Bind \/ TasksJoined \/ RpcAnswers
  BY <1>4, <1>5 DEF TimePasses, Joined, Disarm, ParentExits, WatcherStops, Bind, TasksJoined,
     RpcAnswers, askVars, loopVars, idleVars
<1>6. ASSUME NEW c \in Conn, Connect(c) \/ Vanish(c) PROVE LoopKnows'
  BY <1>4, <1>6 DEF Connect, Vanish, askVars, loopVars, idleVars
<1>7. ASSUME NEW t \in Tasks, TaskStep(t) PROVE LoopKnows'
  BY <1>4, <1>7, SentHolds DEF TaskStep, TaskEnds, Cast, askVars, loopVars, idleVars
<1>8. CASE UNCHANGED serverVars
  BY <1>4, <1>8 DEF serverVars, askVars, loopVars, idleVars
<1> QED
  BY <1>1, <1>2, <1>3, <1>5, <1>6, <1>7, <1>8, WokenHolds, ConnectedHolds DEF ServerNext

\* The Tao loop's flag (server.rs) follows the registry: until a shutdown is asked for, a client
\* that is registered is known to the loop, or will be when the wake events that are under way
\* have been handled.
THEOREM LoopAlwaysKnows == ServerSpec => []LoopKnows
  BY LifeBegins, LifeHolds, PTL DEF ServerSpec

\* Only the loop's own callback takes the idle timer for a shutdown.
LEMMA IdledByTimer ==
  ASSUME LoopKnows, [ServerNext]_serverVars, ~idled, idled'
  PROVE  ~requested /\ gone
<1>1. ASSUME NEW e, Callback(e) PROVE ~requested /\ gone
  BY <1>1 DEF Callback
<1>2. CASE Woken \/ Cleared \/ SystemEvent \/ Expired
  BY <1>1, <1>2 DEF Woken, Cleared, SystemEvent, Expired
<1>3. idled' = idled \/ Woken \/ Cleared \/ SystemEvent \/ Expired
  <2>1. ASSUME NEW c \in Conn, Connect(c) \/ Connected(c) \/ Vanish(c) PROVE idled' = idled
    BY <2>1 DEF Connect, Connected, Vanish, askVars
  <2>2. ASSUME NEW t \in Tasks, TaskStep(t) PROVE idled' = idled
    BY <2>2 DEF TaskStep, TaskEnds, Cast, Sent, askVars
  <2>3. CASE \/ TimePasses \/ LoopDestroyed \/ Joined \/ ParentExits \/ ParentGone \/ WatcherStops
             \/ Bind \/ IpcFails \/ Unserve \/ TasksJoined \/ IpcEnds \/ ShutdownRpc \/ RpcAnswers
    BY <2>3 DEF TimePasses, LoopDestroyed, Joined, ParentExits, ParentGone, WatcherStops, Bind,
       IpcFails, Unserve, TasksJoined, IpcEnds, ShutdownRpc, RpcAnswers, askVars
  <2> QED
    BY <2>1, <2>2, <2>3 DEF ServerNext, serverVars, askVars
<1> QED
  BY <1>2, <1>3

\* ClientRegistry::remove and the idle timer of the loop (server.rs): for any connections, and
\* any order of their ends and of the wake events, the timer ends the server only with no client
\* registered, or with one whose wake event is still in the queue.
THEOREM AlwaysIdleAlone == ServerSpec => IdleOnlyWhenAlone
<1>1. LoopKnows /\ [ServerNext]_serverVars =>
        (~idled /\ idled' => clients = {} \/ \E i \in DOMAIN wake : wake[i] = "connected")
  <2> SUFFICES ASSUME LoopKnows, [ServerNext]_serverVars, ~idled, idled', clients # {}
               PROVE  \E i \in DOMAIN wake : wake[i] = "connected"
    OBVIOUS
  <2>1. Welcome(wake, gone) /\ gone /\ wake \in Seq(WakeEvent)
    BY IdledByTimer DEF LoopKnows
  <2> QED
    BY <2>1 DEF Welcome
<1> QED
  BY <1>1, LoopAlwaysKnows, PTL DEF ServerSpec, IdleOnlyWhenAlone

----------------------------------------------------------------------------
(***************************************************************************)
(* Proofs about ClientLane, for any classes of snapshots, any capacity and *)
(* any bounds.                                                             *)
(*                                                                         *)
(* A reader that is to wait has looked at everything before; what comes    *)
(* afterwards leaves it a permit, or a handler that is about to leave one. *)
(***************************************************************************)

LaneSpec == LaneInit /\ [][LaneNext]_laneVars

Reading == {"pull", "compare", "take", "parking", "waiting"}
Resting == {"parking", "waiting"}

\* A snapshot stored behind the back of a reader that is to wait wakes it.
SnapshotWakes ==
  reader \in Resting /\ Pending # {} => ready \/ handler = "stored"

\* A log is dropped only with the channel full: a reader that has not reported it
\* has an entry to take before it waits, or to be woken by.
DropWakes ==
  reader \in Reading /\ dropped # reported => ordered # <<>> \/ buffered # None

\* A reader waits with nothing in hand.
EmptyHanded == reader \in Resting => buffered = None

\* What the variables of the lane hold.
SentEntry == [class : Class, number : Nat \ {Empty}]
LaneTypeOK ==
  /\ number \in Nat /\ dropped \in Nat /\ reported \in Nat
  /\ handler \in {"idle", "numbered", "stored", "reserving"}
  /\ handler # "idle" => arriving.class \in Class /\ arriving.number \in Nat
  /\ ordered \in Seq(SentEntry)
  /\ slots \in [Slot -> Nat]
  /\ reader \in {"away", "report", "closed"} \union Reading
  /\ buffered \in SentEntry \union {None}

LaneIInv == LaneTypeOK /\ SnapshotWakes /\ DropWakes /\ EmptyHanded

\* An entry of the channel is not the absence of one.
LEMMA SentIsSomething == None \notin SentEntry
<1>1. ASSUME None \in SentEntry PROVE FALSE
  <2>1. None.number \in Nat \ {Empty}
    BY <1>1 DEF SentEntry
  <2> QED
    BY <2>1 DEF None
<1> QED
  BY <1>1

LEMMA LaneBegins == LaneInit => LaneIInv
  BY DEF LaneInit, LaneIInv, LaneTypeOK, SnapshotWakes, DropWakes, EmptyHanded, Reading, Resting,
         Empty

----------------------------------------------------------------------------
(* What the server's side does. *)

\* The snapshots there are the same as long as the slots are.
LEMMA PendingKept == ASSUME UNCHANGED slots PROVE Pending' = Pending
  BY DEF Pending

LEMMA NoticeHolds == ASSUME LaneIInv, NEW class \in Class, Notice(class) PROVE LaneIInv'
<1>1. /\ handler = "idle" /\ UNCHANGED <<dropped, lost>>
      /\ UNCHANGED readVars /\ UNCHANGED sharedVars
      /\ \/ /\ arriving' = [class |-> class, number |-> number + 1]
            /\ number' = number + 1 /\ handler' = "numbered"
         \/ /\ arriving' = [class |-> class, number |-> Empty]
            /\ number' = number /\ handler' = "reserving"
  BY DEF Notice, Entry
<1>2. /\ number' \in Nat /\ arriving'.class = class /\ arriving'.number \in Nat
      /\ handler' \in {"numbered", "reserving"}
  BY <1>1 DEF LaneIInv, LaneTypeOK, Empty
<1>3. LaneTypeOK'
  BY <1>1, <1>2 DEF LaneIInv, LaneTypeOK, readVars, sharedVars
<1>4. SnapshotWakes' /\ DropWakes' /\ EmptyHanded'
  BY <1>1, PendingKept
  DEF LaneIInv, SnapshotWakes, DropWakes, EmptyHanded, readVars, sharedVars
<1> QED
  BY <1>3, <1>4 DEF LaneIInv

\* The snapshot is there before its wake is: the reader may have gone to wait.
LEMMA StoreHolds == ASSUME LaneIInv, Store PROVE LaneIInv'
<1>1. /\ handler = "numbered" /\ handler' = "stored"
      /\ slots' = [slots EXCEPT ![arriving.class] = arriving.number]
      /\ UNCHANGED <<arriving, number, dropped, ordered>> /\ UNCHANGED readVars
  BY DEF Store
<1>2. slots' \in [Slot -> Nat]
  BY <1>1 DEF LaneIInv, LaneTypeOK
<1>3. LaneTypeOK'
  BY <1>1, <1>2 DEF LaneIInv, LaneTypeOK, readVars
<1>4. SnapshotWakes' /\ DropWakes' /\ EmptyHanded'
  BY <1>1 DEF LaneIInv, SnapshotWakes, DropWakes, EmptyHanded, readVars
<1> QED
  BY <1>3, <1>4 DEF LaneIInv

LEMMA AnnounceHolds == ASSUME LaneIInv, Announce PROVE LaneIInv'
<1>1. /\ ready' = TRUE /\ handler' = "idle"
      /\ UNCHANGED <<arriving, number, dropped, ordered, slots>> /\ UNCHANGED readVars
  BY DEF Announce, WakeReader
<1> QED
  BY <1>1 DEF LaneIInv, LaneTypeOK, SnapshotWakes, DropWakes, EmptyHanded, readVars

LEMMA ReserveHolds == ASSUME LaneIInv, Reserve PROVE LaneIInv'
<1> DEFINE e == [class |-> arriving.class, number |-> number + 1]
<1>1. /\ handler = "reserving" /\ handler' = "idle"
      /\ ordered' = Append(ordered, e) /\ number' = number + 1
      /\ UNCHANGED <<arriving, dropped, slots, ready>> /\ UNCHANGED readVars
  BY DEF Reserve, Entry
<1>2. number' \in Nat /\ e \in SentEntry
  BY <1>1 DEF LaneIInv, LaneTypeOK, SentEntry, Empty
<1> HIDE DEF e
<1>3. ordered' \in Seq(SentEntry) /\ ordered' # <<>>
  BY <1>1, <1>2 DEF LaneIInv, LaneTypeOK
<1>4. LaneTypeOK'
  BY <1>1, <1>2, <1>3 DEF LaneIInv, LaneTypeOK, readVars
<1>5. SnapshotWakes' /\ DropWakes' /\ EmptyHanded'
  BY <1>1, <1>3, PendingKept
  DEF LaneIInv, SnapshotWakes, DropWakes, EmptyHanded, readVars
<1> QED
  BY <1>4, <1>5 DEF LaneIInv

\* The channel that has no room has entries.
LEMMA DropLogHolds == ASSUME LaneIInv, DropLog PROVE LaneIInv'
<1>1. /\ handler = "reserving" /\ handler' = "idle" /\ dropped' = dropped + 1
      /\ Len(ordered) = LaneCapacity
      /\ UNCHANGED <<arriving, number>> /\ UNCHANGED readVars /\ UNCHANGED sharedVars
  BY DEF DropLog
<1>2. ordered # <<>>
  BY <1>1, LaneAssumption
<1>3. LaneTypeOK'
  BY <1>1 DEF LaneIInv, LaneTypeOK, readVars, sharedVars
<1>4. SnapshotWakes' /\ DropWakes' /\ EmptyHanded'
  BY <1>1, <1>2, PendingKept
  DEF LaneIInv, SnapshotWakes, DropWakes, EmptyHanded, readVars, sharedVars
<1> QED
  BY <1>3, <1>4 DEF LaneIInv

LEMMA LoseHolds == ASSUME LaneIInv, Lose PROVE LaneIInv'
<1>1. /\ handler \in {"idle", "reserving"} /\ handler' = "idle"
      /\ UNCHANGED <<arriving, number, dropped>> /\ UNCHANGED readVars /\ UNCHANGED sharedVars
  BY DEF Lose
<1> QED
  BY <1>1, PendingKept
  DEF LaneIInv, LaneTypeOK, SnapshotWakes, DropWakes, EmptyHanded, readVars, sharedVars

----------------------------------------------------------------------------
(* What the reader does. *)

\* A step of the reader that leaves the lane alone and does not come nearer to the wait.
LEMMA ReaderMoves ==
  ASSUME LaneIInv, UNCHANGED sendVars, UNCHANGED sharedVars, UNCHANGED buffered,
         reported' \in Nat,
         \/ reader' \in {"away", "report", "closed"}
         \/ reader' = "pull" /\ dropped = reported'
         \/ reader = "parking" /\ reader' = "waiting" /\ UNCHANGED reported
         \/ reader \in Reading /\ reader' \in {"compare", "take", "pull"} /\ UNCHANGED reported
  PROVE  LaneIInv'
<1>1. LaneTypeOK'
  BY DEF LaneIInv, LaneTypeOK, sendVars, sharedVars, Reading
<1>2. SnapshotWakes' /\ EmptyHanded'
  BY PendingKept DEF LaneIInv, SnapshotWakes, EmptyHanded, sendVars, sharedVars, Resting, Reading
<1>3. DropWakes'
  BY DEF LaneIInv, DropWakes, sendVars, sharedVars, Reading
<1> QED
  BY <1>1, <1>2, <1>3 DEF LaneIInv

LEMMA ReportHolds ==
  ASSUME LaneIInv, Ask \/ Summary \/ NoSummary \/ Park \/ CancelRecv \/ WakeByEnd \/ SnapshotNext
  PROVE  LaneIInv'
<1>1. /\ UNCHANGED sendVars /\ UNCHANGED sharedVars /\ UNCHANGED buffered
      /\ \/ reader' \in {"away", "report", "closed"}
         \/ reader' = "pull" /\ dropped = reported'
         \/ reader = "parking" /\ reader' = "waiting" /\ UNCHANGED reported
         \/ reader \in Reading /\ reader' \in {"compare", "take", "pull"} /\ UNCHANGED reported
  BY DEF Ask, Summary, NoSummary, Park, CancelRecv, WakeByEnd, SnapshotNext, Reading
<1>2. reported' \in {reported, dropped}
  BY DEF Ask, Summary, NoSummary, Park, CancelRecv, WakeByEnd, SnapshotNext
<1>3. reported' \in Nat
  BY <1>2 DEF LaneIInv, LaneTypeOK
<1> QED
  BY <1>1, <1>3, ReaderMoves

\* What the channel has goes to the reader's hand; only with neither does it look no further.
LEMMA PullHolds == ASSUME LaneIInv, Pull PROVE LaneIInv'
<1>1. /\ reader = "pull" /\ reader' = "compare"
      /\ UNCHANGED sendVars /\ UNCHANGED <<reported, slots, ready>>
      /\ \/ UNCHANGED <<buffered, ordered>> /\ (buffered # None \/ ended \/ ordered = <<>>)
         \/ ordered # <<>> /\ buffered' = Head(ordered) /\ ordered' = Tail(ordered)
  BY DEF Pull
<1>2. CASE UNCHANGED <<buffered, ordered>>
  <2>1. UNCHANGED sharedVars /\ reported \in Nat
    BY <1>1, <1>2 DEF sharedVars, LaneIInv, LaneTypeOK
  <2> QED
    BY <1>1, <1>2, <2>1, ReaderMoves DEF Reading
<1>3. CASE ordered # <<>> /\ buffered' = Head(ordered) /\ ordered' = Tail(ordered)
  <2>1. buffered' \in SentEntry /\ ordered' \in Seq(SentEntry) /\ buffered' # None
    BY <1>3, SentIsSomething DEF LaneIInv, LaneTypeOK
  <2>2. LaneTypeOK'
    BY <1>1, <2>1 DEF LaneIInv, LaneTypeOK, sendVars, Reading
  <2> QED
    BY <1>1, <2>1, <2>2 DEF LaneIInv, SnapshotWakes, DropWakes, EmptyHanded, Resting
<1> QED
  BY <1>1, <1>2, <1>3

LEMMA OrderedNextHolds == ASSUME LaneIInv, OrderedNext PROVE LaneIInv'
<1>1. /\ reader' = "away" /\ buffered' = None
      /\ UNCHANGED sendVars /\ UNCHANGED sharedVars /\ UNCHANGED reported
  BY DEF OrderedNext
<1> QED
  BY <1>1 DEF LaneIInv, LaneTypeOK, SnapshotWakes, DropWakes, EmptyHanded, sendVars, sharedVars,
              Reading, Resting

\* recv is to wait: no snapshot is there, and a dropped log left an entry.
LEMMA NothingNextHolds == ASSUME LaneIInv, NothingNext PROVE LaneIInv'
<1>1. /\ reader = "compare" /\ reader' \in {"closed", "parking"}
      /\ buffered = None /\ Pending = {} /\ UNCHANGED buffered
      /\ UNCHANGED sendVars /\ UNCHANGED sharedVars /\ UNCHANGED reported
  BY DEF NothingNext
<1>2. LaneTypeOK'
  BY <1>1 DEF LaneIInv, LaneTypeOK, sendVars, sharedVars, Reading
<1>3. Pending' = {}
  BY <1>1, PendingKept DEF sharedVars
<1>4. DropWakes'
  BY <1>1 DEF LaneIInv, DropWakes, sendVars, sharedVars, Reading
<1> QED
  BY <1>1, <1>2, <1>3, <1>4 DEF LaneIInv, SnapshotWakes, EmptyHanded

LEMMA TakeChosenHolds == ASSUME LaneIInv, TakeChosen PROVE LaneIInv'
<1>1. /\ reader = "take" /\ reader' \in {"away", "pull"}
      /\ UNCHANGED sendVars /\ UNCHANGED <<buffered, reported, ordered>>
      /\ \/ slots' = [s \in Slot |-> IF slots[s] = chosen THEN Empty ELSE slots[s]]
         \/ UNCHANGED slots
  BY DEF TakeChosen
<1>2. slots' \in [Slot -> Nat]
  BY <1>1 DEF LaneIInv, LaneTypeOK, Empty
<1>3. LaneTypeOK'
  BY <1>1, <1>2 DEF LaneIInv, LaneTypeOK, sendVars, Reading
<1>4. SnapshotWakes' /\ DropWakes' /\ EmptyHanded'
  BY <1>1 DEF LaneIInv, SnapshotWakes, DropWakes, EmptyHanded, sendVars, Reading, Resting
<1> QED
  BY <1>3, <1>4 DEF LaneIInv

LEMMA LaneWokenHolds == ASSUME LaneIInv, WakeByEntry \/ WakeBySnapshot PROVE LaneIInv'
<1>1. /\ reader' = "report" /\ UNCHANGED sendVars /\ UNCHANGED <<slots, reported>>
      /\ \/ ordered # <<>> /\ buffered' = Head(ordered) /\ ordered' = Tail(ordered)
         \/ UNCHANGED <<buffered, ordered>>
  BY DEF WakeByEntry, WakeBySnapshot
<1>2. buffered' \in SentEntry \union {None} /\ ordered' \in Seq(SentEntry)
  BY <1>1 DEF LaneIInv, LaneTypeOK
<1>3. LaneTypeOK'
  BY <1>1, <1>2 DEF LaneIInv, LaneTypeOK, sendVars
<1> QED
  BY <1>1, <1>3 DEF LaneIInv, SnapshotWakes, DropWakes, EmptyHanded, Reading, Resting

LEMMA LaneHolds == LaneIInv /\ [LaneNext]_laneVars => LaneIInv'
<1> SUFFICES ASSUME LaneIInv, [LaneNext]_laneVars PROVE LaneIInv'
  OBVIOUS
<1>1. CASE UNCHANGED laneVars
  BY <1>1, PendingKept
  DEF laneVars, sendVars, readVars, sharedVars, LaneIInv, LaneTypeOK, SnapshotWakes, DropWakes,
      EmptyHanded
<1> QED
  BY <1>1, NoticeHolds, StoreHolds, AnnounceHolds, ReserveHolds, DropLogHolds, LoseHolds,
     ReportHolds, PullHolds, OrderedNextHolds, NothingNextHolds, TakeChosenHolds, LaneWokenHolds
  DEF LaneNext

\* No step of either side (EventDeliveryTx, EventDeliveryRx) leaves the reader about to wait with
\* something to read and nobody to wake it: the inductive invariant, with the types.
THEOREM LaneInvariant == LaneSpec => []LaneIInv
  BY LaneBegins, LaneHolds, PTL DEF LaneSpec

\* EventDeliveryRx::recv (ipc/client.rs): whatever classes there are, whatever the capacity, and
\* wherever the two sides interrupt each other, a reader asleep with nothing to wake it has read
\* every snapshot and reported every dropped log.
THEOREM AlwaysSleepsDone == LaneSpec => []SleepsOnlyWhenDone
<1>1. LaneIInv => SleepsOnlyWhenDone
  BY DEF LaneIInv, SnapshotWakes, DropWakes, EmptyHanded, Reading, Resting, SleepsOnlyWhenDone
<1> QED
  BY <1>1, LaneInvariant, PTL
============================================================================
