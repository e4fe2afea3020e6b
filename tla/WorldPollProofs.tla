--------------------------- MODULE WorldPollProofs ---------------------------
(***************************************************************************)
(* Proofs about WorldPoll, for any number of callers, any capacity of the  *)
(* event channel and any bounds.                                           *)
(*                                                                         *)
(* A generation is answered by a poll that read it, and a poll reads the   *)
(* generations before it captures.  The invariant follows a snapshot from  *)
(* its capture through the loop's locals to the state, and a wakeup from   *)
(* the permit to the poll that read the generation it was for.             *)
(***************************************************************************)
EXTENDS WorldPoll, TLAPS

Polling == {"capture", "apply", "complete"}
Waiting == {"check", "wait"}

\* The loop's locals: what it reads never lags what is completed, and what it
\* took is newer than what is shown.
Locals ==
  /\ poll \in Polling => completed <= reading
  /\ poll = "apply" => shown.at <= taken.at
  /\ taken.at <= changes
  /\ shown.at <= changes

\* A caller inside refresh holds a generation that was handed out.
Asked ==
  \A c \in Caller : pc[c] # "idle" =>
    generation[c] <= requested /\ asked[c] <= changes

\* A completed generation was answered by a snapshot taken after it was asked
\* for; so will the one be that the loop is polling for.
Answers ==
  \A c \in Caller : pc[c] # "idle" =>
    /\ generation[c] <= completed => asked[c] <= shown.at
    /\ poll = "apply" /\ generation[c] <= reading => asked[c] <= taken.at
    /\ poll = "complete" /\ generation[c] <= reading => asked[c] <= shown.at
    /\ pc[c] = "returned" => generation[c] <= completed

\* A caller that has notified the loop and is not answered yet has its permit in
\* place, or the loop has taken it and not yet read the generation, or the loop
\* is polling for it.
Wakes ==
  \A c \in Caller : pc[c] \in Waiting /\ completed < generation[c] =>
    \/ permit
    \/ poll = "read"
    \/ poll \in Polling /\ generation[c] <= reading

\* The last event the follower has still to receive is what is shown.
Events ==
  /\ follower = "subscribe" => pending = <<>>
  /\ pending # <<>> => pending[Len(pending)] = shown.focus
  /\ follower = "loop" /\ pending = <<>> => focusCtx = shown.focus

\* The inductive invariant.
IInv == TypeOK /\ Locals /\ Asked /\ Answers /\ Wakes /\ Events

USE DEF platformVars, tunerVars, loopVars, callerVars, followerVars

----------------------------------------------------------------------------
\* An event sent is the last one of the channel, which then is not empty.
LEMMA Sent ==
  ASSUME NEW q \in Seq(Focus), NEW f \in Focus
  PROVE  /\ Append(q, f) \in Seq(Focus)
         /\ Append(q, f) # <<>>
         /\ Append(q, f)[Len(Append(q, f))] = f
  OBVIOUS

\* An event received leaves the last one, unless it was the last one.
LEMMA Received ==
  ASSUME NEW q \in Seq(Focus), q # <<>>
  PROVE  /\ Head(q) \in Focus
         /\ Tail(q) \in Seq(Focus)
         /\ Tail(q) # <<>> => Tail(q)[Len(Tail(q))] = q[Len(q)]
         /\ Tail(q) = <<>> => Head(q) = q[Len(q)]
<1>1. /\ Len(q) \in Nat \ {0}
      /\ Head(q) = q[1]
      /\ Tail(q) \in Seq(Focus)
      /\ Len(Tail(q)) = Len(q) - 1
      /\ \A i \in 1..(Len(q) - 1) : Tail(q)[i] = q[i + 1]
  OBVIOUS
<1>2. Head(q) \in Focus
  OBVIOUS
<1>3. ASSUME Tail(q) # <<>> PROVE Tail(q)[Len(Tail(q))] = q[Len(q)]
  <2>1. Len(Tail(q)) # 0
    BY <1>1, <1>3
  <2>2. Len(q) - 1 \in 1..(Len(q) - 1)
    BY <2>1, <1>1
  <2> QED
    BY <1>1, <2>2
<1>4. ASSUME Tail(q) = <<>> PROVE Head(q) = q[Len(q)]
  <2>1. Len(q) = Len(Tail(q)) + 1
    BY <1>1
  <2>2. Len(<<>>) = 0
    OBVIOUS
  <2>3. Len(Tail(q)) = 0
    BY <1>4, <2>2, Zenon
  <2>4. Len(q) = 0 + 1
    BY <2>1, <2>3, Zenon
  <2>5. Len(q) = 1
    BY <2>4
  <2> QED
    BY <1>1, <2>5
<1> QED
  BY <1>1, <1>2, <1>3, <1>4

\* Publishing makes the event the last one, in a channel with or without room.
LEMMA Published ==
  ASSUME TypeOK, NEW f \in Focus, Publish(f)
  PROVE  /\ pending' \in Seq(Focus)
         /\ pending' # <<>>
         /\ pending'[Len(pending')] = f
         /\ lagged' \in BOOLEAN
<1>1. CASE Len(pending) < Capacity
  BY <1>1, Sent DEF Publish, TypeOK
<1>2. CASE ~(Len(pending) < Capacity)
  <2>1. pending # <<>>
    BY <1>2, WorldAssumption DEF TypeOK
  <2>2. Tail(pending) \in Seq(Focus)
    BY <2>1, Received DEF TypeOK
  <2> QED
    BY <1>2, <2>2, Sent DEF Publish
<1> QED
  BY <1>1, <1>2

\* The initial states satisfy the invariant.
LEMMA InitIInv == Init => IInv
<1> SUFFICES ASSUME Init PROVE IInv
  OBVIOUS
<1>1. TypeOK
  <2>1. NoSnapshot \in Seen
    BY WorldAssumption DEF NoSnapshot, Seen, Focus
  <2>2. <<>> \in Seq(Focus)
    OBVIOUS
  <2>3. pc \in [Caller -> CallerPc]
    BY DEF Init, CallerPc
  <2>4. /\ generation \in [Caller -> 0..MaxRequests]
        /\ asked \in [Caller -> 0..MaxChanges]
    BY WorldAssumption DEF Init
  <2>5. requested \in 0..MaxRequests /\ completed \in 0..requested
    BY WorldAssumption DEF Init
  <2>6. platform \in Focus /\ changes \in 0..MaxChanges /\ reading \in 0..requested
    BY WorldAssumption DEF Init
  <2>7. taken \in Seen /\ shown \in Seen /\ focusCtx \in Focus
    BY <2>1 DEF Init, Focus
  <2> QED
    BY <2>2, <2>3, <2>4, <2>5, <2>6, <2>7 DEF Init, TypeOK, PollPc
<1>2. Locals /\ Asked /\ Answers /\ Wakes /\ Events
  BY WorldAssumption DEF Init, Locals, Asked, Answers, Wakes, Events, NoSnapshot,
     Polling, Waiting
<1> QED
  BY <1>1, <1>2 DEF IInv

----------------------------------------------------------------------------
(* The platform and the loop. *)

\* The platform's focus only moves the clock.
LEMMA ChangeFocusStep == ASSUME IInv, NEW w \in Focus, ChangeFocus(w) PROVE IInv'
  BY WorldAssumption
  DEF IInv, ChangeFocus, TypeOK, Locals, Asked, Answers, Wakes, Events,
      Seen

\* What the loop reads is what was asked for so far.
LEMMA ReadGenerationStep == ASSUME IInv, ReadGeneration PROVE IInv'
  BY DEF IInv, ReadGeneration, TypeOK, Locals, Asked, Answers, Wakes, Events,
      Seen, PollPc, Polling, Waiting

\* A capture is newer than every call made before it.
LEMMA CaptureStep == ASSUME IInv, Capture PROVE IInv'
<1> USE DEF IInv, Capture
<1>1. PICK focus \in Focus : taken' = [focus |-> focus, at |-> changes]
  BY DEF TypeOK, Focus
<1>2. TypeOK'
  <2>1. taken' \in Seen
    BY <1>1 DEF TypeOK, Seen
  <2> QED
    BY <2>1 DEF TypeOK, PollPc
<1>3. taken'.at = changes
  BY <1>1
<1>4. Locals' /\ Asked'
  BY <1>3 DEF TypeOK, Locals, Asked, Seen, Polling
<1>5. Answers' /\ Wakes' /\ Events'
  BY <1>3 DEF TypeOK, Asked, Answers, Wakes, Events, Polling, Waiting
<1> QED
  BY <1>2, <1>4, <1>5

\* What is applied is newer than what was shown, and its event is the last one.
LEMMA ApplyStep == ASSUME IInv, Apply PROVE IInv'
<1> USE DEF IInv, Apply
<1>1. NoSnapshot \in Seen
  BY WorldAssumption DEF NoSnapshot, Seen, Focus
<1>2. taken.focus \in Focus
  BY DEF TypeOK, Seen
<1>3. CASE taken.focus # shown.focus /\ follower # "subscribe"
  <2>1. Publish(taken.focus)
    BY <1>3
  <2>2. /\ pending' \in Seq(Focus)
        /\ pending' # <<>>
        /\ pending'[Len(pending')] = taken.focus
        /\ lagged' \in BOOLEAN
    BY <1>2, <2>1, Published
  <2>3. TypeOK'
    BY <1>1, <2>2 DEF TypeOK, PollPc
  <2>4. Events'
    BY <1>3, <2>2 DEF Events
  <2> QED
    BY <2>3, <2>4, WorldAssumption
    DEF TypeOK, Locals, Asked, Answers, Wakes, Seen, NoSnapshot, Polling
<1>4. CASE ~(taken.focus # shown.focus /\ follower # "subscribe")
  <2>1. UNCHANGED <<pending, lagged>>
    BY <1>4
  <2>2. TypeOK'
    BY <1>1, <2>1 DEF TypeOK, PollPc
  <2>3. Events'
    BY <1>4, <2>1 DEF Events
  <2> QED
    BY <2>2, <2>3, WorldAssumption
    DEF TypeOK, Locals, Asked, Answers, Wakes, Seen, NoSnapshot, Polling
<1> QED
  BY <1>3, <1>4

\* The generation completed was read before the capture that is shown.
LEMMA CompleteStep == ASSUME IInv, Complete PROVE IInv'
<1> USE DEF IInv, Complete, WakeWaiters
<1>1. TypeOK'
  <2>1. pc' \in [Caller -> CallerPc]
    BY DEF TypeOK, CallerPc
  <2>2. completed' \in 0..requested' /\ reading' \in 0..requested'
    BY DEF TypeOK
  <2> QED
    BY <2>1, <2>2 DEF TypeOK, PollPc
<1>2. \A c \in Caller :
        /\ pc'[c] # "idle" <=> pc[c] # "idle"
        /\ pc'[c] = "returned" <=> pc[c] = "returned"
        /\ pc'[c] \in Waiting => pc[c] \in Waiting
  BY DEF TypeOK, Waiting
<1>3. Locals' /\ Asked'
  BY <1>2 DEF TypeOK, Locals, Asked, Seen, Polling
<1>4. Answers'
  BY <1>2 DEF TypeOK, Locals, Answers, Polling
<1>5. Wakes'
  <2> SUFFICES ASSUME NEW c \in Caller,
                      pc'[c] \in Waiting, completed' < generation'[c]
               PROVE  permit'
    BY DEF Wakes
  <2>1. pc[c] \in Waiting /\ completed < generation[c] /\ ~(generation[c] <= reading)
    BY <1>2 DEF TypeOK, Locals, Polling
  <2> QED
    BY <2>1 DEF Wakes
<1>6. Events'
  BY DEF Events
<1> QED
  BY <1>1, <1>3, <1>4, <1>5, <1>6

\* A hint consumed loses no wakeup: the permit is still there.
LEMMA NextIntervalStep == ASSUME IInv, NextInterval PROVE IInv'
  BY DEF IInv, NextInterval, TypeOK, Locals, Asked, Answers, Wakes, Events,
      Seen, PollPc, Polling, Waiting

\* A permit consumed becomes the read that follows.
LEMMA WakeStep == ASSUME IInv, Wake PROVE IInv'
  BY DEF IInv, Wake, TypeOK, Locals, Asked, Answers, Wakes, Events, Seen,
      PollPc, Polling, Waiting

\* An interval that ends is a wakeup too.
LEMMA TimeoutStep == ASSUME IInv, Timeout PROVE IInv'
  BY DEF IInv, Timeout, TypeOK, Locals, Asked, Answers, Wakes, Events, Seen,
      PollPc, Polling, Waiting

----------------------------------------------------------------------------
(* The callers. *)

\* A new generation is beyond what is completed and what is polled for.
LEMMA RequestStep == ASSUME IInv, NEW c \in Caller, Request(c) PROVE IInv'
  BY WorldAssumption DEF IInv, Request, TypeOK, Locals, Asked, Answers, Wakes, Events, Seen,
      PollPc, CallerPc, Polling, Waiting

\* The hint alone answers nothing.
LEMMA SetHintStep == ASSUME IInv, NEW c \in Caller, SetHint(c) PROVE IInv'
  BY DEF IInv, SetHint, TypeOK, Locals, Asked, Answers, Wakes, Events, Seen,
         CallerPc, Polling, Waiting

\* A caller starts to wait with its permit in place.
LEMMA NotifyStep == ASSUME IInv, NEW c \in Caller, Notify(c) PROVE IInv'
  BY DEF IInv, Notify, TypeOK, Locals, Asked, Answers, Wakes, Events, Seen,
         CallerPc, Polling, Waiting

\* A caller returns only with its generation completed.
LEMMA CheckStep == ASSUME IInv, NEW c \in Caller, Check(c) PROVE IInv'
  BY DEF IInv, Check, Reached, TypeOK, Locals, Asked, Answers, Wakes, Events,
      Seen, CallerPc, Polling, Waiting

\* What a caller adopts is what is shown.
LEMMA AdoptStep == ASSUME IInv, NEW c \in Caller, Adopt(c) PROVE IInv'
  BY WorldAssumption DEF IInv, Adopt, TypeOK, Locals, Asked, Answers, Wakes, Events, Seen,
         CallerPc, Focus, Polling, Waiting

----------------------------------------------------------------------------
(* The follower. *)

\* A new cursor starts with nothing to receive.
LEMMA ResubscribeStep == ASSUME IInv, Resubscribe PROVE IInv'
  BY DEF IInv, Resubscribe, TypeOK, Locals, Asked, Answers, Wakes, Events,
      Seen

\* The seed is what is shown.
LEMMA SeedStep == ASSUME IInv, Seed PROVE IInv'
  BY DEF IInv, Seed, TypeOK, Locals, Asked, Answers, Wakes, Events, Seen,
         Focus

\* An event received is adopted only when none was lost before it, and the last
\* one is what is shown.
LEMMA FollowStep == ASSUME IInv, Follow PROVE IInv'
<1> USE DEF IInv, Follow
<1>1. pending \in Seq(Focus) /\ pending # <<>>
  BY DEF TypeOK
<1>2. CASE lagged
  <2>1. /\ follower' = "subscribe"
        /\ pending' = <<>>
        /\ lagged' = FALSE
        /\ UNCHANGED <<focusCtx, platformVars, tunerVars, loopVars, callerVars>>
    BY <1>2
  <2>2. <<>> \in Seq(Focus)
    OBVIOUS
  <2>3. TypeOK'
    BY <2>1, <2>2 DEF TypeOK
  <2> QED
    BY <2>1, <2>3 DEF Locals, Asked, Answers, Wakes, Events
<1>3. CASE ~lagged
  <2>1. /\ Head(pending) \in Focus
        /\ Tail(pending) \in Seq(Focus)
        /\ Tail(pending) # <<>> =>
             Tail(pending)[Len(Tail(pending))] = pending[Len(pending)]
        /\ Tail(pending) = <<>> => Head(pending) = pending[Len(pending)]
    BY <1>1, Received
  <2>2. TypeOK'
    BY <1>3, <2>1 DEF TypeOK
  <2>3. Events'
    BY <1>1, <1>3, <2>1 DEF Events
  <2> QED
    BY <1>3, <2>2, <2>3 DEF Locals, Asked, Answers, Wakes
<1> QED
  BY <1>2, <1>3

----------------------------------------------------------------------------
(* The theorems. *)

\* The invariant holds in every reachable state.
THEOREM Invariance == Spec => []IInv
<1>1. Init => IInv
  BY InitIInv
<1>2. IInv /\ [Next]_vars => IInv'
  <2> SUFFICES ASSUME IInv, [Next]_vars PROVE IInv'
    OBVIOUS
  <2>1. CASE \E w \in Focus : ChangeFocus(w)
    BY <2>1, ChangeFocusStep
  <2>2. CASE Loop \/ Timeout
    BY <2>2, ReadGenerationStep, CaptureStep, ApplyStep, CompleteStep,
       NextIntervalStep, WakeStep, TimeoutStep DEF Loop
  <2>3. CASE \E c \in Caller : Request(c) \/ Refresh(c)
    BY <2>3, RequestStep, SetHintStep, NotifyStep, CheckStep, AdoptStep DEF Refresh
  <2>4. CASE Follower
    BY <2>4, ResubscribeStep, SeedStep, FollowStep DEF Follower
  <2>5. CASE UNCHANGED vars
    BY <2>5 DEF vars, IInv, TypeOK, Locals, Asked, Answers, Wakes, Events
  <2> QED
    BY <2>1, <2>2, <2>3, <2>4, <2>5 DEF Next
<1> QED
  BY <1>1, <1>2, PTL DEF Spec

\* Every variable keeps its type; the generation completed is never beyond the
\* one requested.
THEOREM TypeCorrect == Spec => []TypeOK
<1>1. IInv => TypeOK
  BY DEF IInv
<1> QED
  BY <1>1, Invariance, PTL

\* refresh returns only after a capture begun since the call (wait_for_refresh):
\* the generation it waited for is completed, and was answered by such a capture.
THEOREM RefreshFresh == Spec => []RefreshIsFresh
<1>1. IInv => RefreshIsFresh
  BY DEF IInv, TypeOK, Seen, Answers, RefreshIsFresh
<1> QED
  BY <1>1, Invariance, PTL

\* The loop never sleeps on a wakeup that was sent (PollTuner::reset and the
\* select of run_poll_loop): no caller waits for it in vain.
THEOREM WakeupsKept == Spec => []NoLostWakeup
<1>1. IInv => NoLostWakeup
  BY DEF IInv, TypeOK, Wakes, NoLostWakeup, Waiting, Polling
<1> QED
  BY <1>1, Invariance, PTL

\* The engine's focus cache is what the world shows whenever its task
\* (spawn_world_focus_subscription) has nothing left to receive.
THEOREM CacheCorrect == Spec => []CacheFollows
<1>1. IInv => CacheFollows
  BY DEF IInv, Events, CacheFollows
<1> QED
  BY <1>1, Invariance, PTL
=============================================================================
