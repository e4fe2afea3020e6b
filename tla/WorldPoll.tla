----------------------------- MODULE WorldPoll -------------------------------
(***************************************************************************)
(* The world's polling loop, its refresh generations and its focus events  *)
(* (crates/hotki-world), with the engine's task that follows the events    *)
(* (crates/hotki-engine/src/world_sync.rs).                                *)
(*                                                                         *)
(* The loop reads the generation that is asked for, captures the platform  *)
(* on a blocking thread, publishes what it saw and completes that          *)
(* generation; then it sleeps until its interval ends or the permit of a   *)
(* Notify is there.  Callers of refresh ask for a new generation and wait  *)
(* for it on a watch channel.  Each operation on what these share is a     *)
(* step, so the protocol does not rest on the one thread that runs it in   *)
(* the server; the state and its event change in one step, as they do      *)
(* there.                                                                  *)
(***************************************************************************)
EXTENDS Naturals, Sequences

CONSTANTS
  Caller,        \* callers of refresh
  Window,        \* what may have the focus
  NoWindow,      \* nothing has it, or the capture failed
  Capacity,      \* events the broadcast channel retains (256 in production)
  MaxRequests,   \* bound: generations ever asked for
  MaxChanges     \* bound: changes of the platform's focus

ASSUME WorldAssumption ==
  /\ NoWindow \notin Window
  /\ Capacity \in Nat \ {0}
  /\ MaxRequests \in Nat
  /\ MaxChanges \in Nat

Focus == Window \cup {NoWindow}
NoSnapshot == [focus |-> NoWindow, at |-> 0]

VARIABLES
  platform,      \* the focus macOS would report now
  changes,       \* how often it has changed: the clock of the properties
  requested,     \* PollTuner::requested_generation
  completed,     \* PollTuner::completed_generation, a watch channel
  hint,          \* PollTuner::next_ms is set
  permit,        \* PollTuner::wake holds a permit
  poll,          \* where the polling loop is
  reading,       \* its local: the generation it polls for
  taken,         \* its local: the snapshot, and the clock it was taken at
  shown,         \* WorldState's focus, and the clock of its snapshot
  pc,            \* caller -> where it is in refresh
  generation,    \* caller -> the generation it waits for
  asked,         \* caller -> the clock when it called
  follower,      \* where the engine's focus task is
  pending,       \* events the follower has not received
  lagged,        \* some were lost since it subscribed
  focusCtx       \* Engine::focus_ctx

platformVars == <<platform, changes>>
tunerVars == <<requested, completed, hint, permit>>
loopVars == <<poll, reading, taken, shown>>
callerVars == <<pc, generation, asked>>
followerVars == <<follower, pending, lagged, focusCtx>>
vars == <<platformVars, tunerVars, loopVars, callerVars, followerVars>>

Seen == [focus : Focus, at : 0..MaxChanges]

Init ==
  /\ platform \in Focus
  /\ changes = 0
  /\ requested = 0
  /\ completed = 0
  /\ hint = FALSE
  /\ permit = FALSE
  /\ poll = "read"
  /\ reading = 0
  /\ taken = NoSnapshot
  /\ shown = NoSnapshot
  /\ pc = [c \in Caller |-> "idle"]
  /\ generation = [c \in Caller |-> 0]
  /\ asked = [c \in Caller |-> 0]
  /\ follower = "subscribe"
  /\ pending = <<>>
  /\ lagged = FALSE
  /\ focusCtx = NoWindow

----------------------------------------------------------------------------
(* The platform. *)

ChangeFocus(w) ==
  /\ changes < MaxChanges
  /\ w # platform
  /\ platform' = w
  /\ changes' = changes + 1
  /\ UNCHANGED <<tunerVars, loopVars, callerVars, followerVars>>

----------------------------------------------------------------------------
(* run_poll_loop. *)

ReadGeneration ==
  /\ poll = "read"
  /\ reading' = requested
  /\ poll' = "capture"
  /\ UNCHANGED <<platformVars, tunerVars, taken, shown, callerVars, followerVars>>

\* A capture that fails is an empty snapshot.
Capture ==
  /\ poll = "capture"
  /\ \E focus \in {platform, NoWindow} :
       taken' = [focus |-> focus, at |-> changes]
  /\ poll' = "apply"
  /\ UNCHANGED <<platformVars, tunerVars, reading, shown, callerVars,
                 followerVars>>

\* An event reaches whoever has subscribed; a full channel loses its oldest.
Publish(focus) ==
  IF Len(pending) < Capacity
  THEN pending' = Append(pending, focus) /\ UNCHANGED lagged
  ELSE pending' = Append(Tail(pending), focus) /\ lagged' = TRUE

\* apply_poll_update replaces the state; a change of focus is published.
Apply ==
  /\ poll = "apply"
  /\ shown' = taken
  /\ taken' = NoSnapshot
  /\ poll' = "complete"
  /\ IF taken.focus # shown.focus /\ follower # "subscribe"
     THEN Publish(taken.focus)
     ELSE UNCHANGED <<pending, lagged>>
  /\ UNCHANGED <<platformVars, tunerVars, reading, callerVars, follower, focusCtx>>

\* A new value on the watch channel lets those who wait for one look at it.
WakeWaiters == pc' = [c \in Caller |-> IF pc[c] = "wait" THEN "check" ELSE pc[c]]

\* Defect: the generation completed is the one asked for by now.
CompleteRequested ==
  /\ poll = "complete"
  /\ completed' = requested
  /\ WakeWaiters
  /\ reading' = 0
  /\ poll' = "interval"
  /\ UNCHANGED <<platformVars, requested, hint, permit, taken, shown, generation,
                 asked, followerVars>>

\* complete_refresh: the generation read before the capture.
Complete ==
  /\ poll = "complete"
  /\ completed' = reading
  /\ WakeWaiters
  /\ reading' = 0
  /\ poll' = "interval"
  /\ UNCHANGED <<platformVars, requested, hint, permit, taken, shown, generation,
                 asked, followerVars>>

\* A hint is consumed by next_interval, and shortens the sleep, or else, when it
\* came since, by the check before the sleep, and the loop polls again at once.
NextInterval ==
  /\ poll = "interval"
  /\ hint' = FALSE
  /\ \/ poll' = "sleep"
     \/ hint /\ poll' = "read"
  /\ UNCHANGED <<platformVars, requested, completed, permit, reading, taken,
                 shown, callerVars, followerVars>>

Wake ==
  /\ poll = "sleep"
  /\ permit
  /\ permit' = FALSE
  /\ hint' = FALSE
  /\ poll' = "read"
  /\ UNCHANGED <<platformVars, requested, completed, reading, taken, shown,
                 callerVars, followerVars>>

\* The interval ends; a permit that came meanwhile stays for the next sleep.
Timeout ==
  /\ poll = "sleep"
  /\ poll' = "read"
  /\ UNCHANGED <<platformVars, tunerVars, reading, taken, shown, callerVars,
                 followerVars>>

----------------------------------------------------------------------------
(* refresh, called by the engine for every key event. *)

\* request_refresh takes the next generation,
Request(c) ==
  /\ pc[c] = "idle"
  /\ requested < MaxRequests
  /\ requested' = requested + 1
  /\ generation' = [generation EXCEPT ![c] = requested + 1]
  /\ asked' = [asked EXCEPT ![c] = changes]
  /\ pc' = [pc EXCEPT ![c] = "hint"]
  /\ UNCHANGED <<platformVars, completed, hint, permit, loopVars,
                 followerVars>>

\* sets the hint,
SetHint(c) ==
  /\ pc[c] = "hint"
  /\ hint' = TRUE
  /\ pc' = [pc EXCEPT ![c] = "notify"]
  /\ UNCHANGED <<platformVars, requested, completed, permit, loopVars,
                 generation, asked, followerVars>>

\* Defect: only a loop that sleeps already is woken (notify_waiters).
NotifySleeper(c) ==
  /\ pc[c] = "notify"
  /\ permit' = (permit \/ poll = "sleep")
  /\ pc' = [pc EXCEPT ![c] = "check"]
  /\ UNCHANGED <<platformVars, requested, completed, hint, loopVars, generation,
                 asked, followerVars>>

\* and wakes the loop, now or at its next sleep.
Notify(c) ==
  /\ pc[c] = "notify"
  /\ permit' = TRUE
  /\ pc' = [pc EXCEPT ![c] = "check"]
  /\ UNCHANGED <<platformVars, requested, completed, hint, loopVars, generation,
                 asked, followerVars>>

Reached(c) == completed >= generation[c]

\* wait_for_refresh looks at the value and, when it is too low, waits for
\* another one.
Check(c) ==
  /\ pc[c] = "check"
  /\ pc' = [pc EXCEPT ![c] = IF Reached(c) THEN "returned" ELSE "wait"]
  /\ UNCHANGED <<platformVars, tunerVars, loopVars, generation, asked,
                 followerVars>>

\* refresh_world_focus: the engine adopts what the world shows now.
Adopt(c) ==
  /\ pc[c] = "returned"
  /\ focusCtx' = shown.focus
  /\ pc' = [pc EXCEPT ![c] = "idle"]
  /\ generation' = [generation EXCEPT ![c] = 0]
  /\ asked' = [asked EXCEPT ![c] = 0]
  /\ UNCHANGED <<platformVars, tunerVars, loopVars, follower, pending, lagged>>

----------------------------------------------------------------------------
(* spawn_world_focus_subscription. *)

\* subscribe_with_snapshot: first the cursor,
Resubscribe ==
  /\ follower = "subscribe"
  /\ follower' = "seed"
  /\ UNCHANGED <<platformVars, tunerVars, loopVars, callerVars, pending, lagged,
                 focusCtx>>

\* Defect: a new subscription is not seeded.
Unseeded ==
  /\ follower = "seed"
  /\ follower' = "loop"
  /\ UNCHANGED <<platformVars, tunerVars, loopVars, callerVars, pending, lagged,
                 focusCtx>>

\* then the snapshot, which is adopted.
Seed ==
  /\ follower = "seed"
  /\ focusCtx' = shown.focus
  /\ follower' = "loop"
  /\ UNCHANGED <<platformVars, tunerVars, loopVars, callerVars, pending, lagged>>

\* An event is adopted, unless some were lost before it: the follower then
\* drops it and subscribes anew.
Follow ==
  /\ follower = "loop"
  /\ pending # <<>>
  /\ lagged' = FALSE
  /\ IF lagged
     THEN follower' = "subscribe" /\ pending' = <<>> /\ UNCHANGED focusCtx
     ELSE /\ pending' = Tail(pending)
          /\ focusCtx' = Head(pending)
          /\ UNCHANGED follower
  /\ UNCHANGED <<platformVars, tunerVars, loopVars, callerVars>>

----------------------------------------------------------------------------
Loop ==
  \/ ReadGeneration \/ Capture \/ Apply \/ Complete \/ NextInterval \/ Wake

Refresh(c) ==
  SetHint(c) \/ Notify(c) \/ Check(c) \/ Adopt(c)

Follower == Resubscribe \/ Seed \/ Follow

Next ==
  \/ \E w \in Focus : ChangeFocus(w)
  \/ Loop
  \/ Timeout
  \/ \E c \in Caller : Request(c) \/ Refresh(c)
  \/ Follower

Spec == Init /\ [][Next]_vars

\* The runtime runs every task that can run.  Nothing is assumed of the timer,
\* whose interval backs off: a refresh must not depend on it.
FairSpec ==
  /\ Spec
  /\ WF_vars(Loop)
  /\ \A c \in Caller : WF_vars(Refresh(c))
  /\ WF_vars(Follower)

----------------------------------------------------------------------------
(* Properties. *)

PollPc == {"read", "capture", "apply", "complete", "interval", "sleep"}
CallerPc == {"idle", "hint", "notify", "check", "wait", "returned"}

\* Every variable keeps its type.
TypeOK ==
  /\ platform \in Focus
  /\ changes \in 0..MaxChanges
  /\ requested \in 0..MaxRequests
  /\ completed \in 0..requested
  /\ hint \in BOOLEAN
  /\ permit \in BOOLEAN
  /\ poll \in PollPc
  /\ reading \in 0..requested
  /\ taken \in Seen
  /\ shown \in Seen
  /\ pc \in [Caller -> CallerPc]
  /\ generation \in [Caller -> 0..MaxRequests]
  /\ asked \in [Caller -> 0..MaxChanges]
  /\ follower \in {"subscribe", "seed", "loop"}
  /\ pending \in Seq(Focus)
  /\ lagged \in BOOLEAN
  /\ focusCtx \in Focus

\* "Wait until a refresh begun after this call has updated the world state"
\* (types.rs:192): when refresh returns, the snapshot shown was captured after
\* the call, also when a poll begun earlier completes in between.
RefreshIsFresh ==
  \A c \in Caller : pc[c] = "returned" => shown.at >= asked[c]

\* The loop never sleeps without a permit while a caller that has notified it
\* waits for a generation it has not completed.
NoLostWakeup ==
  poll = "sleep" /\ ~permit =>
    \A c \in Caller :
      pc[c] \in {"check", "wait"} => completed >= generation[c]

\* Once the follower has nothing to receive, the engine's cache is what the
\* world shows, however many events were lost and whoever else adopted a
\* refresh meanwhile.
CacheFollows ==
  follower = "loop" /\ pending = <<>> => focusCtx = shown.focus

\* Every refresh returns, without the help of the interval's end.
RefreshReturns ==
  \A c \in Caller : pc[c] # "idle" ~> pc[c] = "idle"

=============================================================================
