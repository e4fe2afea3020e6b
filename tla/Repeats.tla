------------------------------- MODULE Repeats -------------------------------
(***************************************************************************)
(* The processes and tickers of the engine's Repeater (crates/hotki-engine *)
(* repeater.rs and ticker.rs).                                             *)
(*                                                                         *)
(* A gesture on an identifier runs a process at once and, if it repeats,   *)
(* again at every tick of a ticker unless the last run is still going.     *)
(* Each start makes a new ProcessRunState, named here by its number; the   *)
(* map process_states holds the newest of an identifier, and the ticker's  *)
(* closure keeps its own reference.  Workers of different keys, and the    *)
(* rebind that stops every repeat, call the repeater at the same time: a   *)
(* call is interrupted where it waits for a ticker or a run to end.        *)
(***************************************************************************)
EXTENDS Naturals, FiniteSets

CONSTANTS
  Gesture,     \* identifiers of bindings
  Caller,      \* workers and rebinds
  MaxRuns,     \* bound: gestures ever started
  MaxStops     \* bound: stops ever requested

ASSUME RepeatsAssumption == MaxRuns \in Nat /\ MaxStops \in Nat

State == 1..MaxRuns
NoState == 0

VARIABLES
  made,        \* states made so far
  gesture,     \* state -> its identifier
  repeats,     \* state -> ProcessRunState::cancel_on_release
  cancelled,   \* state -> ProcessRunState::cancel
  running,     \* state -> ProcessRunState::running
  run,         \* state -> where its task is
  initial,     \* state -> the task is the first run
  child,       \* state -> its process group is alive
  tracked,     \* Repeater::process_states: identifier -> state or NoState
  entry,       \* Ticker::entries: identifier -> the state it ticks for
  ticker,      \* state -> its ticker's task
  call,        \* caller -> what it waits for
  engineGone,      \* the engine was dropped
  stops        \* counts stops for the bound

stateVars == <<made, gesture, repeats>>
runVars == <<running, run, initial, child>>
repeatsVars == <<stateVars, runVars, cancelled, tracked, entry, ticker, call, engineGone, stops>>

\* A call awaits the tickers or the run of some states; then it has the states of
\* idents to take from the map, or the runs of the rest to stop.
NoCall == [pc |-> "idle", awaits |-> {}, idents |-> {}, rest |-> {}]

RepeatsInit ==
  /\ made = 0
  /\ gesture = [s \in State |-> CHOOSE i \in Gesture : TRUE]
  /\ repeats = [s \in State |-> FALSE]
  /\ cancelled = [s \in State |-> FALSE]
  /\ running = [s \in State |-> FALSE]
  /\ run = [s \in State |-> "none"]
  /\ initial = [s \in State |-> FALSE]
  /\ child = [s \in State |-> FALSE]
  /\ tracked = [i \in Gesture |-> NoState]
  /\ entry = [i \in Gesture |-> NoState]
  /\ ticker = [s \in State |-> "off"]
  /\ call = [c \in Caller |-> NoCall]
  /\ engineGone = FALSE
  /\ stops = 0

With(f, S, v) == [x \in DOMAIN f |-> IF x \in S THEN v ELSE f[x]]

\* ProcessRunState::abort kills the process group at once; nobody waits.
AbortStates(S) ==
  /\ cancelled' = With(cancelled, S, TRUE)
  /\ child' = With(child, S, FALSE)

-----------------------------------------------------------------------------
(* Starting a gesture. *)

\* Whatever runs for the identifier is aborted and replaced; the first run and
\* the ticker share the new state.
Start(i, repeat) ==
  LET s == made + 1
  IN /\ ~engineGone
     /\ made < MaxRuns
     /\ made' = s
     /\ gesture' = [gesture EXCEPT ![s] = i]
     /\ repeats' = [repeats EXCEPT ![s] = repeat]
     /\ AbortStates({tracked[i]})
     /\ tracked' = [tracked EXCEPT ![i] = s]
     /\ running' = [running EXCEPT ![s] = TRUE]
     /\ run' = [run EXCEPT ![s] = "spawned"]
     /\ initial' = [initial EXCEPT ![s] = TRUE]
     /\ entry' = [entry EXCEPT ![i] = IF repeat THEN s ELSE NoState]
     /\ ticker' = [t \in State |-> IF t = entry[i] THEN "off"
                                   ELSE IF t = s /\ repeat THEN "on"
                                   ELSE ticker[t]]
     /\ UNCHANGED <<call, engineGone, stops>>

\* A tick runs the process again, unless a run is going.  A ticker
\* that is cancelled as it fires may tick once more before it returns.
Tick(s) ==
  /\ ticker[s] \in {"on", "cancelled"}
  /\ ticker' = [ticker EXCEPT ![s] = IF @ = "on" THEN "on" ELSE "off"]
  /\ IF running[s]
       THEN UNCHANGED <<running, run, initial>>
       ELSE /\ running' = [running EXCEPT ![s] = TRUE]
            /\ run' = [run EXCEPT ![s] = "spawned"]
            /\ initial' = [initial EXCEPT ![s] = FALSE]
  /\ UNCHANGED <<stateVars, cancelled, child, tracked, entry, call, engineGone, stops>>

EndTicker(s) ==
  /\ ticker[s] = "cancelled"
  /\ ticker' = [ticker EXCEPT ![s] = "off"]
  /\ UNCHANGED <<stateVars, runVars, cancelled, tracked, entry, call, engineGone, stops>>

-----------------------------------------------------------------------------
(* The task of a run. *)

\* The run is over: the flag falls, a one-shot state that is still the current
\* one leaves the map; who awaits this run is woken.
EndRun(s) ==
  /\ run' = [run EXCEPT ![s] = "none"]
  /\ running' = [running EXCEPT ![s] = FALSE]
  /\ tracked' = IF initial[s] /\ ~repeats[s] /\ tracked[gesture[s]] = s
                  THEN [tracked EXCEPT ![gesture[s]] = NoState]
                  ELSE tracked
  /\ call' = [c \in Caller |-> IF call[c].pc = "run"
                               THEN [call[c] EXCEPT !.awaits = @ \ {s}]
                               ELSE call[c]]

\* run_process spawns the child without a look at the token.
Launch(s) ==
  /\ run[s] = "spawned"
  /\ run' = [run EXCEPT ![s] = "waiting"]
  /\ child' = [child EXCEPT ![s] = TRUE]
  /\ UNCHANGED <<stateVars, running, initial, cancelled, tracked, entry, ticker,
                 call, engineGone, stops>>

\* The program cannot be executed.
LaunchFails(s) ==
  /\ run[s] = "spawned"
  /\ EndRun(s)
  /\ UNCHANGED <<stateVars, initial, child, cancelled, entry, ticker, engineGone, stops>>

ChildExits(s) ==
  /\ child[s]
  /\ child' = [child EXCEPT ![s] = FALSE]
  /\ UNCHANGED <<stateVars, running, run, initial, cancelled, tracked, entry, ticker,
                 call, engineGone, stops>>

\* Defect: the task waits for the child alone.
ReapExited(s) ==
  /\ run[s] = "waiting"
  /\ ~child[s]
  /\ run' = [run EXCEPT ![s] = "collecting"]
  /\ UNCHANGED <<stateVars, running, child, initial, cancelled, tracked, entry,
                 ticker, call, engineGone, stops>>

\* The child has exited, or the token kills it; its group is killed either way.
Reap(s) ==
  /\ run[s] = "waiting"
  /\ ~child[s] \/ cancelled[s]
  /\ child' = [child EXCEPT ![s] = FALSE]
  /\ run' = [run EXCEPT ![s] = "collecting"]
  /\ UNCHANGED <<stateVars, running, initial, cancelled, tracked, entry, ticker,
                 call, engineGone, stops>>

\* The output is read.
Collect(s) ==
  /\ run[s] = "collecting"
  /\ EndRun(s)
  /\ UNCHANGED <<stateVars, initial, child, cancelled, entry, ticker, engineGone, stops>>

-----------------------------------------------------------------------------
(* Stopping. *)

Going == {s \in State : run[s] # "none"}

\* Defect: a one-shot is stopped with its key.
AwaitEveryRun(c, S) ==
  IF S \ {NoState} = {}
    THEN /\ call' = [call EXCEPT ![c] = NoCall]
         /\ UNCHANGED cancelled
    ELSE \E s \in S \ {NoState} :
           /\ cancelled' = [cancelled EXCEPT ![s] = TRUE]
           /\ call' = [call EXCEPT ![c] =
                [pc |-> "run", awaits |-> {s} \cap Going, idents |-> {}, rest |-> S \ {s}]]

\* Wait for the runs of the states S, one after the other: the token of the next
\* is cancelled when the one before has ended.  A one-shot is only let go of.
AwaitRuns(c, S) ==
  LET held == {s \in S : repeats[s]}
  IN IF held = {}
       THEN /\ call' = [call EXCEPT ![c] = NoCall]
            /\ UNCHANGED cancelled
       ELSE \E s \in held :
              /\ cancelled' = [cancelled EXCEPT ![s] = TRUE]
              /\ call' = [call EXCEPT ![c] =
                   [pc |-> "run", awaits |-> {s} \cap Going,
                    idents |-> {}, rest |-> held \ {s}]]

\* Defect: the map forgets the states, and nobody stops them.
UntrackOnly(c, I, all) ==
  /\ tracked' = With(tracked, I, NoState)
  /\ call' = [call EXCEPT ![c] = NoCall]
  /\ UNCHANGED cancelled

\* The states leave the map: all of the identifiers for Repeater::stop, those that
\* repeat for stop_repeats_async.
Untrack(c, I, all) ==
  LET gone == {i \in I : tracked[i] # NoState /\ (all \/ repeats[tracked[i]])}
  IN /\ tracked' = With(tracked, gone, NoState)
     /\ AwaitRuns(c, {tracked[i] : i \in gone})

\* Both first cancel the tickers and wait for their tasks.
StopAll(c, I, all) ==
  LET tickers == {entry[i] : i \in I} \ {NoState}
  IN /\ ~engineGone
     /\ call[c].pc = "idle"
     /\ stops < MaxStops
     /\ stops' = stops + 1
     /\ entry' = With(entry, I, NoState)
     /\ ticker' = With(ticker, tickers, "cancelled")
     /\ IF tickers = {}
          THEN Untrack(c, I, all)
          ELSE /\ call' = [call EXCEPT ![c] =
                    [pc |-> IF all THEN "ticker" ELSE "tickers", awaits |-> tickers,
                     idents |-> I, rest |-> {}]]
               /\ UNCHANGED <<tracked, cancelled>>
     /\ UNCHANGED <<stateVars, runVars, engineGone>>

StopGesture(c) == \E i \in Gesture : StopAll(c, {i}, TRUE)
StopRepeats(c) == StopAll(c, Gesture, FALSE)

TickersEnded(c) ==
  /\ call[c].pc \in {"ticker", "tickers"}
  /\ \A s \in call[c].awaits : ticker[s] = "off"
  /\ Untrack(c, call[c].idents, call[c].pc = "ticker")
  /\ UNCHANGED <<stateVars, runVars, entry, ticker, engineGone, stops>>

RunEnded(c) ==
  /\ call[c].pc = "run"
  /\ call[c].awaits = {}
  /\ AwaitRuns(c, call[c].rest)
  /\ UNCHANGED <<stateVars, runVars, tracked, entry, ticker, engineGone, stops>>

\* The last owner of the engine is dropped.
AbortAll ==
  /\ ~engineGone
  /\ \A c \in Caller : call[c].pc = "idle"
  /\ engineGone' = TRUE
  /\ entry' = [i \in Gesture |-> NoState]
  /\ tracked' = [i \in Gesture |-> NoState]
  /\ ticker' = With(ticker, {entry[i] : i \in Gesture}, "off")
  /\ AbortStates({tracked[i] : i \in Gesture})
  /\ UNCHANGED <<stateVars, running, run, initial, call, stops>>

RunStep(s) ==
  \/ Launch(s)
  \/ LaunchFails(s)
  \/ Reap(s)
  \/ Collect(s)

CallStep(c) == TickersEnded(c) \/ RunEnded(c)

RepeatsNext ==
  \/ \E i \in Gesture, repeat \in BOOLEAN : Start(i, repeat)
  \/ \E s \in State : Tick(s) \/ EndTicker(s) \/ RunStep(s) \/ ChildExits(s)
  \/ \E c \in Caller : StopGesture(c) \/ StopRepeats(c) \/ CallStep(c)
  \/ AbortAll

RepeatsSpec == RepeatsInit /\ [][RepeatsNext]_repeatsVars

\* Tokio runs the tasks; a ticker's task and a run return once they are cancelled.
\* Nothing is assumed of a child, nor of the ticks.
RepeatsFair ==
  /\ \A s \in State : WF_repeatsVars(RunStep(s)) /\ WF_repeatsVars(EndTicker(s))
  /\ \A c \in Caller : WF_repeatsVars(CallStep(c))

-----------------------------------------------------------------------------
(* Properties. *)

RepeatsTypeOK ==
  /\ made \in 0..MaxRuns /\ stops \in 0..MaxStops /\ engineGone \in BOOLEAN
  /\ gesture \in [State -> Gesture]
  /\ repeats \in [State -> BOOLEAN] /\ cancelled \in [State -> BOOLEAN]
  /\ running \in [State -> BOOLEAN] /\ initial \in [State -> BOOLEAN]
  /\ child \in [State -> BOOLEAN]
  /\ run \in [State -> {"none", "spawned", "waiting", "collecting"}]
  /\ tracked \in [Gesture -> State \cup {NoState}]
  /\ entry \in [Gesture -> State \cup {NoState}]
  /\ ticker \in [State -> {"off", "on", "cancelled"}]
  /\ call \in [Caller -> [pc : {"idle", "ticker", "tickers", "run"},
                         awaits : SUBSET State, idents : SUBSET Gesture,
                         rest : SUBSET State]]

\* Nothing that repeats is out of reach: a ticker that will tick can be found by its
\* identifier, and a run of a repeating gesture is cancelled, or can be found, or
\* belongs to a stop that has yet to come to it.
NoOrphanedRepeat ==
  \A s \in State :
    /\ ticker[s] = "on" => entry[gesture[s]] = s
    /\ repeats[s] /\ run[s] # "none" =>
         \/ cancelled[s]
         \/ tracked[gesture[s]] = s
         \/ \E c \in Caller : s \in call[c].rest

\* A one-shot command outlives the release of its key and every rebind: only a new
\* start of its identifier or the end of the engine cancels it.
OneShotsSurvive ==
  [][\A s \in State : cancelled'[s] /\ ~cancelled[s] /\ ~repeats[s]
                       => made' # made \/ engineGone']_repeatsVars

\* Every stop returns although no child need exit by itself: it cancels what it
\* waits for.
StopsReturn == \A c \in Caller : call[c].pc # "idle" ~> call[c].pc = "idle"

=============================================================================
