----------------------------- MODULE AppProofs -----------------------------
(***************************************************************************)
(* Proofs about the parts of the application: the connection driver        *)
(* (AppDriver) and the mailbox of the UI thread (UiDelivery).              *)
(***************************************************************************)
EXTENDS AppDriver, UiDelivery, FiniteSetTheorems, SequenceTheorems, WellFoundedInduction, TLAPS

----------------------------------------------------------------------------
(***************************************************************************)
(* Proofs about AppDriver, for any number of server processes, controls    *)
(* and changes of the permissions.                                         *)
(*                                                                         *)
(* The connect task exists exactly while the driver waits for it or        *)
(* cancels it, and a process it works on has been spawned; so when a task  *)
(* is started no server runs, and whoever lets go of a task or of a client *)
(* lets go of the only one that runs.                                      *)
(***************************************************************************)

\* The connect task against the phase of the driver.
TaskInPhase == connect = "none" <=> phase \notin {"connecting", "cancelling"}

\* An attempt has a process.
AttemptHasProcess == connect \in {"trying", "stopping", "connected"} => spawned # 0

DriverIInv ==
  /\ AppTypeOK
  /\ TaskInPhase
  /\ AttemptHasProcess
  /\ HealthTellsConnection
  /\ NoOrphanServer

USE DEF uiVars, procVars, driverVars

----------------------------------------------------------------------------
(* What the health's operations make of it. *)

State == {"Initial", "Queued", "Reconnecting", "Running", "Reloading",
          "Rejected", "Blocked", "Disconnected", "ShuttingDown"}

\* A health that is a record of a state; whether it is one of a connection.
LEMMA Connected ==
  ASSUME NEW s \in State, NEW live \in BOOLEAN, health' = Health(s, live)
  PROVE  /\ health' \in [state : State, live : BOOLEAN]
         /\ IsConnected' <=> s \in {"Running", "Reloading", "Rejected"} \/ (s = "Blocked" /\ live)
<1>1. health' = [state |-> s, live |-> live]
  BY DEF Health
<1>2. health'.state = s /\ health'.live = live
  BY <1>1
<1>3. health' \in [state : State, live : BOOLEAN]
  BY <1>1
<1>4. IsConnected' <=> s \in {"Running", "Reloading", "Rejected"} \/ (s = "Blocked" /\ live)
  BY <1>2, Zenon DEF IsConnected
<1> QED
  BY <1>3, <1>4

\* Blocking keeps what is known of the connection.
LEMMA BlockKeeps ==
  ASSUME Block
  PROVE  health' \in [state : State, live : BOOLEAN] /\ (IsConnected' <=> IsConnected)
<1> DEFINE live == IsConnected
<1>1. health' = Health("Blocked", live) /\ live \in BOOLEAN /\ "Blocked" \in State
  BY DEF Block, State, IsConnected
<1> HIDE DEF live
<1>2. health' \in [state : State, live : BOOLEAN] /\ (IsConnected' <=> live)
  BY <1>1, Connected
<1> QED
  BY <1>2 DEF live

\* A shutdown ends what is shown as connected.
LEMMA ShutdownDisconnects ==
  ASSUME BeginShutdown
  PROVE  health' \in [state : State, live : BOOLEAN] /\ ~IsConnected'
<1> DEFINE live == IsConnected
<1>1. health' = Health("ShuttingDown", live) /\ live \in BOOLEAN /\ "ShuttingDown" \in State
  BY DEF BeginShutdown, State, IsConnected
<1> HIDE DEF live
<1> QED
  BY <1>1, Connected

\* A server that runs a configuration, or refused one, is connected.
LEMMA RunningConnects ==
  ASSUME Run \/ Reject \/ Reloading
  PROVE  health' \in [state : State, live : BOOLEAN] /\ IsConnected'
<1>1. PICK s \in {"Running", "Rejected", "Reloading"} : health' = Health(s, FALSE)
  BY DEF Run, Reject, Reloading
<1>2. s \in State /\ FALSE \in BOOLEAN /\ s \in {"Running", "Reloading", "Rejected"}
  BY DEF State
<1>3. /\ health' \in [state : State, live : BOOLEAN]
      /\ IsConnected' <=> s \in {"Running", "Reloading", "Rejected"} \/ (s = "Blocked" /\ FALSE)
  BY <1>1, <1>2, Connected
<1> QED
  BY <1>2, <1>3

\* Without a server nothing is connected.
LEMMA OthersDisconnect ==
  ASSUME Queue \/ Disconnect \/ Connecting
  PROVE  health' \in [state : State, live : BOOLEAN] /\ ~IsConnected'
<1>1. PICK s \in {"Queued", "Disconnected", "Initial", "Reconnecting"} :
        health' = Health(s, FALSE)
  BY DEF Queue, Disconnect, Connecting
<1>2. s \in State
  BY DEF State
<1> QED
  BY <1>1, <1>2, Connected

\* A report about the permissions never changes whether there is a connection.
LEMMA ReportsKeep ==
  ASSUME AppTypeOK, ObserveMissing \/ ObserveGranted
  PROVE  health' \in [state : State, live : BOOLEAN] /\ (IsConnected' <=> IsConnected)
<1>1. CASE UNCHANGED health
  BY <1>1 DEF AppTypeOK, State, IsConnected
<1>2. CASE Block
  BY <1>2, BlockKeeps
<1>3. CASE IsConnected /\ Run
  BY <1>3, RunningConnects
<1>4. CASE ~IsConnected /\ Queue
  BY <1>4, OthersDisconnect
<1> QED
  BY <1>1, <1>2, <1>3, <1>4 DEF ObserveMissing, ObserveGranted

----------------------------------------------------------------------------
(* What becomes of the processes. *)

\* A process that is dropped was the only one that ran.
LEMMA DropEndsAll ==
  ASSUME AppTypeOK, NoOrphanServer, DropProcess
  PROVE  /\ proc' \in [Process -> {"unborn", "alive", "told", "dead"}]
         /\ \A p \in Process : proc'[p] # "alive"
<1>1. \A p \in Process :
        proc'[p] = IF p \in Held /\ proc[p] = "alive" THEN "dead" ELSE proc[p]
  BY DEF DropProcess
<1>2. \A p \in Process : proc[p] = "alive" => p \in Held
  BY DEF NoOrphanServer, Held, Process
<1>3. proc \in [Process -> {"unborn", "alive", "told", "dead"}]
  BY DEF AppTypeOK
<1> QED
  BY <1>1, <1>2, <1>3 DEF DropProcess

----------------------------------------------------------------------------
(* The steps. *)

USE DEF State

\* The driver begins without a task, a server or a connection.
LEMMA InitHolds == AppInit => DriverIInv
<1> SUFFICES ASSUME AppInit PROVE DriverIInv
  OBVIOUS
<1>1. health = [state |-> "Initial", live |-> FALSE]
  BY DEF AppInit, Health
<1>2. AppTypeOK
  <2>1. health \in [state : State, live : BOOLEAN]
    BY <1>1
  <2>2. ctrl \in Seq({"granted", "missing", "reload", "inject", "shutdown"})
        /\ pending \in Seq({"reload", "inject"})
    BY DEF AppInit
  <2>3. spawned \in 0..MaxSpawns
    BY DriverAssumption DEF AppInit
  <2>4. proc \in [Process -> {"unborn", "alive", "told", "dead"}]
    BY DEF AppInit
  <2> QED
    BY <2>1, <2>2, <2>3, <2>4 DEF AppInit, AppTypeOK
<1>3. ~IsConnected
  BY <1>1 DEF IsConnected
<1> QED
  BY <1>2, <1>3 DEF AppInit, DriverIInv, TaskInPhase, AttemptHasProcess, HealthTellsConnection,
     NoOrphanServer

\* The user, macOS and the UI only write to the channel.
LEMMA OutsideHolds ==
  ASSUME DriverIInv,
         \/ Flip \/ Observe
         \/ \E what \in {"reload", "inject", "shutdown"} : Command(what)
         \/ UNCHANGED appVars
  PROVE  DriverIInv'
<1>1. UNCHANGED <<driverVars, connect, procVars>>
  BY DEF Flip, Observe, Command, appVars
<1>2. ctrl' \in Seq({"granted", "missing", "reload", "inject", "shutdown"})
  <2> DEFINE Control == {"granted", "missing", "reload", "inject", "shutdown"}
  <2>1. ctrl \in Seq(Control)
    BY DEF DriverIInv, AppTypeOK
  <2>2. ctrl' = ctrl \/ \E c \in Control : ctrl' = Append(ctrl, c)
    BY DEF Flip, Observe, Command, appVars, Seen
  <2> HIDE DEF Control
  <2>3. ctrl' \in Seq(Control)
    BY <2>1, <2>2
  <2> QED
    BY <2>3 DEF Control
<1>3. granted' \in BOOLEAN /\ lastSeen' \in {"nothing", "granted", "missing"}
  BY DEF DriverIInv, AppTypeOK, Flip, Observe, Command, appVars, Seen
<1>4. AppTypeOK'
  BY <1>1, <1>2, <1>3 DEF DriverIInv, AppTypeOK
<1> QED
  BY <1>1, <1>4 DEF DriverIInv, TaskInPhase, AttemptHasProcess, HealthTellsConnection,
     IsConnected, NoOrphanServer

\* A server that ends is not one that runs.
LEMMA ExitHolds ==
  ASSUME DriverIInv, NEW p \in Process, Exit(p)
  PROVE  DriverIInv'
<1>1. UNCHANGED <<uiVars, driverVars, connect, spawned>>
      /\ proc' = [proc EXCEPT ![p] = "dead"]
  BY DEF Exit
<1>2. AppTypeOK'
  BY <1>1 DEF DriverIInv, AppTypeOK
<1>3. NoOrphanServer'
  BY <1>1 DEF DriverIInv, AppTypeOK, NoOrphanServer
<1> QED
  BY <1>1, <1>2, <1>3 DEF DriverIInv, TaskInPhase, AttemptHasProcess, HealthTellsConnection,
     IsConnected

\* The connect task works on one process at a time, the newest, and none runs when
\* it spawns one.
LEMMA ConnectHolds ==
  ASSUME DriverIInv, ConnectStep
  PROVE  DriverIInv'
<1>1. AppTypeOK /\ TaskInPhase /\ AttemptHasProcess /\ HealthTellsConnection /\ NoOrphanServer
  BY DEF DriverIInv
<1>2. UNCHANGED <<uiVars, driverVars>>
  BY DEF ConnectStep, Spawn, Reach, GiveUp, Stopped
<1>3. phase \in {"connecting", "cancelling"}
  BY <1>1 DEF TaskInPhase, ConnectStep, Spawn, Reach, GiveUp, Stopped
<1>4. connect' \in {"trying", "connected", "stopping", "failed"}
  BY DEF ConnectStep, Spawn, Reach, GiveUp, Stopped
<1>5. CASE Spawn
  <2>1. \A q \in Process : proc[q] # "alive"
    BY <1>1, <1>3, <1>5 DEF NoOrphanServer, Spawn
  <2>2. CASE connect' = "failed" /\ UNCHANGED procVars
    BY <1>1, <1>2, <1>3, <2>1, <2>2
       DEF DriverIInv, AppTypeOK, TaskInPhase, AttemptHasProcess, HealthTellsConnection,
           IsConnected, NoOrphanServer
  <2>3. CASE /\ spawned < MaxSpawns /\ spawned' = spawned + 1
             /\ proc' = [proc EXCEPT ![spawned + 1] = "alive"]
             /\ connect' = "trying"
    <3>1. spawned \in Nat /\ MaxSpawns \in Nat /\ spawned + 1 \in Process
      BY <1>1, <2>3, DriverAssumption DEF AppTypeOK, Process
    <3>2. spawned' \in 0..MaxSpawns /\ spawned' # 0
      BY <2>3, <3>1
    <3>3. proc' \in [Process -> {"unborn", "alive", "told", "dead"}]
      BY <1>1, <2>3 DEF AppTypeOK
    <3>4. AppTypeOK'
      BY <1>1, <1>2, <2>3, <3>2, <3>3 DEF AppTypeOK
    <3>5. NoOrphanServer'
      BY <1>1, <2>1, <2>3, <3>1 DEF AppTypeOK, NoOrphanServer
    <3> QED
      BY <1>1, <1>2, <1>3, <2>3, <3>2, <3>4, <3>5
         DEF DriverIInv, TaskInPhase, AttemptHasProcess, HealthTellsConnection, IsConnected
  <2> QED
    BY <1>5, <2>2, <2>3 DEF Spawn
<1>6. CASE Reach \/ GiveUp \/ Stopped
  <2>1. spawned # 0 /\ spawned \in Process /\ UNCHANGED spawned
    BY <1>1, <1>6, DriverAssumption
       DEF AttemptHasProcess, AppTypeOK, Process, Reach, GiveUp, Stopped
  <2>2. \/ UNCHANGED proc /\ (connect' = "connected" \/ proc[spawned] = "dead")
        \/ proc' = [proc EXCEPT ![spawned] = "told"]
        \/ proc' = [proc EXCEPT ![spawned] = "dead"]
    BY <1>6 DEF Reach, GiveUp, Stopped
  <2>3. proc' \in [Process -> {"unborn", "alive", "told", "dead"}]
    BY <1>1, <2>2 DEF AppTypeOK
  <2>4. AppTypeOK'
    BY <1>1, <1>2, <1>4, <2>1, <2>3 DEF AppTypeOK
  <2>5. NoOrphanServer'
    BY <1>1, <1>2, <2>1, <2>2 DEF AppTypeOK, NoOrphanServer
  <2> QED
    BY <1>1, <1>2, <1>3, <1>4, <2>1, <2>4, <2>5
       DEF DriverIInv, TaskInPhase, AttemptHasProcess, HealthTellsConnection, IsConnected
<1> QED
  BY <1>5, <1>6 DEF ConnectStep

\* A task or a client that holds a server.
Keeping ==
  \/ connect \in {"trying", "connected"}
  \/ phase \in {"activating", "draining", "reloading", "driving", "closing"}

\* No server is orphaned by a step that leaves the servers to one that keeps them.
LEMMA StillKept ==
  ASSUME NoOrphanServer, UNCHANGED procVars, Keeping => Keeping'
  PROVE  NoOrphanServer'
  BY DEF NoOrphanServer, Keeping

\* What is left of a channel after a control was taken.
LEMMA Taken ==
  ASSUME AppTypeOK, NEW c, Takes(c)
  PROVE  ctrl' \in Seq({"granted", "missing", "reload", "inject", "shutdown"})
<1> DEFINE Control == {"granted", "missing", "reload", "inject", "shutdown"}
<1>1. ctrl \in Seq(Control) /\ ctrl # <<>> /\ ctrl' = Tail(ctrl)
  BY DEF AppTypeOK, Takes
<1> HIDE DEF Control
<1>2. ctrl' \in Seq(Control)
  BY <1>1
<1> QED
  BY <1>2 DEF Control

\* At the top of its loop the driver ends, waits, or starts to connect.
LEMMA TopHolds ==
  ASSUME DriverIInv, Finish \/ Refrain \/ StartConnect
  PROVE  DriverIInv'
<1>1. AppTypeOK /\ TaskInPhase /\ AttemptHasProcess /\ HealthTellsConnection /\ NoOrphanServer
  BY DEF DriverIInv
<1>2. /\ phase = "top" /\ phase' \in {"finished", "waiting", "connecting"}
      /\ UNCHANGED <<uiVars, back, pending, procVars>>
  BY DEF Finish, Refrain, StartConnect, Goto
<1>3. connect = "none" /\ ~IsConnected
  BY <1>1, <1>2 DEF TaskInPhase, HealthTellsConnection
<1>4. health' \in [state : State, live : BOOLEAN] /\ ~IsConnected'
  <2>1. CASE Finish
    BY <1>1, <1>3, <2>1 DEF Finish, AppTypeOK, IsConnected
  <2>2. CASE Refrain
    BY <1>3, <2>2, BlockKeeps DEF Refrain
  <2>3. CASE StartConnect
    BY <2>3, OthersDisconnect DEF StartConnect
  <2> QED
    BY <2>1, <2>2, <2>3
<1>5. closed' \in BOOLEAN
  BY <1>1 DEF AppTypeOK, Finish, Refrain, StartConnect
<1>6. \/ phase' # "connecting" /\ connect' = "none"
      \/ phase' = "connecting" /\ connect' = "started"
  BY <1>3 DEF Finish, Refrain, StartConnect, Goto
<1>7. AppTypeOK'
  BY <1>1, <1>2, <1>4, <1>5, <1>6 DEF AppTypeOK
<1>8. NoOrphanServer'
  <2>1. Keeping => Keeping'
    BY <1>2, <1>3 DEF Keeping
  <2> QED
    BY <1>1, <1>2, <2>1, StillKept
<1> QED
  BY <1>2, <1>4, <1>6, <1>7, <1>8
     DEF DriverIInv, TaskInPhase, AttemptHasProcess, HealthTellsConnection

\* A client in hand is activated, or dropped with its server.
LEMMA ConnectEndsHolds ==
  ASSUME DriverIInv, ConnectEnds
  PROVE  DriverIInv'
<1>1. AppTypeOK /\ TaskInPhase /\ AttemptHasProcess /\ HealthTellsConnection /\ NoOrphanServer
  BY DEF DriverIInv
<1>2. /\ phase = "connecting" /\ phase' \in {"waiting", "activating"}
      /\ connect' = "none"
      /\ UNCHANGED <<uiVars, back, pending, closed, spawned>>
  BY DEF ConnectEnds, Goto
<1>3. ~IsConnected
  BY <1>1, <1>2 DEF HealthTellsConnection
<1>4. /\ health' \in [state : State, live : BOOLEAN] /\ ~IsConnected'
      /\ proc' \in [Process -> {"unborn", "alive", "told", "dead"}]
      /\ NoOrphanServer'
  <2>1. CASE connect = "failed" /\ Disconnect /\ UNCHANGED proc
    <3>1. health' \in [state : State, live : BOOLEAN] /\ ~IsConnected'
      BY <2>1, OthersDisconnect
    <3>2. NoOrphanServer'
      BY <1>1, <1>2, <2>1, StillKept DEF Keeping
    <3> QED
      BY <1>1, <2>1, <3>1, <3>2 DEF AppTypeOK
  <2>2. CASE Block /\ DropProcess
    <3>1. health' \in [state : State, live : BOOLEAN] /\ ~IsConnected'
      BY <1>3, <2>2, BlockKeeps
    <3> QED
      BY <1>1, <2>2, <3>1, DropEndsAll DEF NoOrphanServer
  <2>3. CASE phase' = "activating" /\ UNCHANGED <<health, proc>>
    <3>1. health' \in [state : State, live : BOOLEAN] /\ ~IsConnected'
      BY <1>1, <1>3, <2>3 DEF AppTypeOK, IsConnected
    <3>2. NoOrphanServer'
      BY <1>1, <1>2, <2>3, StillKept DEF Keeping
    <3> QED
      BY <1>1, <2>3, <3>1, <3>2 DEF AppTypeOK
  <2> QED
    BY <2>1, <2>2, <2>3 DEF ConnectEnds, Goto
<1>5. AppTypeOK'
  BY <1>1, <1>2, <1>4 DEF AppTypeOK
<1> QED
  BY <1>2, <1>4, <1>5 DEF DriverIInv, TaskInPhase, AttemptHasProcess, HealthTellsConnection

\* Whoever lets go of the task or the client lets go of the server.
LEMMA LettingGoHolds ==
  ASSUME DriverIInv, Cancelled \/ LoseConnection \/ CloseConnection
  PROVE  DriverIInv'
<1>1. AppTypeOK /\ TaskInPhase /\ AttemptHasProcess /\ HealthTellsConnection /\ NoOrphanServer
  BY DEF DriverIInv
<1>2. /\ phase \in {"cancelling", "driving", "closing"} /\ phase' \in {"top", "waiting"}
      /\ UNCHANGED <<uiVars, back, pending, closed, spawned>>
  BY DEF Cancelled, LoseConnection, CloseConnection, Goto, AfterConnect
<1>3. connect' = "none"
  BY <1>1 DEF TaskInPhase, Cancelled, LoseConnection, CloseConnection
<1>4. health' \in [state : State, live : BOOLEAN] /\ ~IsConnected'
  <2>1. CASE LoseConnection
    BY <2>1, OthersDisconnect DEF LoseConnection
  <2>2. CASE Cancelled \/ CloseConnection
    BY <1>1, <2>2 DEF Cancelled, CloseConnection, AppTypeOK, HealthTellsConnection, IsConnected
  <2> QED
    BY <2>1, <2>2
<1>5. /\ proc' \in [Process -> {"unborn", "alive", "told", "dead"}]
      /\ NoOrphanServer'
  <2>1. CASE DropProcess
    BY <1>1, <2>1, DropEndsAll DEF NoOrphanServer
  <2>2. CASE phase = "cancelling" /\ connect \notin {"trying", "connected"} /\ UNCHANGED proc
    <3>1. UNCHANGED procVars /\ ~Keeping
      BY <1>2, <2>2 DEF Keeping
    <3> QED
      BY <1>1, <3>1, StillKept DEF AppTypeOK
  <2> QED
    BY <2>1, <2>2 DEF Cancelled, LoseConnection, CloseConnection
<1>6. AppTypeOK'
  BY <1>1, <1>2, <1>3, <1>4, <1>5 DEF AppTypeOK
<1> QED
  BY <1>2, <1>3, <1>4, <1>5, <1>6
     DEF DriverIInv, TaskInPhase, AttemptHasProcess, HealthTellsConnection

Phase == {"top", "connecting", "cancelling", "waiting", "activating", "draining",
          "reloading", "driving", "closing", "finished"}

\* What a step of the driver that leaves the task and the servers alone has to show.
LEMMA DriverKeeps ==
  ASSUME DriverIInv, UNCHANGED <<granted, lastSeen, closed, connect, procVars>>,
         ctrl' \in Seq({"granted", "missing", "reload", "inject", "shutdown"}),
         pending' \in Seq({"reload", "inject"}),
         back' \in {"draining", "driving"},
         phase' \in Phase,
         health' \in [state : State, live : BOOLEAN],
         phase' \in {"connecting", "cancelling"} <=> phase \in {"connecting", "cancelling"},
         IsConnected' <=> phase' \in {"draining", "reloading", "driving"},
         Keeping => Keeping'
  PROVE  DriverIInv'
<1>1. AppTypeOK /\ TaskInPhase /\ AttemptHasProcess /\ NoOrphanServer
  BY DEF DriverIInv
<1>2. AppTypeOK'
  BY <1>1 DEF AppTypeOK, Phase
<1>3. NoOrphanServer'
  BY <1>1, StillKept
<1> QED
  BY <1>1, <1>2, <1>3 DEF DriverIInv, TaskInPhase, AttemptHasProcess, HealthTellsConnection, Phase

\* Controls taken while a task connects, or while the driver waits to.
LEMMA UnconnectedControls ==
  ASSUME DriverIInv, ConnectingControl \/ WaitingControl
  PROVE  DriverIInv'
<1>1. AppTypeOK /\ HealthTellsConnection
  BY DEF DriverIInv
<1>2. /\ phase \in {"connecting", "waiting"}
      /\ UNCHANGED <<granted, lastSeen, back, closed, connect, procVars>>
      /\ back' \in {"draining", "driving"}
  BY <1>1 DEF AppTypeOK, ConnectingControl, WaitingControl, UiKeeps
<1>3. ctrl' \in Seq({"granted", "missing", "reload", "inject", "shutdown"})
  BY <1>1, Taken DEF ConnectingControl, WaitingControl
<1>4. ~IsConnected
  BY <1>1, <1>2 DEF HealthTellsConnection
<1>5. health' \in [state : State, live : BOOLEAN] /\ ~IsConnected'
  <2>1. ObserveMissing \/ ObserveGranted \/ Queue \/ BeginShutdown
    BY DEF ConnectingControl, WaitingControl
  <2> QED
    BY <1>1, <1>4, <2>1, ReportsKeep, OthersDisconnect, ShutdownDisconnects
<1>6. pending' \in Seq({"reload", "inject"})
  <2> DEFINE Kept == {"reload", "inject"}
  <2>1. pending \in Seq(Kept)
    BY <1>1 DEF AppTypeOK
  <2>2. pending' = pending \/ \E c \in Kept : pending' = Append(pending, c)
    BY DEF ConnectingControl, WaitingControl
  <2> HIDE DEF Kept
  <2>3. pending' \in Seq(Kept)
    BY <2>1, <2>2
  <2> QED
    BY <2>3 DEF Kept
<1>7. \/ phase = "connecting" /\ phase' \in {"connecting", "cancelling"}
      \/ phase = "waiting" /\ phase' \in {"waiting", "top"}
  BY DEF ConnectingControl, WaitingControl, Goto
<1>8. /\ phase' \in Phase
      /\ phase' \in {"connecting", "cancelling"} <=> phase \in {"connecting", "cancelling"}
      /\ IsConnected' <=> phase' \in {"draining", "reloading", "driving"}
  BY <1>5, <1>7 DEF Phase
<1>9. Keeping => Keeping'
  BY <1>2, <1>7 DEF Keeping
<1> QED
  BY <1>2, <1>3, <1>5, <1>6, <1>8, <1>9, DriverKeeps

\* What is asked of the server keeps the connection, or reloads on it.
LEMMA ServerControlKeeps ==
  ASSUME AppTypeOK, IsConnected, phase \in {"draining", "driving"},
         NEW c \in {"reload", "inject"}, ServerControl(c)
  PROVE  /\ health' \in [state : State, live : BOOLEAN] /\ IsConnected'
         /\ phase' \in {phase, "reloading"}
         /\ back' \in {"draining", "driving"}
<1>1. CASE UNCHANGED <<health, phase, back>>
  BY <1>1 DEF AppTypeOK, IsConnected
<1>2. CASE Block /\ UNCHANGED <<phase, back>>
  BY <1>2, BlockKeeps DEF AppTypeOK
<1>3. CASE Reloading /\ back' = phase /\ phase' = "reloading"
  BY <1>3, RunningConnects
<1> QED
  BY <1>1, <1>2, <1>3 DEF ServerControl, Goto

\* Controls taken, and kept controls carried out, on a connection.
LEMMA ConnectedControls ==
  ASSUME DriverIInv, DrivingControl \/ Drain
  PROVE  DriverIInv'
<1>1. AppTypeOK /\ HealthTellsConnection
  BY DEF DriverIInv
<1>2. /\ phase \in {"draining", "driving"}
      /\ UNCHANGED <<granted, lastSeen, closed, connect, procVars>>
  BY DEF DrivingControl, Drain, UiKeeps
<1>3. IsConnected
  BY <1>1, <1>2 DEF HealthTellsConnection
<1>4. ctrl' \in Seq({"granted", "missing", "reload", "inject", "shutdown"})
  BY <1>1, Taken DEF DrivingControl, Drain, AppTypeOK
<1>5. pending' \in Seq({"reload", "inject"})
  <2> DEFINE Kept == {"reload", "inject"}
  <2>1. pending \in Seq(Kept)
    BY <1>1 DEF AppTypeOK
  <2>2. pending' = pending \/ (pending # <<>> /\ pending' = Tail(pending))
    BY DEF DrivingControl, Drain
  <2> HIDE DEF Kept
  <2>3. pending' \in Seq(Kept)
    BY <2>1, <2>2
  <2> QED
    BY <2>3 DEF Kept
<1>6. /\ health' \in [state : State, live : BOOLEAN]
      /\ back' \in {"draining", "driving"}
      /\ \/ IsConnected' /\ phase' \in {phase, "reloading"}
         \/ ~IsConnected' /\ phase' = "closing"
  <2>1. CASE (ObserveMissing \/ ObserveGranted) /\ UNCHANGED <<phase, back>>
    BY <1>1, <1>3, <2>1, ReportsKeep DEF AppTypeOK
  <2>2. CASE \E c \in {"reload", "inject"} : ServerControl(c)
    BY <1>1, <1>2, <1>3, <2>2, ServerControlKeeps
  <2>3. CASE BeginShutdown /\ phase' = "closing" /\ UNCHANGED back
    BY <1>1, <2>3, ShutdownDisconnects DEF AppTypeOK
  <2>4. Drain => \E c \in {"reload", "inject"} : ServerControl(c)
    <3> SUFFICES ASSUME Drain PROVE Head(pending) \in {"reload", "inject"}
      BY DEF Drain
    <3> DEFINE Kept == {"reload", "inject"}
    <3>1. pending \in Seq(Kept) /\ pending # <<>>
      BY <1>1 DEF AppTypeOK, Drain
    <3> HIDE DEF Kept
    <3>2. Head(pending) \in Kept
      BY <3>1
    <3> QED
      BY <3>2 DEF Kept
  <2> QED
    BY <2>1, <2>2, <2>3, <2>4 DEF DrivingControl, Goto
<1>7. /\ phase' \in Phase
      /\ phase' \in {"connecting", "cancelling"} <=> phase \in {"connecting", "cancelling"}
      /\ IsConnected' <=> phase' \in {"draining", "reloading", "driving"}
  BY <1>2, <1>6 DEF Phase
<1>8. Keeping => Keeping'
  BY <1>2, <1>6 DEF Keeping
<1> QED
  BY <1>2, <1>4, <1>5, <1>6, <1>7, <1>8, DriverKeeps

\* A configuration that was tried, taken or not, is shown as connected.
LEMMA AnswersHold ==
  ASSUME DriverIInv, ActivateEnds \/ ReloadEnds \/ Drained
  PROVE  DriverIInv'
<1>1. AppTypeOK /\ HealthTellsConnection
  BY DEF DriverIInv
<1>2. /\ phase \in {"activating", "reloading", "draining"}
      /\ phase' \in {"draining", "driving"}
      /\ UNCHANGED <<uiVars, back, pending, closed, connect, procVars>>
  BY <1>1 DEF ActivateEnds, ReloadEnds, Drained, Goto, AppTypeOK
<1>3. health' \in [state : State, live : BOOLEAN] /\ IsConnected'
  <2>1. CASE Activated
    BY <2>1, RunningConnects DEF Activated
  <2>2. CASE phase = "draining" /\ UNCHANGED health
    BY <1>1, <2>2 DEF AppTypeOK, HealthTellsConnection, IsConnected
  <2> QED
    BY <2>1, <2>2 DEF ActivateEnds, ReloadEnds, Drained
<1>4. /\ ctrl' \in Seq({"granted", "missing", "reload", "inject", "shutdown"})
      /\ pending' \in Seq({"reload", "inject"})
      /\ back' \in {"draining", "driving"}
  BY <1>1, <1>2 DEF AppTypeOK
<1>5. /\ phase' \in Phase
      /\ phase' \in {"connecting", "cancelling"} <=> phase \in {"connecting", "cancelling"}
      /\ IsConnected' <=> phase' \in {"draining", "reloading", "driving"}
  BY <1>2, <1>3 DEF Phase
<1>6. Keeping => Keeping'
  BY <1>2 DEF Keeping
<1> QED
  BY <1>2, <1>3, <1>4, <1>5, <1>6, DriverKeeps

\* The invariant holds of every behaviour, whatever the servers, the user and macOS do.
THEOREM DriverInvariant == AppSpec => []DriverIInv
<1>1. AppInit => DriverIInv
  BY InitHolds
<1>2. DriverIInv /\ [AppNext]_appVars => DriverIInv'
  BY OutsideHolds, ExitHolds, ConnectHolds, TopHolds, ConnectEndsHolds, LettingGoHolds,
     UnconnectedControls, ConnectedControls, AnswersHold DEF AppNext, DriverStep
<1> QED
  BY <1>1, <1>2, PTL DEF AppSpec

\* Every variable keeps its type; no server number goes past those spawned.
THEOREM DriverTyped == AppSpec => []AppTypeOK
<1>1. DriverIInv => AppTypeOK
  BY DEF DriverIInv
<1> QED
  BY <1>1, DriverInvariant, PTL

\* What the app shows as connected is what has a connection with a configuration tried
\* on it, through any order of permissions, controls, results and losses (RuntimeHealth).
THEOREM HealthCorrect == AppSpec => []HealthTellsConnection
<1>1. DriverIInv => HealthTellsConnection
  BY DEF DriverIInv
<1> QED
  BY <1>1, DriverInvariant, PTL

\* No server runs that nothing holds and nobody told to exit (ServerProcess::drop,
\* ConnectTask::cancel).
THEOREM ServersHeld == AppSpec => []NoOrphanServer
<1>1. DriverIInv => NoOrphanServer
  BY DEF DriverIInv
<1> QED
  BY <1>1, DriverInvariant, PTL

HIDE DEF uiVars, procVars, driverVars, State

----------------------------------------------------------------------------
(***************************************************************************)
(* Proofs about UiDelivery, for any threads, classes of snapshots,         *)
(* capacity and bounds.                                                    *)
(*                                                                         *)
(* The order in which events are delivered rests on where they wait: of    *)
(* what is on its way to the UI (delivered, and then the lane), nothing is *)
(* younger than its like that is retained, or than what a sender that      *)
(* waits for room has in its hand; and what a sender makes room for is the *)
(* oldest that is retained, also after it had to give up the lock.         *)
(***************************************************************************)

----------------------------------------------------------------------------
(* Types. *)

\* The types of the mailbox, but for the bound on the numbers.
MailTyped ==
  /\ sent \in Seq(Event)
  /\ ordered \in Seq(Nat) /\ Len(ordered) <= Capacity
  /\ delivered \in Seq(Nat)
  /\ slot \in [Class -> Nat]
  /\ coalesced \in Nat
  /\ gone \subseteq Nat

SendersTyped ==
  /\ pc \in [Sender -> Pc]
  /\ kind \in [Sender -> Kind]
  /\ entry \in [Sender -> Nat]
  /\ chosen \in [Sender -> Nat]
  /\ todo \in [Sender -> Seq(Step)]
  /\ started \in 0..MaxEvents

UiTyped ==
  /\ open \in BOOLEAN
  /\ frames \in 0..2
  /\ ui \in {"waiting", "draining", "closing", "gone"}

\* The mutex is held by the one sender that is inside it.
LockHeld ==
  /\ lock \in Sender \cup {Free}
  /\ \A p \in Sender : pc[p] \in Holding <=> lock = p

Typed == MailTyped /\ SendersTyped /\ UiTyped /\ LockHeld

\* The oldest retained snapshot is retained, and the oldest.
LEMMA OldestIs ==
  ASSUME MailTyped, Snapshots # {}
  PROVE  Oldest \in Snapshots /\ Oldest \in Nat /\ \A s \in Snapshots : Oldest <= s
<1>1. Snapshots \subseteq Nat
  BY DEF MailTyped, Snapshots
<1>2. PICK n \in Snapshots : \A s \in Snapshots : ~(<<s, n>> \in OpToRel(<, Nat))
  BY <1>1, NatLessThanWellFounded, WFMin
<1>3. \A s \in Snapshots : n <= s
  <2>1. \A s \in Snapshots : ~(s < n)
    BY <1>1, <1>2 DEF OpToRel
  <2> QED
    BY <1>1, <2>1
<1> QED
  BY <1>1, <1>3 DEF Oldest

LEMMA SlotTaken == ASSUME MailTyped, NEW n PROVE TakeSnapshot(n) \in [Class -> Nat]
  BY DEF MailTyped, TakeSnapshot, None

\* A sender goes on, and holds the lock afterwards or not.
LEMMA Goes ==
  ASSUME SendersTyped, LockHeld, NEW p \in Sender, NEW to \in Pc, Go(p, to),
         \/ to \in Holding /\ lock' = p /\ (lock = p \/ lock = Free)
         \/ to \notin Holding /\ pc[p] \in Holding /\ lock' = Free
         \/ to \notin Holding /\ pc[p] \notin Holding /\ lock' = lock
  PROVE  pc' \in [Sender -> Pc] /\ LockHeld'
<1>1. pc' \in [Sender -> Pc] /\ pc'[p] = to /\ \A q \in Sender \ {p} : pc'[q] = pc[q]
  BY DEF SendersTyped, Go
<1>2. Free \notin Sender
  BY DeliveryAssumption
<1> QED
  BY <1>1, <1>2 DEF LockHeld

LEMMA LockRests == ASSUME LockHeld, UNCHANGED <<lock, pc>> PROVE LockHeld'
  BY DEF LockHeld

LEMMA MailRests ==
  ASSUME MailTyped, UNCHANGED <<mailVars, delivered, gone>> PROVE MailTyped'
  BY DEF MailTyped, mailVars

\* What a sender may do is a sequence of steps, and so is the rest of it.
LEMMA StepsTyped ==
  ASSUME SendersTyped, NEW p \in Sender, NEW steps \in Steps(p)
  PROVE  [todo EXCEPT ![p] = Tail(steps)] \in [Sender -> Seq(Step)]
<1>1. todo \in [Sender -> Seq(Step)] /\ Inputs[p] \subseteq Seq(Step) \ {<<>>}
  BY DeliveryAssumption DEF SendersTyped
<1>2. steps \in Seq(Step) /\ steps # <<>>
  BY <1>1 DEF Steps
<1>3. Tail(steps) \in Seq(Step)
  BY <1>2
<1> QED
  BY <1>1, <1>3

LEMMA AskTyped == ASSUME Typed, NEW p \in Sender, Ask(p) PROVE Typed'
<1>1. frames' = 2 /\ UNCHANGED <<mailVars, open, lock, sendVars, started, ui, delivered, gone>>
  BY DEF Ask
<1>2. PICK steps \in Steps(p) : todo' = [todo EXCEPT ![p] = Tail(steps)]
  BY DEF Ask
<1>3. todo' \in [Sender -> Seq(Step)]
  BY <1>2, StepsTyped DEF Typed
<1>4. MailTyped' /\ LockHeld'
  BY <1>1, MailRests, LockRests DEF Typed, sendVars
<1> QED
  BY <1>1, <1>3, <1>4 DEF Typed, SendersTyped, UiTyped, sendVars

LEMMA EmitTyped == ASSUME Typed, NEW p \in Sender, Emit(p) PROVE Typed'
<1>1. /\ pc[p] = "idle" /\ Go(p, "check") /\ started < MaxEvents /\ started' = started + 1
      /\ UNCHANGED <<mailVars, open, lock, entry, chosen, ui, delivered, gone>>
  BY DEF Emit, At
<1>2. pc' \in [Sender -> Pc] /\ LockHeld'
  BY <1>1, Goes DEF Typed, Pc, Holding
<1>3. kind' \in [Sender -> Kind]
  <2>1. PICK k \in Sends[p] : kind' = [kind EXCEPT ![p] = k]
    BY DEF Emit
  <2>2. k \in Kind
    BY <2>1, DeliveryAssumption
  <2> QED
    BY <2>1, <2>2 DEF Typed, SendersTyped
<1>4. todo' \in [Sender -> Seq(Step)] /\ frames' \in 0..2
  <2>1. PICK steps \in Steps(p) : /\ todo' = [todo EXCEPT ![p] = Tail(steps)]
                                  /\ frames' \in {2, frames}
    BY DEF Emit
  <2>2. todo' \in [Sender -> Seq(Step)]
    BY <2>1, StepsTyped DEF Typed
  <2> QED
    BY <2>1, <2>2 DEF Typed, UiTyped
<1>5. started' \in 0..MaxEvents
  BY <1>1, DeliveryAssumption DEF Typed, SendersTyped
<1>6. MailTyped'
  BY <1>1, MailRests DEF Typed
<1> QED
  BY <1>1, <1>2, <1>3, <1>4, <1>5, <1>6 DEF Typed, SendersTyped, UiTyped

\* A step of send, once the mailbox and the lock are typed.
LEMMA SendTyped ==
  ASSUME Typed, MailTyped', LockHeld', pc' \in [Sender -> Pc],
         entry' \in [Sender -> Nat], chosen' \in [Sender -> Nat],
         UNCHANGED <<kind, emitVars, open, frames, ui>>
  PROVE  Typed'
  BY DEF Typed, SendersTyped, UiTyped, emitVars

LEMMA CheckOpenTyped == ASSUME Typed, NEW p \in Sender, CheckOpen(p) PROVE Typed'
<1>1. /\ pc[p] = "check" /\ (Go(p, "lock") \/ Go(p, "idle"))
      /\ UNCHANGED <<mailVars, open, lock, kind, entry, chosen, emitVars, frames, ui, delivered, gone>>
  BY DEF CheckOpen, At
<1>2. pc' \in [Sender -> Pc] /\ LockHeld'
  BY <1>1, Goes DEF Typed, Pc, Holding
<1>3. MailTyped'
  BY <1>1, MailRests DEF Typed
<1> QED
  BY <1>1, <1>2, <1>3, SendTyped DEF Typed, SendersTyped

LEMMA AcceptTyped == ASSUME Typed, NEW p \in Sender, Accept(p) PROVE Typed'
<1> DEFINE n == Len(sent) + 1
<1>1. /\ pc[p] = "lock" /\ lock = Free /\ sent' = Append(sent, [from |-> p, kind |-> kind[p]])
      /\ Replace(p, n) \/ DropLog(p, n) \/ Order(p, n)
      /\ UNCHANGED <<open, kind, emitVars, frames, ui, delivered>>
  BY DEF Accept, At
<1>2. sent' \in Seq(Event) /\ n \in Nat
  BY <1>1 DEF Typed, MailTyped, SendersTyped, Event
<1> HIDE DEF n
<1>3. CASE Replace(p, n)
  <2>1. /\ Go(p, "idle") /\ slot' = [slot EXCEPT ![kind[p]] = n] /\ coalesced' \in {coalesced, coalesced + 1}
        /\ UNCHANGED <<ordered, lock, entry, chosen, gone>>
    BY <1>3 DEF Replace
  <2>2. pc' \in [Sender -> Pc] /\ LockHeld'
    BY <1>1, <2>1, Goes DEF Typed, Pc, Holding
  <2>3. coalesced' \in Nat
    <3>1. coalesced \in Nat
      BY DEF Typed, MailTyped
    <3> QED
      BY <2>1, <3>1
  <2>4. slot' \in [Class -> Nat]
    <3>1. slot \in [Class -> Nat]
      BY DEF Typed, MailTyped
    <3> QED
      BY <1>2, <2>1, <3>1
  <2>5. MailTyped'
    BY <1>1, <1>2, <2>1, <2>3, <2>4 DEF Typed, MailTyped
  <2> QED
    BY <1>1, <2>1, <2>2, <2>5, SendTyped DEF Typed, SendersTyped
<1>4. CASE DropLog(p, n)
  <2>1. /\ Go(p, "idle") /\ gone' = gone \cup {n}
        /\ UNCHANGED <<ordered, slot, coalesced, lock, entry, chosen>>
    BY <1>4 DEF DropLog
  <2>2. pc' \in [Sender -> Pc] /\ LockHeld'
    BY <1>1, <2>1, Goes DEF Typed, Pc, Holding
  <2>3. MailTyped'
    BY <1>1, <1>2, <2>1 DEF Typed, MailTyped
  <2> QED
    BY <1>1, <2>1, <2>2, <2>3, SendTyped DEF Typed, SendersTyped
<1>5. CASE Order(p, n)
  <2>1. /\ Go(p, "choose") /\ lock' = p /\ entry' = [entry EXCEPT ![p] = n]
        /\ UNCHANGED <<ordered, slot, coalesced, chosen, gone>>
    BY <1>5 DEF Order
  <2>2. pc' \in [Sender -> Pc] /\ LockHeld'
    BY <1>1, <2>1, Goes DEF Typed, Pc, Holding
  <2>3. MailTyped'
    BY <1>1, <1>2, <2>1 DEF Typed, MailTyped
  <2>4. entry' \in [Sender -> Nat] /\ chosen' \in [Sender -> Nat]
    BY <1>2, <2>1 DEF Typed, SendersTyped
  <2> QED
    BY <1>1, <2>2, <2>3, <2>4, SendTyped
<1> QED
  BY <1>1, <1>3, <1>4, <1>5

LEMMA ChooseTyped == ASSUME Typed, NEW p \in Sender, Choose(p) PROVE Typed'
<1> DEFINE c == IF Snapshots = {} THEN entry[p] ELSE Oldest
<1>1. /\ pc[p] = "choose" /\ Go(p, "room") /\ chosen' = [chosen EXCEPT ![p] = c]
      /\ UNCHANGED <<mailVars, open, lock, kind, entry, emitVars, frames, ui, delivered, gone>>
  BY DEF Choose, At
<1>2. c \in Nat
  BY OldestIs DEF Typed, SendersTyped
<1> HIDE DEF c
<1>3. lock = p /\ "room" \in Holding
  BY <1>1 DEF Typed, LockHeld, Holding
<1>4. pc' \in [Sender -> Pc] /\ LockHeld'
  BY <1>1, <1>3, Goes DEF Typed, Pc
<1>5. chosen' \in [Sender -> Nat] /\ entry' \in [Sender -> Nat]
  BY <1>1, <1>2 DEF Typed, SendersTyped
<1>6. MailTyped'
  BY <1>1, MailRests DEF Typed
<1> QED
  BY <1>1, <1>4, <1>5, <1>6, SendTyped

\* There is room for one more.
LEMMA LaneGrows ==
  ASSUME MailTyped, Len(ordered) < Capacity, NEW n \in Nat, ordered' = Append(ordered, n)
  PROVE  ordered' \in Seq(Nat) /\ Len(ordered') <= Capacity
  BY DeliveryAssumption DEF MailTyped

LEMMA MoveSnapshotTyped == ASSUME Typed, NEW p \in Sender, MoveSnapshot(p) PROVE Typed'
<1>1. /\ pc[p] = "room" /\ Len(ordered) < Capacity /\ ordered' = Append(ordered, chosen[p])
      /\ slot' = TakeSnapshot(chosen[p]) /\ Go(p, "choose")
      /\ UNCHANGED <<sent, coalesced, open, lock, kind, entry, chosen, emitVars, frames, ui,
                     delivered, gone>>
  BY DEF MoveSnapshot, HasRoom, At
<1>2. lock = p /\ "choose" \in Holding
  BY <1>1 DEF Typed, LockHeld, Holding
<1>3. pc' \in [Sender -> Pc] /\ LockHeld'
  BY <1>1, <1>2, Goes DEF Typed, Pc
<1>4. ordered' \in Seq(Nat) /\ Len(ordered') <= Capacity /\ slot' \in [Class -> Nat]
  BY <1>1, LaneGrows, SlotTaken DEF Typed, SendersTyped
<1>5. MailTyped'
  BY <1>1, <1>4 DEF Typed, MailTyped
<1> QED
  BY <1>1, <1>3, <1>5, SendTyped DEF Typed, SendersTyped

\* send returns, or unwinds.
LEMMA LeaveTyped ==
  ASSUME Typed, NEW p \in Sender, pc[p] \in Holding, NEW to \in Pc \ Holding, Leave(p, to)
  PROVE  /\ pc' \in [Sender -> Pc] /\ LockHeld'
         /\ entry' \in [Sender -> Nat] /\ chosen' \in [Sender -> Nat]
<1>1. pc' \in [Sender -> Pc] /\ LockHeld'
  BY Goes DEF Typed, Leave
<1> QED
  BY <1>1 DEF Typed, SendersTyped, Leave, None

LEMMA LoseSnapshotTyped == ASSUME Typed, NEW p \in Sender, LoseSnapshot(p) PROVE Typed'
<1>1. /\ pc[p] \in Holding /\ Leave(p, "dead") /\ gone' = gone \cup {entry[p]}
      /\ UNCHANGED <<mailVars, open, kind, emitVars, frames, ui, delivered>>
  BY DEF LoseSnapshot, HasRoom, At, Holding
<1>2. MailTyped'
  BY <1>1 DEF Typed, MailTyped, SendersTyped, mailVars
<1> QED
  BY <1>1, <1>2, LeaveTyped, SendTyped DEF Pc, Holding

LEMMA PushTyped == ASSUME Typed, NEW p \in Sender, Push(p) PROVE Typed'
<1>1. /\ pc[p] \in Holding /\ Len(ordered) < Capacity /\ ordered' = Append(ordered, entry[p])
      /\ Leave(p, "idle")
      /\ UNCHANGED <<sent, slot, coalesced, open, kind, emitVars, frames, ui, delivered, gone>>
  BY DEF Push, HasRoom, At, Holding
<1>2. ordered' \in Seq(Nat) /\ Len(ordered') <= Capacity
  BY <1>1, LaneGrows DEF Typed, SendersTyped
<1>3. MailTyped'
  BY <1>1, <1>2 DEF Typed, MailTyped
<1> QED
  BY <1>1, <1>3, LeaveTyped, SendTyped DEF Pc, Holding

LEMMA FullTyped == ASSUME Typed, NEW p \in Sender, Full(p) PROVE Typed'
<1>1. /\ pc[p] = "room"
      /\ UNCHANGED <<mailVars, open, kind, emitVars, frames, ui, delivered>>
      /\ \/ Go(p, "park") /\ UNCHANGED <<lock, entry, chosen, gone>>
         \/ gone' = gone \cup {entry[p]} /\ Leave(p, "idle")
  BY DEF Full, At
<1>2. lock = p /\ pc[p] \in Holding /\ "park" \in Holding
  BY <1>1 DEF Typed, LockHeld, Holding
<1>3. CASE Go(p, "park") /\ UNCHANGED <<lock, entry, chosen, gone>>
  <2>1. pc' \in [Sender -> Pc] /\ LockHeld'
    BY <1>2, <1>3, Goes DEF Typed, Pc
  <2>2. MailTyped'
    BY <1>1, <1>3, MailRests DEF Typed
  <2> QED
    BY <1>1, <1>3, <2>1, <2>2, SendTyped DEF Typed, SendersTyped
<1>4. CASE gone' = gone \cup {entry[p]} /\ Leave(p, "idle")
  <2>1. MailTyped'
    BY <1>1, <1>4 DEF Typed, MailTyped, SendersTyped, mailVars
  <2> QED
    BY <1>1, <1>2, <1>4, <2>1, LeaveTyped, SendTyped DEF Pc, Holding
<1> QED
  BY <1>1, <1>3, <1>4

LEMMA WaitTyped == ASSUME Typed, NEW p \in Sender, Park(p) \/ Resume(p) PROVE Typed'
<1>1. UNCHANGED <<mailVars, open, kind, entry, chosen, emitVars, frames, ui, delivered, gone>>
  BY DEF Park, Resume
<1>2. pc' \in [Sender -> Pc] /\ LockHeld'
  <2>1. CASE Park(p)
    BY <2>1, Goes DEF Typed, Pc, Park, At, Holding
  <2>2. CASE Resume(p)
    BY <2>2, Goes DEF Typed, Pc, Resume, At, Holding
  <2> QED
    BY <2>1, <2>2
<1>3. MailTyped'
  BY <1>1, MailRests DEF Typed
<1> QED
  BY <1>1, <1>2, <1>3, SendTyped DEF Typed, SendersTyped

LEMMA SenderTyped ==
  ASSUME Typed, NEW p \in Sender, Ask(p) \/ Emit(p) \/ Send(p) PROVE Typed'
  BY AskTyped, EmitTyped, CheckOpenTyped, AcceptTyped, ChooseTyped, MoveSnapshotTyped, LoseSnapshotTyped,
     PushTyped, FullTyped, WaitTyped
  DEF Send

LEMMA NotifyTyped ==
  ASSUME Typed, NotifyOne \/ NotifyNobody, UNCHANGED lock PROVE pc' \in [Sender -> Pc] /\ LockHeld'
<1>1. CASE UNCHANGED pc
  BY <1>1, LockRests DEF Typed, SendersTyped
<1>2. ASSUME NEW p \in Parked, Go(p, "woken") PROVE pc' \in [Sender -> Pc] /\ LockHeld'
  <2>1. p \in Sender /\ pc[p] = "parked"
    BY DEF Parked, At
  <2> QED
    BY <1>2, <2>1, Goes DEF Typed, Pc, Holding
<1> QED
  BY <1>1, <1>2 DEF NotifyOne, NotifyNobody

LEMMA UiStepTyped == ASSUME Typed, Ui \/ Close \/ UNCHANGED vars PROVE Typed'
<1>1. /\ MailTyped /\ SendersTyped /\ LockHeld /\ UiTyped
      /\ UNCHANGED <<sent, coalesced, kind, entry, chosen, todo, started, lock, gone>>
  BY DEF Typed, Ui, Frame, ReceiveSnapshot, ReceiveOrdered, EndFrame, NotifyAll, Close, vars,
         mailVars, sendVars, emitVars
<1>2. UiTyped'
  <2>1. frames' \in {frames, 2} \/ (frames > 0 /\ frames' = frames - 1)
    BY DEF Ui, Frame, ReceiveSnapshot, ReceiveOrdered, EndFrame, NotifyAll, Close, vars, Handle
  <2>2. ui' \in {ui, "draining", "waiting", "closing", "gone"} /\ open' \in {open, FALSE}
    BY DEF Ui, Frame, ReceiveSnapshot, ReceiveOrdered, EndFrame, NotifyAll, Close, vars
  <2>3. frames' \in 0..2
    BY <1>1, <2>1 DEF UiTyped
  <2> QED
    BY <1>1, <2>2, <2>3 DEF UiTyped
<1>3. pc' \in [Sender -> Pc] /\ LockHeld'
  <2>1. CASE UNCHANGED pc
    BY <1>1, <2>1, LockRests DEF SendersTyped
  <2>2. CASE ReceiveOrdered
    BY <1>1, <2>2, NotifyTyped DEF ReceiveOrdered
  <2>3. CASE NotifyAll
    <3>1. /\ pc' = [p \in Sender |-> IF p \in Parked THEN "woken" ELSE pc[p]]
          /\ "woken" \in Pc /\ "woken" \notin Holding /\ "parked" \notin Holding
      BY <2>3 DEF NotifyAll, Pc, Holding
    <3> QED
      BY <1>1, <3>1 DEF SendersTyped, LockHeld, Parked, At
  <2> QED
    BY <2>1, <2>2, <2>3
    DEF Ui, Frame, ReceiveSnapshot, EndFrame, Close, vars, sendVars
<1>4. MailTyped'
  <2>1. CASE UNCHANGED <<mailVars, delivered, gone>>
    BY <1>1, <2>1, MailRests
  <2>2. CASE ReceiveSnapshot
    <3>1. Oldest \in Nat
      BY <1>1, <2>2, OldestIs DEF ReceiveSnapshot, SnapshotFirst
    <3>2. delivered' = Append(delivered, Oldest) /\ slot' = TakeSnapshot(Oldest) /\ ordered' = ordered
      BY <2>2 DEF ReceiveSnapshot, Handle
    <3>3. slot' \in [Class -> Nat] /\ delivered' \in Seq(Nat)
      BY <1>1, <3>1, <3>2, SlotTaken DEF MailTyped
    <3> QED
      BY <1>1, <3>2, <3>3 DEF MailTyped
  <2>3. CASE ReceiveOrdered
    <3>1. ordered # <<>> /\ ordered' = Tail(ordered) /\ delivered' = Append(delivered, Head(ordered)) /\ slot' = slot
      BY <2>3 DEF ReceiveOrdered, Handle
    <3>2. ordered' \in Seq(Nat) /\ Len(ordered') <= Capacity /\ delivered' \in Seq(Nat)
      BY <1>1, <3>1, DeliveryAssumption DEF MailTyped
    <3> QED
      BY <1>1, <3>1, <3>2 DEF MailTyped
  <2> QED
    BY <2>1, <2>2, <2>3 DEF Ui, Frame, EndFrame, NotifyAll, Close, vars
<1> QED
  BY <1>1, <1>2, <1>3, <1>4 DEF Typed, SendersTyped

\* Every variable of the mailbox keeps its type, the lane never exceeds its
\* capacity, and the mutex is held by the one sender that is inside it, also while
\* others wait on the condition variable.
THEOREM TypedAlways == Spec => []Typed
<1>1. Init => Typed
  <2> SUFFICES ASSUME Init PROVE Typed
    OBVIOUS
  <2>1. MailTyped
    BY DeliveryAssumption DEF Init, MailTyped, None
  <2>2. SendersTyped
    BY DeliveryAssumption DEF Init, SendersTyped, Pc, Kind, None
  <2>3. LockHeld
    BY DeliveryAssumption DEF Init, LockHeld, Holding
  <2> QED
    BY <2>1, <2>2, <2>3 DEF Init, Typed, UiTyped
<1>2. Typed /\ [Next]_vars => Typed'
  BY SenderTyped, UiStepTyped DEF Next
<1> QED
  BY <1>1, <1>2, PTL DEF Spec

----------------------------------------------------------------------------
(* The order of the mailbox. *)

Numbers == 1..Len(sent)
Passed == Elements(delivered) \cup Elements(ordered)

\* The order of events of one sender, and of snapshots of one class, matters.
Related(n, m) ==
  \/ sent[n].from = sent[m].from
  \/ sent[n].kind = sent[m].kind /\ sent[n].kind \in Class

\* What is delivered, and after it what waits in the lane.
Path == delivered \o ordered

\* A retained snapshot is in the slot of its class.
SlotsNamed == \A c \in Class : slot[c] # None => slot[c] \in Numbers /\ sent[slot[c]].kind = c

\* A sender inside send has the last number that it was given.
Active == {"choose", "room", "park", "parked", "woken"}
Hand(p) ==
  IF pc[p] \in Active
  THEN /\ entry[p] \in Numbers /\ sent[entry[p]].from = p /\ sent[entry[p]].kind \notin Class
       /\ \A n \in Numbers : sent[n].from = p => n <= entry[p]
       /\ \A n \in Passed : sent[n].from = p => n < entry[p]
  ELSE entry[p] = None

\* Nothing older than what a sender makes room for is retained.
InRoom == {"room", "park", "parked", "woken"}
Choice(p) ==
  pc[p] \in InRoom => chosen[p] \in Numbers /\ \A s \in Snapshots : chosen[p] <= s

GoneUnnamed == \A n \in gone : n \in Numbers /\ sent[n].kind \notin Class

PassedNumbers == \A n \in Passed : n \in Numbers
PathInOrder ==
  \A i, j \in 1..Len(Path) : i < j /\ Related(Path[i], Path[j]) => Path[i] < Path[j]

\* What is retained is younger than its like that was delivered, and than all
\* that waits in the lane.
SlotsYounger ==
  /\ \A n \in Elements(delivered), s \in Snapshots : Related(n, s) => n < s
  /\ \A n \in Elements(ordered), s \in Snapshots : n < s

MailOrder == SlotsNamed /\ GoneUnnamed /\ PassedNumbers /\ PathInOrder /\ SlotsYounger
OrderIInv == Typed /\ MailOrder /\ \A p \in Sender : Hand(p) /\ Choice(p)

\* Sequences.
LEMMA ElementsAppended ==
  ASSUME NEW q \in Seq(Nat), NEW n \in Nat PROVE Elements(Append(q, n)) = Elements(q) \cup {n}
<1>1. /\ Len(q) \in Nat /\ Len(Append(q, n)) = Len(q) + 1 /\ Append(q, n)[Len(q) + 1] = n
      /\ \A i \in 1..Len(q) : Append(q, n)[i] = q[i]
  OBVIOUS
<1>2. 1..Len(q) + 1 = 1..Len(q) \cup {Len(q) + 1}
  BY <1>1
<1> QED
  BY <1>1, <1>2 DEF Elements

LEMMA ElementsTaken ==
  ASSUME NEW q \in Seq(Nat), q # <<>>
  PROVE  Head(q) \in Nat /\ Tail(q) \in Seq(Nat) /\ Elements(q) = Elements(Tail(q)) \cup {Head(q)}
<1>1. /\ Len(q) \in Nat /\ Len(q) > 0 /\ Len(Tail(q)) = Len(q) - 1 /\ Head(q) = q[1]
      /\ Head(q) \in Nat /\ Tail(q) \in Seq(Nat)
      /\ \A i \in 1..Len(q) - 1 : Tail(q)[i] = q[i + 1]
  OBVIOUS
<1>2. ASSUME NEW i \in 1..Len(q) PROVE i = 1 \/ (i - 1 \in 1..Len(q) - 1 /\ (i - 1) + 1 = i)
  BY <1>1
<1>3. \A i \in 1..Len(q) - 1 : i + 1 \in 1..Len(q)
  BY <1>1
<1>4. 1 \in 1..Len(q)
  BY <1>1
<1>5. ASSUME NEW n \in Elements(q) PROVE n \in Elements(Tail(q)) \cup {Head(q)}
  <2>1. PICK i \in 1..Len(q) : n = q[i]
    BY DEF Elements
  <2>2. CASE i = 1
    BY <1>1, <2>1, <2>2
  <2>3. CASE i - 1 \in 1..Len(q) - 1 /\ (i - 1) + 1 = i
    <3>1. Tail(q)[i - 1] = n
      BY <1>1, <2>1, <2>3
    <3> QED
      BY <1>1, <2>3, <3>1 DEF Elements
  <2> QED
    BY <1>2, <2>2, <2>3
<1>6. Elements(Tail(q)) \cup {Head(q)} \subseteq Elements(q)
  BY <1>1, <1>3, <1>4 DEF Elements
<1> QED
  BY <1>1, <1>5, <1>6

LEMMA PathTyped ==
  ASSUME MailTyped
  PROVE  /\ Path \in Seq(Nat) /\ Len(Path) = Len(delivered) + Len(ordered)
         /\ Len(delivered) \in Nat /\ Len(ordered) \in Nat
         /\ \A i \in 1..Len(delivered) : i \in 1..Len(Path) /\ Path[i] = delivered[i]
         /\ \A i \in 1..Len(Path) : Path[i] \in Passed
<1>1. delivered \in Seq(Nat) /\ ordered \in Seq(Nat) /\ Len(delivered) \in Nat /\ Len(ordered) \in Nat
  BY DEF MailTyped
<1>2. /\ Path \in Seq(Nat) /\ Len(Path) = Len(delivered) + Len(ordered)
      /\ \A i \in 1..Len(delivered) + Len(ordered) :
           Path[i] = IF i <= Len(delivered) THEN delivered[i] ELSE ordered[i - Len(delivered)]
  BY <1>1, ConcatProperties DEF Path
<1>3. ASSUME NEW i \in 1..Len(delivered) PROVE i \in 1..Len(Path) /\ Path[i] = delivered[i]
  <2>1. i \in 1..Len(delivered) + Len(ordered) /\ i <= Len(delivered)
    BY <1>1
  <2> QED
    BY <1>2, <2>1
<1>4. ASSUME NEW i \in 1..Len(Path) PROVE Path[i] \in Passed
  <2>1. CASE i <= Len(delivered)
    <3>1. i \in 1..Len(delivered)
      BY <1>1, <1>2, <2>1
    <3> QED
      BY <1>3, <3>1 DEF Passed, Elements
  <2>2. CASE ~(i <= Len(delivered))
    <3>1. i - Len(delivered) \in 1..Len(ordered) /\ Path[i] = ordered[i - Len(delivered)]
      BY <1>1, <1>2, <2>2
    <3> QED
      BY <3>1 DEF Passed, Elements
  <2> QED
    BY <2>1, <2>2
<1> QED
  BY <1>1, <1>2, <1>3, <1>4

LEMMA PathAppends ==
  ASSUME NEW d \in Seq(Nat), NEW o \in Seq(Nat), NEW n \in Nat
  PROVE  d \o Append(o, n) = Append(d \o o, n)
<1>1. Append(o, n) = o \o <<n>> /\ <<n>> \in Seq(Nat) /\ d \o o \in Seq(Nat)
  BY AppendIsConcat, ConcatProperties
<1>2. (d \o o) \o <<n>> = d \o (o \o <<n>>)
  BY <1>1, ConcatAssociative
<1>3. Append(d \o o, n) = (d \o o) \o <<n>>
  BY <1>1, AppendIsConcat
<1> QED
  BY <1>1, <1>2, <1>3

LEMMA PathShifts ==
  ASSUME NEW d \in Seq(Nat), NEW o \in Seq(Nat), o # <<>>
  PROVE  Append(d, Head(o)) \o Tail(o) = d \o o
<1>1. Head(o) \in Nat /\ Tail(o) \in Seq(Nat) /\ <<Head(o)>> \in Seq(Nat)
  BY HeadTailProperties
<1>2. o = <<Head(o)>> \o Tail(o)
  <2>1. /\ <<Head(o)>> \o Tail(o) \in Seq(Nat) /\ Len(<<Head(o)>> \o Tail(o)) = 1 + Len(Tail(o))
        /\ \A i \in 1..1 + Len(Tail(o)) : (<<Head(o)>> \o Tail(o))[i] =
             IF i <= 1 THEN <<Head(o)>>[i] ELSE Tail(o)[i - 1]
    BY <1>1, ConcatProperties
  <2>2. /\ Len(Tail(o)) = Len(o) - 1 /\ Len(o) \in Nat /\ Head(o) = o[1]
        /\ \A i \in 1..Len(Tail(o)) : Tail(o)[i] = o[i + 1]
    BY HeadTailProperties
  <2>3. ASSUME NEW i \in 1..Len(o) PROVE o[i] = (<<Head(o)>> \o Tail(o))[i]
    <3>1. i \in 1..1 + Len(Tail(o))
      BY <2>2
    <3>2. CASE i = 1
      BY <2>1, <2>2, <3>1, <3>2
    <3>3. CASE i # 1
      <4>1. i - 1 \in 1..Len(Tail(o)) /\ ~(i <= 1) /\ (i - 1) + 1 = i
        BY <2>2, <3>3
      <4>2. (<<Head(o)>> \o Tail(o))[i] = Tail(o)[i - 1]
        BY <2>1, <3>1, <4>1
      <4>3. Tail(o)[i - 1] = o[(i - 1) + 1]
        BY <2>2, <4>1
      <4> QED
        BY <4>1, <4>2, <4>3
    <3> QED
      BY <3>2, <3>3
  <2>4. Len(o) = Len(<<Head(o)>> \o Tail(o))
    BY <2>1, <2>2
  <2> QED
    BY <2>1, <2>3, <2>4, SeqEqual
<1>3. Append(d, Head(o)) = d \o <<Head(o)>>
  BY <1>1, AppendIsConcat
<1>4. (d \o <<Head(o)>>) \o Tail(o) = d \o (<<Head(o)>> \o Tail(o))
  BY <1>1, ConcatAssociative
<1> QED
  BY <1>2, <1>3, <1>4

\* Steps.
LEMMA SnapshotIs ==
  ASSUME MailTyped, SlotsNamed, NEW s \in Snapshots
  PROVE  s \in Numbers /\ s \in Nat /\ sent[s].kind \in Class /\ slot[sent[s].kind] = s
  BY DEF MailTyped, SlotsNamed, Snapshots

LEMMA SnapshotTaken ==
  ASSUME NEW n, slot' = TakeSnapshot(n) PROVE Snapshots' = Snapshots \ {n}
  BY DEF Snapshots, TakeSnapshot

LEMMA SlotsTaken ==
  ASSUME SlotsNamed, NEW n, slot' = TakeSnapshot(n), sent' = sent PROVE SlotsNamed'
  BY DEF SlotsNamed, TakeSnapshot, Numbers

\* The path is extended by what its like was not passed by.
LEMMA PathGrows ==
  ASSUME MailTyped, PathInOrder, sent' = sent, NEW n \in Nat, Path' = Append(Path, n),
         \A m \in Passed : Related(m, n) => m < n
  PROVE  PathInOrder'
<1>1. Path \in Seq(Nat) /\ Len(Path) \in Nat /\ \A i \in 1..Len(Path) : Path[i] \in Passed
  BY PathTyped
<1>2. /\ Len(Path') = Len(Path) + 1 /\ Path'[Len(Path) + 1] = n
      /\ \A i \in 1..Len(Path) : Path'[i] = Path[i]
  BY <1>1
<1> SUFFICES ASSUME NEW i \in 1..Len(Path'), NEW j \in 1..Len(Path'), i < j,
                    Related(Path[i], Path[j])'
             PROVE  Path'[i] < Path'[j]
  BY DEF PathInOrder
<1>3. Related(Path'[i], Path'[j])
  BY DEF Related
<1>4. i \in 1..Len(Path) /\ Path'[i] = Path[i]
  BY <1>1, <1>2
<1>5. CASE j = Len(Path) + 1
  BY <1>1, <1>2, <1>3, <1>4, <1>5
<1>6. CASE j # Len(Path) + 1
  <2>0. j \in 1..Len(Path) + 1
    BY <1>2
  <2>1. j \in 1..Len(Path)
    <3> DEFINE len == Len(Path)
    <3>1. len \in Nat /\ j \in 1..len + 1 /\ j # len + 1
      BY <1>1, <1>6, <2>0
    <3> HIDE DEF len
    <3>2. j \in 1..len
      BY <3>1
    <3> QED
      BY <3>2 DEF len
  <2>2. Path'[j] = Path[j]
    BY <1>2, <2>1
  <2> QED
    BY <1>3, <1>4, <2>1, <2>2 DEF PathInOrder
<1> QED
  BY <1>5, <1>6

LEMMA PathStays == ASSUME PathInOrder, UNCHANGED <<sent, Path>> PROVE PathInOrder'
  BY DEF PathInOrder, Related

\* Senders whose events are not touched.
LEMMA HandKept ==
  ASSUME NEW p \in Sender, Hand(p), sent' = sent, Passed' \subseteq Passed, entry'[p] = entry[p],
         pc'[p] \in Active <=> pc[p] \in Active
  PROVE  Hand(p)'
  BY DEF Hand, Numbers

LEMMA ChoiceKept ==
  ASSUME NEW p \in Sender, Choice(p), sent' = sent, Snapshots' \subseteq Snapshots,
         pc'[p] \in InRoom => pc[p] \in InRoom /\ chosen'[p] = chosen[p]
  PROVE  Choice(p)'
  BY DEF Choice, Numbers

LEMMA MailStays ==
  ASSUME MailOrder, UNCHANGED <<mailVars, delivered>>, GoneUnnamed' PROVE MailOrder'
<1>1. UNCHANGED <<Path, Passed, Snapshots, Numbers>>
  BY DEF Path, Passed, Snapshots, Numbers, mailVars
<1> QED
  BY <1>1, PathStays DEF MailOrder, mailVars, SlotsNamed, PassedNumbers, SlotsYounger, Related

\* One more event has been passed.
LEMMA HandsPass ==
  ASSUME NEW p \in Sender, Hand(p), sent' = sent, NEW n, Passed' = Passed \cup {n},
         pc[p] \in Active /\ sent[n].from = p => n < entry[p],
         entry'[p] = entry[p], pc'[p] \in Active <=> pc[p] \in Active
  PROVE  Hand(p)'
  BY DEF Hand, Numbers

\* A snapshot precedes the event of its own sender that waits.
LEMMA SnapshotFirstOfSender ==
  ASSUME OrderIInv, NEW s \in Snapshots, NEW p \in Sender, pc[p] \in Active, sent[s].from = p
  PROVE  s < entry[p]
<1>1. s \in Numbers /\ s \in Nat /\ sent[s].kind \in Class
  BY SnapshotIs DEF OrderIInv, Typed, MailOrder
<1>2. entry[p] \in Nat /\ s <= entry[p] /\ s # entry[p]
  BY <1>1 DEF OrderIInv, Hand, Typed, SendersTyped
<1> QED
  BY <1>1, <1>2

\* The oldest, or what was, goes from its slot into the lane.
LEMMA MoveSnapshotOrdered ==
  ASSUME OrderIInv, NEW p \in Sender, MoveSnapshot(p)
  PROVE  MailOrder' /\ \A q \in Sender : Hand(q)' /\ Choice(q)'
<1>0. PICK c : c = chosen[p]
  OBVIOUS
<1>1. /\ pc[p] = "room" /\ c \in Snapshots /\ ordered' = Append(ordered, c)
      /\ slot' = TakeSnapshot(c) /\ pc' = [pc EXCEPT ![p] = "choose"]
      /\ UNCHANGED <<sent, entry, chosen, delivered, gone>>
  BY <1>0 DEF MoveSnapshot, HasRoom, At, Go
<1>2. /\ MailTyped /\ MailOrder /\ SlotsNamed /\ PathInOrder /\ SlotsYounger /\ pc \in [Sender -> Pc]
      /\ \A q \in Sender : Hand(q) /\ Choice(q)
  BY DEF OrderIInv, MailOrder, Typed, SendersTyped
<1>3. c \in Numbers /\ c \in Nat /\ \A s \in Snapshots : c <= s /\ s \in Nat
  BY <1>0, <1>1, <1>2, SnapshotIs DEF Choice, InRoom
<1>4. Snapshots' = Snapshots \ {c}
  BY <1>1, SnapshotTaken
<1>5. Elements(ordered') = Elements(ordered) \cup {c} /\ Passed' = Passed \cup {c}
  BY <1>1, <1>2, <1>3, ElementsAppended DEF MailTyped, Passed
<1>6. Path' = Append(Path, c)
  BY <1>1, <1>2, <1>3, PathAppends DEF Path, MailTyped
<1>7. \A m \in Passed : Related(m, c) => m < c
  BY <1>1, <1>2 DEF Passed, SlotsYounger
<1>8. PathInOrder'
  BY <1>1, <1>2, <1>3, <1>6, <1>7, PathGrows
<1>9. SlotsYounger'
  BY <1>1, <1>2, <1>3, <1>4, <1>5 DEF SlotsYounger, Related
<1>10. SlotsNamed' /\ GoneUnnamed' /\ PassedNumbers'
  BY <1>1, <1>2, <1>3, <1>5, SlotsTaken DEF MailOrder, GoneUnnamed, PassedNumbers, Numbers
<1>11. ASSUME NEW q \in Sender PROVE Hand(q)' /\ Choice(q)'
  <2>1. /\ pc'[q] \in Active <=> pc[q] \in Active
        /\ pc'[q] \in InRoom => pc[q] \in InRoom
    BY <1>1, <1>2 DEF Active, InRoom
  <2>2. pc[q] \in Active /\ sent[c].from = q => c < entry[q]
    BY <1>1, SnapshotFirstOfSender
  <2> QED
    BY <1>1, <1>2, <1>4, <1>5, <2>1, <2>2, HandsPass, ChoiceKept
<1> QED
  BY <1>8, <1>9, <1>10, <1>11 DEF MailOrder

\* The event goes into the lane, after all that was retained before it.
LEMMA PushOrdered ==
  ASSUME OrderIInv, NEW p \in Sender, Push(p)
  PROVE  MailOrder' /\ \A q \in Sender : Hand(q)' /\ Choice(q)'
<1>0. PICK n : n = entry[p]
  OBVIOUS
<1>1. /\ pc[p] = "room" /\ n = chosen[p] /\ ordered' = Append(ordered, n)
      /\ pc' = [pc EXCEPT ![p] = "idle"] /\ entry' = [entry EXCEPT ![p] = None]
      /\ chosen' = [chosen EXCEPT ![p] = None]
      /\ UNCHANGED <<sent, slot, delivered, gone>>
  BY <1>0 DEF Push, HasRoom, At, Leave, Go
<1>2. /\ MailTyped /\ MailOrder /\ SlotsNamed /\ PathInOrder /\ SlotsYounger
      /\ pc \in [Sender -> Pc] /\ entry \in [Sender -> Nat] /\ chosen \in [Sender -> Nat]
      /\ \A q \in Sender : Hand(q) /\ Choice(q)
  BY DEF OrderIInv, MailOrder, Typed, SendersTyped
<1>3. /\ n \in Numbers /\ n \in Nat /\ sent[n].from = p /\ sent[n].kind \notin Class
      /\ \A m \in Passed : sent[m].from = p => m < n
  BY <1>0, <1>1, <1>2 DEF Hand, Active
<1>4. Snapshots' = Snapshots /\ \A s \in Snapshots : n < s
  <2>1. \A s \in Snapshots : n <= s /\ s \in Nat /\ s # n
    BY <1>1, <1>2, <1>3, SnapshotIs DEF Choice, InRoom
  <2>2. \A s \in Snapshots : n < s
    BY <1>3, <2>1
  <2> QED
    BY <1>1, <2>2 DEF Snapshots
<1>5. Elements(ordered') = Elements(ordered) \cup {n} /\ Passed' = Passed \cup {n}
  BY <1>1, <1>2, <1>3, ElementsAppended DEF MailTyped, Passed
<1>6. Path' = Append(Path, n)
  BY <1>1, <1>2, <1>3, PathAppends DEF Path, MailTyped
<1>7. \A m \in Passed : Related(m, n) => m < n
  BY <1>3 DEF Related
<1>8. PathInOrder'
  BY <1>1, <1>2, <1>3, <1>6, <1>7, PathGrows
<1>9. SlotsYounger'
  BY <1>1, <1>2, <1>4, <1>5 DEF SlotsYounger, Related
<1>10. SlotsNamed' /\ GoneUnnamed' /\ PassedNumbers'
  BY <1>1, <1>2, <1>3, <1>5 DEF MailOrder, SlotsNamed, GoneUnnamed, PassedNumbers, Numbers
<1>11. ASSUME NEW q \in Sender PROVE Hand(q)' /\ Choice(q)'
  <2>1. CASE q = p
    <3>1. pc'[p] = "idle" /\ entry'[p] = None
      BY <1>1, <1>2
    <3> QED
      BY <2>1, <3>1 DEF Hand, Choice, Active, InRoom
  <2>2. CASE q # p
    <3>1. pc'[q] = pc[q] /\ entry'[q] = entry[q] /\ chosen'[q] = chosen[q]
      BY <1>1, <1>2, <2>2
    <3>2. ~(sent[n].from = q)
      BY <1>3, <2>2
    <3> QED
      BY <1>1, <1>2, <1>4, <1>5, <3>1, <3>2, HandsPass, ChoiceKept
  <2> QED
    BY <2>1, <2>2
<1> QED
  BY <1>8, <1>9, <1>10, <1>11 DEF MailOrder

\* The UI takes a snapshot: nothing waits in the lane then.
LEMMA ReceiveSnapshotOrdered ==
  ASSUME OrderIInv, ReceiveSnapshot
  PROVE  MailOrder' /\ \A q \in Sender : Hand(q)' /\ Choice(q)'
<1>0. PICK c : c = Oldest
  OBVIOUS
<1>1. /\ Snapshots # {} /\ (ordered # <<>> => c < Head(ordered))
      /\ slot' = TakeSnapshot(c) /\ delivered' = Append(delivered, c)
      /\ UNCHANGED <<sent, ordered, pc, entry, chosen, gone>>
  BY <1>0 DEF ReceiveSnapshot, SnapshotFirst, Handle, sendVars
<1>2. /\ MailTyped /\ MailOrder /\ SlotsNamed /\ PathInOrder /\ SlotsYounger
      /\ delivered \in Seq(Nat) /\ ordered \in Seq(Nat)
      /\ \A q \in Sender : Hand(q) /\ Choice(q)
  BY DEF OrderIInv, MailOrder, Typed, MailTyped
<1>3. /\ c \in Snapshots /\ c \in Numbers /\ c \in Nat
      /\ \A s \in Snapshots : c <= s /\ s \in Nat
  BY <1>0, <1>1, <1>2, OldestIs, SnapshotIs
<1>4. ordered = <<>>
  <2> SUFFICES ASSUME ordered # <<>> PROVE FALSE
    OBVIOUS
  <2>1. Head(ordered) \in Elements(ordered) /\ Head(ordered) \in Nat
    BY <1>2, ElementsTaken
  <2>2. Head(ordered) < c
    BY <1>2, <1>3, <2>1 DEF SlotsYounger
  <2> QED
    BY <1>1, <1>3, <2>1, <2>2
<1>5. Snapshots' = Snapshots \ {c}
  BY <1>1, SnapshotTaken
<1>6. Elements(ordered') = Elements(ordered) /\ Elements(delivered') = Elements(delivered) \cup {c}
      /\ Passed' = Passed \cup {c}
  BY <1>1, <1>2, <1>3, ElementsAppended DEF Passed
<1>7. Path' = Append(Path, c)
  <2>1. Path = delivered /\ Path' = delivered'
    BY <1>1, <1>2, <1>3, <1>4, ConcatEmptySeq DEF Path
  <2> QED
    BY <1>1, <2>1
<1>8. \A m \in Passed : Related(m, c) => m < c
  BY <1>2, <1>3 DEF Passed, SlotsYounger
<1>9. PathInOrder'
  BY <1>1, <1>2, <1>3, <1>7, <1>8, PathGrows
<1>10. SlotsYounger'
  BY <1>1, <1>2, <1>3, <1>5, <1>6 DEF SlotsYounger, Related
<1>11. SlotsNamed' /\ GoneUnnamed' /\ PassedNumbers'
  BY <1>1, <1>2, <1>3, <1>6, SlotsTaken DEF MailOrder, GoneUnnamed, PassedNumbers, Numbers
<1>12. ASSUME NEW q \in Sender PROVE Hand(q)' /\ Choice(q)'
  <2>1. pc[q] \in Active /\ sent[c].from = q => c < entry[q]
    BY <1>3, SnapshotFirstOfSender
  <2> QED
    BY <1>1, <1>2, <1>5, <1>6, <2>1, HandsPass, ChoiceKept
<1> QED
  BY <1>9, <1>10, <1>11, <1>12 DEF MailOrder

\* The UI takes the front of the lane, and wakes a sender.
LEMMA ReceiveOrderedOrdered ==
  ASSUME OrderIInv, ReceiveOrdered
  PROVE  MailOrder' /\ \A q \in Sender : Hand(q)' /\ Choice(q)'
<1>0. PICK h : h = Head(ordered)
  OBVIOUS
<1>1. /\ ordered # <<>> /\ ordered' = Tail(ordered) /\ delivered' = Append(delivered, h)
      /\ UNCHANGED <<sent, slot, entry, chosen, gone>> /\ NotifyOne
  BY <1>0 DEF ReceiveOrdered, Handle
<1>2. /\ MailTyped /\ MailOrder /\ SlotsNamed /\ PathInOrder /\ SlotsYounger /\ pc \in [Sender -> Pc]
      /\ delivered \in Seq(Nat) /\ ordered \in Seq(Nat)
      /\ \A q \in Sender : Hand(q) /\ Choice(q)
  BY DEF OrderIInv, MailOrder, Typed, MailTyped, SendersTyped
<1>3. h \in Nat /\ Elements(ordered) = Elements(ordered') \cup {h}
  BY <1>0, <1>1, <1>2, ElementsTaken
<1>4. Elements(delivered') = Elements(delivered) \cup {h} /\ Passed' = Passed
  BY <1>1, <1>2, <1>3, ElementsAppended DEF Passed
<1>5. Path' = Path
  BY <1>0, <1>1, <1>2, PathShifts DEF Path
<1>6. Snapshots' = Snapshots
  BY <1>1 DEF Snapshots
<1>7. PathInOrder'
  BY <1>1, <1>2, <1>5, PathStays
<1>8. SlotsYounger'
  BY <1>1, <1>2, <1>3, <1>4, <1>6 DEF SlotsYounger, Related
<1>9. SlotsNamed' /\ GoneUnnamed' /\ PassedNumbers'
  BY <1>1, <1>2, <1>4 DEF MailOrder, SlotsNamed, GoneUnnamed, PassedNumbers, Numbers
<1>10. \A q \in Sender : pc'[q] = pc[q] \/ (pc[q] = "parked" /\ pc'[q] = "woken")
  BY <1>1, <1>2 DEF NotifyOne, Parked, At, Go
<1>11. ASSUME NEW q \in Sender PROVE Hand(q)' /\ Choice(q)'
  <2>1. /\ pc'[q] \in Active <=> pc[q] \in Active
        /\ pc'[q] \in InRoom => pc[q] \in InRoom
    BY <1>10 DEF Active, InRoom
  <2> QED
    BY <1>1, <1>2, <1>4, <1>6, <2>1, HandKept, ChoiceKept
<1> QED
  BY <1>7, <1>8, <1>9, <1>11 DEF MailOrder

\* A number is given out: what was sent keeps its own.
LEMMA NumberGiven ==
  ASSUME MailTyped, NEW e, sent' = Append(sent, e)
  PROVE  /\ Len(sent) \in Nat /\ Numbers' = Numbers \cup {Len(sent) + 1}
         /\ \A k \in Numbers : sent'[k] = sent[k] /\ k < Len(sent) + 1
         /\ sent'[Len(sent) + 1] = e
<1>1. sent \in Seq(Event) /\ Len(sent) \in Nat
  BY DEF MailTyped
<1>2. /\ Len(sent') = Len(sent) + 1 /\ sent'[Len(sent) + 1] = e
      /\ \A k \in 1..Len(sent) : sent'[k] = sent[k]
  BY <1>1
<1>3. 1..Len(sent) + 1 = 1..Len(sent) \cup {Len(sent) + 1}
  BY <1>1
<1> QED
  BY <1>1, <1>2, <1>3 DEF Numbers

LEMMA AcceptOrdered ==
  ASSUME OrderIInv, NEW p \in Sender, Accept(p)
  PROVE  MailOrder' /\ \A q \in Sender : Hand(q)' /\ Choice(q)'
<1>0. PICK n : n = Len(sent) + 1
  OBVIOUS
<1>1. /\ pc[p] = "lock" /\ sent' = Append(sent, [from |-> p, kind |-> kind[p]])
      /\ Replace(p, n) \/ DropLog(p, n) \/ Order(p, n)
      /\ UNCHANGED <<ordered, delivered>>
  BY <1>0 DEF Accept, At, Replace, DropLog, Order
<1>2. /\ MailTyped /\ MailOrder /\ SlotsNamed /\ GoneUnnamed /\ PassedNumbers /\ PathInOrder
      /\ SlotsYounger /\ pc \in [Sender -> Pc] /\ entry \in [Sender -> Nat]
      /\ slot \in [Class -> Nat] /\ \A q \in Sender : Hand(q) /\ Choice(q)
  BY DEF OrderIInv, MailOrder, Typed, MailTyped, SendersTyped
<1>3. /\ n \in Nat /\ n \notin Numbers /\ Numbers' = Numbers \cup {n} /\ n # None
      /\ \A k \in Numbers : sent'[k] = sent[k] /\ k < n /\ k \in Nat
      /\ sent'[n].from = p /\ sent'[n].kind = kind[p]
  <2>1. Len(sent) \in Nat
    BY <1>2 DEF MailTyped
  <2>2. n \in Nat /\ n \notin Numbers /\ n # None /\ \A k \in Numbers : k \in Nat
    BY <1>0, <2>1 DEF Numbers, None
  <2>3. /\ Numbers' = Numbers \cup {n} /\ \A k \in Numbers : sent'[k] = sent[k] /\ k < n
        /\ sent'[n] = [from |-> p, kind |-> kind[p]]
    BY <1>0, <1>1, <1>2, NumberGiven
  <2> QED
    BY <2>2, <2>3
<1>4. Path' = Path /\ Passed' = Passed
  BY <1>1 DEF Path, Passed
<1>5. PassedNumbers' /\ PathInOrder'
  <2>1. PassedNumbers'
    BY <1>2, <1>3, <1>4 DEF PassedNumbers
  <2>2. \A i \in 1..Len(Path) : Path[i] \in Numbers
    BY <1>2, PathTyped DEF PassedNumbers
  <2>3. \A i, j \in 1..Len(Path) : Related(Path[i], Path[j])' => Related(Path[i], Path[j])
    BY <1>3, <1>4, <2>2 DEF Related
  <2> QED
    BY <1>2, <1>4, <2>1, <2>3 DEF PathInOrder
<1>6. \A c \in Class : slot[c] # None => slot[c] \in Numbers
  BY <1>2 DEF SlotsNamed
<1>7. ASSUME Snapshots' \subseteq Snapshots \cup {n} PROVE SlotsYounger'
  <2>1. \A m \in Passed : m \in Numbers /\ m < n
    BY <1>2, <1>3 DEF PassedNumbers
  <2>2. \A s \in Snapshots : s \in Numbers
    BY <1>2, SnapshotIs
  <2>3. Elements(delivered) \subseteq Passed /\ Elements(ordered) \subseteq Passed
    BY DEF Passed
  <2>4. ASSUME NEW m \in Elements(delivered'), NEW s \in Snapshots', Related(m, s)'
        PROVE  m < s
    <3>1. m \in Elements(delivered) /\ m \in Numbers /\ m < n
      BY <1>1, <2>1, <2>3
    <3>2. CASE s \in Snapshots
      <4>1. Related(m, s)
        BY <1>3, <2>2, <2>4, <3>1, <3>2 DEF Related
      <4> QED
        BY <1>2, <3>1, <3>2, <4>1 DEF SlotsYounger
    <3> QED
      BY <1>7, <3>1, <3>2
  <2>5. \A m \in Elements(ordered'), s \in Snapshots' : m < s
    BY <1>1, <1>2, <1>7, <2>1, <2>3 DEF SlotsYounger
  <2> QED
    BY <2>4, <2>5 DEF SlotsYounger
<1>8. ASSUME NEW q \in Sender, q # p \/ pc'[q] \notin Active, entry'[q] = entry[q], chosen'[q] = chosen[q],
             pc'[q] = pc[q] \/ (q = p /\ pc'[q] = "idle"), Snapshots' \subseteq Snapshots \cup {n}
      PROVE  Hand(q)' /\ Choice(q)'
  <2>1. CASE q = p
    BY <1>1, <1>2, <1>8, <2>1 DEF Hand, Choice, Active, InRoom
  <2>2. CASE q # p
    <3>1. Hand(q)'
      BY <1>2, <1>3, <1>4, <1>8, <2>2 DEF Hand, PassedNumbers
    <3>2. Choice(q)'
      BY <1>2, <1>3, <1>8, <2>2 DEF Choice
    <3> QED
      BY <3>1, <3>2
  <2> QED
    BY <2>1, <2>2
<1>9. CASE Replace(p, n)
  <2>0. PICK k : k = kind[p]
    OBVIOUS
  <2>1. /\ k \in Class /\ slot' = [slot EXCEPT ![k] = n] /\ pc' = [pc EXCEPT ![p] = "idle"]
        /\ UNCHANGED <<entry, chosen, gone>>
    BY <1>9, <2>0 DEF Replace, Go
  <2>2. Snapshots' \subseteq Snapshots \cup {n}
    BY <1>2, <2>1 DEF Snapshots
  <2>3. SlotsNamed'
    BY <1>2, <1>3, <2>0, <2>1 DEF SlotsNamed
  <2>4. GoneUnnamed'
    BY <1>2, <1>3, <2>1 DEF GoneUnnamed
  <2>5. ASSUME NEW q \in Sender PROVE Hand(q)' /\ Choice(q)'
    BY <1>2, <1>8, <2>1, <2>2 DEF Active
  <2> QED
    BY <1>5, <1>7, <2>2, <2>3, <2>4, <2>5 DEF MailOrder
<1>10. CASE DropLog(p, n)
  <2>1. /\ kind[p] = "log" /\ gone' = gone \cup {n} /\ pc' = [pc EXCEPT ![p] = "idle"]
        /\ UNCHANGED <<slot, entry, chosen>>
    BY <1>10 DEF DropLog, Go
  <2>2. Snapshots' \subseteq Snapshots \cup {n}
    BY <2>1 DEF Snapshots
  <2>3. SlotsNamed'
    BY <1>2, <1>3, <2>1 DEF SlotsNamed
  <2>4. GoneUnnamed'
    BY <1>2, <1>3, <2>1, DeliveryAssumption DEF GoneUnnamed
  <2>5. ASSUME NEW q \in Sender PROVE Hand(q)' /\ Choice(q)'
    BY <1>2, <1>8, <2>1, <2>2 DEF Active
  <2> QED
    BY <1>5, <1>7, <2>2, <2>3, <2>4, <2>5 DEF MailOrder
<1>11. CASE Order(p, n)
  <2>1. /\ kind[p] \in {"ordered", "log"} /\ entry' = [entry EXCEPT ![p] = n]
        /\ pc' = [pc EXCEPT ![p] = "choose"] /\ UNCHANGED <<slot, chosen, gone>>
    BY <1>11 DEF Order, Go
  <2>2. Snapshots' \subseteq Snapshots \cup {n}
    BY <2>1 DEF Snapshots
  <2>3. SlotsNamed'
    BY <1>2, <1>3, <2>1 DEF SlotsNamed
  <2>4. GoneUnnamed'
    BY <1>2, <1>3, <2>1 DEF GoneUnnamed
  <2>5. ASSUME NEW q \in Sender PROVE Hand(q)' /\ Choice(q)'
    <3>1. CASE q # p
      BY <1>2, <1>8, <2>1, <2>2, <3>1
    <3>2. CASE q = p
      <4>1. pc'[p] = "choose" /\ entry'[p] = n
        BY <1>2, <2>1
      <4>2. kind[p] \notin Class
        BY <2>1, DeliveryAssumption
      <4>3. \A m \in Numbers' : m <= n
        BY <1>3
      <4>4. \A m \in Passed' : m < n
        BY <1>2, <1>3, <1>4 DEF PassedNumbers
      <4> QED
        BY <1>3, <3>2, <4>1, <4>2, <4>3, <4>4 DEF Hand, Choice, Active, InRoom
    <3> QED
      BY <3>1, <3>2
  <2> QED
    BY <1>5, <1>7, <2>2, <2>3, <2>4, <2>5 DEF MailOrder
<1> QED
  BY <1>1, <1>9, <1>10, <1>11

\* A step that leaves the mailbox alone.
LEMMA RestOrdered ==
  ASSUME OrderIInv, UNCHANGED <<mailVars, delivered, gone>>,
         \A q \in Sender : /\ entry'[q] = entry[q]
                           /\ pc'[q] \in Active <=> pc[q] \in Active
                           /\ pc'[q] \in InRoom => pc[q] \in InRoom /\ chosen'[q] = chosen[q]
  PROVE  MailOrder' /\ \A q \in Sender : Hand(q)' /\ Choice(q)'
<1>1. MailOrder /\ \A q \in Sender : Hand(q) /\ Choice(q)
  BY DEF OrderIInv
<1>2. Passed' = Passed /\ Snapshots' = Snapshots /\ sent' = sent
  BY DEF Passed, Snapshots, mailVars
<1>3. MailOrder'
  BY <1>1, <1>2, MailStays DEF MailOrder, GoneUnnamed, Numbers
<1> QED
  BY <1>1, <1>2, <1>3, HandKept, ChoiceKept

LEMMA ChooseOrdered ==
  ASSUME OrderIInv, NEW p \in Sender, Choose(p)
  PROVE  MailOrder' /\ \A q \in Sender : Hand(q)' /\ Choice(q)'
<1>0. PICK c : c = IF Snapshots = {} THEN entry[p] ELSE Oldest
  OBVIOUS
<1>1. /\ pc[p] = "choose" /\ pc' = [pc EXCEPT ![p] = "room"] /\ chosen' = [chosen EXCEPT ![p] = c]
      /\ UNCHANGED <<mailVars, delivered, gone, entry>>
  BY <1>0 DEF Choose, At, Go
<1>2. /\ MailTyped /\ MailOrder /\ SlotsNamed /\ pc \in [Sender -> Pc] /\ chosen \in [Sender -> Nat]
      /\ \A q \in Sender : Hand(q) /\ Choice(q)
  BY DEF OrderIInv, MailOrder, Typed, SendersTyped
<1>3. Passed' = Passed /\ Snapshots' = Snapshots /\ sent' = sent
  BY <1>1 DEF Passed, Snapshots, mailVars
<1>4. MailOrder'
  BY <1>1, <1>2, <1>3, MailStays DEF MailOrder, GoneUnnamed, Numbers
<1>5. c \in Numbers /\ \A s \in Snapshots : c <= s
  <2>1. entry[p] \in Numbers
    BY <1>1, <1>2 DEF Hand, Active
  <2>2. CASE Snapshots = {}
    BY <1>0, <2>1, <2>2
  <2>3. CASE Snapshots # {}
    BY <1>0, <1>2, <2>3, OldestIs, SnapshotIs
  <2> QED
    BY <2>2, <2>3
<1>6. ASSUME NEW q \in Sender PROVE Hand(q)' /\ Choice(q)'
  <2>1. pc'[q] \in Active <=> pc[q] \in Active
    BY <1>1, <1>2 DEF Active
  <2>2. Hand(q)'
    BY <1>1, <1>2, <1>3, <2>1, HandKept
  <2>3. CASE q = p
    <3>1. chosen'[q] = c
      BY <1>1, <1>2, <2>3
    <3>2. Numbers' = Numbers
      BY <1>3 DEF Numbers
    <3> QED
      BY <1>3, <1>5, <2>2, <3>1, <3>2 DEF Choice
  <2>4. CASE q # p
    <3>1. pc'[q] = pc[q] /\ chosen'[q] = chosen[q]
      BY <1>1, <1>2, <2>4
    <3> QED
      BY <1>2, <1>3, <2>2, <3>1, ChoiceKept
  <2> QED
    BY <2>3, <2>4
<1> QED
  BY <1>4, <1>6

\* send gives up: its event is counted as gone.
LEMMA GiveUpOrdered ==
  ASSUME OrderIInv, NEW p \in Sender, pc[p] = "room", gone' = gone \cup {entry[p]},
         NEW to \in {"idle", "dead"}, Leave(p, to), UNCHANGED <<mailVars, delivered>>
  PROVE  MailOrder' /\ \A q \in Sender : Hand(q)' /\ Choice(q)'
<1>1. /\ pc' = [pc EXCEPT ![p] = to] /\ entry' = [entry EXCEPT ![p] = None]
      /\ chosen' = [chosen EXCEPT ![p] = None]
  BY DEF Leave, Go
<1>2. /\ MailOrder /\ GoneUnnamed /\ pc \in [Sender -> Pc]
      /\ entry \in [Sender -> Nat] /\ chosen \in [Sender -> Nat]
      /\ \A q \in Sender : Hand(q) /\ Choice(q)
  BY DEF OrderIInv, MailOrder, Typed, SendersTyped
<1>3. Passed' = Passed /\ Snapshots' = Snapshots /\ sent' = sent /\ Numbers' = Numbers
  BY DEF Passed, Snapshots, mailVars, Numbers
<1>4. entry[p] \in Numbers /\ sent[entry[p]].kind \notin Class
  BY <1>2 DEF Hand, Active
<1>5. MailOrder'
  BY <1>2, <1>3, <1>4, MailStays DEF GoneUnnamed
<1>6. ASSUME NEW q \in Sender PROVE Hand(q)' /\ Choice(q)'
  <2>1. CASE q = p
    <3>1. pc'[p] = to /\ entry'[p] = None
      BY <1>1, <1>2
    <3> QED
      BY <2>1, <3>1 DEF Hand, Choice, Active, InRoom
  <2>2. CASE q # p
    <3>1. pc'[q] = pc[q] /\ entry'[q] = entry[q] /\ chosen'[q] = chosen[q]
      BY <1>1, <1>2, <2>2
    <3> QED
      BY <1>2, <1>3, <3>1, HandKept, ChoiceKept
  <2> QED
    BY <2>1, <2>2
<1> QED
  BY <1>5, <1>6

\* A sender that goes on without touching the mailbox.
LEMMA GoOrdered ==
  ASSUME OrderIInv, NEW p \in Sender, NEW to, Go(p, to), UNCHANGED <<mailVars, delivered, gone, entry, chosen>>,
         \/ to \notin Active /\ pc[p] \notin Active
         \/ to \in InRoom /\ pc[p] \in InRoom
  PROVE  MailOrder' /\ \A q \in Sender : Hand(q)' /\ Choice(q)'
<1>1. pc \in [Sender -> Pc] /\ pc' = [pc EXCEPT ![p] = to]
  BY DEF OrderIInv, Typed, SendersTyped, Go
<1>2. \A q \in Sender : /\ pc'[q] \in Active <=> pc[q] \in Active
                        /\ pc'[q] \in InRoom => pc[q] \in InRoom
  BY <1>1 DEF Active, InRoom
<1> QED
  BY <1>2, RestOrdered

LEMMA SenderOrdered ==
  ASSUME OrderIInv, NEW p \in Sender, Ask(p) \/ Emit(p) \/ Send(p)
  PROVE  MailOrder' /\ \A q \in Sender : Hand(q)' /\ Choice(q)'
<1>1. CASE Emit(p)
  BY <1>1, GoOrdered DEF Emit, At, Active
<1>2. CASE CheckOpen(p)
  BY <1>2, GoOrdered DEF CheckOpen, At, Active
<1>3. CASE Accept(p)
  BY <1>3, AcceptOrdered
<1>4. CASE Choose(p)
  BY <1>4, ChooseOrdered
<1>5. CASE MoveSnapshot(p)
  BY <1>5, MoveSnapshotOrdered
<1>6. CASE Push(p)
  BY <1>6, PushOrdered
<1>7. CASE LoseSnapshot(p)
  BY <1>7, GiveUpOrdered DEF LoseSnapshot, HasRoom, At
<1>8. CASE Full(p)
  <2>1. CASE open
    BY <1>8, <2>1, GoOrdered DEF Full, At, InRoom
  <2>2. CASE ~open
    BY <1>8, <2>2, GiveUpOrdered DEF Full, At
  <2> QED
    BY <2>1, <2>2
<1>9. CASE Park(p)
  BY <1>9, GoOrdered DEF Park, At, InRoom
<1>10. CASE Resume(p)
  BY <1>10, GoOrdered DEF Resume, At, InRoom
<1>11. CASE Ask(p)
  BY <1>11, RestOrdered DEF Ask, sendVars
<1> QED
  BY <1>1, <1>2, <1>3, <1>4, <1>5, <1>6, <1>7, <1>8, <1>9, <1>10, <1>11 DEF Send

LEMMA UiStepOrdered ==
  ASSUME OrderIInv, Ui \/ Close \/ UNCHANGED vars
  PROVE  MailOrder' /\ \A q \in Sender : Hand(q)' /\ Choice(q)'
<1>1. CASE Frame \/ EndFrame \/ Close \/ UNCHANGED vars
  <2>1. UNCHANGED <<mailVars, delivered, gone, pc, entry, chosen>>
    BY <1>1 DEF Frame, EndFrame, Close, vars, sendVars
  <2> QED
    BY <2>1, RestOrdered
<1>2. CASE NotifyAll
  <2>1. /\ UNCHANGED <<mailVars, delivered, gone, entry, chosen>>
        /\ pc' = [q \in Sender |-> IF q \in Parked THEN "woken" ELSE pc[q]]
    BY <1>2 DEF NotifyAll
  <2>2. \A q \in Sender : /\ pc'[q] \in Active <=> pc[q] \in Active
                          /\ pc'[q] \in InRoom => pc[q] \in InRoom
    BY <2>1 DEF Parked, At, Active, InRoom
  <2> QED
    BY <2>1, <2>2, RestOrdered
<1> QED
  BY <1>1, <1>2, ReceiveSnapshotOrdered, ReceiveOrderedOrdered DEF Ui

LEMMA OrderAlways == Spec => []OrderIInv
<1>1. Init => MailOrder /\ \A p \in Sender : Hand(p) /\ Choice(p)
  <2> SUFFICES ASSUME Init PROVE MailOrder /\ \A p \in Sender : Hand(p) /\ Choice(p)
    OBVIOUS
  <2>1. /\ sent = <<>> /\ ordered = <<>> /\ delivered = <<>> /\ gone = {}
        /\ slot = [c \in Class |-> None]
        /\ \A p \in Sender : pc[p] = "idle" /\ entry[p] = None
    BY DEF Init
  <2>2. Elements(delivered) = {} /\ Elements(ordered) = {} /\ Snapshots = {} /\ Path = <<>>
    <3>1. Elements(<<>>) = {}
      BY DEF Elements
    <3>2. <<>> \o <<>> = <<>>
      OBVIOUS
    <3> QED
      BY <2>1, <3>1, <3>2 DEF Snapshots, Path
  <2>3. MailOrder
    BY <2>1, <2>2 DEF MailOrder, SlotsNamed, GoneUnnamed, PassedNumbers, Passed, PathInOrder, SlotsYounger
  <2> QED
    BY <2>1, <2>3 DEF Hand, Choice, Active, InRoom
<1>2. OrderIInv /\ [Next]_vars => OrderIInv'
  BY SenderOrdered, UiStepOrdered, SenderTyped, UiStepTyped DEF Next, OrderIInv
<1>3. Typed /\ Init => OrderIInv
  BY <1>1 DEF OrderIInv
<1> QED
  BY <1>2, <1>3, TypedAlways, PTL DEF Spec

\* Whatever way an event takes (retained as a snapshot, moved to the lane by
\* another sender, waiting for room with the lock given up), the events of one
\* thread reach the UI in the order in which UiEventSender::send accepted them.
THEOREM SenderOrderKept == Spec => []SenderOrder
<1>1. OrderIInv => SenderOrder
  <2> SUFFICES ASSUME OrderIInv, NEW i \in 1..Len(delivered), NEW j \in 1..Len(delivered), i < j,
                      sent[delivered[i]].from = sent[delivered[j]].from
               PROVE  delivered[i] < delivered[j]
    BY DEF SenderOrder
  <2> QED
    BY PathTyped DEF OrderIInv, Typed, MailOrder, PathInOrder, Related
<1> QED
  BY <1>1, OrderAlways, PTL

\* The UI never receives an older snapshot of a class after a newer one, whoever
\* sent them and however often the sender that moves them had to wait.
THEOREM NewestAlwaysLast == Spec => []NewestLast
<1>1. OrderIInv => NewestLast
  <2> SUFFICES ASSUME OrderIInv, NEW i \in 1..Len(delivered), NEW j \in 1..Len(delivered), i < j,
                      sent[delivered[i]].kind \in Class,
                      sent[delivered[j]].kind = sent[delivered[i]].kind
               PROVE  delivered[i] < delivered[j]
    BY DEF NewestLast
  <2> QED
    BY PathTyped DEF OrderIInv, Typed, MailOrder, PathInOrder, Related
<1> QED
  BY <1>1, OrderAlways, PTL

----------------------------------------------------------------------------
(* Where the events are. *)

Entries == {entry[p] : p \in Sender}

\* What is missing are the snapshots that were replaced.
ReplacedCounted ==
  /\ Cardinality(Missing) = coalesced
  /\ \A n \in Missing :
       /\ sent[n].kind \in Class
       /\ \E m \in (n + 1)..Len(sent) : sent[m].kind = sent[n].kind

\* Nothing is on the path twice.
PassedOnce == Len(delivered) + Len(ordered) = Cardinality(Passed)

LEMMA MissingIs == Missing = Numbers \ (Passed \cup Snapshots \cup Entries \cup gone)
  BY DEF Missing, Numbers, Passed, Entries

LEMMA MissingStays ==
  ASSUME ReplacedCounted, UNCHANGED <<sent, coalesced, Missing>> PROVE ReplacedCounted'
  BY DEF ReplacedCounted

LEMMA MissingStaysNext ==
  ASSUME MailTyped, ReplacedCounted, NEW e, sent' = Append(sent, e), UNCHANGED <<coalesced, Missing>>
  PROVE  ReplacedCounted'
<1>1. /\ Len(sent) \in Nat /\ \A k \in Numbers : sent'[k] = sent[k]
      /\ Len(sent') = Len(sent) + 1
  <2>1. sent \in Seq(Event)
    BY DEF MailTyped
  <2>2. Len(sent') = Len(sent) + 1
    BY <2>1
  <2> QED
    BY <2>2, NumberGiven
<1> SUFFICES ASSUME NEW n \in Missing
             PROVE  /\ sent'[n].kind \in Class
                    /\ \E m \in (n + 1)..Len(sent') : sent'[m].kind = sent'[n].kind
  BY DEF ReplacedCounted
<1>2. n \in Numbers /\ n \in Nat
  BY <1>1 DEF Missing, Numbers
<1>3. PICK m \in (n + 1)..Len(sent) : sent[m].kind = sent[n].kind
  BY DEF ReplacedCounted
<1>4. m \in Numbers /\ m \in (n + 1)..Len(sent')
  BY <1>1, <1>2, <1>3 DEF Numbers
<1> QED
  BY <1>1, <1>2, <1>3, <1>4 DEF ReplacedCounted

LEMMA NumbersFinite ==
  ASSUME MailTyped PROVE IsFiniteSet(Numbers) /\ None \notin Numbers /\ Numbers \subseteq Nat
<1>1. Len(sent) \in Nat /\ 1 \in Int /\ Len(sent) \in Int
  BY DEF MailTyped
<1>2. IsFiniteSet(1..Len(sent))
  BY <1>1, FS_Interval
<1> QED
  BY <1>1, <1>2 DEF Numbers, None

\* The path gets one more, which it had not.
LEMMA PassesOnce ==
  ASSUME MailTyped, PassedNumbers, PassedOnce, NEW n \in Nat, n \notin Passed, Passed' = Passed \cup {n},
         \/ ordered' = Append(ordered, n) /\ delivered' = delivered
         \/ delivered' = Append(delivered, n) /\ ordered' = ordered
  PROVE  PassedOnce'
<1>1. delivered \in Seq(Nat) /\ ordered \in Seq(Nat) /\ Len(delivered) \in Nat /\ Len(ordered) \in Nat
  BY DEF MailTyped
<1>2. Len(delivered') + Len(ordered') = Len(delivered) + Len(ordered) + 1
  <2>1. CASE ordered' = Append(ordered, n) /\ delivered' = delivered
    <3>1. Len(ordered') = Len(ordered) + 1
      BY <1>1, <2>1
    <3> QED
      BY <1>1, <2>1, <3>1
  <2>2. CASE delivered' = Append(delivered, n) /\ ordered' = ordered
    <3>1. Len(delivered') = Len(delivered) + 1
      BY <1>1, <2>2
    <3> QED
      BY <1>1, <2>2, <3>1
  <2> QED
    BY <2>1, <2>2
<1>3. IsFiniteSet(Passed)
  BY NumbersFinite, FS_Subset DEF PassedNumbers
<1>4. Cardinality(Passed') = Cardinality(Passed) + 1
  BY <1>3, FS_AddElement
<1> QED
  BY <1>2, <1>4 DEF PassedOnce

\* A snapshot that waits has not been passed.
LEMMA SnapshotNotPassed ==
  ASSUME SlotsYounger, SlotsNamed, MailTyped, NEW s \in Snapshots PROVE s \notin Passed
<1>1. s \in Nat /\ Related(s, s)
  BY SnapshotIs DEF Related
<1>2. ~(s < s)
  BY <1>1
<1> QED
  BY <1>1, <1>2 DEF SlotsYounger, Passed

\* A step of one sender that hands on its event, and of the mailbox.
LEMMA EntryHandedOn ==
  ASSUME MailTyped, entry \in [Sender -> Nat], sent' = sent, NEW p \in Sender,
         entry' = [entry EXCEPT ![p] = None], Snapshots' = Snapshots,
         (Passed \cup gone)' = Passed \cup gone \cup {entry[p]}
  PROVE  Missing' = Missing
<1>1. Numbers' = Numbers /\ None \notin Numbers
  BY NumbersFinite DEF Numbers
<1>2. \A q \in Sender : entry'[q] = IF q = p THEN None ELSE entry[q]
  OBVIOUS
<1>3. Entries' \subseteq Entries \cup {None} /\ Entries \subseteq Entries' \cup {entry[p]}
  BY <1>2 DEF Entries
<1>4. entry[p] \in Entries
  BY DEF Entries
<1>5. Missing' = (Numbers \ (Passed \cup Snapshots \cup Entries \cup gone))'
  BY DEF Missing, Numbers, Passed, Entries
<1> QED
  BY <1>1, <1>3, <1>4, <1>5, MissingIs

LEMMA MissingKept ==
  ASSUME sent' = sent, Entries' = Entries, gone' = gone, (Passed \cup Snapshots)' = Passed \cup Snapshots
  PROVE  Missing' = Missing
<1>1. Numbers' = Numbers
  BY DEF Numbers
<1>2. Missing' = (Numbers \ (Passed \cup Snapshots \cup Entries \cup gone))'
  BY DEF Missing, Numbers, Passed, Entries
<1> QED
  BY <1>1, <1>2, MissingIs


AccountIInv == OrderIInv /\ ReplacedCounted /\ PassedOnce

LEMMA AccountTyped ==
  ASSUME AccountIInv
  PROVE  /\ MailTyped /\ MailOrder /\ SlotsNamed /\ GoneUnnamed /\ PassedNumbers /\ SlotsYounger
         /\ ReplacedCounted /\ PassedOnce /\ pc \in [Sender -> Pc] /\ entry \in [Sender -> Nat]
         /\ slot \in [Class -> Nat] /\ coalesced \in Nat
         /\ \A q \in Sender : Hand(q) /\ Choice(q)
  BY DEF AccountIInv, OrderIInv, MailOrder, Typed, MailTyped, SendersTyped

\* The retained snapshot o of a class is replaced by the number n.
LEMMA ReplaceAccounted ==
  ASSUME AccountIInv, NEW p \in Sender, pc[p] = "lock", NEW k \in Class, NEW n, n = Len(sent) + 1,
         sent' = Append(sent, [from |-> p, kind |-> k]), slot' = [slot EXCEPT ![k] = n],
         coalesced' = IF slot[k] = None THEN coalesced ELSE coalesced + 1,
         UNCHANGED <<ordered, delivered, entry, gone>>
  PROVE  ReplacedCounted'
<1>1. /\ MailTyped /\ SlotsNamed /\ GoneUnnamed /\ SlotsYounger /\ ReplacedCounted
      /\ slot \in [Class -> Nat] /\ coalesced \in Nat /\ \A q \in Sender : Hand(q)
  BY AccountTyped
<1>2. /\ Len(sent) \in Nat /\ Numbers' = Numbers \cup {n} /\ n \in Nat /\ n \notin Numbers
      /\ \A m \in Numbers : sent'[m] = sent[m] /\ m < n
      /\ sent'[n] = [from |-> p, kind |-> k] /\ None \notin Numbers /\ n # None
  <2>1. Len(sent) \in Nat
    BY <1>1 DEF MailTyped
  <2>2. n \in Nat /\ n \notin Numbers /\ n # None
    BY <2>1 DEF Numbers, None
  <2> QED
    BY <1>1, <2>1, <2>2, NumberGiven, NumbersFinite
<1>3. /\ Passed' = Passed /\ Entries' = Entries /\ gone' = gone
  BY DEF Passed, Entries
<1>4. Missing' = Numbers' \ (Passed \cup Snapshots' \cup Entries \cup gone)
  BY <1>3 DEF Missing, Numbers, Passed, Entries
<1>5. Missing = Numbers \ (Passed \cup Snapshots \cup Entries \cup gone)
  BY MissingIs
<1>6. PICK o : o = slot[k]
  OBVIOUS
<1>7. \A s \in Snapshots : s \in Numbers /\ s # o => s \in Snapshots'
  <2> SUFFICES ASSUME NEW c \in Class, slot[c] # None, slot[c] # o PROVE slot[c] \in Snapshots'
    BY DEF Snapshots
  <2>1. c # k /\ slot'[c] = slot[c]
    BY <1>1, <1>6
  <2> QED
    BY <2>1 DEF Snapshots
<1>8. Snapshots' \subseteq Snapshots \cup {n} /\ n \in Snapshots'
  BY <1>1, <1>2 DEF Snapshots
<1>9. CASE o = None
  <2>1. Missing' = Missing
    <3>1. \A s \in Snapshots : s # None
      BY DEF Snapshots
    <3>2. \A s \in Snapshots : s \in Numbers
      BY <1>1, SnapshotIs
    <3>3. Snapshots' = Snapshots \cup {n}
      BY <1>7, <1>8, <1>9, <3>1, <3>2
    <3> QED
      BY <1>2, <1>4, <1>5, <3>3
  <2>2. coalesced' = coalesced
    BY <1>6, <1>9
  <2> QED
    BY <1>1, <2>1, <2>2, MissingStaysNext
<1>10. CASE o # None
  <2>1. o \in Snapshots /\ o \in Numbers /\ sent[o].kind = k /\ o \in Nat
    BY <1>1, <1>6, <1>10, SnapshotIs DEF Snapshots, SlotsNamed
  <2>2. o \notin Snapshots'
    <3> SUFFICES ASSUME NEW c \in Class, slot'[c] = o PROVE FALSE
      BY DEF Snapshots
    <3>1. c # k
      BY <1>1, <1>2, <2>1
    <3>2. slot[c] = o
      BY <1>1, <3>1
    <3> QED
      BY <1>1, <1>10, <2>1, <3>1, <3>2 DEF SlotsNamed
  <2>3. o \notin Passed /\ o \notin gone
    BY <1>1, <2>1, SnapshotNotPassed DEF GoneUnnamed
  <2>4. o \notin Entries
    BY <1>1, <1>10, <2>1 DEF Entries, Hand
  <2>5. Missing' = Missing \cup {o} /\ o \notin Missing
    <3>1. \A s \in Snapshots : s \in Numbers
      BY <1>1, SnapshotIs
    <3> QED
      BY <1>2, <1>4, <1>5, <1>7, <1>8, <2>1, <2>2, <2>3, <2>4, <3>1
  <2>6. Cardinality(Missing') = coalesced + 1
    <3>1. IsFiniteSet(Missing)
      BY <1>1, <1>5, NumbersFinite, FS_Subset
    <3>2. Cardinality(Missing) = coalesced
      BY <1>1 DEF ReplacedCounted
    <3> QED
      BY <2>5, <3>1, <3>2, FS_AddElement
  <2>7. coalesced' = coalesced + 1
    BY <1>6, <1>10
  <2>8. Len(sent') = n
    <3>1. sent \in Seq(Event)
      BY <1>1 DEF MailTyped
    <3> QED
      BY <3>1
  <2>9. ASSUME NEW m \in Missing'
        PROVE  /\ sent'[m].kind \in Class
               /\ \E j \in (m + 1)..Len(sent') : sent'[j].kind = sent'[m].kind
    <3>1. CASE m = o
      <4>1. n \in (o + 1)..n
        BY <1>2, <2>1
      <4>2. sent'[n].kind = k
        BY <1>2
      <4>3. sent'[o].kind = k
        BY <1>2, <2>1
      <4> QED
        BY <2>8, <3>1, <4>1, <4>2, <4>3
    <3>2. CASE m # o
      <4>1. m \in Missing /\ m \in Numbers /\ m \in Nat
        BY <1>1, <1>5, <2>5, <2>9, <3>2, NumbersFinite
      <4>2. PICK j \in (m + 1)..Len(sent) : sent[j].kind = sent[m].kind /\ sent[m].kind \in Class
        BY <1>1, <4>1 DEF ReplacedCounted
      <4>3. j \in Numbers /\ j \in (m + 1)..n
        BY <1>2, <4>1, <4>2 DEF Numbers
      <4> QED
        BY <1>2, <2>8, <4>1, <4>2, <4>3
    <3> QED
      BY <3>1, <3>2
  <2> QED
    BY <2>6, <2>7, <2>9 DEF ReplacedCounted
<1> QED
  BY <1>9, <1>10

LEMMA AcceptAccounted ==
  ASSUME AccountIInv, NEW p \in Sender, Accept(p) PROVE ReplacedCounted' /\ PassedOnce'
<1>0. PICK n : n = Len(sent) + 1
  OBVIOUS
<1>1. /\ pc[p] = "lock" /\ sent' = Append(sent, [from |-> p, kind |-> kind[p]])
      /\ Replace(p, n) \/ DropLog(p, n) \/ Order(p, n)
      /\ UNCHANGED <<ordered, delivered>>
  BY <1>0 DEF Accept, At, Replace, DropLog, Order
<1>2. /\ MailTyped /\ ReplacedCounted /\ PassedOnce /\ entry \in [Sender -> Nat] /\ Hand(p)
  BY AccountTyped
<1>3. PassedOnce'
  BY <1>1, <1>2 DEF PassedOnce, Passed
<1>4. CASE Replace(p, n)
  <2>1. PICK k : k = kind[p]
    OBVIOUS
  <2> QED
    BY <1>0, <1>1, <1>3, <1>4, <2>1, ReplaceAccounted DEF Replace
<1>5. CASE DropLog(p, n) \/ Order(p, n)
  <2>1. /\ UNCHANGED <<slot, coalesced>>
        /\ \/ gone' = gone \cup {n} /\ entry' = entry
           \/ gone' = gone /\ entry' = [entry EXCEPT ![p] = n]
    BY <1>5 DEF DropLog, Order
  <2>2. Numbers' = Numbers \cup {n} /\ n \notin Numbers /\ None \notin Numbers
    <3>1. Len(sent) \in Nat
      BY <1>2 DEF MailTyped
    <3>2. n \notin Numbers
      BY <1>0, <3>1 DEF Numbers
    <3> QED
      BY <1>0, <1>1, <1>2, <3>2, NumberGiven, NumbersFinite
  <2>3. Passed' = Passed /\ Snapshots' = Snapshots
    BY <1>1, <2>1 DEF Passed, Snapshots
  <2>4. entry[p] = None
    BY <1>1, <1>2 DEF Hand, Active
  <2>5. (Entries \cup gone)' \cup {None} = Entries \cup gone \cup {n, None}
    <3>1. CASE gone' = gone \cup {n} /\ entry' = entry
      BY <3>1 DEF Entries
    <3>2. CASE gone' = gone /\ entry' = [entry EXCEPT ![p] = n]
      <4>1. \A q \in Sender : entry'[q] = IF q = p THEN n ELSE entry[q]
        BY <1>2, <3>2
      <4>2. Entries' \subseteq Entries \cup {n} /\ Entries \subseteq Entries' \cup {None} /\ n \in Entries'
        BY <2>4, <4>1 DEF Entries
      <4> QED
        BY <3>2, <4>2
    <3> QED
      BY <2>1, <3>1, <3>2
  <2>6. Missing' = Missing
    <3>1. Missing' = (Numbers \ (Passed \cup Snapshots \cup Entries \cup gone))'
      BY DEF Missing, Numbers, Passed, Entries
    <3>2. \A m : m \in Missing' <=>
                 m \in Numbers' /\ m \notin Passed \cup Snapshots /\ m \notin (Entries \cup gone)'
      BY <2>3, <3>1
    <3>3. \A m \in Numbers : m \in (Entries \cup gone)' <=> m \in Entries \cup gone
      BY <2>2, <2>5
    <3>4. n \in (Entries \cup gone)'
      BY <1>2, <2>1 DEF Entries
    <3> QED
      BY <2>2, <3>2, <3>3, <3>4, MissingIs
  <2> QED
    BY <1>1, <1>2, <1>3, <2>1, <2>6, MissingStaysNext
<1> QED
  BY <1>1, <1>4, <1>5

LEMMA MoveSnapshotAccounted ==
  ASSUME AccountIInv, NEW p \in Sender, MoveSnapshot(p) PROVE ReplacedCounted' /\ PassedOnce'
<1>0. PICK c : c = chosen[p]
  OBVIOUS
<1>1. /\ c \in Snapshots /\ ordered' = Append(ordered, c) /\ slot' = TakeSnapshot(c)
      /\ UNCHANGED <<sent, coalesced, entry, delivered, gone>>
  BY <1>0 DEF MoveSnapshot
<1>2. /\ MailTyped /\ SlotsNamed /\ PassedNumbers /\ SlotsYounger /\ ReplacedCounted /\ PassedOnce
      /\ ordered \in Seq(Nat)
  BY AccountTyped DEF MailTyped
<1>3. c \in Nat /\ c \notin Passed
  BY <1>1, <1>2, SnapshotIs, SnapshotNotPassed
<1>4. Passed' = Passed \cup {c} /\ Snapshots' = Snapshots \ {c}
  BY <1>1, <1>2, <1>3, ElementsAppended, SnapshotTaken DEF Passed
<1>5. PassedOnce'
  BY <1>1, <1>2, <1>3, <1>4, PassesOnce
<1>6. Missing' = Missing
  BY <1>1, <1>4, MissingKept DEF Entries
<1> QED
  BY <1>1, <1>2, <1>5, <1>6, MissingStays

LEMMA PushAccounted ==
  ASSUME AccountIInv, NEW p \in Sender, Push(p) PROVE ReplacedCounted' /\ PassedOnce'
<1>0. PICK n : n = entry[p]
  OBVIOUS
<1>1. /\ pc[p] = "room" /\ ordered' = Append(ordered, n) /\ entry' = [entry EXCEPT ![p] = None]
      /\ UNCHANGED <<sent, slot, coalesced, delivered, gone>>
  BY <1>0 DEF Push, HasRoom, At, Leave
<1>2. /\ MailTyped /\ PassedNumbers /\ ReplacedCounted /\ PassedOnce /\ ordered \in Seq(Nat)
      /\ entry \in [Sender -> Nat] /\ Hand(p)
  BY AccountTyped DEF MailTyped
<1>3. n \in Nat /\ n \notin Passed
  <2>1. n \in Nat /\ sent[n].from = p /\ \A m \in Passed : sent[m].from = p => m < n
    BY <1>0, <1>1, <1>2 DEF Hand, Active
  <2>2. ~(n < n)
    BY <2>1
  <2> QED
    BY <2>1, <2>2
<1>4. Passed' = Passed \cup {n} /\ Snapshots' = Snapshots
  BY <1>1, <1>2, <1>3, ElementsAppended DEF Passed, Snapshots
<1>5. PassedOnce'
  BY <1>1, <1>2, <1>3, <1>4, PassesOnce
<1>6. (Passed \cup gone)' = Passed \cup gone \cup {entry[p]}
  BY <1>0, <1>1, <1>4
<1>7. Missing' = Missing
  BY <1>1, <1>2, <1>4, <1>6, EntryHandedOn
<1> QED
  BY <1>1, <1>2, <1>5, <1>7, MissingStays

LEMMA GiveUpAccounted ==
  ASSUME AccountIInv, NEW p \in Sender, gone' = gone \cup {entry[p]},
         entry' = [entry EXCEPT ![p] = None], UNCHANGED <<mailVars, delivered>>
  PROVE  ReplacedCounted' /\ PassedOnce'
<1>1. MailTyped /\ ReplacedCounted /\ PassedOnce /\ entry \in [Sender -> Nat]
  BY AccountTyped
<1>2. /\ Passed' = Passed /\ Snapshots' = Snapshots
      /\ UNCHANGED <<sent, coalesced, ordered>>
  BY DEF Passed, Snapshots, mailVars
<1>3. Missing' = Missing
  BY <1>1, <1>2, EntryHandedOn
<1> QED
  BY <1>1, <1>2, <1>3, MissingStays DEF PassedOnce

LEMMA RestAccounted ==
  ASSUME AccountIInv, UNCHANGED <<mailVars, delivered, gone, entry>>
  PROVE  ReplacedCounted' /\ PassedOnce'
<1>1. ReplacedCounted /\ PassedOnce
  BY DEF AccountIInv
<1>2. /\ Passed' = Passed /\ Snapshots' = Snapshots /\ Entries' = Entries
      /\ UNCHANGED <<sent, coalesced, ordered>>
  BY DEF Passed, Snapshots, Entries, mailVars
<1>3. Missing' = Missing
  BY <1>2, MissingKept
<1> QED
  BY <1>1, <1>2, <1>3, MissingStays DEF PassedOnce

LEMMA ReceiveSnapshotAccounted ==
  ASSUME AccountIInv, ReceiveSnapshot PROVE ReplacedCounted' /\ PassedOnce'
<1>0. PICK c : c = Oldest
  OBVIOUS
<1>1. /\ Snapshots # {} /\ slot' = TakeSnapshot(c) /\ delivered' = Append(delivered, c)
      /\ UNCHANGED <<sent, coalesced, ordered, entry, gone>>
  BY <1>0 DEF ReceiveSnapshot, SnapshotFirst, Handle, sendVars
<1>2. /\ MailTyped /\ SlotsNamed /\ PassedNumbers /\ SlotsYounger /\ ReplacedCounted /\ PassedOnce
      /\ delivered \in Seq(Nat)
  BY AccountTyped DEF MailTyped
<1>3. c \in Snapshots /\ c \in Nat /\ c \notin Passed
  BY <1>0, <1>1, <1>2, OldestIs, SnapshotNotPassed
<1>4. Passed' = Passed \cup {c} /\ Snapshots' = Snapshots \ {c}
  BY <1>1, <1>2, <1>3, ElementsAppended, SnapshotTaken DEF Passed
<1>5. PassedOnce'
  BY <1>1, <1>2, <1>3, <1>4, PassesOnce
<1>6. Missing' = Missing
  BY <1>1, <1>3, <1>4, MissingKept DEF Entries
<1> QED
  BY <1>1, <1>2, <1>5, <1>6, MissingStays

LEMMA ReceiveOrderedAccounted ==
  ASSUME AccountIInv, ReceiveOrdered PROVE ReplacedCounted' /\ PassedOnce'
<1>0. PICK h : h = Head(ordered)
  OBVIOUS
<1>1. /\ ordered # <<>> /\ ordered' = Tail(ordered) /\ delivered' = Append(delivered, h)
      /\ UNCHANGED <<sent, coalesced, slot, entry, gone>>
  BY <1>0 DEF ReceiveOrdered, Handle
<1>2. /\ ReplacedCounted /\ PassedOnce /\ delivered \in Seq(Nat) /\ ordered \in Seq(Nat)
  BY AccountTyped DEF MailTyped
<1>3. h \in Nat /\ Elements(ordered) = Elements(ordered') \cup {h}
  BY <1>0, <1>1, <1>2, ElementsTaken
<1>4. Elements(delivered') = Elements(delivered) \cup {h} /\ Passed' = Passed
  BY <1>1, <1>2, <1>3, ElementsAppended DEF Passed
<1>5. Len(delivered') + Len(ordered') = Len(delivered) + Len(ordered)
  <2>1. /\ Len(delivered') = Len(delivered) + 1 /\ Len(ordered') = Len(ordered) - 1
        /\ Len(delivered) \in Nat /\ Len(ordered) \in Nat
    BY <1>1, <1>2, <1>3
  <2> QED
    BY <2>1
<1>6. Missing' = Missing
  BY <1>1, <1>4, MissingKept DEF Entries, Snapshots
<1> QED
  BY <1>1, <1>2, <1>4, <1>5, <1>6, MissingStays DEF PassedOnce

LEMMA StepAccounted == ASSUME AccountIInv, [Next]_vars PROVE ReplacedCounted' /\ PassedOnce'
<1>1. ASSUME NEW p \in Sender, Ask(p) \/ Emit(p) \/ Send(p) PROVE ReplacedCounted' /\ PassedOnce'
  <2>1. CASE Ask(p) \/ Emit(p) \/ CheckOpen(p) \/ Choose(p) \/ Park(p) \/ Resume(p)
    BY <2>1, RestAccounted DEF Ask, sendVars, Emit, CheckOpen, Choose, Park, Resume
  <2>2. CASE LoseSnapshot(p)
    BY <2>2, GiveUpAccounted DEF LoseSnapshot, Leave
  <2>3. CASE Full(p)
    <3>1. CASE open
      BY <2>3, <3>1, RestAccounted DEF Full
    <3>2. CASE ~open
      BY <2>3, <3>2, GiveUpAccounted DEF Full, Leave
    <3> QED
      BY <3>1, <3>2
  <2> QED
    BY <1>1, <2>1, <2>2, <2>3, AcceptAccounted, MoveSnapshotAccounted, PushAccounted DEF Send
<1>2. CASE Frame \/ EndFrame \/ Close \/ NotifyAll \/ UNCHANGED vars
  BY <1>2, RestAccounted DEF Frame, EndFrame, Close, NotifyAll, vars, sendVars
<1> QED
  BY <1>1, <1>2, ReceiveSnapshotAccounted, ReceiveOrderedAccounted DEF Next, Ui

LEMMA AccountAlways == Spec => []AccountIInv
<1>1. Init => ReplacedCounted /\ PassedOnce
  <2> SUFFICES ASSUME Init PROVE ReplacedCounted /\ PassedOnce
    OBVIOUS
  <2>1. sent = <<>> /\ delivered = <<>> /\ ordered = <<>> /\ coalesced = 0
    BY DEF Init
  <2>2. Missing = {} /\ Passed = {} /\ Len(delivered) = 0 /\ Len(ordered) = 0
    BY <2>1 DEF Missing, Passed, Elements
  <2> QED
    BY <2>1, <2>2, FS_EmptySet DEF ReplacedCounted, PassedOnce
<1>2. AccountIInv /\ [Next]_vars => ReplacedCounted' /\ PassedOnce'
  BY StepAccounted
<1> DEFINE Counts == ReplacedCounted /\ PassedOnce
<1>3. Init => Counts
  BY <1>1
<1>4. OrderIInv /\ Counts /\ [Next]_vars => Counts'
  BY <1>2 DEF AccountIInv
<1>5. OrderIInv /\ Counts => AccountIInv
  BY DEF AccountIInv
<1> HIDE DEF Counts
<1> QED
  BY <1>3, <1>4, <1>5, OrderAlways, PTL DEF Spec

\* No event disappears in the mailbox: what is neither delivered, nor waiting,
\* nor in the hands of a sender, nor given up by one is a snapshot that a newer
\* one of its class replaced, and each of those was counted (coalesced_snapshots);
\* and no event is put into the lane or handed to the UI twice.
THEOREM AlwaysAccounted == Spec => []Accounted
<1>1. AccountIInv => Accounted
  BY DEF AccountIInv, Accounted, ReplacedCounted, PassedOnce, Passed
<1> QED
  BY <1>1, AccountAlways, PTL
============================================================================
