------------------------------ MODULE AppDriver ------------------------------
(***************************************************************************)
(* The app's connection to its server (crates/hotki-app runtime.rs,        *)
(* connection_driver/mod.rs, health.rs and the observer of permissions.rs; *)
(* crates/hotki-server managed_server.rs, process.rs and client.rs).       *)
(*                                                                         *)
(* The driver is one task.  It takes the controls of the UI where it       *)
(* waits for them: for the connect task, for an event of the server, or    *)
(* for a reason to try again; never while it waits for an answer of the    *)
(* server.  The connect task spawns a server process and tries to reach    *)
(* it; whoever drops the handle of a process that runs stops it at once.   *)
(***************************************************************************)
EXTENDS Naturals, Sequences

CONSTANTS
  EventTap,      \* the server is to watch the keyboard
  MaxSpawns,     \* bound: server processes
  MaxControls,   \* bound: controls sent by the user
  MaxFlips       \* bound: changes of the macOS permissions

ASSUME DriverAssumption ==
  EventTap \in BOOLEAN /\ MaxSpawns \in Nat /\ MaxControls \in Nat /\ MaxFlips \in Nat

Process == 1..MaxSpawns

VARIABLES
  granted,       \* both permissions are granted
  lastSeen,      \* PermissionsHelp::last_reported_status
  ctrl,          \* the channel of ControlMsg
  phase,         \* where the driver is
  back,          \* the phase it returns to when a reload is answered
  health,        \* RuntimeHealth::state
  pending,       \* pending_controls
  connect,       \* the connect task
  spawned,       \* processes spawned so far, the newest being the driver's
  proc,          \* process -> its state
  closed,        \* UiCommand::Shutdown was sent
  controls, flips    \* counters of the bounds

uiVars == <<granted, lastSeen, ctrl, controls, flips>>
procVars == <<spawned, proc>>
driverVars == <<phase, back, health, pending, closed>>
appVars == <<uiVars, driverVars, connect, procVars>>

\* A blocked state, and one that shuts down, has a live server or not.
Health(state, live) == [state |-> state, live |-> live]

AppInit ==
  /\ granted \in BOOLEAN /\ lastSeen = "nothing" /\ ctrl = <<>>
  /\ phase = "top" /\ back = "driving"
  /\ health = Health("Initial", FALSE)
  /\ pending = <<>>
  /\ connect = "none"
  /\ spawned = 0 /\ proc = [p \in Process |-> "unborn"]
  /\ closed = FALSE
  /\ controls = 0 /\ flips = 0

-----------------------------------------------------------------------------
(* RuntimeHealth *)

IsConnected ==
  \/ health.state \in {"Running", "Reloading", "Rejected"}
  \/ health.state = "Blocked" /\ health.live

Block == health' = Health("Blocked", IsConnected)
Queue == health' = Health("Queued", FALSE)
Disconnect == health' = Health("Disconnected", FALSE)
Run == health' = Health("Running", FALSE)
Reject == health' = Health("Rejected", FALSE)
Reloading == health' = Health("Reloading", FALSE)
BeginShutdown == health' = Health("ShuttingDown", IsConnected)
Connecting ==
  health' = Health(IF health.state = "Initial" THEN "Initial" ELSE "Reconnecting", FALSE)

ShuttingDown == health.state = "ShuttingDown"
Ungranted == EventTap /\ ~granted

-----------------------------------------------------------------------------
(* The user, macOS and the UI. *)

Flip ==
  /\ flips < MaxFlips
  /\ flips' = flips + 1
  /\ granted' = ~granted
  /\ UNCHANGED <<lastSeen, ctrl, controls, driverVars, connect, procVars>>

Seen == IF granted THEN "granted" ELSE "missing"

\* The UI looks at start, when Hotki is activated, and while the help is shown; it
\* reports what is new.
Observe ==
  /\ ~closed
  /\ lastSeen # Seen
  /\ lastSeen' = Seen
  /\ ctrl' = Append(ctrl, Seen)
  /\ UNCHANGED <<granted, controls, flips, driverVars, connect, procVars>>

Command(what) ==
  /\ ~closed
  /\ controls < MaxControls
  /\ controls' = controls + 1
  /\ ctrl' = Append(ctrl, what)
  /\ UNCHANGED <<granted, lastSeen, flips, driverVars, connect, procVars>>

-----------------------------------------------------------------------------
(* Server processes. *)

Held == IF spawned = 0 THEN {} ELSE {spawned}

\* Defect: a process that is dropped is sent SIGTERM, and not waited for.
DropAndForget ==
  proc' = [p \in Process |-> IF p \in Held /\ proc[p] = "alive" THEN "alive" ELSE proc[p]]

\* ServerProcess::drop: SIGTERM, and SIGKILL if that is not enough.
DropProcess ==
  proc' = [p \in Process |-> IF p \in Held /\ proc[p] = "alive" THEN "dead" ELSE proc[p]]

\* A server ends: of itself, of a crash, or as it was told to.
Exit(p) ==
  /\ proc[p] \in {"alive", "told"}
  /\ proc' = [proc EXCEPT ![p] = "dead"]
  /\ UNCHANGED <<uiVars, driverVars, connect, spawned>>

-----------------------------------------------------------------------------
(* The connect task: ManagedServer::connect. *)

Spawn ==
  /\ connect = "started"
  /\ \/ /\ spawned < MaxSpawns
        /\ spawned' = spawned + 1
        /\ proc' = [proc EXCEPT ![spawned + 1] = "alive"]
        /\ connect' = "trying"
     \/ /\ connect' = "failed"
        /\ UNCHANGED procVars
  /\ UNCHANGED <<uiVars, driverVars>>

Reach ==
  /\ connect = "trying" /\ proc[spawned] = "alive"
  /\ connect' = "connected"
  /\ UNCHANGED <<uiVars, driverVars, procVars>>

\* The server has exited, or the attempts are used up and it is sent SIGTERM.
GiveUp ==
  /\ connect = "trying"
  /\ IF proc[spawned] = "dead"
       THEN connect' = "failed" /\ UNCHANGED proc
       ELSE connect' = "stopping" /\ proc' = [proc EXCEPT ![spawned] = "told"]
  /\ UNCHANGED <<uiVars, driverVars, spawned>>

\* terminate_child_async: it exits in time, or is killed.
Stopped ==
  /\ connect = "stopping"
  /\ proc' = [proc EXCEPT ![spawned] = "dead"]
  /\ connect' = "failed"
  /\ UNCHANGED <<uiVars, driverVars, spawned>>

-----------------------------------------------------------------------------
(* The driver. *)

Goto(where) == phase' = where

\* run: out of the loop, or connect.
Finish ==
  /\ phase = "top" /\ ShuttingDown
  /\ Goto("finished")
  /\ closed' = TRUE
  /\ UNCHANGED <<uiVars, back, health, pending, connect, procVars>>

\* connect: the first look at the permissions.
Refrain ==
  /\ phase = "top" /\ ~ShuttingDown /\ Ungranted
  /\ Block
  /\ Goto("waiting")
  /\ UNCHANGED <<uiVars, back, pending, closed, connect, procVars>>

StartConnect ==
  /\ phase = "top" /\ ~ShuttingDown /\ ~Ungranted
  /\ Connecting
  /\ connect' = "started"
  /\ Goto("connecting")
  /\ UNCHANGED <<uiVars, back, pending, closed, procVars>>

\* The task's result, looked at before the controls; a client in hand, the second
\* look at the permissions.
ConnectEnds ==
  /\ phase = "connecting" /\ connect \in {"connected", "failed"}
  /\ connect' = "none"
  /\ \/ /\ connect = "failed"
        /\ Disconnect /\ Goto("waiting")
        /\ UNCHANGED proc
     \/ /\ connect = "connected" /\ Ungranted
        /\ Block /\ Goto("waiting")
        /\ DropProcess
     \/ /\ connect = "connected" /\ ~Ungranted
        /\ Goto("activating")
        /\ UNCHANGED <<health, proc>>
  /\ UNCHANGED <<uiVars, back, pending, closed, spawned>>

Takes(c) == ctrl # <<>> /\ Head(ctrl) = c /\ ctrl' = Tail(ctrl)
UiKeeps == UNCHANGED <<granted, lastSeen, controls, flips>>

\* handle_local_control of a report that a permission is missing.
ObserveMissing ==
  IF health.state = "Rejected" THEN UNCHANGED health ELSE Block

\* Defect: whatever is blocked, a grant asks for a new connection.
GrantAlwaysQueues == Queue

\* ... and that all are granted.
ObserveGranted ==
  CASE IsConnected /\ health.state = "Blocked" -> Run
    [] ~IsConnected /\ health.state \in {"Disconnected", "Initial", "Blocked"} -> Queue
    [] OTHER -> UNCHANGED health

\* Awaiting the connect task: a missing permission and a shutdown cancel it; what is
\* for the server is kept.
ConnectingControl ==
  /\ phase = "connecting" /\ connect \notin {"connected", "failed"}
  /\ \/ /\ Takes("missing")
        /\ ObserveMissing
        /\ Goto(IF EventTap THEN "cancelling" ELSE "connecting")
        /\ UNCHANGED pending
     \/ /\ Takes("granted")
        /\ ObserveGranted
        /\ UNCHANGED <<phase, pending>>
     \/ \E c \in {"reload", "inject"} :
          /\ Takes(c)
          /\ pending' = Append(pending, c)
          /\ Queue
          /\ UNCHANGED phase
     \/ /\ Takes("shutdown")
        /\ BeginShutdown
        /\ Goto("cancelling")
        /\ UNCHANGED pending
  /\ UiKeeps
  /\ UNCHANGED <<back, closed, connect, procVars>>

\* Defect: run does not look for a shutdown again before it waits.
AlwaysWaits == "waiting"

AfterConnect == IF ShuttingDown THEN "top" ELSE "waiting"

\* ConnectTask::cancel: the task is dropped where it waits, with the process or the
\* client it holds; a process it was stopping is on its own.
Cancelled ==
  /\ phase = "cancelling"
  /\ connect' = "none"
  /\ IF connect \in {"trying", "connected"} THEN DropProcess ELSE UNCHANGED proc
  /\ Goto(AfterConnect)
  /\ UNCHANGED <<uiVars, back, health, pending, closed, spawned>>

\* wait_for_retry_signal
WaitingControl ==
  /\ phase = "waiting"
  /\ \/ /\ Takes("missing")
        /\ ObserveMissing
        /\ UNCHANGED <<phase, pending>>
     \/ /\ Takes("granted")
        /\ ObserveGranted
        /\ Goto(IF health.state \in {"Disconnected", "Initial", "Blocked"} THEN "top" ELSE "waiting")
        /\ UNCHANGED pending
     \/ \E c \in {"reload", "inject"} :
          /\ Takes(c)
          /\ pending' = Append(pending, c)
          /\ Queue
          /\ Goto("top")
     \/ /\ Takes("shutdown")
        /\ BeginShutdown
        /\ Goto("top")
        /\ UNCHANGED pending
  /\ UiKeeps
  /\ UNCHANGED <<back, closed, connect, procVars>>

\* activate_config has its answer: the server takes the file, or refuses it and keeps
\* what it runs, or is gone.
Activated ==
  \/ proc[spawned] = "alive" /\ Run
  \/ Reject

ActivateEnds ==
  /\ phase = "activating"
  /\ Activated
  /\ Goto("draining")
  /\ UNCHANGED <<uiVars, back, pending, closed, connect, procVars>>

\* handle_server_control; a key is injected and that is all.
ServerControl(c) ==
  CASE c = "inject" -> UNCHANGED <<health, phase, back>>
    [] c = "reload" /\ Ungranted -> Block /\ UNCHANGED <<phase, back>>
    [] c = "reload" /\ ~Ungranted -> Reloading /\ back' = phase /\ Goto("reloading")

ReloadEnds ==
  /\ phase = "reloading"
  /\ Activated
  /\ Goto(back)
  /\ UNCHANGED <<uiVars, back, pending, closed, connect, procVars>>

Drain ==
  /\ phase = "draining" /\ pending # <<>>
  /\ pending' = Tail(pending)
  /\ ServerControl(Head(pending))
  /\ UNCHANGED <<uiVars, closed, connect, procVars>>

Drained ==
  /\ phase = "draining" /\ pending = <<>>
  /\ Goto("driving")
  /\ UNCHANGED <<uiVars, back, health, pending, closed, connect, procVars>>

DrivingControl ==
  /\ phase = "driving"
  /\ \/ /\ Takes("missing")
        /\ ObserveMissing
        /\ UNCHANGED <<phase, back>>
     \/ /\ Takes("granted")
        /\ ObserveGranted
        /\ UNCHANGED <<phase, back>>
     \/ \E c \in {"reload", "inject"} : Takes(c) /\ ServerControl(c)
     \/ /\ Takes("shutdown")
        /\ BeginShutdown
        /\ Goto("closing")
        /\ UNCHANGED back
  /\ UiKeeps
  /\ UNCHANGED <<pending, closed, connect, procVars>>

\* The heartbeat is late, or the connection lost: the client is dropped.
LoseConnection ==
  /\ phase = "driving"
  /\ Disconnect
  /\ DropProcess
  /\ Goto("top")
  /\ UNCHANGED <<uiVars, back, pending, closed, connect, spawned>>

\* The shutdown is acknowledged or not; the client is dropped either way.
CloseConnection ==
  /\ phase = "closing"
  /\ DropProcess
  /\ Goto("top")
  /\ UNCHANGED <<uiVars, back, health, pending, closed, connect, spawned>>

ConnectStep == Spawn \/ Reach \/ GiveUp \/ Stopped
DriverStep ==
  \/ Finish \/ Refrain \/ StartConnect \/ ConnectEnds \/ ConnectingControl \/ Cancelled
  \/ WaitingControl \/ ActivateEnds \/ ReloadEnds \/ Drain \/ Drained \/ DrivingControl
  \/ CloseConnection

AppNext ==
  \/ Flip \/ Observe
  \/ \E what \in {"reload", "inject", "shutdown"} : Command(what)
  \/ \E p \in Process : Exit(p)
  \/ ConnectStep \/ DriverStep \/ LoseConnection

\* The tasks run; an attempt to connect and a request to the server end one way or
\* another.  Nothing is assumed of a server that was told to exit.
AppFair == WF_appVars(ConnectStep) /\ WF_appVars(DriverStep)

AppSpec == AppInit /\ [][AppNext]_appVars /\ AppFair

-----------------------------------------------------------------------------
(* Properties *)

AppTypeOK ==
  /\ {granted, closed} \subseteq BOOLEAN
  /\ lastSeen \in {"nothing", "granted", "missing"}
  /\ ctrl \in Seq({"granted", "missing", "reload", "inject", "shutdown"})
  /\ phase \in {"top", "connecting", "cancelling", "waiting", "activating", "draining",
                "reloading", "driving", "closing", "finished"}
  /\ back \in {"draining", "driving"}
  /\ health \in [state : {"Initial", "Queued", "Reconnecting", "Running", "Reloading",
                          "Rejected", "Blocked", "Disconnected", "ShuttingDown"},
                 live : BOOLEAN]
  /\ pending \in Seq({"reload", "inject"})
  /\ connect \in {"none", "started", "trying", "stopping", "connected", "failed"}
  /\ spawned \in 0..MaxSpawns
  /\ proc \in [Process -> {"unborn", "alive", "told", "dead"}]

\* RuntimeHealth against the driver: what every surface shows as connected is exactly
\* what has a connection with a configuration tried on it, whatever the order in which
\* permissions, controls, results and losses come.
HealthTellsConnection ==
  IsConnected <=> phase \in {"draining", "reloading", "driving"}

\* ServerProcess::drop, ConnectTask::cancel and the order of run and finish_shutdown: a
\* server runs only while a connection or an attempt holds it, or after it was told to
\* exit.  In particular none is left when the UI closes or the app is told that a
\* permission is missing while it has no connection.
NoOrphanServer ==
  \A p \in Process : proc[p] = "alive" =>
    /\ p = spawned
    /\ \/ connect \in {"trying", "connected"}
       \/ phase \in {"activating", "draining", "reloading", "driving", "closing"}

\* finish_shutdown: a shutdown that was asked for comes to its end, from every phase.
ShutdownFinishes ==
  (\E i \in DOMAIN ctrl : ctrl[i] = "shutdown") ~> closed

=============================================================================
