----------------------------- MODULE ServerLife ------------------------------
(***************************************************************************)
(* The life of a hotkey server (crates/hotki-server server.rs, shutdown.rs,*)
(* loop_wake.rs, ipc/server.rs, ipc/service.rs and ipc/service/events).    *)
(*                                                                         *)
(* Three threads end it together.  The main thread runs the Tao event      *)
(* loop, which keeps the idle timer and takes the wake events the others   *)
(* post.  The IPC thread runs a single-threaded Tokio runtime: connections,*)
(* the event pipeline's tasks and the RPCs are interrupted only where they *)
(* await.  The third thread watches the parent process.  Any of them may   *)
(* ask for the shutdown, at any time and more than once.                   *)
(***************************************************************************)
EXTENDS Naturals, Sequences

CONSTANTS
  Conn,          \* connections ever made to the server
  HasParent      \* Server::parent_pid was given

ASSUME ServerAssumption == HasParent \in BOOLEAN

\* The pipeline's tasks that broadcast: queued UI events, and heartbeats.
Caster == {"fanout", "heartbeat"}
Tasks == Caster \union {"world"}

VARIABLES
  requested,     \* ShutdownCoordinator::requested
  idled,         \* it was the idle timer that asked first
  wake,          \* WakeEvents posted to the Tao loop
  loop,          \* the main thread
  turn,          \* an iteration of the loop has begun, and its end will be told
  gone,          \* client_disconnected
  deadline,      \* idle_deadline: none, or armed and ahead, or due
  timer,         \* IdleTimerState::armed, as the status RPC shows it
  parent,        \* the parent process lives
  watcher,       \* the parent watcher's thread
  ipc,           \* the IPC thread
  link,          \* connection -> its state
  clients,       \* ClientRegistry::clients
  engine,        \* the OnceCell's engine is there
  pipeline,      \* PipelineLifecycle
  cancel,        \* the pipeline's cancellation was sent
  task,          \* task -> off, waiting, casting or ended
  sends,         \* task -> the clients of its snapshot it has not sent to yet
  rpc            \* the shutdown RPC

idleVars == <<gone, deadline, timer>>
loopVars == <<loop, turn, idleVars>>
askVars == <<requested, idled, wake>>
watchVars == <<parent, watcher>>
pipeVars == <<pipeline, cancel, task, sends>>
serverVars == <<askVars, loopVars, watchVars, ipc, link, clients, engine, pipeVars, rpc>>

ServerInit ==
  /\ requested = FALSE /\ idled = FALSE /\ wake = <<>>
  /\ loop = "running" /\ turn = FALSE /\ gone = FALSE /\ deadline = "none" /\ timer = FALSE
  /\ parent = TRUE /\ watcher = IF HasParent THEN "watching" ELSE "ended"
  /\ ipc = "binding"
  /\ link = [c \in Conn |-> "new"]
  /\ clients = {}
  /\ engine = FALSE
  /\ pipeline = "ready" /\ cancel = FALSE
  /\ task = [t \in Tasks |-> "off"] /\ sends = [t \in Caster |-> {}]
  /\ rpc = "none"

\* post_user_event; a wake for the shutdown is one however often it is posted.
Post(e) ==
  wake' = IF e = "shutdown" /\ e \in {wake[i] : i \in DOMAIN wake} THEN wake ELSE Append(wake, e)

\* ShutdownCoordinator::request
Request ==
  /\ requested' = TRUE
  /\ Post("shutdown")

-----------------------------------------------------------------------------
(* The main thread: one callback of the Tao loop. *)

Disarm ==
  /\ deadline' = "none"
  /\ timer' = FALSE

\* The handling of the event itself, once the idle timer has been looked at.
Handle(e) ==
  CASE e = "connected" /\ gone -> gone' = FALSE /\ Disarm
    [] e = "disconnected" /\ ~gone -> gone' = TRUE /\ UNCHANGED <<deadline, timer>>
    [] OTHER -> UNCHANGED <<gone, deadline, timer>>

\* The closure given to event_loop.run, for the event e: a shutdown leaves the loop,
\* the idle deadline is armed or is due, and only then the event itself counts.
Callback(e) ==
  \/ /\ requested
     /\ loop' = "exiting"
     /\ UNCHANGED <<requested, idled, idleVars>>
  \/ /\ ~requested /\ gone /\ deadline = "due"
     /\ requested' = TRUE /\ idled' = TRUE
     /\ loop' = "exiting"
     /\ UNCHANGED idleVars
  \/ /\ ~requested /\ gone /\ deadline = "none" /\ e # "connected"
     /\ deadline' = "armed" /\ timer' = TRUE
     /\ UNCHANGED <<requested, idled, loop, gone>>
  \/ /\ ~requested
     /\ ~gone \/ deadline = "armed" \/ (deadline = "none" /\ e = "connected")
     /\ Handle(e)
     /\ UNCHANGED <<requested, idled, loop>>

InLoop == loop = "running" /\ UNCHANGED <<watchVars, ipc, link, clients, engine, pipeVars, rpc>>

Woken ==
  /\ InLoop /\ wake # <<>>
  /\ Callback(Head(wake))
  /\ wake' = Tail(wake)
  /\ turn' = TRUE

\* MainEventsCleared, and other events the system sends when it likes.
Cleared ==
  /\ InLoop /\ turn
  /\ Callback("cleared")
  /\ turn' = FALSE
  /\ UNCHANGED wake

SystemEvent ==
  /\ InLoop
  /\ Callback("system")
  /\ UNCHANGED <<wake, turn>>

\* The end of WaitUntil.
Expired ==
  /\ InLoop /\ deadline = "due"
  /\ Callback("expired")
  /\ turn' = TRUE
  /\ UNCHANGED wake

TimePasses ==
  /\ loop = "running" /\ deadline = "armed"
  /\ deadline' = "due"
  /\ UNCHANGED <<askVars, loop, turn, gone, timer, watchVars, ipc, link, clients, engine, pipeVars, rpc>>

\* LoopDestroyed: ask again, then join the watcher and the IPC thread.
LoopDestroyed ==
  /\ loop = "exiting"
  /\ Request
  /\ loop' = "joining"
  /\ UNCHANGED <<idled, turn, idleVars, watchVars, ipc, link, clients, engine, pipeVars, rpc>>

Joined ==
  /\ loop = "joining" /\ watcher = "ended" /\ ipc = "ended"
  /\ loop' = "done"
  /\ Disarm
  /\ UNCHANGED <<askVars, turn, gone, watchVars, ipc, link, clients, engine, pipeVars, rpc>>

-----------------------------------------------------------------------------
(* The watcher's thread. *)

ParentExits ==
  /\ HasParent /\ parent
  /\ parent' = FALSE
  /\ UNCHANGED <<askVars, loopVars, watcher, ipc, link, clients, engine, pipeVars, rpc>>

\* Defect: the thread that watched ends, and the server goes on.
ParentNoticed ==
  /\ watcher = "watching" /\ ~parent
  /\ watcher' = "ended"
  /\ UNCHANGED <<askVars, loopVars, parent, ipc, link, clients, engine, pipeVars, rpc>>

\* kqueue's exit event, or the poll that replaces it.
ParentGone ==
  /\ watcher = "watching" /\ ~parent
  /\ Request
  /\ watcher' = "ended"
  /\ UNCHANGED <<idled, loopVars, parent, ipc, link, clients, engine, pipeVars, rpc>>

\* Every 200 or 100 milliseconds it looks for a shutdown.
WatcherStops ==
  /\ watcher = "watching" /\ requested
  /\ watcher' = "ended"
  /\ UNCHANGED <<askVars, loopVars, parent, ipc, link, clients, engine, pipeVars, rpc>>

-----------------------------------------------------------------------------
(* The IPC thread: IPCServer::run. *)

Bind ==
  /\ ipc = "binding"
  /\ ipc' = "serving"
  /\ UNCHANGED <<askVars, loopVars, watchVars, link, clients, engine, pipeVars, rpc>>

\* The runtime or the socket is refused, or the listener fails.
IpcFails ==
  /\ ipc \in {"binding", "serving"}
  /\ Request
  /\ ipc' = "ended"
  /\ UNCHANGED <<idled, loopVars, watchVars, link, clients, engine, pipeVars, rpc>>

\* ShutdownCoordinator::wait, then EventPipeline::shutdown.  The RPC's handler may
\* have taken the tasks already, and then nobody waits for them here.
StopPipeline ==
  /\ clients' = {}
  /\ pipeline' = "stopped"
  /\ cancel' = (cancel \/ pipeline = "running")

Unserve ==
  /\ ipc = "serving" /\ requested
  /\ StopPipeline
  /\ ipc' = IF pipeline = "running" THEN "stopping" ELSE "stopped"
  /\ UNCHANGED <<askVars, loopVars, watchVars, link, engine, task, sends, rpc>>

TasksEnded == \A t \in Tasks : task[t] \in {"off", "ended"}

TasksJoined ==
  /\ ipc = "stopping" /\ TasksEnded
  /\ ipc' = "stopped"
  /\ UNCHANGED <<askVars, loopVars, watchVars, link, clients, engine, pipeVars, rpc>>

\* run returns; the runtime drops the tasks that are left.
IpcEnds ==
  /\ ipc = "stopped"
  /\ Request
  /\ ipc' = "ended"
  /\ rpc' = IF rpc = "none" THEN "none" ELSE "dropped"
  /\ UNCHANGED <<idled, loopVars, watchVars, link, clients, engine, pipeVars>>

-----------------------------------------------------------------------------
(* Connections. *)

Connect(c) ==
  /\ ipc = "serving" /\ link[c] = "new"
  /\ link' = [link EXCEPT ![c] = IF requested THEN "refused" ELSE "checked"]
  /\ UNCHANGED <<askVars, loopVars, watchVars, ipc, clients, engine, pipeVars, rpc>>

\* EventPipeline::start, of which only the first call finds the receiver.
StartPipeline ==
  /\ pipeline' = IF pipeline = "ready" THEN "running" ELSE pipeline
  /\ task' = IF pipeline = "ready" THEN [t \in Tasks |-> "waiting"] ELSE task
  /\ UNCHANGED <<cancel, sends>>

\* HotkeyService::connected after its test of the flag, which another thread may set
\* meanwhile: nothing in it waits.
Connected(c) ==
  /\ ipc \notin {"ended"} /\ link[c] = "checked"
  /\ link' = [link EXCEPT ![c] = "open"]
  /\ clients' = clients \union {c}
  /\ engine' = TRUE
  /\ IF engine THEN UNCHANGED pipeVars ELSE StartPipeline
  /\ Post("connected")
  /\ UNCHANGED <<requested, idled, loopVars, watchVars, ipc, rpc>>

\* The client closes, crashes or is killed.
Vanish(c) ==
  /\ link[c] = "open"
  /\ link' = [link EXCEPT ![c] = "dead"]
  /\ UNCHANGED <<askVars, loopVars, watchVars, ipc, clients, engine, pipeVars, rpc>>

-----------------------------------------------------------------------------
(* The pipeline's tasks. *)

\* A queued event, a heartbeat's turn: broadcast_event begins, unless the flag is up.
Cast(t) ==
  /\ task[t] = "waiting" /\ ~cancel /\ ~requested /\ ipc # "ended"
  /\ clients # {}
  /\ sends' = [sends EXCEPT ![t] = clients]
  /\ task' = [task EXCEPT ![t] = "casting"]
  /\ UNCHANGED <<askVars, loopVars, watchVars, ipc, link, clients, engine, pipeline, cancel, rpc>>

\* Defect: the loop hears of every client that goes.
RemoveAnnounced(c) ==
  /\ clients' = clients \ {c}
  /\ Post("disconnected")

\* Defect: nobody hears of the last one.
RemoveQuietly(c) ==
  /\ clients' = clients \ {c}
  /\ UNCHANGED wake

\* ClientRegistry::remove, and the wake event when that was the last.
Remove(c) ==
  /\ clients' = clients \ {c}
  /\ IF clients = {c} THEN Post("disconnected") ELSE UNCHANGED wake

\* A send is done, or fails as the client is gone.
Sent(t, c) ==
  /\ task[t] = "casting" /\ c \in sends[t] /\ ipc # "ended"
  /\ IF link[c] = "open" THEN UNCHANGED <<clients, wake>> ELSE Remove(c)
  /\ sends' = [sends EXCEPT ![t] = @ \ {c}]
  /\ task' = [task EXCEPT ![t] = IF sends[t] = {c} THEN "waiting" ELSE "casting"]
  /\ UNCHANGED <<requested, idled, loopVars, watchVars, ipc, link, engine, pipeline, cancel, rpc>>

\* The cancellation, or the flag when there is something to do.
TaskEnds(t) ==
  /\ task[t] = "waiting" /\ (cancel \/ requested) /\ ipc # "ended"
  /\ task' = [task EXCEPT ![t] = "ended"]
  /\ UNCHANGED <<askVars, loopVars, watchVars, ipc, link, clients, engine, pipeline, cancel, sends, rpc>>

-----------------------------------------------------------------------------
(* The shutdown RPC. *)

\* handle_shutdown_request asks for the shutdown, takes the tasks and joins them.
ShutdownRpc ==
  /\ ipc = "serving" /\ rpc = "none"
  /\ \E c \in Conn : link[c] = "open"
  /\ Request
  /\ StopPipeline
  /\ rpc' = IF pipeline = "running" THEN "joining" ELSE "answered"
  /\ UNCHANGED <<idled, loopVars, watchVars, ipc, link, engine, task, sends>>

RpcAnswers ==
  /\ rpc = "joining" /\ TasksEnded /\ ipc # "ended"
  /\ rpc' = "answered"
  /\ UNCHANGED <<askVars, loopVars, watchVars, ipc, link, clients, engine, pipeVars>>

-----------------------------------------------------------------------------
TaskStep(t) == TaskEnds(t) \/ (t \in Caster /\ (Cast(t) \/ \E c \in Conn : Sent(t, c)))

ServerNext ==
  \/ Woken \/ Cleared \/ SystemEvent \/ Expired \/ TimePasses \/ LoopDestroyed \/ Joined
  \/ ParentExits \/ ParentGone \/ WatcherStops
  \/ Bind \/ IpcFails \/ Unserve \/ TasksJoined \/ IpcEnds
  \/ \E c \in Conn : Connect(c) \/ Connected(c) \/ Vanish(c)
  \/ \E t \in Tasks : TaskStep(t)
  \/ ShutdownRpc \/ RpcAnswers

\* The threads run, time passes, a broadcast's sends end one way or the other, and
\* the heartbeat comes round again.
ServerFair ==
  /\ WF_serverVars(Woken) /\ WF_serverVars(Cleared)
  /\ WF_serverVars(Expired) /\ WF_serverVars(TimePasses)
  /\ WF_serverVars(LoopDestroyed) /\ WF_serverVars(Joined)
  /\ WF_serverVars(ParentGone) /\ WF_serverVars(WatcherStops)
  /\ WF_serverVars(Bind) /\ WF_serverVars(Unserve)
  /\ WF_serverVars(TasksJoined) /\ WF_serverVars(IpcEnds)
  /\ WF_serverVars(RpcAnswers)
  /\ \A c \in Conn : WF_serverVars(Connected(c))
  /\ \A t \in Tasks : WF_serverVars(TaskEnds(t))
  /\ WF_serverVars(Cast("heartbeat"))
  /\ \A t \in Caster, c \in Conn : WF_serverVars(Sent(t, c))

ServerSpec == ServerInit /\ [][ServerNext]_serverVars /\ ServerFair

-----------------------------------------------------------------------------
(* Properties *)

\* The states of the threads, the timer, the connections and the pipeline.
ServerTypeOK ==
  /\ {requested, idled, gone, timer, parent, engine, cancel} \subseteq BOOLEAN
  /\ \A i \in DOMAIN wake : wake[i] \in {"connected", "disconnected", "shutdown"}
  /\ loop \in {"running", "exiting", "joining", "done"}
  /\ deadline \in {"none", "armed", "due"}
  /\ watcher \in {"watching", "ended"}
  /\ ipc \in {"binding", "serving", "stopping", "stopped", "ended"}
  /\ link \in [Conn -> {"new", "checked", "refused", "open", "dead"}]
  /\ clients \subseteq {c \in Conn : link[c] \in {"open", "dead"}}
  /\ pipeline \in {"ready", "running", "stopped"}
  /\ task \in [Tasks -> {"off", "waiting", "casting", "ended"}]
  /\ sends \in [Caster -> SUBSET Conn]
  /\ rpc \in {"none", "joining", "answered", "dropped"}

\* ClientRegistry::remove and the loop: an idle shutdown comes while no client is
\* registered, or at the latest while the wake event of the new one is on its way, in
\* whatever order the two broadcasts find the clients that are gone.
IdleOnlyWhenAlone ==
  [][~idled /\ idled' => clients = {} \/ \E i \in DOMAIN wake : wake[i] = "connected"]_serverVars

\* ShutdownCoordinator and spawn_parent_watcher: however a shutdown is asked for, before
\* the socket is bound or in the middle of a broadcast, and when the parent that spawned
\* the server dies, all three threads end.
ServerEnds == requested \/ ~parent ~> loop = "done"

\* The idle timer: when the last client has gone, however it went, the server ends
\* unless another one comes.
EndsWhenAlone ==
  (\A c \in Conn : link[c] # "open") /\ (\E c \in Conn : link[c] = "dead")
     ~> (loop = "done" \/ \E c \in Conn : link[c] = "open")

=============================================================================
