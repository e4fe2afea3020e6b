# Formal models of hotki

hotki is a macOS hotkey application in Rust: a server process that taps the
keyboard and runs an engine configured in Luau, and an application process that
shows its HUD, notifications and selector. This directory holds TLA+ models of
the parts of it where steps of several tasks, threads or processes interleave,
the TLC configurations that check them on small instances, and proofs, checked
by TLAPS, of their invariants for every value of the constants. Paths below are
relative to `src/crates/`.

    tlasany KeyTap.tla                                 # parse
    tlc -workers 2 -config MCKeyTap.cfg KeyTap.tla     # model-check
    tlapm KeyTapProofs.tla                             # check the proofs

The runs, with the module and the configuration of each, the definitions and
the source lines they model, and the known hazards are in `PROJECT.json`.

## 1. The system

One key press travels like this:

    keyboard -> event tap (mac-hotkey)          thread with a run loop
             -> hotkey dispatcher (hotki-server)   tokio task
             -> worker of the registration id      one tokio task per id
             -> Engine::dispatch (hotki-engine)     refresh world, find binding,
                                                    act, rebind
             -> UI channel -> event pipeline -> client connections (hotki-server)
             -> connection driver -> UI mailbox -> egui windows (hotki-app)

The server's tokio runtime has one thread (`hotki-server/src/server.rs:262`): its
tasks interleave at awaits. The tap, the Tao main loop and the blocking captures
of the world run on threads of their own.

| component | state | operations | what is hard about it | what makes it correct | module |
|---|---|---|---|---|---|
| worker pool (`hotki-server/src/ipc/service/workers.rs`) | map id -> handle, channel, pending counter, `release_pending`, handoff mutex | dispatch, replace, idle reaping, draining, shutdown | a channel closing between the check and the send; a replacement racing the drain of its predecessor; panics; saturation | per-key order and mutual exclusion across generations, exact accounting, nothing accepted is lost, a release always arrives | `WorkerPool`, `KeyedDelivery` |
| hotkey manager and tap (`mac-hotkey`) | registrations, suspend and capture counts, press records | watch, intercept, unregister, guards, the tap callback | the table changes between key-down and key-up; ids wrap; macOS disables the tap | presses and releases pair up for the consumer and for the application | `KeyTap` |
| binding manager (`hotki-engine/src/key_binding.rs`) | identifier -> registration, id -> identifier, capture flag | `update_bindings` with rollback, `resolve`, `set_capture_all` | failure after any unregistration; the tap matching in the middle; events resolved later | updates are all or nothing, kept bindings are never missing, events never resolve to another chord | `KeyBinding`, `BindingTable` |
| engine dispatch (`hotki-engine/src/{dispatch,refresh,runtime,world_sync,actions,key_state,notification}.rs`) | mode stack, session, focus cache, held bindings, key tracker, relay, tickers, transaction lock | key down and up, navigation, reload, rebind, focus event | two workers of one key, stale focus, clearing after commit, full UI channel | gestures end, the keys bound are those of the mode and window, rebinds are serialised, the engine comes to rest | `EngineDispatch`, `ModeStack` |
| world (`hotki-world`) | snapshot, generations, wake permit, broadcast channel | polling, `refresh`, subscription | lost wakeups; a poll that began before the request; lagging subscribers | a refresh is fresh and returns; the follower ends at what is shown | `WorldPoll` |
| selector (`hotki-engine/src/selector*.rs`) | query, selection, matcher, capture, the window shown | open, edit, move, late match, accept, cancel, handler | late results, refused messages, rebinds outside a dispatch | keyboard and window follow the selector, the window holds the selection | `Selector` |
| repeater and ticker (`hotki-engine/src/{repeater,ticker,process}.rs`) | tickers and process states by identifier, child processes | start, tick, run, stop one, stop repeats, drop | stops and starts that wait in the middle; a child that never exits | nothing that repeats is out of reach, one-shots go on, stops return | `Repeats` |
| service and event pipeline (`hotki-server/src/ipc/service.rs`, `service/events`) | lazy engine, pipeline lifecycle, three tasks, client registry | connect, broadcast, remove, stop | a client that goes in the middle of two broadcasts; who is told of the last | the pipeline starts and stops once, the last client that goes is noticed | `ServerLife` |
| server lifetime (`server.rs`, `shutdown.rs`, `loop_wake.rs`, `ipc/server.rs`) | shutdown flag, wake events, idle deadline, parent watch | request, wait, wake, bind the socket, join | three threads, the deadline racing a connection | a request ends all three threads; idle only when alone | `ServerLife` |
| client side (`client.rs`, `managed_server.rs`, `process.rs`, `ipc/client.rs`) | connection, child process, delivery lane | spawn, connect with retries, stop, deliver | exit during an attempt; replacement of a chosen snapshot; cancelled `recv` | no orphan, the reader never sleeps on something unread | `ClientLane`, `AppDriver` |
| UI mailbox (`hotki-app/src/ui_delivery.rs`, `connection_driver/ui_sink.rs`) | bounded lane, a slot per snapshot class, open flag | send, receive, close | three sending threads, of which two ask for a frame late or never; waiting for room in the middle of a move; closing without the lock | each sender's order, no older snapshot after a newer one, nothing else lost, waiting ends | `UiDelivery` |
| connection driver (`hotki-app/src/{connection_driver/mod,runtime,health}.rs`) | phase, health, pending controls, connect task | connect, cancel, reload, drain, restart, shut down, permission pause | controls in every phase of a connection | the health tells the connection, no server is left, a shutdown ends | `AppDriver` |
| configuration (`config/src/{mode,runtime}.rs`, `script/render.rs`) | stack of menus, rendered bindings | render, truncate, recover, flatten, enter | menus that fail, turn empty or lose their entry under the keys that are pressed | a menu shown is one something leads to, the root's global keys stay | `ModeStack` |

Not to be modelled: `hotki-app`'s windows (drawing on one thread),
`hotki-protocol` and the host API of `config` (data and conversions), `relaykey` (posting of events),
`mac-keycode` (tables), `permissions` and `logging` (queries of macOS, output),
the command line entry points, and the smoke test and build tools.

### How the modelled components interact

* The binding manager registers chords with the hotkey manager and gets ids. The
  tap emits events that carry an id. `KeyBinding` has its own small copy of the
  tap (a set of events under way), and `KeyTap` has any thread register at any
  moment: each assumes of the other exactly what the interface gives.
* The dispatcher task hands each event to the pool, the pool to the engine, per
  id in order. `EngineDispatch` has one queue per id, the promise that
  `KeyedDelivery` states and that `WorkerPool` is proved to implement. Two ids
  of one key are two queues: the engine's hazards come from there.
* The engine asks the world for a refresh before it selects a binding.
  `EngineDispatch` makes a refresh adopt the world's current focus, at a moment of
  its own, which is what `RefreshIsFresh` and `RefreshReturns` of `WorldPoll`
  say; focus events arrive in order in `worldEvents`.
* `ModeStack` refines what `EngineDispatch` takes as its constant `Binding`: what a
  stack of menus shows for a window. There keys and rebinds are cut at the
  transaction lock only; how a rebind ends other keys' gestures is
  `EngineDispatch`'s part.
* `Repeats` and `Selector` are what a binding starts in the engine. Both are
  called by the workers of several keys and by rebinds; they meet in no variable.
* The server's events cross three queues: the pipeline's broadcast (`ServerLife`), the
  client's lane (`ClientLane`) and the UI's mailbox (`UiDelivery`). The driver
  (`AppDriver`) owns the connection that the lane belongs to, and the process whose
  life `ServerLife` is; it is the parent which that server watches.

## 2. Modules

`Tables` holds the three operators on partial functions shared by two
specifications (`Put`, `Without`, and the set `Table`); `TableProofs` the lemmas
about them. Definitions whose comment begins with "Defect:" are not part of any
specification: each is a variant of the definition that follows it, and
`PROJECT.json` ("mutants") says which property rules it out.

Components that share no variable are checked in one run where they are small:
`MCParts` holds `ModeStack`, `Repeats`, `Selector` and `AppDriver`, `MCServer` holds `ServerLife` and
`ClientLane`. Their variable `part` is chosen in the beginning and says which of
them moves; the others stay as they began. Each part is thus explored as it
would be alone, and every property speaks of the variables of one part.

### WorkerPool, and KeyedDelivery above it

The state is that of `WorkerPool` and of every `WorkerHandle` ever made, named
by its generation: channel, closed flag, `pending`, `release_pending`, the
handoff mutex it shares with the generation it replaced, and the point its task
is at. The dispatcher is a task too: `Take`, `Lookup`, `CheckClosed`, `Choose`,
`Send` and `Replace` are the steps of `dispatch_event_to_worker` and
`dispatch_with` between two operations on shared memory; `AcquireGate`,
`CheckShutdown`, `Receive`, `IdleTimeout`, `Finish`, `Close`, `Drained`, `Retire` and
`Panic` are those of the task `spawn_worker` starts. `Parallel` chooses between
every interleaving (what the types permit) and the current-thread runtime of the
server. `physical` and `held` record what the user holds and what the engine
believes is held. An event is a key and one of down, repeat and up; its payload is
left out.

`KeyedDelivery` is the promise: per key, a backlog served one at a time in order;
a panic loses the message served and a prefix of the backlog. `WorkerPool` instantiates it
(`Delivery`): the backlog of a key is what is left in the closed channel that drains, and
after it the open channel of its replacement. That there is at most one channel of
each sort is part of what has to be shown.

### KeyTap

`regs`, `nextId`, `suspend`, `captureAll` are the fields of `Inner`; `presses` the tap's
map of press records. `Register`, `Unregister`, `UnregisterAll` and the guards'
creation and drop are atomic, as each swaps in a new copy of `Inner` under the
write lock. `PressNew`, `PressAgain` and `Release` are the three outcomes of
`classify_tap_event`, with `NewPress` for `policy::classify`; each also says what the
consumer is told and what the focused application receives. A release ends for the
consumer only the press that the record names. `Disable`, `Bypass`
and `Reenable` are macOS disabling the tap, key events that pass it by, and the
callback's handler. Ids are taken modulo `IdSpace` and skip zero and ids in use.
Keys may be held when the manager starts.

### KeyBinding, and BindingTable above it

`update_bindings` is cut at every call of the hotkey API: `Begin`, one `Remove` or
`RemoveFails` per replaced or dropped binding, `Add`, `Restore`, and the end with
success or failure. Between two steps the tap may match a press (`events` holds
the id and the chord that was pressed). `BindingTable` is the promise: the table is
replaced as a whole, or refused and left as it was; `before` is its refinement's
table while an update runs.

### EngineDispatch

A task is in the engine at one point at a time (`job`). Since the runtime has one
thread, `Undisturbed` lets a task that does not wait run on to its next wait; it
waits for the world's refresh, for the transaction lock if it is taken, for
tickers to end, and for a spawned tick. `Press` and `Release` are the tap's side
(the id is fixed at the press); `StartDown`, `Refresh`, `Select`, `Resolve`,
`Navigate`, `RunOnce`, `Hold`, `AutoExit`, `StartUp`, `EndRelay` and `HudUp` follow
`handle_key_event` and `handle_key_up`; `Rebind`, `ClearTickers` and `ReleaseAll`
`rebind_and_refresh`; `PrepareConfig`, `PrepareFails`, `CommitConfig` and `CommitRefused` a
reload; `FollowFocus` the task that follows the world. `Tick` spawns an invocation of a
held action, with what its ticker was made with (`captured`), unless the last one it
spawned still runs; a replaced ticker's invocation may run beside the new one's, so `ticks` is
a sequence. An invocation asks for any number of effects (`Requests`, of the
kinds in `Asks`), done in its own task: navigations (`TickNavigates`), which nobody
binds for, and a reload (`TickReloads`), which ends it and stops the ticker (`StopTick`);
else `EndTick` ends it, with an error or without. What the
configuration renders is a constant, `Binding`: for each mode and window, what
each key does. A mode stack is its top (root or one child): the code
distinguishes an empty stack from any other. Each place where the UI channel may
be full has an alternative that takes the code's error path.

### WorldPoll

The polling loop (`ReadGeneration`, `Capture`, `Apply`, `Complete`, `NextInterval`,
`Wake`, `Timeout`), the callers of `refresh` (`Request`, `SetHint`, `Notify`, `Check`,
`Adopt`) and the engine's follower (`Resubscribe`, `Seed`, `Follow`), one step per
operation on shared state. A snapshot is the focus it shows and the clock of its
capture, which exists only for the property; a capture may fail and show
nothing. The broadcast channel drops the oldest event when full.

### UiDelivery

Events have sequence numbers, the positions in `sent`. `send` is cut where it takes
or gives up the mutex and where it reads the open flag: `Emit` (a sender calls `send`), `CheckOpen`, `Accept` (the event gets its number; a snapshot
takes its slot, a log may be dropped), `Choose`, `MoveSnapshot`, `Push`, and for a full
lane `Full`, `Park` and `Resume`. `Park` gives up the mutex and waits in one step and
there are no spurious wakeups, as with parking_lot's condition variable.
`LoseSnapshot` is the panic of the assertion in `send`; it ends the thread. The UI
drains the mailbox in a frame (`Frame`, `ReceiveSnapshot`, `ReceiveOrdered`, `EndFrame`);
a requested repaint is two frames, and each event handled requests one. What a sender does
for one input is a sequence of steps, each an event, a repaint asked for (`Ask`), or an event
with one asked for before it. The driver asks before every event. Of the tray's threads, a
left click asks once for two events, a right click sends one and never asks
(`tray.rs:340`), and a choice in the menu sends one before it asks (`tray.rs:352`).
`delivered` and `gone` record what became of the events.

### ModeStack

A frame of `stack` is a menu, how it was entered (`via`: the chord and the menu its
parent offers, or a handler's push), what its last render declared and whether it
asks for every key. `PressKey` is a key's worker up to its wait for the lock: it
resolves the key against `bindings`, which were rendered last, and navigates
(`PushMode`, `PopMode` and the other cases of `Navigate`, with the session they
start and end). `RebindStack` renders: `Rendered` names the first n frames that are fine,
and cuts the stack there, or, where a menu fails, resets it to its root and renders
once more, as `RenderRecovery` does. `Flat` is `flatten_bindings`. `FocusMoves` is the
follower, or a worker that refreshes before its key; `TickHeld` a repeated action
that navigates without a rebind. What the menus declare is a constant, `View`, a
function of menu and window: the context's other fields and Luau state that scripts
keep between renders are left out.

### Repeats

Each start of a gesture makes a `ProcessRunState`, named here by its number.
`tracked` and `entry` are the maps of processes and of tickers, `ticker` the task of a
ticker, `run` the task of a run and `child` its process group. A call that stops one
identifier (`StopGesture`) or every repeat (`StopRepeats`) is cut where it waits: for the
tickers' tasks (`TickersEnded`), then for one run after the other (`RunEnded`).
`Launch` spawns without a look at the token, as `run_process` does; `Reap` is its
`select!`, `EndRun` the end of the task. Callers are any two tasks, with no order
between them, though production holds the transaction lock in one of them.

### Selector

Each chord has a worker (`Press`, then one of `Open`, `Edit`, `Move`, `Accept`, `Cancel`,
`Ignore`). `Match` is a tick of nucleo with its two outcomes, in time or late;
`MatcherDone` and `OnNotify` the notification that follows a late one. `Close` is
`close_selector` and the first step of `complete_close`; `Handled` and `Reopen` the
handler, `Rebind` the transaction after it. `Refocus` and `Reload` are other tasks that
rebind. The window shown is `shown`. Only one character can be typed, so
a query is its length; `Count` says how many items match it, which is all the window
and the clamping of the selection depend on.

### AppDriver

`phase` is where the driver's task awaits; `ctrl` the channel of controls, which is
read in `ConnectingControl`, `WaitingControl` and `DrivingControl` only. `connect` is the connect
task (`Spawn`, `Reach`, `GiveUp`, `Stopped`) and `proc` the server processes it spawned;
`DropProcess` is `ServerProcess::drop`, which kills and waits at once. `health` is the
state `RuntimeHealth` keeps, with what its `connection()` tells in a blocked or
stopping state. `Flip` and `Observe` are macOS and the UI's look at the
permissions; `Exit` ends a process at any time; `LoseConnection` is the end of the event
stream. What a reload or an injected key does in the server is left out.

### ServerLife

The main thread is `loop` with its callback, cut as Tao calls it: for a wake event, for
the end of a wait, for the end of a turn (`Cleared`), or for an event of the system.
`Callback` keeps the order of the code: the shutdown flag, the idle deadline, and only
then the event. The watcher is `ParentGone` and `WatcherStops`. The IPC thread is
`Bind`, `Connect`, `Connected`, the tasks of the pipeline (`Cast`, `Sent`, `TaskEnds`), the shutdown
RPC and `Unserve` to `IpcEnds`. A broadcast sends to a snapshot of the clients one by
one; a client that has gone is found by a failing send of either broadcasting
task.

### ClientLane

`Notice`, `Store`, `Announce`, `Reserve` and `DropLog` are `EventDeliveryTx::send` between two uses of
shared state; `Ask` to `CancelRecv` are `recv`, with the lock given up between the choice of
a snapshot and its removal, and the cancellation of `recv` where it waits. The
connection may be lost at any time.

## 3. What TLC checks

| run | instance | shows |
|---|---|---|
| `worker_pool` | 2 keys, capacity 2, 5 events, 4 generations (an event is taken while three are spare), 1 panic, fully parallel, fair; 234k states | `MutualExclusion`, `NoOvertaking`, `PendingAccounting`, `NothingAbandoned`, `DeliversEverything` (the refinement of a fair `KeyedDelivery`), `ShutdownEndsWorkers` |
| `worker_pool_retained_release` | 1 key, current-thread runtime | violation of `ReleaseRetained` |
| `key_tap` | 2 keys, 3 ids that wrap, 4 registrations, guards of depth 1, 1 disabled tap; 2.3M states | `ConsumerInSync`, `NoPartialKeystroke`, `RetainedIdentity` |
| `key_tap_disabled` | 1 key, 1 disabled tap | violation of `ReleasedPressForgotten` |
| `key_binding` | 3 identifiers, 2 chords, 5 registrations, 1 event under way; 247k states up to symmetry | `LookupsAgree`, `ResolvedIsPressed`, `NoInterceptionGap`, the refinement `ImplementsTable` |
| `engine` | 2 keys, 2 windows, 2 configurations, 3 presses, 1 focus change, 1 refused message, 1 navigation or reload by a tick; 667k states | `GesturesEnd`, `HeldUntilRelease`, `OneTransaction`, `ModeSettles`, `SessionPinned`, `ComesToRest` |
| `engine_context` | 4 presses, 1 focus change | violation of `ContextSettles` |
| `parts` | four parts, each alone; 340k states together | of the modes `ModesReachable`, `RootKeysServe`; of the repeater `NoOrphanedRepeat`, `OneShotsSurvive`, `StopsReturn`; of the selector `WindowHoldsSelection`, `SelectorSettles`; of the driver `HealthTellsConnection`, `NoOrphanServer`, `ShutdownFinishes` |
| `server` | two parts, each alone; 366k states together | of the server `IdleOnlyWhenAlone`, `ServerEnds`, `EndsWhenAlone`; of the lane `SleepsOnlyWhenDone` |
| `world_poll` | 2 callers, 2 generations, 1 focus change, 1 retained event; 530k states | `RefreshIsFresh`, `CacheFollows`, `RefreshReturns` |
| `ui_delivery` | 2 senders, 2 classes, a lane of 2, 4 events, repaints as the driver and the tray ask for them, closing; 682k states | `SenderOrder`, `NewestLast`, `Accounted`, `SendsEnd` |
| `ui_delivery_flush` | 2 senders, 1 class, a lane of 3 | violation of `SnapshotPresent` |

What is proved for every value of the constants and follows from another property of a
run, or from the types, is not run again: the type invariants, `PressTracked`,
`SuspendedIsQuiet` and `RegistrationsKept` of the tap, `ReleaseFlagTracksRelease` of the pool,
`NoLostWakeup` of the world and `MenusArePinned` of the modes.

### Bounds, and why they suffice

* Worker pool. Keys share only the map; two of them show that one cannot starve the
  other. Capacity 2 is the least at which room reappears while a forced release
  is queued; five events fill the channel and go on. One event may
  need three generations (its first worker, a replacement, and another one when the
  replacement has retired before it is looked up), so an event is taken only while
  three of the four are spare: no more than one worker is there when it is
  taken, and what the run has is one key with a replacement after an idle close or a panic,
  or two keys with a worker each. A fifth generation takes the run beyond five
  minutes; longer chains of replacements are covered by the proofs, which hold for any number.
* Tap. Two keys for presses of different interception held together; three ids
  with four registrations wrap the counter onto ids in use; one level of nested
  guards, as the code only compares the counts with zero; one disabled tap gives
  every combination of events missed at its two ends.
* Binding manager. Three identifiers let one update keep, move, drop and add;
  two chords let two identifiers exchange theirs; five registrations allow
  the first table and an update that is rolled back. One event is enough, as
  events are resolved independently.
* Engine. Two keys let one rebind while the other is held; three presses let
  a press wait while its key is bound under a new id and pressed again. The
  configurations hold every kind of binding; six ids suffice for three presses. One effect of a
  tick (`MaxEffects`) is a navigation or a reload at any moment of the other tasks; a
  held action outside a mode may enter one or reload, one held in a mode may leave it,
  show the root or hide the HUD (`HeldAsks`). The violation needs four presses,
  and no effect.
* Modes. The root offers one menu in a window and the other in the other window; one
  menu is empty in a window and another fails in one, so every way a render ends
  is reached. Three keys push up to three menus on the root, so that the one in the middle
  may go; `MaxDepth` keeps the tick from adding another. One tick, one refused
  rebind or reload.
* Repeats. Two identifiers, two starts and two stops by two callers: a start on the
  identifier that is being stopped, or on the other. Everything else concerns a
  single state.
* Selector. Four keys open, edit, move and close, or open again; results grow, shrink
  to none, and exceed the window of three. One refused message, one reload.
* Driver. Two servers, so that a second is spawned while the first may still be there;
  two commands (a shutdown behind a reload); permissions withdrawn and granted.
* Server. Two connections, one after the other or together, each found dead by one
  broadcast or by the other.
* Lane. Two snapshot classes, so that a class can be replaced while it is chosen and
  while the other waits; room for two entries; four notifications fill it and go on.
* World. Two callers so that one's request falls into the other's poll; two
  generations; the smallest channel so that it lags at once.
* UI mailbox. Two events fill the lane and leave two for snapshots, for a sender that
  waits, or for both senders waiting at once. The lane needs as many places as there are
  senders: with a single place, a received event wakes one sender, and if that
  one panics (finding 4) nobody wakes the other. The program has 256
  places and three senders, and a frame that drains a full lane wakes them all. `SnapshotPresent`
  is violated with a lane of three.

Deadlock is checked in `worker_pool*` (whose final states are named by
`Terminated`), `key_tap*` and `world_poll`. It is not in the others, which stop when their
bounds are used up or what they model is over: a server that has ended, a driver that
has finished, a lane whose connection is gone. There `ImplementsTable`, `ComesToRest`,
`StopsReturn`, `ShutdownFinishes`, `ServerEnds`, `SleepsOnlyWhenDone` and `SendsEnd` say what must not be
left half done.

### Fairness

* `WorkerPool!Fairness`: the dispatcher and each worker task run again when they
  can (tokio schedules every woken task). No fairness of panics, of new events or
  of the shutdown request. The idle timer is part of the worker's task: tokio
  fires an elapsed timer.
* `EngineDispatch!FairSpec`: the runtime does not sleep while a worker, a rebind, a reload or
  the focus task can go on; which one goes on is left open. What they wait for
  comes: tokio's mutex is first come, first served, as `transaction` models,
  tickers end when cancelled, the UI channel has room or refuses at once. Nothing is
  assumed of the user, who need not let go of any key, nor of the ticks of a held
  action, which need neither begin nor end (a reload that one has begun goes on).
* `WorldPoll!FairSpec`: the loop, the callers and the follower run when they can; the
  capture runs on a blocking thread that returns. Nothing is assumed of the poll
  interval's timer, so `RefreshReturns` shows that a refresh depends only on the
  wakeup.
* `RepeatsFair`: the tasks of runs, the tickers that were cancelled, and the calls that
  wait proceed; tokio runs them. Nothing is assumed of a child, which need not exit,
  nor of the ticks.
* `AppFair`: the connect task and the driver proceed. An attempt to connect ends, since its
  retries are counted, and an RPC is answered or its connection ends; the code has
  no timeout of its own for RPCs. Nothing is assumed of a server that was told to
  exit (the driver kills it after a while), of the user, or of the permissions.
  `MCParts` states it as `ConnectionFair`, for its part alone.
* `ServerFair`: the three threads run, time passes, what is asked for in the IPC thread
  ends, a send succeeds or fails, and the heartbeat comes round again: it is what
  finds the last client gone. Events of the system and the queued UI events
  need not come. The lane has a safety property only, and no fairness.
* `UiDelivery!FairSpec`: threads run, parking_lot's mutex is eventually fair to those who
  ask for it (and is free for good once the last event is through), and a
  requested frame is drawn. Nothing is assumed of who sends, asks for a frame or closes. So
  `SendsEnd` has two exceptions: a closed receiver, and a full lane for which nobody asks
  for a frame ever again (`[]Undrawn`). The second happens: right clicks fill the
  lane, and none of them asks for a frame.

### Disagreements between the code and what it says of itself

1. `ReleaseRetained`: the pool retains a release "when the logical queue was
   saturated" (`workers.rs:66`), but only one at a time. With the first forced
   release still undispatched, a new press fits behind it, the queue fills again,
   and the release of that press is refused: the engine holds a key down that the
   user let go.
2. `ReleasedPressForgotten`: a press record lives "until its paired key-up"
   (`sys.rs:77`), but the records are kept when macOS disables the tap. A key let
   go meanwhile has its next press treated as a repeat of the old one.
3. `ContextSettles`: "live focus continues updating for the next session"
   (`hotki-engine/src/lib.rs:22`), but a key event rebinds with the focus it read before it
   waited for the lock; if the focus event's rebind was queued first, the engine
   rests with the keys of the window that lost the focus.
4. `SnapshotPresent`: "next snapshot sequence remains present while locked"
   (`ui_delivery.rs:232`), but waiting for room gives up the lock between the choice
   of the snapshot and its removal. One sender is enough: with a full lane and a
   snapshot behind it, the UI's loop drains both before the woken sender
   has the lock again, and the sender, the connection driver's runtime in
   production, panics.

## 4. What is proved

Every safety invariant and every action property of the passing runs is proved, and with
them the two refinements (that of `KeyedDelivery` without its fairness). Eight modules hold the proofs;
related components share one.

The proofs need the named assumptions on the constants only: capacities and the
id space are positive, bounds are natural numbers, `NoWindow` is not a window, identifiers
and sending threads are finitely many, and `Free` is not a thread. Ids,
keys, chords, callers, menus and windows may be any sets, of any size. What
the menus declare may be any function of menu and window, failures included, and so
may what the configurations bind.

### ServerProofs: the pool, the server's life, the client's lane

*Worker pool.* `PoolTyped`, `HandoffExcludes` (`MutualExclusion`),
`ReplacementWaits` (`NoOvertaking`), `LogicalBound` (`PendingAccounting`), `FlagIsExact`
(`ReleaseFlagTracksRelease`), `AcceptedStay` (`NothingAbandoned`), `PoolDeliversInOrder`. Mutual
exclusion is
not inductive: that two generations share a mutex follows from the way the second
replaced the first. The invariant `PoolIInv` says so: a generation past its gate holds
it (`Gates`); the map names the newest generation of an id, or every generation
of it is inert (`Map`); whoever passed its gate has only inert predecessors
(`Order`); and the dispatcher, which works on a handle it cloned earlier, holds
the newest one (`Target`). `Count` needs what the dispatcher has seen of the room
before it sends.

`PoolDeliversInOrder` says that the pool implements `KeyedDelivery` without its
fairness. From `Map` and `Order` an id has one open channel and one
closed channel with something in it at the most (`OneOpen`, `OneDraining`), and whoever is
past its gate with something to do comes before the other (`Leading`). So the backlog is the
channel of that one and what is behind it (`FrontedHolds`): receiving takes its head,
closing moves it to the other side and changes nothing, a send appends at its end, and
a panic drops exactly its beginning.

*Life of the server.* `LoopAlwaysKnows`, `AlwaysIdleAlone` (`IdleOnlyWhenAlone`). The loop's
own count of clients follows the registry through the queue of wake events. `LoopKnows`
relates the two: until a shutdown is asked for, a registered client is known to the
loop, or every event in the queue that says otherwise has an arrival behind it.

*Lane.* `LaneInvariant`, `AlwaysSleepsDone` (`SleepsOnlyWhenDone`). A reader that is
to wait has looked at everything before; a snapshot stored behind its back leaves a permit
or a handler about to leave one (`SnapshotWakes`), and a log is dropped only with the
channel full, so an entry is there to wake the reader (`DropWakes`).

### EngineDispatchProofs

`CoreInvariant`, `DispatchTyped`, `AlwaysOneTransaction` (`OneTransaction`), `GesturesAlwaysEnd`
(`GesturesEnd`), `HeldAlwaysReleased` (`HeldUntilRelease`), `ModeAlwaysSettles`
(`ModeSettles`), `SessionAlwaysPinned` (`SessionPinned`). A step of a task is summarised by where it
comes from and where it leads (`Moves`); the lemmas on each handler say so once, and
every invariant uses them. `CoreIInv` joins the types, the ids made so far and the
queue of the transaction. On it rest four arguments that do not need each other:

* Gestures: a worker retains its press from `StartDown` on (`PressHeld`), and whatever ticks,
  relays or is recorded as down is retained by some worker, or its release is already at
  `endRelay` (`KeysHeld`).
* Releases: a press that waits in a queue has its release behind it, or
  the keyboard still owes it (`DownsEnd`); so a worker that takes the press retains
  something that is going to be given up.
* Modes: a worker that changes the mode goes on to a rebind before it rests, unless the UI channel
  refused a message; a tick that changes it leaves `strayed` set until something binds
  (`ModeShown`). A rebind and a reload bind for the mode they find, and clear it.
* Sessions: the window of an open session moves with a reload only; this is a property of steps.

### EngineStateProofs: modes, repeats, the selector

*Mode stack.* `ModeTyped`, `MenusReachable` (`ModesReachable`), `GlobalKeysServed`
(`RootKeysServe`), `ChildrenPinned` (`MenusArePinned`). A frame shows something only after
a render that went through it and through the frames below it, and that render
found its entry in what it had just listed for the frame below; navigation adds
frames that show nothing and takes frames away at the top. The invariant is the
property for the stack as a whole, `Led`; a global key of the root is bound because
among the frames that have its chord there is a topmost one (the maximum of a
set of levels, by well-founded induction).

*Repeats.* `RepeatTyped`, `RepeatsReachable` (`NoOrphanedRepeat`), `OneShotsKept`
(`OneShotsSurvive`), for at least one identifier. The property speaks of runs, and is not
inductive: a ticker that outlives its cancellation may start a run after the
state left the map. `RepeatsHeld` is: a state that repeats, running or not, is cancelled,
in the map, or in the rest of a stop. It needs that a call which waits for tickers
has no rest yet (`RestWaits`), and that nothing refers to a state before it is made.

*Selector.* `SelectorInvariant`, `WindowAlwaysHoldsSelection` (`WindowHoldsSelection`),
`SelectorAlwaysSettles` (`SelectorSettles`), for any number of results per query and any
size of the window. Keyboard and selector disagree between a close and the rebind after
it: there is always one key event that is about to bind again (`CaptureFollows`), and one
handler at a time (`CloserAlone`).

### AppProofs: the connection driver, the UI mailbox

*Driver.* `DriverTyped`, `HealthCorrect` (`HealthTellsConnection`), `ServersHeld`
(`NoOrphanServer`). The connect task exists exactly while the driver is in the phases
`connecting` and `cancelling` (`TaskInPhase`), and an attempt under way has a process
(`AttemptHasProcess`): so a task starts when no server runs, and whoever drops a
client or an attempt drops the only server that runs.

*UI mailbox.* `TypedAlways`, `SenderOrderKept` (`SenderOrder`), `NewestAlwaysLast`
(`NewestLast`), `AlwaysAccounted` (`Accounted`), for any threads, classes and capacity. The
order is kept by what is delivered and what waits in the lane taken as one sequence
(`Path`): two events of a sender, or two snapshots of a class, stand on it in order
(`PathInOrder`). A sender gives up the lock in the middle of making room, so the invariant
has to say what it holds meanwhile: its event is the last it was given (`Hand`), and
nothing older is retained than the snapshot it chose (`Choice`); every snapshot that is retained is
younger than all that waits in the lane (`SlotsYounger`). `Accounted` counts
sets: what is missing are the replaced snapshots, as many as the counter says
(`ReplacedCounted`), and nothing is on the path twice (`PassedOnce`).

### WorldPollProofs, KeyBindingProofs, KeyTapProofs

*World.* `TypeCorrect`, `RefreshFresh`, `WakeupsKept`, `CacheCorrect`. `Answers`
follows a snapshot from its capture through the loop's locals to the state: every
generation that the poll under way will complete was asked for before its
capture. `Wakes` follows a wakeup: the permit is there, or the loop took it and has
not read the generation yet, or it read one that includes the caller's. `Events`
says that the last event to receive is what is shown, also when the channel
drops others.

*Binding manager.* `TypeCorrect`, `LookupsCorrect` (`LookupsAgree`),
`ResolvesWhatWasPressed` (`ResolvedIsPressed`), `NothingKeptIsTouched`
(`NoInterceptionGap`), and `UpdatesAreAtomic`: the specification implements
`BindingTable`. `Known` says that an id names one chord for ever, since ids are
handed out once; `Update` what of the two tables is in place in each phase, and that
what does not change was never touched. A rollback ends with the chords it began
with, under new ids: the refinement looks at chords, as the engine does. A
consequence: the hotkey manager, whose `unregister` fails only for an id it does not
know, never fails one of these updates.

*Tap.* `TypeCorrect`, `ConsumerCorrect`, `PressesCorrect`, `KeystrokesWhole`,
`IdentityRetained`, `NeverOverwritten` (`RegistrationsKept`), `SuspensionQuiet`. What the
consumer and the application believe depends on the press records alone, so the
table may change freely; the identity of ids rests on the counter being at the
number of registrations until it wraps. `RegistrationsKept` holds across the wrap:
the search for an id ends at one that is free (well-founded induction gives the
first such step).

### Only model-checked

Every liveness property, as liveness under fairness and `ENABLED` are beyond the prover:
`ShutdownEndsWorkers`, `ComesToRest`, `StopsReturn`, `ShutdownFinishes`, `ServerEnds`, `EndsWhenAlone`,
`RefreshReturns`, `SendsEnd`, and the fairness of `KeyedDelivery` in `DeliversEverything`. No definition
is recursive.

## 5. What the models leave out

* `WorkerPool`: the payload of an event; the order of atomic operations is taken
  to be sequentially consistent, as all of them are `SeqCst`.
* `KeyTap`: starting and stopping the tap thread (a stop that precedes the run
  loop's run depends on CoreFoundation), health counters, modifier
  normalisation (the normalised modifier sets are a constant), and the callback's
  filters for events it never classifies.
* `KeyBinding`: nothing of `update_bindings`; `intercept` returns an id and never
  fails, so only unregistrations do.
* `EngineDispatch`: the selector (see `Selector`) and injected dispatch; OS repeats
  (`set_repeat_allowed` is never called outside tests, so the path is dead in
  production); displays; shell and script processes (see `Repeats`); engine shutdown.
  Of the ticks of a held action: a selector that one opens; and when a replaced ticker's
  invocation runs beside the new one's, only the older of the two reloads.
* `ModeStack`: fields of the context other than the window; HUD rows, styles, titles and
  hidden bindings; a failing `update_bindings` and its rollback (see `KeyBinding`); the
  selector, which replaces the bindings while it is open; the checks made when a
  configuration is loaded.
* `Repeats`: what a process prints and the notification made of it; intervals. Relays and
  repeated actions are in `EngineDispatch`. Production starts no repeated process yet
  (`repeat` is `None` at every call outside tests), so its repeating half is checked for
  what the interface offers.
* `Selector`: the text of queries and items, nucleo's ranking, and what the handlers do.
* `AppDriver`: the retries' pauses, log lines, the events of the server and what the UI
  does with them (see `UiDelivery`), and how long a child is given to exit.
* `ServerLife`: payloads, status values, the engine behind the RPCs, and the keys of
  the pool (see `WorkerPool`).
* `ClientLane`: payloads and the counters shown in reports.
* `UiDelivery`: the counter of dropped logs; the closing race of a sender that has read
  the open flag and not begun to wait (the model has it, `SendsEnd` excepts a
  closed receiver: the UI closes after it drained the mailbox, so it takes a
  lane filled again by the tray alone); the frames egui draws for reasons of its own; the tray's two
  threads are one sender, who handles a click or a choice in the menu after the other.
* `WorldPoll`: displays and windows, on which the protocol does not depend; the end of
  the loop with its last owner.

Not modelled at all: the windows, the HUD and the notifications of `hotki-app` (drawing
on one thread, from snapshots that `UiDelivery` delivers), its developer tools, the
conversions of `hotki-protocol`, the host API, the documentation and the diagnostics of
`config`, the tables of `mac-keycode`, logging, the command line and the smoke tests. They
are the larger part of the code by lines, and hold no state that several tasks
share; the map therefore covers the smaller part of the lines.

### Noticed on the way, and covered by no run

* A binding inherited from the root that enters a submenu, pressed in a child, pushes a
  frame whose parent is that child; the next render does not find the entry
  there and cuts the frame again (`config/src/script/render.rs:72`), though the field says
  "True when the binding is inherited by child modes." (`config/src/types.rs:337`).
  TLC confirms it in `ModeStack`.
* `menu:capture()` is kept with the frame: a menu that asks for capture in one window
  goes on capturing in another, where it does not ask.
* `hideHud` at the root leaves the session pinned, and a render that cuts the stack to the
  root leaves session and HUD as they were.
* What the tick of a held action navigates is bound by nobody (`actions.rs:175`): the
  keys stay those of the old mode, and the HUD does not show the new one, until a
  rebind for another reason. `ModeSettles` excepts it (`strayed`), and is violated
  without the exception.
* The tray sends an event without a repaint for a right click (`tray.rs:340`), and before it
  asks for one for a choice in the menu (`tray.rs:352`); "Forward a UI event and
  immediately request a repaint" (`ui_sink.rs:73`) asks before it forwards. The frames may
  pass before the event is there, and a sender that finds the lane full may wait until
  somebody else asks. `SendsEnd` excepts it, and is violated without the exception.
* A key's HUD state is retained "until its matching key up" (`key_state.rs:9`), but the
  tracker is keyed by identifier and the workers by registration id: a press that
  waits for its refresh while its key is bound anew may tell the HUD of a press that
  nothing ends.
* The client's lane numbers an event before it stores it: the reader may see an
  event before a snapshot with a smaller number (`hotki-server/src/ipc/client.rs:241`), though
  the numbers exist to keep the classes in order. Only a second core shows it.
* The driver may report `Running` before the server accepted a configuration: a report
  of granted permissions with a connection does so (`connection_driver/mod.rs:239`).
* A reload while a permission is missing is dropped (`mod.rs:375`), although the message
  beside it says that it will be retried automatically; a failed connect is not
  retried until something is asked for.
* A connection lost while the configuration is activated is shown as a rejected
  configuration. Client RPCs have no timeout.
* `Accept` in the selector ticks the matcher and drops what it learns
  (`selector.rs:216`): results that changed to none are shown by nobody until the next key.
  A refused `SelectorHide` ends the close before its handler and its rebind
  (`selector_controller.rs:159`), and a reload with an open selector hides nothing.
* The idle deadline is looked at before the event: a server whose deadline passes
  while the wake event of a new connection is queued ends on that client
  (`server.rs:362`). `IdleOnlyWhenAlone` states it with that exception.
* The shutdown RPC's handler may be dropped before it answers, when the IPC thread's
  runtime ends first.

The hazards of the code, with the properties that cover them, are listed in
`PROJECT.json`; where none does, with the reason.

## 6. Plan

Done: 1. `WorkerPool`, `KeyedDelivery`. 2. `KeyTap`. 3. `KeyBinding`, `BindingTable`. 4. `EngineDispatch`.
5. `WorldPoll`. 6. `UiDelivery`. 7. `Selector`, `Repeats`. 8. `ServerLife`. 9. `ClientLane`,
`AppDriver`. 10. `ModeStack`. 11. The proofs of their safety properties. 12. The proof that
`WorkerPool` implements `KeyedDelivery`.

Next, in this order:

13. Compositions: tap, pool and engine, from the key to the relay; `ClientLane` over
    `UiDelivery` against one abstract mailbox; `AppDriver` with `ServerLife` as its server.
14. The submenu entered through an inherited binding (section 5) as a run of its own.
