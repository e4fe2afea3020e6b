--------------------------- MODULE EngineDispatch ----------------------------
(***************************************************************************)
(* The engine's dispatch of key gestures (crates/hotki-engine).            *)
(*                                                                         *)
(* One worker per registration id hands the engine the presses and         *)
(* releases of that id in order; workers of different ids, the task that   *)
(* follows the world's focus events and the ticks of held actions run in   *)
(* the engine at the same time.  All are tasks of one thread, so a task is *)
(* interrupted only where it has to wait: for a fresh view of the world,   *)
(* for the transaction lock when somebody has it, for tickers to end, for  *)
(* room in the UI channel.  They share the mode stack, the focus cache,    *)
(* the registered keys, the relay and the tickers; only a rebind is        *)
(* serialised, by the transaction lock, which it keeps while it clears the *)
(* tickers and the relay.                                                  *)
(*                                                                         *)
(* A key's identifier is its chord, but its registration id changes each   *)
(* time it is bound again, so two presses of one key may belong to two     *)
(* workers.                                                                *)
(***************************************************************************)
EXTENDS Naturals, Sequences, FiniteSets

CONSTANTS
  Ident,         \* identifiers of keys
  Window,        \* what may have the focus
  NoWindow,      \* no window
  Config,        \* configurations a reload may find in the file
  Binding,       \* what each key does: config -> mode -> window -> ident -> Kind
  Asks,          \* kind of a held action -> kinds of what its ticks may ask for
  FirstFocus,    \* the window focused when the engine starts
  MaxId,         \* bound: registrations ever made
  MaxPresses,    \* bound: presses ever made
  MaxFocus,      \* bound: changes of focus
  MaxRefusals,   \* bound: messages the full UI channel refuses
  MaxEffects     \* bound: navigations and reloads that ticks ask for

Mode == {"root", "child"}

\* Bindings: a mode to enter; handlers that leave, hide the HUD, show the root,
\* do something once, hold a relay until key-up (then leave or stay in the
\* mode), reload the configuration, or fail.
HeldKind == {"hold", "holdStay"}
Kind == {"none", "enter", "leave", "hide", "root", "once", "hold", "holdStay",
         "reload", "error"}

ASSUME EngineAssumption ==
  /\ IsFiniteSet(Ident)
  /\ NoWindow \notin Window
  /\ FirstFocus \in Window
  /\ Ident \cap 0..MaxId = {}
  /\ Binding \in [Config -> [Mode -> [Window -> [Ident -> Kind]]]]
  /\ Asks \in [HeldKind -> SUBSET {"enter", "leave", "hide", "root", "reload"}]
  /\ MaxId \in Nat /\ MaxPresses \in Nat /\ MaxFocus \in Nat
  /\ MaxRefusals \in Nat /\ MaxEffects \in Nat

Id == 1..MaxId
World == 0                                  \* the task that follows focus events
Task == Id \cup {World} \cup Ident          \* of a key: the tick that reloads
NoId == 0

VARIABLES
  worldFocus,    \* the window the world last saw focused
  worldEvents,   \* its focus events, not yet taken by the engine
  focusCtx,      \* Engine::focus_ctx
  mode,          \* RuntimeState::stack: root or a child mode
  hud,           \* RuntimeState::hud_visible
  session,       \* RuntimeState::session: the pinned window, or NoWindow
  rendered,      \* the configuration in force, and the mode and window that
                 \* RuntimeState::rendered was rendered for
  bound,         \* KeyBindingManager: identifier -> registration id, or NoId
  owner,         \* registration id -> the identifier it was made for
  nextId,        \* the registration id handed out last
  strayed,       \* a tick changed the mode since keys were bound last
  transaction,   \* who waits for Engine::config_transaction; the first has it
  held,          \* Engine::held_bindings, a set of ids
  tracked,       \* Engine::key_tracker: identifiers down
  notified,      \* those of them with press_notified
  relay,         \* RelayKey: identifiers with an active gesture
  ticker,        \* Engine::action_repeater: identifiers with a ticker
  captured,      \* identifier -> the action and window its ticker was made with
  ticks,         \* identifier -> those of its invocations that run, oldest first
  busy,          \* identifiers whose ticker has its running flag raised
  job,           \* task -> where it is in the engine, and its locals
  queue,         \* registration id -> events its worker has not handed over
  pressed,       \* identifier -> id the tap retains for the press, or NoId
  presses, moves, effects, refusals         \* counters of the bounds

worldVars == <<worldFocus, worldEvents, moves>>
modeVars == <<mode, hud, session>>
bindVars == <<rendered, bound, owner, nextId, strayed>>
keyVars == <<held, tracked, notified>>
tickVars == <<captured, ticks, effects>>
repeatVars == <<relay, ticker, busy, tickVars>>
inputVars == <<queue, pressed, presses>>
vars == <<worldVars, focusCtx, modeVars, bindVars, transaction, keyVars,
          repeatVars, job, inputVars, refusals>>

Job == [pc : {"idle", "refresh", "rebind", "clear", "release", "select",
              "resolve", "execute", "autoExit", "prepare", "commit",
              "endRelay", "hudUp", "stop"},
        focus : Window, ctx : Window, kind : Kind, tell : BOOLEAN,
        waits : BOOLEAN, then : {"idle", "select", "autoExit", "stop"}]

\* A run of a held action by a tick, with the context of the press.
Invocation == [kind : HeldKind, window : Window]

Idle == [pc |-> "idle", focus |-> FirstFocus, ctx |-> FirstFocus,
         kind |-> "none", tell |-> FALSE, waits |-> FALSE, then |-> "idle"]

\* The keys bound once a mode is rendered for a window.
Kinds(view, i) == Binding[view.config][view.mode][view.window][i]
Keys(view) == {i \in Ident : Kinds(view, i) # "none"}

At(t, pc) == job[t].pc = pc
Go(t, pc) == job' = [job EXCEPT ![t].pc = pc]
Done(t) == job' = [job EXCEPT ![t] = Idle]

\* What the configuration in force renders for the mode and a window.
View(window) ==
  [config |-> rendered.config, mode |-> mode, window |-> window]

\* Queue for the transaction lock; a free lock is taken without waiting.
Lock(t, pc) ==
  /\ transaction' = Append(transaction, t)
  /\ job' = [job EXCEPT ![t].pc = pc, ![t].waits = transaction # <<>>]

Has(t) == transaction # <<>> /\ Head(transaction) = t
Unlock == transaction' = Tail(transaction)

\* A task that does not wait runs on.
Runs(t) ==
  \/ job[t].pc \in {"select", "resolve", "execute", "autoExit", "commit", "clear",
                   "stop"}
  \/ job[t].pc \in {"rebind", "prepare", "release", "endRelay"} /\ ~job[t].waits
Undisturbed(t) == \A u \in Task \ {t} : ~Runs(u)

Return(t) == IF job[t].then = "idle" THEN Done(t) ELSE Go(t, job[t].then)

\* A configuration was installed for the root mode.
Init ==
  /\ worldFocus = FirstFocus
  /\ worldEvents = <<>>
  /\ focusCtx = FirstFocus
  /\ mode = "root"
  /\ hud = FALSE
  /\ session = NoWindow
  /\ \E config \in Config :
       rendered = [config |-> config, mode |-> "root", window |-> FirstFocus]
  /\ LET keys == Keys(rendered)
     IN /\ Cardinality(keys) <= MaxId
        /\ nextId = Cardinality(keys)
        /\ \E ids \in [keys -> 1..nextId] :
             /\ \A i, j \in keys : ids[i] = ids[j] => i = j
             /\ bound = [i \in Ident |-> IF i \in keys THEN ids[i] ELSE NoId]
             /\ owner = [id \in 1..nextId |-> CHOOSE i \in keys : ids[i] = id]
  /\ strayed = FALSE
  /\ transaction = <<>>
  /\ held = {}
  /\ tracked = {}
  /\ notified = {}
  /\ relay = {}
  /\ ticker = {}
  /\ captured = [i \in Ident |-> [kind |-> "hold", window |-> FirstFocus]]
  /\ ticks = [i \in Ident |-> <<>>]
  /\ busy = {}
  /\ job = [t \in Task |-> Idle]
  /\ queue = [id \in Id |-> <<>>]
  /\ pressed = [i \in Ident |-> NoId]
  /\ presses = 0
  /\ moves = 0
  /\ effects = 0
  /\ refusals = 0

----------------------------------------------------------------------------
(* The keyboard, the tap and the world. *)

\* The tap matches a press against what is registered now.
Press(i) ==
  /\ presses < MaxPresses
  /\ pressed[i] = NoId
  /\ bound[i] # NoId
  /\ presses' = presses + 1
  /\ pressed' = [pressed EXCEPT ![i] = bound[i]]
  /\ queue' = [queue EXCEPT ![bound[i]] = Append(@, "down")]
  /\ UNCHANGED <<worldVars, focusCtx, modeVars, bindVars, transaction, keyVars,
                 repeatVars, job, refusals>>

Release(i) ==
  /\ pressed[i] # NoId
  /\ pressed' = [pressed EXCEPT ![i] = NoId]
  /\ queue' = [queue EXCEPT ![pressed[i]] = Append(@, "up")]
  /\ UNCHANGED <<worldVars, focusCtx, modeVars, bindVars, transaction, keyVars,
                 repeatVars, job, presses, refusals>>

MoveFocus(w) ==
  /\ moves < MaxFocus
  /\ w # worldFocus
  /\ moves' = moves + 1
  /\ worldFocus' = w
  /\ worldEvents' = Append(worldEvents, w)
  /\ UNCHANGED <<focusCtx, modeVars, bindVars, transaction, keyVars, repeatVars,
                 job, inputVars, refusals>>

----------------------------------------------------------------------------
(* Context and rendering. *)

\* RuntimeState::context_window: an open session pins its window.
Context(window) == IF session = NoWindow THEN window ELSE session

\* Keys no longer bound lose their registration, new ones get a fresh id, in
\* any order; the others keep theirs.
Rerender(view) ==
  LET new == Keys(view) \ Keys(rendered)
  IN /\ nextId + Cardinality(new) <= MaxId
     /\ rendered' = view
     /\ strayed' = FALSE
     /\ nextId' = nextId + Cardinality(new)
     /\ \E ids \in [new -> (nextId + 1)..nextId'] :
          /\ \A i, j \in new : ids[i] = ids[j] => i = j
          /\ bound' = [i \in Ident |-> IF i \in new THEN ids[i]
                                       ELSE IF i \in Keys(view) THEN bound[i]
                                       ELSE NoId]
          /\ owner' = [id \in 1..nextId' |->
                         IF id <= nextId THEN owner[id]
                         ELSE CHOOSE i \in new : ids[i] = id]

\* The UI channel is full: what was to be sent is refused.
Refused ==
  /\ refusals < MaxRefusals
  /\ refusals' = refusals + 1

\* Defect: the lock is given back before the tickers and relays are cleared.
UnlockingRebind(t) ==
  LET view == View(Context(job[t].focus))
  IN /\ At(t, "rebind")
     /\ Has(t)
     /\ Rerender(view)
     /\ Unlock
     /\ IF Keys(view) # Keys(rendered) THEN Go(t, "clear") ELSE Return(t)
     /\ UNCHANGED <<worldVars, focusCtx, modeVars, keyVars, repeatVars,
                    inputVars, refusals>>

\* Defect: what is rendered follows the focus even while a session is open.
UnpinnedRebind(t) ==
  LET view == View(job[t].focus)
  IN /\ At(t, "rebind")
     /\ Has(t)
     /\ Rerender(view)
     /\ IF Keys(view) # Keys(rendered)
        THEN Go(t, "clear") /\ UNCHANGED transaction
        ELSE Return(t) /\ Unlock
     /\ UNCHANGED <<worldVars, focusCtx, modeVars, keyVars, repeatVars,
                    inputVars, refusals>>

\* rebind_and_refresh, from the lock to its commit: what was rendered for the
\* mode and the window is registered.
Rebind(t) ==
  LET view == View(Context(job[t].focus))
  IN /\ At(t, "rebind")
     /\ Has(t)
     /\ Rerender(view)
     /\ IF Keys(view) # Keys(rendered)
        THEN Go(t, "clear") /\ UNCHANGED transaction
        ELSE Return(t) /\ Unlock
     /\ UNCHANGED <<worldVars, focusCtx, modeVars, keyVars, repeatVars,
                    inputVars, refusals>>

\* Defect: the error path keeps the lock.
RefusedLocked(t) ==
  /\ At(t, "rebind")
  /\ Has(t)
  /\ Refused
  /\ Done(t)
  /\ UNCHANGED <<worldVars, focusCtx, modeVars, bindVars, transaction, keyVars,
                 repeatVars, inputVars>>

\* No capacity in the UI channel: the caller gets the error and gives up.
RebindRefused(t) ==
  /\ At(t, "rebind")
  /\ Has(t)
  /\ Refused
  /\ Unlock
  /\ Done(t)
  /\ UNCHANGED <<worldVars, focusCtx, modeVars, bindVars, keyVars, repeatVars,
                 inputVars>>

\* The bindings changed: the tickers are stopped and, if there are any, awaited;
\* then every relay is released and the lock given back.
ClearTickers(t) ==
  /\ At(t, "clear")
  /\ ticker' = {}
  /\ busy' = {}
  /\ job' = [job EXCEPT ![t].pc = "release", ![t].waits = ticker # {}]
  /\ UNCHANGED <<worldVars, focusCtx, modeVars, bindVars, transaction, keyVars,
                 relay, tickVars, inputVars, refusals>>

ReleaseAll(t) ==
  /\ At(t, "release")
  /\ relay' = {}
  /\ Unlock
  /\ Return(t)
  /\ UNCHANGED <<worldVars, focusCtx, modeVars, bindVars, keyVars, ticker,
                 busy, tickVars, inputVars, refusals>>

----------------------------------------------------------------------------
(* A press, in its worker. *)

\* Defect: a release is looked up like a press.
UpRegistered(id) == bound[owner[id]] = id

\* A release belongs to the retained binding, or else to the registered one.
UpKnown(id) == id \in held \/ bound[owner[id]] = id

\* The id still names a binding: it is retained and its key recorded as down.
StartDown(id) ==
  LET i == owner[id]
  IN /\ At(id, "idle")
     /\ queue[id] # <<>> /\ Head(queue[id]) = "down"
     /\ bound[i] = id
     /\ queue' = [queue EXCEPT ![id] = Tail(@)]
     /\ held' = held \cup {id}
     /\ tracked' = tracked \cup {i}
     /\ job' = [job EXCEPT ![id] =
                  [Idle EXCEPT !.pc = "refresh", !.tell = i \notin tracked]]
     /\ UNCHANGED <<worldVars, focusCtx, modeVars, bindVars, transaction,
                    notified, repeatVars, pressed, presses, refusals>>

\* An event of an id nobody knows any more is dropped.
Drop(id) ==
  /\ At(id, "idle")
  /\ queue[id] # <<>>
  /\ IF Head(queue[id]) = "up" THEN ~UpKnown(id) ELSE bound[owner[id]] # id
  /\ queue' = [queue EXCEPT ![id] = Tail(@)]
  /\ UNCHANGED <<worldVars, focusCtx, modeVars, bindVars, transaction, keyVars,
                 repeatVars, job, pressed, presses, refusals>>

\* apply_world_focus_snapshot: a focus other than the cached one is cached and
\* the engine bound again for it.
Adopt(t, w, then) ==
  IF w = focusCtx
  THEN /\ IF then = "idle" THEN Done(t) ELSE Go(t, then)
       /\ UNCHANGED <<focusCtx, transaction>>
  ELSE /\ focusCtx' = w
       /\ transaction' = Append(transaction, t)
       /\ job' = [job EXCEPT ![t].pc = "rebind", ![t].focus = w,
                             ![t].then = then, ![t].waits = transaction # <<>>]

Refresh(id) ==
  /\ At(id, "refresh")
  /\ Adopt(id, worldFocus, "select")
  /\ UNCHANGED <<worldVars, modeVars, bindVars, keyVars, repeatVars, inputVars,
                 refusals>>

\* handle_key_event works with the focus cached now.
Select(id) ==
  /\ At(id, "select")
  /\ job' = [job EXCEPT ![id].pc = "resolve", ![id].focus = focusCtx,
                        ![id].then = "idle"]
  /\ UNCHANGED <<worldVars, focusCtx, modeVars, bindVars, transaction, keyVars,
                 repeatVars, inputVars, refusals>>

Unbound(id) ==
  /\ At(id, "resolve")
  /\ Kinds(rendered, owner[id]) = "none"
  /\ Done(id)
  /\ UNCHANGED <<worldVars, focusCtx, modeVars, bindVars, transaction, keyVars,
                 repeatVars, inputVars, refusals>>

\* A handler that stays in the visible mode is shown pressed on the HUD, unless
\* the UI channel is full.
Feedback(id) == hud /\ job[id].tell /\ Kinds(rendered, owner[id]) = "holdStay"

Resolve(id) ==
  LET i == owner[id]
  IN /\ At(id, "resolve")
     /\ Kinds(rendered, i) # "none"
     /\ job' = [job EXCEPT ![id].pc = "execute",
                           ![id].kind = Kinds(rendered, i),
                           ![id].ctx = Context(job[id].focus)]
     /\ \/ /\ Feedback(id)
           /\ notified' = notified \cup ({i} \cap tracked)
           /\ UNCHANGED refusals
        \/ /\ Feedback(id)
           /\ Refused
           /\ UNCHANGED notified
        \/ /\ ~Feedback(id)
           /\ UNCHANGED <<notified, refusals>>
     /\ UNCHANGED <<worldVars, focusCtx, modeVars, bindVars, transaction, held,
                    tracked, repeatVars, inputVars>>

----------------------------------------------------------------------------
(* What a binding does. *)

\* RuntimeState::push_mode: the session keeps the window it was opened with.
Enter(opening) ==
  /\ mode' = "child"
  /\ hud' = TRUE
  /\ session' = Context(opening)

Leave ==
  /\ mode' = "root"
  /\ hud' = FALSE
  /\ session' = NoWindow

ShowRoot(opening) ==
  /\ mode' = "root"
  /\ hud' = TRUE
  /\ session' = Context(opening)

HideHud ==
  /\ hud' = FALSE
  /\ UNCHANGED <<mode, session>>

\* Modes and navigation; the worker then binds again.
Navigate(id) ==
  /\ At(id, "execute")
  /\ \/ job[id].kind = "enter" /\ Enter(job[id].ctx)
     \/ job[id].kind = "leave" /\ Leave
     \/ job[id].kind = "root" /\ ShowRoot(job[id].ctx)
     \/ job[id].kind = "hide" /\ HideHud
  /\ Lock(id, "rebind")
  /\ UNCHANGED <<worldVars, focusCtx, bindVars, keyVars, repeatVars, inputVars,
                 refusals>>

\* Handlers without lasting effect, and handlers that fail.
RunOnce(id) ==
  /\ At(id, "execute")
  /\ \/ job[id].kind = "once" /\ Go(id, "autoExit") /\ UNCHANGED transaction
     \/ job[id].kind = "error" /\ Done(id) /\ UNCHANGED transaction
     \/ job[id].kind = "reload" /\ Lock(id, "prepare")
  /\ UNCHANGED <<worldVars, focusCtx, modeVars, bindVars, keyVars, repeatVars,
                 inputVars, refusals>>

\* start_until_keyup: the first run begins the relay; while the key is down a
\* new ticker replaces the old, with the context of this press.
Hold(id) ==
  LET i == owner[id]
  IN /\ At(id, "execute")
     /\ job[id].kind \in HeldKind
     /\ relay' = relay \cup {i}
     /\ IF i \in tracked
        THEN /\ ticker' = ticker \cup {i}
             /\ busy' = busy \ {i}
             /\ captured' = [captured EXCEPT
                  ![i] = [kind |-> job[id].kind, window |-> job[id].ctx]]
        ELSE UNCHANGED <<ticker, busy, captured>>
     /\ IF job[id].kind = "hold"
        THEN Go(id, "autoExit") /\ UNCHANGED transaction
        ELSE Lock(id, "rebind")
     /\ UNCHANGED <<worldVars, focusCtx, modeVars, bindVars, keyVars, ticks,
                    effects, inputVars, refusals>>

\* Defect: the mode is left and the keys are not bound again.
AutoExitUnbound(id) ==
  /\ At(id, "autoExit")
  /\ Leave
  /\ Done(id)
  /\ UNCHANGED <<worldVars, focusCtx, bindVars, transaction, keyVars, repeatVars,
                 inputVars, refusals>>

AutoExit(id) ==
  /\ At(id, "autoExit")
  /\ Leave
  /\ transaction' = Append(transaction, id)
  /\ job' = [job EXCEPT ![id].pc = "rebind", ![id].then = "idle",
                        ![id].waits = transaction # <<>>]
  /\ UNCHANGED <<worldVars, focusCtx, bindVars, keyVars, repeatVars, inputVars,
                 refusals>>

----------------------------------------------------------------------------
(* A reload, by a worker or by the tick of a held action. *)

\* A worker's action has run; a tick's ticker stops.  An error ends the event of
\* the worker at once.
Reloaded(t) == IF t \in Id THEN "autoExit" ELSE "stop"
GiveUp(t) == IF t \in Id THEN Done(t) ELSE Go(t, "stop")

\* Once it has the lock it prepares the configuration and keeps the window in use.
PrepareConfig(t) ==
  /\ At(t, "prepare")
  /\ Has(t)
  /\ job' = [job EXCEPT ![t].pc = "commit", ![t].ctx = rendered.window]
  /\ UNCHANGED <<worldVars, focusCtx, modeVars, bindVars, transaction, keyVars,
                 repeatVars, inputVars, refusals>>

\* The file does not load or render: what was in force stays, and the error is
\* reported, unless the UI channel is full.
PrepareFails(t) ==
  /\ At(t, "prepare")
  /\ Has(t)
  /\ Unlock
  /\ \/ Go(t, Reloaded(t)) /\ UNCHANGED refusals
     \/ GiveUp(t) /\ Refused
  /\ UNCHANGED <<worldVars, focusCtx, modeVars, bindVars, keyVars, repeatVars,
                 inputVars>>

\* What the file holds now is put in force.  The HUD stays as it was and, when
\* visible, pins the window anew.
CommitConfig(t, config) ==
  LET view == [config |-> config, mode |-> "root", window |-> job[t].ctx]
      changed == Keys(view) # Keys(rendered)
  IN /\ At(t, "commit")
     /\ mode' = "root"
     /\ session' = IF hud THEN job[t].ctx ELSE NoWindow
     /\ Rerender(view)
     /\ job' = [job EXCEPT ![t].pc = IF changed THEN "clear" ELSE Reloaded(t),
                           ![t].then = Reloaded(t)]
     /\ IF changed THEN UNCHANGED transaction ELSE Unlock
     /\ UNCHANGED <<worldVars, focusCtx, hud, keyVars, repeatVars, inputVars,
                    refusals>>

\* The commit found the UI channel full; so may the report of it.
CommitRefused(t) ==
  /\ At(t, "commit")
  /\ Refused
  /\ Unlock
  /\ Go(t, Reloaded(t)) \/ GiveUp(t)
  /\ UNCHANGED <<worldVars, focusCtx, modeVars, bindVars, keyVars, repeatVars,
                 inputVars>>

----------------------------------------------------------------------------
(* A release, in its worker. *)

\* Defect: the release of a key no longer recorded as down ends nothing.
StartUpTracked(id) ==
  LET i == owner[id]
  IN /\ At(id, "idle")
     /\ queue[id] # <<>> /\ Head(queue[id]) = "up"
     /\ UpKnown(id)
     /\ queue' = [queue EXCEPT ![id] = Tail(@)]
     /\ held' = held \ {id}
     /\ tracked' = tracked \ {i}
     /\ notified' = notified \ {i}
     /\ ticker' = IF i \in tracked THEN ticker \ {i} ELSE ticker
     /\ busy' = IF i \in tracked THEN busy \ {i} ELSE busy
     /\ IF i \in tracked
        THEN job' = [job EXCEPT ![id] = [Idle EXCEPT !.pc = "endRelay",
                                                     !.tell = i \in notified]]
        ELSE Done(id)
     /\ UNCHANGED <<worldVars, focusCtx, modeVars, bindVars, transaction,
                    relay, tickVars, pressed, presses, refusals>>

StartUp(id) ==
  LET i == owner[id]
  IN /\ At(id, "idle")
     /\ queue[id] # <<>> /\ Head(queue[id]) = "up"
     /\ UpKnown(id)
     /\ queue' = [queue EXCEPT ![id] = Tail(@)]
     /\ held' = held \ {id}
     /\ tracked' = tracked \ {i}
     /\ notified' = notified \ {i}
     /\ ticker' = ticker \ {i}
     /\ busy' = busy \ {i}
     /\ job' = [job EXCEPT ![id] = [Idle EXCEPT !.pc = "endRelay",
                                                !.tell = i \in notified,
                                                !.waits = i \in ticker]]
     /\ UNCHANGED <<worldVars, focusCtx, modeVars, bindVars, transaction,
                    relay, tickVars, pressed, presses, refusals>>

EndRelay(id) ==
  /\ At(id, "endRelay")
  /\ relay' = relay \ {owner[id]}
  /\ IF job[id].tell THEN Go(id, "hudUp") ELSE Done(id)
  /\ UNCHANGED <<worldVars, focusCtx, modeVars, bindVars, transaction, keyVars,
                 ticker, busy, tickVars, inputVars, refusals>>

\* The HUD's release waits for capacity in the channel.
HudUp(id) ==
  /\ At(id, "hudUp")
  /\ Done(id)
  /\ UNCHANGED <<worldVars, focusCtx, modeVars, bindVars, transaction, keyVars,
                 repeatVars, inputVars, refusals>>

----------------------------------------------------------------------------
(* Held actions. *)

\* A tick spawns an invocation unless the ticker's last one still runs.
Tick(i) ==
  /\ i \in ticker \ busy
  /\ Len(ticks[i]) < 2
  /\ busy' = busy \cup {i}
  /\ ticks' = [ticks EXCEPT ![i] = Append(@, captured[i])]
  /\ UNCHANGED <<worldVars, focusCtx, modeVars, bindVars, transaction, keyVars,
                 relay, ticker, captured, effects, job, inputVars, refusals>>

\* The invocations of a key that are not in a reload; only the oldest may be.
Running(i) == {n \in 1..Len(ticks[i]) : n = 1 => At(i, "idle")}

\* What an invocation asks for is done in its own task, one after the other.
Requests(i, n, kind) ==
  /\ n \in Running(i)
  /\ kind \in Asks[ticks[i][n].kind]
  /\ effects < MaxEffects
  /\ effects' = effects + 1

\* It may navigate, with the window of the press that made the ticker; nobody
\* binds again for that.
TickNavigates(i, n) ==
  /\ \/ Requests(i, n, "enter") /\ Enter(ticks[i][n].window)
     \/ Requests(i, n, "leave") /\ Leave
     \/ Requests(i, n, "root") /\ ShowRoot(ticks[i][n].window)
     \/ Requests(i, n, "hide") /\ HideHud
  /\ strayed' = (strayed \/ mode' # mode)
  /\ UNCHANGED <<worldVars, focusCtx, rendered, bound, owner, nextId,
                 transaction, keyVars, relay, ticker, busy, captured, ticks,
                 job, inputVars, refusals>>

\* Or reload, which is the last thing it does.
TickReloads(i) ==
  /\ Requests(i, 1, "reload")
  /\ Lock(i, "prepare")
  /\ UNCHANGED <<worldVars, focusCtx, modeVars, bindVars, keyVars, relay,
                 ticker, busy, captured, ticks, inputVars, refusals>>

Without(s, n) == SubSeq(s, 1, n - 1) \o SubSeq(s, n + 1, Len(s))

\* The n-th invocation of the key has ended; one that reloaded or failed stops
\* whatever ticker the key has by then.
Ends(i, n, stop) ==
  LET current == i \in busy /\ n = Len(ticks[i])
  IN /\ ticks' = [ticks EXCEPT ![i] = Without(@, n)]
     /\ ticker' = IF stop THEN ticker \ {i} ELSE ticker
     /\ busy' = IF stop \/ current THEN busy \ {i} ELSE busy
     /\ UNCHANGED <<worldVars, focusCtx, modeVars, bindVars, transaction,
                    keyVars, relay, captured, effects, inputVars, refusals>>

EndTick(i, n, stop) ==
  /\ n \in Running(i)
  /\ Ends(i, n, stop)
  /\ UNCHANGED job

StopTick(i) ==
  /\ At(i, "stop")
  /\ Ends(i, 1, TRUE)
  /\ Done(i)

----------------------------------------------------------------------------
(* The task that follows the world's focus events. *)

FollowFocus ==
  /\ At(World, "idle")
  /\ worldEvents # <<>>
  /\ worldEvents' = Tail(worldEvents)
  /\ Adopt(World, Head(worldEvents), "idle")
  /\ UNCHANGED <<worldFocus, moves, modeVars, bindVars, keyVars, repeatVars,
                 inputVars, refusals>>

----------------------------------------------------------------------------
Worker(id) ==
  \/ StartDown(id) \/ Drop(id) \/ Refresh(id) \/ Select(id)
  \/ Unbound(id) \/ Resolve(id) \/ Navigate(id) \/ RunOnce(id) \/ Hold(id)
  \/ AutoExit(id) \/ StartUp(id) \/ EndRelay(id) \/ HudUp(id)

Held ==
  \E i \in Ident :
    \/ Tick(i) \/ TickReloads(i)
    \/ \E n \in Running(i) :
         TickNavigates(i, n) \/ \E stop \in BOOLEAN : EndTick(i, n, stop)

Rebinding(t) ==
  \/ Rebind(t) \/ RebindRefused(t) \/ ClearTickers(t) \/ ReleaseAll(t)
  \/ PrepareConfig(t) \/ PrepareFails(t) \/ CommitRefused(t)
  \/ \E config \in Config : CommitConfig(t, config)

\* The tasks of the runtime that have something to do.
Tasks ==
  \/ \E id \in Id : Undisturbed(id) /\ Worker(id)
  \/ \E t \in Task : Undisturbed(t) /\ Rebinding(t)
  \/ \E i \in Ident : Undisturbed(i) /\ StopTick(i)
  \/ Undisturbed(World) /\ FollowFocus

Next ==
  \/ \E i \in Ident : Press(i) \/ Release(i)
  \/ \E w \in Window : MoveFocus(w)
  \/ Tasks
  \/ Undisturbed(World) /\ Held

Spec == Init /\ [][Next]_vars

\* The runtime does not sleep while a task can run; which one runs is left open.
\* What a task waits for there (the lock, ended tickers, room in the channel) is
\* what other tasks give.
FairSpec == Spec /\ WF_vars(Tasks)

----------------------------------------------------------------------------
(* Properties. *)

\* Every variable keeps its type.
TypeOK ==
  /\ worldFocus \in Window
  /\ worldEvents \in Seq(Window)
  /\ focusCtx \in Window
  /\ mode \in Mode
  /\ hud \in BOOLEAN
  /\ session \in Window \cup {NoWindow}
  /\ rendered \in [config : Config, mode : Mode, window : Window]
  /\ bound \in [Ident -> Id \cup {NoId}]
  /\ nextId \in 0..MaxId
  /\ strayed \in BOOLEAN
  /\ owner \in [1..nextId -> Ident]
  /\ transaction \in Seq(Task)
  /\ held \subseteq Id
  /\ tracked \subseteq Ident
  /\ notified \subseteq Ident
  /\ relay \subseteq Ident
  /\ ticker \subseteq Ident
  /\ captured \in [Ident -> Invocation]
  /\ ticks \in [Ident -> Seq(Invocation)]
  /\ busy \subseteq ticker
  /\ job \in [Task -> Job]
  /\ queue \in [Id -> Seq({"down", "up"})]
  /\ pressed \in [Ident -> Id \cup {NoId}]

\* The workers of a key that still owe its release: they retain a press, or are
\* in the middle of a press or of a release.
Owes(id, i) == owner[id] = i /\ (id \in held \/ ~At(id, "idle"))

\* A relay, a ticker or a record of a key being down never outlives the presses
\* it came from, however registrations, modes and workers interleave: some
\* worker still has the release of that key to handle.
GesturesEnd ==
  \A i \in relay \cup ticker \cup tracked :
    \E id \in 1..nextId : Owes(id, i)

\* What a worker retains of a press is given up by a release that is physically
\* still to come or already queued with it.
HeldUntilRelease ==
  \A id \in held :
    \/ \E i \in Ident : pressed[i] = id
    \/ \E n \in 1..Len(queue[id]) : queue[id][n] = "up"

\* Exactly the tasks that rebind, reload or clear what changed are in the queue
\* of the lock, each once, and only the first clears: what a rebind clears is
\* cleared before another one commits.
OneTransaction ==
  /\ \A t \in Task :
       job[t].pc \in {"rebind", "prepare", "commit", "clear", "release"} <=>
         \E n \in 1..Len(transaction) : transaction[n] = t
  /\ \A n, m \in 1..Len(transaction) :
       transaction[n] = transaction[m] => n = m
  /\ \A t \in Task : job[t].pc \in {"commit", "clear", "release"} => Has(t)

\* "A transient mode-stack session pins its opening window" (lib.rs:22): while a
\* session stays open its window stays the same, whoever binds again and for
\* whatever focus, and whatever is rendered then is rendered for that window.
\* (A reload starts a session of its own.)
Reloads == \E t \in Task : At(t, "commit") /\ ~At(t, "commit")'
SessionPinned ==
  [][session # NoWindow /\ ~Reloads =>
       /\ session' \in {session, NoWindow}
       /\ rendered' # rendered /\ session' = session =>
            rendered'.window = session]_vars

\* No task works for any key.
Settled ==
  /\ \A t \in Task : At(t, "idle")
  /\ \A id \in Id : queue[id] = <<>>
  /\ worldEvents = <<>>

\* Whenever the engine comes to rest, what is registered and shown is the mode
\* it is in: whoever navigates binds again, later and for the last mode.  Two
\* exceptions: the UI channel refused a refresh, or a tick of a held action has
\* changed the mode and nothing has bound since (actions.rs:175: a tick applies
\* what it is asked for and does not bind).
ModeSettles ==
  Settled /\ refusals = 0 /\ ~strayed => rendered.mode = mode

\* No order of rebinds, refusals and waiting workers leaves an event or a rebind
\* stuck: however the keys are struck, the engine comes to rest again.
ComesToRest == []<>Settled

\* "Live focus continues updating for the next session" (lib.rs:22): at rest the
\* keys are bound for the session's window or else for the focused one.
ContextSettles ==
  Settled /\ refusals = 0 => rendered.window = Context(focusCtx)

=============================================================================
