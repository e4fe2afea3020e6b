------------------------------ MODULE ModeStack ------------------------------
(***************************************************************************)
(* The stack of active menus and the keys bound for it (crates/config      *)
(* script/render.rs and runtime.rs, crates/hotki-engine runtime.rs,        *)
(* refresh.rs, dispatch.rs).                                               *)
(*                                                                         *)
(* Every menu is a function of the window it is shown for.  A key pressed  *)
(* changes the stack at once; the menus are rendered and the keys bound    *)
(* later, when the key's worker has the transaction lock, by which time    *)
(* other keys and the ticks of a held one may have changed the stack, and  *)
(* the window may be another.  A rebind renders the stack from the root    *)
(* and cuts it at the first menu that is empty or is not offered by its    *)
(* parent any more; when a menu fails, only the root is left; when that    *)
(* fails too, no key is bound.                                             *)
(***************************************************************************)
EXTENDS Naturals, Sequences

CONSTANTS
  Menu,          \* mode closures by their ModeId
  Root,          \* the one a configuration returns
  Key,           \* chords
  Win,           \* what may have the focus
  View,          \* menu -> window -> what its function declares, or Failing
  Failing,       \* the function raises an error
  NoWin,         \* no session, or no rebind to make
  Pushed,        \* a frame was pushed by a handler
  FirstWin,      \* the window focused when the engine starts
  MaxDepth,      \* bound: frames
  MaxPressed,    \* bound: keys pressed
  MaxMoves,      \* bound: changes of focus
  MaxTicks,      \* bound: ticks of held actions
  MaxGiveUps     \* bound: rebinds the full UI channel refuses, and reloads

\* What a binding does: enter a submenu, or run a handler that navigates or stays.  One
\* that does neither leaves the menus, as "exit" does.
Nav == {"push", "pop", "exit", "showRoot", "hideHud", "stay"}
Kind == Nav \cup {"enter"}

\* A held handler navigates again at every tick of its repeat.
Binding == [chord : Key, kind : Kind, to : Menu,
            asks : BOOLEAN, global : BOOLEAN, held : BOOLEAN]

ASSUME ModeStackAssumption ==
  /\ Root \in Menu /\ FirstWin \in Win /\ NoWin \notin Win
  /\ View[Root][FirstWin] # Failing
  /\ Pushed \notin Key \X Menu
  /\ \A m \in Menu, w \in Win :
       View[m][w] # Failing =>
         View[m][w] \in [bindings : Seq(Binding), capture : BOOLEAN]
  /\ MaxDepth \in Nat /\ MaxPressed \in Nat /\ MaxMoves \in Nat
  /\ MaxTicks \in Nat /\ MaxGiveUps \in Nat

VARIABLES
  stack,         \* RuntimeState::stack
  hudUp,         \* RuntimeState::hud_visible
  pinned,        \* RuntimeState::session: its window, or NoWin
  bindings,      \* RuntimeState::rendered.bindings, without their order
  shownFor,      \* RuntimeState::focus, the window rendered for
  captured,      \* KeyBindingManager::capture_all_active
  live,          \* Engine::focus_ctx
  due,           \* task -> the window its rebind was asked with, or NoWin
  holding,       \* chord -> how its held action navigates and for which window
  clearing,      \* a rebind has the transaction lock and waits for the tickers to end
  pressed, moved, ticked, giveUps      \* counters of the bounds

navVars == <<stack, hudUp, pinned>>
shownVars == <<bindings, shownFor, captured>>
taskVars == <<due, holding, clearing>>
boundVars == <<pressed, moved, ticked, giveUps>>
modeStackVars == <<navVars, shownVars, live, taskVars, boundVars>>

Follower == "follower"                      \* the task that follows the world
Task == Key \cup {Follower}
Unheld == [nav |-> "stay", to |-> Root, win |-> NoWin]

-----------------------------------------------------------------------------
(* Rendering. *)

Frame(menu, via, asks) == [menu |-> menu, via |-> via, rendered |-> {}, capture |-> asks]
RootFrame == Frame(Root, Pushed, FALSE)

\* A duplicate chord is ignored: the first binding wins.
Firsts(declared) ==
  {declared[i] : i \in {j \in DOMAIN declared :
                          \A k \in 1..(j - 1) : declared[k].chord # declared[j].chord}}

\* What a menu lists for a window; nothing when its function fails.
Listed ==
  [m \in Menu |-> [w \in Win |->
     IF View[m][w] = Failing THEN {} ELSE Firsts(View[m][w].bindings)]]

\* A menu asks for every key with menu:capture, or was entered by a binding that does;
\* the request is kept with the frame.
Shown(frame, w) ==
  [frame EXCEPT !.rendered = Listed[frame.menu][w],
                !.capture = @ \/ View[frame.menu][w].capture]

Offers(declared, via) ==
  \E b \in declared : b.kind = "enter" /\ <<b.chord, b.to>> = via

Breaks(s, d, w) == View[s[d].menu][w] = Failing
Vanishes(s, d, w) == d > 1 /\ Listed[s[d].menu][w] = {}

\* Defect: an entry is looked for by its chord alone.
OrphanedByChord(s, d, w) ==
  /\ d > 1 /\ s[d].via # Pushed
  /\ \A b \in Listed[s[d - 1].menu][w] : b.chord # s[d].via[1]

Orphaned(s, d, w) ==
  d > 1 /\ s[d].via # Pushed /\ ~Offers(Listed[s[d - 1].menu][w], s[d].via)

\* Rendering goes through the first n frames and is cut, or fails, at the next.
Fine(s, d, w) == ~Orphaned(s, d, w) /\ ~Breaks(s, d, w) /\ ~Vanishes(s, d, w)
Reaches(s, n, w) == n \in 0..Len(s) /\ \A d \in 1..n : Fine(s, d, w)
Fails(s, n, w) ==
  Reaches(s, n, w) /\ n < Len(s) /\ ~Orphaned(s, n + 1, w) /\ Breaks(s, n + 1, w)
Succeeds(s, n, w) ==
  /\ Reaches(s, n, w)
  /\ n < Len(s) => \/ Orphaned(s, n + 1, w)
                   \/ ~Breaks(s, n + 1, w) /\ Vanishes(s, n + 1, w)

Cut(s, n, w) == [d \in 1..n |-> Shown(s[d], w)]

\* The top menu's bindings, and the global ones of those below that no menu
\* above has taken the chord of.
Reaching(s, d) == {b \in s[d].rendered : d = Len(s) \/ b.global}
Flat(s) ==
  UNION {{b \in Reaching(s, d) :
            \A e \in (d + 1)..Len(s) : \A o \in Reaching(s, e) : o.chord # b.chord}
         : d \in 1..Len(s)}
Chords(bs) == {b.chord : b \in bs}

\* Defect: the stack is rendered again as it is.
ResetNothing(s, n, w) == s

\* What a failure leaves of the stack: the root, rendered if it was its turn.
Reset(s, n, w) == <<IF n = 0 THEN s[1] ELSE Shown(s[1], w)>>

\* The three outcomes of a render with its recovery: the new stack, and what is bound.
Rendered(s, w, new, bound, asks) ==
  \/ \E n \in 0..Len(s) :
       Succeeds(s, n, w) /\ new = Cut(s, n, w) /\ bound = Flat(new) /\ asks = new[n].capture
  \/ \E n \in 0..Len(s) :
       /\ Fails(s, n, w)
       /\ LET root == Reset(s, n, w) IN
            \/ \E m \in 0..Len(root) :
                 /\ Succeeds(root, m, w)
                 /\ new = Cut(root, m, w) /\ bound = Flat(new) /\ asks = new[m].capture
            \/ \E m \in 0..Len(root) :
                 Fails(root, m, w) /\ new = root /\ bound = {} /\ asks = FALSE

-----------------------------------------------------------------------------
(* Navigation. *)

\* A session keeps the window it began with.
Pinning(w) == pinned' = IF pinned = NoWin THEN w ELSE pinned
Context(w) == IF pinned = NoWin THEN w ELSE pinned

PushMode(to, via, asks, w) ==
  /\ stack' = Append(stack, Frame(to, via, asks))
  /\ hudUp' = TRUE
  /\ Pinning(w)

PopMode ==
  /\ stack' = IF Len(stack) = 1 THEN stack ELSE SubSeq(stack, 1, Len(stack) - 1)
  /\ IF Len(stack) <= 2 THEN hudUp' = FALSE /\ pinned' = NoWin
                        ELSE UNCHANGED <<hudUp, pinned>>

Navigate(nav, to, w) ==
  \/ nav = "push" /\ Len(stack) < MaxDepth /\ PushMode(to, Pushed, FALSE, w)
  \/ nav = "pop" /\ PopMode
  \/ nav = "exit" /\ stack' = <<stack[1]>> /\ hudUp' = FALSE /\ pinned' = NoWin
  \/ nav = "showRoot" /\ stack' = <<stack[1]>> /\ hudUp' = TRUE /\ Pinning(w)
  \/ nav = "hideHud" /\ hudUp' = FALSE /\ UNCHANGED <<stack, pinned>>
  \/ nav = "stay" /\ UNCHANGED navVars

Execute(b, w) ==
  \/ b.kind = "enter" /\ Len(stack) < MaxDepth
     /\ PushMode(b.to, <<b.chord, b.to>>, b.asks, w)
  \/ Navigate(b.kind, b.to, w)

-----------------------------------------------------------------------------

InitStack ==
  /\ stack = Cut(<<RootFrame>>, 1, FirstWin)
  /\ hudUp = FALSE /\ pinned = NoWin
  /\ bindings = Listed[Root][FirstWin]
  /\ shownFor = FirstWin /\ captured = FALSE
  /\ live = FirstWin
  /\ due = [t \in Task |-> NoWin]
  /\ holding = [k \in Key |-> Unheld] /\ clearing = FALSE
  /\ pressed = 0 /\ moved = 0 /\ ticked = 0 /\ giveUps = 0

\* A key's worker resolves the key against what was rendered last, runs the binding
\* and asks for a rebind with the focus it began with.
PressKey(k) ==
  /\ due[k] = NoWin /\ holding[k] = Unheld
  /\ pressed < MaxPressed /\ pressed' = pressed + 1
  /\ \E b \in bindings :
       /\ b.chord = k
       /\ Execute(b, Context(live))
       /\ holding' = [holding EXCEPT ![k] =
            IF b.held THEN [nav |-> b.kind, to |-> b.to, win |-> Context(live)] ELSE @]
  /\ due' = [due EXCEPT ![k] = live]
  /\ UNCHANGED <<shownVars, live, clearing, moved, ticked, giveUps>>

ReleaseKey(k) ==
  /\ due[k] = NoWin /\ holding[k] # Unheld
  /\ holding' = [holding EXCEPT ![k] = Unheld]
  /\ UNCHANGED <<navVars, shownVars, live, due, clearing, boundVars>>

\* A tick of a held action navigates and asks for no rebind.
TickHeld(k) ==
  /\ holding[k].nav # "stay"
  /\ ticked < MaxTicks /\ ticked' = ticked + 1
  /\ Navigate(holding[k].nav, holding[k].to, holding[k].win)
  /\ UNCHANGED <<shownVars, live, taskVars, pressed, moved, giveUps>>

\* The follower, or a worker before it handles its key, sees another window.
FocusMoves(t) ==
  /\ due[t] = NoWin
  /\ moved < MaxMoves /\ moved' = moved + 1
  /\ live' \in Win \ {live}
  /\ due' = [due EXCEPT ![t] = live']
  /\ UNCHANGED <<navVars, shownVars, holding, clearing, pressed, ticked, giveUps>>

Commit(asks) ==
  /\ captured' = (hudUp' /\ asks)
  /\ clearing' = (Chords(bindings') # Chords(bindings))

RebindStack(t) ==
  /\ due[t] # NoWin /\ ~clearing
  /\ due' = [due EXCEPT ![t] = NoWin]
  /\ UNCHANGED <<hudUp, pinned, live, holding, boundVars>>
  /\ shownFor' = Context(due[t])
  /\ \E asks \in BOOLEAN :
       Rendered(stack, shownFor', stack', bindings', asks) /\ Commit(asks)

\* The UI channel is full: the rebind is given up.
RebindRefused(t) ==
  /\ due[t] # NoWin /\ ~clearing
  /\ giveUps < MaxGiveUps /\ giveUps' = giveUps + 1
  /\ due' = [due EXCEPT ![t] = NoWin]
  /\ UNCHANGED <<navVars, shownVars, live, holding, clearing, pressed, moved, ticked>>

\* The tickers have ended: the transaction lock is free again.
ClearHeld ==
  /\ clearing /\ clearing' = FALSE
  /\ holding' = [k \in Key |-> Unheld]
  /\ UNCHANGED <<navVars, shownVars, live, due, boundVars>>

\* A configuration is installed anew, or reloaded (keep): then the HUD stays up, with
\* a new session for the window rendered for last.  One whose root fails is refused.
InstallConfig(keep) ==
  LET w == IF keep THEN shownFor ELSE live
  IN /\ ~clearing
     /\ giveUps < MaxGiveUps /\ giveUps' = giveUps + 1
     /\ Succeeds(<<RootFrame>>, 1, w)
     /\ stack' = Cut(<<RootFrame>>, 1, w)
     /\ hudUp' = (keep /\ hudUp)
     /\ pinned' = IF hudUp' THEN w ELSE NoWin
     /\ shownFor' = w
     /\ bindings' = Flat(stack')
     /\ Commit(stack'[1].capture)
     /\ UNCHANGED <<live, due, holding, pressed, moved, ticked>>

ModeStackNext ==
  \/ \E k \in Key : PressKey(k) \/ ReleaseKey(k) \/ TickHeld(k)
  \/ \E t \in Task : FocusMoves(t) \/ RebindStack(t) \/ RebindRefused(t)
  \/ ClearHeld \/ \E keep \in BOOLEAN : InstallConfig(keep)

ModeStackSpec == InitStack /\ [][ModeStackNext]_modeStackVars

-----------------------------------------------------------------------------
(* Properties. *)

\* A menu that has been rendered shows something, and is offered by the menu below it
\* or was pushed by a handler: a key that is bound is never that of a menu nothing
\* leads to, whatever keys, ticks, failures and moves of the focus came between the
\* renders (render_stack_inner's truncation, RenderRecovery).
ModesReachable ==
  \A d \in 2..Len(stack) :
    stack[d].rendered # {} =>
      stack[d].via = Pushed \/ Offers(stack[d - 1].rendered, stack[d].via)

\* A rebind leaves the root's global keys bound unless the root itself fails: a menu
\* that fails, is empty or has lost its entry takes none of them away (the recovery
\* of RenderRecovery::render, flatten_bindings).
RootKeysServe ==
  [][\A t \in Task : RebindStack(t) =>
       \/ View[Root][shownFor'] = Failing
       \/ \A b \in Listed[Root][shownFor'] :
            b.global => b.chord \in Chords(bindings')]_modeStackVars

\* Above the root there is always a session, so the menus and the actions of a child
\* mode see the window it was opened for (RuntimeState::start_session, end_session).
MenusArePinned == Len(stack) > 1 => pinned # NoWin

=============================================================================
