------------------------------ MODULE Selector -------------------------------
(***************************************************************************)
(* The engine's interactive selector (crates/hotki-engine selector.rs and  *)
(* selector_controller.rs) and the selector window it drives.              *)
(*                                                                         *)
(* A handler opens the selector; from then on the keys pressed edit its    *)
(* query, move the selection, accept or cancel.  The matcher works on a    *)
(* thread of its own: a tick waits ten milliseconds for it, and if it is   *)
(* late it wakes the notify task when it is done.  Each key has a worker,  *)
(* which is interrupted while it waits for a fresh view of the world and   *)
(* for the transaction lock of the rebind.                                 *)
(*                                                                         *)
(* Only one character can be typed: a query is its length, and its results *)
(* are their number.                                                       *)
(***************************************************************************)
EXTENDS Integers

CONSTANTS
  Count,         \* length of the query -> how many items match it
  MaxVisible,    \* SelectorConfig::max_visible, at least one
  MaxQuery,      \* bound: length of a query
  MaxKeys,       \* bound: keys pressed
  MaxRefused,    \* bound: messages the full UI channel refuses
  MaxReloads     \* bound: reloads of the configuration by the user

ASSUME SelectorAssumption ==
  /\ MaxQuery \in Nat /\ MaxKeys \in Nat /\ MaxRefused \in Nat /\ MaxReloads \in Nat
  /\ MaxVisible \in Nat \ {0}
  /\ Count \in [0..MaxQuery -> Nat]

\* Chords by what they do: the key whose handler opens the selector (it types a
\* character in an open one), and the selector's shortcuts.
Chord == {"opener", "up", "down", "erase", "clear", "accept", "cancel"}
NoResults == -1
NotShown == [first |-> 0, len |-> 0, at |-> 0, total |-> -1, of |-> NoResults]

VARIABLES
  open,          \* RuntimeState::selector is there
  query,         \* SelectorState::query
  selected,      \* SelectorState::selected
  results,       \* the query the matcher's snapshot belongs to
  matcher,       \* the matcher's worker
  late,          \* a tick has timed out and asked to be notified
  permit,          \* the permit of Engine::selector_notify
  hudShown,      \* RuntimeState::hud_visible
  hudBefore,     \* SelectorState::prev_hud_visible
  capture,       \* the selector's chords are bound, and every key captured
  shown,         \* the snapshot in the selector window, or NotShown
  worker,          \* chord -> where its worker is
  keys, refused, reloads      \* counters of the bounds

editVars == <<query, selected>>
matchVars == <<results, matcher, late, permit>>
hudVars == <<hudShown, hudBefore>>
countVars == <<keys, refused, reloads>>
selectorVars == <<open, editVars, matchVars, hudVars, capture, shown, worker, countVars>>

SelectorInit ==
  /\ open = FALSE /\ query = 0 /\ selected = 0
  /\ results = 0 /\ matcher = "idle" /\ late = FALSE /\ permit = FALSE
  /\ hudShown \in BOOLEAN /\ hudBefore = FALSE
  /\ capture = FALSE
  /\ shown = NotShown
  /\ worker = [k \in Chord |-> "idle"]
  /\ keys = 0 /\ refused = 0 /\ reloads = 0

Total(r) == IF r = NoResults THEN 0 ELSE Count[r]
AtMost(a, b) == IF a < b THEN a ELSE b
Below(n) == IF n = 0 THEN 0 ELSE n - 1              \* saturating_sub(1)
Goes(k, pc) == worker' = [worker EXCEPT ![k] = pc]

\* Between the close and the end of its handler no other task runs.
Undisturbed == \A k \in Chord : worker[k] # "closed"

\* Defect: the window begins half a page before the selection, wherever that is.
CentredOn(sel, total) ==
  [first |-> IF sel < MaxVisible \div 2 THEN 0 ELSE sel - MaxVisible \div 2,
   len |-> AtMost(total, MaxVisible)]

\* The results shown: all, or max_visible of them around the selection.
WindowOf(sel, total) ==
  IF total <= MaxVisible
    THEN [first |-> 0, len |-> total]
    ELSE LET half == MaxVisible \div 2
             start == IF sel < half THEN 0 ELSE sel - half
             end == AtMost(start + MaxVisible, total)
         IN [first |-> end - MaxVisible, len |-> MaxVisible]

\* SelectorState::snapshot of the results r; it clamps the selection.
Clamp(sel, r) == AtMost(sel, Below(Total(r)))
Snapshot(sel, r) ==
  LET at == Clamp(sel, r)
      w == WindowOf(at, Total(r))
  IN [first |-> w.first, len |-> w.len, at |-> at - w.first, total |-> Total(r), of |-> r]

\* A message to the UI, or the full channel's refusal.
Send(what) == shown' = what /\ UNCHANGED refused
Refuse == refused < MaxRefused /\ refused' = refused + 1 /\ UNCHANGED shown

\* SelectorMatcher::tick for the query q, new if dirty: the worker is in time, or
\* it is late and will notify.
Match(dirty, q, changed) ==
  \/ /\ ~changed
     /\ dirty \/ matcher = "working"
     /\ matcher' = "working"
     /\ late' = TRUE
     /\ UNCHANGED results
  \/ /\ changed = (dirty \/ matcher # "idle")
     /\ matcher' = "idle"
     /\ late' = FALSE
     /\ results' = IF changed THEN q ELSE results

-----------------------------------------------------------------------------
(* The user and the matcher's thread. *)

\* With the selector's chords bound every shortcut reaches the engine; else only
\* the chord of a binding does.
Press(k) ==
  /\ keys < MaxKeys
  /\ worker[k] = "idle"
  /\ capture \/ k = "opener"
  /\ keys' = keys + 1
  /\ Goes(k, "refresh")
  /\ UNCHANGED <<open, editVars, matchVars, hudVars, capture, shown, refused, reloads>>

MatcherDone ==
  /\ matcher = "working"
  /\ matcher' = "done"
  /\ late' = FALSE
  /\ permit' = (permit \/ late)
  /\ UNCHANGED <<open, editVars, results, hudVars, capture, shown, worker, countVars>>

\* The task of selector_notify: it publishes what has changed.
OnNotify ==
  /\ Undisturbed
  /\ permit
  /\ permit' = FALSE
  /\ \/ /\ open
        /\ Match(FALSE, query, TRUE)
        /\ selected' = Clamp(selected, results')
        /\ Send(Snapshot(selected, results')) \/ Refuse
     \/ /\ open
        /\ Match(FALSE, query, FALSE)
        /\ UNCHANGED <<selected, shown, refused>>
     \/ /\ ~open
        /\ UNCHANGED <<selected, results, matcher, late, shown, refused>>
  /\ UNCHANGED <<open, query, hudVars, capture, worker, keys, reloads>>

-----------------------------------------------------------------------------
(* A key event, its refresh of the world done. *)

At(k, pc) == worker[k] = pc /\ (pc = "closed" \/ Undisturbed)

\* SelectorController::open.  The items pushed have notified; the first snapshot is
\* empty if the matcher is late.  A refused snapshot leaves the selector open, and
\* its keys unbound.
OpenSelector(k) ==
  /\ open' = TRUE
  /\ hudBefore' = hudShown
  /\ hudShown' = FALSE
  /\ query' = 0 /\ selected' = 0
  /\ permit' = TRUE
  /\ \/ results' = 0 /\ matcher' = "idle" /\ late' = FALSE
     \/ results' = NoResults /\ matcher' = "working" /\ late' = TRUE
  /\ \/ Send(Snapshot(0, results')) /\ Goes(k, "rebind")
     \/ Refuse /\ Goes(k, "idle")
  /\ UNCHANGED <<capture, keys, reloads>>

Open(k) == At(k, "refresh") /\ ~open /\ k = "opener" /\ OpenSelector(k)

\* A key of a selector that is gone has no binding.
Unbound(k) ==
  /\ At(k, "refresh") /\ ~open /\ k # "opener"
  /\ Goes(k, "idle")
  /\ UNCHANGED <<open, editVars, matchVars, hudVars, capture, shown, countVars>>

\* An input that changes the selector: tick, and publish the snapshot.
Update(k, dirty, q, sel) ==
  /\ query' = q
  /\ \E changed \in BOOLEAN : Match(dirty, q, changed)
  /\ selected' = Clamp(sel, results')
  /\ Send(Snapshot(sel, results')) \/ Refuse
  /\ Goes(k, "idle")
  /\ UNCHANGED <<open, permit, hudVars, capture, keys, reloads>>

Edits(k) ==
  \/ k = "opener" /\ query < MaxQuery
  \/ k \in {"erase", "clear"} /\ query > 0

\* A character typed, the last one or all of them removed.
Edit(k) ==
  /\ At(k, "refresh") /\ open /\ Edits(k)
  /\ Update(k, TRUE, CASE k = "opener" -> query + 1
                       [] k = "erase" -> query - 1
                       [] k = "clear" -> 0, 0)

Moves(k) ==
  \/ k = "up" /\ selected > 0
  \/ k = "down" /\ selected < Below(Total(results))

Move(k) ==
  /\ At(k, "refresh") /\ open /\ Moves(k)
  /\ Update(k, FALSE, query, IF k = "up" THEN selected - 1 ELSE selected + 1)

\* Nothing to remove, no further to move, nothing to accept.
Ignore(k) ==
  /\ At(k, "refresh") /\ open
  /\ ~Edits(k) /\ ~Moves(k) /\ k # "cancel"
  /\ k = "accept" => Total(results) = 0
  /\ Goes(k, "idle")
  /\ UNCHANGED <<open, editVars, matchVars, hudVars, capture, shown, countVars>>

\* close_selector and the first step of complete_close: a SelectorHide that is
\* refused ends it there, before the handler and the rebind.
Close(k) ==
  /\ open' = FALSE
  /\ hudShown' = hudBefore
  /\ query' = 0 /\ selected' = 0
  /\ results' = NoResults /\ matcher' = "idle" /\ late' = FALSE
  /\ \/ Send(NotShown) /\ Goes(k, "closed")
     \/ Refuse /\ Goes(k, "idle")
  /\ UNCHANGED <<permit, hudBefore, capture, keys, reloads>>

Cancel(k) == At(k, "refresh") /\ open /\ k = "cancel" /\ Close(k)

\* select_current ticks once more; results that are gone by then close nothing, and
\* that they changed is told to nobody.
Accept(k) ==
  /\ At(k, "refresh") /\ open /\ k = "accept"
  /\ Total(results) > 0
  /\ \/ /\ matcher = "done" => Total(query) > 0
        /\ Close(k)
     \/ /\ matcher \in {"working", "done"} /\ Total(query) = 0
        /\ Match(FALSE, query, TRUE)
        /\ selected' = 0
        /\ Goes(k, "idle")
        /\ UNCHANGED <<open, query, permit, hudVars, capture, shown, countVars>>

\* The handler of the selection or of the cancellation: it does something else, or
\* opens another selector, or fails, which ends the close with a rebind too unless
\* the error cannot be reported.
Handled(k) ==
  /\ At(k, "closed")
  /\ \/ Goes(k, "rebind") /\ UNCHANGED <<shown, refused>>
     \/ Refuse /\ Goes(k, "idle")
  /\ UNCHANGED <<open, editVars, matchVars, hudVars, capture, keys, reloads>>

Reopen(k) == At(k, "closed") /\ OpenSelector(k)

\* Defect: the keys stay those of the time the event began.
RebindNothing ==
  UNCHANGED capture

\* build_refresh_plan: the selector's chords with every key captured, or the mode's.
BindKeys == capture' = open

\* rebind_and_refresh has the transaction lock; without room for the HUD it fails.
Rebind(k) ==
  /\ At(k, "rebind")
  /\ \/ BindKeys /\ UNCHANGED <<shown, refused>>
     \/ Refuse /\ UNCHANGED capture
  /\ Goes(k, "idle")
  /\ UNCHANGED <<open, editVars, matchVars, hudVars, keys, reloads>>

\* Another window gets the focus.
Refocus ==
  /\ Undisturbed
  /\ BindKeys
  /\ UNCHANGED <<open, editVars, matchVars, hudVars, shown, worker, countVars>>

\* The user reloads the configuration: the new runtime state has no selector.
Reload ==
  /\ Undisturbed
  /\ reloads < MaxReloads
  /\ reloads' = reloads + 1
  /\ open' = FALSE
  /\ hudShown' = FALSE
  /\ query' = 0 /\ selected' = 0
  /\ results' = NoResults /\ matcher' = "idle" /\ late' = FALSE
  /\ capture' = FALSE
  /\ UNCHANGED <<permit, hudBefore, shown, worker, keys, refused>>

KeyStep(k) ==
  \/ Open(k) \/ Unbound(k) \/ Edit(k) \/ Move(k) \/ Ignore(k)
  \/ Accept(k) \/ Cancel(k) \/ Handled(k) \/ Reopen(k) \/ Rebind(k)

SelectorNext ==
  \/ \E k \in Chord : Press(k) \/ KeyStep(k)
  \/ MatcherDone \/ OnNotify \/ Refocus \/ Reload

-----------------------------------------------------------------------------
(* Properties *)

\* The states of the selector, its matcher, its window and the workers.
SelectorTypeOK ==
  /\ {open, late, permit, hudShown, hudBefore, capture} \subseteq BOOLEAN
  /\ query \in 0..MaxQuery
  /\ selected \in Nat
  /\ results \in {NoResults} \union 0..MaxQuery
  /\ matcher \in {"idle", "working", "done"}
  /\ shown = NotShown \/ shown.of \in {NoResults} \union 0..MaxQuery
  /\ worker \in [Chord -> {"idle", "refresh", "closed", "rebind"}]

AtRest == \A k \in Chord : worker[k] = "idle"

\* SelectorState::snapshot: the window shows all results or max_visible of them, in
\* the range of the results, with the selection among them, whatever results replace
\* those the selection was moved in.
WindowHoldsSelection ==
  shown # NotShown =>
    /\ shown.len = AtMost(shown.total, MaxVisible)
    /\ shown.first \in 0..shown.total - shown.len
    /\ shown.total > 0 => shown.at \in 0..shown.len - 1

\* rebind_and_refresh, SelectorUpdate and SelectorHide: in whatever order the notify
\* task, the keys and the focus take the lock, once no key event is in flight the
\* keyboard is captured exactly while the selector is open, so that the user is neither
\* locked out of other applications nor typing into them, and the window is on the
\* screen exactly then.  A refused message breaks both; a reload drops the selector and
\* hides nothing.
SelectorSettles ==
  AtRest /\ refused = 0 =>
    /\ capture = open
    /\ reloads = 0 => (shown # NotShown) = open

=============================================================================
