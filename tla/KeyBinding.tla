----------------------------- MODULE KeyBinding ------------------------------
(***************************************************************************)
(* The engine's key binding manager (crates/hotki-engine/key_binding.rs)   *)
(* over the hotkey manager's table of registrations (crates/mac-hotkey).   *)
(*                                                                         *)
(* An update runs under the manager's lock, but the tap thread reads the   *)
(* table at any moment: it matches key presses against whatever is         *)
(* registered between two steps of an update, and the event it emits,      *)
(* which names a registration id, is resolved by the engine any time       *)
(* later.                                                                  *)
(***************************************************************************)
EXTENDS Naturals, FiniteSets, Tables

CONSTANTS
  Ident,        \* binding identifiers
  Chord,        \* chords
  MaxId,        \* bound: registrations ever made
  MaxEvents     \* bound: events emitted and not yet resolved

ASSUME BindingAssumption == MaxId \in Nat /\ MaxEvents \in Nat

Id == 1..MaxId
Registration == [id : Id, chord : Chord]                \* BindingRegistration
Event == [id : Id, chord : Chord]            \* an event and the chord it matched

VARIABLES
  regs,          \* the hotkey manager's table: id -> intercepted chord
  nextId,        \* the id it handed out last
  bindings,      \* KeyBindingManager::bindings
  identsById,    \* KeyBindingManager::idents_by_id
  captureAll,    \* capture_all_active, and whether capture_guard is held
  step,          \* where update_bindings is
  desired,       \* its argument
  toRemove,      \* identifiers still to unregister
  toAdd,         \* identifiers still to register
  removed,       \* its local: identifier -> the registration it removed
  before,        \* bindings when the update started
  events         \* emitted by the tap, not yet resolved by the engine

apiVars == <<regs, nextId>>
tableVars == <<bindings, identsById>>
updateVars == <<step, desired, toRemove, toAdd, removed, before>>
vars == <<apiVars, tableVars, captureAll, updateVars, events>>

Chords(table) == [i \in DOMAIN table |-> table[i].chord]

Chosen(table, idents) == [i \in idents |-> table[i]]
Empty == [i \in {} |-> i]

Init ==
  /\ regs = Empty
  /\ nextId = 0
  /\ bindings = Empty
  /\ identsById = Empty
  /\ captureAll = FALSE
  /\ step = "idle"
  /\ desired = Empty
  /\ toRemove = {}
  /\ toAdd = {}
  /\ removed = Empty
  /\ before = Empty
  /\ events = {}

----------------------------------------------------------------------------
(* HotkeyApi and the two helpers every registration goes through. *)

\* HotkeyApi::intercept hands out a fresh id.
NewId == nextId + 1

RegisterBinding(i, chord) ==
  /\ nextId < MaxId
  /\ nextId' = NewId
  /\ regs' = Put(regs, NewId, chord)
  /\ bindings' = Put(bindings, i, [id |-> NewId, chord |-> chord])
  /\ identsById' = Put(identsById, NewId, i)

\* Defect: the reverse lookup keeps the identifier.
UnregisterKeepingIdent(i) ==
  /\ regs' = Without(regs, bindings[i].id)
  /\ bindings' = Without(bindings, i)
  /\ UNCHANGED <<nextId, identsById>>

\* Defect: an identifier about to be bound again keeps its registration.
UnregisterOnlyGone(i) ==
  /\ regs' = IF i \in toAdd THEN regs ELSE Without(regs, bindings[i].id)
  /\ bindings' = Without(bindings, i)
  /\ identsById' = Without(identsById, bindings[i].id)
  /\ UNCHANGED nextId

UnregisterBinding(i) ==
  /\ regs' = Without(regs, bindings[i].id)
  /\ bindings' = Without(bindings, i)
  /\ identsById' = Without(identsById, bindings[i].id)
  /\ UNCHANGED nextId

----------------------------------------------------------------------------
(* update_bindings. *)

\* Defect: the update starts from an empty table.
EverythingReplaced(wanted) == DOMAIN wanted \cap DOMAIN bindings

Replaced(wanted) ==
  {i \in DOMAIN wanted \cap DOMAIN bindings : bindings[i].chord # wanted[i]}

\* What is bound is not what is wanted: split the identifiers.
Begin(wanted) ==
  /\ step = "idle"
  /\ Chords(bindings) # wanted
  /\ step' = "removing"
  /\ desired' = wanted
  /\ toRemove' = (DOMAIN bindings \ DOMAIN wanted) \cup Replaced(wanted)
  /\ toAdd' = (DOMAIN wanted \ DOMAIN bindings) \cup Replaced(wanted)
  /\ removed' = Empty
  /\ before' = bindings
  /\ UNCHANGED <<apiVars, tableVars, captureAll, events>>

\* Removed identifiers are taken before replaced ones, new before replaced.
Remove(i) ==
  /\ step = "removing"
  /\ i \in toRemove
  /\ i \in toAdd => toRemove \subseteq toAdd
  /\ UnregisterBinding(i)
  /\ removed' = Put(removed, i, bindings[i])
  /\ toRemove' = toRemove \ {i}
  /\ UNCHANGED <<captureAll, step, desired, toAdd, before, events>>

\* The locals of the update end with it.
Return ==
  /\ step' = "idle"
  /\ desired' = Empty
  /\ toRemove' = {}
  /\ toAdd' = {}
  /\ removed' = Empty
  /\ before' = Empty

\* Defect: a failure leaves what was removed so far removed.
RemoveFailsForGood(i) ==
  /\ step = "removing"
  /\ i \in toRemove
  /\ Return
  /\ UNCHANGED <<apiVars, tableVars, captureAll, events>>

\* HotkeyApi::unregister returns an error: the rest of the update is given up.
RemoveFails(i) ==
  /\ step = "removing"
  /\ i \in toRemove
  /\ i \in toAdd => toRemove \subseteq toAdd
  /\ step' = "restoring"
  /\ UNCHANGED <<apiVars, tableVars, captureAll, desired, toRemove, toAdd,
                 removed, before, events>>

AllRemoved ==
  /\ step = "removing"
  /\ toRemove = {}
  /\ step' = "adding"
  /\ UNCHANGED <<apiVars, tableVars, captureAll, desired, toRemove, toAdd,
                 removed, before, events>>

Add(i) ==
  /\ step = "adding"
  /\ i \in toAdd
  /\ i \in DOMAIN removed => toAdd \subseteq DOMAIN removed
  /\ RegisterBinding(i, desired[i])
  /\ toAdd' = toAdd \ {i}
  /\ UNCHANGED <<captureAll, step, desired, toRemove, removed, before, events>>

\* The update succeeds; its callers then set the capture of the new mode.
Succeed(capture) ==
  /\ step = "adding"
  /\ toAdd = {}
  /\ captureAll' = capture
  /\ Return
  /\ UNCHANGED <<apiVars, tableVars, events>>

Restore(i) ==
  /\ step = "restoring"
  /\ i \in DOMAIN removed
  /\ RegisterBinding(i, removed[i].chord)
  /\ removed' = Without(removed, i)
  /\ UNCHANGED <<captureAll, step, desired, toRemove, toAdd, before, events>>

\* The update returns its error; the capture stays as it was.
Fail ==
  /\ step = "restoring"
  /\ DOMAIN removed = {}
  /\ Return
  /\ UNCHANGED <<apiVars, tableVars, captureAll, events>>

----------------------------------------------------------------------------
(* The tap thread and the dispatch of its events. *)

Press(id) ==
  /\ Cardinality(events) < MaxEvents
  /\ events' = events \cup {[id |-> id, chord |-> regs[id]]}
  /\ UNCHANGED <<apiVars, tableVars, captureAll, updateVars>>

\* KeyBindingManager::resolve: the chord the id stands for, when it still does.
Resolves(id) == id \in DOMAIN identsById /\ identsById[id] \in DOMAIN bindings
Resolve(id) == bindings[identsById[id]].chord

\* The engine resolves ids under the manager's lock, never amid an update.
Dispatch(e) ==
  /\ step = "idle"
  /\ events' = events \ {e}
  /\ UNCHANGED <<apiVars, tableVars, captureAll, updateVars>>

----------------------------------------------------------------------------
Next ==
  \/ \E wanted \in Table(Ident, Chord) : Begin(wanted)
  \/ \E i \in Ident : Remove(i) \/ RemoveFails(i) \/ Add(i) \/ Restore(i)
  \/ AllRemoved
  \/ \E capture \in BOOLEAN : Succeed(capture)
  \/ Fail
  \/ \E id \in DOMAIN regs : Press(id)
  \/ \E e \in events : Dispatch(e)

Spec == Init /\ [][Next]_vars

----------------------------------------------------------------------------
(* Properties. *)

\* Every variable keeps its type.
TypeOK ==
  /\ regs \in Table(Id, Chord)
  /\ nextId \in 0..MaxId
  /\ bindings \in Table(Ident, Registration)
  /\ identsById \in Table(Id, Ident)
  /\ captureAll \in BOOLEAN
  /\ step \in {"idle", "removing", "adding", "restoring"}
  /\ desired \in Table(Ident, Chord)
  /\ toRemove \subseteq Ident
  /\ toAdd \subseteq Ident
  /\ removed \in Table(Ident, Registration)
  /\ before \in Table(Ident, Registration)
  /\ events \subseteq Event

\* The table of the hotkey manager and both directions of the binding manager's
\* lookup agree after every step of an update, failing ones included: each
\* binding's id is registered with its chord and names its identifier, and
\* nothing else is registered.  So the hotkey manager never meets an id it does
\* not know, the only error its unregister has.
LookupsAgree ==
  /\ DOMAIN regs = DOMAIN identsById
  /\ \A i \in DOMAIN bindings :
       /\ bindings[i].id \in DOMAIN regs
       /\ regs[bindings[i].id] = bindings[i].chord
       /\ identsById[bindings[i].id] = i
  /\ \A id \in DOMAIN regs :
       /\ identsById[id] \in DOMAIN bindings
       /\ bindings[identsById[id]].id = id

\* An event that waited while bindings changed is resolved to the chord that was
\* pressed or to nothing, never to the chord its identifier was moved to.
ResolvedIsPressed ==
  \A e \in events : Resolves(e.id) => Resolve(e.id) = e.chord

\* "Incremental update to avoid any interception gap" (key_binding.rs:91): an
\* identifier wanted with the chord it has keeps its registration at every step,
\* also of an update that fails.
NoInterceptionGap ==
  step # "idle" =>
    \A i \in DOMAIN before \cap DOMAIN desired :
      desired[i] = before[i].chord =>
        i \in DOMAIN bindings /\ bindings[i] = before[i]

\* Seen between updates, the manager replaces the bindings as a whole or, when
\* an update fails half way, not at all.
Visible == IF step = "idle" THEN Chords(bindings) ELSE Chords(before)
Atomic == INSTANCE BindingTable
  WITH chords <- Visible, asked <- step # "idle", wanted <- desired
ImplementsTable == Atomic!Spec

=============================================================================
