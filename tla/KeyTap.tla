------------------------------- MODULE KeyTap -------------------------------
(***************************************************************************)
(* The hotkey manager and its event tap (crates/mac-hotkey).               *)
(*                                                                         *)
(* Any thread may register, unregister, suspend or capture: the manager    *)
(* swaps in a new copy of its table under a write lock.  The tap thread    *)
(* classifies each key event of the keyboard against one copy of the table *)
(* and against the record it retained of the press the event belongs to,   *)
(* emits a logical event for the consumer, and passes the key event on to  *)
(* the focused application or swallows it.                                 *)
(*                                                                         *)
(* macOS may disable the tap; until the tap enables itself again, key      *)
(* events reach the application without the tap seeing them.               *)
(***************************************************************************)
EXTENDS Naturals, Tables

CONSTANTS
  Key,               \* physical keys
  Mods,              \* normalised modifier sets
  IdSpace,           \* ids are taken modulo this number (2^32 in the code)
  MaxRegistrations,  \* bound: registrations ever made
  MaxGuards,         \* bound: nested suspend guards, and nested capture guards
  MaxDisables        \* bound: times macOS disables the tap

ASSUME TapAssumption ==
  /\ IdSpace \in Nat \ {0, 1}
  /\ MaxRegistrations \in Nat
  /\ MaxGuards \in Nat
  /\ MaxDisables \in Nat

NoId == 0                                     \* never handed out
Id == 1..(IdSpace - 1)
Chord == [key : Key, mods : Mods]
Registration == [chord : Chord, intercept : BOOLEAN]
Logical == [id : Id, chord : Chord]
NoLogical == [id |-> NoId]
PressRecord == [logical : Logical \cup {NoLogical}, intercept : BOOLEAN]

VARIABLES
  nextId,         \* Inner::next_id
  regs,           \* Inner::regs
  suspend,        \* Inner::suspend, the number of live suspend guards
  captureAll,     \* Inner::capture_all, the number of live capture guards
  presses,        \* the tap's press records, by key
  enabled,        \* the tap is enabled
  physical,       \* key -> it is physically down
  app,            \* key -> the focused application believes it down
  consumer,       \* key -> id of the press the consumer was told of, or NoId
  missed,         \* keys of which the tap missed an event, until all is up again
  registrations,  \* registrations made so far
  disables        \* times the tap was disabled so far

tableVars == <<nextId, regs, registrations>>
guardVars == <<suspend, captureAll>>
keyVars == <<presses, physical, app, consumer, missed>>
tapVars == <<enabled, disables>>
vars == <<tableVars, guardVars, keyVars, tapVars>>

----------------------------------------------------------------------------
\* Keys may be held while the manager starts.
Init ==
  /\ nextId = 0
  /\ regs = [i \in {} |-> NoId]
  /\ suspend = 0
  /\ captureAll = 0
  /\ presses = [k \in {} |-> NoId]
  /\ enabled = TRUE
  /\ physical \in [Key -> BOOLEAN]
  /\ app = physical
  /\ consumer = [k \in Key |-> NoId]
  /\ missed = {k \in Key : physical[k]}
  /\ registrations = 0
  /\ disables = 0

----------------------------------------------------------------------------
(* The manager's table. *)

\* Defect: the search starts over at 1, so a freed id comes back at once.
FreeFromStart ==
  {d \in 1..IdSpace :
     /\ (nextId + d) % IdSpace \in Id \ DOMAIN regs
     /\ \A i \in Id \ DOMAIN regs : (nextId + d) % IdSpace <= i}

\* How far the wrapping counter may move to an id that is neither the sentinel
\* nor in use.
Steps ==
  {d \in 1..IdSpace : (nextId + d) % IdSpace \in Id \ DOMAIN regs}

NewId ==
  (nextId + CHOOSE d \in Steps : \A e \in Steps : d <= e) % IdSpace

\* Manager::watch and Manager::intercept.
Register(chord, intercept) ==
  /\ registrations < MaxRegistrations
  /\ Steps # {}
  /\ nextId' = NewId
  /\ regs' = Put(regs, NewId, [chord |-> chord, intercept |-> intercept])
  /\ registrations' = registrations + 1
  /\ UNCHANGED <<guardVars, keyVars, tapVars>>

\* Manager::unregister; an id that is not registered changes nothing.
Unregister(id) ==
  /\ id \in DOMAIN regs
  /\ regs' = Without(regs, id)
  /\ UNCHANGED <<nextId, registrations, guardVars, keyVars, tapVars>>

UnregisterAll ==
  /\ DOMAIN regs # {}
  /\ regs' = [i \in {} |-> NoId]
  /\ UNCHANGED <<nextId, registrations, guardVars, keyVars, tapVars>>

Suspend ==
  /\ suspend < MaxGuards
  /\ suspend' = suspend + 1
  /\ UNCHANGED <<tableVars, captureAll, keyVars, tapVars>>

Resume ==
  /\ suspend > 0
  /\ suspend' = suspend - 1
  /\ UNCHANGED <<tableVars, captureAll, keyVars, tapVars>>

Capture ==
  /\ captureAll < MaxGuards
  /\ captureAll' = captureAll + 1
  /\ UNCHANGED <<tableVars, suspend, keyVars, tapVars>>

EndCapture ==
  /\ captureAll > 0
  /\ captureAll' = captureAll - 1
  /\ UNCHANGED <<tableVars, suspend, keyVars, tapVars>>

----------------------------------------------------------------------------
(* The tap. *)

\* match_event: any registration of the chord, an intercepting one first.
Matching(chord) == {i \in DOMAIN regs : regs[i].chord = chord}
Intercepting(chord) == {i \in Matching(chord) : regs[i].intercept}
Best(chord) == IF Intercepting(chord) # {} THEN Intercepting(chord)
                                           ELSE Matching(chord)

\* policy::classify and the capture rule of classify_tap_event: the record of a
\* new press of the chord.
Accepted(chord) ==
  {[logical |-> [id |-> i, chord |-> chord],
    intercept |-> regs[i].intercept \/ captureAll > 0] : i \in Best(chord)}
Ignored(swallow) == [logical |-> NoLogical, intercept |-> swallow]

NewPress(chord) ==
  IF suspend > 0 THEN {Ignored(FALSE)}
  ELSE IF Matching(chord) = {} THEN {Ignored(captureAll > 0)}
  ELSE Accepted(chord)

\* The key is up everywhere: whatever the tap missed of it no longer matters.
Settle(k) ==
  missed' = IF physical'[k] \/ app'[k] \/ k \in DOMAIN presses'
            THEN missed ELSE missed \ {k}

\* A press or an autorepeat of a key whose press the tap has not recorded.
PressNew(k, mods) ==
  /\ enabled
  /\ k \notin DOMAIN presses
  /\ \E press \in NewPress([key |-> k, mods |-> mods]) :
       /\ presses' = Put(presses, k, press)
       /\ consumer' = [consumer EXCEPT ![k] = press.logical.id]
       /\ app' = [app EXCEPT ![k] = @ \/ ~press.intercept]
  /\ physical' = [physical EXCEPT ![k] = TRUE]
  /\ UNCHANGED <<tableVars, guardVars, tapVars, missed>>

\* A press or an autorepeat of a key with a record: the record decides, and
\* suspension only holds back the logical event.
PressAgain(k) ==
  /\ enabled
  /\ k \in DOMAIN presses
  /\ consumer' = [consumer EXCEPT
                    ![k] = IF suspend = 0 THEN presses[k].logical.id ELSE @]
  /\ app' = [app EXCEPT ![k] = @ \/ ~presses[k].intercept]
  /\ physical' = [physical EXCEPT ![k] = TRUE]
  /\ UNCHANGED <<tableVars, guardVars, tapVars, presses, missed>>

\* Defect: the release is matched against the table again.
ReleaseRematched(k) ==
  /\ enabled
  /\ physical[k]
  /\ physical' = [physical EXCEPT ![k] = FALSE]
  /\ presses' = Without(presses, k)
  /\ LET known == k \in DOMAIN presses /\ presses[k].logical.id \in DOMAIN regs
         swallow == \/ captureAll > 0
                    \/ \E i \in DOMAIN regs :
                         regs[i].chord.key = k /\ regs[i].intercept
     IN /\ app' = [app EXCEPT ![k] = @ /\ swallow]
        /\ consumer' = [consumer EXCEPT ![k] = IF known THEN NoId ELSE @]
  /\ Settle(k)
  /\ UNCHANGED <<tableVars, guardVars, tapVars>>

\* The release takes the record out and follows it, suspended or not.  It ends the
\* press the record names, and tells the consumer nothing if it names none.
Release(k) ==
  /\ enabled
  /\ physical[k]
  /\ physical' = [physical EXCEPT ![k] = FALSE]
  /\ presses' = Without(presses, k)
  /\ app' = [app EXCEPT ![k] =
               @ /\ k \in DOMAIN presses /\ presses[k].intercept]
  /\ consumer' = [consumer EXCEPT
                    ![k] = IF k \in DOMAIN presses /\ presses[k].logical.id = @
                           THEN NoId ELSE @]
  /\ Settle(k)
  /\ UNCHANGED <<tableVars, guardVars, tapVars>>

\* While the tap is disabled key events go straight to the application.
Bypass(k, down) ==
  /\ ~enabled
  /\ down \/ physical[k]
  /\ physical' = [physical EXCEPT ![k] = down]
  /\ app' = [app EXCEPT ![k] = down]
  /\ missed' = missed \cup {k}
  /\ UNCHANGED <<tableVars, guardVars, tapVars, presses, consumer>>

\* TapDisabledByTimeout or TapDisabledByUserInput.
Disable ==
  /\ enabled
  /\ disables < MaxDisables
  /\ disables' = disables + 1
  /\ enabled' = FALSE
  /\ UNCHANGED <<tableVars, guardVars, keyVars>>

\* The callback enables the tap again; the press records stay as they were.
Reenable ==
  /\ ~enabled
  /\ enabled' = TRUE
  /\ UNCHANGED <<tableVars, guardVars, keyVars, disables>>

----------------------------------------------------------------------------
Manage ==
  \/ \E c \in Chord, b \in BOOLEAN : Register(c, b)
  \/ \E i \in Id : Unregister(i)
  \/ UnregisterAll
  \/ Suspend
  \/ Resume
  \/ Capture
  \/ EndCapture

TapEvent(k) ==
  \/ \E m \in Mods : PressNew(k, m)
  \/ PressAgain(k)
  \/ Release(k)
  \/ \E down \in BOOLEAN : Bypass(k, down)

Next ==
  \/ Manage
  \/ \E k \in Key : TapEvent(k)
  \/ Disable
  \/ Reenable

Spec == Init /\ [][Next]_vars

----------------------------------------------------------------------------
\* Every variable keeps its type; the sentinel id 0 is never registered.
TypeOK ==
  /\ nextId \in 0..(IdSpace - 1)
  /\ regs \in Table(Id, Registration)
  /\ suspend \in Nat
  /\ captureAll \in Nat
  /\ presses \in Table(Key, PressRecord)
  /\ enabled \in BOOLEAN
  /\ physical \in [Key -> BOOLEAN]
  /\ app \in [Key -> BOOLEAN]
  /\ consumer \in [Key -> Id \cup {NoId}]
  /\ missed \in SUBSET Key
  /\ registrations \in Nat
  /\ disables \in Nat

\* What the consumer was told of a key is exactly the press the tap retains,
\* through suspensions, unregistrations and disabled taps: a repeat or a release
\* always carries the id of its press ("still emits its paired key-up",
\* lib.rs:303).
ConsumerInSync ==
  \A k \in Key :
    consumer[k] = IF k \in DOMAIN presses THEN presses[k].logical.id ELSE NoId

\* A press is retained "from physical key-down until its paired key-up"
\* (sys.rs:77) for every key of which the tap saw all events.
PressTracked ==
  \A k \in Key \ missed : physical[k] <=> k \in DOMAIN presses

\* "It cannot leak a partial keystroke" (lib.rs:18): the application believes a
\* key down exactly while it is down and its press was passed on.
NoPartialKeystroke ==
  \A k \in Key \ missed :
    app[k] = (k \in DOMAIN presses /\ ~presses[k].intercept)

\* Until the ids wrap, the id a press retains, if it is registered at all, is
\* still the registration of that chord, however often the table changed.
RetainedIdentity ==
  registrations < IdSpace =>
    \A k \in DOMAIN presses :
      LET press == presses[k].logical
      IN press.id \in DOMAIN regs => regs[press.id].chord = press.chord

\* A registration is never overwritten by a later one, even after ids wrap.
RegistrationsKept ==
  [][\A i \in DOMAIN regs \cap DOMAIN regs' : regs'[i] = regs[i]]_vars

\* While suspended, with or without capture-all, the consumer learns of no
\* press: it can only be told that one it knows of ended.
SuspendedIsQuiet ==
  [][suspend > 0 => \A k \in Key : consumer'[k] \in {consumer[k], NoId}]_vars

\* "Decision retained from physical key-down until its paired key-up"
\* (sys.rs:77), for every key up while the tap runs.
ReleasedPressForgotten ==
  enabled => \A k \in DOMAIN presses : physical[k]

=============================================================================
