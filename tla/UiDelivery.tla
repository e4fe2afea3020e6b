----------------------------- MODULE UiDelivery ------------------------------
(***************************************************************************)
(* The mailbox that carries events to the UI thread                        *)
(* (crates/hotki-app/src/ui_delivery.rs), with the threads that send       *)
(* (connection_driver/ui_sink.rs, tray.rs) and the UI's frames (app.rs).   *)
(*                                                                         *)
(* Snapshots of one class replace each other until they are read; ordered  *)
(* events are never merged, and move all retained snapshots to the bounded *)
(* lane before them.  A sender that finds the lane full waits on a         *)
(* condition variable, which gives up the lock in the middle of that move. *)
(* Whether the receiver is there is an atomic flag outside the lock.       *)
(*                                                                         *)
(* The UI thread reads the mailbox only in a frame, and frames are drawn   *)
(* on request.  A request is for two frames (egui).  The driver asks for   *)
(* one before each event; the threads of the tray may ask after an event,  *)
(* once for two of them, or not at all.                                    *)
(***************************************************************************)
EXTENDS Naturals, Sequences, FiniteSets

CONSTANTS
  Sender,      \* threads that send
  Class,       \* classes of snapshots
  Sends,       \* sender -> the kinds of events it sends
  Inputs,      \* sender -> what it does for one input: sequences of steps
  Capacity,    \* UI_ORDERED_CAPACITY (256)
  MaxEvents    \* bound: events ever sent

Kind == Class \cup {"ordered", "log"}

\* Steps of a sender: ask for a repaint, send an event, or ask and then send.
Step == {"ask", "send", "askSend"}

Free == "free"

ASSUME DeliveryAssumption ==
  /\ IsFiniteSet(Sender) /\ Free \notin Sender
  /\ Class \cap {"ordered", "log"} = {}
  /\ Sends \in [Sender -> SUBSET Kind]
  /\ Inputs \in [Sender -> SUBSET (Seq(Step) \ {<<>>})]
  /\ Capacity \in Nat \ {0}
  /\ MaxEvents \in Nat

Event == [from : Sender, kind : Kind]
Number == 1..MaxEvents
None == 0

VARIABLES
  sent,         \* events in the order of their sequence numbers
  ordered,      \* UiDeliveryState::ordered, by sequence number
  slot,         \* UiDeliveryState::snapshots: class -> number, or None
  coalesced,    \* UiDeliveryStats::coalesced_snapshots
  open,         \* receiver_open
  lock,         \* who holds the mutex, or Free
  pc,           \* sender -> where it is in send
  kind,         \* sender -> the kind it sends
  entry,        \* sender -> the number of its event, or None
  chosen,       \* sender -> the number it makes room for
  todo,         \* sender -> the steps left of its input
  started,      \* sends begun
  frames,       \* frames requested and not drawn
  ui,           \* where the UI thread is
  delivered,    \* numbers in the order the UI received them
  gone          \* numbers send gave up: dropped logs, a closed receiver, a panic

mailVars == <<sent, ordered, slot, coalesced>>
sendVars == <<pc, kind, entry, chosen>>
emitVars == <<todo, started>>
vars == <<mailVars, open, lock, sendVars, emitVars, frames, ui, delivered, gone>>

Init ==
  /\ sent = <<>>
  /\ ordered = <<>>
  /\ slot = [c \in Class |-> None]
  /\ coalesced = 0
  /\ open = TRUE
  /\ lock = Free
  /\ pc = [p \in Sender |-> "idle"]
  /\ kind = [p \in Sender |-> "ordered"]
  /\ entry = [p \in Sender |-> None]
  /\ chosen = [p \in Sender |-> None]
  /\ todo = [p \in Sender |-> <<>>]
  /\ started = 0
  /\ frames = 0
  /\ ui = "waiting"
  /\ delivered = <<>>
  /\ gone = {}

----------------------------------------------------------------------------
(* Sending. *)

At(p, point) == pc[p] = point
Go(p, point) == pc' = [pc EXCEPT ![p] = point]

Snapshots == {slot[c] : c \in Class} \ {None}
Oldest == CHOOSE n \in Snapshots : \A m \in Snapshots : n <= m

\* Defect: taking one snapshot empties all slots.
TakeEverySnapshot(n) == [c \in Class |-> None]

TakeSnapshot(n) == [c \in Class |-> IF slot[c] = n THEN None ELSE slot[c]]

\* send returns, or unwinds, without the lock.
Leave(p, point) ==
  /\ Go(p, point)
  /\ entry' = [entry EXCEPT ![p] = None]
  /\ chosen' = [chosen EXCEPT ![p] = None]
  /\ lock' = Free

\* A sender goes on with its input, or takes another.
Steps(p) == IF todo[p] = <<>> THEN Inputs[p] ELSE {todo[p]}

\* A repaint is requested without an event.
Ask(p) ==
  /\ At(p, "idle")
  /\ \E steps \in Steps(p) :
       /\ Head(steps) = "ask"
       /\ todo' = [todo EXCEPT ![p] = Tail(steps)]
  /\ frames' = 2
  /\ UNCHANGED <<mailVars, open, lock, sendVars, started, ui, delivered, gone>>

\* An event is sent, with or without a repaint requested before.
Emit(p) ==
  /\ At(p, "idle")
  /\ started < MaxEvents
  /\ started' = started + 1
  /\ \E k \in Sends[p] : kind' = [kind EXCEPT ![p] = k]
  /\ \E steps \in Steps(p) :
       /\ Head(steps) # "ask"
       /\ todo' = [todo EXCEPT ![p] = Tail(steps)]
       /\ frames' = IF Head(steps) = "askSend" THEN 2 ELSE frames
  /\ Go(p, "check")
  /\ UNCHANGED <<mailVars, open, lock, entry, chosen, ui, delivered, gone>>

CheckOpen(p) ==
  /\ At(p, "check")
  /\ Go(p, IF open THEN "lock" ELSE "idle")
  /\ UNCHANGED <<mailVars, open, lock, kind, entry, chosen, emitVars, frames,
                 ui, delivered, gone>>

\* A snapshot takes the place of the one of its class, and send returns.
Replace(p, n) ==
  /\ kind[p] \in Class
  /\ slot' = [slot EXCEPT ![kind[p]] = n]
  /\ coalesced' = IF slot[kind[p]] = None THEN coalesced ELSE coalesced + 1
  /\ Go(p, "idle")
  /\ UNCHANGED <<ordered, lock, entry, chosen, gone>>

\* A log is dropped unless it and the snapshots before it have room.
DropLog(p, n) ==
  /\ kind[p] = "log"
  /\ Len(ordered) + Cardinality(Snapshots) >= Capacity
  /\ gone' = gone \cup {n}
  /\ Go(p, "idle")
  /\ UNCHANGED <<ordered, slot, coalesced, lock, entry, chosen>>

Order(p, n) ==
  /\ \/ kind[p] = "ordered"
     \/ kind[p] = "log" /\ Len(ordered) + Cardinality(Snapshots) < Capacity
  /\ entry' = [entry EXCEPT ![p] = n]
  /\ lock' = p
  /\ Go(p, "choose")
  /\ UNCHANGED <<ordered, slot, coalesced, chosen, gone>>

\* The event gets its number under the lock.
Accept(p) ==
  /\ At(p, "lock")
  /\ lock = Free
  /\ sent' = Append(sent, [from |-> p, kind |-> kind[p]])
  /\ LET n == Len(sent) + 1
     IN Replace(p, n) \/ DropLog(p, n) \/ Order(p, n)
  /\ UNCHANGED <<open, kind, emitVars, frames, ui, delivered>>

\* Room is wanted for the oldest snapshot, and after the last one for the event.
Choose(p) ==
  /\ At(p, "choose")
  /\ chosen' = [chosen EXCEPT ![p] = IF Snapshots = {} THEN entry[p] ELSE Oldest]
  /\ Go(p, "room")
  /\ UNCHANGED <<mailVars, open, lock, kind, entry, emitVars, frames, ui,
                 delivered, gone>>

HasRoom(p) == At(p, "room") /\ Len(ordered) < Capacity

MoveSnapshot(p) ==
  /\ HasRoom(p)
  /\ chosen[p] \in Snapshots
  /\ ordered' = Append(ordered, chosen[p])
  /\ slot' = TakeSnapshot(chosen[p])
  /\ Go(p, "choose")
  /\ UNCHANGED <<sent, coalesced, open, lock, kind, entry, chosen, emitVars,
                 frames, ui, delivered, gone>>

\* Somebody took or replaced the snapshot while this sender waited for room.
LoseSnapshot(p) ==
  /\ HasRoom(p)
  /\ chosen[p] \notin Snapshots \cup {entry[p]}
  /\ gone' = gone \cup {entry[p]}
  /\ Leave(p, "dead")
  /\ UNCHANGED <<mailVars, open, kind, emitVars, frames, ui, delivered>>

Push(p) ==
  /\ HasRoom(p)
  /\ chosen[p] = entry[p]
  /\ ordered' = Append(ordered, entry[p])
  /\ Leave(p, "idle")
  /\ UNCHANGED <<sent, slot, coalesced, open, kind, emitVars, frames, ui,
                 delivered, gone>>

\* No room: give up if the receiver is gone, or else wait.
Full(p) ==
  /\ At(p, "room")
  /\ Len(ordered) >= Capacity
  /\ IF open
     THEN /\ Go(p, "park")
          /\ UNCHANGED <<lock, entry, chosen, gone>>
     ELSE /\ gone' = gone \cup {entry[p]}
          /\ Leave(p, "idle")
  /\ UNCHANGED <<mailVars, open, kind, emitVars, frames, ui, delivered>>

\* Condvar::wait gives up the lock and waits in one step.
Park(p) ==
  /\ At(p, "park")
  /\ Go(p, "parked")
  /\ lock' = Free
  /\ UNCHANGED <<mailVars, open, kind, entry, chosen, emitVars, frames, ui,
                 delivered, gone>>

Resume(p) ==
  /\ At(p, "woken")
  /\ lock = Free
  /\ lock' = p
  /\ Go(p, "room")
  /\ UNCHANGED <<mailVars, open, kind, entry, chosen, emitVars, frames, ui,
                 delivered, gone>>

Send(p) ==
  \/ CheckOpen(p) \/ Accept(p) \/ Choose(p) \/ MoveSnapshot(p)
  \/ LoseSnapshot(p) \/ Push(p) \/ Full(p) \/ Park(p) \/ Resume(p)

----------------------------------------------------------------------------
(* The UI thread. *)

Parked == {p \in Sender : At(p, "parked")}

\* Defect: nobody is told of the room.
NotifyNobody == UNCHANGED pc

\* notify_one wakes a sender that waits now, if there is one.
NotifyOne ==
  IF Parked = {} THEN UNCHANGED pc ELSE \E p \in Parked : Go(p, "woken")

Frame ==
  /\ ui = "waiting"
  /\ frames > 0
  /\ frames' = frames - 1
  /\ ui' = "draining"
  /\ UNCHANGED <<mailVars, open, lock, sendVars, emitVars, delivered, gone>>

\* Defect: a snapshot always comes first.
AnySnapshotFirst == Snapshots # {}

\* A retained snapshot older than the front of the lane comes first.
SnapshotFirst ==
  Snapshots # {} /\ (ordered # <<>> => Oldest < Head(ordered))

\* Each event the UI handles requests a repaint.
Handle(n) ==
  /\ delivered' = Append(delivered, n)
  /\ frames' = 2

ReceiveSnapshot ==
  /\ ui = "draining"
  /\ lock = Free
  /\ SnapshotFirst
  /\ slot' = TakeSnapshot(Oldest)
  /\ Handle(Oldest)
  /\ UNCHANGED <<sent, ordered, coalesced, open, lock, sendVars, emitVars, ui,
                 gone>>

ReceiveOrdered ==
  /\ ui = "draining"
  /\ lock = Free
  /\ ~SnapshotFirst
  /\ ordered # <<>>
  /\ ordered' = Tail(ordered)
  /\ NotifyOne
  /\ Handle(Head(ordered))
  /\ UNCHANGED <<sent, slot, coalesced, open, lock, kind, entry, chosen,
                 emitVars, ui, gone>>

EndFrame ==
  /\ ui = "draining"
  /\ lock = Free
  /\ Snapshots = {}
  /\ ordered = <<>>
  /\ ui' = "waiting"
  /\ UNCHANGED <<mailVars, open, lock, sendVars, emitVars, frames, delivered,
                 gone>>

\* The application ends between two frames and drops the receiver: the flag is
\* cleared first, without the lock, and then all who wait are woken.  A sender
\* that saw the flag up and is about to wait is not among them.
Close ==
  /\ ui = "waiting"
  /\ open' = FALSE
  /\ ui' = "closing"
  /\ UNCHANGED <<mailVars, lock, sendVars, emitVars, frames, delivered, gone>>

NotifyAll ==
  /\ ui = "closing"
  /\ ui' = "gone"
  /\ pc' = [p \in Sender |-> IF p \in Parked THEN "woken" ELSE pc[p]]
  /\ UNCHANGED <<mailVars, open, lock, kind, entry, chosen, emitVars, frames,
                 delivered, gone>>

Ui == Frame \/ ReceiveSnapshot \/ ReceiveOrdered \/ EndFrame \/ NotifyAll

----------------------------------------------------------------------------
Next ==
  \/ \E p \in Sender : Ask(p) \/ Emit(p) \/ Send(p)
  \/ Ui
  \/ Close

Spec == Init /\ [][Next]_vars

\* Threads run, the mutex is fair to those who keep asking for it, and a
\* requested frame is drawn.
UiFair == (\A p \in Sender : WF_vars(Send(p))) /\ WF_vars(Ui)
FairSpec == Spec /\ UiFair

----------------------------------------------------------------------------
(* Properties. *)

Pc == {"idle", "check", "lock", "choose", "room", "park", "parked", "woken", "dead"}
Holding == {"choose", "room", "park"}
Waiting == {"parked", "woken"}

\* Every variable keeps its type; the lane never exceeds its capacity, and the
\* mutex is held by the one sender that is inside it.
TypeOK ==
  /\ sent \in Seq(Event)
  /\ ordered \in Seq(Number) /\ Len(ordered) <= Capacity
  /\ slot \in [Class -> Number \cup {None}]
  /\ coalesced \in 0..MaxEvents
  /\ open \in BOOLEAN
  /\ lock \in Sender \cup {Free}
  /\ pc \in [Sender -> Pc]
  /\ kind \in [Sender -> Kind]
  /\ entry \in [Sender -> Number \cup {None}]
  /\ chosen \in [Sender -> Number \cup {None}]
  /\ todo \in [Sender -> Seq(Step)]
  /\ started \in 0..MaxEvents
  /\ frames \in 0..2
  /\ ui \in {"waiting", "draining", "closing", "gone"}
  /\ delivered \in Seq(Number)
  /\ gone \subseteq Number
  /\ \A p \in Sender : pc[p] \in Holding <=> lock = p

Elements(s) == {s[i] : i \in 1..Len(s)}

\* What one thread sends reaches the UI in the order it was sent, whether it was
\* kept as a snapshot, moved to the lane by another sender, or waited for room.
SenderOrder ==
  \A i, j \in 1..Len(delivered) :
    i < j /\ sent[delivered[i]].from = sent[delivered[j]].from =>
      delivered[i] < delivered[j]

\* The UI never receives an older snapshot of a class after a newer one, whoever
\* sent them.
NewestLast ==
  \A i, j \in 1..Len(delivered) :
    LET k == sent[delivered[i]].kind
    IN i < j /\ k \in Class /\ sent[delivered[j]].kind = k =>
         delivered[i] < delivered[j]

\* Numbers that are neither delivered, retained, in the hands of a sender nor
\* given up.
Missing ==
  (1..Len(sent)) \
    (Elements(delivered) \cup Elements(ordered) \cup Snapshots
       \cup {entry[p] : p \in Sender} \cup gone)

\* Nothing else is lost: what is missing are snapshots for which a newer one of
\* the class was accepted, as many as are counted; and nothing is there twice.
Accounted ==
  /\ Cardinality(Missing) = coalesced
  /\ \A n \in Missing :
       /\ sent[n].kind \in Class
       /\ \E m \in (n + 1)..Len(sent) : sent[m].kind = sent[n].kind
  /\ Len(delivered) + Len(ordered) =
       Cardinality(Elements(delivered) \cup Elements(ordered))

\* The lane is full, and no frame that would drain it was asked for.
Undrawn == Len(ordered) = Capacity /\ ui = "waiting" /\ frames = 0

\* "Wakes blocked ordered producers after the UI drains one event"
\* (ui_delivery.rs:182): while the UI is there, a sender that waits gets room,
\* however many wait and whoever is faster, unless nobody asks for a frame ever
\* again.
SendsEnd ==
  \A p \in Sender :
    pc[p] \in Waiting ~> pc[p] \notin Waiting \/ ~open \/ []Undrawn

\* "next snapshot sequence remains present while locked" (ui_delivery.rs:232).
SnapshotPresent ==
  \A p \in Sender : HasRoom(p) => chosen[p] \in Snapshots \cup {entry[p]}

=============================================================================
