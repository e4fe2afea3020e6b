----------------------------- MODULE ClientLane ------------------------------
(***************************************************************************)
(* The delivery lane of a server connection (EventDeliveryTx and           *)
(* EventDeliveryRx of crates/hotki-server/src/ipc/client.rs).              *)
(*                                                                         *)
(* A notification of the server is stored by its handler, one at a time,   *)
(* and read by whoever owns the connection, on another thread of the       *)
(* runtime.  Snapshots have a slot for each class, where a newer one       *)
(* replaces an older one; logs are dropped when the bounded channel is     *)
(* full, other events wait for room.  Numbers are to keep the classes in   *)
(* order.  The two sides meet in a channel, a mutex and a Notify, and are  *)
(* interrupted between any two uses of them.                               *)
(***************************************************************************)
EXTENDS Naturals, Sequences, FiniteSetsExt

CONSTANTS
  Slot,            \* classes of snapshots
  LaneCapacity,    \* CLIENT_EVENT_CAPACITY
  MaxNotices       \* bound: notifications of the server

ASSUME LaneAssumption == LaneCapacity \in Nat \ {0} /\ MaxNotices \in Nat

Class == Slot \union {"log", "other"}
Empty == 0          \* no entry; the first sequence number is 1
None == [class |-> "none", number |-> Empty]

VARIABLES
  notices,        \* counts notifications for the bound
  handler,        \* where handle_notification is
  arriving,       \* the entry it holds
  number,         \* EventDeliveryTx::next_sequence
  ordered,        \* the channel
  slots,          \* PendingSnapshots: slot -> sequence number or Empty
  ready,          \* the permit of snapshot_ready
  dropped,        \* DeliveryCounters::dropped_logs
  lost,           \* the connection is gone, and with it the sending side
  reader,         \* where recv is
  buffered,       \* buffered_ordered
  ended,          \* ordered_closed
  chosen,         \* the sequence read from the slots, taken next
  reported        \* reported_dropped_logs

sendVars == <<notices, handler, arriving, number, dropped, lost>>
readVars == <<reader, buffered, ended, chosen, reported>>
sharedVars == <<ordered, slots, ready>>
laneVars == <<sendVars, readVars, sharedVars>>

LaneInit ==
  /\ notices = 0 /\ handler = "idle" /\ arriving = None /\ number = 0
  /\ ordered = <<>> /\ slots = [s \in Slot |-> Empty] /\ ready = FALSE
  /\ dropped = 0 /\ lost = FALSE
  /\ reader = "away" /\ buffered = None /\ ended = FALSE /\ chosen = Empty
  /\ reported = 0

Entry(class) == [class |-> class, number |-> number + 1]

-----------------------------------------------------------------------------
(* EventDeliveryTx::send *)

\* A snapshot gets its number before the lock is taken; other events get theirs with
\* their place in the channel.
Notice(class) ==
  /\ handler = "idle" /\ ~lost
  /\ notices < MaxNotices
  /\ notices' = notices + 1
  /\ IF class \in Slot
       THEN /\ arriving' = Entry(class)
            /\ number' = number + 1
            /\ handler' = "numbered"
       ELSE /\ arriving' = [class |-> class, number |-> Empty]
            /\ handler' = "reserving"
            /\ UNCHANGED number
  /\ UNCHANGED <<dropped, lost, readVars, sharedVars>>

Store ==
  /\ handler = "numbered"
  /\ slots' = [slots EXCEPT ![arriving.class] = arriving.number]
  /\ handler' = "stored"
  /\ UNCHANGED <<notices, arriving, number, dropped, lost, readVars, ordered, ready>>

\* Defect: only a reader that waits already is woken (notify_waiters).
WakeWaiting == ready' = (ready \/ reader = "waiting")

WakeReader == ready' = TRUE

Announce ==
  /\ handler = "stored"
  /\ WakeReader
  /\ handler' = "idle"
  /\ UNCHANGED <<notices, arriving, number, dropped, lost, readVars, ordered, slots>>

Reserve ==
  /\ handler = "reserving"
  /\ Len(ordered) < LaneCapacity
  /\ ordered' = Append(ordered, Entry(arriving.class))
  /\ number' = number + 1
  /\ handler' = "idle"
  /\ UNCHANGED <<notices, arriving, dropped, lost, readVars, slots, ready>>

DropLog ==
  /\ handler = "reserving" /\ arriving.class = "log"
  /\ Len(ordered) = LaneCapacity
  /\ dropped' = dropped + 1
  /\ handler' = "idle"
  /\ UNCHANGED <<notices, arriving, number, lost, readVars, sharedVars>>

\* The connection's task ends, and with it a handler that waits for room.
Lose ==
  /\ ~lost
  /\ handler \in {"idle", "reserving"}
  /\ lost' = TRUE
  /\ handler' = "idle"
  /\ UNCHANGED <<notices, arriving, number, dropped, readVars, sharedVars>>

-----------------------------------------------------------------------------
(* EventDeliveryRx::recv *)

\* The owner asks for the next event.
Ask ==
  /\ reader = "away"
  /\ reader' = "report"
  /\ UNCHANGED <<sendVars, buffered, ended, chosen, reported, sharedVars>>

\* dropped_log_summary
Summary ==
  /\ reader = "report"
  /\ dropped > reported
  /\ reported' = dropped
  /\ reader' = "away"
  /\ UNCHANGED <<sendVars, buffered, ended, chosen, sharedVars>>

NoSummary ==
  /\ reader = "report"
  /\ dropped = reported
  /\ reader' = "pull"
  /\ UNCHANGED <<sendVars, buffered, ended, chosen, reported, sharedVars>>

\* ordered.try_recv, unless an entry is in hand.
Pull ==
  /\ reader = "pull"
  /\ IF buffered # None \/ ended
       THEN UNCHANGED <<buffered, ended, ordered>>
       ELSE IF ordered # <<>>
         THEN /\ buffered' = Head(ordered)
              /\ ordered' = Tail(ordered)
              /\ UNCHANGED ended
         ELSE /\ ended' = lost
              /\ UNCHANGED <<buffered, ordered>>
  /\ reader' = "compare"
  /\ UNCHANGED <<sendVars, chosen, reported, slots, ready>>

Pending == {slots[s] : s \in Slot} \ {Empty}

\* next_sequence under the lock; the lock is given up before the snapshot is taken.
SnapshotNext ==
  /\ reader = "compare"
  /\ Pending # {}
  /\ buffered = None \/ Min(Pending) < buffered.number
  /\ chosen' = Min(Pending)
  /\ reader' = "take"
  /\ UNCHANGED <<sendVars, buffered, ended, reported, sharedVars>>

OrderedNext ==
  /\ reader = "compare"
  /\ buffered # None
  /\ \A n \in Pending : buffered.number < n
  /\ buffered' = None
  /\ reader' = "away"
  /\ UNCHANGED <<sendVars, ended, chosen, reported, sharedVars>>

\* Nothing there: recv will wait, or says that the channel is closed.
NothingNext ==
  /\ reader = "compare"
  /\ buffered = None /\ Pending = {}
  /\ reader' = IF ended THEN "closed" ELSE "parking"
  /\ UNCHANGED <<sendVars, buffered, ended, chosen, reported, sharedVars>>

\* PendingSnapshots::take; a snapshot replaced meanwhile has another number.
TakeChosen ==
  /\ reader = "take"
  /\ IF chosen \in Pending
       THEN /\ slots' = [s \in Slot |-> IF slots[s] = chosen THEN Empty ELSE slots[s]]
            /\ reader' = "away"
       ELSE /\ reader' = "pull"
            /\ UNCHANGED slots
  /\ chosen' = Empty
  /\ UNCHANGED <<sendVars, buffered, ended, reported, ordered, ready>>

Park ==
  /\ reader = "parking"
  /\ reader' = "waiting"
  /\ UNCHANGED <<sendVars, buffered, ended, chosen, reported, sharedVars>>

\* The select of recv.
WakeByEntry ==
  /\ reader = "waiting"
  /\ ordered # <<>> /\ buffered' = Head(ordered) /\ ordered' = Tail(ordered)
  /\ reader' = "report"
  /\ UNCHANGED <<sendVars, ended, chosen, reported, slots, ready>>

WakeByEnd ==
  /\ reader = "waiting" /\ ordered = <<>> /\ lost
  /\ ended' = TRUE
  /\ reader' = "report"
  /\ UNCHANGED <<sendVars, buffered, chosen, reported, sharedVars>>

WakeBySnapshot ==
  /\ reader = "waiting" /\ ready
  /\ ready' = FALSE
  /\ reader' = "report"
  /\ UNCHANGED <<sendVars, buffered, ended, chosen, reported, ordered, slots>>

\* The owner's select has something else to do, and drops recv where it waits.
CancelRecv ==
  /\ reader = "waiting"
  /\ reader' = "away"
  /\ UNCHANGED <<sendVars, buffered, ended, chosen, reported, sharedVars>>

LaneNext ==
  \/ \E class \in Class : Notice(class)
  \/ Store \/ Announce \/ Reserve \/ DropLog \/ Lose
  \/ Ask \/ Summary \/ NoSummary \/ Pull
  \/ SnapshotNext \/ OrderedNext \/ NothingNext \/ TakeChosen
  \/ Park \/ WakeByEntry \/ WakeByEnd \/ WakeBySnapshot \/ CancelRecv

-----------------------------------------------------------------------------
(* Properties *)

\* recv with its two wakeups: a reader that sleeps with nothing to wake it has seen
\* everything.  No snapshot is left behind, however often recv was cancelled or its
\* snapshot replaced while it was chosen, and no dropped log is left unreported.
SleepsOnlyWhenDone ==
  reader = "waiting" /\ ordered = <<>> /\ ~ready /\ handler = "idle" =>
    Pending = {} /\ reported = dropped

=============================================================================
