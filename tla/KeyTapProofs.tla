---------------------------- MODULE KeyTapProofs -----------------------------
(***************************************************************************)
(* Proofs about KeyTap, for any keys, modifiers, id space and bounds.      *)
(*                                                                         *)
(* What the consumer and the application believe follows from the press    *)
(* records alone; the table of registrations matters to a press only when  *)
(* it begins.  That an id names one chord rests on the counter, which is   *)
(* at the number of registrations until it wraps (Fresh).                  *)
(***************************************************************************)
EXTENDS KeyTap, TableProofs, WellFoundedInduction

\* Before the ids wrap, they are handed out in order, and a press retains one
\* that was.
Fresh ==
  registrations < IdSpace =>
    /\ nextId = registrations
    /\ \A i \in DOMAIN regs : i <= nextId
    /\ \A k \in DOMAIN presses : presses[k].logical.id <= nextId

\* The inductive invariant.
IInv ==
  /\ TypeOK
  /\ ConsumerInSync
  /\ PressTracked
  /\ NoPartialKeystroke
  /\ Fresh
  /\ RetainedIdentity

USE DEF tableVars, guardVars, keyVars, tapVars

----------------------------------------------------------------------------
(* Ids. *)

\* The counter stops at an id that is free, and before any other.
LEMMA FirstStep ==
  ASSUME Steps # {}
  PROVE  \E d \in Steps : NewId = (nextId + d) % IdSpace
                          /\ \A e \in Steps : d <= e
<1>1. Steps \subseteq Nat
  BY DEF Steps
<1>2. PICK d \in Steps : \A e \in Steps : ~(<<e, d>> \in OpToRel(<, Nat))
  BY <1>1, NatLessThanWellFounded, WFMin
<1>3. \A e \in Steps : ~(e < d)
  BY <1>1, <1>2 DEF OpToRel
<1>4. \A e \in Steps : d <= e
  BY <1>1, <1>3
<1> DEFINE f == CHOOSE s \in Steps : \A e \in Steps : s <= e
<1>5. f \in Steps /\ \A e \in Steps : f <= e
  BY <1>4
<1> QED
  BY <1>5 DEF NewId

\* The id handed out is an id, and not in use.
LEMMA NewIdIsFree == Steps # {} => NewId \in Id \ DOMAIN regs
  BY FirstStep DEF Steps

\* Before the ids wrap, it is the next number.
LEMMA NextInOrder ==
  ASSUME TypeOK, Steps # {}, registrations + 1 < IdSpace,
         nextId = registrations, \A i \in DOMAIN regs : i <= nextId
  PROVE  NewId = nextId + 1
<1>1. PICK d \in Steps : NewId = (nextId + d) % IdSpace /\ \A e \in Steps : d <= e
  BY FirstStep
<1>2. nextId \in Nat /\ IdSpace \in Nat \ {0, 1}
  BY TapAssumption DEF TypeOK
<1>3. (nextId + 1) % IdSpace = nextId + 1
  BY <1>2
<1>4. nextId + 1 \notin DOMAIN regs
  BY <1>2
<1>5. 1 \in Steps
  BY <1>2, <1>3, <1>4 DEF Steps, Id
<1>6. d \in 1..IdSpace /\ d <= 1
  BY <1>1, <1>5 DEF Steps
<1>7. d = 1
  BY <1>2, <1>6
<1> QED
  BY <1>1, <1>3, <1>7

----------------------------------------------------------------------------
(* Presses. *)

\* The id of a record is an id or the sentinel.
LEMMA RecordId ==
  ASSUME NEW press \in PressRecord
  PROVE  /\ press.intercept \in BOOLEAN
         /\ press.logical.id \in Id \cup {NoId}
<1>1. press.logical \in Logical \cup {NoLogical} /\ press.intercept \in BOOLEAN
  BY DEF PressRecord
<1>2. CASE press.logical \in Logical
  BY <1>1, <1>2 DEF Logical
<1>3. CASE press.logical = NoLogical
  BY <1>1, <1>3 DEF NoLogical
<1> QED
  BY <1>1, <1>2, <1>3

\* A new press carries the id of a registration of its chord, or none; a
\* suspended one carries none.
LEMMA NewPressRecord ==
  ASSUME TypeOK, NEW chord \in Chord, NEW press \in NewPress(chord)
  PROVE  /\ press \in PressRecord
         /\ press.logical.id \in DOMAIN regs \cup {NoId}
         /\ press.logical.id \in DOMAIN regs =>
              regs[press.logical.id].chord = press.logical.chord
         /\ suspend > 0 => press.logical.id = NoId
<1>1. DOMAIN regs \subseteq Id /\ captureAll \in Nat /\ suspend \in Nat
  BY IsTable DEF TypeOK
<1>2. NoId \notin DOMAIN regs
  BY <1>1, TapAssumption DEF Id, NoId
<1>3. ASSUME NEW b \in BOOLEAN, press = Ignored(b)
      PROVE  press \in PressRecord /\ press.logical.id = NoId
  BY <1>3 DEF Ignored, PressRecord, NoLogical
<1>4. CASE suspend > 0
  <2>1. press = Ignored(FALSE)
    BY <1>4 DEF NewPress
  <2>2. press \in PressRecord /\ press.logical.id = NoId
    BY <1>3, <2>1
  <2> QED
    BY <1>2, <2>2
<1>5. CASE ~(suspend > 0) /\ Matching(chord) = {}
  <2>1. press = Ignored(captureAll > 0) /\ (captureAll > 0) \in BOOLEAN
    BY <1>5 DEF NewPress
  <2>2. press \in PressRecord /\ press.logical.id = NoId
    BY <1>3, <2>1, Zenon
  <2> QED
    BY <1>2, <1>5, <2>2
<1>6. CASE ~(suspend > 0) /\ Matching(chord) # {}
  <2>1. PICK i \in Best(chord) :
          press = [logical |-> [id |-> i, chord |-> chord],
                   intercept |-> regs[i].intercept \/ captureAll > 0]
    BY <1>6 DEF NewPress, Accepted
  <2>2. i \in DOMAIN regs /\ regs[i].chord = chord
    BY DEF Best, Intercepting, Matching
  <2>3. [id |-> i, chord |-> chord] \in Logical
    BY <1>1, <2>2 DEF Logical
  <2>4. (regs[i].intercept \/ captureAll > 0) \in BOOLEAN
    OBVIOUS
  <2>5. press \in PressRecord
    BY <2>1, <2>3, <2>4 DEF PressRecord
  <2>6. press.logical.id = i /\ press.logical.chord = chord
    BY <2>1
  <2> QED
    BY <1>6, <2>2, <2>5, <2>6
<1> QED
  BY <1>4, <1>5, <1>6

----------------------------------------------------------------------------
(* The steps. *)

\* Nothing is recorded at the start, and what is down is missed.
LEMMA InitIInv == Init => IInv
<1> SUFFICES ASSUME Init PROVE IInv
  OBVIOUS
<1>1. DOMAIN regs = {} /\ DOMAIN presses = {}
  BY DEF Init
<1>2. regs \in Table(Id, Registration) /\ presses \in Table(Key, PressRecord)
  <2>1. regs \in [{} -> Registration] /\ presses \in [{} -> PressRecord]
    BY DEF Init
  <2> QED
    BY <1>1, <2>1, IsTable
<1>3. nextId \in 0..(IdSpace - 1)
  BY TapAssumption DEF Init
<1>4. TypeOK
  BY <1>2, <1>3 DEF Init, TypeOK
<1>5. ConsumerInSync /\ PressTracked /\ NoPartialKeystroke
  BY <1>1 DEF Init, ConsumerInSync, PressTracked, NoPartialKeystroke
<1>6. Fresh /\ RetainedIdentity
  BY <1>1 DEF Init, Fresh, RetainedIdentity
<1> QED
  BY <1>4, <1>5, <1>6 DEF IInv

\* The presses do not look at the table.
LEMMA PressesUntouched ==
  ASSUME IInv, UNCHANGED keyVars
  PROVE  ConsumerInSync' /\ PressTracked' /\ NoPartialKeystroke'
  BY DEF IInv, ConsumerInSync, PressTracked, NoPartialKeystroke

\* A registration takes the next id, which no press retains.
LEMMA RegisterStep ==
  ASSUME IInv, NEW chord \in Chord, NEW intercept \in BOOLEAN,
         Register(chord, intercept)
  PROVE  IInv'
<1> USE DEF IInv, Register
<1>1. PICK n \in Id : n = NewId /\ n \notin DOMAIN regs
  BY NewIdIsFree
<1>2. PICK r \in Registration : r = [chord |-> chord, intercept |-> intercept]
  BY DEF Registration
<1>3. nextId' = n /\ regs' = Put(regs, n, r)
  BY <1>1, <1>2
<1>4. regs' \in Table(Id, Registration)
  BY <1>3, PutTable DEF TypeOK
<1>5. /\ DOMAIN regs' = DOMAIN regs \cup {n}
      /\ \A i \in DOMAIN regs : regs'[i] = regs[i]
  BY <1>1, <1>3 DEF Put
<1>6. TypeOK'
  BY <1>3, <1>4, TapAssumption DEF TypeOK, Id
<1>7. ASSUME registrations' < IdSpace
      PROVE  /\ registrations < IdSpace /\ n = nextId + 1
             /\ nextId \in Nat /\ nextId = registrations
  <2>1. registrations \in Nat /\ nextId \in Nat /\ IdSpace \in Nat
    BY TapAssumption DEF TypeOK
  <2>2. registrations < IdSpace /\ registrations + 1 < IdSpace
    BY <1>7, <2>1
  <2>3. nextId = registrations /\ \A i \in DOMAIN regs : i <= nextId
    BY <2>2 DEF Fresh
  <2> QED
    BY <1>1, <2>1, <2>2, <2>3, NextInOrder
<1>8. \A k \in DOMAIN presses : presses[k].logical.id \in Id \cup {NoId}
  BY RecordId, EntryOf DEF TypeOK
<1>9. DOMAIN regs \subseteq Id
  BY IsTable DEF TypeOK
<1>10. Fresh'
  <2> SUFFICES ASSUME registrations' < IdSpace
               PROVE  /\ nextId' = registrations'
                      /\ \A i \in DOMAIN regs' : i <= nextId'
                      /\ \A k \in DOMAIN presses : presses[k].logical.id <= nextId'
    BY DEF Fresh
  <2>1. n = nextId + 1 /\ nextId \in Nat /\ nextId = registrations
    BY <1>7
  <2>2. /\ \A i \in DOMAIN regs : i <= nextId
        /\ \A k \in DOMAIN presses : presses[k].logical.id <= nextId
    BY <1>7 DEF Fresh
  <2> QED
    BY <1>3, <1>5, <1>8, <1>9, <2>1, <2>2, TapAssumption DEF Id, NoId
<1>11. RetainedIdentity'
  <2> SUFFICES ASSUME registrations' < IdSpace, NEW k \in DOMAIN presses,
                      presses[k].logical.id \in DOMAIN regs'
               PROVE  regs'[presses[k].logical.id].chord = presses[k].logical.chord
    BY DEF RetainedIdentity
  <2>1. n = nextId + 1 /\ nextId \in Nat /\ presses[k].logical.id <= nextId
    BY <1>7 DEF Fresh
  <2>2. presses[k].logical.id # n
    BY <1>8, <2>1, TapAssumption DEF Id, NoId
  <2> QED
    BY <1>5, <1>7, <2>2 DEF RetainedIdentity
<1> QED
  BY <1>6, <1>10, <1>11, PressesUntouched

\* Fewer registrations, or other guards, change nothing of a press.
LEMMA ManageStep ==
  ASSUME IInv,
         \/ \E i \in Id : Unregister(i)
         \/ UnregisterAll \/ Suspend \/ Resume \/ Capture \/ EndCapture
         \/ Disable \/ Reenable
         \/ UNCHANGED vars
  PROVE  IInv'
<1> USE DEF IInv
<1>1. UNCHANGED <<nextId, registrations, keyVars>>
  BY DEF Unregister, UnregisterAll, Suspend, Resume, Capture, EndCapture,
     Disable, Reenable, vars
<1>2. /\ regs' \in Table(Id, Registration)
      /\ DOMAIN regs' \subseteq DOMAIN regs
      /\ \A i \in DOMAIN regs' : regs'[i] = regs[i]
  <2>1. CASE \E i \in Id : Unregister(i)
    <3>1. PICK i \in Id : regs' = Without(regs, i)
      BY <2>1 DEF Unregister
    <3> QED
      BY <3>1, WithoutTable DEF TypeOK, Without
  <2>2. CASE UnregisterAll
    <3>1. DOMAIN regs' = {} /\ regs' \in [{} -> Registration]
      BY <2>2 DEF UnregisterAll
    <3> QED
      BY <3>1, IsTable
  <2>3. CASE UNCHANGED regs
    BY <2>3 DEF TypeOK
  <2> QED
    BY <2>1, <2>2, <2>3 DEF Suspend, Resume, Capture, EndCapture, Disable,
       Reenable, vars
<1>3. /\ suspend' \in Nat /\ captureAll' \in Nat
      /\ enabled' \in BOOLEAN /\ disables' \in Nat
  <2>1. CASE Suspend \/ Resume
    BY <2>1 DEF TypeOK, Suspend, Resume
  <2>2. CASE Capture \/ EndCapture
    BY <2>2 DEF TypeOK, Capture, EndCapture
  <2>3. CASE Disable
    <3>1. disables' \in Nat /\ suspend' \in Nat /\ captureAll' \in Nat
      BY <2>3 DEF TypeOK, Disable
    <3>2. enabled' \in BOOLEAN
      BY <2>3 DEF Disable
    <3> QED
      BY <3>1, <3>2
  <2>4. CASE Reenable
    BY <2>4 DEF TypeOK, Reenable
  <2>5. CASE UNCHANGED <<guardVars, tapVars>>
    BY <2>5 DEF TypeOK
  <2> QED
    BY <2>1, <2>2, <2>3, <2>4, <2>5 DEF Unregister, UnregisterAll, vars
<1>4. TypeOK'
  BY <1>1, <1>2, <1>3 DEF TypeOK
<1>5. Fresh' /\ RetainedIdentity'
  BY <1>1, <1>2 DEF Fresh, RetainedIdentity
<1> QED
  BY <1>1, <1>4, <1>5, PressesUntouched

\* A new press settles what the consumer and the application are told of it.
LEMMA PressNewStep ==
  ASSUME IInv, NEW k \in Key, NEW mods \in Mods, PressNew(k, mods)
  PROVE  IInv'
<1> USE DEF IInv, PressNew
<1>1. PICK press \in NewPress([key |-> k, mods |-> mods]) :
        /\ presses' = Put(presses, k, press)
        /\ consumer' = [consumer EXCEPT ![k] = press.logical.id]
        /\ app' = [app EXCEPT ![k] = @ \/ ~press.intercept]
  OBVIOUS
<1>2. [key |-> k, mods |-> mods] \in Chord
  BY DEF Chord
<1>3. /\ press \in PressRecord
      /\ press.logical.id \in DOMAIN regs \cup {NoId}
      /\ press.logical.id \in DOMAIN regs =>
           regs[press.logical.id].chord = press.logical.chord
  BY <1>2, NewPressRecord
<1>4. press.intercept \in BOOLEAN /\ press.logical.id \in Id \cup {NoId}
  BY <1>3, RecordId
<1>5. presses' \in Table(Key, PressRecord)
  BY <1>1, <1>3, PutTable DEF TypeOK
<1>6. /\ DOMAIN presses' = DOMAIN presses \cup {k}
      /\ presses'[k] = press
      /\ \A j \in DOMAIN presses : presses'[j] = presses[j]
  BY <1>1 DEF Put
<1>7. /\ consumer'[k] = press.logical.id
      /\ \A j \in Key \ {k} : consumer'[j] = consumer[j]
      /\ app'[k] = (app[k] \/ ~press.intercept)
      /\ \A j \in Key \ {k} : app'[j] = app[j]
      /\ physical'[k] = TRUE
      /\ \A j \in Key \ {k} : physical'[j] = physical[j]
  BY <1>1 DEF TypeOK
<1>8. TypeOK'
  <2>1. consumer' \in [Key -> Id \cup {NoId}]
    BY <1>1, <1>4 DEF TypeOK
  <2>2. app' \in [Key -> BOOLEAN] /\ physical' \in [Key -> BOOLEAN]
    BY <1>1, <1>4 DEF TypeOK
  <2> QED
    BY <1>5, <2>1, <2>2 DEF TypeOK
<1>9. ConsumerInSync'
  BY <1>6, <1>7 DEF ConsumerInSync
<1>10. PressTracked'
  <2> SUFFICES ASSUME NEW j \in Key \ missed'
               PROVE  physical'[j] <=> j \in DOMAIN presses'
    BY DEF PressTracked
  <2>1. CASE j = k
    BY <2>1, <1>6, <1>7
  <2>2. CASE j # k
    <3>1. j \in Key \ missed /\ physical'[j] = physical[j]
      BY <2>2, <1>7
    <3>2. j \in DOMAIN presses' <=> j \in DOMAIN presses
      BY <2>2, <1>6
    <3> QED
      BY <3>1, <3>2 DEF PressTracked
  <2> QED
    BY <2>1, <2>2
<1>11. NoPartialKeystroke'
  BY <1>4, <1>6, <1>7 DEF NoPartialKeystroke
<1>12. Fresh'
  BY <1>3, <1>6, TapAssumption DEF Fresh, TypeOK, NoId
<1>13. RetainedIdentity'
  BY <1>3, <1>6 DEF RetainedIdentity
<1> QED
  BY <1>8, <1>9, <1>10, <1>11, <1>12, <1>13

\* The presses change at most by one that ends.
LEMMA RecordsKept ==
  ASSUME IInv, UNCHANGED tableVars,
         DOMAIN presses' \subseteq DOMAIN presses,
         \A j \in DOMAIN presses' : presses'[j] = presses[j]
  PROVE  Fresh' /\ RetainedIdentity'
  BY DEF IInv, Fresh, RetainedIdentity

\* An autorepeat follows the record.
LEMMA PressAgainStep == ASSUME IInv, NEW k \in Key, PressAgain(k) PROVE IInv'
<1> USE DEF IInv, PressAgain
<1>1. presses[k] \in PressRecord
  BY EntryOf DEF TypeOK
<1>2. presses[k].intercept \in BOOLEAN /\ presses[k].logical.id \in Id \cup {NoId}
  BY <1>1, RecordId
<1>3. consumer[k] = presses[k].logical.id
  BY DEF ConsumerInSync
<1>4. consumer' = consumer
  BY <1>3 DEF TypeOK
<1>5. /\ app'[k] = (app[k] \/ ~presses[k].intercept)
      /\ \A j \in Key \ {k} : app'[j] = app[j]
      /\ physical'[k] = TRUE
      /\ \A j \in Key \ {k} : physical'[j] = physical[j]
  BY DEF TypeOK
<1>6. app' \in [Key -> BOOLEAN] /\ physical' \in [Key -> BOOLEAN]
  BY <1>2 DEF TypeOK
<1>7. TypeOK'
  BY <1>4, <1>6 DEF TypeOK
<1>8. ConsumerInSync'
  BY <1>4 DEF ConsumerInSync
<1>9. PressTracked'
  BY <1>5 DEF PressTracked
<1>10. NoPartialKeystroke'
  <2>1. /\ presses' = presses
        /\ missed' = missed
        /\ k \in DOMAIN presses
    OBVIOUS
  <2> SUFFICES ASSUME NEW j \in Key \ missed'
               PROVE  app'[j] = (j \in DOMAIN presses' /\ ~presses'[j].intercept)
    BY DEF NoPartialKeystroke
  <2>2. app[j] = (j \in DOMAIN presses /\ ~presses[j].intercept)
    BY <2>1 DEF NoPartialKeystroke
  <2>3. CASE j = k
    BY <1>2, <1>5, <2>1, <2>2, <2>3
  <2>4. CASE j # k
    BY <1>5, <2>1, <2>2, <2>4
  <2> QED
    BY <2>3, <2>4
<1> QED
  BY <1>7, <1>8, <1>9, <1>10, RecordsKept

\* A release ends the press for the consumer and the application alike.
LEMMA ReleaseStep == ASSUME IInv, NEW k \in Key, Release(k) PROVE IInv'
<1> USE DEF IInv, Release
<1>1. /\ presses' \in Table(Key, PressRecord)
      /\ DOMAIN presses' = DOMAIN presses \ {k}
      /\ \A j \in DOMAIN presses' : presses'[j] = presses[j]
  BY WithoutTable DEF TypeOK, Without
<1>2. k \in DOMAIN presses => presses[k].intercept \in BOOLEAN
  BY RecordId, EntryOf DEF TypeOK
<1>3. /\ consumer'[k] = NoId
      /\ consumer' \in [Key -> Id \cup {NoId}]
      /\ \A j \in Key \ {k} : consumer'[j] = consumer[j]
      /\ app'[k] = (app[k] /\ k \in DOMAIN presses /\ presses[k].intercept)
      /\ \A j \in Key \ {k} : app'[j] = app[j]
      /\ physical'[k] = FALSE
      /\ \A j \in Key \ {k} : physical'[j] = physical[j]
  <2>1. consumer[k] = IF k \in DOMAIN presses THEN presses[k].logical.id ELSE NoId
    BY DEF ConsumerInSync
  <2>2. consumer' = [consumer EXCEPT ![k] = NoId]
    BY <2>1 DEF TypeOK
  <2> QED
    BY <2>2 DEF TypeOK
<1>4. missed' = IF physical'[k] \/ app'[k] \/ k \in DOMAIN presses'
                THEN missed ELSE missed \ {k}
  BY DEF Settle
<1>5. TypeOK'
  <2>1. consumer' \in [Key -> Id \cup {NoId}]
    BY <1>3
  <2>2. app' \in [Key -> BOOLEAN] /\ physical' \in [Key -> BOOLEAN]
    BY <1>2 DEF TypeOK
  <2>3. missed' \in SUBSET Key
    BY <1>4 DEF TypeOK
  <2> QED
    BY <1>1, <2>1, <2>2, <2>3 DEF TypeOK
<1>6. ConsumerInSync'
  BY <1>1, <1>3 DEF ConsumerInSync
<1>7. PressTracked'
  <2> SUFFICES ASSUME NEW j \in Key \ missed'
               PROVE  physical'[j] <=> j \in DOMAIN presses'
    BY DEF PressTracked
  <2>1. CASE j = k
    BY <2>1, <1>1, <1>3
  <2>2. CASE j # k
    <3>1. j \in Key \ missed /\ physical'[j] = physical[j]
      BY <2>2, <1>3, <1>4
    <3>2. j \in DOMAIN presses' <=> j \in DOMAIN presses
      BY <2>2, <1>1
    <3> QED
      BY <3>1, <3>2 DEF PressTracked
  <2> QED
    BY <2>1, <2>2
<1>8. NoPartialKeystroke'
  <2> HIDE DEF Release, IInv
  <2>1. NoPartialKeystroke
    BY DEF IInv
  <2> SUFFICES ASSUME NEW j \in Key \ missed'
               PROVE  app'[j] = (j \in DOMAIN presses' /\ ~presses'[j].intercept)
    BY DEF NoPartialKeystroke
  <2>2. CASE j = k
    <3>1. k \notin DOMAIN presses' /\ app'[k] \in BOOLEAN
      BY <1>1, <1>5 DEF TypeOK
    <3>2. k \in missed => app'[k] = FALSE
      BY <1>3, <1>4, <2>2, <3>1
    <3>3. k \notin missed => app'[k] = FALSE
      BY <1>2, <1>3, <2>1 DEF NoPartialKeystroke
    <3> QED
      BY <2>2, <3>1, <3>2, <3>3
  <2>3. CASE j # k
    <3>1. j \notin missed /\ app'[j] = app[j]
      BY <1>3, <1>4, <2>3
    <3>2. /\ j \in DOMAIN presses' <=> j \in DOMAIN presses
          /\ j \in DOMAIN presses => presses'[j] = presses[j]
      BY <1>1, <2>3
    <3> QED
      BY <2>1, <3>1, <3>2 DEF NoPartialKeystroke
  <2> QED
    BY <2>2, <2>3
<1> QED
  BY <1>1, <1>5, <1>6, <1>7, <1>8, RecordsKept

\* What bypasses the tap is missed.
LEMMA BypassStep ==
  ASSUME IInv, NEW k \in Key, NEW down \in BOOLEAN, Bypass(k, down)
  PROVE  IInv'
<1> USE DEF IInv, Bypass
<1>1. /\ \A j \in Key \ {k} : physical'[j] = physical[j] /\ app'[j] = app[j]
      /\ missed' = missed \cup {k}
  BY DEF TypeOK
<1>2. TypeOK'
  BY DEF TypeOK
<1>3. ConsumerInSync' /\ PressTracked' /\ NoPartialKeystroke'
  BY <1>1 DEF ConsumerInSync, PressTracked, NoPartialKeystroke
<1> QED
  BY <1>2, <1>3, RecordsKept

----------------------------------------------------------------------------
(* The theorems. *)

\* Every step keeps the invariant.
LEMMA NextIInv == IInv /\ [Next]_vars => IInv'
<1> SUFFICES ASSUME IInv, [Next]_vars PROVE IInv'
  OBVIOUS
<1>1. CASE Manage
  BY <1>1, RegisterStep, ManageStep DEF Manage
<1>2. CASE \E k \in Key : TapEvent(k)
  BY <1>2, PressNewStep, PressAgainStep, ReleaseStep, BypassStep DEF TapEvent
<1>3. CASE Disable \/ Reenable \/ UNCHANGED vars
  BY <1>3, ManageStep
<1> QED
  BY <1>1, <1>2, <1>3 DEF Next

\* The invariant holds in every reachable state.
THEOREM Invariance == Spec => []IInv
  BY InitIInv, NextIInv, PTL DEF Spec

\* Every variable keeps its type; the sentinel id is never registered.
THEOREM TypeCorrect == Spec => []TypeOK
<1>1. IInv => TypeOK
  BY DEF IInv
<1> QED
  BY <1>1, Invariance, PTL

\* The consumer is told exactly of the presses the tap retains: each repeat and
\* release carries the id of its press (classify_tap_event).
THEOREM ConsumerCorrect == Spec => []ConsumerInSync
<1>1. IInv => ConsumerInSync
  BY DEF IInv
<1> QED
  BY <1>1, Invariance, PTL

\* A press is retained from key-down to key-up of every key of which the tap has
\* seen all events (presses of sys.rs).
THEOREM PressesCorrect == Spec => []PressTracked
<1>1. IInv => PressTracked
  BY DEF IInv
<1> QED
  BY <1>1, Invariance, PTL

\* The application gets a whole keystroke or nothing of it, whatever is
\* registered, suspended or captured between its events (lib.rs).
THEOREM KeystrokesWhole == Spec => []NoPartialKeystroke
<1>1. IInv => NoPartialKeystroke
  BY DEF IInv
<1> QED
  BY <1>1, Invariance, PTL

\* Until the counter wraps, the id a press retains is never that of another chord.
THEOREM IdentityRetained == Spec => []RetainedIdentity
<1>1. IInv => RetainedIdentity
  BY DEF IInv
<1> QED
  BY <1>1, Invariance, PTL

\* A registration is never overwritten (Manager::register), also after ids wrap.
THEOREM NeverOverwritten == Spec => RegistrationsKept
<1>1. [Next]_vars =>
        [\A i \in DOMAIN regs \cap DOMAIN regs' : regs'[i] = regs[i]]_vars
  <2> SUFFICES ASSUME Next, NEW i \in DOMAIN regs \cap DOMAIN regs'
               PROVE  regs'[i] = regs[i]
    OBVIOUS
  <2>1. ASSUME NEW chord \in Chord, NEW intercept \in BOOLEAN,
               Register(chord, intercept)
        PROVE  regs'[i] = regs[i]
    BY <2>1, NewIdIsFree DEF Register, Put
  <2>2. ASSUME NEW j \in Id, Unregister(j) PROVE regs'[i] = regs[i]
    BY <2>2 DEF Unregister, Without
  <2>3. ASSUME UnregisterAll PROVE regs'[i] = regs[i]
    BY <2>3 DEF UnregisterAll
  <2>4. CASE UNCHANGED regs
    BY <2>4
  <2> QED
    BY <2>1, <2>2, <2>3, <2>4 DEF Next, Manage, TapEvent, Suspend, Resume, Capture,
       EndCapture, PressNew, PressAgain, Release, Bypass, Disable, Reenable
<1> QED
  BY <1>1, PTL DEF Spec, RegistrationsKept

\* Nothing is told of a press while suspended, also with capture-all.
THEOREM SuspensionQuiet == Spec => SuspendedIsQuiet
<1> DEFINE Quiet ==
      suspend > 0 => \A k \in Key : consumer'[k] \in {consumer[k], NoId}
<1>1. TypeOK /\ [Next]_vars => [Quiet]_vars
  <2> SUFFICES ASSUME TypeOK, Next, suspend > 0, NEW k \in Key
               PROVE  consumer'[k] \in {consumer[k], NoId}
    OBVIOUS
  <2>1. ASSUME NEW j \in Key, NEW mods \in Mods, PressNew(j, mods)
        PROVE  consumer'[k] \in {consumer[k], NoId}
    <3>1. PICK press \in NewPress([key |-> j, mods |-> mods]) :
            consumer' = [consumer EXCEPT ![j] = press.logical.id]
      BY <2>1 DEF PressNew
    <3>2. press.logical.id = NoId
      BY NewPressRecord DEF Chord
    <3> QED
      BY <3>1, <3>2 DEF TypeOK
  <2>2. ASSUME NEW j \in Key, PressAgain(j)
        PROVE  consumer'[k] \in {consumer[k], NoId}
    BY <2>2 DEF PressAgain, TypeOK
  <2>3. ASSUME NEW j \in Key, Release(j)
        PROVE  consumer'[k] \in {consumer[k], NoId}
    BY <2>3 DEF Release, TypeOK
  <2>4. CASE UNCHANGED consumer
    BY <2>4
  <2> QED
    BY <2>1, <2>2, <2>3, <2>4 DEF Next, Manage, TapEvent, Register, Unregister,
       UnregisterAll, Suspend, Resume, Capture, EndCapture, Bypass, Disable, Reenable
<1> QED
  BY <1>1, TypeCorrect, PTL DEF Spec, SuspendedIsQuiet

=============================================================================
