-------------------------- MODULE KeyBindingProofs ---------------------------
(***************************************************************************)
(* Proofs about KeyBinding, for any identifiers, chords and bounds: the    *)
(* invariants, and that an update is atomic to whoever looks between       *)
(* updates, also when it fails half way.                                   *)
(*                                                                         *)
(* The lookups agree because ids are handed out once (Known) and because   *)
(* an identifier is bound only when it is not (Update).  Update also says, *)
(* for each phase, what of the table asked for is there already, and that  *)
(* what does not change was never touched.                                 *)
(***************************************************************************)
EXTENDS KeyBinding, TableProofs

\* What an update leaves alone.
Kept ==
  {i \in DOMAIN before \cap DOMAIN desired : desired[i] = before[i].chord}

\* Ids grow; an event's id is still bound to its chord, or to nothing.
Known ==
  /\ \A id \in DOMAIN regs : id <= nextId
  /\ \A e \in events :
       /\ e.id <= nextId
       /\ e.id \in DOMAIN regs => regs[e.id] = e.chord

Idle ==
  step = "idle" => desired = Empty /\ before = Empty

\* While something is removed or put back, each binding is there or in `removed'.
Undoable ==
  step \in {"removing", "restoring"} =>
    /\ DOMAIN removed \subseteq DOMAIN before \ Kept
    /\ DOMAIN bindings = DOMAIN before \ DOMAIN removed
    /\ \A i \in DOMAIN removed : removed[i].chord = before[i].chord
    /\ \A i \in DOMAIN bindings : bindings[i].chord = before[i].chord

Removing ==
  step = "removing" =>
    /\ toRemove = (DOMAIN before \ Kept) \ DOMAIN removed
    /\ toAdd = DOMAIN desired \ Kept

Adding ==
  step = "adding" =>
    /\ toAdd \subseteq DOMAIN desired \ Kept
    /\ DOMAIN bindings = DOMAIN desired \ toAdd
    /\ \A i \in DOMAIN bindings : bindings[i].chord = desired[i]

Update == Idle /\ Undoable /\ Removing /\ Adding /\ NoInterceptionGap

\* The inductive invariant.
IInv == TypeOK /\ LookupsAgree /\ Known /\ Update

USE DEF apiVars, tableVars, updateVars

----------------------------------------------------------------------------
\* The table of nothing.
LEMMA EmptyTable ==
  ASSUME NEW D, NEW R
  PROVE  Empty \in Table(D, R) /\ DOMAIN Empty = {}
<1>1. DOMAIN Empty = {}
  BY DEF Empty
<1>2. Empty \in [{} -> R]
  BY DEF Empty
<1> QED
  BY <1>1, <1>2, IsTable

----------------------------------------------------------------------------
(* The two helpers. *)

\* The types of the tables, and what the helpers keep of them.
Tables ==
  /\ regs \in Table(Id, Chord)
  /\ nextId \in 0..MaxId
  /\ bindings \in Table(Ident, Registration)
  /\ identsById \in Table(Id, Ident)
  /\ events \subseteq Event

\* The fields of a registration, and of an entry of the manager's table.
LEMMA BoundTo ==
  ASSUME Tables, NEW i \in DOMAIN bindings
  PROVE  i \in Ident /\ bindings[i].id \in Id /\ bindings[i].chord \in Chord
<1>1. i \in Ident /\ bindings[i] \in Registration
  BY EntryOf DEF Tables
<1> QED
  BY <1>1 DEF Registration

\* intercept: a fresh id for an identifier that has none.
LEMMA RegisterKeeps ==
  ASSUME Tables, LookupsAgree, Known,
         NEW i \in Ident, NEW c \in Chord,
         i \notin DOMAIN bindings,
         RegisterBinding(i, c), UNCHANGED events
  PROVE  /\ Tables' /\ LookupsAgree' /\ Known'
         /\ DOMAIN bindings' = DOMAIN bindings \cup {i}
         /\ bindings'[i].chord = c
         /\ \A j \in DOMAIN bindings : bindings'[j] = bindings[j]
<1>1. NewId \in Id /\ NewId \in 0..MaxId
  BY BindingAssumption DEF Tables, RegisterBinding, NewId, Id
<1>2. PICK n \in Id : n = NewId
  BY <1>1
<1>3. PICK r \in Registration : r = [id |-> n, chord |-> c]
  BY DEF Registration
<1>4. n \in Id /\ n \in 0..MaxId /\ n = nextId + 1
  BY <1>1, <1>2 DEF NewId
<1>5. nextId' = n /\ regs' = Put(regs, n, c) /\ bindings' = Put(bindings, i, r)
      /\ identsById' = Put(identsById, n, i)
  BY <1>2, <1>3 DEF RegisterBinding
<1>6. n \notin DOMAIN regs
  <2>1. DOMAIN regs \subseteq Id
    BY IsTable DEF Tables
  <2> QED
    BY <1>4, <2>1 DEF Known, Tables, Id
<1>7. /\ regs' \in Table(Id, Chord)
      /\ DOMAIN regs' = DOMAIN regs \cup {n}
      /\ regs'[n] = c
      /\ \A id \in DOMAIN regs : regs'[id] = regs[id]
  <2>1. regs \in Table(Id, Chord) /\ regs' = Put(regs, n, c)
    BY <1>5 DEF Tables
  <2>2. regs' \in Table(Id, Chord)
    BY <2>1, <1>4, PutTable
  <2>3. DOMAIN regs' = DOMAIN regs \cup {n} /\ regs'[n] = c
    BY <2>1 DEF Put
  <2>4. \A id \in DOMAIN regs : id # n /\ id \in DOMAIN regs
    BY <1>6 DEF LookupsAgree
  <2> QED
    BY <2>1, <2>2, <2>3, <2>4, Values
<1>8. /\ bindings' \in Table(Ident, Registration)
      /\ DOMAIN bindings' = DOMAIN bindings \cup {i}
      /\ bindings'[i] = r
      /\ \A j \in DOMAIN bindings : bindings'[j] = bindings[j]
  <2>1. bindings \in Table(Ident, Registration) /\ bindings' = Put(bindings, i, r)
    BY <1>5 DEF Tables
  <2>2. bindings' \in Table(Ident, Registration)
    BY <2>1, <1>4, PutTable
  <2>3. DOMAIN bindings' = DOMAIN bindings \cup {i} /\ bindings'[i] = r
    BY <2>1 DEF Put
  <2>4. \A j \in DOMAIN bindings : j # i /\ j \in DOMAIN bindings
    BY <1>6 DEF LookupsAgree
  <2> QED
    BY <2>1, <2>2, <2>3, <2>4, Values
<1>9. /\ identsById' \in Table(Id, Ident)
      /\ DOMAIN identsById' = DOMAIN identsById \cup {n}
      /\ identsById'[n] = i
      /\ \A id \in DOMAIN regs : identsById'[id] = identsById[id]
  <2>1. identsById \in Table(Id, Ident) /\ identsById' = Put(identsById, n, i)
    BY <1>5 DEF Tables
  <2>2. identsById' \in Table(Id, Ident)
    BY <2>1, <1>4, PutTable
  <2>3. DOMAIN identsById' = DOMAIN identsById \cup {n} /\ identsById'[n] = i
    BY <2>1 DEF Put
  <2>4. \A id \in DOMAIN regs : id # n /\ id \in DOMAIN identsById
    BY <1>6 DEF LookupsAgree
  <2> QED
    BY <2>1, <2>2, <2>3, <2>4, Values
<1>10. Tables'
  BY <1>4, <1>5, <1>7, <1>8, <1>9 DEF Tables
<1>11. r.id = n /\ r.chord = c
  BY <1>3
<1>12. LookupsAgree'
  <2>1. DOMAIN regs' = DOMAIN identsById'
    BY <1>7, <1>9 DEF LookupsAgree
  <2>2. ASSUME NEW j \in DOMAIN bindings'
        PROVE  /\ bindings'[j].id \in DOMAIN regs'
               /\ regs'[bindings'[j].id] = bindings'[j].chord
               /\ identsById'[bindings'[j].id] = j
    <3>1. CASE j = i
      BY <3>1, <1>7, <1>8, <1>9, <1>11
    <3>2. CASE j # i
      <4>1. j \in DOMAIN bindings /\ bindings'[j] = bindings[j]
        BY <3>2, <1>8
      <4> QED
        BY <4>1, <1>7, <1>9 DEF LookupsAgree
    <3> QED
      BY <3>1, <3>2
  <2>3. ASSUME NEW id \in DOMAIN regs'
        PROVE  /\ identsById'[id] \in DOMAIN bindings'
               /\ bindings'[identsById'[id]].id = id
    <3>1. CASE id = n
      BY <3>1, <1>8, <1>9, <1>11
    <3>2. CASE id # n
      <4>1. id \in DOMAIN regs /\ identsById'[id] = identsById[id]
        BY <3>2, <1>7, <1>9
      <4> QED
        BY <4>1, <1>8 DEF LookupsAgree
    <3> QED
      BY <3>1, <3>2
  <2> QED
    BY <2>1, <2>2, <2>3 DEF LookupsAgree
<1>13. Known'
  <2>1. DOMAIN regs \subseteq Nat /\ nextId \in Nat
    <3>1. DOMAIN regs \subseteq Id
      BY IsTable DEF Tables
    <3> QED
      BY <3>1, BindingAssumption DEF Tables, Id
  <2>2. \A id \in DOMAIN regs' : id <= nextId'
    BY <1>4, <1>5, <1>7, <2>1 DEF Known
  <2>3. ASSUME NEW e \in events
        PROVE  e.id <= nextId' /\ (e.id \in DOMAIN regs' => regs'[e.id] = e.chord)
    <3>1. e.id \in Nat /\ e.id <= nextId
      BY DEF Known, Tables, Event, Id
    <3>2. e.id # n
      BY <1>4, <2>1, <3>1
    <3> QED
      BY <1>4, <1>5, <1>7, <2>1, <3>1, <3>2 DEF Known
  <2> QED
    BY <2>2, <2>3 DEF Known
<1> QED
  BY <1>8, <1>10, <1>11, <1>12, <1>13

\* unregister: the id of an identifier goes with it.
LEMMA UnregisterKeeps ==
  ASSUME Tables, LookupsAgree, Known,
         NEW i \in DOMAIN bindings,
         UnregisterBinding(i), UNCHANGED events
  PROVE  /\ Tables' /\ LookupsAgree' /\ Known'
         /\ DOMAIN bindings' = DOMAIN bindings \ {i}
         /\ \A j \in DOMAIN bindings' : bindings'[j] = bindings[j]
<1>1. bindings[i].id \in Id
  BY BoundTo
<1>2. PICK n \in Id : n = bindings[i].id
  BY <1>1
<1>3. n \in DOMAIN regs /\ identsById[n] = i
  BY <1>2 DEF LookupsAgree
<1>4. regs' = Without(regs, n) /\ bindings' = Without(bindings, i)
      /\ identsById' = Without(identsById, n) /\ nextId' = nextId
  BY <1>2 DEF UnregisterBinding
<1>5. /\ regs' \in Table(Id, Chord)
      /\ DOMAIN regs' = DOMAIN regs \ {n}
      /\ \A id \in DOMAIN regs' : regs'[id] = regs[id]
  <2>1. regs \in Table(Id, Chord)
    BY DEF Tables
  <2>2. /\ Without(regs, n) \in Table(Id, Chord)
        /\ DOMAIN Without(regs, n) = DOMAIN regs \ {n}
        /\ \A id \in DOMAIN regs : id # n => Without(regs, n)[id] = regs[id]
    BY <2>1, WithoutTable, Domains, Values
  <2> QED
    BY <2>2, <1>4
<1>6. /\ bindings' \in Table(Ident, Registration)
      /\ DOMAIN bindings' = DOMAIN bindings \ {i}
      /\ \A j \in DOMAIN bindings' : bindings'[j] = bindings[j]
  <2>1. bindings \in Table(Ident, Registration)
    BY DEF Tables
  <2>2. /\ Without(bindings, i) \in Table(Ident, Registration)
        /\ DOMAIN Without(bindings, i) = DOMAIN bindings \ {i}
        /\ \A j \in DOMAIN bindings : j # i => Without(bindings, i)[j] = bindings[j]
    BY <2>1, WithoutTable, Domains, Values
  <2> QED
    BY <2>2, <1>4
<1>7. /\ identsById' \in Table(Id, Ident)
      /\ DOMAIN identsById' = DOMAIN identsById \ {n}
      /\ \A id \in DOMAIN regs' : identsById'[id] = identsById[id]
  <2>1. identsById \in Table(Id, Ident) /\ DOMAIN identsById = DOMAIN regs
    BY DEF Tables, LookupsAgree
  <2>2. /\ Without(identsById, n) \in Table(Id, Ident)
        /\ DOMAIN Without(identsById, n) = DOMAIN identsById \ {n}
        /\ \A id \in DOMAIN identsById :
             id # n => Without(identsById, n)[id] = identsById[id]
    BY <2>1, WithoutTable, Domains, Values
  <2> QED
    BY <2>1, <2>2, <1>4, <1>5
<1>8. Tables'
  BY <1>4, <1>5, <1>6, <1>7 DEF Tables
<1>9. LookupsAgree'
  <2>1. DOMAIN regs' = DOMAIN identsById'
    BY <1>5, <1>7 DEF LookupsAgree
  <2>2. ASSUME NEW j \in DOMAIN bindings'
        PROVE  /\ bindings'[j].id \in DOMAIN regs'
               /\ regs'[bindings'[j].id] = bindings'[j].chord
               /\ identsById'[bindings'[j].id] = j
    <3>1. j \in DOMAIN bindings /\ j # i /\ bindings'[j] = bindings[j]
      BY <1>6
    <3>2. bindings[j].id \in DOMAIN regs /\ identsById[bindings[j].id] = j
      BY <3>1 DEF LookupsAgree
    <3>3. bindings[j].id # n
      BY <1>3, <3>1, <3>2
    <3> QED
      BY <3>1, <3>2, <3>3, <1>5, <1>7 DEF LookupsAgree
  <2>3. ASSUME NEW id \in DOMAIN regs'
        PROVE  /\ identsById'[id] \in DOMAIN bindings'
               /\ bindings'[identsById'[id]].id = id
    <3>1. id \in DOMAIN regs /\ id # n /\ identsById'[id] = identsById[id]
      BY <1>5, <1>7
    <3>2. identsById[id] \in DOMAIN bindings /\ bindings[identsById[id]].id = id
      BY <3>1 DEF LookupsAgree
    <3>3. identsById[id] # i
      BY <1>2, <3>1, <3>2
    <3> QED
      BY <3>1, <3>2, <3>3, <1>6
  <2> QED
    BY <2>1, <2>2, <2>3 DEF LookupsAgree
<1>10. Known'
  BY <1>4, <1>5 DEF Known
<1> QED
  BY <1>6, <1>8, <1>9, <1>10

----------------------------------------------------------------------------
(* The steps. *)

\* Nothing is bound at the start.
LEMMA InitIInv == Init => IInv
<1> SUFFICES ASSUME Init PROVE IInv
  OBVIOUS
<1>1. DOMAIN Empty = {}
  BY EmptyTable
<1>2. TypeOK
  <2>1. /\ regs \in Table(Id, Chord)
        /\ bindings \in Table(Ident, Registration)
        /\ identsById \in Table(Id, Ident)
        /\ desired \in Table(Ident, Chord)
        /\ removed \in Table(Ident, Registration)
        /\ before \in Table(Ident, Registration)
    BY EmptyTable DEF Init
  <2>2. nextId \in 0..MaxId
    BY BindingAssumption DEF Init
  <2> QED
    BY <2>1, <2>2 DEF Init, TypeOK
<1>3. LookupsAgree /\ Known
  BY <1>1 DEF Init, LookupsAgree, Known
<1>4. Update
  BY DEF Init, Update, Idle, Undoable, Removing, Adding, NoInterceptionGap
<1> QED
  BY <1>2, <1>3, <1>4 DEF IInv

\* An update begins with everything in place.
LEMMA BeginStep ==
  ASSUME IInv, NEW wanted \in Table(Ident, Chord), Begin(wanted)
  PROVE  IInv'
<1> USE DEF Begin
<1>1. DOMAIN Empty = {}
  BY EmptyTable
<1>2. DOMAIN bindings \subseteq Ident /\ DOMAIN wanted \subseteq Ident
  BY IsTable DEF IInv, TypeOK
<1>3. TypeOK'
  BY <1>2, EmptyTable DEF IInv, TypeOK, Replaced
<1>4. LookupsAgree' /\ Known'
  BY DEF IInv, LookupsAgree, Known
<1>5. Kept' = {i \in DOMAIN bindings \cap DOMAIN wanted :
                 wanted[i] = bindings[i].chord}
  BY DEF Kept
<1>6. Undoable' /\ Removing'
  BY <1>1, <1>5 DEF Undoable, Removing, Replaced
<1>7. Idle' /\ Adding' /\ NoInterceptionGap'
  BY DEF Idle, Adding, NoInterceptionGap
<1> QED
  BY <1>3, <1>4, <1>6, <1>7 DEF IInv, Update

\* What is removed can be put back, and what is kept is not removed.
LEMMA RemoveStep == ASSUME IInv, NEW i \in Ident, Remove(i) PROVE IInv'
<1> USE DEF IInv, Update, Remove
<1>1. i \in DOMAIN bindings /\ i \in DOMAIN before \ Kept /\ i \notin DOMAIN removed
  BY DEF Removing, Undoable
<1>2. bindings[i] \in Registration
  BY <1>1, EntryOf DEF TypeOK
<1>3. /\ Tables' /\ LookupsAgree' /\ Known'
      /\ DOMAIN bindings' = DOMAIN bindings \ {i}
      /\ \A j \in DOMAIN bindings' : bindings'[j] = bindings[j]
  BY <1>1, UnregisterKeeps DEF TypeOK, Tables
<1>4. removed' \in Table(Ident, Registration)
  BY <1>2, PutTable DEF TypeOK
<1>5. /\ DOMAIN removed' = DOMAIN removed \cup {i}
      /\ removed'[i] = bindings[i]
      /\ \A j \in DOMAIN removed : removed'[j] = removed[j]
  BY <1>1 DEF Put
<1>6. TypeOK'
  BY <1>3, <1>4 DEF TypeOK, Tables
<1>7. Kept' = Kept
  BY DEF Kept
<1>8. Undoable' /\ Removing'
  BY <1>1, <1>3, <1>5, <1>7 DEF Undoable, Removing
<1>9. Idle' /\ Adding'
  BY DEF Idle, Adding
<1>10. NoInterceptionGap'
  BY <1>1, <1>3 DEF NoInterceptionGap, Kept
<1> QED
  BY <1>3, <1>6, <1>8, <1>9, <1>10

\* With nothing left to remove, what is bound is what is kept.
LEMMA PhaseStep ==
  ASSUME IInv, AllRemoved \/ \E i \in Ident : RemoveFails(i)
  PROVE  IInv'
<1> USE DEF IInv, Update, AllRemoved, RemoveFails
<1>1. TypeOK' /\ LookupsAgree' /\ Known'
  BY DEF TypeOK, LookupsAgree, Known
<1>2. Kept' = Kept
  BY DEF Kept
<1>3. Idle' /\ NoInterceptionGap'
  BY DEF Idle, NoInterceptionGap
<1>4. Undoable' /\ Removing'
  BY <1>2 DEF Undoable, Removing
<1>5. Adding'
  BY <1>2 DEF Adding, Undoable, Removing, Kept
<1> QED
  BY <1>1, <1>3, <1>4, <1>5

\* What is added was not bound.
LEMMA AddStep == ASSUME IInv, NEW i \in Ident, Add(i) PROVE IInv'
<1> USE DEF IInv, Update, Add
<1>1. i \in DOMAIN desired \ Kept /\ i \notin DOMAIN bindings
  BY DEF Adding
<1>2. desired[i] \in Chord
  BY <1>1, EntryOf DEF TypeOK
<1>3. /\ Tables' /\ LookupsAgree' /\ Known'
      /\ DOMAIN bindings' = DOMAIN bindings \cup {i}
      /\ bindings'[i].chord = desired[i]
      /\ \A j \in DOMAIN bindings : bindings'[j] = bindings[j]
  BY <1>1, <1>2, RegisterKeeps DEF TypeOK, Tables
<1>4. TypeOK'
  BY <1>3 DEF TypeOK, Tables
<1>5. Kept' = Kept
  BY DEF Kept
<1>6. Adding'
  BY <1>1, <1>3, <1>5 DEF Adding
<1>7. Idle' /\ Undoable' /\ Removing'
  BY DEF Idle, Undoable, Removing
<1>8. NoInterceptionGap'
  BY <1>3 DEF NoInterceptionGap
<1> QED
  BY <1>3, <1>4, <1>6, <1>7, <1>8

\* What is put back was not bound.
LEMMA RestoreStep == ASSUME IInv, NEW i \in Ident, Restore(i) PROVE IInv'
<1> USE DEF IInv, Update, Restore
<1>1. i \in DOMAIN removed /\ i \in DOMAIN before \ Kept /\ i \notin DOMAIN bindings
  BY DEF Undoable
<1>2. removed[i].chord \in Chord
  <2>1. removed[i] \in Registration
    BY <1>1, EntryOf DEF TypeOK
  <2> QED
    BY <2>1 DEF Registration
<1>3. /\ Tables' /\ LookupsAgree' /\ Known'
      /\ DOMAIN bindings' = DOMAIN bindings \cup {i}
      /\ bindings'[i].chord = removed[i].chord
      /\ \A j \in DOMAIN bindings : bindings'[j] = bindings[j]
  BY <1>1, <1>2, RegisterKeeps DEF TypeOK, Tables
<1>4. removed' \in Table(Ident, Registration)
  BY WithoutTable DEF TypeOK
<1>5. /\ DOMAIN removed' = DOMAIN removed \ {i}
      /\ \A j \in DOMAIN removed' : removed'[j] = removed[j]
  BY DEF Without
<1>6. TypeOK'
  BY <1>3, <1>4 DEF TypeOK, Tables
<1>7. Kept' = Kept
  BY DEF Kept
<1>8. Undoable'
  BY <1>1, <1>3, <1>5, <1>7 DEF Undoable
<1>9. Idle' /\ Removing' /\ Adding'
  BY DEF Idle, Removing, Adding
<1>10. NoInterceptionGap'
  BY <1>3 DEF NoInterceptionGap
<1> QED
  BY <1>3, <1>6, <1>8, <1>9, <1>10

\* An update that has ended leaves no trace but the tables.
LEMMA ReturnStep ==
  ASSUME IInv, Fail \/ \E capture \in BOOLEAN : Succeed(capture)
  PROVE  IInv'
<1> USE DEF IInv, Fail, Succeed, Return
<1>1. TypeOK'
  BY EmptyTable DEF TypeOK
<1>2. LookupsAgree' /\ Known'
  BY DEF LookupsAgree, Known
<1>3. Update'
  BY DEF Update, Idle, Undoable, Removing, Adding, NoInterceptionGap
<1> QED
  BY <1>1, <1>2, <1>3

\* An event is emitted for the chord its id is bound to.
LEMMA EventStep ==
  ASSUME IInv, \/ \E id \in DOMAIN regs : Press(id)
               \/ \E e \in events : Dispatch(e)
  PROVE  IInv'
<1> USE DEF IInv, Press, Dispatch
<1>1. UNCHANGED <<apiVars, tableVars, captureAll, updateVars>>
  OBVIOUS
<1>2. \A e \in events' : e \in events \/
        (e \in Event /\ e.id \in DOMAIN regs /\ e.chord = regs[e.id])
  BY EntryOf DEF TypeOK, Event
<1>3. TypeOK'
  BY <1>1, <1>2 DEF TypeOK
<1>4. Known'
  BY <1>1, <1>2 DEF Known
<1>5. LookupsAgree'
  BY <1>1 DEF LookupsAgree
<1>6. Update'
  BY <1>1 DEF Update, Idle, Undoable, Removing, Adding, NoInterceptionGap, Kept
<1> QED
  BY <1>3, <1>4, <1>5, <1>6

----------------------------------------------------------------------------
(* The invariants. *)

\* Every step keeps the invariant.
LEMMA NextIInv == IInv /\ [Next]_vars => IInv'
<1> SUFFICES ASSUME IInv, [Next]_vars PROVE IInv'
  OBVIOUS
<1>1. CASE \E wanted \in Table(Ident, Chord) : Begin(wanted)
  BY <1>1, BeginStep
<1>2. CASE \E i \in Ident : Remove(i) \/ RemoveFails(i) \/ Add(i) \/ Restore(i)
  BY <1>2, RemoveStep, PhaseStep, AddStep, RestoreStep
<1>3. CASE AllRemoved
  BY <1>3, PhaseStep
<1>4. CASE Fail \/ \E capture \in BOOLEAN : Succeed(capture)
  BY <1>4, ReturnStep
<1>5. CASE (\E id \in DOMAIN regs : Press(id)) \/ \E e \in events : Dispatch(e)
  BY <1>5, EventStep
<1>6. CASE UNCHANGED vars
  BY <1>6 DEF vars, IInv, TypeOK, LookupsAgree, Known, Update, Idle, Undoable,
     Removing, Adding, NoInterceptionGap, Kept
<1> QED
  BY <1>1, <1>2, <1>3, <1>4, <1>5, <1>6 DEF Next

\* The invariant holds in every reachable state.
THEOREM Invariance == Spec => []IInv
  BY InitIInv, NextIInv, PTL DEF Spec

\* Every variable keeps its type.
THEOREM TypeCorrect == Spec => []TypeOK
<1>1. IInv => TypeOK
  BY DEF IInv
<1> QED
  BY <1>1, Invariance, PTL

\* The hotkey manager's table and both lookups of the binding manager
\* (KeyBindingManager) agree after every step, so unregister (mac-hotkey) is never
\* called with an id it does not know.
THEOREM LookupsCorrect == Spec => []LookupsAgree
<1>1. IInv => LookupsAgree
  BY DEF IInv
<1> QED
  BY <1>1, Invariance, PTL

\* KeyBindingManager::resolve turns an event into the chord that was pressed, or
\* into nothing, however long it waited.
THEOREM ResolvesWhatWasPressed == Spec => []ResolvedIsPressed
<1>1. IInv => ResolvedIsPressed
  BY DEF IInv, LookupsAgree, Known, ResolvedIsPressed, Resolves, Resolve
<1> QED
  BY <1>1, Invariance, PTL

\* update_bindings never unregisters what it is asked to keep.
THEOREM NothingKeptIsTouched == Spec => []NoInterceptionGap
<1>1. IInv => NoInterceptionGap
  BY DEF IInv, Update
<1> QED
  BY <1>1, Invariance, PTL

----------------------------------------------------------------------------
(* The refinement. *)

\* A table of chords is one that can be asked for.
LEMMA ChordTables ==
  ASSUME NEW f \in Table(Ident, Registration)
  PROVE  Chords(f) \in Table(Ident, Chord) /\ DOMAIN Chords(f) = DOMAIN f
<1>1. f \in [DOMAIN f -> Registration] /\ DOMAIN f \subseteq Ident
  BY IsTable
<1>2. \A i \in DOMAIN f : f[i].chord \in Chord
  BY <1>1 DEF Registration
<1>3. Chords(f) \in [DOMAIN f -> Chord] /\ DOMAIN Chords(f) = DOMAIN f
  BY <1>2 DEF Chords
<1> QED
  BY <1>1, <1>3, IsTable

\* The abstract tables are the concrete ones.
LEMMA SameTables ==
  /\ Atomic!Wanted = Table(Ident, Chord)
  /\ Empty \in Atomic!Nothing
<1>1. Atomic!Wanted = Table(Ident, Chord)
  BY DEF Atomic!Wanted, Table
<1> QED
  BY <1>1, EmptyTable DEF Atomic!Nothing

\* The first table is empty.
LEMMA RefinesInit == Init => Atomic!Init
<1> SUFFICES ASSUME Init PROVE Atomic!Init
  OBVIOUS
<1>1. Empty \in Table(Ident, Registration) /\ DOMAIN Empty = {}
  BY EmptyTable
<1>2. Chords(Empty) \in Atomic!Nothing
  BY <1>1, ChordTables, SameTables DEF Atomic!Nothing
<1>3. Visible = Chords(Empty)
  BY DEF Init, Visible
<1> QED
  BY <1>2, <1>3, SameTables DEF Init, Atomic!Init

\* Begin asks, Succeed grants, Fail refuses; the other steps are not seen.
LEMMA RefinesNext == IInv /\ [Next]_vars => [Atomic!Next]_(Atomic!vars)
<1> SUFFICES ASSUME IInv, [Next]_vars PROVE [Atomic!Next]_(Atomic!vars)
  OBVIOUS
<1> USE DEF IInv, Update, Visible
<1>1. ASSUME NEW wanted \in Table(Ident, Chord), Begin(wanted)
      PROVE  Atomic!Ask(wanted)
  <2>1. step = "idle" /\ step' = "removing" /\ desired' = wanted /\ before' = bindings
    BY <1>1 DEF Begin
  <2>2. Visible' = Visible
    BY <2>1
  <2> QED
    BY <2>1, <2>2 DEF Atomic!Ask
<1>2. ASSUME NEW capture \in BOOLEAN, Succeed(capture) PROVE Atomic!Grant
  <2>1. /\ step = "adding" /\ step' = "idle" /\ toAdd = {}
        /\ desired' = Empty /\ bindings' = bindings
    BY <1>2 DEF Succeed, Return
  <2>2. /\ DOMAIN bindings = DOMAIN desired
        /\ \A i \in DOMAIN bindings : bindings[i].chord = desired[i]
    BY <2>1 DEF Adding
  <2>3. desired \in [DOMAIN desired -> Chord]
    BY IsTable DEF TypeOK
  <2>4. Chords(bindings) = desired
    BY <2>2, <2>3 DEF Chords
  <2> QED
    BY <2>1, <2>4, SameTables DEF Atomic!Grant, Atomic!Answer
<1>3. ASSUME Fail PROVE Atomic!Refuse
  <2>1. /\ step = "restoring" /\ step' = "idle" /\ DOMAIN removed = {}
        /\ desired' = Empty /\ bindings' = bindings
    BY <1>3 DEF Fail, Return
  <2>2. /\ DOMAIN bindings = DOMAIN before
        /\ \A i \in DOMAIN bindings : bindings[i].chord = before[i].chord
    BY <2>1 DEF Undoable
  <2>3. Chords(bindings) = Chords(before)
    BY <2>2 DEF Chords
  <2> QED
    BY <2>1, <2>3, SameTables DEF Atomic!Refuse, Atomic!Answer
<1>4. ASSUME AllRemoved \/ \E i \in Ident :
               Remove(i) \/ RemoveFails(i) \/ Add(i) \/ Restore(i)
      PROVE  UNCHANGED Atomic!vars
  <2>1. step # "idle" /\ step' # "idle" /\ UNCHANGED <<desired, before>>
    BY <1>4 DEF AllRemoved, Remove, RemoveFails, Add, Restore
  <2> QED
    BY <2>1 DEF Atomic!vars
<1>5. ASSUME \/ \E id \in DOMAIN regs : Press(id)
             \/ \E e \in events : Dispatch(e)
             \/ UNCHANGED vars
      PROVE  UNCHANGED Atomic!vars
  <2>1. UNCHANGED <<step, desired, before, bindings>>
    BY <1>5 DEF Press, Dispatch, vars
  <2> QED
    BY <2>1 DEF Atomic!vars
<1> QED
  BY <1>1, <1>2, <1>3, <1>4, <1>5, SameTables DEF Next, Atomic!Next

\* Whoever looks between updates sees update_bindings replace the table as a
\* whole or leave it, also when an unregistration fails and the removed bindings
\* are registered again.
THEOREM UpdatesAreAtomic == Spec => ImplementsTable
<1>1. Spec => []IInv
  BY Invariance
<1> QED
  BY <1>1, RefinesInit, RefinesNext, PTL DEF Spec, ImplementsTable, Atomic!Spec
=============================================================================
