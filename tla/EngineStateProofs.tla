------------------------- MODULE EngineStateProofs -------------------------
(***************************************************************************)
(* Proofs about the parts of the engine that keep a state of their own:    *)
(* the mode stack (ModeStack), the repeater (Repeats) and the selector     *)
(* (Selector).                                                             *)
(***************************************************************************)
EXTENDS ModeStack, Repeats, Selector, WellFoundedInduction, TLAPS

----------------------------------------------------------------------------
(***************************************************************************)
(* Proofs about ModeStack, for any menus, windows and bounds.              *)
(*                                                                         *)
(* A frame shows something only after a render that went through it and    *)
(* the frames below it, and such a render found its entry in what it had   *)
(* just listed for the frame below. Navigation adds frames that show       *)
(* nothing yet, and takes frames away from the top only.                   *)
(***************************************************************************)

FrameType ==
  [menu : Menu, via : (Key \X Menu) \cup {Pushed}, rendered : SUBSET Binding,
   capture : BOOLEAN]

Stacks == {s \in Seq(FrameType) : Len(s) > 0 /\ s[1].menu = Root}

TypeOK ==
  /\ stack \in Stacks
  /\ hudUp \in BOOLEAN /\ pinned \in Win \cup {NoWin}
  /\ bindings \subseteq Binding
  /\ shownFor \in Win /\ captured \in BOOLEAN /\ live \in Win
  /\ due \in [Task -> Win \cup {NoWin}]
  /\ holding \in [Key -> [nav : Kind, to : Menu, win : Win] \cup {Unheld}]
  /\ clearing \in BOOLEAN
  /\ pressed \in Nat /\ moved \in Nat /\ ticked \in Nat /\ giveUps \in Nat

\* Every frame of s that shows something is led to.
Led(s) ==
  \A d \in 2..Len(s) :
    s[d].rendered # {} => s[d].via = Pushed \/ Offers(s[d - 1].rendered, s[d].via)

ModeIInv == TypeOK /\ Led(stack) /\ MenusArePinned

USE DEF navVars, shownVars, taskVars, boundVars

----------------------------------------------------------------------------
(* What a menu lists. *)

\* What is listed for a window are bindings, and nothing for a menu that fails.
LEMMA ListedIs ==
  ASSUME NEW m \in Menu, NEW w \in Win
  PROVE  /\ Listed[m][w] \subseteq Binding
         /\ View[m][w] # Failing => View[m][w].capture \in BOOLEAN
<1>1. Listed[m][w] = IF View[m][w] = Failing THEN {} ELSE Firsts(View[m][w].bindings)
  BY DEF Listed
<1>2. CASE View[m][w] = Failing
  BY <1>1, <1>2
<1>3. CASE View[m][w] # Failing
  <2>1. View[m][w] \in [bindings : Seq(Binding), capture : BOOLEAN]
    BY <1>3, ModeStackAssumption
  <2>2. \A declared \in Seq(Binding) : Firsts(declared) \subseteq Binding
    BY DEF Firsts
  <2> QED
    BY <1>1, <1>3, <2>1, <2>2
<1> QED
  BY <1>2, <1>3

\* A frame rendered without an error is a frame of the same menu and entry.
LEMMA ShownIs ==
  ASSUME NEW f \in FrameType, NEW w \in Win, View[f.menu][w] # Failing
  PROVE  /\ Shown(f, w) \in FrameType
         /\ Shown(f, w).menu = f.menu
         /\ Shown(f, w).via = f.via
         /\ Shown(f, w).rendered = Listed[f.menu][w]
<1>1. f.menu \in Menu
  BY DEF FrameType
<1>2. Listed[f.menu][w] \subseteq Binding /\ View[f.menu][w].capture \in BOOLEAN
  BY <1>1, ListedIs
<1> QED
  BY <1>2 DEF Shown, FrameType

----------------------------------------------------------------------------
(* What navigation and rendering make of a stack. *)

\* A stack cut where a render went is a stack, and everything it shows is led to.
LEMMA CutIs ==
  ASSUME NEW s \in Stacks, NEW w \in Win, NEW n \in 1..Len(s), Reaches(s, n, w)
  PROVE  /\ Cut(s, n, w) \in Stacks
         /\ Len(Cut(s, n, w)) = n
         /\ \A d \in 1..n : Cut(s, n, w)[d].rendered = Listed[s[d].menu][w]
         /\ Led(Cut(s, n, w))
<1> DEFINE c == Cut(s, n, w)
<1>1. s \in Seq(FrameType) /\ Len(s) \in Nat /\ s[1].menu = Root /\ n \in Nat
  BY DEF Stacks
<1>2. \A d \in 1..n : d \in 1..Len(s) /\ s[d] \in FrameType /\ Fine(s, d, w)
  BY <1>1 DEF Reaches
<1>3. \A d \in 1..n : View[s[d].menu][w] # Failing
  BY <1>2 DEF Fine, Breaks
<1>4. \A d \in 1..n : /\ c[d] \in FrameType
                      /\ c[d].menu = s[d].menu
                      /\ c[d].via = s[d].via
                      /\ c[d].rendered = Listed[s[d].menu][w]
  <2> SUFFICES ASSUME NEW d \in 1..n
               PROVE  /\ c[d] \in FrameType
                      /\ c[d].menu = s[d].menu
                      /\ c[d].via = s[d].via
                      /\ c[d].rendered = Listed[s[d].menu][w]
    OBVIOUS
  <2>1. c[d] = Shown(s[d], w)
    BY DEF Cut
  <2> QED
    BY <1>2, <1>3, <2>1, ShownIs
<1>5. c = [d \in 1..n |-> c[d]]
  BY DEF Cut
<1>6. c \in Seq(FrameType) /\ Len(c) = n
  <2> HIDE DEF c
  <2> QED
    BY <1>1, <1>4, <1>5
<1>7. Led(c)
  <2> SUFFICES ASSUME NEW d \in 2..n, c[d].rendered # {}
               PROVE  c[d].via = Pushed \/ Offers(c[d - 1].rendered, c[d].via)
    BY <1>6 DEF Led
  <2>1. d \in 1..n /\ d - 1 \in 1..n /\ d > 1
    BY <1>1
  <2>2. ~Orphaned(s, d, w)
    BY <1>2, <2>1 DEF Fine
  <2>3. s[d].via = Pushed \/ Offers(Listed[s[d - 1].menu][w], s[d].via)
    BY <2>1, <2>2 DEF Orphaned
  <2> HIDE DEF c
  <2> QED
    BY <1>4, <2>1, <2>3
<1>8. c[1].menu = Root
  BY <1>1, <1>4
<1> HIDE DEF c
<1>9. c \in Stacks
  BY <1>1, <1>6, <1>8 DEF Stacks
<1> QED
  BY <1>4, <1>6, <1>7, <1>9 DEF c

\* What is bound for a stack are bindings.
LEMMA FlatIs ==
  ASSUME NEW s \in Stacks
  PROVE  Flat(s) \subseteq Binding
<1>1. \A d \in 1..Len(s) : s[d] \in FrameType
  BY DEF Stacks
<1>2. \A d \in 1..Len(s) : s[d].rendered \subseteq Binding
  BY <1>1 DEF FrameType
<1> QED
  BY <1>2 DEF Flat, Reaching

\* A render that does not fail goes through the root at least.
LEMMA RootIsReached ==
  ASSUME NEW s \in Stacks, NEW w \in Win, NEW n \in 0..Len(s), Succeeds(s, n, w)
  PROVE  n \in 1..Len(s) /\ Reaches(s, n, w)
<1>1. Len(s) \in Nat /\ Len(s) > 0
  BY DEF Stacks
<1>2. n # 0
  BY <1>1 DEF Succeeds, Orphaned, Vanishes
<1> QED
  BY <1>1, <1>2 DEF Succeeds

\* A stack of the root alone is what a failure leaves.
LEMMA ResetIs ==
  ASSUME NEW s \in Stacks, NEW w \in Win, NEW n \in 0..Len(s), Fails(s, n, w)
  PROVE  Reset(s, n, w) \in Stacks /\ Len(Reset(s, n, w)) = 1 /\ Led(Reset(s, n, w))
<1>1. s[1] \in FrameType /\ s[1].menu = Root /\ Len(s) \in Nat
  BY DEF Stacks
<1>2. n # 0 => View[s[1].menu][w] # Failing
  BY <1>1 DEF Fails, Reaches, Fine, Breaks
<1> DEFINE f == IF n = 0 THEN s[1] ELSE Shown(s[1], w)
<1>3. f \in FrameType /\ f.menu = Root
  BY <1>1, <1>2, ShownIs
<1>4. Reset(s, n, w) = <<f>>
  BY DEF Reset
<1> HIDE DEF f
<1>5. <<f>> \in Seq(FrameType) /\ Len(<<f>>) = 1 /\ <<f>>[1] = f
  BY <1>3
<1> QED
  BY <1>3, <1>4, <1>5 DEF Stacks, Led

\* A render, whatever its outcome, leaves a stack that is led to.
LEMMA RenderedIs ==
  ASSUME NEW s \in Stacks, NEW w \in Win, NEW new, NEW bound, NEW asks,
         Rendered(s, w, new, bound, asks)
  PROVE  new \in Stacks /\ Led(new) /\ bound \subseteq Binding /\ Len(new) <= Len(s)
<1>0. Len(s) \in Nat /\ Len(s) > 0
  BY DEF Stacks
<1>1. CASE \E n \in 0..Len(s) : Succeeds(s, n, w) /\ new = Cut(s, n, w) /\ bound = Flat(new)
  <2>1. PICK n \in 0..Len(s) : Succeeds(s, n, w) /\ new = Cut(s, n, w) /\ bound = Flat(new)
    BY <1>1
  <2>2. n \in 1..Len(s) /\ Reaches(s, n, w)
    BY <2>1, RootIsReached
  <2>3. new \in Stacks /\ Led(new) /\ Len(new) = n
    BY <2>1, <2>2, CutIs
  <2> QED
    BY <1>0, <2>1, <2>2, <2>3, FlatIs
<1>2. CASE \E n \in 0..Len(s) :
             /\ Fails(s, n, w)
             /\ \/ \E m \in 0..Len(Reset(s, n, w)) :
                     /\ Succeeds(Reset(s, n, w), m, w)
                     /\ new = Cut(Reset(s, n, w), m, w) /\ bound = Flat(new)
                \/ new = Reset(s, n, w) /\ bound = {}
  <2>1. PICK n \in 0..Len(s) :
             /\ Fails(s, n, w)
             /\ \/ \E m \in 0..Len(Reset(s, n, w)) :
                     /\ Succeeds(Reset(s, n, w), m, w)
                     /\ new = Cut(Reset(s, n, w), m, w) /\ bound = Flat(new)
                \/ new = Reset(s, n, w) /\ bound = {}
    BY <1>2
  <2> DEFINE root == Reset(s, n, w)
  <2>2. root \in Stacks /\ Len(root) = 1 /\ Led(root)
    BY <2>1, ResetIs
  <2> HIDE DEF root
  <2>3. CASE \E m \in 0..Len(root) :
               Succeeds(root, m, w) /\ new = Cut(root, m, w) /\ bound = Flat(new)
    <3>1. PICK m \in 0..Len(root) :
               Succeeds(root, m, w) /\ new = Cut(root, m, w) /\ bound = Flat(new)
      BY <2>3
    <3>2. m \in 1..Len(root) /\ Reaches(root, m, w)
      BY <2>2, <3>1, RootIsReached
    <3>3. new \in Stacks /\ Led(new) /\ Len(new) = m
      BY <2>2, <3>1, <3>2, CutIs
    <3> QED
      BY <1>0, <2>2, <3>1, <3>2, <3>3, FlatIs
  <2>4. CASE new = root /\ bound = {}
    <3>1. 1 <= Len(s)
      BY <1>0
    <3>2. new \in Stacks /\ Led(new) /\ Len(new) = 1
      BY <2>2, <2>4
    <3> QED
      BY <2>4, <3>1, <3>2
  <2> QED
    BY <2>1, <2>3, <2>4 DEF root
<1> QED
  BY <1>1, <1>2 DEF Rendered

----------------------------------------------------------------------------
(* The steps. *)

\* A frame pushed shows nothing yet.
LEMMA PushKeeps ==
  ASSUME ModeIInv, NEW to \in Menu, NEW via \in (Key \X Menu) \cup {Pushed},
         NEW asks \in BOOLEAN, NEW w \in Win, PushMode(to, via, asks, w)
  PROVE  /\ stack' \in Stacks /\ Led(stack') /\ MenusArePinned'
         /\ hudUp' \in BOOLEAN /\ pinned' \in Win \cup {NoWin}
<1> DEFINE f == Frame(to, via, asks)
<1>1. f \in FrameType /\ f.rendered = {}
  BY DEF Frame, FrameType
<1>2. stack \in Seq(FrameType) /\ Len(stack) \in Nat \ {0} /\ stack[1].menu = Root
  BY DEF ModeIInv, TypeOK, Stacks
<1>3. stack' = Append(stack, f) /\ hudUp' = TRUE
  BY DEF PushMode
<1> HIDE DEF f
<1>4. /\ stack' \in Seq(FrameType) /\ Len(stack') = Len(stack) + 1
      /\ \A d \in 1..Len(stack) : stack'[d] = stack[d]
      /\ stack'[Len(stack) + 1] = f
  BY <1>1, <1>2, <1>3
<1>5. stack' \in Stacks
  BY <1>2, <1>4 DEF Stacks
<1>6. Led(stack')
  <2> SUFFICES ASSUME NEW d \in 2..Len(stack'), stack'[d].rendered # {}
               PROVE  stack'[d].via = Pushed \/ Offers(stack'[d - 1].rendered, stack'[d].via)
    BY DEF Led
  <2>1. d # Len(stack) + 1
    BY <1>1, <1>4
  <2>2. d \in 2..Len(stack) /\ d \in 1..Len(stack) /\ d - 1 \in 1..Len(stack)
    BY <1>2, <1>4, <2>1
  <2>3. stack'[d] = stack[d] /\ stack'[d - 1] = stack[d - 1]
    BY <1>4, <2>2
  <2> QED
    BY <2>2, <2>3 DEF ModeIInv, Led
<1>7. pinned' \in Win
  BY ModeStackAssumption DEF PushMode, Pinning, ModeIInv, TypeOK
<1>8. MenusArePinned'
  BY <1>7, ModeStackAssumption DEF MenusArePinned
<1> QED
  BY <1>3, <1>5, <1>6, <1>7, <1>8

\* What is below a frame taken from the top is led to as before.
LEMMA PrefixIs ==
  ASSUME NEW s \in Stacks, Led(s), NEW n \in 1..Len(s)
  PROVE  SubSeq(s, 1, n) \in Stacks /\ Led(SubSeq(s, 1, n)) /\ Len(SubSeq(s, 1, n)) = n
<1> DEFINE p == SubSeq(s, 1, n)
<1>1. s \in Seq(FrameType) /\ Len(s) \in Nat \ {0} /\ s[1].menu = Root
  BY DEF Stacks
<1>2. p \in Seq(FrameType) /\ Len(p) = n /\ \A d \in 1..n : p[d] = s[d]
  BY <1>1
<1> HIDE DEF p
<1>3. p \in Stacks
  BY <1>1, <1>2 DEF Stacks
<1>4. Led(p)
  <2> SUFFICES ASSUME NEW d \in 2..n, p[d].rendered # {}
               PROVE  p[d].via = Pushed \/ Offers(p[d - 1].rendered, p[d].via)
    BY <1>2 DEF Led
  <2>1. d \in 2..Len(s) /\ p[d] = s[d] /\ p[d - 1] = s[d - 1]
    BY <1>1, <1>2
  <2> QED
    BY <2>1 DEF Led
<1> QED
  BY <1>2, <1>3, <1>4 DEF p

\* The root alone is led to.
LEMMA RootIs ==
  ASSUME NEW s \in Stacks
  PROVE  <<s[1]>> \in Stacks /\ Led(<<s[1]>>) /\ Len(<<s[1]>>) = 1
<1>1. s[1] \in FrameType /\ s[1].menu = Root
  BY DEF Stacks
<1> DEFINE f == s[1]
<1> HIDE DEF f
<1>2. <<f>> \in Seq(FrameType) /\ Len(<<f>>) = 1 /\ <<f>>[1] = f
  BY <1>1 DEF f
<1> QED
  BY <1>1, <1>2 DEF Stacks, Led, f

\* Every way to navigate keeps what is shown led to and a child mode pinned.
LEMMA NavigateKeeps ==
  ASSUME ModeIInv, NEW nav, NEW to \in Menu, NEW w \in Win, Navigate(nav, to, w)
  PROVE  /\ stack' \in Stacks /\ Led(stack') /\ MenusArePinned'
         /\ hudUp' \in BOOLEAN /\ pinned' \in Win \cup {NoWin}
<1>1. stack \in Stacks /\ Led(stack) /\ MenusArePinned /\ hudUp \in BOOLEAN
      /\ pinned \in Win \cup {NoWin}
  BY DEF ModeIInv, TypeOK
<1>0. Len(stack) \in Nat \ {0}
  BY <1>1 DEF Stacks
<1>2. CASE PushMode(to, Pushed, FALSE, w)
  BY <1>2, PushKeeps
<1>3. CASE PopMode
  <2>2. /\ stack' \in Stacks /\ Led(stack')
        /\ Len(stack') = IF Len(stack) = 1 THEN 1 ELSE Len(stack) - 1
    <3>1. CASE Len(stack) = 1
      BY <1>1, <1>3, <3>1 DEF PopMode
    <3>2. CASE Len(stack) > 1
      <4>1. Len(stack) - 1 \in 1..Len(stack) /\ Len(stack) # 1
        BY <1>0, <3>2
      <4>2. stack' = SubSeq(stack, 1, Len(stack) - 1)
        BY <1>3, <4>1 DEF PopMode
      <4> QED
        BY <1>1, <4>1, <4>2, PrefixIs
    <3>3. Len(stack) = 1 \/ Len(stack) > 1
      BY <1>0
    <3> QED
      BY <3>1, <3>2, <3>3
  <2>3. CASE Len(stack) <= 2
    <3>1. hudUp' = FALSE /\ pinned' = NoWin
      BY <1>3, <2>3 DEF PopMode
    <3>2. ~(Len(stack') > 1)
      BY <1>0, <2>2, <2>3
    <3> QED
      BY <2>2, <3>1, <3>2 DEF MenusArePinned
  <2>4. CASE ~(Len(stack) <= 2)
    <3>1. hudUp' = hudUp /\ pinned' = pinned
      BY <1>3, <2>4 DEF PopMode
    <3>2. Len(stack) > 1
      BY <1>0, <2>4
    <3> QED
      BY <1>1, <2>2, <3>1, <3>2 DEF MenusArePinned
  <2> QED
    BY <2>3, <2>4
<1>4. CASE stack' = <<stack[1]>> /\ hudUp' = FALSE /\ pinned' = NoWin
  <2>1. stack' \in Stacks /\ Led(stack') /\ Len(stack') = 1
    BY <1>1, <1>4, RootIs
  <2>2. ~(Len(stack') > 1)
    BY <2>1
  <2> QED
    BY <1>4, <2>1, <2>2 DEF MenusArePinned
<1>5. CASE stack' = <<stack[1]>> /\ hudUp' = TRUE /\ Pinning(w)
  <2>1. stack' \in Stacks /\ Led(stack') /\ Len(stack') = 1
    BY <1>1, <1>5, RootIs
  <2>2. pinned' \in Win \cup {NoWin}
    BY <1>1, <1>5 DEF Pinning
  <2>3. ~(Len(stack') > 1)
    BY <2>1
  <2> QED
    BY <1>5, <2>1, <2>2, <2>3 DEF MenusArePinned
<1>6. CASE hudUp' \in {hudUp, FALSE} /\ UNCHANGED <<stack, pinned>>
  BY <1>1, <1>6 DEF MenusArePinned
<1> QED
  BY <1>2, <1>3, <1>4, <1>5, <1>6 DEF Navigate

\* So does a binding that is run.
LEMMA ExecuteKeeps ==
  ASSUME ModeIInv, NEW b \in Binding, NEW w \in Win, Execute(b, w)
  PROVE  /\ stack' \in Stacks /\ Led(stack') /\ MenusArePinned'
         /\ hudUp' \in BOOLEAN /\ pinned' \in Win \cup {NoWin}
<1>1. b.to \in Menu /\ b.chord \in Key /\ b.asks \in BOOLEAN
  BY DEF Binding
<1> QED
  BY <1>1, PushKeeps, NavigateKeeps DEF Execute

\* The window a context is built for is a window.
LEMMA ContextIs ==
  ASSUME TypeOK, NEW w \in Win
  PROVE  Context(w) \in Win
  BY DEF TypeOK, Context

----------------------------------------------------------------------------
(* The invariant. *)

\* A configuration installed at the start shows the root alone (prepare_config).
LEMMA ModeBegins == InitStack => ModeIInv
<1> SUFFICES ASSUME InitStack PROVE ModeIInv
  OBVIOUS
<1>1. Root \in Menu /\ FirstWin \in Win /\ View[Root][FirstWin] # Failing
  BY ModeStackAssumption
<1> DEFINE f == RootFrame
<1>2. f \in FrameType /\ f.menu = Root /\ f.via = Pushed
  BY <1>1 DEF RootFrame, Frame, FrameType
<1> HIDE DEF f
<1>3. <<f>> \in Seq(FrameType) /\ Len(<<f>>) = 1 /\ <<f>>[1] = f
  BY <1>2
<1>4. <<f>> \in Stacks
  BY <1>2, <1>3 DEF Stacks
<1>5. Reaches(<<f>>, 1, FirstWin)
  BY <1>1, <1>2, <1>3 DEF Reaches, Fine, Orphaned, Breaks, Vanishes
<1>6. Cut(<<f>>, 1, FirstWin) \in Stacks /\ Len(Cut(<<f>>, 1, FirstWin)) = 1
      /\ Led(Cut(<<f>>, 1, FirstWin))
  <2>1. 1 \in 1..Len(<<f>>)
    BY <1>3
  <2> QED
    BY <1>1, <1>4, <1>5, <2>1, CutIs
<1>7. stack = Cut(<<f>>, 1, FirstWin)
  BY DEF InitStack, f
<1>8. stack \in Stacks /\ Led(stack) /\ ~(Len(stack) > 1)
  BY <1>6, <1>7
<1>9. Listed[Root][FirstWin] \subseteq Binding
  BY <1>1, ListedIs
<1>10. TypeOK
  BY <1>1, <1>8, <1>9 DEF InitStack, TypeOK
<1> QED
  BY <1>8, <1>10 DEF ModeIInv, MenusArePinned

\* A key's handler.
LEMMA ModePressHolds ==
  ASSUME ModeIInv, NEW k \in Key, PressKey(k)
  PROVE  ModeIInv'
<1>1. TypeOK /\ live \in Win /\ k \in Task
  BY DEF ModeIInv, TypeOK, Task
<1>2. PICK b \in bindings :
        /\ Execute(b, Context(live))
        /\ holding' = [holding EXCEPT ![k] =
             IF b.held THEN [nav |-> b.kind, to |-> b.to, win |-> Context(live)] ELSE @]
  BY DEF PressKey
<1>3. b \in Binding /\ Context(live) \in Win
  BY <1>1, ContextIs DEF TypeOK
<1>4. /\ stack' \in Stacks /\ Led(stack') /\ MenusArePinned'
      /\ hudUp' \in BOOLEAN /\ pinned' \in Win \cup {NoWin}
  BY <1>2, <1>3, ExecuteKeeps
<1>5. b.kind \in Kind /\ b.to \in Menu
  BY <1>3 DEF Binding
<1>6. holding' \in [Key -> [nav : Kind, to : Menu, win : Win] \cup {Unheld}]
  <2>1. holding \in [Key -> [nav : Kind, to : Menu, win : Win] \cup {Unheld}]
    BY <1>1 DEF TypeOK
  <2>2. [nav |-> b.kind, to |-> b.to, win |-> Context(live)] \in
          [nav : Kind, to : Menu, win : Win]
    BY <1>3, <1>5
  <2> QED
    BY <1>2, <2>1, <2>2
<1>7. due' \in [Task -> Win \cup {NoWin}]
  BY <1>1 DEF TypeOK, PressKey
<1>8. pressed' \in Nat /\ UNCHANGED <<bindings, shownFor, captured, live, clearing>>
      /\ UNCHANGED <<moved, ticked, giveUps>>
  BY <1>1 DEF PressKey, TypeOK
<1>9. TypeOK'
  BY <1>1, <1>4, <1>6, <1>7, <1>8 DEF TypeOK
<1> QED
  BY <1>4, <1>9 DEF ModeIInv

\* A tick of a held action.
LEMMA HeldTickHolds ==
  ASSUME ModeIInv, NEW k \in Key, TickHeld(k)
  PROVE  ModeIInv'
<1>1. TypeOK /\ holding[k] \in [nav : Kind, to : Menu, win : Win] \cup {Unheld}
  BY DEF ModeIInv, TypeOK
<1>2. holding[k] # Unheld
  BY DEF TickHeld, Unheld
<1>3. holding[k].to \in Menu /\ holding[k].win \in Win
  BY <1>1, <1>2
<1>4. /\ stack' \in Stacks /\ Led(stack') /\ MenusArePinned'
      /\ hudUp' \in BOOLEAN /\ pinned' \in Win \cup {NoWin}
  BY <1>3, NavigateKeeps DEF TickHeld
<1>5. ticked' \in Nat /\ UNCHANGED <<shownVars, live, taskVars, pressed, moved, giveUps>>
  BY <1>1 DEF TickHeld, TypeOK
<1>6. TypeOK'
  BY <1>1, <1>4, <1>5 DEF TypeOK
<1> QED
  BY <1>4, <1>6 DEF ModeIInv

\* What a commit sets.
LEMMA CommitIs ==
  ASSUME NEW asks \in BOOLEAN, Commit(asks), hudUp' \in BOOLEAN
  PROVE  captured' \in BOOLEAN /\ clearing' \in BOOLEAN
  BY DEF Commit

\* A rebind.
LEMMA ModeRebindHolds ==
  ASSUME ModeIInv, NEW t \in Task, RebindStack(t)
  PROVE  ModeIInv'
<1>1. TypeOK /\ stack \in Stacks /\ due[t] \in Win /\ MenusArePinned
  BY DEF ModeIInv, TypeOK, RebindStack
<1>2. shownFor' = Context(due[t]) /\ Context(due[t]) \in Win
  BY <1>1, ContextIs DEF RebindStack
<1>3. PICK asks \in BOOLEAN :
        Rendered(stack, shownFor', stack', bindings', asks) /\ Commit(asks)
  BY DEF RebindStack
<1>4. /\ stack' \in Stacks /\ Led(stack') /\ bindings' \subseteq Binding
      /\ Len(stack') <= Len(stack)
  BY <1>1, <1>2, <1>3, RenderedIs
<1>5. /\ UNCHANGED <<hudUp, pinned, live, holding, boundVars>>
      /\ due' = [due EXCEPT ![t] = NoWin]
  BY DEF RebindStack
<1>6. captured' \in BOOLEAN /\ clearing' \in BOOLEAN
  BY <1>1, <1>3, <1>5, CommitIs DEF TypeOK
<1>7. due' \in [Task -> Win \cup {NoWin}]
  BY <1>1, <1>5 DEF TypeOK
<1>8. TypeOK'
  BY <1>1, <1>2, <1>4, <1>5, <1>6, <1>7 DEF TypeOK
<1>9. Len(stack') > 1 => Len(stack) > 1
  <2>1. Len(stack') \in Nat /\ Len(stack) \in Nat
    BY <1>1, <1>4 DEF Stacks
  <2> QED
    BY <1>4, <2>1
<1>10. MenusArePinned'
  BY <1>1, <1>5, <1>9 DEF MenusArePinned
<1> QED
  BY <1>4, <1>8, <1>10 DEF ModeIInv

\* A configuration that is installed.
LEMMA InstallHolds ==
  ASSUME ModeIInv, NEW keep \in BOOLEAN, InstallConfig(keep)
  PROVE  ModeIInv'
<1> DEFINE w == IF keep THEN shownFor ELSE live
           f == RootFrame
<1>1. TypeOK /\ w \in Win
  BY DEF ModeIInv, TypeOK
<1>2. f \in FrameType /\ f.menu = Root
  BY ModeStackAssumption DEF RootFrame, Frame, FrameType
<1>3. Succeeds(<<f>>, 1, w) /\ stack' = Cut(<<f>>, 1, w)
  BY DEF InstallConfig
<1>4. /\ hudUp' = (keep /\ hudUp)
      /\ pinned' = IF hudUp' THEN w ELSE NoWin
      /\ shownFor' = w
      /\ bindings' = Flat(stack')
      /\ Commit(stack'[1].capture)
      /\ giveUps' = giveUps + 1
      /\ UNCHANGED <<live, due, holding, pressed, moved, ticked>>
  BY DEF InstallConfig
<1> HIDE DEF w, f
<1>5. <<f>> \in Seq(FrameType) /\ Len(<<f>>) = 1 /\ <<f>>[1] = f
  BY <1>2
<1>6. <<f>> \in Stacks
  BY <1>2, <1>5 DEF Stacks
<1>7. Reaches(<<f>>, 1, w)
  BY <1>3 DEF Succeeds
<1>8. stack' \in Stacks /\ Led(stack') /\ Len(stack') = 1
  <2>1. 1 \in 1..Len(<<f>>)
    BY <1>5
  <2> QED
    BY <1>1, <1>3, <1>6, <1>7, <2>1, CutIs
<1>9. bindings' \subseteq Binding
  BY <1>4, <1>8, FlatIs
<1>10. stack'[1].capture \in BOOLEAN
  <2>1. stack' \in Seq(FrameType)
    BY <1>8 DEF Stacks
  <2>2. stack'[1] \in FrameType
    BY <1>8, <2>1
  <2> QED
    BY <2>2 DEF FrameType
<1>11. hudUp' \in BOOLEAN
  BY <1>1, <1>4 DEF TypeOK
<1>12. captured' \in BOOLEAN /\ clearing' \in BOOLEAN
  BY <1>4, <1>10, <1>11, CommitIs
<1>13. pinned' \in Win \cup {NoWin}
  BY <1>1, <1>4
<1>14. giveUps' \in Nat
  BY <1>1, <1>4 DEF TypeOK
<1>15. TypeOK'
  BY <1>1, <1>4, <1>8, <1>9, <1>11, <1>12, <1>13, <1>14 DEF TypeOK
<1>16. ~(Len(stack') > 1)
  BY <1>8
<1> QED
  BY <1>8, <1>15, <1>16 DEF ModeIInv, MenusArePinned

\* The steps that leave the menus alone.
LEMMA OthersHold ==
  ASSUME ModeIInv,
         \/ \E k \in Key : ReleaseKey(k)
         \/ \E t \in Task : FocusMoves(t) \/ RebindRefused(t)
         \/ ClearHeld
         \/ UNCHANGED modeStackVars
  PROVE  ModeIInv'
<1>1. TypeOK
  BY DEF ModeIInv
<1>2. UNCHANGED <<stack, hudUp, pinned, bindings, shownFor, captured>>
  BY DEF ReleaseKey, FocusMoves, RebindRefused, ClearHeld, modeStackVars
<1>3. live' \in Win
  BY <1>1 DEF TypeOK, ReleaseKey, FocusMoves, RebindRefused, ClearHeld, modeStackVars
<1>4. due' \in [Task -> Win \cup {NoWin}]
  BY <1>1 DEF TypeOK, ReleaseKey, FocusMoves, RebindRefused, ClearHeld, modeStackVars
<1>5. holding' \in [Key -> [nav : Kind, to : Menu, win : Win] \cup {Unheld}]
  <2>1. holding \in [Key -> [nav : Kind, to : Menu, win : Win] \cup {Unheld}]
    BY <1>1 DEF TypeOK
  <2>2. \/ holding' = holding \/ holding' = [k \in Key |-> Unheld]
        \/ \E k \in Key : holding' = [holding EXCEPT ![k] = Unheld]
    BY DEF ReleaseKey, FocusMoves, RebindRefused, ClearHeld, modeStackVars
  <2> QED
    BY <2>1, <2>2
<1>6. clearing' \in BOOLEAN
  BY <1>1 DEF TypeOK, ReleaseKey, FocusMoves, RebindRefused, ClearHeld, modeStackVars
<1>7. pressed' \in Nat /\ moved' \in Nat /\ ticked' \in Nat /\ giveUps' \in Nat
  BY <1>1 DEF TypeOK, ReleaseKey, FocusMoves, RebindRefused, ClearHeld, modeStackVars
<1>8. TypeOK'
  BY <1>1, <1>2, <1>3, <1>4, <1>5, <1>6, <1>7 DEF TypeOK
<1> QED
  BY <1>2, <1>8 DEF ModeIInv, MenusArePinned

\* The invariant holds of every behaviour: no handler, tick, rebind or reload breaks it.
THEOREM ModeInvariant == ModeStackSpec => []ModeIInv
<1>1. InitStack => ModeIInv
  BY ModeBegins
<1>2. ModeIInv /\ [ModeStackNext]_modeStackVars => ModeIInv'
  BY ModePressHolds, HeldTickHolds, ModeRebindHolds, InstallHolds, OthersHold DEF ModeStackNext
<1> QED
  BY <1>1, <1>2, PTL DEF ModeStackSpec

----------------------------------------------------------------------------
(* The theorems. *)

\* Every variable keeps its type, and the root is never left: no sequence of keys,
\* ticks, failures and reloads makes the stack empty (ModeStack::pop, reset_to_root).
THEOREM ModeTyped == ModeStackSpec => []TypeOK
<1>1. ModeIInv => TypeOK
  BY DEF ModeIInv
<1> QED
  BY <1>1, ModeInvariant, PTL

\* A menu that is shown is one the menu below offers or a handler pushed
\* (render_stack_inner's truncation, RenderRecovery).
THEOREM MenusReachable == ModeStackSpec => []ModesReachable
<1>1. ModeIInv => ModesReachable
  BY DEF ModeIInv, Led, ModesReachable
<1> QED
  BY <1>1, ModeInvariant, PTL

\* A child mode always has its session (RuntimeState::start_session, end_session).
THEOREM ChildrenPinned == ModeStackSpec => []MenusArePinned
<1>1. ModeIInv => MenusArePinned
  BY DEF ModeIInv
<1> QED
  BY <1>1, ModeInvariant, PTL

\* The chord of a global binding of the root is bound, for the root or for the
\* highest menu that takes it.
LEMMA RootBound ==
  ASSUME NEW s \in Stacks, NEW b \in s[1].rendered, b.global
  PROVE  b.chord \in Chords(Flat(s))
<1> DEFINE S == {e \in 1..Len(s) : \E o \in Reaching(s, e) : o.chord = b.chord}
           T == {Len(s) - e : e \in S}
<1>1. Len(s) \in Nat \ {0}
  BY DEF Stacks
<1>2. 1 \in S
  BY <1>1 DEF Reaching
<1>3. T \subseteq Nat /\ T # {}
  BY <1>1, <1>2
<1>4. PICK x \in T : \A y \in T : ~(<<y, x>> \in OpToRel(<, Nat))
  BY <1>3, NatLessThanWellFounded, WFMin
<1>5. \A y \in T : ~(y < x)
  BY <1>3, <1>4 DEF OpToRel
<1>6. PICK e \in S : x = Len(s) - e
  OBVIOUS
<1>7. \A d \in (e + 1)..Len(s) : d \notin S
  <2> SUFFICES ASSUME NEW d \in (e + 1)..Len(s), d \in S
               PROVE  FALSE
    OBVIOUS
  <2>1. Len(s) - d \in T
    OBVIOUS
  <2>2. d \in Int /\ e \in Int /\ d > e
    BY <1>1
  <2>3. Len(s) - d < Len(s) - e
    BY <1>1, <2>2
  <2>4. ~(Len(s) - d < x)
    BY <1>5, <2>1
  <2> QED
    BY <1>6, <2>3, <2>4
<1>8. PICK o \in Reaching(s, e) : o.chord = b.chord
  OBVIOUS
<1>9. e \in 1..Len(s)
  OBVIOUS
<1>10. \A d \in (e + 1)..Len(s) : \A q \in Reaching(s, d) : q.chord # o.chord
  <2>1. \A d \in (e + 1)..Len(s) : d \in 1..Len(s)
    BY <1>1, <1>9
  <2> QED
    BY <1>7, <1>8, <2>1
<1> HIDE DEF S, T
<1>11. o \in Flat(s)
  BY <1>8, <1>9, <1>10 DEF Flat
<1> QED
  BY <1>8, <1>11 DEF Chords

\* After a rebind the root's global keys are bound, whatever became of the menus above
\* it, unless the root itself failed (RenderRecovery::render, flatten_bindings).
THEOREM GlobalKeysServed == ModeStackSpec => RootKeysServe
<1> DEFINE A == \A t \in Task : RebindStack(t) =>
                  \/ View[Root][shownFor'] = Failing
                  \/ \A b \in Listed[Root][shownFor'] :
                       b.global => b.chord \in Chords(bindings')
<1>1. ASSUME ModeIInv PROVE A
  <2> SUFFICES ASSUME NEW t \in Task, RebindStack(t), View[Root][shownFor'] # Failing,
                      NEW b \in Listed[Root][shownFor'], b.global
               PROVE  b.chord \in Chords(bindings')
    OBVIOUS
  <2> DEFINE w == shownFor'
             new == stack'
  <2>1. TypeOK /\ stack \in Stacks /\ due[t] \in Win
    BY <1>1 DEF ModeIInv, TypeOK, RebindStack
  <2>2. w \in Win
    BY <2>1, ContextIs DEF RebindStack
  <2>3. PICK asks \in BOOLEAN : Rendered(stack, w, new, bindings', asks)
    BY DEF RebindStack
  <2>4. \A s \in Stacks : \A m \in 0..Len(s) :
          Succeeds(s, m, w) => /\ Cut(s, m, w) \in Stacks
                               /\ Cut(s, m, w)[1].rendered = Listed[Root][w]
    <3> SUFFICES ASSUME NEW s \in Stacks, NEW m \in 0..Len(s), Succeeds(s, m, w)
                 PROVE  /\ Cut(s, m, w) \in Stacks
                        /\ Cut(s, m, w)[1].rendered = Listed[Root][w]
      OBVIOUS
    <3>1. m \in 1..Len(s) /\ Reaches(s, m, w)
      BY <2>2, RootIsReached
    <3>2. s[1].menu = Root /\ 1 \in 1..m
      BY <3>1 DEF Stacks
    <3> QED
      BY <2>2, <3>1, <3>2, CutIs
  <2>5. CASE \E n \in 0..Len(stack) :
               Succeeds(stack, n, w) /\ new = Cut(stack, n, w) /\ bindings' = Flat(new)
    BY <2>1, <2>4, <2>5, RootBound
  <2>6. CASE \E n \in 0..Len(stack) :
               /\ Fails(stack, n, w)
               /\ \E m \in 0..Len(Reset(stack, n, w)) :
                    /\ Succeeds(Reset(stack, n, w), m, w)
                    /\ new = Cut(Reset(stack, n, w), m, w) /\ bindings' = Flat(new)
    <3>1. PICK n \in 0..Len(stack) :
               /\ Fails(stack, n, w)
               /\ \E m \in 0..Len(Reset(stack, n, w)) :
                    /\ Succeeds(Reset(stack, n, w), m, w)
                    /\ new = Cut(Reset(stack, n, w), m, w) /\ bindings' = Flat(new)
      BY <2>6
    <3>2. Reset(stack, n, w) \in Stacks
      BY <2>1, <2>2, <3>1, ResetIs
    <3> QED
      BY <2>4, <3>1, <3>2, RootBound
  <2>7. CASE \E n \in 0..Len(stack) :
               /\ Fails(stack, n, w)
               /\ \E m \in 0..Len(Reset(stack, n, w)) : Fails(Reset(stack, n, w), m, w)
    <3>1. PICK n \in 0..Len(stack) :
               /\ Fails(stack, n, w)
               /\ \E m \in 0..Len(Reset(stack, n, w)) : Fails(Reset(stack, n, w), m, w)
      BY <2>7
    <3> DEFINE root == Reset(stack, n, w)
    <3>2. root \in Stacks /\ Len(root) = 1
      BY <2>1, <2>2, <3>1, ResetIs
    <3>3. PICK m \in 0..Len(root) : Fails(root, m, w)
      BY <3>1
    <3> HIDE DEF root
    <3>4. m = 0
      BY <3>2, <3>3 DEF Fails
    <3>5. View[root[1].menu][w] = Failing
      BY <3>3, <3>4 DEF Fails, Breaks
    <3> QED
      BY <3>2, <3>5 DEF Stacks
  <2> QED
    BY <2>3, <2>5, <2>6, <2>7 DEF Rendered
<1>2. ModeIInv /\ [ModeStackNext]_modeStackVars => [A]_modeStackVars
  BY <1>1
<1> QED
  BY <1>2, ModeInvariant, PTL DEF ModeStackSpec, RootKeysServe

HIDE DEF navVars, shownVars, taskVars, boundVars

----------------------------------------------------------------------------
(***************************************************************************)
(* Proofs about Repeats, for any identifiers, any number of callers, and   *)
(* any number of starts and stops.                                         *)
(*                                                                         *)
(* That a run of a repeating gesture is never out of reach is not          *)
(* inductive: a ticker that outlives its cancellation may start the run    *)
(* after the state left the map. What is: a state that repeats, running or *)
(* not, is in the map, or cancelled, or with a stop that is to cancel it.  *)
(***************************************************************************)

\* A state that is yet to be made belongs to nothing.
UnmadeIsFree ==
  /\ \A s \in State : s > made => ~repeats[s] /\ run[s] = "none" /\ ticker[s] = "off"
  /\ \A i \in Gesture : entry[i] <= made

\* A ticker that will tick is in the map of tickers.
TickersFound == \A s \in State : ticker[s] = "on" => entry[gesture[s]] = s

\* Only a call that waits for a run has states left to stop.
RestWaits == \A c \in Caller : call[c].pc # "run" => call[c].rest = {}

\* Every repeating state can be stopped, or is.
RepeatsHeld ==
  \A s \in State : repeats[s] =>
    \/ cancelled[s]
    \/ tracked[gesture[s]] = s
    \/ \E c \in Caller : s \in call[c].rest

RepeatIInv ==
  /\ RepeatsTypeOK
  /\ UnmadeIsFree
  /\ TickersFound
  /\ RestWaits
  /\ RepeatsHeld

USE DEF NoState, stateVars, runVars

LEMMA StatesAreNumbers ==
  /\ State \subseteq Nat /\ NoState \notin State
  /\ made \in 0..MaxRuns => made \in Nat
  /\ made \in 0..MaxRuns /\ made < MaxRuns => made + 1 \in State /\ made + 1 \in 0..MaxRuns
  /\ stops \in 0..MaxStops /\ stops < MaxStops => stops + 1 \in 0..MaxStops
  /\ 0 \in 0..MaxRuns /\ 0 \in 0..MaxStops
  BY RepeatsAssumption DEF State

\* Entries of the map of tickers, and the rests of calls, are states that were made.
LEMMA EntriesAreMade ==
  ASSUME RepeatIInv
  PROVE  /\ made \in Nat
         /\ \A i \in Gesture : entry[i] \in Nat /\ entry[i] <= made
         /\ \A c \in Caller : call[c].rest \subseteq State /\ NoState \notin call[c].rest
<1>1. made \in 0..MaxRuns /\ entry \in [Gesture -> State \cup {NoState}]
  BY DEF RepeatIInv, RepeatsTypeOK
<1>2. \A c \in Caller : call[c].rest \in SUBSET State
  BY DEF RepeatIInv, RepeatsTypeOK
<1>3. \A i \in Gesture : entry[i] <= made
  BY DEF RepeatIInv, UnmadeIsFree
<1>4. made \in Nat /\ State \subseteq Nat /\ NoState \notin State
  BY <1>1, StatesAreNumbers
<1>5. \A i \in Gesture : entry[i] \in State \/ entry[i] = 0
  BY <1>1
<1>6. \A i \in Gesture : entry[i] \in Nat
  <2>1. 0 \in Nat
    OBVIOUS
  <2> QED
    BY <1>4, <1>5, <2>1, Zenon
<1> QED
  BY <1>2, <1>3, <1>4, <1>6

\* The invariant says of the runs what the property does.
LEMMA HeldIsEnough == RepeatIInv => NoOrphanedRepeat
  BY DEF RepeatIInv, TickersFound, RepeatsHeld, NoOrphanedRepeat

----------------------------------------------------------------------------
(* The steps. *)

LEMMA RepeatBegins == ASSUME Gesture # {} PROVE RepeatsInit => RepeatIInv
<1> SUFFICES ASSUME RepeatsInit PROVE RepeatIInv
  OBVIOUS
<1>1. RepeatsTypeOK
  <2>1. (CHOOSE i \in Gesture : TRUE) \in Gesture
    OBVIOUS
  <2>2. gesture \in [State -> Gesture]
    BY <2>1 DEF RepeatsInit
  <2>3. NoCall \in [pc : {"idle", "ticker", "tickers", "run"},
                    awaits : SUBSET State, idents : SUBSET Gesture, rest : SUBSET State]
    BY DEF NoCall
  <2>4. call \in [Caller -> [pc : {"idle", "ticker", "tickers", "run"},
                             awaits : SUBSET State, idents : SUBSET Gesture,
                             rest : SUBSET State]]
    BY <2>3 DEF RepeatsInit
  <2> QED
    BY <2>2, <2>4, StatesAreNumbers DEF RepeatsInit, RepeatsTypeOK
<1>2. UnmadeIsFree /\ TickersFound /\ RestWaits /\ RepeatsHeld
  BY StatesAreNumbers DEF RepeatsInit, UnmadeIsFree, TickersFound, RestWaits, RepeatsHeld, NoCall
<1> QED
  BY <1>1, <1>2 DEF RepeatIInv

\* The new state of a gesture is in the map; the one it replaces is cancelled.
LEMMA StartHolds ==
  ASSUME RepeatIInv, NEW i \in Gesture, NEW repeat \in BOOLEAN, Start(i, repeat)
  PROVE  RepeatIInv'
<1> DEFINE n == made + 1
<1>1. n \in State /\ n \in 0..MaxRuns /\ n > made /\ made \in Nat
  BY StatesAreNumbers DEF RepeatIInv, RepeatsTypeOK, Start
<1>2. /\ made' = n
      /\ gesture' = [gesture EXCEPT ![n] = i]
      /\ repeats' = [repeats EXCEPT ![n] = repeat]
      /\ cancelled' = [s \in State |-> IF s = tracked[i] THEN TRUE ELSE cancelled[s]]
      /\ child' = [s \in State |-> IF s = tracked[i] THEN FALSE ELSE child[s]]
      /\ tracked' = [tracked EXCEPT ![i] = n]
      /\ running' = [running EXCEPT ![n] = TRUE]
      /\ run' = [run EXCEPT ![n] = "spawned"]
      /\ initial' = [initial EXCEPT ![n] = TRUE]
      /\ entry' = [entry EXCEPT ![i] = IF repeat THEN n ELSE NoState]
      /\ ticker' = [t \in State |-> IF t = entry[i] THEN "off"
                                    ELSE IF t = n /\ repeat THEN "on"
                                    ELSE ticker[t]]
      /\ UNCHANGED <<call, engineGone, stops>>
  BY DEF Start, AbortStates, With, RepeatIInv, RepeatsTypeOK
<1> HIDE DEF n
<1>3. RepeatsTypeOK'
  BY <1>1, <1>2 DEF RepeatIInv, RepeatsTypeOK
<1>4. UnmadeIsFree'
  <2>1. n = made + 1
    BY DEF n
  <2>2. \A s \in State : s > made' => s > made /\ s # n
    BY <1>1, <1>2, <2>1, StatesAreNumbers
  <2>3. \A s \in State : s > made' => ~repeats'[s] /\ run'[s] = "none" /\ ticker'[s] = "off"
    BY <1>2, <2>2 DEF RepeatIInv, RepeatsTypeOK, UnmadeIsFree
  <2>4. ASSUME NEW j \in Gesture PROVE entry'[j] <= made'
    <3>1. entry[j] <= made /\ entry[j] \in Nat
      BY EntriesAreMade
    <3>2. entry'[j] \in {entry[j], n, NoState}
      BY <1>2 DEF RepeatIInv, RepeatsTypeOK
    <3> QED
      BY <1>1, <1>2, <2>1, <3>1, <3>2
  <2> QED
    BY <2>3, <2>4 DEF UnmadeIsFree
<1>5. TickersFound'
  BY <1>1, <1>2, StatesAreNumbers DEF RepeatIInv, RepeatsTypeOK, UnmadeIsFree, TickersFound
<1>6. RestWaits'
  BY <1>2 DEF RepeatIInv, RestWaits
<1>7. RepeatsHeld'
  BY <1>1, <1>2, StatesAreNumbers DEF RepeatIInv, RepeatsTypeOK, RepeatsHeld
<1> QED
  BY <1>3, <1>4, <1>5, <1>6, <1>7 DEF RepeatIInv

\* A tick, or the end of a ticker, starts at most a run.
LEMMA TickHolds ==
  ASSUME RepeatIInv, NEW s \in State, Tick(s) \/ EndTicker(s)
  PROVE  RepeatIInv'
<1>1. PICK v \in {"on", "off"} : /\ ticker' = [ticker EXCEPT ![s] = v]
                                 /\ v = "on" => ticker[s] = "on"
  BY DEF Tick, EndTicker, RepeatIInv, RepeatsTypeOK
<1>2. /\ ticker[s] # "off"
      /\ \/ UNCHANGED <<running, run, initial>>
         \/ /\ running' = [running EXCEPT ![s] = TRUE]
            /\ run' = [run EXCEPT ![s] = "spawned"]
            /\ initial' = [initial EXCEPT ![s] = FALSE]
      /\ UNCHANGED <<stateVars, cancelled, child, tracked, entry, call, engineGone, stops>>
  BY DEF Tick, EndTicker
<1>3. ~(s > made)
  BY <1>2 DEF RepeatIInv, UnmadeIsFree
<1>4. RepeatsTypeOK'
  <2>1. ticker' \in [State -> {"off", "on", "cancelled"}]
    BY <1>1 DEF RepeatIInv, RepeatsTypeOK
  <2>2. running' \in [State -> BOOLEAN]
    BY <1>2 DEF RepeatIInv, RepeatsTypeOK
  <2>3. initial' \in [State -> BOOLEAN]
    BY <1>2 DEF RepeatIInv, RepeatsTypeOK
  <2>4. run' \in [State -> {"none", "spawned", "waiting", "collecting"}]
    BY <1>2 DEF RepeatIInv, RepeatsTypeOK
  <2> QED
    BY <1>2, <2>1, <2>2, <2>3, <2>4 DEF RepeatIInv, RepeatsTypeOK
<1>5. UnmadeIsFree'
  BY <1>1, <1>2, <1>3 DEF RepeatIInv, RepeatsTypeOK, UnmadeIsFree
<1>6. TickersFound'
  BY <1>1, <1>2 DEF RepeatIInv, RepeatsTypeOK, TickersFound
<1>7. RestWaits' /\ RepeatsHeld'
  BY <1>2 DEF RepeatIInv, RestWaits, RepeatsHeld
<1> QED
  BY <1>4, <1>5, <1>6, <1>7 DEF RepeatIInv

\* A run that goes on, and a child that exits, touch only themselves.
LEMMA RunGoesOn ==
  ASSUME RepeatIInv, NEW s \in State, Launch(s) \/ Reap(s) \/ ChildExits(s)
  PROVE  RepeatIInv'
<1>1. UNCHANGED <<stateVars, running, initial, cancelled, tracked, entry, ticker,
                   call, engineGone, stops>>
  BY DEF Launch, Reap, ChildExits
<1>2. /\ run \in [State -> {"none", "spawned", "waiting", "collecting"}]
      /\ child \in [State -> BOOLEAN]
  BY DEF RepeatIInv, RepeatsTypeOK
<1>3. /\ run' \in [State -> {"none", "spawned", "waiting", "collecting"}]
      /\ \A t \in State : run[t] = "none" => run'[t] = "none"
  BY <1>2 DEF Launch, Reap, ChildExits
<1>4. child' \in [State -> BOOLEAN]
  BY <1>2 DEF Launch, Reap, ChildExits
<1>5. RepeatsTypeOK'
  BY <1>1, <1>3, <1>4 DEF RepeatIInv, RepeatsTypeOK
<1>6. UnmadeIsFree'
  BY <1>1, <1>3 DEF RepeatIInv, UnmadeIsFree
<1>7. TickersFound' /\ RestWaits' /\ RepeatsHeld'
  BY <1>1 DEF RepeatIInv, TickersFound, RestWaits, RepeatsHeld
<1> QED
  BY <1>5, <1>6, <1>7 DEF RepeatIInv

\* The end of a run removes a one-shot from the map, never a state that repeats.
LEMMA RunEnds ==
  ASSUME RepeatIInv, NEW s \in State, LaunchFails(s) \/ Collect(s)
  PROVE  RepeatIInv'
<1>1. /\ run' = [run EXCEPT ![s] = "none"]
      /\ running' = [running EXCEPT ![s] = FALSE]
      /\ \/ tracked' = tracked
         \/ /\ ~repeats[s] /\ tracked[gesture[s]] = s
            /\ tracked' = [tracked EXCEPT ![gesture[s]] = NoState]
      /\ call' = [c \in Caller |-> IF call[c].pc = "run"
                                   THEN [call[c] EXCEPT !.awaits = @ \ {s}]
                                   ELSE call[c]]
      /\ UNCHANGED <<stateVars, initial, child, cancelled, entry, ticker, engineGone, stops>>
  BY DEF LaunchFails, Collect, EndRun
<1>2. \A c \in Caller : /\ call'[c].pc = call[c].pc
                        /\ call'[c].rest = call[c].rest
                        /\ call'[c].idents = call[c].idents
                        /\ call'[c].awaits \subseteq call[c].awaits
  BY <1>1 DEF RepeatIInv, RepeatsTypeOK
<1>3. RepeatsTypeOK'
  <2>1. call' \in [Caller -> [pc : {"idle", "ticker", "tickers", "run"},
                              awaits : SUBSET State, idents : SUBSET Gesture,
                              rest : SUBSET State]]
    <3>1. ASSUME NEW c \in Caller
          PROVE  call'[c] \in [pc : {"idle", "ticker", "tickers", "run"},
                               awaits : SUBSET State, idents : SUBSET Gesture,
                               rest : SUBSET State]
      <4>1. call[c] \in [pc : {"idle", "ticker", "tickers", "run"},
                         awaits : SUBSET State, idents : SUBSET Gesture,
                         rest : SUBSET State]
        BY DEF RepeatIInv, RepeatsTypeOK
      <4>2. call'[c] = call[c] \/ call'[c] = [call[c] EXCEPT !.awaits = @ \ {s}]
        BY <1>1
      <4> QED
        BY <4>1, <4>2
    <3> QED
      BY <1>1, <3>1
  <2> QED
    BY <1>1, <2>1 DEF RepeatIInv, RepeatsTypeOK
<1>4. UnmadeIsFree'
  BY <1>1, StatesAreNumbers DEF RepeatIInv, RepeatsTypeOK, UnmadeIsFree
<1>5. TickersFound' /\ RestWaits'
  BY <1>1, <1>2 DEF RepeatIInv, TickersFound, RestWaits
<1>6. RepeatsHeld'
  BY <1>1, <1>2 DEF RepeatIInv, RepeatsTypeOK, RepeatsHeld
<1> QED
  BY <1>3, <1>4, <1>5, <1>6 DEF RepeatIInv

----------------------------------------------------------------------------
(* Stopping. *)

\* Of the states S, the ones that repeat are cancelled or wait for it; nothing that was
\* cancelled is so no longer, and only states that repeat are cancelled.
LEMMA AwaitingRuns ==
  ASSUME RepeatIInv, NEW c \in Caller, NEW S \in SUBSET (State \cup {NoState}), NoState \notin S,
         AwaitRuns(c, S)
  PROVE  /\ cancelled' \in [State -> BOOLEAN]
         /\ \E r \in [pc : {"idle", "run"}, awaits : SUBSET State,
                      idents : SUBSET Gesture, rest : SUBSET State] :
              /\ call' = [call EXCEPT ![c] = r]
              /\ r.pc # "run" => r.rest = {}
              /\ \A s \in S : repeats[s] => cancelled'[s] \/ s \in r.rest
         /\ \A s \in State : cancelled[s] => cancelled'[s]
         /\ \A s \in State : cancelled'[s] => cancelled[s] \/ repeats[s]
<1> DEFINE held == {s \in S : repeats[s]}
<1>0. held \subseteq State /\ cancelled \in [State -> BOOLEAN]
  BY DEF RepeatIInv, RepeatsTypeOK
<1>1. CASE held = {}
  <2>1. call' = [call EXCEPT ![c] = NoCall] /\ cancelled' = cancelled
    BY <1>1 DEF AwaitRuns
  <2>2. NoCall \in [pc : {"idle", "run"}, awaits : SUBSET State,
                    idents : SUBSET Gesture, rest : SUBSET State]
    BY DEF NoCall
  <2>3. NoCall.pc # "run"
    BY DEF NoCall
  <2>4. \A s \in S : ~repeats[s]
    BY <1>1
  <2> HIDE DEF held
  <2>5. \E r \in [pc : {"idle", "run"}, awaits : SUBSET State,
                  idents : SUBSET Gesture, rest : SUBSET State] :
          /\ call' = [call EXCEPT ![c] = r]
          /\ r.pc # "run" => r.rest = {}
          /\ \A s \in S : repeats[s] => cancelled'[s] \/ s \in r.rest
    <3>1. NoCall.rest = {}
      BY DEF NoCall
    <3> QED
      BY <2>1, <2>2, <2>3, <2>4, <3>1
  <2> QED
    BY <1>0, <2>1, <2>5
<1>2. CASE held # {}
  <2>1. PICK s \in held :
          /\ cancelled' = [cancelled EXCEPT ![s] = TRUE]
          /\ call' = [call EXCEPT ![c] =
               [pc |-> "run", awaits |-> {s} \cap Going, idents |-> {}, rest |-> held \ {s}]]
    BY <1>2 DEF AwaitRuns
  <2> DEFINE r == [pc |-> "run", awaits |-> {s} \cap Going, idents |-> {}, rest |-> held \ {s}]
  <2>2. r \in [pc : {"idle", "run"}, awaits : SUBSET State,
               idents : SUBSET Gesture, rest : SUBSET State]
    BY <1>0
  <2>3. call' = [call EXCEPT ![c] = r] /\ r.pc = "run" /\ r.rest = held \ {s}
    BY <2>1
  <2> HIDE DEF r
  <2>4. \A t \in S : repeats[t] => cancelled'[t] \/ t \in r.rest
    BY <1>0, <2>1, <2>3
  <2> QED
    BY <1>0, <2>1, <2>2, <2>3, <2>4
<1> QED
  BY <1>1, <1>2

\* The states that leave the map are cancelled or wait for it.
LEMMA Untracking ==
  ASSUME RepeatIInv, NEW c \in Caller, NEW I \in SUBSET Gesture, NEW all \in BOOLEAN,
         call[c].rest = {}, Untrack(c, I, all)
  PROVE  /\ tracked' \in [Gesture -> State \cup {NoState}]
         /\ cancelled' \in [State -> BOOLEAN]
         /\ call' \in [Caller -> [pc : {"idle", "ticker", "tickers", "run"},
                                  awaits : SUBSET State, idents : SUBSET Gesture,
                                  rest : SUBSET State]]
         /\ RestWaits'
         /\ \A s \in State : cancelled'[s] => cancelled[s] \/ repeats[s]
         /\ gesture' = gesture /\ repeats' = repeats => RepeatsHeld'
<1> DEFINE gone == {i \in I : tracked[i] # NoState /\ (all \/ repeats[tracked[i]])}
           S == {tracked[i] : i \in gone}
<1>1. /\ S \in SUBSET (State \cup {NoState}) /\ NoState \notin S
      /\ tracked' = [i \in Gesture |-> IF i \in gone THEN NoState ELSE tracked[i]]
      /\ AwaitRuns(c, S)
  BY DEF Untrack, With, RepeatIInv, RepeatsTypeOK
<1>2. \A i \in Gesture : i \in gone => tracked[i] \in S
  OBVIOUS
<1> HIDE DEF gone, S
<1>3. /\ cancelled' \in [State -> BOOLEAN]
      /\ \A s \in State : cancelled[s] => cancelled'[s]
      /\ \A s \in State : cancelled'[s] => cancelled[s] \/ repeats[s]
  BY <1>1, AwaitingRuns
<1>4. PICK r \in [pc : {"idle", "run"}, awaits : SUBSET State,
                  idents : SUBSET Gesture, rest : SUBSET State] :
        /\ call' = [call EXCEPT ![c] = r]
        /\ r.pc # "run" => r.rest = {}
        /\ \A s \in S : repeats[s] => cancelled'[s] \/ s \in r.rest
  BY <1>1, AwaitingRuns
<1>5. call' \in [Caller -> [pc : {"idle", "ticker", "tickers", "run"},
                            awaits : SUBSET State, idents : SUBSET Gesture,
                            rest : SUBSET State]]
  BY <1>4 DEF RepeatIInv, RepeatsTypeOK
<1>6. \A d \in Caller : call'[d] = IF d = c THEN r ELSE call[d]
  BY <1>4 DEF RepeatIInv, RepeatsTypeOK
<1>7. RestWaits'
  BY <1>4, <1>6 DEF RepeatIInv, RestWaits
<1>8. ASSUME gesture' = gesture, repeats' = repeats PROVE RepeatsHeld'
  <2> SUFFICES ASSUME NEW s \in State, repeats[s]
               PROVE  \/ cancelled'[s]
                      \/ tracked'[gesture[s]] = s
                      \/ \E d \in Caller : s \in call'[d].rest
    BY <1>8 DEF RepeatsHeld
  <2>1. CASE cancelled[s]
    BY <1>3, <2>1
  <2>2. CASE tracked[gesture[s]] = s
    <3>1. gesture[s] \in Gesture
      BY DEF RepeatIInv, RepeatsTypeOK
    <3>2. CASE gesture[s] \in gone
      BY <1>2, <1>4, <1>6, <2>2, <3>1, <3>2
    <3>3. CASE gesture[s] \notin gone
      BY <1>1, <2>2, <3>1, <3>3
    <3> QED
      BY <3>2, <3>3
  <2>3. CASE \E d \in Caller : s \in call[d].rest
    BY <1>6, <2>3
  <2> QED
    BY <2>1, <2>2, <2>3 DEF RepeatIInv, RepeatsHeld
<1>9. tracked' \in [Gesture -> State \cup {NoState}]
  BY <1>1 DEF RepeatIInv, RepeatsTypeOK
<1> QED
  BY <1>3, <1>5, <1>7, <1>8, <1>9, Zenon

\* A stop begins by cancelling the tickers of its identifiers.
LEMMA StopHolds ==
  ASSUME RepeatIInv, NEW c \in Caller, NEW I \in SUBSET Gesture, NEW all \in BOOLEAN,
         StopAll(c, I, all)
  PROVE  RepeatIInv'
<1> DEFINE tickers == {entry[i] : i \in I} \ {NoState}
<1>1. /\ tickers \in SUBSET State
      /\ \A i \in I : entry[i] # NoState => entry[i] \in tickers
      /\ \A s \in tickers : s <= made
  BY DEF RepeatIInv, RepeatsTypeOK, UnmadeIsFree
<1>2. /\ entry' = [i \in Gesture |-> IF i \in I THEN NoState ELSE entry[i]]
      /\ ticker' = [s \in State |-> IF s \in tickers THEN "cancelled" ELSE ticker[s]]
      /\ stops' = stops + 1 /\ stops < MaxStops
      /\ call[c].pc = "idle"
      /\ UNCHANGED <<stateVars, runVars, engineGone>>
  BY DEF StopAll, With, RepeatIInv, RepeatsTypeOK
<1>3. call[c].rest = {}
  BY <1>2 DEF RepeatIInv, RestWaits
<1>4. /\ tracked' \in [Gesture -> State \cup {NoState}]
      /\ cancelled' \in [State -> BOOLEAN]
      /\ call' \in [Caller -> [pc : {"idle", "ticker", "tickers", "run"},
                               awaits : SUBSET State, idents : SUBSET Gesture,
                               rest : SUBSET State]]
      /\ RestWaits'
      /\ RepeatsHeld'
  <2>1. CASE tickers = {}
    <3>1. Untrack(c, I, all)
      BY <2>1 DEF StopAll
    <3> QED
      BY <1>2, <1>3, <3>1, Untracking
  <2>2. CASE tickers # {}
    <3> DEFINE r == [pc |-> IF all THEN "ticker" ELSE "tickers", awaits |-> tickers,
                     idents |-> I, rest |-> {}]
    <3>1. call' = [call EXCEPT ![c] = r] /\ UNCHANGED <<tracked, cancelled>>
      BY <2>2 DEF StopAll
    <3>2. /\ r \in [pc : {"idle", "ticker", "tickers", "run"}, awaits : SUBSET State,
                    idents : SUBSET Gesture, rest : SUBSET State]
          /\ r.rest = {}
      BY <1>1
    <3> HIDE DEF r
    <3>3. \A d \in Caller : call'[d] = IF d = c THEN r ELSE call[d]
      BY <3>1 DEF RepeatIInv, RepeatsTypeOK
    <3>4. RestWaits' /\ RepeatsHeld'
      BY <1>2, <1>3, <3>1, <3>2, <3>3 DEF RepeatIInv, RestWaits, RepeatsHeld
    <3> QED
      BY <3>1, <3>2, <3>4 DEF RepeatIInv, RepeatsTypeOK
  <2> QED
    BY <2>1, <2>2
<1> HIDE DEF tickers
<1>5. RepeatsTypeOK'
  BY <1>2, <1>4, StatesAreNumbers DEF RepeatIInv, RepeatsTypeOK
<1>6. UnmadeIsFree'
  <2>1. \A s \in State : s > made => s \notin tickers
    <3>1. \A s \in State : s \in Nat
      BY StatesAreNumbers
    <3> QED
      BY <1>1, <3>1, EntriesAreMade
  <2>2. 0 <= made
    BY EntriesAreMade
  <2> QED
    BY <1>2, <2>1, <2>2 DEF RepeatIInv, UnmadeIsFree
<1>7. TickersFound'
  BY <1>1, <1>2 DEF RepeatIInv, RepeatsTypeOK, TickersFound
<1> QED
  BY <1>4, <1>5, <1>6, <1>7 DEF RepeatIInv

\* A stop whose tickers have ended takes the states from the map.
LEMMA TickersEndedHolds ==
  ASSUME RepeatIInv, NEW c \in Caller, TickersEnded(c)
  PROVE  RepeatIInv'
<1>1. /\ call[c].rest = {} /\ call[c].idents \in SUBSET Gesture
      /\ (call[c].pc = "ticker") \in BOOLEAN
      /\ Untrack(c, call[c].idents, call[c].pc = "ticker")
      /\ UNCHANGED <<stateVars, runVars, entry, ticker, engineGone, stops>>
  BY DEF TickersEnded, RepeatIInv, RepeatsTypeOK, RestWaits
<1>2. /\ tracked' \in [Gesture -> State \cup {NoState}]
      /\ cancelled' \in [State -> BOOLEAN]
      /\ call' \in [Caller -> [pc : {"idle", "ticker", "tickers", "run"},
                               awaits : SUBSET State, idents : SUBSET Gesture,
                               rest : SUBSET State]]
      /\ RestWaits'
      /\ RepeatsHeld'
  BY <1>1, Untracking
<1>3. RepeatsTypeOK' /\ UnmadeIsFree' /\ TickersFound'
  BY <1>1, <1>2, StatesAreNumbers DEF RepeatIInv, RepeatsTypeOK, UnmadeIsFree, TickersFound
<1> QED
  BY <1>2, <1>3 DEF RepeatIInv

\* A stop whose run has ended goes on with the rest.
LEMMA RunEndedHolds ==
  ASSUME RepeatIInv, NEW c \in Caller, RunEnded(c)
  PROVE  RepeatIInv'
<1>1. /\ call[c].rest \in SUBSET (State \cup {NoState}) /\ NoState \notin call[c].rest
      /\ AwaitRuns(c, call[c].rest)
      /\ UNCHANGED <<stateVars, runVars, tracked, entry, ticker, engineGone, stops>>
  BY EntriesAreMade DEF RunEnded
<1>2. /\ cancelled' \in [State -> BOOLEAN]
      /\ \A s \in State : cancelled[s] => cancelled'[s]
  BY <1>1, AwaitingRuns
<1>3. PICK r \in [pc : {"idle", "run"}, awaits : SUBSET State,
                  idents : SUBSET Gesture, rest : SUBSET State] :
        /\ call' = [call EXCEPT ![c] = r]
        /\ r.pc # "run" => r.rest = {}
        /\ \A s \in call[c].rest : repeats[s] => cancelled'[s] \/ s \in r.rest
  BY <1>1, AwaitingRuns
<1>4. \A d \in Caller : call'[d] = IF d = c THEN r ELSE call[d]
  BY <1>3 DEF RepeatIInv, RepeatsTypeOK
<1>5. RepeatsTypeOK'
  <2>1. call' \in [Caller -> [pc : {"idle", "ticker", "tickers", "run"},
                              awaits : SUBSET State, idents : SUBSET Gesture,
                              rest : SUBSET State]]
    BY <1>3 DEF RepeatIInv, RepeatsTypeOK
  <2> QED
    BY <1>1, <1>2, <2>1 DEF RepeatIInv, RepeatsTypeOK
<1>6. RestWaits'
  BY <1>3, <1>4 DEF RepeatIInv, RestWaits
<1>7. RepeatsHeld'
  BY <1>1, <1>2, <1>3, <1>4 DEF RepeatIInv, RepeatsHeld
<1>8. UnmadeIsFree' /\ TickersFound'
  BY <1>1 DEF RepeatIInv, UnmadeIsFree, TickersFound
<1> QED
  BY <1>5, <1>6, <1>7, <1>8 DEF RepeatIInv

\* With the engine every ticker ends and every state of the map is cancelled.
LEMMA AbortHolds ==
  ASSUME RepeatIInv, AbortAll
  PROVE  RepeatIInv'
<1>1. /\ engineGone' = TRUE
      /\ entry' = [i \in Gesture |-> NoState]
      /\ tracked' = [i \in Gesture |-> NoState]
      /\ ticker' = [s \in State |-> IF s \in {entry[i] : i \in Gesture} THEN "off" ELSE ticker[s]]
      /\ cancelled' = [s \in State |-> IF s \in {tracked[i] : i \in Gesture}
                                       THEN TRUE ELSE cancelled[s]]
      /\ child' = [s \in State |-> IF s \in {tracked[i] : i \in Gesture}
                                   THEN FALSE ELSE child[s]]
      /\ UNCHANGED <<stateVars, running, run, initial, call, stops>>
  BY DEF AbortAll, AbortStates, With, RepeatIInv, RepeatsTypeOK
<1>2. RepeatsTypeOK'
  BY <1>1 DEF RepeatIInv, RepeatsTypeOK
<1>3. UnmadeIsFree'
  BY <1>1, StatesAreNumbers DEF RepeatIInv, RepeatsTypeOK, UnmadeIsFree
<1>4. TickersFound'
  BY <1>1 DEF RepeatIInv, RepeatsTypeOK, TickersFound
<1>5. RestWaits' /\ RepeatsHeld'
  BY <1>1 DEF RepeatIInv, RepeatsTypeOK, RestWaits, RepeatsHeld
<1> QED
  BY <1>2, <1>3, <1>4, <1>5 DEF RepeatIInv

\* The invariant holds of every behaviour of the repeater that serves an identifier.
THEOREM RepeatInvariant == ASSUME Gesture # {} PROVE RepeatsSpec => []RepeatIInv
<1>1. RepeatsInit => RepeatIInv
  BY RepeatBegins
<1>2. RepeatIInv /\ [RepeatsNext]_repeatsVars => RepeatIInv'
  <2> SUFFICES ASSUME RepeatIInv, [RepeatsNext]_repeatsVars PROVE RepeatIInv'
    OBVIOUS
  <2>1. CASE \E i \in Gesture, repeat \in BOOLEAN : Start(i, repeat)
    BY <2>1, StartHolds
  <2>2. CASE \E s \in State : Tick(s) \/ EndTicker(s) \/ RunStep(s) \/ ChildExits(s)
    BY <2>2, TickHolds, RunGoesOn, RunEnds DEF RunStep
  <2>3. CASE \E c \in Caller : StopGesture(c) \/ StopRepeats(c) \/ CallStep(c)
    <3>1. \A i \in Gesture : {i} \in SUBSET Gesture
      OBVIOUS
    <3> QED
      BY <2>3, <3>1, StopHolds, TickersEndedHolds, RunEndedHolds
      DEF StopGesture, StopRepeats, CallStep
  <2>4. CASE AbortAll
    BY <2>4, AbortHolds
  <2>5. CASE UNCHANGED repeatsVars
    <3>1. /\ UNCHANGED <<made, gesture, repeats, running, run, initial, child>>
          /\ UNCHANGED <<cancelled, tracked, entry, ticker, call, engineGone, stops>>
      BY <2>5 DEF repeatsVars
    <3> QED
      BY <3>1 DEF RepeatIInv, RepeatsTypeOK, UnmadeIsFree, TickersFound, RestWaits, RepeatsHeld
  <2> QED
    BY <2>1, <2>2, <2>3, <2>4, <2>5 DEF RepeatsNext
<1> QED
  BY <1>1, <1>2, PTL DEF RepeatsSpec

\* Every variable of the repeater keeps its type.
THEOREM RepeatTyped == ASSUME Gesture # {} PROVE RepeatsSpec => []RepeatsTypeOK
<1>1. RepeatIInv => RepeatsTypeOK
  BY DEF RepeatIInv
<1> QED
  BY <1>1, RepeatInvariant, PTL

\* No ticker and no run of a repeating gesture is ever out of reach of a stop
\* (Ticker::entries, Repeater::process_states), whatever starts and stops meet.
THEOREM RepeatsReachable == ASSUME Gesture # {} PROVE RepeatsSpec => []NoOrphanedRepeat
  BY HeldIsEnough, RepeatInvariant, PTL

\* A one-shot is cancelled only by a new start of an identifier or by the end of the
\* engine (Repeater::stop and stop_repeats_async let go of it without a token).
THEOREM OneShotsKept == ASSUME Gesture # {} PROVE RepeatsSpec => OneShotsSurvive
<1> DEFINE Kept == \A s \in State : cancelled'[s] /\ ~cancelled[s] /\ ~repeats[s]
                                    => made' # made \/ engineGone'
<1>1. RepeatIInv /\ [RepeatsNext]_repeatsVars => [Kept]_repeatsVars
  <2> SUFFICES ASSUME RepeatIInv, RepeatsNext PROVE Kept
    OBVIOUS
  <2>1. CASE \E i \in Gesture, repeat \in BOOLEAN : Start(i, repeat)
    BY <2>1 DEF Start, RepeatIInv, RepeatsTypeOK
  <2>2. CASE \E s \in State : Tick(s) \/ EndTicker(s) \/ RunStep(s) \/ ChildExits(s)
    <3>1. UNCHANGED cancelled
      BY <2>2 DEF Tick, EndTicker, RunStep, Launch, LaunchFails, Reap, Collect, ChildExits
    <3> QED
      BY <3>1
  <2>3. CASE \E c \in Caller : StopGesture(c) \/ StopRepeats(c) \/ CallStep(c)
    <3>1. PICK c \in Caller : StopGesture(c) \/ StopRepeats(c) \/ CallStep(c)
      BY <2>3
    <3>2. CASE \E I \in SUBSET Gesture, all \in BOOLEAN : StopAll(c, I, all)
      <4>1. PICK I \in SUBSET Gesture, all \in BOOLEAN : StopAll(c, I, all)
        BY <3>2
      <4>2. CASE UNCHANGED cancelled
        BY <4>2
      <4>3. CASE Untrack(c, I, all)
        <5>1. call[c].rest = {}
          BY <4>1 DEF StopAll, RepeatIInv, RestWaits
        <5> QED
          BY <4>3, <5>1, Untracking
      <4> QED
        BY <4>1, <4>2, <4>3 DEF StopAll
    <3>3. CASE TickersEnded(c)
      <4>1. /\ call[c].rest = {} /\ call[c].idents \in SUBSET Gesture
            /\ (call[c].pc = "ticker") \in BOOLEAN
            /\ Untrack(c, call[c].idents, call[c].pc = "ticker")
        BY <3>3 DEF TickersEnded, RepeatIInv, RepeatsTypeOK, RestWaits
      <4> QED
        BY <4>1, Untracking
    <3>4. CASE RunEnded(c)
      <4>1. /\ call[c].rest \in SUBSET (State \cup {NoState}) /\ NoState \notin call[c].rest
            /\ AwaitRuns(c, call[c].rest)
        BY <3>4, EntriesAreMade DEF RunEnded
      <4> QED
        BY <4>1, AwaitingRuns
    <3>5. \A i \in Gesture : {i} \in SUBSET Gesture
      OBVIOUS
    <3> QED
      BY <3>1, <3>2, <3>3, <3>4, <3>5 DEF StopGesture, StopRepeats, CallStep
  <2>4. CASE AbortAll
    BY <2>4 DEF AbortAll
  <2> QED
    BY <2>1, <2>2, <2>3, <2>4 DEF RepeatsNext
<1> QED
  BY <1>1, RepeatInvariant, PTL DEF RepeatsSpec, OneShotsSurvive

HIDE DEF NoState, stateVars, runVars

----------------------------------------------------------------------------
(***************************************************************************)
(* Proofs about Selector, for any numbers of results, sizes of the window  *)
(* and bounds.                                                             *)
(*                                                                         *)
(* That the keyboard is captured exactly while the selector is open is not *)
(* inductive: between the two there is always a key event that is about to *)
(* bind again, and only one of them may close.                             *)
(***************************************************************************)

SelectorSpec == SelectorInit /\ [][SelectorNext]_selectorVars

\* A handler runs only after a close, alone, and finds no selector.
CloserAlone ==
  /\ \A k, j \in Chord : worker[k] = "closed" /\ worker[j] = "closed" => k = j
  /\ \A k \in Chord : worker[k] = "closed" => ~open

\* The keys are the selector's unless a key event is about to bind them again.
CaptureFollows ==
  refused = 0 /\ (\A k \in Chord : worker[k] \notin {"closed", "rebind"}) => capture = open

\* No key event leaves the window other than the selector.
WindowFollows ==
  refused = 0 /\ reloads = 0 => (shown # NotShown) = open

SelectorIInv ==
  /\ SelectorTypeOK
  /\ refused \in Nat /\ reloads \in Nat
  /\ WindowHoldsSelection
  /\ CloserAlone
  /\ CaptureFollows
  /\ WindowFollows

Result == {NoResults} \union 0..MaxQuery
WorkerAt == {"idle", "refresh", "closed", "rebind"}

\* The number of results is a number.
LEMMA TotalIsNat == ASSUME NEW r \in Result PROVE Total(r) \in Nat
  BY SelectorAssumption DEF Result, Total

\* SelectorState::snapshot: the selection it keeps is a number.
LEMMA ClampIsNat ==
  ASSUME NEW sel \in Nat, NEW r \in Result PROVE Clamp(sel, r) \in Nat /\ Clamp(sel, r) <= Below(Total(r))
<1>1. Total(r) \in Nat
  BY TotalIsNat
<1>2. Below(Total(r)) \in Nat
  BY <1>1 DEF Below
<1> QED
  BY <1>2 DEF Clamp, AtMost

\* The window around a selection within the results: full, in range, and around it.
LEMMA WindowOfHolds ==
  ASSUME NEW total \in Nat, NEW at \in Nat, at <= Below(total)
  PROVE  LET w == WindowOf(at, total)
         IN /\ w.len = AtMost(total, MaxVisible)
            /\ w.first \in 0..total - w.len
            /\ total > 0 => at - w.first \in 0..w.len - 1
<1> DEFINE w == WindowOf(at, total)
           half == MaxVisible \div 2
           start == IF at < half THEN 0 ELSE at - half
           end == AtMost(start + MaxVisible, total)
<1>1. MaxVisible \in Nat /\ MaxVisible > 0
  BY SelectorAssumption
<1>2. half \in Nat /\ 2 * half <= MaxVisible
  BY <1>1
<1>3. CASE total <= MaxVisible
  <2>1. w = [first |-> 0, len |-> total]
    BY <1>3 DEF WindowOf
  <2>2. AtMost(total, MaxVisible) = total
    BY <1>1, <1>3 DEF AtMost
  <2> QED
    BY <2>1, <2>2 DEF Below
<1>4. CASE ~(total <= MaxVisible)
  <2>1. w = [first |-> end - MaxVisible, len |-> MaxVisible]
    BY <1>4 DEF WindowOf
  <2>2. AtMost(total, MaxVisible) = MaxVisible
    BY <1>1, <1>4 DEF AtMost
  <2>3. at < total
    BY <1>1, <1>4 DEF Below
  <2> HIDE DEF half
  <2>4. start \in Nat /\ start <= at /\ at <= start + half
    BY <1>2
  <2> HIDE DEF start
  <2>5. /\ end \in Nat
        /\ end = total \/ end = start + MaxVisible
        /\ end <= total /\ end <= start + MaxVisible
        /\ end >= MaxVisible
    BY <1>1, <1>4, <2>4 DEF AtMost
  <2> HIDE DEF end
  <2>6. at < end
    BY <1>1, <1>2, <2>3, <2>4, <2>5
  <2>7. w.first = end - MaxVisible /\ w.len = MaxVisible
    BY <2>1
  <2>8. end - MaxVisible \in 0..total - MaxVisible
    BY <1>1, <2>5
  <2>9. at - (end - MaxVisible) \in 0..MaxVisible - 1
    BY <1>1, <1>2, <2>4, <2>5, <2>6
  <2> QED
    BY <2>2, <2>7, <2>8, <2>9
<1> QED
  BY <1>3, <1>4

\* What the property says of one window.
Holds(s) ==
  s # NotShown =>
    /\ s.len = AtMost(s.total, MaxVisible)
    /\ s.first \in 0..s.total - s.len
    /\ s.total > 0 => s.at \in 0..s.len - 1

\* SelectorState::snapshot makes such a window, whatever it is given.
LEMMA SnapshotHolds ==
  ASSUME NEW sel \in Nat, NEW r \in Result
  PROVE  /\ Snapshot(sel, r) # NotShown
         /\ Snapshot(sel, r).of = r
         /\ Holds(Snapshot(sel, r))
<1> DEFINE at == Clamp(sel, r)
           w == WindowOf(at, Total(r))
           s == Snapshot(sel, r)
<1>1. Total(r) \in Nat /\ at \in Nat /\ at <= Below(Total(r))
  BY TotalIsNat, ClampIsNat
<1>2. s = [first |-> w.first, len |-> w.len, at |-> at - w.first, total |-> Total(r), of |-> r]
  BY DEF Snapshot
<1> HIDE DEF at
<1>3. /\ w.len = AtMost(Total(r), MaxVisible)
      /\ w.first \in 0..Total(r) - w.len
      /\ Total(r) > 0 => at - w.first \in 0..w.len - 1
  BY <1>1, WindowOfHolds
<1> HIDE DEF w, s
<1>4. s.total = Total(r) /\ NotShown.total = -1
  BY <1>2 DEF NotShown
<1>5. s # NotShown
  BY <1>1, <1>4
<1>6. s.of = r /\ Holds(s)
  BY <1>2, <1>3 DEF Holds
<1> QED
  BY <1>5, <1>6 DEF s

\* The types one at a time.
LEMMA SelectorTypes ==
  ASSUME SelectorTypeOK
  PROVE  /\ open \in BOOLEAN /\ late \in BOOLEAN /\ permit \in BOOLEAN
         /\ hudShown \in BOOLEAN /\ hudBefore \in BOOLEAN /\ capture \in BOOLEAN
         /\ query \in 0..MaxQuery /\ selected \in Nat /\ results \in Result
         /\ worker \in [Chord -> WorkerAt]
  BY DEF SelectorTypeOK, Result, WorkerAt

\* The other direction, of a step.
LEMMA SelectorTyped ==
  ASSUME open' \in BOOLEAN, late' \in BOOLEAN, permit' \in BOOLEAN,
         hudShown' \in BOOLEAN, hudBefore' \in BOOLEAN, capture' \in BOOLEAN,
         query' \in 0..MaxQuery, selected' \in Nat, results' \in Result,
         matcher' \in {"idle", "working", "done"},
         shown' = NotShown \/ shown'.of \in Result,
         worker' \in [Chord -> WorkerAt]
  PROVE  SelectorTypeOK'
<1>1. {open', late', permit', hudShown', hudBefore', capture'} \subseteq BOOLEAN
  OBVIOUS
<1> QED
  BY <1>1 DEF SelectorTypeOK, Result, WorkerAt

\* SelectorMatcher::tick keeps the types.
LEMMA MatchTyped ==
  ASSUME SelectorTypeOK, NEW dirty, NEW q \in 0..MaxQuery, NEW changed,
         Match(dirty, q, changed)
  PROVE  /\ results' \in Result
         /\ matcher' \in {"idle", "working", "done"}
         /\ late' \in BOOLEAN
  BY SelectorTypes DEF Match, Result

\* A message published, or refused: the window is that of a selector, or nothing
\* else is said of it.
LEMMA PublishHolds ==
  ASSUME SelectorIInv, NEW sel \in Nat, NEW r \in Result,
         Send(Snapshot(sel, r)) \/ Refuse
  PROVE  /\ refused' \in Nat
         /\ Holds(shown')
         /\ shown' = NotShown \/ shown'.of \in Result
         /\ refused' = 0 => refused = 0 /\ shown' # NotShown
<1>1. refused \in Nat /\ Holds(shown) /\ (shown = NotShown \/ shown.of \in Result)
  BY DEF SelectorIInv, SelectorTypeOK, Result, WindowHoldsSelection, Holds
<1>2. CASE Send(Snapshot(sel, r))
  BY <1>1, <1>2, SnapshotHolds DEF Send
<1>3. CASE Refuse
  BY <1>1, <1>3 DEF Refuse
<1> QED
  BY <1>2, <1>3

LEMMA ChordWorks ==
  ASSUME SelectorTypeOK, NEW k \in Chord, NEW pc \in WorkerAt, Goes(k, pc)
  PROVE  /\ worker' \in [Chord -> WorkerAt]
         /\ worker'[k] = pc
         /\ \A j \in Chord \ {k} : worker'[j] = worker[j]
  BY SelectorTypes DEF Goes

----------------------------------------------------------------------------
(* The steps. *)

LEMMA SelectorBegins == SelectorInit => SelectorIInv
<1> SUFFICES ASSUME SelectorInit PROVE SelectorIInv
  OBVIOUS
<1>1. 0 \in 0..MaxQuery
  BY SelectorAssumption
<1>2. {open, late, permit, hudShown, hudBefore, capture} \subseteq BOOLEAN
  BY DEF SelectorInit
<1>3. SelectorTypeOK
  BY <1>1, <1>2 DEF SelectorInit, SelectorTypeOK
<1> QED
  BY <1>3 DEF SelectorInit, SelectorIInv, WindowHoldsSelection, CloserAlone,
              CaptureFollows, WindowFollows

\* What does not touch the selector, its keys or its window, and sends no worker
\* out of a close or a rebind.
LEMMA Elsewhere ==
  ASSUME SelectorIInv, SelectorTypeOK',
         UNCHANGED <<open, capture, shown, refused, reloads>>,
         \A k \in Chord : worker'[k] # worker[k] => worker[k] \in {"idle", "refresh"}
                                               /\ worker'[k] \in {"idle", "refresh"}
  PROVE  SelectorIInv'
<1>1. \A k \in Chord : worker'[k] = "closed" <=> worker[k] = "closed"
  OBVIOUS
<1>2. \A k \in Chord : worker'[k] = "rebind" <=> worker[k] = "rebind"
  OBVIOUS
<1> QED
  BY <1>1, <1>2 DEF SelectorIInv, WindowHoldsSelection, CloserAlone, CaptureFollows, WindowFollows

LEMMA PressHolds == ASSUME SelectorIInv, NEW k \in Chord, Press(k) PROVE SelectorIInv'
<1>1. "refresh" \in WorkerAt
  BY DEF WorkerAt
<1>2. /\ worker' \in [Chord -> WorkerAt] /\ worker'[k] = "refresh"
      /\ \A j \in Chord \ {k} : worker'[j] = worker[j]
  BY <1>1, ChordWorks DEF SelectorIInv, Press
<1>3. SelectorTypeOK'
  BY <1>2 DEF SelectorIInv, SelectorTypeOK, Press, WorkerAt, editVars, matchVars, hudVars
<1> QED
  BY <1>2, <1>3, Elsewhere DEF Press

LEMMA MatcherDoneHolds == ASSUME SelectorIInv, MatcherDone PROVE SelectorIInv'
<1>1. SelectorTypeOK
  BY DEF SelectorIInv
<1>2. SelectorTypeOK'
  BY <1>1, SelectorTypes, SelectorTyped DEF MatcherDone, editVars, hudVars, SelectorTypeOK, Result
<1> QED
  BY <1>2, Elsewhere DEF MatcherDone, countVars

\* Nothing but the selector's window changes, and that to the selector's.
LEMMA OnNotifyHolds == ASSUME SelectorIInv, OnNotify PROVE SelectorIInv'
<1>1. SelectorTypeOK
  BY DEF SelectorIInv
<1>2. /\ UNCHANGED <<open, query, capture, worker, reloads>>
      /\ UNCHANGED hudVars /\ permit' = FALSE
  BY DEF OnNotify
<1>3. CASE open /\ Match(FALSE, query, TRUE) /\ selected' = Clamp(selected, results')
           /\ (Send(Snapshot(selected, results')) \/ Refuse)
  <2>1. results' \in Result /\ matcher' \in {"idle", "working", "done"} /\ late' \in BOOLEAN
    BY <1>1, <1>3, MatchTyped, SelectorTypes
  <2>2. selected \in Nat /\ selected' \in Nat
    BY <1>1, <1>3, <2>1, ClampIsNat, SelectorTypes
  <2>3. /\ refused' \in Nat /\ Holds(shown')
        /\ shown' = NotShown \/ shown'.of \in Result
        /\ refused' = 0 => refused = 0 /\ shown' # NotShown
    BY <1>3, <2>1, <2>2, PublishHolds
  <2>4. SelectorTypeOK'
    BY <1>1, <1>2, <2>1, <2>2, <2>3, SelectorTypes, SelectorTyped DEF hudVars
  <2>5. CloserAlone' /\ CaptureFollows' /\ WindowFollows'
    BY <1>1, <1>2, <1>3, <2>3, SelectorTypes
    DEF SelectorIInv, CloserAlone, CaptureFollows, WindowFollows
  <2> QED
    BY <1>2, <2>3, <2>4, <2>5 DEF SelectorIInv, WindowHoldsSelection, Holds
<1>4. CASE Match(FALSE, query, FALSE) /\ UNCHANGED <<selected, shown, refused>>
  <2>1. results' \in Result /\ matcher' \in {"idle", "working", "done"} /\ late' \in BOOLEAN
    BY <1>1, <1>4, MatchTyped, SelectorTypes
  <2>2. SelectorTypeOK'
    BY <1>1, <1>2, <1>4, <2>1, SelectorTypes, SelectorTyped DEF hudVars, SelectorTypeOK, Result
  <2> QED
    BY <1>2, <1>4, <2>2, Elsewhere
<1>5. CASE UNCHANGED <<selected, results, matcher, late, shown, refused>>
  <2>1. SelectorTypeOK'
    BY <1>1, <1>2, <1>5, SelectorTypes, SelectorTyped DEF hudVars, SelectorTypeOK, Result
  <2> QED
    BY <1>2, <1>5, <2>1, Elsewhere
<1> QED
  BY <1>3, <1>4, <1>5 DEF OnNotify

\* A worker done with its event.
LEMMA IdleWorker ==
  ASSUME SelectorIInv, NEW k \in Chord, worker[k] = "refresh", Goes(k, "idle")
  PROVE  /\ worker' \in [Chord -> WorkerAt]
         /\ \A j \in Chord : worker'[j] # worker[j] => worker[j] \in {"idle", "refresh"}
                                                 /\ worker'[j] \in {"idle", "refresh"}
         /\ \A j \in Chord : worker'[j] \in {"closed", "rebind"}
                               <=> worker[j] \in {"closed", "rebind"}
         /\ \A j \in Chord : worker'[j] = "closed" <=> worker[j] = "closed"
<1>1. "idle" \in WorkerAt
  BY DEF WorkerAt
<1>2. /\ worker' \in [Chord -> WorkerAt] /\ worker'[k] = "idle"
      /\ \A j \in Chord \ {k} : worker'[j] = worker[j]
  BY <1>1, ChordWorks DEF SelectorIInv
<1> QED
  BY <1>2

\* SelectorController::open from a key's own handler or from that of a close.
LEMMA OpenHolds ==
  ASSUME SelectorIInv, NEW k \in Chord, ~open, OpenSelector(k),
         \A j \in Chord \ {k} : worker[j] # "closed"
  PROVE  SelectorIInv'
<1>1. SelectorTypeOK /\ 0 \in Nat /\ 0 \in 0..MaxQuery
  BY SelectorAssumption DEF SelectorIInv
<1>2. /\ open' = TRUE /\ hudBefore' = hudShown /\ hudShown' = FALSE
      /\ query' = 0 /\ selected' = 0 /\ permit' = TRUE
      /\ UNCHANGED <<capture, keys, reloads>>
  BY DEF OpenSelector
<1>3. results' \in Result /\ matcher' \in {"idle", "working", "done"} /\ late' \in BOOLEAN
  BY <1>1 DEF OpenSelector, Result
<1>4. Send(Snapshot(0, results')) \/ Refuse
  BY DEF OpenSelector
<1>5. /\ refused' \in Nat /\ Holds(shown')
      /\ shown' = NotShown \/ shown'.of \in Result
      /\ refused' = 0 => refused = 0 /\ shown' # NotShown
  BY <1>1, <1>3, <1>4, PublishHolds
<1>6. Goes(k, "rebind") \/ (Goes(k, "idle") /\ Refuse)
  BY DEF OpenSelector
<1>7. refused' = 0 => Goes(k, "rebind")
  BY <1>6 DEF Refuse, SelectorIInv
<1>8. /\ worker' \in [Chord -> WorkerAt] /\ worker'[k] \in {"rebind", "idle"}
      /\ \A j \in Chord \ {k} : worker'[j] = worker[j]
      /\ Goes(k, "rebind") => worker'[k] = "rebind"
  <2>1. "rebind" \in WorkerAt /\ "idle" \in WorkerAt
    BY DEF WorkerAt
  <2> QED
    BY <1>1, <1>6, <2>1, ChordWorks
<1>9. SelectorTypeOK'
  BY <1>1, <1>2, <1>3, <1>5, <1>8, SelectorTypes, SelectorTyped
<1>10. CloserAlone' /\ CaptureFollows' /\ WindowFollows'
  BY <1>2, <1>5, <1>7, <1>8 DEF CloserAlone, CaptureFollows, WindowFollows
<1> QED
  BY <1>2, <1>5, <1>9, <1>10 DEF SelectorIInv, WindowHoldsSelection, Holds

\* A key that changes the query or moves the selection.
LEMMA UpdateHolds ==
  ASSUME SelectorIInv, NEW k \in Chord, At(k, "refresh"), open, NEW dirty,
         NEW q \in 0..MaxQuery, NEW sel \in Nat, Update(k, dirty, q, sel)
  PROVE  SelectorIInv'
<1>1. SelectorTypeOK
  BY DEF SelectorIInv
<1>2. /\ query' = q /\ selected' = Clamp(sel, results') /\ Goes(k, "idle")
      /\ UNCHANGED <<open, permit, capture, keys, reloads>> /\ UNCHANGED hudVars
  BY DEF Update
<1>3. results' \in Result /\ matcher' \in {"idle", "working", "done"} /\ late' \in BOOLEAN
  BY <1>1, MatchTyped DEF Update
<1>4. selected' \in Nat
  BY <1>2, <1>3, ClampIsNat
<1>5. Send(Snapshot(sel, results')) \/ Refuse
  BY DEF Update
<1>6. /\ refused' \in Nat /\ Holds(shown')
      /\ shown' = NotShown \/ shown'.of \in Result
      /\ refused' = 0 => refused = 0 /\ shown' # NotShown
  BY <1>3, <1>5, PublishHolds
<1>7. /\ worker' \in [Chord -> WorkerAt]
      /\ \A j \in Chord : worker'[j] \in {"closed", "rebind"}
                            <=> worker[j] \in {"closed", "rebind"}
      /\ \A j \in Chord : worker'[j] = "closed" <=> worker[j] = "closed"
  BY <1>2, IdleWorker DEF At
<1>8. SelectorTypeOK'
  BY <1>1, <1>2, <1>3, <1>4, <1>6, <1>7, SelectorTypes, SelectorTyped DEF hudVars
<1>9. CloserAlone'
  BY <1>2, <1>7 DEF SelectorIInv, CloserAlone
<1>10. CaptureFollows'
  BY <1>2, <1>6, <1>7 DEF SelectorIInv, CaptureFollows
<1>11. open' = TRUE
  BY <1>1, <1>2, SelectorTypes
<1>12. WindowFollows'
  BY <1>6, <1>11 DEF WindowFollows
<1> QED
  BY <1>2, <1>6, <1>8, <1>9, <1>10, <1>12 DEF SelectorIInv, WindowHoldsSelection, Holds

LEMMA EditHolds == ASSUME SelectorIInv, NEW k \in Chord, Edit(k) PROVE SelectorIInv'
<1> DEFINE q == CASE k = "opener" -> query + 1 [] k = "erase" -> query - 1 [] k = "clear" -> 0
<1>1. query \in 0..MaxQuery /\ MaxQuery \in Nat
  BY SelectorTypes, SelectorAssumption DEF SelectorIInv
<1>2. /\ k = "opener" => q = query + 1
      /\ k = "erase" => q = query - 1
      /\ k = "clear" => q = 0
  OBVIOUS
<1> HIDE DEF q
<1>3. q \in 0..MaxQuery
  BY <1>1, <1>2 DEF Edit, Edits
<1>4. Update(k, TRUE, q, 0) /\ At(k, "refresh") /\ open
  BY DEF Edit, q
<1> QED
  BY <1>3, <1>4, UpdateHolds

LEMMA MoveHolds == ASSUME SelectorIInv, NEW k \in Chord, Move(k) PROVE SelectorIInv'
<1> DEFINE sel == IF k = "up" THEN selected - 1 ELSE selected + 1
<1>1. query \in 0..MaxQuery /\ selected \in Nat
  BY SelectorTypes DEF SelectorIInv
<1>2. sel \in Nat
  BY <1>1 DEF Move, Moves
<1>3. Update(k, FALSE, query, sel) /\ At(k, "refresh") /\ open
  BY DEF Move
<1> HIDE DEF sel
<1> QED
  BY <1>1, <1>2, <1>3, UpdateHolds

\* A key that does nothing.
LEMMA IgnoredHolds ==
  ASSUME SelectorIInv, NEW k \in Chord, Unbound(k) \/ Ignore(k)
  PROVE  SelectorIInv'
<1>1. /\ worker[k] = "refresh" /\ Goes(k, "idle")
      /\ UNCHANGED <<open, editVars, matchVars, hudVars, capture, shown, countVars>>
  BY DEF Unbound, Ignore, At
<1>2. /\ worker' \in [Chord -> WorkerAt]
      /\ \A j \in Chord : worker'[j] # worker[j] => worker[j] \in {"idle", "refresh"}
                                              /\ worker'[j] \in {"idle", "refresh"}
  BY <1>1, IdleWorker
<1>3. SelectorTypeOK'
  BY <1>1, <1>2 DEF SelectorIInv, SelectorTypeOK, WorkerAt, editVars, matchVars, hudVars
<1> QED
  BY <1>1, <1>2, <1>3, Elsewhere DEF countVars

\* close_selector, for an acceptance or a cancellation.
LEMMA CloseHolds ==
  ASSUME SelectorIInv, NEW k \in Chord, At(k, "refresh"), Close(k)
  PROVE  SelectorIInv'
<1>1. SelectorTypeOK /\ 0 \in Nat /\ 0 \in 0..MaxQuery
  BY SelectorAssumption DEF SelectorIInv
<1>2. /\ open' = FALSE /\ hudShown' = hudBefore
      /\ query' = 0 /\ selected' = 0
      /\ results' = NoResults /\ matcher' = "idle" /\ late' = FALSE
      /\ UNCHANGED <<permit, hudBefore, capture, keys, reloads>>
  BY DEF Close
<1>3. \A j \in Chord : worker[j] # "closed"
  BY DEF At, Undisturbed
<1>4. \/ shown' = NotShown /\ UNCHANGED refused /\ Goes(k, "closed")
      \/ UNCHANGED shown /\ refused' = refused + 1 /\ Goes(k, "idle")
  BY DEF Close, Send, Refuse
<1>5. /\ refused' \in Nat /\ Holds(shown')
      /\ shown' = NotShown \/ shown'.of \in Result
      /\ refused' = 0 => refused = 0 /\ shown' = NotShown /\ Goes(k, "closed")
  BY <1>1, <1>4 DEF SelectorIInv, SelectorTypeOK, WindowHoldsSelection, Holds, Result
<1>6. /\ worker' \in [Chord -> WorkerAt]
      /\ \A j \in Chord \ {k} : worker'[j] = worker[j]
      /\ Goes(k, "closed") => worker'[k] = "closed"
  <2>1. "closed" \in WorkerAt /\ "idle" \in WorkerAt
    BY DEF WorkerAt
  <2> QED
    BY <1>1, <1>4, <2>1, ChordWorks
<1>7. SelectorTypeOK'
  <2>1. results' \in Result
    BY <1>2 DEF Result
  <2> QED
    BY <1>1, <1>2, <1>5, <1>6, <2>1, SelectorTypes, SelectorTyped
<1>8. CloserAlone' /\ CaptureFollows' /\ WindowFollows'
  BY <1>2, <1>3, <1>5, <1>6 DEF CloserAlone, CaptureFollows, WindowFollows
<1> QED
  BY <1>2, <1>5, <1>7, <1>8, SelectorAssumption DEF SelectorIInv, WindowHoldsSelection, Holds

LEMMA AcceptHolds == ASSUME SelectorIInv, NEW k \in Chord, Accept(k) PROVE SelectorIInv'
<1>1. At(k, "refresh") /\ worker[k] = "refresh" /\ SelectorTypeOK
  BY DEF Accept, At, SelectorIInv
<1>2. CASE Close(k)
  BY <1>1, <1>2, CloseHolds
<1>3. CASE /\ Match(FALSE, query, TRUE) /\ selected' = 0 /\ Goes(k, "idle")
           /\ UNCHANGED <<open, query, permit, hudVars, capture, shown, countVars>>
  <2>1. results' \in Result /\ matcher' \in {"idle", "working", "done"} /\ late' \in BOOLEAN
    BY <1>1, <1>3, MatchTyped, SelectorTypes
  <2>2. /\ worker' \in [Chord -> WorkerAt]
        /\ \A j \in Chord : worker'[j] # worker[j] => worker[j] \in {"idle", "refresh"}
                                                /\ worker'[j] \in {"idle", "refresh"}
    BY <1>1, <1>3, IdleWorker
  <2>3. SelectorTypeOK'
    BY <1>1, <1>3, <2>1, <2>2, SelectorTypes, SelectorTyped DEF hudVars, SelectorTypeOK, Result
  <2> QED
    BY <1>3, <2>2, <2>3, Elsewhere DEF countVars
<1> QED
  BY <1>2, <1>3 DEF Accept

\* The end of a close's handler leads to a rebind.
LEMMA HandledHolds == ASSUME SelectorIInv, NEW k \in Chord, Handled(k) PROVE SelectorIInv'
<1>1. /\ SelectorTypeOK /\ refused \in Nat
      /\ UNCHANGED <<open, editVars, matchVars, hudVars, capture, keys, reloads, shown>>
      /\ \/ Goes(k, "rebind") /\ UNCHANGED refused
         \/ refused' = refused + 1 /\ Goes(k, "idle")
  BY DEF Handled, Refuse, SelectorIInv
<1>2. /\ refused' \in Nat
      /\ refused' = 0 => refused = 0 /\ Goes(k, "rebind")
  BY <1>1
<1>3. /\ worker' \in [Chord -> WorkerAt] /\ worker'[k] \in {"rebind", "idle"}
      /\ \A j \in Chord \ {k} : worker'[j] = worker[j]
      /\ Goes(k, "rebind") => worker'[k] = "rebind"
  <2>1. "rebind" \in WorkerAt /\ "idle" \in WorkerAt
    BY DEF WorkerAt
  <2> QED
    BY <1>1, <2>1, ChordWorks
<1>4. SelectorTypeOK'
  BY <1>1, <1>3 DEF SelectorTypeOK, WorkerAt, editVars, matchVars, hudVars
<1>5. CloserAlone' /\ CaptureFollows' /\ WindowFollows'
  BY <1>1, <1>2, <1>3 DEF SelectorIInv, CloserAlone, CaptureFollows, WindowFollows
<1> QED
  BY <1>1, <1>2, <1>4, <1>5 DEF SelectorIInv, WindowHoldsSelection

LEMMA ReopenHolds == ASSUME SelectorIInv, NEW k \in Chord, Reopen(k) PROVE SelectorIInv'
<1>1. worker[k] = "closed"
  BY DEF Reopen, At
<1>2. ~open /\ \A j \in Chord \ {k} : worker[j] # "closed"
  BY <1>1 DEF SelectorIInv, CloserAlone
<1> QED
  BY <1>2, OpenHolds DEF Reopen

LEMMA OpenedHolds == ASSUME SelectorIInv, NEW k \in Chord, Open(k) PROVE SelectorIInv'
  BY OpenHolds DEF Open, At, Undisturbed

\* rebind_and_refresh binds the keys of what is open then.
LEMMA RebindHolds == ASSUME SelectorIInv, NEW k \in Chord, Rebind(k) PROVE SelectorIInv'
<1>1. /\ SelectorTypeOK /\ refused \in Nat
      /\ Goes(k, "idle")
      /\ UNCHANGED <<open, editVars, matchVars, hudVars, keys, reloads, shown>>
      /\ \/ capture' = open /\ UNCHANGED refused
         \/ refused' = refused + 1 /\ UNCHANGED capture
  BY DEF Rebind, BindKeys, Refuse, SelectorIInv
<1>2. /\ refused' \in Nat
      /\ refused' = 0 => refused = 0 /\ capture' = open
  BY <1>1
<1>3. /\ worker' \in [Chord -> WorkerAt] /\ worker'[k] = "idle"
      /\ \A j \in Chord \ {k} : worker'[j] = worker[j]
  <2>1. "idle" \in WorkerAt
    BY DEF WorkerAt
  <2> QED
    BY <1>1, <2>1, ChordWorks
<1>4. capture' \in BOOLEAN
  BY <1>1, SelectorTypes
<1>5. SelectorTypeOK'
  BY <1>1, <1>3, <1>4 DEF SelectorTypeOK, WorkerAt, editVars, matchVars, hudVars
<1>6. CloserAlone' /\ CaptureFollows' /\ WindowFollows'
  BY <1>1, <1>2, <1>3 DEF SelectorIInv, CloserAlone, CaptureFollows, WindowFollows
<1> QED
  BY <1>1, <1>2, <1>5, <1>6 DEF SelectorIInv, WindowHoldsSelection

\* So does a change of focus.
LEMMA RefocusHolds == ASSUME SelectorIInv, Refocus PROVE SelectorIInv'
<1>1. /\ capture' = open
      /\ UNCHANGED <<open, editVars, matchVars, hudVars, shown, worker, keys, refused, reloads>>
  BY DEF Refocus, BindKeys, countVars
<1>2. SelectorTypeOK'
  BY <1>1, SelectorTypes DEF SelectorIInv, SelectorTypeOK, editVars, matchVars, hudVars
<1> QED
  BY <1>1, <1>2 DEF SelectorIInv, WindowHoldsSelection, CloserAlone, CaptureFollows, WindowFollows

\* A reload has neither a selector nor its keys.
LEMMA ReloadHolds == ASSUME SelectorIInv, Reload PROVE SelectorIInv'
<1>1. /\ reloads' = reloads + 1 /\ reloads \in Nat
      /\ ~open' /\ open' = FALSE /\ capture' = FALSE /\ hudShown' = FALSE
      /\ query' = 0 /\ selected' = 0 /\ results' = NoResults /\ matcher' = "idle" /\ late' = FALSE
      /\ UNCHANGED <<permit, hudBefore, shown, worker, keys, refused>>
  BY DEF Reload, SelectorIInv
<1>2. 0 \in 0..MaxQuery /\ 0 \in Nat /\ NoResults \in Result /\ reloads' \in Nat /\ reloads' # 0
  BY <1>1, SelectorAssumption DEF Result
<1>3. SelectorTypeOK'
  BY <1>1, <1>2, SelectorTypes, SelectorTyped DEF SelectorIInv, SelectorTypeOK, Result
<1> QED
  BY <1>1, <1>2, <1>3 DEF SelectorIInv, WindowHoldsSelection, CloserAlone, CaptureFollows, WindowFollows

LEMMA SelectorHolds == SelectorIInv /\ [SelectorNext]_selectorVars => SelectorIInv'
<1> SUFFICES ASSUME SelectorIInv, [SelectorNext]_selectorVars PROVE SelectorIInv'
  OBVIOUS
<1>1. ASSUME NEW k \in Chord, KeyStep(k) PROVE SelectorIInv'
  <2>1. CASE Cancel(k)
    BY <2>1, CloseHolds DEF Cancel
  <2> QED
    BY <1>1, <2>1, OpenedHolds, IgnoredHolds, EditHolds, MoveHolds, AcceptHolds, HandledHolds,
       ReopenHolds, RebindHolds DEF KeyStep
<1>2. CASE UNCHANGED selectorVars
  BY <1>2 DEF selectorVars, editVars, matchVars, hudVars, countVars, SelectorIInv, SelectorTypeOK,
              WindowHoldsSelection, CloserAlone, CaptureFollows, WindowFollows
<1> QED
  BY <1>1, <1>2, PressHolds, MatcherDoneHolds, OnNotifyHolds, RefocusHolds, ReloadHolds
  DEF SelectorNext

\* The selector's inductive invariant, with its types: a handler runs alone, after a close; the keys
\* are the selector's unless a key event is about to bind them; the window follows its results.
THEOREM SelectorInvariant == SelectorSpec => []SelectorIInv
  BY SelectorBegins, SelectorHolds, PTL DEF SelectorSpec

\* SelectorState::snapshot (selector.rs): for every list of items, every max_visible and every
\* sequence of keys, results and refused messages, the window on the screen is full, in the range
\* of its results, and has the selection in it.
THEOREM WindowAlwaysHoldsSelection == SelectorSpec => []WindowHoldsSelection
<1>1. SelectorIInv => WindowHoldsSelection
  BY DEF SelectorIInv
<1> QED
  BY <1>1, SelectorInvariant, PTL

\* The selector's handlers in whatever order (selector_controller.rs): with no key event in
\* flight and no message refused the keyboard is captured exactly while the selector is open,
\* and without a reload the window is on the screen exactly then.
THEOREM SelectorAlwaysSettles == SelectorSpec => []SelectorSettles
<1>1. SelectorIInv => SelectorSettles
  BY DEF SelectorIInv, CaptureFollows, WindowFollows, SelectorSettles, AtRest
<1> QED
  BY <1>1, SelectorInvariant, PTL
============================================================================
