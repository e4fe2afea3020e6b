----------------------------- MODULE TableProofs -----------------------------
(***************************************************************************)
(* What the proofs about KeyBinding and KeyTap need of partial functions.  *)
(***************************************************************************)
EXTENDS Tables, TLAPS

\* A table is a function from some of D to R.
LEMMA IsTable ==
  ASSUME NEW D, NEW R, NEW f
  PROVE  f \in Table(D, R) <=> f \in [DOMAIN f -> R] /\ DOMAIN f \subseteq D
  BY DEF Table

\* What Put and Without do to the domain of a function.
LEMMA Domains ==
  ASSUME NEW f, NEW x, NEW v
  PROVE  /\ DOMAIN Put(f, x, v) = DOMAIN f \cup {x}
         /\ DOMAIN Without(f, x) = DOMAIN f \ {x}
  BY DEF Put, Without

\* What they do to its values.
LEMMA Values ==
  ASSUME NEW f, NEW x, NEW v, NEW y \in DOMAIN f
  PROVE  /\ y # x => Put(f, x, v)[y] = f[y]
         /\ y # x => Without(f, x)[y] = f[y]
  BY DEF Put, Without

\* Put yields a table.
LEMMA PutTable ==
  ASSUME NEW D, NEW R, NEW f \in Table(D, R), NEW x \in D, NEW v \in R
  PROVE  Put(f, x, v) \in Table(D, R)
<1>1. f \in [DOMAIN f -> R] /\ DOMAIN f \subseteq D
  BY IsTable
<1>2. Put(f, x, v) \in [DOMAIN f \cup {x} -> R]
  BY <1>1 DEF Put
<1> QED
  BY <1>1, <1>2, Domains, IsTable

\* So does Without.
LEMMA WithoutTable ==
  ASSUME NEW D, NEW R, NEW f \in Table(D, R), NEW x
  PROVE  Without(f, x) \in Table(D, R)
<1>1. f \in [DOMAIN f -> R] /\ DOMAIN f \subseteq D
  BY IsTable
<1>2. Without(f, x) \in [DOMAIN f \ {x} -> R]
  BY <1>1 DEF Without
<1> QED
  BY <1>1, <1>2, Domains, IsTable

\* The entries of a table.
LEMMA EntryOf ==
  ASSUME NEW D, NEW R, NEW f \in Table(D, R), NEW x \in DOMAIN f
  PROVE  x \in D /\ f[x] \in R
  BY IsTable

=============================================================================
