------------------------------ MODULE DataLemmas ------------------------------
(***************************************************************************)
(* Lemmas about numbers, sequences and finite sets that the proofs about   *)
(* several components rest on.  Induction is a statement about a set of    *)
(* numbers, for which the well-foundedness of < on Nat is enough.          *)
(***************************************************************************)
EXTENDS SequencesExt, SequenceTheorems, FiniteSetTheorems,
        WellFoundedInduction, TLAPS

\* Every set of numbers that is not empty has a least one.
LEMMA NatMin ==
  ASSUME NEW T \in SUBSET Nat, T # {}
  PROVE  \E x \in T : \A y \in T : x <= y
<1> DEFINE R == OpToRel(<, Nat)
<1>1. \A x, y \in Nat : <<x, y>> \in R <=> x < y
  BY DEF OpToRel
<1>2. IsWellFoundedOn(R, Nat)
  BY NatLessThanWellFounded
<1> HIDE DEF R
<1>3. PICK x \in T : \A y \in T : ~(<<y, x>> \in R)
  BY <1>2, WFMin
<1>4. x \in Nat /\ \A y \in T : y \in Nat /\ ~(y < x)
  BY <1>1, <1>3
<1>5. \A y \in T : x <= y
  BY <1>4
<1> QED BY <1>5

\* A set that has 0 and, with every number, the next one has them all.
LEMMA SetInduction ==
  ASSUME NEW T, 0 \in T, \A n \in T \cap Nat : n + 1 \in T
  PROVE  Nat \subseteq T
<1> DEFINE U == Nat \ T
<1> SUFFICES ASSUME U # {} PROVE FALSE
  OBVIOUS
<1>1. PICK x \in U : \A y \in U : x <= y
  BY NatMin
<1>2. x # 0 /\ x - 1 \in Nat /\ x - 1 \notin U
  BY <1>1
<1>3. x - 1 \in T \cap Nat
  BY <1>2
<1>4. x \in T
  BY <1>1, <1>3
<1> QED BY <1>4

\* A sequence has as many members as places if no two places are alike.
LEMMA CardinalityOfSequence ==
  ASSUME NEW E, NEW s \in Seq(E),
         \A i, j \in 1 .. Len(s) : s[i] = s[j] => i = j
  PROVE  Cardinality(Range(s)) = Len(s)
<1>1. DOMAIN s = 1 .. Len(s) /\ Len(s) \in Nat
  OBVIOUS
<1>2. s \in [1 .. Len(s) -> Range(s)]
  BY <1>1 DEF Range
<1>3. s \in Bijection(1 .. Len(s), Range(s))
  BY <1>1, <1>2 DEF Bijection, Injection, IsInjective, Surjection, Range
<1>4. ExistsBijection(1 .. Len(s), Range(s))
  BY <1>3 DEF ExistsBijection
<1> QED BY <1>1, <1>4, FS_CountingElements

\* What RemoveAt returns, index by index.
LEMMA RemoveAtProperties ==
  ASSUME NEW E, NEW s \in Seq(E), NEW p \in 1 .. Len(s)
  PROVE  /\ RemoveAt(s, p) \in Seq(E)
         /\ Len(RemoveAt(s, p)) = Len(s) - 1
         /\ \A k \in 1 .. Len(s) : k < p => RemoveAt(s, p)[k] = s[k]
         /\ \A k \in 1 .. Len(s) : k > p => RemoveAt(s, p)[k - 1] = s[k]
<1> DEFINE a == SubSeq(s, 1, p - 1)
           b == SubSeq(s, p + 1, Len(s))
<1>1. /\ a \in Seq(E) /\ Len(a) = p - 1
      /\ \A k \in 1 .. p - 1 : a[k] = s[k]
  BY SubSeqProperties
<1>2. /\ b \in Seq(E) /\ Len(b) = Len(s) - p
      /\ \A k \in 1 .. Len(s) - p : b[k] = s[p + k]
  BY SubSeqProperties
<1>3. RemoveAt(s, p) = a \o b
  BY DEF RemoveAt
<1> HIDE DEF a, b
<1>4. a \o b \in Seq(E) /\ Len(a \o b) = Len(s) - 1
  <2>1. a \o b \in Seq(E) /\ Len(a \o b) = Len(a) + Len(b)
    BY <1>1, <1>2, ConcatProperties
  <2>2. Len(s) \in Nat
    OBVIOUS
  <2> QED BY <1>1, <1>2, <2>1, <2>2
<1>5. \A k \in 1 .. Len(s) - 1 : (a \o b)[k] = IF k <= p - 1 THEN a[k] ELSE b[k - (p - 1)]
  BY <1>1, <1>2, ConcatProperties
<1>6. ASSUME NEW k \in 1 .. Len(s), k > p PROVE (a \o b)[k - 1] = s[k]
  <2>1. k - 1 \in 1 .. Len(s) - 1 /\ ~(k - 1 <= p - 1) /\ (k - 1) - (p - 1) = k - p
    BY <1>6
  <2>2. k - p \in 1 .. Len(s) - p /\ p + (k - p) = k
    BY <1>6
  <2> QED BY <2>1, <2>2, <1>5, <1>2
<1>7. \A k \in 1 .. Len(s) : k < p => (a \o b)[k] = s[k]
  BY <1>1, <1>5
<1> QED BY <1>3, <1>4, <1>6, <1>7

\* A recursion from a through next
StepsFrom(f, n, a, next) ==
  \A i \in 0 .. n : f[i] = IF i = 0 THEN a ELSE next[f[i - 1]]

\* A recursion along a segment: there is a function that satisfies it, and
\* what every step keeps all its values have.
LEMMA SegmentRecursion ==
  ASSUME NEW n \in Nat, NEW D, NEW a \in D, NEW next \in [D -> D]
  PROVE  \E f \in [0 .. n -> D] : StepsFrom(f, n, a, next)
<1> DEFINE Solves(f, m) ==
             /\ f \in [0 .. m -> D]
             /\ \A i \in 0 .. m : f[i] = IF i = 0 THEN a ELSE next[f[i - 1]]
           T == {m \in Nat : \E f : Solves(f, m)}
<1>1. 0 \in T
  <2> DEFINE f == [i \in 0 .. 0 |-> a]
  <2>1. Solves(f, 0)
    OBVIOUS
  <2> QED BY <2>1
<1>2. ASSUME NEW m \in T \cap Nat PROVE m + 1 \in T
  <2>1. PICK f : Solves(f, m)
    OBVIOUS
  <2> DEFINE g == [i \in 0 .. m + 1 |-> IF i = m + 1 THEN next[f[m]] ELSE f[i]]
  <2>2. g \in [0 .. m + 1 -> D]
    BY <2>1
  <2>3. \A i \in 0 .. m : g[i] = f[i]
    OBVIOUS
  <2>4. g[m + 1] = next[g[m]]
    BY <2>3
  <2> HIDE DEF g
  <2>5. ASSUME NEW i \in 0 .. m + 1
        PROVE  g[i] = IF i = 0 THEN a ELSE next[g[i - 1]]
    <3>1. CASE i = m + 1
      BY <2>4, <3>1
    <3>2. CASE i \in 0 .. m
      <4>1. i # 0 => i - 1 \in 0 .. m
        BY <3>2
      <4>2. f[i] = IF i = 0 THEN a ELSE next[f[i - 1]]
        BY <2>1, <3>2
      <4> QED BY <2>3, <3>2, <4>1, <4>2
    <3> QED BY <3>1, <3>2
  <2>6. Solves(g, m + 1)
    BY <2>2, <2>5
  <2> QED BY <2>6
<1> HIDE DEF T
<1>3. n \in T
  BY <1>1, <1>2, SetInduction
<1> QED BY <1>3 DEF T, StepsFrom

LEMMA SegmentInduction ==
  ASSUME NEW n \in Nat, NEW D, NEW f, f[0] \in D,
         \A i \in 0 .. n - 1 : f[i] \in D => f[i + 1] \in D
  PROVE  \A i \in 0 .. n : f[i] \in D
<1> DEFINE T == {i \in Nat : i <= n => f[i] \in D}
<1>1. 0 \in T
  OBVIOUS
<1>2. \A i \in T \cap Nat : i + 1 \in T
  OBVIOUS
<1> HIDE DEF T
<1>3. Nat \subseteq T
  BY <1>1, <1>2, SetInduction
<1> QED BY <1>3 DEF T

Searches(f, S, out, next) ==
  f = [p \in Nat |-> IF p \in S THEN out[p] ELSE f[next[p]]]

\* Every step leads on or to the end, and no further than to N.
LeadsOn(S, out, next, V, N) ==
  /\ \A p \in Nat \cap S : out[p] \in V[p]
  /\ \A p \in Nat \ S : /\ p <= N /\ V[next[p]] \subseteq V[p]
                        /\ next[p] \in S \/ next[p] > p

\* A search that goes from a place to the next until it stops: there is a
\* function that says what is found from where, also for places from which
\* the search never ends.
LEMMA SearchExists ==
  ASSUME NEW S, NEW out, NEW next \in [Nat -> Nat]
  PROVE  \E f : Searches(f, S, out, next)
<1> DEFINE Closed(C) == \A x \in C : x \in S \/ next[x] \in C
           R(p) == {x \in Nat : \A C \in SUBSET Nat : Closed(C) /\ p \in C => x \in C}
           f == [p \in Nat |-> out[CHOOSE t \in R(p) \cap S : TRUE]]
<1>1. \A p \in Nat : p \in R(p) /\ R(p) \in SUBSET Nat /\ Closed(R(p))
  <2> SUFFICES ASSUME NEW p \in Nat
               PROVE  p \in R(p) /\ R(p) \in SUBSET Nat /\ Closed(R(p))
    OBVIOUS
  <2>1. p \in R(p) /\ R(p) \in SUBSET Nat
    OBVIOUS
  <2>2. ASSUME NEW x \in R(p), x \notin S PROVE next[x] \in R(p)
    <3>1. next[x] \in Nat
      OBVIOUS
    <3>2. ASSUME NEW C \in SUBSET Nat, Closed(C), p \in C PROVE next[x] \in C
      BY <2>2, <3>2
    <3> QED BY <3>1, <3>2
  <2> QED BY <2>1, <2>2
<1>2. \A p \in Nat : \A C \in SUBSET Nat : Closed(C) /\ p \in C => R(p) \subseteq C
  OBVIOUS
<1>3. \A p \in Nat : p \in S => R(p) = {p}
  <2> SUFFICES ASSUME NEW p \in Nat, p \in S PROVE R(p) = {p}
    OBVIOUS
  <2>1. Closed({p}) /\ {p} \in SUBSET Nat
    OBVIOUS
  <2> HIDE DEF R, Closed
  <2> QED BY <1>1, <1>2, <2>1
<1>4. \A p \in Nat : p \notin S => R(p) \cap S = R(next[p]) \cap S
  <2> SUFFICES ASSUME NEW p \in Nat, p \notin S
               PROVE  R(p) \cap S = R(next[p]) \cap S
    OBVIOUS
  <2> DEFINE q == next[p]
             U == {p} \cup R(q)
  <2>1. q \in Nat
    OBVIOUS
  <2>2. q \in R(q) /\ R(q) \in SUBSET Nat /\ Closed(R(q))
    <3> HIDE DEF R, Closed, q
    <3> QED BY <1>1, <2>1
  <2>3. q \in R(p)
    <3>1. p \in R(p) /\ Closed(R(p))
      <4> HIDE DEF R, Closed
      <4> QED BY <1>1
    <3> HIDE DEF R
    <3> QED BY <3>1
  <2>4. R(q) \subseteq R(p)
    <3> HIDE DEF R, Closed, q
    <3> QED BY <1>1, <1>2, <2>1, <2>3
  <2>5. U \in SUBSET Nat /\ p \in U
    <3> HIDE DEF R
    <3> QED BY <2>2
  <2>6. Closed(U)
    <3> HIDE DEF R
    <3> QED BY <2>2
  <2>7. R(p) \subseteq U
    <3> HIDE DEF R, Closed, q, U
    <3> QED BY <1>2, <2>5, <2>6
  <2> HIDE DEF R, Closed
  <2> QED BY <2>4, <2>7
<1>5. \A p \in Nat : f[p] = IF p \in S THEN out[p] ELSE f[next[p]]
  <2> SUFFICES ASSUME NEW p \in Nat
               PROVE  f[p] = IF p \in S THEN out[p] ELSE f[next[p]]
    OBVIOUS
  <2> HIDE DEF R, Closed
  <2>1. CASE p \in S
    <3>1. R(p) \cap S = {p}
      BY <1>3, <2>1
    <3>2. (CHOOSE t \in {p} : TRUE) = p
      OBVIOUS
    <3> QED BY <2>1, <3>1, <3>2
  <2>2. CASE p \notin S
    <3>1. R(p) \cap S = R(next[p]) \cap S /\ next[p] \in Nat
      BY <1>4, <2>2
    <3> DEFINE Found(U) == out[CHOOSE t \in U : TRUE]
    <3>2. f[p] = Found(R(p) \cap S) /\ f[next[p]] = Found(R(next[p]) \cap S)
      BY <3>1
    <3> HIDE DEF Found, f
    <3> QED BY <2>2, <3>1, <3>2
  <2> QED BY <2>1, <2>2
<1>6. f = [p \in Nat |-> f[p]]
  OBVIOUS
<1> HIDE DEF f
<1>7. f = [p \in Nat |-> IF p \in S THEN out[p] ELSE f[next[p]]]
  BY <1>5, <1>6
<1> QED BY <1>7 DEF Searches

LEMMA SearchFinds ==
  ASSUME NEW S, NEW out, NEW next \in [Nat -> Nat], NEW V, NEW N \in Nat, NEW f,
         Searches(f, S, out, next), LeadsOn(S, out, next, V, N)
  PROVE  \A p \in Nat : f[p] \in V[p]
<1>0. /\ \A p \in Nat : f[p] = IF p \in S THEN out[p] ELSE f[next[p]]
      /\ \A p \in Nat \cap S : out[p] \in V[p]
      /\ \A p \in Nat \ S : /\ p <= N /\ V[next[p]] \subseteq V[p]
                            /\ next[p] \in S \/ next[p] > p
  BY DEF Searches, LeadsOn
<1> DEFINE T == {n \in Nat : \A p \in Nat : p + n > N => f[p] \in V[p]}
<1>1. 0 \in T
  BY <1>0
<1>2. ASSUME NEW n \in T \cap Nat PROVE n + 1 \in T
  <2> SUFFICES ASSUME NEW p \in Nat, p + (n + 1) > N PROVE f[p] \in V[p]
    OBVIOUS
  <2>1. CASE p \in S
    BY <1>0, <2>1
  <2>2. CASE p \notin S
    <3> DEFINE q == next[p]
    <3>1. q \in Nat /\ f[p] = f[q] /\ V[q] \subseteq V[p]
      BY <1>0, <2>2
    <3>2. CASE q \in S
      BY <1>0, <3>1, <3>2
    <3>3. CASE q > p
      <4>1. q + n > N
        <5>1. q \in Nat
          OBVIOUS
        <5> HIDE DEF q
        <5> QED BY <3>3, <5>1
      <4> QED BY <3>1, <4>1
    <3> QED BY <1>0, <2>2, <3>2, <3>3
  <2> QED BY <2>1, <2>2
<1> HIDE DEF T
<1>3. N + 1 \in T
  BY <1>1, <1>2, SetInduction
<1> QED BY <1>3 DEF T
=============================================================================
