------------------------- MODULE ConnectionListProofs -------------------------
(***************************************************************************)
(* Lemmas about the list of connections: every operation returns a list,   *)
(* and the iterator of a list that is not empty points at one of its       *)
(* elements.                                                               *)
(***************************************************************************)
EXTENDS ConnectionList, DataLemmas, TLAPS

\* The iterator points into the list.
ListOK(l) == IF IsEmpty(l) THEN l.next = NULL ELSE ContainsElement(l, l.next)

\* PositionOf finds an element that is there.
LEMMA PositionIsThere ==
  ASSUME NEW E, NEW l \in ListsOver(E), NEW e, ContainsElement(l, e)
  PROVE  PositionOf(l, e) \in 1 .. Len(l.elements) /\ l.elements[PositionOf(l, e)] = e
BY DEF ListsOver, ContainsElement, PositionOf, ToSet

\* Rotating the iterator keeps it in the list.
LEMMA RotateList ==
  ASSUME NEW E, NEW l \in ListsOver(E), ListOK(l)
  PROVE  Rotate(l) \in ListsOver(E) /\ ListOK(Rotate(l))
<1>1. CASE IsEmpty(l)
  BY <1>1 DEF Rotate
<1>2. CASE ~IsEmpty(l)
  BY <1>2, PositionIsThere
     DEF ListsOver, Rotate, IsEmpty, ListOK, After, ContainsElement, ToSet
<1> QED BY <1>1, <1>2

\* Inserting at the head keeps the iterator where it was, or starts it.
LEMMA InsertList ==
  ASSUME NEW E, NEW l \in ListsOver(E), NEW e \in E, ListOK(l)
  PROVE  InsertElement(l, e) \in ListsOver(E) /\ ListOK(InsertElement(l, e))
<1> DEFINE m == InsertElement(l, e)
<1>1. /\ m.elements \in Seq(E) /\ m.next \in E \cup {NULL}
      /\ m \in ListsOver(E)
      /\ m.next = IF IsEmpty(l) THEN e ELSE l.next
  BY DEF ListsOver, InsertElement, IsEmpty
<1>2. /\ DOMAIN m.elements = 1 .. Len(l.elements) + 1
      /\ m.elements[1] = e
      /\ \A k \in 1 .. Len(l.elements) : m.elements[k + 1] = l.elements[k]
  BY DEF ListsOver, InsertElement, IsEmpty
<1>3. l.elements \in Seq(E) /\ Len(l.elements) \in Nat
  BY DEF ListsOver
<1> HIDE DEF m
<1>4. ~IsEmpty(m)
  BY <1>1, <1>2, <1>3 DEF IsEmpty
<1>5. CASE IsEmpty(l)
  <2>1. 1 \in DOMAIN m.elements
    BY <1>2, <1>3
  <2> QED BY <1>1, <1>2, <1>4, <1>5, <2>1 DEF ListOK, ContainsElement, ToSet, m
<1>6. CASE ~IsEmpty(l)
  <2>1. PICK k \in 1 .. Len(l.elements) : l.elements[k] = l.next
    BY <1>3, <1>6 DEF ListOK, ContainsElement, ToSet
  <2>2. k + 1 \in DOMAIN m.elements /\ m.elements[k + 1] = m.next
    BY <1>1, <1>2, <1>3, <1>6, <2>1
  <2> QED BY <1>1, <1>4, <2>2 DEF ListOK, ContainsElement, ToSet, m
<1> QED BY <1>5, <1>6

\* Removing an element moves the iterator off it.
LEMMA RemoveList ==
  ASSUME NEW E, NULL \notin E, NEW l \in ListsOver(E), NEW e, ListOK(l)
  PROVE  RemoveElement(l, e) \in ListsOver(E) /\ ListOK(RemoveElement(l, e))
<1>1. CASE ~ContainsElement(l, e)
  BY <1>1 DEF RemoveElement
<1>2. CASE ContainsElement(l, e)
  <2> DEFINE s == l.elements
             p == PositionOf(l, e)
             rest == RemoveAt(s, p)
             next == IF rest = << >> THEN NULL
                     ELSE IF l.next = e THEN After(l, e) ELSE l.next
  <2>1. s \in Seq(E) /\ p \in 1 .. Len(s) /\ s[p] = e /\ l.next \in E \cup {NULL}
    BY <1>2, PositionIsThere DEF ListsOver
  <2>2. /\ rest \in Seq(E) /\ Len(rest) = Len(s) - 1 /\ DOMAIN rest = 1 .. Len(s) - 1
        /\ \A k \in 1 .. Len(s) : k < p => rest[k] = s[k]
        /\ \A k \in 1 .. Len(s) : k > p => rest[k - 1] = s[k]
    <3> HIDE DEF s, p
    <3>1. /\ rest \in Seq(E) /\ Len(rest) = Len(s) - 1
          /\ \A k \in 1 .. Len(s) : k < p => rest[k] = s[k]
          /\ \A k \in 1 .. Len(s) : k > p => rest[k - 1] = s[k]
      BY <2>1, RemoveAtProperties
    <3> HIDE DEF rest
    <3> QED BY <3>1
  <2>3. RemoveElement(l, e) = [elements |-> rest, next |-> next]
    BY <1>2 DEF RemoveElement
  <2>4. After(l, e) = IF p < Len(s) THEN s[p + 1] ELSE s[1]
    BY DEF After
  <2>5. ~IsEmpty(l) => l.next \in ToSet(s)
    BY DEF ListOK, ContainsElement
  <2>6. ~IsEmpty(l)
    BY <2>1 DEF IsEmpty
  <2> HIDE DEF rest, p, s
  <2>7. ASSUME rest # << >> PROVE next \in ToSet(rest)
    <3>1. Len(s) > 1
      BY <2>1, <2>2, <2>7
    <3>2. CASE l.next = e /\ p < Len(s)
      <4>1. rest[p] = s[p + 1] /\ p \in DOMAIN rest
        BY <2>1, <2>2, <3>2
      <4> QED BY <2>4, <2>7, <3>2, <4>1 DEF ToSet
    <3>3. CASE l.next = e /\ ~(p < Len(s))
      <4>1. rest[1] = s[1] /\ 1 \in DOMAIN rest
        BY <2>1, <2>2, <3>1, <3>3
      <4> QED BY <2>4, <2>7, <3>3, <4>1 DEF ToSet
    <3>4. CASE l.next # e
      <4>1. PICK k \in 1 .. Len(s) : s[k] = l.next
        BY <2>1, <2>5, <2>6 DEF ToSet
      <4>2. k # p
        BY <2>1, <3>4, <4>1
      <4>3. \E j \in DOMAIN rest : rest[j] = l.next
        <5>1. CASE k < p
          BY <2>1, <2>2, <4>1, <5>1
        <5>2. CASE k > p
          <6>1. k - 1 \in DOMAIN rest /\ rest[k - 1] = l.next
            BY <2>1, <2>2, <4>1, <5>2
          <6> QED BY <6>1
        <5> QED BY <2>1, <4>1, <4>2, <5>1, <5>2
      <4> QED BY <2>7, <3>4, <4>3 DEF ToSet
    <3> QED BY <3>2, <3>3, <3>4
  <2>8. \A x \in ToSet(rest) : x \in E
    BY <2>2 DEF ToSet
  <2>9. next \in E \cup {NULL} /\ (rest = << >> => next = NULL)
    BY <2>7, <2>8
  <2> HIDE DEF next
  <2>10. [elements |-> rest, next |-> next] \in ListsOver(E)
    BY <2>2, <2>9 DEF ListsOver
  <2>11. ListOK([elements |-> rest, next |-> next])
    BY <2>7, <2>9 DEF ListOK, IsEmpty, ContainsElement
  <2> QED BY <2>3, <2>10, <2>11
<1> QED BY <1>1, <1>2

-----------------------------------------------------------------------------
\* No element is in the list twice.
Distinct(l) == \A j, k \in 1 .. Len(l.elements) : l.elements[j] = l.elements[k] => j = k

\* A list contains what one of its positions holds.
LEMMA ElementHasPosition ==
  ASSUME NEW l, NEW E, l.elements \in Seq(E), NEW b
  PROVE  ContainsElement(l, b) <=> \E k \in 1 .. Len(l.elements) : l.elements[k] = b
<1>1. DOMAIN l.elements = 1 .. Len(l.elements)
  OBVIOUS
<1> QED BY <1>1 DEF ContainsElement, ToSet

\* What InsertElement and RemoveElement do to the set of elements.
LEMMA InsertElements ==
  ASSUME NEW E, NEW l \in ListsOver(E), NEW e \in E,
         Distinct(l), ~ContainsElement(l, e)
  PROVE  /\ Distinct(InsertElement(l, e))
         /\ \A b : ContainsElement(InsertElement(l, e), b)
                     <=> b = e \/ ContainsElement(l, b)
<1> DEFINE s == l.elements
           m == InsertElement(l, e).elements
<1>1. s \in Seq(E) /\ m = <<e>> \o s
  BY DEF ListsOver, InsertElement
<1>2. /\ m \in Seq(E) /\ Len(m) = Len(s) + 1 /\ m[1] = e
      /\ \A k \in 2 .. Len(m) : m[k] = s[k - 1]
  BY <1>1
<1>3. \A k \in 1 .. Len(s) : s[k] # e /\ m[k + 1] = s[k]
  BY <1>1, <1>2 DEF ContainsElement, ToSet
<1>4. Distinct(InsertElement(l, e))
  <2> SUFFICES ASSUME NEW j \in 1 .. Len(m), NEW k \in 1 .. Len(m), m[j] = m[k]
               PROVE  j = k
    BY DEF Distinct
  <2>1. CASE j = 1 \/ k = 1
    BY <1>1, <1>2, <1>3, <2>1
  <2>2. CASE j # 1 /\ k # 1
    <3>1. j - 1 \in 1 .. Len(s) /\ k - 1 \in 1 .. Len(s) /\ s[j - 1] = s[k - 1]
      BY <1>1, <1>2, <2>2
    <3>2. j - 1 = k - 1
      BY <3>1 DEF Distinct
    <3> QED BY <3>2
  <2> QED BY <2>1, <2>2
<1>5. ASSUME NEW b
      PROVE  (\E k \in 1 .. Len(m) : m[k] = b)
               <=> b = e \/ \E k \in 1 .. Len(s) : s[k] = b
  <2>1. ASSUME NEW k \in 1 .. Len(m), m[k] = b
        PROVE  b = e \/ \E j \in 1 .. Len(s) : s[j] = b
    <3>1. CASE k = 1
      BY <1>2, <2>1, <3>1
    <3>2. CASE k # 1
      <4>1. k - 1 \in 1 .. Len(s) /\ s[k - 1] = b
        BY <1>1, <1>2, <2>1, <3>2
      <4> QED BY <4>1
    <3> QED BY <3>1, <3>2
  <2>2. ASSUME NEW k \in 1 .. Len(s), s[k] = b
        PROVE  \E j \in 1 .. Len(m) : m[j] = b
    <3>1. k + 1 \in 1 .. Len(m) /\ m[k + 1] = b
      BY <1>1, <1>2, <1>3, <2>2
    <3> QED BY <3>1
  <2>3. 1 \in 1 .. Len(m) /\ m[1] = e
    BY <1>1, <1>2
  <2> QED BY <2>1, <2>2, <2>3
<1>6. \A b : /\ ContainsElement(InsertElement(l, e), b) <=> \E k \in 1 .. Len(m) : m[k] = b
             /\ ContainsElement(l, b) <=> \E k \in 1 .. Len(s) : s[k] = b
  BY <1>1, <1>2, ElementHasPosition
<1> QED BY <1>4, <1>5, <1>6

LEMMA RemoveElements ==
  ASSUME NEW E, NEW l \in ListsOver(E), NEW e, Distinct(l)
  PROVE  /\ Distinct(RemoveElement(l, e))
         /\ \A b : ContainsElement(RemoveElement(l, e), b)
                     <=> b # e /\ ContainsElement(l, b)
<1>1. CASE ~ContainsElement(l, e)
  BY <1>1 DEF RemoveElement
<1>2. CASE ContainsElement(l, e)
  <2> DEFINE s == l.elements
             p == PositionOf(l, e)
             r == RemoveElement(l, e).elements
  <2>1. s \in Seq(E) /\ p \in 1 .. Len(s) /\ s[p] = e
    BY <1>2, PositionIsThere DEF ListsOver
  <2>2. r = RemoveAt(s, p)
    BY <1>2 DEF RemoveElement
  <2> HIDE DEF s, p, r
  <2>3. /\ r \in Seq(E) /\ Len(r) = Len(s) - 1
        /\ \A k \in 1 .. Len(s) : k < p => r[k] = s[k]
        /\ \A k \in 1 .. Len(s) : k > p => r[k - 1] = s[k]
    BY <2>1, <2>2, RemoveAtProperties
  <2> DEFINE At(k) == IF k < p THEN k ELSE k + 1
  <2>4. \A k \in 1 .. Len(r) : At(k) \in 1 .. Len(s) /\ At(k) # p /\ r[k] = s[At(k)]
    <3> SUFFICES ASSUME NEW k \in 1 .. Len(r)
                 PROVE  At(k) \in 1 .. Len(s) /\ At(k) # p /\ r[k] = s[At(k)]
      OBVIOUS
    <3>1. k < p => k \in 1 .. Len(s)
      BY <2>1, <2>3
    <3>2. k >= p => k + 1 \in 1 .. Len(s) /\ k + 1 > p /\ (k + 1) - 1 = k
      BY <2>1, <2>3
    <3> QED BY <2>1, <2>3, <3>1, <3>2
  <2>5. \A j, k \in 1 .. Len(s) : s[j] = s[k] => j = k
    BY DEF Distinct, s
  <2>6. \A j, k \in 1 .. Len(r) : At(j) = At(k) => j = k
    BY <2>1, <2>3
  <2>7. Distinct(RemoveElement(l, e))
    <3>1. \A j, k \in 1 .. Len(r) : r[j] = r[k] => At(j) = At(k)
      BY <2>4, <2>5
    <3> QED BY <2>6, <3>1 DEF Distinct, r
  <2>8. ASSUME NEW b
        PROVE  (\E k \in 1 .. Len(r) : r[k] = b)
                 <=> b # e /\ \E k \in 1 .. Len(s) : s[k] = b
    <3>1. ASSUME NEW k \in 1 .. Len(r), r[k] = b
          PROVE  b # e /\ \E j \in 1 .. Len(s) : s[j] = b
      <4>1. At(k) \in 1 .. Len(s) /\ At(k) # p /\ s[At(k)] = b
        BY <2>4, <3>1
      <4> QED BY <2>1, <2>5, <4>1
    <3>2. ASSUME b # e, NEW k \in 1 .. Len(s), s[k] = b
          PROVE  \E j \in 1 .. Len(r) : r[j] = b
      <4>1. CASE k < p
        <5>1. k \in 1 .. Len(r) /\ r[k] = b
          BY <2>1, <2>3, <3>2, <4>1
        <5> QED BY <5>1
      <4>2. CASE k > p
        <5>1. k - 1 \in 1 .. Len(r) /\ r[k - 1] = b
          BY <2>1, <2>3, <3>2, <4>2
        <5> QED BY <5>1
      <4> QED BY <2>1, <3>2, <4>1, <4>2
    <3> QED BY <3>1, <3>2
  <2>9. /\ RemoveElement(l, e).elements \in Seq(E) /\ l.elements \in Seq(E)
        /\ r = RemoveElement(l, e).elements /\ s = l.elements
    BY <2>1, <2>3 DEF r, s
  <2>10. ASSUME NEW b
         PROVE  /\ ContainsElement(RemoveElement(l, e), b) <=> \E k \in 1 .. Len(r) : r[k] = b
                /\ ContainsElement(l, b) <=> \E k \in 1 .. Len(s) : s[k] = b
    BY <2>9, ElementHasPosition
  <2> QED BY <2>7, <2>8, <2>10
<1> QED BY <1>1, <1>2

\* The rotating iterator leaves the elements where they are.
LEMMA RotateElements == \A l : Rotate(l).elements = l.elements
<1> SUFFICES ASSUME NEW l PROVE Rotate(l).elements = l.elements
  OBVIOUS
<1> QED BY DEF Rotate
=============================================================================
