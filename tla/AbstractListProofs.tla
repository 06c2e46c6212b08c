-------------------------- MODULE AbstractListProofs --------------------------
(***************************************************************************)
(* What users of an iterated list rely on: its iterator is always at one   *)
(* of its elements, and a reading returns an element or NULL.              *)
(***************************************************************************)
EXTENDS AbstractList, ConnectionListProofs

\* What holds of a list and of what it returned.
ListSound ==
  /\ list \in ListsOver(Elements) /\ ListOK(list)
  /\ returned \in Elements \cup {NULL}

\* The iterator may be put at any element.
LEMMA MovedList ==
  ASSUME list \in ListsOver(Elements), NEW e \in ToSet(list.elements)
  PROVE  MovedTo(e) \in ListsOver(Elements) /\ ListOK(MovedTo(e))
<1>1. list.elements \in Seq(Elements) /\ list.elements # << >>
  BY DEF ListsOver, ToSet
<1>2. e \in Elements
  BY <1>1 DEF ToSet
<1> QED BY <1>1, <1>2 DEF MovedTo, ListsOver, ListOK, IsEmpty, ContainsElement

\* What getElementN returns, the first of a list that is not empty included.
LEMMA ElementNType ==
  ASSUME NEW l \in ListsOver(Elements), NEW n \in Nat
  PROVE  /\ ElementN(l, n) \in Elements \cup {NULL}
         /\ ~IsEmpty(l) => ElementN(l, 0) \in ToSet(l.elements)
BY DEF ElementN, ListsOver, IsEmpty, ToSet

\* No sequence of insertions, removals, iterations, rewindings and searches
\* by several threads leaves the iterator of the list elsewhere.
THEOREM ListAlwaysSound ==
  ASSUME NULL \notin Elements
  PROVE  Spec => []ListSound
<1>1. Init => ListSound
  BY DEF Init, ListSound, EmptyList, ListsOver, ListOK, IsEmpty
<1>2. ListSound /\ [Next]_<<list, returned>> => ListSound'
  <2> SUFFICES ASSUME ListSound, [Next]_<<list, returned>>
               PROVE  ListSound'
    OBVIOUS
  <2> USE DEF ListSound
  <2>1. CASE Insert
    BY <2>1, InsertList DEF Insert
  <2>2. CASE RemoveOne
    BY <2>2, RemoveList DEF RemoveOne
  <2>3. CASE Pop
    BY <2>3, RemoveList, ElementNType DEF Pop
  <2>4. CASE GetNext
    BY <2>4, RotateList DEF GetNext, ListsOver
  <2>5. CASE Get
    BY <2>5, ElementNType DEF Get, Length, ListsOver
  <2>6. CASE Rewind
    <3>1. CASE IsEmpty(list)
      BY <2>6, <3>1 DEF Rewind, MovedTo, ElementN, IsEmpty, ListsOver, ListOK
    <3>2. CASE ~IsEmpty(list)
      BY <2>6, <3>2, ElementNType, MovedList DEF Rewind
    <3> QED BY <3>1, <3>2
  <2>7. CASE Clear
    BY <2>7 DEF Clear, EmptyList, ListsOver, ListOK, IsEmpty
  <2>8. CASE Search
    BY <2>8, MovedList DEF Search
  <2>9. CASE UNCHANGED <<list, returned>>
    BY <2>9 DEF ListOK, IsEmpty, ContainsElement
  <2> QED BY <2>1, <2>2, <2>3, <2>4, <2>5, <2>6, <2>7, <2>8, <2>9 DEF Next
<1> QED BY <1>1, <1>2, PTL DEF Spec
=============================================================================
