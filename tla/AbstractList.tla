----------------------------- MODULE AbstractList -----------------------------
(***************************************************************************)
(* What an iterated list promises to those that use it: a list in the      *)
(* sense of ConnectionList, and what the last reading of it returned.      *)
(* Several threads may search a shared list: they leave its iterator at    *)
(* any element.                                                            *)
(***************************************************************************)
EXTENDS ConnectionList

CONSTANT Elements

VARIABLES list, returned, shared

Insert ==
  \E e \in Elements \ ToSet(list.elements) :
    list' = InsertElement(list, e) /\ UNCHANGED returned

RemoveOne ==
  \E e \in ToSet(list.elements) :
    list' = RemoveElement(list, e) /\ UNCHANGED returned

Pop ==
  /\ list' = RemoveElement(list, ElementN(list, 0))
  /\ returned' = ElementN(list, 0)

GetNext == returned' = list.next /\ list' = Rotate(list)

Get == \E n \in 0 .. Length(list) :
         returned' = ElementN(list, n) /\ UNCHANGED list

\* The iterator goes elsewhere.
MovedTo(e) == [elements |-> list.elements, next |-> e]

Rewind == list' = MovedTo(ElementN(list, 0)) /\ UNCHANGED returned

Clear == list' = EmptyList /\ UNCHANGED returned

Search ==
  /\ shared
  /\ \E e \in ToSet(list.elements) : list' = MovedTo(e)
  /\ UNCHANGED returned

Init == list = EmptyList /\ returned = NULL

Next == Insert \/ RemoveOne \/ Pop \/ GetNext \/ Get \/ Rewind \/ Clear \/ Search

Spec == Init /\ [][Next]_<<list, returned>>
=============================================================================
