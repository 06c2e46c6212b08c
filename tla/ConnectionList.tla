---------------------------- MODULE ConnectionList ----------------------------
(***************************************************************************)
(* The list of a channel's connections: what Collections/IteratedList*.c   *)
(* do for the calls channel.c makes.  A list is the sequence of its        *)
(* payloads from first on, and the payload of the node its iterator (next) *)
(* points at, NULL for no node.  Payloads of one list differ: channel_bind *)
(* asks containsElement before it inserts, so a payload names its node.    *)
(***************************************************************************)
EXTENDS Integers, SequencesExt

CONSTANT NULL

ListsOver(E) == [elements: Seq(E), next: E \cup {NULL}]

\* IteratedList_constructList
EmptyList == [elements |-> << >>, next |-> NULL]

IsEmpty(l) == l.elements = << >>
Length(l) == Len(l.elements)
ContainsElement(l, e) == e \in ToSet(l.elements)

\* IteratedList_getElementN counts from 0.
ElementN(l, n) == IF n < Len(l.elements) THEN l.elements[n + 1] ELSE NULL

PositionOf(l, e) == CHOOSE k \in 1 .. Len(l.elements) : l.elements[k] = e

\* A new element goes to the head.
InsertElement(l, e) ==
  [elements |-> <<e>> \o l.elements,
   next     |-> IF IsEmpty(l) THEN e ELSE l.next]

\* The element after e, wrapping round to the first one.
After(l, e) ==
  IF PositionOf(l, e) < Len(l.elements)
    THEN l.elements[PositionOf(l, e) + 1]
    ELSE l.elements[1]

\* IteratedList_getNextElement returns l.next (NULL from an empty list) and
\* leaves the list rotated.
Rotate(l) == IF IsEmpty(l) THEN l ELSE [l EXCEPT !.next = After(l, l.next)]

\* The iterator moves on from the node that is removed.
RemoveElement(l, e) ==
  IF ~ContainsElement(l, e)
    THEN l
    ELSE LET rest == RemoveAt(l.elements, PositionOf(l, e))
         IN [elements |-> rest,
             next     |-> IF rest = << >>     THEN NULL
                          ELSE IF l.next = e  THEN After(l, e)
                          ELSE l.next]
=============================================================================
