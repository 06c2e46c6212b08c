----------------------------- MODULE IteratedList -----------------------------
(***************************************************************************)
(* The iterated list on its nodes and pointers (IteratedList.h), in the    *)
(* ways the machine uses one: for the connections of a channel, for        *)
(* the data stack and the stack of scopes, for the parameters of a         *)
(* component, for the names of a constructor, which insertElementAtTail    *)
(* collects, and for a map, which several threads search at the same time. *)
(* A freed node may be allocated again.                                    *)
(***************************************************************************)
EXTENDS Integers, FiniteSets, Sequences, Functions

CONSTANTS Elements, Nodes, Threads, NULL,
          Absent,                \* a key that is never declared
          Usages

ASSUME UsagesAssumption ==
  Usages \subseteq {"connections", "stack", "parameters", "names", "map"}

ASSUME AbsentAssumption ==
  Absent \notin Elements /\ NULL \notin Nodes \cup Elements \cup {Absent}

VARIABLES
  usage, phase,         \* the list is built, then used, then gone
  first, next, last,
  payload, tail,        \* of every node
  live,                 \* the nodes that are allocated
  wild,                 \* something was written into a node that is not
  inserted, read,       \* the names, as they were inserted and read
  returned,             \* by the last reading
  pc, key, start, current, hold,   \* of every thread that searches
  overlapped,           \* another search moved the iterator meanwhile
  crashed

pointers == <<first, next, last>>
nodes == <<payload, tail, live, wild>>
names == <<inserted, read>>
searches == <<pc, key, start, current, hold, overlapped, crashed>>
vars == <<usage, phase, pointers, nodes, names, returned, searches>>

IsEmpty == first = NULL

\* The nodes from n on, as long as there is a tail, once round a ring
Closed(S, succ) == \A m \in S : succ[m] \in S \cup {NULL}
From(n, succ) ==
  {m \in Nodes :
     \A S \in SUBSET Nodes : Closed(S, succ) /\ n \in S \cup {NULL} => m \in S}

OnList == From(first, tail)

\* The k-th node, counted from 0, of a list that is no ring
NodeN(k) ==
  LET at[i \in Nat] == IF i = 0 THEN first
                       ELSE IF at[i - 1] = NULL THEN NULL ELSE tail[at[i - 1]]
  IN at[k]

Payload(n) == IF n = NULL THEN NULL ELSE payload[n]

ContainsElement(e) == \E n \in OnList : payload[n] = e
GetElementN(k) == Payload(NodeN(k))
GetListLength == Cardinality(OnList)

\* Mutant: the iterator goes beyond the last node.
WrappedNowhere(n) == tail[n]

\* Where the iterator goes from node n
Wrapped(n) == IF tail[n] = NULL THEN first ELSE tail[n]

(***************************************************************************)
(* The operations, on a list that one thread has to itself.                *)
(***************************************************************************)
\* Where nothing is removed it does not matter which of them is allocated.
FreeNodes ==
  IF usage \in {"connections", "stack"} \/ live = Nodes THEN Nodes \ live
  ELSE {CHOOSE n \in Nodes : n \notin live}

\* Every key of a map is searched for: it does not matter which comes first.
NewElements ==
  LET new == {e \in Elements : ~ContainsElement(e)}
  IN IF usage # "map" \/ new = {} THEN new ELSE {CHOOSE e \in new : TRUE}

\* Mutant: the payload is not assigned.
ConstructNodeEmpty(n, e, successor) ==
  /\ live' = live \cup {n}
  /\ tail' = [tail EXCEPT ![n] = successor]
  /\ UNCHANGED <<payload, wild>>

ConstructNode(n, e, successor) ==
  /\ live' = live \cup {n}
  /\ payload' = [payload EXCEPT ![n] = e]
  /\ tail' = [tail EXCEPT ![n] = successor]
  /\ UNCHANGED wild

InsertElement ==
  /\ phase = "build" /\ usage # "names"
  /\ \E e \in NewElements, n \in FreeNodes :
       /\ ConstructNode(n, e, first)
       /\ first' = n
       /\ last' = IF IsEmpty THEN n ELSE last
       /\ next' = IF IsEmpty THEN n ELSE next
  /\ UNCHANGED <<usage, phase, names, returned, searches>>

\* Mutant: a name goes to the head.
InsertElementAtHead ==
  /\ phase = "build" /\ usage = "names"
  /\ \E e \in Elements \ Range(inserted), n \in FreeNodes :
       /\ ConstructNode(n, e, first)
       /\ first' = n /\ next' = n
       /\ last' = IF IsEmpty THEN n ELSE last
       /\ inserted' = Append(inserted, e)
  /\ UNCHANGED <<usage, phase, read, returned, searches>>

InsertElementAtTail ==
  /\ phase = "build" /\ usage = "names"
  /\ \E e \in Elements \ Range(inserted), n \in FreeNodes :
       /\ live' = live \cup {n}
       /\ payload' = [payload EXCEPT ![n] = e]
       /\ first' = IF IsEmpty THEN n ELSE first
       /\ next' = IF IsEmpty THEN n ELSE next
       /\ last' = IF IsEmpty THEN n ELSE last
       /\ tail' = [m \in Nodes |-> IF m = n THEN first'
                                   ELSE IF m = last /\ ~IsEmpty THEN n
                                   ELSE tail[m]]
       /\ wild' = (wild \/ last' \notin live')
       /\ inserted' = Append(inserted, e)
  /\ UNCHANGED <<usage, phase, read, returned, searches>>

\* Mutant: what comes before the node still leads to it.
UnlinkNot(n, previous) ==
  /\ first' = IF n = first THEN tail[n] ELSE first
  /\ next' = IF next # n THEN next
             ELSE IF n # first /\ tail[n] = NULL THEN first
             ELSE tail[n]
  /\ live' = live \ {n}
  /\ UNCHANGED <<last, payload, tail, wild>>

\* Mutant: the iterator goes back to the first node.
UnlinkRewinds(n, previous) ==
  /\ first' = IF n = first THEN tail[n] ELSE first
  /\ next' = IF next # n THEN next ELSE first'
  /\ tail' = [m \in Nodes |-> IF m = n THEN NULL
                              ELSE IF m = previous THEN tail[n] ELSE tail[m]]
  /\ payload' = [payload EXCEPT ![n] = NULL]
  /\ live' = live \ {n}
  /\ UNCHANGED <<last, wild>>

Unlink(n, previous) ==
  /\ first' = IF n = first THEN tail[n] ELSE first
  /\ next' = IF next # n THEN next
             ELSE IF n # first /\ tail[n] = NULL THEN first
             ELSE tail[n]
  /\ tail' = [m \in Nodes |-> IF m = n THEN NULL
                              ELSE IF m = previous THEN tail[n] ELSE tail[m]]
  /\ payload' = [payload EXCEPT ![n] = NULL]
  /\ live' = live \ {n}
  /\ UNCHANGED <<last, wild>>

Previous(n) ==
  IF n = first THEN NULL ELSE CHOOSE m \in OnList : tail[m] = n

\* channel_unbind removes connections of its channel and of the others.
RemoveElement ==
  /\ phase = "build" /\ usage = "connections"
  /\ \E n \in OnList : Unlink(n, Previous(n))
  /\ UNCHANGED <<usage, phase, names, returned, searches>>

\* Stack_pop, ScopeStack_exitScope: the first element is fetched and removed.
Pop ==
  /\ phase = "build" /\ usage = "stack" /\ ~IsEmpty
  /\ returned' = GetElementN(0)
  /\ Unlink(first, NULL)
  /\ UNCHANGED <<usage, phase, names, searches>>

GetElement ==
  /\ phase = "build" /\ usage \in {"connections", "stack", "parameters"}
  /\ \E k \in 0 .. GetListLength : returned' = GetElementN(k)
  /\ UNCHANGED <<usage, phase, pointers, nodes, names, searches>>

GetNextElement ==
  /\ \/ phase = "build" /\ usage \in {"connections", "parameters"}
     \/ phase = "use" /\ usage = "names" /\ Len(read) < Len(inserted)
  /\ returned' = IF IsEmpty THEN NULL ELSE payload[next]
  /\ next' = IF IsEmpty THEN next ELSE Wrapped(next)
  /\ read' = IF usage = "names" THEN Append(read, returned') ELSE read
  /\ UNCHANGED <<usage, phase, first, last, nodes, inserted, searches>>

\* ListMap_put and ListMap_get, while nobody else knows the map: a search ends
\* behind what it finds.
PutOrGet ==
  /\ phase = "build" /\ usage = "map"
  /\ \E n \in OnList : next' = Wrapped(n)
  /\ UNCHANGED <<usage, phase, first, last, nodes, names, returned, searches>>

\* The parameters, and the names when they are complete
Rewind ==
  /\ phase = "build" /\ usage \in {"parameters", "names"}
  /\ next' = IF IsEmpty THEN next ELSE first
  /\ phase' = IF usage = "names" THEN "use" ELSE phase
  /\ UNCHANGED <<usage, first, last, nodes, names, returned, searches>>

(***************************************************************************)
(* The last reference to the list is given up: IteratedList_decRef removes *)
(* what is in it.  A channel that is connected is referred to by the other *)
(* one, so that its own list is empty then.                                *)
(***************************************************************************)
RemoveAllElements ==
  LET cut == [m \in Nodes |-> IF m = last THEN NULL ELSE tail[m]]
  IN /\ live' = live \ From(first, cut)
     /\ tail' = cut
     /\ wild' = (wild \/ last \notin live)
     /\ first' = NULL /\ next' = NULL
     /\ UNCHANGED <<last, payload>>

\* Mutant: a channel is given up while it is connected.
DecRefConnected ==
  /\ IF usage \in {"names", "map"} THEN phase = "use" ELSE phase = "build"
  /\ usage = "names" => Len(read) = Len(inserted)
  /\ \A t \in Threads : pc[t] \in {"idle", "done"}
  /\ phase' = "gone"
  /\ IF IsEmpty THEN UNCHANGED <<pointers, nodes>> ELSE RemoveAllElements
  /\ UNCHANGED <<usage, names, returned, searches>>

DecRef ==
  /\ IF usage \in {"names", "map"} THEN phase = "use" ELSE phase = "build"
  /\ usage = "connections" => IsEmpty
  /\ usage = "names" => Len(read) = Len(inserted)
  /\ \A t \in Threads : pc[t] \in {"idle", "done"}
  /\ phase' = "gone"
  /\ IF IsEmpty THEN UNCHANGED <<pointers, nodes>> ELSE RemoveAllElements
  /\ UNCHANGED <<usage, names, returned, searches>>

(***************************************************************************)
(* IteratedList_searchList for a key of a map, one access to the list at a *)
(* time: the iterator is that of the list, and there is no lock.           *)
(***************************************************************************)
Searching(t) == pc[t] \notin {"idle", "done"}

\* The map is complete: its component runs.
Share ==
  /\ phase = "build" /\ usage = "map"
  /\ phase' = "use"
  /\ UNCHANGED <<usage, pointers, nodes, names, returned, searches>>

Begin(t) ==
  /\ usage = "map" /\ phase = "use" /\ ~IsEmpty /\ ~crashed
  /\ ~Searching(t)
  /\ pc' = [pc EXCEPT ![t] = "payload"]
  /\ key' \in {[key EXCEPT ![t] = k] : k \in Elements \cup {Absent}}
  /\ start' = [start EXCEPT ![t] = NULL]
  /\ current' = [current EXCEPT ![t] = NULL]
  /\ overlapped' = [u \in Threads |->
                      IF u = t THEN \E v \in Threads : Searching(v)
                      ELSE overlapped[u] \/ Searching(u)]
  /\ UNCHANGED <<usage, phase, pointers, nodes, names, returned, hold, crashed>>

\* A pointer that is NULL ends the whole program.
Crash(t) ==
  /\ ~crashed /\ pc[t] \in {"payload", "tail"} /\ next = NULL
  /\ crashed' = TRUE
  /\ UNCHANGED <<usage, phase, pointers, nodes, names, returned, pc, key, start,
                 current, hold, overlapped>>

\* element = l->next->payload
ReadPayload(t) ==
  /\ ~crashed /\ pc[t] = "payload" /\ next # NULL
  /\ current' = [current EXCEPT ![t] = payload[next]]
  /\ pc' = [pc EXCEPT ![t] = "tail"]
  /\ UNCHANGED <<usage, phase, pointers, nodes, names, returned, key, start,
                 hold, overlapped, crashed>>

\* l->next = l->next->tail, the reading
ReadTail(t) ==
  /\ ~crashed /\ pc[t] = "tail" /\ next # NULL
  /\ hold' = [hold EXCEPT ![t] = tail[next]]
  /\ pc' = [pc EXCEPT ![t] = "move"]
  /\ UNCHANGED <<usage, phase, pointers, nodes, names, returned, key, start,
                 current, overlapped, crashed>>

\* and the writing
MoveOn(t) ==
  /\ ~crashed /\ pc[t] = "move"
  /\ next' = hold[t]
  /\ hold' = [hold EXCEPT ![t] = NULL]
  /\ pc' = [pc EXCEPT ![t] = "check"]
  /\ UNCHANGED <<usage, phase, first, last, nodes, names, returned, key, start,
                 current, overlapped, crashed>>

\* Mutant: the search ends at the first element of the list.
CompareFirst(t) ==
  LET seen == current[t]
      over == seen = key[t] \/ seen = payload[first]
  IN /\ pc' = [pc EXCEPT ![t] = IF over THEN "done" ELSE "payload"]
     /\ current' = [current EXCEPT ![t] = IF seen = key[t] THEN seen ELSE NULL]
     /\ start' = [start EXCEPT ![t] = NULL]

\* Mutant: the search ends at the element before.
ComparePrevious(t) ==
  LET seen == current[t]
      over == seen = key[t] \/ seen = start[t]
  IN /\ pc' = [pc EXCEPT ![t] = IF over THEN "done" ELSE "payload"]
     /\ current' = [current EXCEPT ![t] = IF seen = key[t] THEN seen ELSE NULL]
     /\ start' = [start EXCEPT ![t] = IF over THEN NULL ELSE seen]

\* The element is the one, or the first that was seen, or the search goes on.
Compare(t) ==
  LET seen == current[t]
      over == seen = key[t] \/ seen = start[t]
  IN /\ pc' = [pc EXCEPT ![t] = IF over THEN "done" ELSE "payload"]
     /\ current' = [current EXCEPT ![t] = IF seen = key[t] THEN seen ELSE NULL]
     /\ start' = [start EXCEPT ![t] =
                    IF over THEN NULL ELSE IF @ = NULL THEN seen ELSE @]

Check(t) ==
  /\ ~crashed /\ pc[t] = "check"
  /\ IF next = NULL
       THEN pc' = [pc EXCEPT ![t] = "wrap"] /\ UNCHANGED <<current, start>>
       ELSE Compare(t)
  /\ UNCHANGED <<usage, phase, pointers, nodes, names, returned, key, hold,
                 overlapped, crashed>>

Wrap(t) ==
  /\ ~crashed /\ pc[t] = "wrap"
  /\ next' = first
  /\ Compare(t)
  /\ UNCHANGED <<usage, phase, first, last, nodes, names, returned, key, hold,
                 overlapped, crashed>>

(***************************************************************************)
(* The specification: a thread does not stop in the middle of a search.    *)
(***************************************************************************)
Init ==
  /\ usage \in Usages /\ phase = "build"
  /\ first = NULL /\ next = NULL /\ last = NULL
  /\ payload = [n \in Nodes |-> NULL] /\ tail = [n \in Nodes |-> NULL]
  /\ live = {} /\ wild = FALSE
  /\ inserted = << >> /\ read = << >> /\ returned = NULL
  /\ pc = [t \in Threads |-> "idle"]
  /\ key = [t \in Threads |-> NULL] /\ start = [t \in Threads |-> NULL]
  /\ current = [t \in Threads |-> NULL] /\ hold = [t \in Threads |-> NULL]
  /\ overlapped = [t \in Threads |-> FALSE] /\ crashed = FALSE

Step(t) ==
  Crash(t) \/ ReadPayload(t) \/ ReadTail(t) \/ MoveOn(t) \/ Check(t) \/ Wrap(t)

Over == (phase = "gone" \/ crashed) /\ UNCHANGED vars

Next ==
  \/ InsertElement \/ InsertElementAtTail \/ RemoveElement \/ Pop
  \/ GetElement \/ GetNextElement \/ PutOrGet \/ Rewind \/ DecRef \/ Share
  \/ \E t \in Threads : Begin(t) \/ Step(t)
  \/ Over

Spec == Init /\ [][Next]_vars /\ \A t \in Threads : WF_vars(Step(t))

TypeOK ==
  /\ {first, next, last} \subseteq Nodes \cup {NULL}
  /\ live \subseteq Nodes
  /\ \A n \in live : payload[n] \in Elements /\ tail[n] \in Nodes \cup {NULL}
  /\ {wild, crashed} \subseteq BOOLEAN
  /\ returned \in Elements \cup {NULL}
  /\ \A t \in Threads :
       /\ pc[t] \in {"idle", "payload", "tail", "move", "check", "wrap", "done"}
       /\ key[t] \in Elements \cup {Absent, NULL}
       /\ {start[t], current[t]} \subseteq Elements \cup {NULL}
       /\ hold[t] \in Nodes \cup {NULL}

(***************************************************************************)
(* The nodes that are allocated are those on the list: removal loses none, *)
(* and none that was freed stays linked.  Not so for the ring of names,    *)
(* which lets go of all between the first and the last.                    *)
(***************************************************************************)
NodesAccounted == usage # "names" => live = OnList

(***************************************************************************)
(* `last' is left alone by removeElement, which may free the node it       *)
(* points at.  Nobody writes through it then.                              *)
(***************************************************************************)
NoWildWrite == ~wild

(***************************************************************************)
(* When nobody is searching the iterator is at a node of the list: no      *)
(* removal, no wrapping round and no end of a search leaves it elsewhere.  *)
(***************************************************************************)
IteratorSettles ==
  ~crashed /\ ~IsEmpty /\ (\A t \in Threads : ~Searching(t)) =>
    next \in OnList

(***************************************************************************)
(* A search that no other search overlaps finds what was declared and      *)
(* nothing else, wherever the searches before it have left the iterator.   *)
(* Two that overlap may miss it, or end the program.                       *)
(***************************************************************************)
AloneFinds ==
  /\ \A t \in Threads :
       phase = "use" /\ pc[t] = "done" /\ ~overlapped[t] =>
         current[t] = IF ContainsElement(key[t]) THEN key[t] ELSE NULL
  /\ crashed => \E t \in Threads : Searching(t) /\ overlapped[t]

(***************************************************************************)
(* The names of a constructor come in their order if there are no more     *)
(* than two; of more, the first and the last in turn.  (RingOrder of       *)
(* Interpreter)                                                            *)
(***************************************************************************)
NamesRead ==
  \A i \in DOMAIN read :
    read[i] = inserted[IF i % 2 = 1 THEN 1 ELSE Len(inserted)]

\* A search that no other overlaps comes to an end.
SearchEnds ==
  \A t \in Threads : Searching(t) ~> ~Searching(t) \/ overlapped[t]

(***************************************************************************)
(* The list as its users see it                                            *)
(***************************************************************************)
ElementsOnList ==
  [i \in 1 .. GetListLength |-> GetElementN(i - 1)]

Abstract ==
  INSTANCE AbstractList WITH
    list <- IF usage = "names" THEN [elements |-> << >>, next |-> NULL]
            ELSE [elements |-> ElementsOnList,
                  next |-> IF next = NULL THEN GetElementN(0)
                           ELSE Payload(next)],
    returned <- IF usage = "names" THEN NULL ELSE returned,
    shared <- usage = "map"

\* Every operation on the pointers does what ConnectionList says of it, but
\* for the ring of names, and returns the same element.
ImplementsList == Abstract!Spec
=============================================================================
