-------------------------- MODULE IteratedListProofs --------------------------
(***************************************************************************)
(* The iterated list, for any elements, nodes and threads: each of its     *)
(* invariants, and that it implements AbstractList.                        *)
(***************************************************************************)
EXTENDS IteratedList, DataLemmas

(***************************************************************************)
(* The inductive invariant.  What is on a list that is no ring is the      *)
(* sequence s of nodes: each has the next one as its tail, no two hold     *)
(* the same payload, and they are the nodes that are allocated.            *)
(***************************************************************************)
Linked(s) ==
  /\ s \in Seq(Nodes)
  /\ live = Range(s)
  /\ first = IF s = << >> THEN NULL ELSE s[1]
  /\ \A i \in 1 .. Len(s) : tail[s[i]] = IF i < Len(s) THEN s[i + 1] ELSE NULL
  /\ \A i, j \in 1 .. Len(s) : payload[s[i]] = payload[s[j]] => i = j

NodesTyped ==
  /\ wild = FALSE /\ live \subseteq Nodes /\ last \in Nodes \cup {NULL}
  /\ payload = [n \in Nodes |-> payload[n]]
  /\ tail = [n \in Nodes |-> tail[n]]
  /\ \A n \in live : payload[n] \in Elements /\ tail[n] \in Nodes \cup {NULL}
  /\ returned \in Elements \cup {NULL}

\* `last' is the last node, unless the list is one of connections.
Row ==
  usage # "names" =>
    \E s : Linked(s) /\ (usage # "connections" /\ s # << >> => last = s[Len(s)])

\* insertElementAtTail builds a ring of the first name and the last one.
Ring ==
  /\ inserted \in Seq(Elements)
  /\ usage = "names" /\ phase = "gone" => IsEmpty
  /\ usage = "names" /\ phase # "gone" =>
       /\ first = NULL <=> inserted = << >>
       /\ first # NULL =>
            /\ last = first /\ {first, tail[first]} \subseteq live
            /\ tail[tail[first]] = first
            /\ payload[first] = inserted[1]
            /\ payload[tail[first]] = inserted[Len(inserted)]

\* The two are read in turn.
Reading ==
  /\ read \in Seq(Elements)
  /\ usage # "names" \/ phase = "build" => read = << >>
  /\ usage = "names" /\ phase # "gone" /\ first # NULL =>
       next = IF Len(read) % 2 = 0 THEN first ELSE tail[first]
  /\ NamesRead

\* Only a complete map is searched, and searches that overlap know it.
Threaded ==
  /\ \A t \in Threads : Searching(t) => usage = "map" /\ phase = "use" /\ ~IsEmpty
  /\ usage # "map" \/ phase = "build" => \A t \in Threads : pc[t] = "idle"
  /\ \A t, u \in Threads : t # u /\ Searching(t) /\ Searching(u) => overlapped[t]
  /\ crashed => \E t \in Threads : Searching(t) /\ overlapped[t]

PCs == {"idle", "payload", "tail", "move", "check", "wrap", "done"}

ThreadsTyped ==
  /\ pc \in [Threads -> PCs]
  /\ key \in [Threads -> Elements \cup {Absent, NULL}]
  /\ start \in [Threads -> Elements \cup {NULL}]
  /\ current \in [Threads -> Elements \cup {NULL}]
  /\ hold \in [Threads -> Nodes \cup {NULL}]
  /\ overlapped \in [Threads -> BOOLEAN] /\ crashed \in BOOLEAN
  /\ \A t \in Threads : pc[t] # "move" => hold[t] = NULL

\* The iterator is off the list only while a thread is about to wrap it round.
Iterator ==
  /\ IsEmpty => next = NULL
  /\ next = NULL /\ ~IsEmpty => \E t \in Threads : pc[t] \in {"check", "wrap"}
  /\ usage # "names" =>
       /\ next \in live \cup {NULL}
       /\ \A t \in Threads : hold[t] \in live \cup {NULL}

\* The places from a on, and round, to the one before j
Passed(s, a, j) ==
  IF a < j THEN a .. (j - 1) ELSE (a .. Len(s)) \cup (1 .. (j - 1))

(***************************************************************************)
(* A search that no other overlaps began at a, is now at j, and has        *)
(* passed no element with the key.                                         *)
(***************************************************************************)
Between(t, s, a, j) ==
  /\ IF start[t] = NULL THEN a = j
     ELSE /\ start[t] = payload[s[a]]
          /\ \A i \in Passed(s, a, j) : payload[s[i]] # key[t]
  /\ key[t] # NULL
  /\ pc[t] \in {"payload", "tail", "move"} => next = s[j]
  /\ pc[t] # "payload" => current[t] = payload[s[j]]
  /\ pc[t] = "move" => hold[t] = tail[s[j]]
  /\ pc[t] \in {"check", "wrap"} => next = tail[s[j]]
  /\ pc[t] = "wrap" => next = NULL

Alone ==
  \A t \in Threads : Searching(t) /\ ~overlapped[t] =>
    \A s : Linked(s) => \E a, j \in 1 .. Len(s) : Between(t, s, a, j)

ListInv == NodesTyped /\ Row /\ Ring /\ Reading
SearchInv == Threaded /\ ThreadsTyped /\ Alone /\ AloneFinds

Inv == ListInv /\ SearchInv /\ Iterator

\* The nodes that are reached are those of the sequence.
LEMMA OnListIs == \A s : Linked(s) => OnList = Range(s)
<1> SUFFICES ASSUME NEW s, Linked(s) PROVE OnList = Range(s)
  OBVIOUS
<1>1. s \in Seq(Nodes) /\ Len(s) \in Nat /\ DOMAIN s = 1 .. Len(s)
  BY DEF Linked
<1>2. Range(s) \subseteq Nodes
  BY <1>1 DEF Range
<1>3. OnList \subseteq Range(s)
  <2>1. Closed(Range(s), tail)
    BY <1>1 DEF Linked, Closed, Range
  <2>2. first \in Range(s) \cup {NULL}
    BY <1>1 DEF Linked, Range
  <2> QED BY <1>2, <2>1, <2>2 DEF OnList, From
<1>4. ASSUME NEW S \in SUBSET Nodes, Closed(S, tail), first \in S \cup {NULL}
      PROVE  Range(s) \subseteq S
  <2> DEFINE T == {i \in Nat : i < Len(s) => s[i + 1] \in S}
  <2>1. 0 \in T
    BY <1>1, <1>2, <1>4, AbsentAssumption DEF Linked, Range
  <2>2. ASSUME NEW i \in T \cap Nat PROVE i + 1 \in T
    <3> SUFFICES ASSUME i + 1 < Len(s) PROVE s[i + 1 + 1] \in S
      OBVIOUS
    <3>1. i + 1 \in 1 .. Len(s) /\ i + 2 \in 1 .. Len(s) /\ i + 1 + 1 = i + 2
      BY <1>1
    <3>2. s[i + 1] \in S
      BY <1>1, <2>2
    <3>3. tail[s[i + 1]] = s[i + 2] /\ s[i + 2] \in Nodes
      BY <1>1, <3>1 DEF Linked
    <3> QED BY <1>4, <3>1, <3>2, <3>3, AbsentAssumption DEF Closed
  <2> HIDE DEF T
  <2>3. Nat \subseteq T
    BY <2>1, <2>2, SetInduction
  <2>4. ASSUME NEW i \in 1 .. Len(s) PROVE s[i] \in S
    <3>1. i - 1 \in T /\ i - 1 < Len(s) /\ (i - 1) + 1 = i
      BY <1>1, <2>3
    <3> QED BY <3>1 DEF T
  <2> QED BY <1>1, <2>4 DEF Range
<1> QED BY <1>2, <1>3, <1>4 DEF OnList, From


\* The operators that read the nodes
LEMMA NodeNIs ==
  \A s : Linked(s) =>
    \A k \in Nat : NodeN(k) = IF k < Len(s) THEN s[k + 1] ELSE NULL
<1> SUFFICES ASSUME NEW s, Linked(s)
             PROVE  \A k \in Nat : NodeN(k) = IF k < Len(s) THEN s[k + 1] ELSE NULL
  OBVIOUS
<1> DEFINE Follows(f) == f = [i \in Nat |->
                                IF i = 0 THEN first
                                ELSE IF f[i - 1] = NULL THEN NULL ELSE tail[f[i - 1]]]
           h == [i \in Nat |-> IF i < Len(s) THEN s[i + 1] ELSE NULL]
           g == CHOOSE f : Follows(f)
<1>1. s \in Seq(Nodes) /\ Len(s) \in Nat
  BY DEF Linked
<1>2. Follows(h)
  <2>1. ASSUME NEW i \in Nat
        PROVE  h[i] = IF i = 0 THEN first
                      ELSE IF h[i - 1] = NULL THEN NULL ELSE tail[h[i - 1]]
    <3>1. CASE i = 0
      BY <1>1, <3>1 DEF Linked
    <3>2. CASE i # 0 /\ i - 1 < Len(s)
      <4>1. i - 1 \in Nat /\ i \in 1 .. Len(s) /\ (i - 1) + 1 = i
        BY <1>1, <3>2
      <4>2. h[i - 1] = s[i] /\ s[i] # NULL
        BY <1>1, <3>2, <4>1, AbsentAssumption
      <4>3. tail[s[i]] = IF i < Len(s) THEN s[i + 1] ELSE NULL
        BY <4>1 DEF Linked
      <4> QED BY <3>2, <4>2, <4>3
    <3>3. CASE i # 0 /\ ~(i - 1 < Len(s))
      <4>1. i - 1 \in Nat /\ ~(i < Len(s))
        BY <1>1, <3>3
      <4> QED BY <3>3, <4>1
    <3> QED BY <3>1, <3>2, <3>3
  <2> QED BY <2>1
<1> HIDE DEF h
<1>3. Follows(g)
  BY <1>2
<1> HIDE DEF g
<1> DEFINE T == {i \in Nat : g[i] = h[i]}
<1>4. 0 \in T
  BY <1>2, <1>3
<1>5. ASSUME NEW i \in T \cap Nat PROVE i + 1 \in T
  <2>1. i + 1 \in Nat /\ i + 1 # 0 /\ (i + 1) - 1 = i
    OBVIOUS
  <2>2. g[i + 1] = IF g[i] = NULL THEN NULL ELSE tail[g[i]]
    BY <1>3, <2>1
  <2>3. h[i + 1] = IF h[i] = NULL THEN NULL ELSE tail[h[i]]
    BY <1>2, <2>1
  <2> QED BY <1>5, <2>1, <2>2, <2>3
<1> HIDE DEF T
<1>6. Nat \subseteq T
  BY <1>4, <1>5, SetInduction
<1>7. ASSUME NEW k \in Nat
      PROVE  NodeN(k) = IF k < Len(s) THEN s[k + 1] ELSE NULL
  <2>1. g[k] = h[k]
    BY <1>6 DEF T
  <2>2. NodeN(k) = g[k]
    BY DEF NodeN, g
  <2> QED BY <2>1, <2>2 DEF h
<1> QED BY <1>7

LEMMA LengthIs == \A s : Linked(s) => GetListLength = Len(s)
<1> SUFFICES ASSUME NEW s, Linked(s) PROVE GetListLength = Len(s)
  OBVIOUS
<1>1. s \in Seq(Nodes) /\ \A i, j \in 1 .. Len(s) : s[i] = s[j] => i = j
  BY DEF Linked
<1>2. Cardinality(Range(s)) = Len(s)
  BY <1>1, CardinalityOfSequence
<1> QED BY <1>2, OnListIs DEF GetListLength

\* What the operators on the nodes return, in terms of the sequence
Readers ==
  \A s : Linked(s) =>
    /\ OnList = Range(s)
    /\ \A k \in Nat : NodeN(k) = IF k < Len(s) THEN s[k + 1] ELSE NULL
    /\ ElementsOnList = [i \in 1 .. Len(s) |-> payload[s[i]]]

LEMMA ReadersSee == Readers
<1> SUFFICES ASSUME NEW s, Linked(s)
             PROVE  ElementsOnList = [i \in 1 .. Len(s) |-> payload[s[i]]]
  BY OnListIs, NodeNIs DEF Readers
<1>1. s \in Seq(Nodes) /\ Len(s) \in Nat
  BY DEF Linked
<1>2. GetListLength = Len(s)
  BY LengthIs
<1>3. ASSUME NEW i \in 1 .. Len(s) PROVE GetElementN(i - 1) = payload[s[i]]
  <2>1. i - 1 \in Nat /\ i - 1 < Len(s) /\ (i - 1) + 1 = i
    BY <1>1
  <2>2. NodeN(i - 1) = s[i] /\ s[i] # NULL
    BY <1>1, <2>1, NodeNIs, AbsentAssumption
  <2> QED BY <2>2 DEF GetElementN, Payload
<1> QED BY <1>2, <1>3 DEF ElementsOnList

LEMMA ReadersSeeNext == Readers'
BY ReadersSee, PTL
(***************************************************************************)
(* Each operation, in terms of the sequence                                *)
(***************************************************************************)
\* A node goes in front of the others.
LEMMA InsertLinked ==
  ASSUME NodesTyped, NEW s, Linked(s), NEW e \in Elements, NEW n \in Nodes \ live,
         ~ContainsElement(e), ConstructNode(n, e, first), first' = n
  PROVE  /\ Linked(<<n>> \o s)'
         /\ \A i \in 1 .. Len(s) : payload'[s[i]] = payload[s[i]]
         /\ payload'[n] = e
<1> DEFINE q == <<n>> \o s
<1>1. s \in Seq(Nodes) /\ Len(s) \in Nat /\ live = Range(s) /\ DOMAIN s = 1 .. Len(s)
  BY DEF Linked
<1>2. /\ q \in Seq(Nodes) /\ Len(q) = Len(s) + 1 /\ DOMAIN q = 1 .. Len(s) + 1
      /\ q[1] = n /\ \A i \in 1 .. Len(s) : q[i + 1] = s[i]
  BY <1>1
<1> HIDE DEF q
<1>3. \A i \in 1 .. Len(s) : s[i] \in live /\ s[i] # n
  BY <1>1 DEF Range
<1>4. \A i \in 2 .. Len(q) : i - 1 \in 1 .. Len(s) /\ q[i] = s[i - 1]
  <2> TAKE i \in 2 .. Len(q)
  <2>1. i - 1 \in 1 .. Len(s) /\ (i - 1) + 1 = i
    BY <1>1, <1>2
  <2> QED BY <1>2, <2>1
<1>5. /\ live' = live \cup {n}
      /\ payload' = [payload EXCEPT ![n] = e]
      /\ tail' = [tail EXCEPT ![n] = first]
  BY DEF ConstructNode
<1>6. /\ payload'[n] = e /\ \A i \in 1 .. Len(s) : payload'[s[i]] = payload[s[i]]
      /\ tail'[n] = first /\ \A i \in 1 .. Len(s) : tail'[s[i]] = tail[s[i]]
  BY <1>3, <1>5 DEF NodesTyped
<1>7. live' = Range(q)
  <2>1. Range(q) \subseteq {n} \cup Range(s)
    BY <1>1, <1>2, <1>4 DEF Range
  <2>2. \A i \in 1 .. Len(s) : i + 1 \in DOMAIN q
    BY <1>1, <1>2
  <2>3. {n} \cup Range(s) \subseteq Range(q)
    BY <1>1, <1>2, <2>2 DEF Range
  <2> QED BY <1>1, <1>5, <2>1, <2>3
<1>8. first' = IF q = << >> THEN NULL ELSE q[1]
  BY <1>1, <1>2
<1>9. ASSUME NEW i \in 1 .. Len(q)
      PROVE  tail'[q[i]] = IF i < Len(q) THEN q[i + 1] ELSE NULL
  <2>1. CASE i = 1
    BY <1>1, <1>2, <1>6, <2>1 DEF Linked
  <2>2. CASE i # 1
    <3>1. i - 1 \in 1 .. Len(s) /\ q[i] = s[i - 1]
      BY <1>2, <1>4, <2>2
    <3>2. tail[s[i - 1]] = IF i - 1 < Len(s) THEN s[i] ELSE NULL
      <4>1. (i - 1) + 1 = i
        BY <1>2
      <4> QED BY <3>1, <4>1 DEF Linked
    <3>3. i < Len(q) => q[i + 1] = s[i]
      BY <1>1, <1>2
    <3> QED BY <1>1, <1>2, <1>6, <3>1, <3>2, <3>3
  <2> QED BY <2>1, <2>2
<1>10. \A i \in 1 .. Len(s) : payload[s[i]] # e
  BY <1>1, <1>3, ReadersSee DEF ContainsElement, Readers, Range
<1>11. ASSUME NEW i \in 1 .. Len(q), NEW j \in 1 .. Len(q),
              payload'[q[i]] = payload'[q[j]]
       PROVE  i = j
  <2>1. CASE i = 1 /\ j = 1
    BY <2>1
  <2>2. CASE i = 1 /\ j # 1
    BY <1>2, <1>4, <1>6, <1>10, <1>11, <2>2
  <2>3. CASE i # 1 /\ j = 1
    BY <1>2, <1>4, <1>6, <1>10, <1>11, <2>3
  <2>4. CASE i # 1 /\ j # 1
    <3>1. /\ i - 1 \in 1 .. Len(s) /\ j - 1 \in 1 .. Len(s)
          /\ payload[s[i - 1]] = payload[s[j - 1]]
      BY <1>2, <1>4, <1>6, <1>11, <2>4
    <3>2. i - 1 = j - 1
      BY <3>1 DEF Linked
    <3> QED BY <3>2
  <2> QED BY <2>1, <2>2, <2>3, <2>4
<1>12. Linked(q)'
  BY <1>2, <1>7, <1>8, <1>9, <1>11 DEF Linked
<1> QED BY <1>6, <1>12 DEF q

\* The node before the k-th one
LEMMA PreviousIs ==
  ASSUME NEW s, Linked(s), NEW k \in 1 .. Len(s)
  PROVE  Previous(s[k]) = IF k = 1 THEN NULL ELSE s[k - 1]
<1>1. /\ s \in Seq(Nodes) /\ Len(s) \in Nat /\ DOMAIN s = 1 .. Len(s)
      /\ \A i, j \in 1 .. Len(s) : s[i] = s[j] => i = j
      /\ first = s[1] /\ OnList = Range(s)
  BY ReadersSee DEF Linked, Readers
<1>2. CASE k = 1
  BY <1>1, <1>2 DEF Previous
<1>3. CASE k # 1
  <2>1. k - 1 \in 1 .. Len(s) /\ (k - 1) + 1 = k /\ k - 1 < Len(s)
    BY <1>1, <1>3
  <2>2. s[k - 1] \in OnList /\ tail[s[k - 1]] = s[k]
    BY <1>1, <2>1 DEF Linked, Range
  <2>3. ASSUME NEW m \in OnList, tail[m] = s[k] PROVE m = s[k - 1]
    <3>1. PICK i \in 1 .. Len(s) : m = s[i]
      BY <1>1 DEF Range
    <3>2. s[k] # NULL
      BY <1>1, AbsentAssumption
    <3>3. i < Len(s) /\ s[i + 1] = s[k]
      BY <2>3, <3>1, <3>2 DEF Linked
    <3>4. i + 1 = k
      BY <1>1, <3>3
    <3> QED BY <3>1, <3>4
  <2>4. s[k] # first
    BY <1>1, <1>3
  <2> QED BY <1>3, <2>2, <2>3, <2>4 DEF Previous
<1> QED BY <1>2, <1>3

\* The k-th node is taken out.
LEMMA UnlinkLinked ==
  ASSUME NodesTyped, NEW s, Linked(s), NEW k \in 1 .. Len(s), NEW p,
         p = (IF k = 1 THEN NULL ELSE s[k - 1]), Unlink(s[k], p)
  PROVE  /\ Linked(RemoveAt(s, k))'
         /\ \A i \in 1 .. Len(s) : i # k => payload'[s[i]] = payload[s[i]]
<1> DEFINE r == RemoveAt(s, k)
<1>1. /\ s \in Seq(Nodes) /\ Len(s) \in Nat /\ DOMAIN s = 1 .. Len(s)
      /\ \A i, j \in 1 .. Len(s) : s[i] = s[j] => i = j
      /\ first = s[1] /\ live = Range(s)
      /\ \A i \in 1 .. Len(s) : s[i] \in Nodes /\ s[i] # NULL
  BY AbsentAssumption DEF Linked
<1>2. /\ r \in Seq(Nodes) /\ Len(r) = Len(s) - 1
      /\ \A i \in 1 .. Len(s) : i < k => r[i] = s[i]
      /\ \A i \in 1 .. Len(s) : i > k => r[i - 1] = s[i]
  BY <1>1, RemoveAtProperties
<1> HIDE DEF r
<1>3. DOMAIN r = 1 .. Len(s) - 1
  BY <1>2
<1>4. \A i \in 1 .. Len(r) : r[i] = IF i < k THEN s[i] ELSE s[i + 1]
  <2> TAKE i \in 1 .. Len(r)
  <2>1. i \in 1 .. Len(s) /\ i + 1 \in 1 .. Len(s) /\ (i + 1) - 1 = i
    BY <1>1, <1>2
  <2> QED BY <1>2, <2>1
<1>5. /\ live' = live \ {s[k]}
      /\ \A m \in Nodes : tail'[m] = IF m = s[k] THEN NULL
                                     ELSE IF m = p THEN tail[s[k]] ELSE tail[m]
      /\ \A i \in 1 .. Len(s) : i # k => payload'[s[i]] = payload[s[i]]
      /\ first' = IF s[k] = first THEN tail[s[k]] ELSE first
  BY <1>1 DEF Unlink, NodesTyped
<1>6. \A i \in 1 .. Len(s) : tail[s[i]] = IF i < Len(s) THEN s[i + 1] ELSE NULL
  BY DEF Linked
<1>7. live' = Range(r)
  <2>1. ASSUME NEW m \in live' PROVE m \in Range(r)
    <3>1. PICK i \in 1 .. Len(s) : m = s[i] /\ i # k
      BY <1>1, <1>5, <2>1 DEF Range
    <3>2. CASE i < k
      BY <1>2, <1>3, <3>1, <3>2 DEF Range
    <3>3. CASE i > k
      <4>1. i - 1 \in DOMAIN r /\ r[i - 1] = s[i]
        BY <1>1, <1>2, <1>3, <3>1, <3>3
      <4> QED BY <3>1, <4>1 DEF Range
    <3> QED BY <3>1, <3>2, <3>3
  <2>2. ASSUME NEW i \in DOMAIN r PROVE r[i] \in live'
    <3>1. \E j \in 1 .. Len(s) : j # k /\ r[i] = s[j]
      <4>1. i \in 1 .. Len(r) /\ i \in 1 .. Len(s) /\ i + 1 \in 1 .. Len(s)
        BY <1>1, <1>2, <1>3
      <4>2. CASE i < k
        BY <1>4, <4>1, <4>2
      <4>3. CASE i >= k
        <5>1. i + 1 # k /\ r[i] = s[i + 1]
          BY <1>1, <1>4, <4>1, <4>3
        <5> QED BY <4>1, <5>1
      <4> QED BY <1>1, <4>1, <4>2, <4>3
    <3> QED BY <1>1, <1>5, <3>1 DEF Range
  <2> QED BY <2>1, <2>2 DEF Range
<1>8. first' = IF r = << >> THEN NULL ELSE r[1]
  <2>1. CASE k = 1
    BY <1>1, <1>2, <1>4, <1>5, <1>6, <2>1
  <2>2. CASE k # 1
    BY <1>1, <1>2, <1>4, <1>5, <2>2
  <2> QED BY <2>1, <2>2
<1>9. ASSUME NEW i \in 1 .. Len(r)
      PROVE  tail'[r[i]] = IF i < Len(r) THEN r[i + 1] ELSE NULL
  <2>1. i \in 1 .. Len(s) /\ i + 1 \in 1 .. Len(s)
    BY <1>1, <1>2
  <2>2. i < Len(r) => r[i + 1] = IF i + 1 < k THEN s[i + 1] ELSE s[i + 2]
    <3> SUFFICES ASSUME i < Len(r)
                 PROVE r[i + 1] = IF i + 1 < k THEN s[i + 1] ELSE s[i + 2]
      OBVIOUS
    <3>1. i + 1 \in 1 .. Len(r) /\ (i + 1) + 1 = i + 2
      BY <1>1, <1>2
    <3> QED BY <1>4, <3>1
  <2>3. CASE i < k /\ i + 1 # k
    <3>1. r[i] = s[i] /\ s[i] # s[k] /\ s[i] # p
      BY <1>1, <1>4, <2>1, <2>3
    <3>2. tail'[r[i]] = s[i + 1]
      BY <1>1, <1>2, <1>5, <1>6, <2>1, <3>1
    <3> QED BY <1>1, <1>2, <2>2, <2>3, <3>2
  <2>4. CASE i + 1 = k
    <3>1. r[i] = s[i] /\ s[i] # s[k] /\ s[i] = p
      BY <1>1, <1>4, <2>1, <2>4
    <3>2. tail'[r[i]] = tail[s[k]]
      BY <1>1, <1>5, <2>1, <3>1
    <3>3. tail[s[k]] = IF k < Len(s) THEN s[i + 2] ELSE NULL
      BY <1>6, <2>4
    <3> QED BY <1>1, <1>2, <2>2, <2>4, <3>2, <3>3
  <2>5. CASE i >= k
    <3>1. r[i] = s[i + 1] /\ s[i + 1] # s[k] /\ s[i + 1] # p
      BY <1>1, <1>4, <2>1, <2>5
    <3>2. tail'[r[i]] = tail[s[i + 1]]
      BY <1>1, <1>5, <2>1, <3>1
    <3>3. tail[s[i + 1]] = IF i + 1 < Len(s) THEN s[i + 2] ELSE NULL
      BY <1>1, <1>6, <2>1
    <3> QED BY <1>1, <1>2, <2>2, <2>5, <3>2, <3>3
  <2> QED BY <2>1, <2>3, <2>4, <2>5
<1>10. ASSUME NEW i \in 1 .. Len(r), NEW j \in 1 .. Len(r),
              payload'[r[i]] = payload'[r[j]]
       PROVE  i = j
  <2> DEFINE at(x) == IF x < k THEN x ELSE x + 1
  <2>1. /\ at(i) \in 1 .. Len(s) /\ at(i) # k /\ r[i] = s[at(i)]
        /\ at(j) \in 1 .. Len(s) /\ at(j) # k /\ r[j] = s[at(j)]
    BY <1>1, <1>2, <1>4
  <2>2. payload[s[at(i)]] = payload[s[at(j)]]
    BY <1>5, <1>10, <2>1
  <2>3. at(i) = at(j)
    BY <2>1, <2>2 DEF Linked
  <2> QED BY <1>1, <1>2, <2>3
<1>11. Linked(r)'
  BY <1>2, <1>7, <1>8, <1>9, <1>10 DEF Linked
<1> QED BY <1>5, <1>11 DEF r

(***************************************************************************)
(* The operations of one thread: nobody searches meanwhile.                *)
(***************************************************************************)
ListStep ==
  \/ InsertElement \/ InsertElementAtTail \/ RemoveElement \/ Pop
  \/ GetElement \/ GetNextElement \/ PutOrGet \/ Rewind \/ DecRef \/ Share

\* The iterator when nobody searches
Settled ==
  IF IsEmpty THEN next = NULL
  ELSE next # NULL /\ (usage # "names" => next \in live)

LEMMA Quiet ==
  Inv /\ ListStep => Settled /\ SearchInv' /\ (Settled' => Iterator')
<1> SUFFICES ASSUME Inv, ListStep
             PROVE  Settled /\ SearchInv' /\ (Settled' => Iterator')
  OBVIOUS
<1> USE DEF Inv, SearchInv
<1>1. UNCHANGED <<usage, searches>>
  BY DEF ListStep, InsertElement, InsertElementAtTail, RemoveElement, Pop,
         GetElement, GetNextElement, PutOrGet, Rewind, DecRef, Share
<1>2. \/ phase = "build" /\ \A t \in Threads : pc[t] = "idle"
      \/ usage = "names" /\ \A t \in Threads : pc[t] = "idle"
      \/ DecRef /\ phase' = "gone" /\ \A t \in Threads : pc[t] \in {"idle", "done"}
  BY DEF ListStep, InsertElement, InsertElementAtTail, RemoveElement, Pop,
         GetElement, GetNextElement, PutOrGet, Rewind, DecRef, Share, Threaded
<1>3. \A t \in Threads : ~Searching(t)
  BY <1>2 DEF Searching
<1>4. /\ pc' = pc /\ key' = key /\ start' = start /\ current' = current
      /\ hold' = hold /\ overlapped' = overlapped /\ crashed' = crashed
      /\ usage' = usage
  BY <1>1 DEF searches
<1>5. \A t \in Threads : ~Searching(t)'
  BY <1>3, <1>4 DEF Searching
<1>6. Threaded'
  <2>1. usage' # "map" \/ phase' = "build" => \A t \in Threads : pc'[t] = "idle"
    BY <1>2, <1>4 DEF Threaded
  <2>2. ~crashed'
    BY <1>3, <1>4 DEF Threaded
  <2> QED BY <1>5, <2>1, <2>2 DEF Threaded
<1>7. ThreadsTyped'
  BY <1>4 DEF ThreadsTyped
<1>8. Alone'
  BY <1>5 DEF Alone
<1>9. AloneFinds'
  BY <1>2, <1>4, <1>6 DEF AloneFinds, Threaded
<1>10. Settled
  <2>1. \A t \in Threads : pc[t] \notin {"check", "wrap"}
    BY <1>2
  <2> QED BY <2>1 DEF Settled, Iterator
<1>11. ASSUME Settled' PROVE Iterator'
  <2>1. \A t \in Threads : hold'[t] = NULL
    <3>1. \A t \in Threads : pc[t] # "move"
      BY <1>2
    <3> QED BY <1>4, <3>1 DEF ThreadsTyped
  <2> QED BY <1>11, <2>1 DEF Settled, Iterator
<1> QED BY <1>6, <1>7, <1>8, <1>9, <1>10, <1>11

LEMMA InsertStep == ListInv /\ Settled /\ InsertElement => ListInv' /\ Settled'
<1> SUFFICES ASSUME ListInv, Settled, InsertElement PROVE ListInv' /\ Settled'
  OBVIOUS
<1> USE DEF ListInv
<1>1. PICK e \in NewElements, n \in FreeNodes :
        /\ ConstructNode(n, e, first)
        /\ first' = n
        /\ last' = IF IsEmpty THEN n ELSE last
        /\ next' = IF IsEmpty THEN n ELSE next
  BY DEF InsertElement
<1>2. /\ usage' = usage /\ phase' = phase /\ phase = "build" /\ usage # "names"
      /\ inserted' = inserted /\ read' = read /\ returned' = returned
  BY DEF InsertElement, names
<1>3. PICK s : Linked(s) /\ (usage # "connections" /\ s # << >> => last = s[Len(s)])
  BY <1>2 DEF Row
<1>4. n \in Nodes \ live
  BY DEF FreeNodes, NodesTyped
<1>5. e \in Elements /\ ~ContainsElement(e)
  BY DEF NewElements
<1>6. Linked(<<n>> \o s)' /\ payload'[n] = e
  BY <1>1, <1>3, <1>4, <1>5, InsertLinked
<1>7. /\ live' = live \cup {n} /\ wild' = wild
      /\ payload' = [payload EXCEPT ![n] = e]
      /\ tail' = [tail EXCEPT ![n] = first]
  BY <1>1 DEF ConstructNode
<1>8. first = NULL \/ first \in live
  BY <1>3 DEF Linked, Range
<1>9. NodesTyped'
  BY <1>1, <1>2, <1>4, <1>5, <1>7, <1>8 DEF NodesTyped
<1>10. Row'
  <2>1. s \in Seq(Nodes) /\ (IsEmpty <=> s = << >>)
    BY <1>3, AbsentAssumption DEF Linked, IsEmpty
  <2>2. (<<n>> \o s)[Len(<<n>> \o s)] = IF IsEmpty THEN n ELSE s[Len(s)]
    BY <1>4, <2>1
  <2> QED BY <1>1, <1>2, <1>3, <1>6, <2>1, <2>2 DEF Row
<1>11. Ring' /\ Reading'
  BY <1>2 DEF Ring, Reading, NamesRead, IsEmpty
<1>12. Settled'
  BY <1>1, <1>2, <1>4, <1>7, AbsentAssumption DEF Settled, IsEmpty
<1> QED BY <1>9, <1>10, <1>11, <1>12

LEMMA InsertTailStep ==
  ListInv /\ Settled /\ InsertElementAtTail => ListInv' /\ Settled'
<1> SUFFICES ASSUME ListInv, Settled, InsertElementAtTail PROVE ListInv' /\ Settled'
  OBVIOUS
<1> USE DEF ListInv
<1>1. PICK e \in Elements \ Range(inserted), n \in FreeNodes :
        /\ live' = live \cup {n}
        /\ payload' = [payload EXCEPT ![n] = e]
        /\ first' = IF IsEmpty THEN n ELSE first
        /\ next' = IF IsEmpty THEN n ELSE next
        /\ last' = IF IsEmpty THEN n ELSE last
        /\ tail' = [m \in Nodes |-> IF m = n THEN first'
                                    ELSE IF m = last /\ ~IsEmpty THEN n
                                    ELSE tail[m]]
        /\ wild' = (wild \/ last' \notin live')
        /\ inserted' = Append(inserted, e)
  BY DEF InsertElementAtTail
<1>2. /\ usage' = usage /\ phase' = phase /\ phase = "build" /\ usage = "names"
      /\ read' = read /\ returned' = returned /\ read = << >>
  BY DEF InsertElementAtTail, Reading
<1>3. n \in Nodes \ live /\ n # NULL
  BY AbsentAssumption DEF FreeNodes, NodesTyped
<1>4. /\ inserted' \in Seq(Elements) /\ inserted' # << >>
      /\ inserted'[Len(inserted')] = e
      /\ inserted # << >> => inserted'[1] = inserted[1]
      /\ inserted = << >> => inserted'[1] = e
  BY <1>1 DEF Ring
<1>5. CASE IsEmpty
  <2>1. /\ first' = n /\ next' = n /\ last' = n /\ tail'[n] = n /\ payload'[n] = e
        /\ inserted = << >> /\ n \in live'
    BY <1>1, <1>2, <1>3, <1>5 DEF NodesTyped, Ring, IsEmpty
  <2>2. NodesTyped'
    BY <1>1, <1>2, <1>3, <1>5, <2>1 DEF NodesTyped
  <2>3. Ring' /\ Row' /\ Settled'
    BY <1>2, <1>3, <1>4, <2>1 DEF Ring, Row, Settled, IsEmpty
  <2>4. Len(read') = 0 /\ DOMAIN read' = {}
    BY <1>2
  <2>5. Reading'
    BY <1>2, <1>3, <2>1, <2>4 DEF Reading, NamesRead
  <2> QED BY <2>2, <2>3, <2>5
<1>6. CASE ~IsEmpty
  <2>1. last = first /\ first \in live /\ first # NULL /\ first # n
    BY <1>2, <1>3, <1>6 DEF Ring, IsEmpty
  <2>2. /\ first' = first /\ next' = next /\ last' = last
        /\ tail'[n] = first /\ tail'[first] = n
        /\ payload'[n] = e /\ payload'[first] = payload[first]
        /\ inserted # << >> /\ payload[first] = inserted[1]
        /\ first \in live' /\ n \in live'
    BY <1>1, <1>2, <1>3, <1>6, <2>1 DEF NodesTyped, Ring, IsEmpty
  <2>3. NodesTyped'
    BY <1>1, <1>2, <1>3, <1>6, <2>1, <2>2 DEF NodesTyped
  <2>4. Ring' /\ Row' /\ Settled'
    BY <1>2, <1>3, <1>4, <1>6, <2>1, <2>2 DEF Ring, Row, Settled, IsEmpty
  <2>5. Len(read) = 0 /\ DOMAIN read = {}
    BY <1>2
  <2>6. next = first
    BY <1>2, <2>1, <2>5 DEF Reading
  <2>7. Reading'
    BY <1>2, <2>1, <2>2, <2>5, <2>6 DEF Reading, NamesRead
  <2> QED BY <2>3, <2>4, <2>7
<1> QED BY <1>5, <1>6

\* The node that leaves the list, from anywhere or from its head
LEMMA UnlinkStep ==
  ASSUME ListInv, Settled, usage # "names", phase = "build",
         UNCHANGED <<usage, phase, names>>, returned' \in Elements \cup {NULL},
         NEW s, Linked(s), usage # "connections" /\ s # << >> => last = s[Len(s)],
         NEW k \in 1 .. Len(s), usage # "connections" => k = 1,
         NEW p, p = (IF k = 1 THEN NULL ELSE s[k - 1]), Unlink(s[k], p)
  PROVE  ListInv' /\ Settled'
<1> USE DEF ListInv
<1>1. /\ s \in Seq(Nodes) /\ Len(s) \in Nat /\ DOMAIN s = 1 .. Len(s)
      /\ \A i, j \in 1 .. Len(s) : s[i] = s[j] => i = j
      /\ \A i \in 1 .. Len(s) : tail[s[i]] = IF i < Len(s) THEN s[i + 1] ELSE NULL
      /\ first = s[1] /\ live = Range(s)
      /\ \A i \in 1 .. Len(s) : s[i] \in Nodes /\ s[i] # NULL /\ s[i] \in live
      /\ p # NULL => p \in Nodes /\ p # s[k]
  BY AbsentAssumption DEF Linked, Range
<1>2. Linked(RemoveAt(s, k))'
  BY UnlinkLinked
<1>3. /\ live' = live \ {s[k]} /\ wild' = wild /\ last' = last
      /\ payload' = [payload EXCEPT ![s[k]] = NULL]
      /\ tail' = [m \in Nodes |-> IF m = s[k] THEN NULL
                                  ELSE IF m = p THEN tail[s[k]] ELSE tail[m]]
      /\ first' = IF s[k] = first THEN tail[s[k]] ELSE first
      /\ next' = IF next # s[k] THEN next
                 ELSE IF s[k] # first /\ tail[s[k]] = NULL THEN first
                 ELSE tail[s[k]]
  BY DEF Unlink
<1>4. NodesTyped'
  BY <1>1, <1>3 DEF NodesTyped
<1>5. Row'
  <2>1. ASSUME usage # "connections", RemoveAt(s, k) # << >>
        PROVE  last = RemoveAt(s, k)[Len(RemoveAt(s, k))]
    <3> DEFINE r == RemoveAt(s, k)
    <3>1. /\ k = 1 /\ r \in Seq(Nodes) /\ Len(r) = Len(s) - 1
          /\ \A i \in 1 .. Len(s) : i > k => r[i - 1] = s[i]
      BY <1>1, <2>1, RemoveAtProperties
    <3> HIDE DEF r
    <3>2. r # << >>
      BY <2>1 DEF r
    <3>3. Len(s) \in 1 .. Len(s) /\ Len(s) > 1
      BY <1>1, <3>1, <3>2
    <3>4. r[Len(r)] = s[Len(s)]
      BY <3>1, <3>3
    <3>5. last = s[Len(s)]
      BY <1>1, <2>1, <3>3
    <3> QED BY <3>4, <3>5 DEF r
  <2> QED BY <1>2, <1>3, <2>1 DEF Row
<1>6. Ring' /\ Reading'
  BY DEF Ring, Reading, NamesRead, names
<1>7. Settled'
  <2>1. next \in live
    BY <1>1 DEF Settled, IsEmpty
  <2>2. CASE next # s[k]
    <3>1. next' = next /\ next \in live' /\ next # NULL
      BY <1>3, <2>1, <2>2, AbsentAssumption DEF NodesTyped
    <3>2. first' # NULL
      <4>1. ASSUME first' = NULL PROVE Range(s) = {s[k]}
        <5>1. s[k] = first /\ tail[s[k]] = NULL
          BY <1>1, <1>3, <4>1
        <5>2. k = 1 /\ Len(s) = 1
          BY <1>1, <5>1
        <5> QED BY <1>1, <5>2 DEF Range
      <4> QED BY <1>1, <2>1, <2>2, <4>1
    <3> QED BY <3>1, <3>2 DEF Settled, IsEmpty
  <2>3. CASE next = s[k] /\ k = Len(s)
    <3>1. tail[s[k]] = NULL
      BY <1>1, <2>3
    <3>2. CASE k = 1
      BY <1>1, <1>3, <2>3, <3>1, <3>2 DEF Settled, IsEmpty
    <3>3. CASE k # 1
      <4>1. s[k] # first /\ first \in live'
        BY <1>1, <1>3, <3>3
      <4> QED BY <1>1, <1>3, <2>3, <3>1, <4>1 DEF Settled, IsEmpty
    <3> QED BY <3>2, <3>3
  <2>4. CASE next = s[k] /\ k # Len(s)
    <3>1. k + 1 \in 1 .. Len(s) /\ tail[s[k]] = s[k + 1] /\ s[k + 1] # s[k]
      <4>1. Len(s) \in Nat /\ k # Len(s)
        BY <1>1, <2>4
      <4>2. k < Len(s) /\ k + 1 \in 1 .. Len(s) /\ k + 1 # k
        BY <4>1
      <4> QED BY <1>1, <4>2
    <3>2. next' = s[k + 1] /\ s[k + 1] \in live' /\ s[k + 1] # NULL
      BY <1>1, <1>3, <2>4, <3>1
    <3>3. first' # NULL
      BY <1>1, <1>3, <3>1
    <3> QED BY <3>2, <3>3 DEF Settled, IsEmpty
  <2> QED BY <2>2, <2>3, <2>4
<1> QED BY <1>4, <1>5, <1>6, <1>7

LEMMA RemoveStep == ListInv /\ Settled /\ RemoveElement => ListInv' /\ Settled'
<1> SUFFICES ASSUME ListInv, Settled, RemoveElement PROVE ListInv' /\ Settled'
  OBVIOUS
<1>1. PICK n \in OnList : Unlink(n, Previous(n))
  BY DEF RemoveElement
<1>2. /\ UNCHANGED <<usage, phase, names>> /\ returned' = returned
      /\ phase = "build" /\ usage = "connections"
  BY DEF RemoveElement
<1>3. PICK s : Linked(s)
  BY <1>2 DEF ListInv, Row
<1>4. PICK k \in 1 .. Len(s) : n = s[k]
  <2>1. DOMAIN s = 1 .. Len(s)
    BY <1>3 DEF Linked
  <2> QED BY <1>1, <1>3, <2>1, ReadersSee DEF Readers, Range
<1>5. Previous(n) = IF k = 1 THEN NULL ELSE s[k - 1]
  BY <1>3, <1>4, PreviousIs
<1>6. returned' \in Elements \cup {NULL}
  BY <1>2 DEF ListInv, NodesTyped
<1> QED BY <1>1, <1>2, <1>3, <1>4, <1>5, <1>6, UnlinkStep

LEMMA PopStep == ListInv /\ Settled /\ Pop => ListInv' /\ Settled'
<1> SUFFICES ASSUME ListInv, Settled, Pop PROVE ListInv' /\ Settled'
  OBVIOUS
<1>1. /\ UNCHANGED <<usage, phase, names>> /\ returned' = GetElementN(0)
      /\ phase = "build" /\ usage = "stack" /\ first # NULL
      /\ Unlink(first, NULL)
  BY DEF Pop, IsEmpty
<1>2. PICK s : Linked(s) /\ (usage # "connections" /\ s # << >> => last = s[Len(s)])
  BY <1>1 DEF ListInv, Row
<1>3. s # << >> /\ 1 \in 1 .. Len(s) /\ first = s[1] /\ s[1] \in live
  BY <1>1, <1>2 DEF Linked, Range
<1>4. returned' = payload[first]
  <2>1. NodeN(0) = s[0 + 1]
    BY <1>2, <1>3, ReadersSee DEF Readers
  <2> QED BY <1>1, <1>3, <2>1 DEF GetElementN, Payload
<1>5. returned' \in Elements \cup {NULL}
  BY <1>3, <1>4 DEF ListInv, NodesTyped
<1> DEFINE k == 1
<1>6. /\ k \in 1 .. Len(s)
      /\ usage # "connections" => k = 1
      /\ NULL = (IF k = 1 THEN NULL ELSE s[k - 1]) /\ Unlink(s[k], NULL)
      /\ usage # "names"
  BY <1>1, <1>3
<1> HIDE DEF k
<1> QED BY <1>1, <1>2, <1>5, <1>6, UnlinkStep

\* What getElementN returns
LEMMA GetElementNType ==
  ASSUME NodesTyped, NEW s, Linked(s), NEW k \in Nat
  PROVE  GetElementN(k) \in Elements \cup {NULL}
<1>1. /\ s \in Seq(Nodes) /\ DOMAIN s = 1 .. Len(s) /\ live = Range(s)
      /\ NodeN(k) = IF k < Len(s) THEN s[k + 1] ELSE NULL
  BY ReadersSee DEF Linked, Readers
<1>2. NodeN(k) = NULL \/ NodeN(k) \in live
  BY <1>1 DEF Range
<1> QED BY <1>2 DEF GetElementN, Payload, NodesTyped

LEMMA GetStep == ListInv /\ Settled /\ GetElement => ListInv' /\ Settled'
<1> SUFFICES ASSUME ListInv, Settled, GetElement PROVE ListInv' /\ Settled'
  OBVIOUS
<1>1. /\ usage \in {"connections", "stack", "parameters"}
      /\ UNCHANGED <<usage, phase, pointers, nodes, names>>
  BY DEF GetElement
<1>2. PICK s : Linked(s)
  BY <1>1 DEF ListInv, Row
<1>3. GetListLength \in Nat
  BY <1>2, LengthIs DEF Linked
<1>4. PICK k \in 0 .. GetListLength : returned' = GetElementN(k)
  BY DEF GetElement
<1>5. returned' \in Elements \cup {NULL}
  <2>1. k \in Nat
    BY <1>3
  <2> QED BY <1>2, <1>4, <2>1, GetElementNType DEF ListInv
<1>6. /\ first' = first /\ next' = next /\ last' = last /\ payload' = payload
      /\ tail' = tail /\ live' = live /\ wild' = wild /\ inserted' = inserted
      /\ read' = read /\ usage' = usage /\ phase' = phase
  BY <1>1 DEF pointers, nodes, names
<1>7. NodesTyped'
  BY <1>5, <1>6 DEF ListInv, NodesTyped
<1>8. Row' /\ Ring' /\ Reading'
  BY <1>6 DEF ListInv, Row, Linked, Ring, Reading, NamesRead, IsEmpty
<1> QED BY <1>6, <1>7, <1>8 DEF ListInv, Settled, IsEmpty

\* The iterator of a list that is no ring goes round it.
LEMMA WrappedLive ==
  ASSUME NEW s, Linked(s), NEW n \in live
  PROVE  Wrapped(n) \in live /\ Wrapped(n) # NULL /\ ~IsEmpty
<1>1. /\ s \in Seq(Nodes) /\ DOMAIN s = 1 .. Len(s) /\ live = Range(s)
      /\ \A i \in 1 .. Len(s) : s[i] \in live /\ s[i] # NULL
  BY AbsentAssumption DEF Linked, Range
<1>2. PICK k \in 1 .. Len(s) : n = s[k]
  BY <1>1 DEF Range
<1>3. s # << >> /\ 1 \in 1 .. Len(s) /\ first = s[1]
  BY <1>1, <1>2 DEF Linked
<1>4. k < Len(s) => k + 1 \in 1 .. Len(s)
  BY <1>1
<1>5. tail[n] = IF k < Len(s) THEN s[k + 1] ELSE NULL
  BY <1>2 DEF Linked
<1> QED BY <1>1, <1>3, <1>4, <1>5 DEF Wrapped, IsEmpty

\* The ring is read alternately.
LEMMA ReadStep ==
  ASSUME ListInv, Settled, GetNextElement, usage = "names"
  PROVE  ListInv' /\ Settled'
<1> USE DEF ListInv
<1>1. /\ phase = "use" /\ phase' = phase /\ Len(read) < Len(inserted)
      /\ usage' = usage /\ first' = first /\ last' = last
      /\ payload' = payload /\ tail' = tail /\ live' = live /\ wild' = wild
      /\ inserted' = inserted
  BY DEF GetNextElement, nodes
<1>2. read \in Seq(Elements) /\ inserted \in Seq(Elements) /\ Len(read) \in Nat
  BY DEF Ring, Reading
<1>3. first # NULL
  BY <1>1, <1>2 DEF Ring
<1>4. /\ tail[first] # NULL /\ first # NULL /\ {first, tail[first]} \subseteq live
      /\ tail[tail[first]] = first
      /\ payload[first] = inserted[1]
      /\ payload[tail[first]] = inserted[Len(inserted)]
      /\ next = IF Len(read) % 2 = 0 THEN first ELSE tail[first]
  BY <1>1, <1>3, AbsentAssumption DEF Ring, Reading, NodesTyped
<1>5. /\ returned' = payload[next] /\ next' = tail[next]
      /\ read' = Append(read, returned')
  BY <1>3, <1>4 DEF GetNextElement, Wrapped, IsEmpty
<1>6. returned' \in Elements
  BY <1>4, <1>5 DEF NodesTyped
<1>7. /\ read' \in Seq(Elements) /\ Len(read') = Len(read) + 1
      /\ DOMAIN read' = DOMAIN read \cup {Len(read) + 1}
      /\ read'[Len(read) + 1] = returned'
      /\ \A i \in DOMAIN read : read'[i] = read[i]
  BY <1>2, <1>5, <1>6
<1>8. (Len(read) + 1) % 2 = IF Len(read) % 2 = 0 THEN 1 ELSE 0
  BY <1>2
<1>9. returned' = inserted[IF (Len(read) + 1) % 2 = 1 THEN 1 ELSE Len(inserted)]
  BY <1>4, <1>5, <1>8
<1>10. NamesRead'
  BY <1>1, <1>7, <1>9 DEF Reading, NamesRead
<1>11. next' = IF Len(read') % 2 = 0 THEN first ELSE tail[first]
  BY <1>4, <1>5, <1>7, <1>8
<1>12. Reading'
  BY <1>1, <1>7, <1>10, <1>11 DEF Reading
<1>13. NodesTyped' /\ Row' /\ Ring'
  BY <1>1, <1>6 DEF NodesTyped, Row, Ring
<1>14. Settled'
  BY <1>1, <1>4, <1>11 DEF Settled, IsEmpty
<1> QED BY <1>12, <1>13, <1>14

\* The iterator moves, or the phase changes, and nothing else.
LEMMA MoveStep ==
  ASSUME ListInv, UNCHANGED <<usage, first, last, nodes, names>>,
         returned' \in Elements \cup {NULL}, usage # "names",
         Settled'
  PROVE  ListInv' /\ Settled'
<1>1. /\ first' = first /\ last' = last /\ payload' = payload
      /\ tail' = tail /\ live' = live /\ wild' = wild /\ inserted' = inserted
      /\ read' = read /\ usage' = usage
  BY DEF nodes, names
<1>2. NodesTyped'
  BY <1>1 DEF ListInv, NodesTyped
<1>3. Row' /\ Ring' /\ Reading'
  BY <1>1 DEF ListInv, Row, Linked, Ring, Reading, NamesRead, IsEmpty
<1> QED BY <1>2, <1>3 DEF ListInv

LEMMA GetNextStep == ListInv /\ Settled /\ GetNextElement => ListInv' /\ Settled'
<1> SUFFICES ASSUME ListInv, Settled, GetNextElement, usage # "names"
             PROVE  ListInv' /\ Settled'
  BY ReadStep
<1>1. /\ UNCHANGED <<usage, first, last, nodes, names>>
      /\ returned' = IF IsEmpty THEN NULL ELSE payload[next]
      /\ next' = IF IsEmpty THEN next ELSE Wrapped(next)
      /\ usage' = usage /\ first' = first /\ live' = live
  BY DEF GetNextElement, nodes, names
<1>2. PICK s : Linked(s)
  BY DEF ListInv, Row
<1>3. ~IsEmpty => next \in live
  BY DEF Settled
<1>4. returned' \in Elements \cup {NULL}
  BY <1>1, <1>3 DEF ListInv, NodesTyped
<1>5. ~IsEmpty => Wrapped(next) \in live /\ Wrapped(next) # NULL
  BY <1>2, <1>3, WrappedLive
<1>6. Settled'
  BY <1>1, <1>5 DEF Settled, IsEmpty
<1> QED BY <1>1, <1>4, <1>6, MoveStep

LEMMA PutOrGetStep == ListInv /\ Settled /\ PutOrGet => ListInv' /\ Settled'
<1> SUFFICES ASSUME ListInv, Settled, PutOrGet PROVE ListInv' /\ Settled'
  OBVIOUS
<1>1. PICK n \in OnList : next' = Wrapped(n)
  BY DEF PutOrGet
<1>2. /\ UNCHANGED <<usage, first, last, nodes, names>> /\ usage = "map"
      /\ returned' = returned /\ usage' = usage /\ first' = first /\ live' = live
  BY DEF PutOrGet, nodes
<1>3. PICK s : Linked(s)
  BY <1>2 DEF ListInv, Row
<1>4. n \in live
  BY <1>3, ReadersSee DEF Readers, Linked
<1>5. Settled'
  BY <1>1, <1>2, <1>3, <1>4, WrappedLive DEF Settled, IsEmpty
<1> QED BY <1>2, <1>5, MoveStep DEF ListInv, NodesTyped

LEMMA RewindStep == ListInv /\ Settled /\ Rewind => ListInv' /\ Settled'
<1> SUFFICES ASSUME ListInv, Settled, Rewind PROVE ListInv' /\ Settled'
  OBVIOUS
<1>1. /\ UNCHANGED <<usage, first, last, nodes, names>>
      /\ returned' = returned /\ usage' = usage /\ first' = first /\ live' = live
      /\ next' = IF IsEmpty THEN next ELSE first
      /\ phase = "build" /\ phase' = IF usage = "names" THEN "use" ELSE phase
  BY DEF Rewind, nodes
<1>2. CASE usage # "names"
  <2>1. PICK s : Linked(s)
    BY <1>2 DEF ListInv, Row
  <2>2. first # NULL => first \in live
    BY <2>1 DEF Linked, Range
  <2>3. Settled'
    BY <1>1, <1>2, <2>2 DEF Settled, IsEmpty
  <2> QED BY <1>1, <1>2, <2>3, MoveStep DEF ListInv, NodesTyped
<1>3. CASE usage = "names"
  <2>1. /\ payload' = payload /\ last' = last
        /\ tail' = tail /\ wild' = wild /\ inserted' = inserted /\ read' = read
        /\ read = << >> /\ Len(read) = 0
    BY <1>1, <1>3 DEF ListInv, Reading, nodes, names
  <2>2. NodesTyped' /\ Row'
    BY <1>1, <1>3, <2>1 DEF ListInv, NodesTyped, Row
  <2>3. Ring'
    BY <1>1, <1>3, <2>1 DEF ListInv, Ring, IsEmpty
  <2>4. Reading'
    BY <1>1, <1>3, <2>1 DEF ListInv, Reading, NamesRead, IsEmpty
  <2>5. Settled'
    BY <1>1, <1>3 DEF Settled, IsEmpty
  <2> QED BY <2>2, <2>3, <2>4, <2>5 DEF ListInv
<1> QED BY <1>2, <1>3

LEMMA ShareStep == ListInv /\ Settled /\ Share => ListInv' /\ Settled'
<1> SUFFICES ASSUME ListInv, Settled, Share PROVE ListInv' /\ Settled'
  OBVIOUS
<1>1. UNCHANGED <<usage, pointers, nodes, names, returned>> /\ usage = "map"
  BY DEF Share
<1>2. Settled'
  BY <1>1 DEF Settled, IsEmpty, pointers, nodes
<1> QED BY <1>1, <1>2, MoveStep DEF ListInv, NodesTyped, pointers

LEMMA DecRefStep == ListInv /\ Settled /\ DecRef => ListInv' /\ Settled'
<1> SUFFICES ASSUME ListInv, Settled, DecRef PROVE ListInv' /\ Settled'
  OBVIOUS
<1> USE DEF ListInv
<1>1. /\ phase' = "gone" /\ phase # "gone" /\ usage' = usage /\ inserted' = inserted
      /\ read' = read /\ returned' = returned
      /\ usage = "connections" => IsEmpty
      /\ usage = "names" => phase = "use"
  BY DEF DecRef, names
<1>2. first' = NULL
  BY DEF DecRef, RemoveAllElements, pointers, IsEmpty
<1>3. Ring' /\ Reading'
  BY <1>1, <1>2 DEF Ring, Reading, NamesRead, IsEmpty
<1>4. CASE IsEmpty
  <2>1. /\ first' = first /\ next' = next /\ last' = last /\ payload' = payload
        /\ tail' = tail /\ live' = live /\ wild' = wild
    BY <1>4 DEF DecRef, pointers, nodes
  <2>2. NodesTyped'
    BY <1>1, <2>1 DEF NodesTyped
  <2>3. Row' /\ Settled'
    BY <1>1, <2>1 DEF Row, Linked, Settled, IsEmpty
  <2> QED BY <1>3, <2>2, <2>3
<1>5. CASE ~IsEmpty
  <2> DEFINE cut == [m \in Nodes |-> IF m = last THEN NULL ELSE tail[m]]
  <2>1. /\ live' = live \ From(first, cut) /\ tail' = cut
        /\ wild' = (wild \/ last \notin live)
        /\ first' = NULL /\ next' = NULL /\ last' = last /\ payload' = payload
    BY <1>5 DEF DecRef, RemoveAllElements
  <2>2. Settled'
    BY <2>1 DEF Settled, IsEmpty
  <2>3. CASE usage = "names"
    <3>1. last \in live
      BY <1>1, <1>5, <2>3 DEF Ring, IsEmpty
    <3>2. NodesTyped'
      BY <1>1, <2>1, <3>1 DEF NodesTyped
    <3> QED BY <1>1, <1>3, <2>2, <2>3, <3>2 DEF Row
  <2>4. CASE usage # "names"
    <3>1. PICK s : /\ Linked(s)
                   /\ usage # "connections" /\ s # << >> => last = s[Len(s)]
      BY <2>4 DEF Row
    <3>2. /\ s \in Seq(Nodes) /\ s # << >> /\ DOMAIN s = 1 .. Len(s)
          /\ Len(s) \in 1 .. Len(s) /\ live = Range(s)
      BY <1>5, <3>1 DEF Linked, IsEmpty
    <3>3. last = s[Len(s)] /\ last \in live /\ tail[last] = NULL
      BY <1>1, <1>5, <3>1, <3>2 DEF Linked, Range
    <3>4. cut = tail
      BY <3>3 DEF NodesTyped
    <3>5. live' = {}
      BY <2>1, <3>1, <3>4, ReadersSee DEF OnList, Linked, Readers
    <3>6. NodesTyped'
      BY <1>1, <2>1, <3>3, <3>4, <3>5 DEF NodesTyped
    <3>7. Linked(<< >>)'
      BY <2>1, <3>5 DEF Linked, Range
    <3>8. Row'
      BY <3>7 DEF Row
    <3> QED BY <1>3, <2>2, <3>6, <3>8
  <2> QED BY <2>3, <2>4
<1> QED BY <1>4, <1>5

\* Every operation of one thread
LEMMA ListStepKeeps == Inv /\ ListStep => Inv'
<1> SUFFICES ASSUME Inv, ListStep PROVE Inv'
  OBVIOUS
<1>1. ListInv /\ Settled /\ SearchInv' /\ (Settled' => Iterator')
  BY Quiet DEF Inv
<1>2. ListInv' /\ Settled'
  BY <1>1, InsertStep, InsertTailStep, RemoveStep, PopStep, GetStep, GetNextStep,
     PutOrGetStep, RewindStep, ShareStep, DecRefStep DEF ListStep
<1> QED BY <1>1, <1>2 DEF Inv

(***************************************************************************)
(* The steps of a search                                                   *)
(***************************************************************************)
\* What the others do not notice of a step of thread t
LEMMA StepFrame ==
  ASSUME Inv, NEW t \in Threads, Searching(t), ~crashed, ~crashed',
         UNCHANGED <<usage, phase, first, last, nodes, names, returned, key,
                     overlapped>>,
         ThreadsTyped', next' \in live \cup {NULL}, hold'[t] \in live \cup {NULL},
         \A u \in Threads \ {t} :
            /\ pc'[u] = pc[u] /\ start'[u] = start[u]
            /\ current'[u] = current[u] /\ hold'[u] = hold[u],
         pc'[t] # "idle",
         next' = NULL => \E u \in Threads : pc'[u] \in {"check", "wrap"},
         ~overlapped[t] /\ pc'[t] # "done" =>
            \A s : Linked(s) => \E a, j \in 1 .. Len(s) : Between(t, s, a, j)',
         ~overlapped[t] /\ pc'[t] = "done" =>
            current'[t] = IF ContainsElement(key[t]) THEN key[t] ELSE NULL
  PROVE  Inv'
<1> USE DEF Inv, SearchInv
<1>1. usage = "map" /\ phase = "use" /\ ~IsEmpty
  BY DEF Threaded
<1>2. /\ usage' = usage /\ phase' = phase /\ first' = first /\ last' = last
      /\ payload' = payload /\ tail' = tail /\ live' = live /\ wild' = wild
      /\ inserted' = inserted /\ read' = read /\ returned' = returned
      /\ key' = key /\ overlapped' = overlapped /\ IsEmpty' = IsEmpty
  BY DEF nodes, names, IsEmpty
<1>3. \A s : Linked(s)' <=> Linked(s)
  BY <1>2 DEF Linked
<1>4. ListInv'
  BY <1>1, <1>2, <1>3 DEF ListInv, NodesTyped, Row, Ring, Reading, NamesRead, IsEmpty
<1>5. \A u \in Threads : Searching(u)' => Searching(u)
  BY DEF Searching
<1>6. Threaded'
  BY <1>1, <1>2, <1>5 DEF Threaded
<1>7. Iterator'
  BY <1>1, <1>2 DEF Iterator
<1>8. Alone'
  <2> SUFFICES ASSUME NEW u \in Threads, Searching(u)', ~overlapped[u], NEW s, Linked(s)
               PROVE  \E a, j \in 1 .. Len(s) : Between(u, s, a, j)'
    BY <1>2, <1>3 DEF Alone
  <2>1. u = t
    BY <1>5 DEF Threaded
  <2> QED BY <2>1 DEF Searching
<1>9. AloneFinds'
  <2>1. OnList' = OnList
    BY <1>2 DEF OnList
  <2>2. \A e : ContainsElement(e)' <=> ContainsElement(e)
    BY <1>2, <2>1 DEF ContainsElement
  <2>3. ASSUME NEW u \in Threads, pc'[u] = "done", ~overlapped[u]
        PROVE  current'[u] = IF ContainsElement(key[u]) THEN key[u] ELSE NULL
    BY <1>1, <2>3 DEF AloneFinds
  <2>4. ContainsElement(key[t])' <=> ContainsElement(key[t])
    BY <2>2
  <2>5. \A u \in Threads : pc'[u] = "done" /\ ~overlapped[u] =>
          current'[u] = IF \E n \in OnList' : payload'[n] = key'[u]
                        THEN key'[u] ELSE NULL
    BY <1>2, <2>1, <2>3 DEF ContainsElement
  <2> QED BY <1>2, <2>5 DEF AloneFinds, ContainsElement
<1> QED BY <1>4, <1>6, <1>7, <1>8, <1>9

\* What is known of the list while it is searched
LEMMA Searched ==
  ASSUME Inv, NEW t \in Threads, Searching(t)
  PROVE  /\ usage = "map" /\ phase = "use" /\ ~IsEmpty
         /\ next \in live \cup {NULL}
         /\ \A n \in live : /\ payload[n] \in Elements /\ n # NULL
                            /\ tail[n] \in live \cup {NULL}
         /\ first \in live
<1>1. usage = "map" /\ phase = "use" /\ ~IsEmpty
  BY DEF Inv, SearchInv, Threaded
<1>2. PICK s : Linked(s)
  BY <1>1 DEF Inv, ListInv, Row
<1>3. s \in Seq(Nodes) /\ DOMAIN s = 1 .. Len(s) /\ live = Range(s)
  BY <1>2 DEF Linked
<1>4. first \in live
  BY <1>1, <1>2, <1>3 DEF Linked, IsEmpty, Range
<1>5. ASSUME NEW n \in live PROVE tail[n] \in live \cup {NULL}
  <2>1. PICK k \in 1 .. Len(s) : n = s[k]
    BY <1>3 DEF Range
  <2>2. tail[n] = IF k < Len(s) THEN s[k + 1] ELSE NULL
    BY <1>2, <2>1 DEF Linked
  <2>3. k < Len(s) => k + 1 \in 1 .. Len(s)
    BY <1>3
  <2> QED BY <1>3, <2>2, <2>3 DEF Range
<1> QED BY <1>1, <1>4, <1>5, AbsentAssumption DEF Inv, ListInv, NodesTyped, Iterator

LEMMA BeginStep == ASSUME Inv, NEW t \in Threads, Begin(t) PROVE Inv'
<1> USE DEF Inv, SearchInv
<1>1. /\ usage = "map" /\ phase = "use" /\ ~IsEmpty /\ ~crashed /\ ~Searching(t)
      /\ pc' = [pc EXCEPT ![t] = "payload"]
      /\ start' = [start EXCEPT ![t] = NULL]
      /\ current' = [current EXCEPT ![t] = NULL]
      /\ overlapped' = [u \in Threads |->
                          IF u = t THEN \E v \in Threads : Searching(v)
                          ELSE overlapped[u] \/ Searching(u)]
      /\ usage' = usage /\ phase' = phase /\ first' = first /\ last' = last
      /\ payload' = payload /\ tail' = tail /\ live' = live /\ wild' = wild
      /\ next' = next
      /\ inserted' = inserted /\ read' = read /\ returned' = returned
      /\ hold' = hold /\ crashed' = crashed
  BY DEF Begin, pointers, nodes, names
<1>2. PICK k \in Elements \cup {Absent} : key' = [key EXCEPT ![t] = k]
  BY DEF Begin
<1>3. \A s : Linked(s)' <=> Linked(s)
  BY <1>1 DEF Linked
<1>4. ListInv'
  BY <1>1, <1>3 DEF ListInv, NodesTyped, Row, Ring, Reading, NamesRead, IsEmpty
<1>5. ThreadsTyped'
  <2>1. overlapped' \in [Threads -> BOOLEAN]
    <3>1. \A u \in Threads : overlapped[u] \in BOOLEAN
      BY DEF ThreadsTyped
    <3>2. \A u \in Threads :
            (IF u = t THEN \E v \in Threads : Searching(v)
             ELSE overlapped[u] \/ Searching(u)) \in BOOLEAN
      OBVIOUS
    <3> QED BY <1>1, <3>2, Zenon
  <2>2. /\ pc' \in [Threads -> PCs] /\ key' \in [Threads -> Elements \cup {Absent, NULL}]
        /\ start' \in [Threads -> Elements \cup {NULL}]
        /\ current' \in [Threads -> Elements \cup {NULL}]
        /\ \A u \in Threads : pc'[u] # "move" => hold[u] = NULL
    BY <1>1, <1>2 DEF ThreadsTyped, PCs, Searching
  <2> QED BY <1>1, <2>1, <2>2 DEF ThreadsTyped
<1>6. \A u \in Threads : Searching(u)' <=> u = t \/ Searching(u)
  BY <1>1 DEF Searching, ThreadsTyped
<1>7. Threaded'
  <2>1. \A u \in Threads : u # t /\ Searching(u) => overlapped'[u] /\ overlapped'[t]
    BY <1>1
  <2>2. \A u, v \in Threads : u # v /\ Searching(u)' /\ Searching(v)' => overlapped'[u]
    BY <1>6, <2>1
  <2> QED BY <1>1, <2>2 DEF Threaded, IsEmpty
<1>8. Iterator'
  <2>1. pc[t] \notin {"check", "wrap"}
    BY <1>1 DEF Searching
  <2> QED BY <1>1, <2>1 DEF Iterator, IsEmpty, ThreadsTyped
<1>9. Alone'
  <2> SUFFICES ASSUME NEW u \in Threads, Searching(u)', ~overlapped'[u],
                      NEW s, Linked(s)
               PROVE  \E a, j \in 1 .. Len(s) : Between(u, s, a, j)'
    BY <1>3 DEF Alone
  <2>1. u = t /\ \A v \in Threads : ~Searching(v)
    BY <1>1, <1>6
  <2>2. next # NULL /\ next \in live
    BY <1>1, <2>1 DEF Iterator, Searching
  <2>3. PICK j \in 1 .. Len(s) : next = s[j]
    BY <2>2 DEF Linked, Range
  <2>4. Between(t, s, j, j)'
    BY <1>1, <1>2, <2>3, AbsentAssumption DEF Between, ThreadsTyped
  <2> QED BY <2>1, <2>4
<1>10. AloneFinds'
  <2>1. \A u \in Threads : pc'[u] = "done" /\ ~overlapped'[u] =>
          /\ pc[u] = "done" /\ ~overlapped[u] /\ u # t
          /\ current'[u] = current[u] /\ key'[u] = key[u]
    BY <1>1, <1>2 DEF ThreadsTyped
  <2>2. OnList' = OnList
    BY <1>1 DEF OnList
  <2> QED BY <1>1, <2>1, <2>2 DEF AloneFinds, ContainsElement
<1> QED BY <1>4, <1>5, <1>7, <1>8, <1>9, <1>10

\* A NULL iterator is met by a thread only while another one wraps it round.
LEMMA CrashStep == ASSUME Inv, NEW t \in Threads, Crash(t) PROVE Inv'
<1> USE DEF Inv, SearchInv
<1>1. /\ ~crashed /\ pc[t] \in {"payload", "tail"} /\ next = NULL /\ crashed' = TRUE
      /\ usage' = usage /\ phase' = phase /\ first' = first /\ last' = last
      /\ payload' = payload /\ tail' = tail /\ live' = live /\ wild' = wild
      /\ next' = next /\ inserted' = inserted /\ read' = read /\ returned' = returned
      /\ pc' = pc /\ key' = key /\ start' = start /\ current' = current
      /\ hold' = hold /\ overlapped' = overlapped
  BY DEF Crash, pointers, nodes, names
<1>2. Searching(t) /\ ~IsEmpty
  BY <1>1 DEF Searching, Threaded
<1>3. PICK u \in Threads : pc[u] \in {"check", "wrap"}
  BY <1>1, <1>2 DEF Iterator
<1>4. u # t /\ Searching(u)
  BY <1>1, <1>3 DEF Searching
<1>5. overlapped[t]
  BY <1>2, <1>4 DEF Threaded
<1>6. \A v \in Threads : Searching(v)' <=> Searching(v)
  BY <1>1 DEF Searching
<1>7. Threaded' /\ ThreadsTyped'
  BY <1>1, <1>2, <1>5, <1>6 DEF Threaded, ThreadsTyped, IsEmpty
<1>8. \A s : Linked(s)' <=> Linked(s)
  BY <1>1 DEF Linked
<1>9. ListInv' /\ Iterator'
  BY <1>1, <1>8
     DEF ListInv, NodesTyped, Row, Ring, Reading, NamesRead, Iterator, IsEmpty
<1>10. Alone'
  BY <1>1, <1>6, <1>8 DEF Alone, Between
<1>11. AloneFinds'
  <2>1. OnList' = OnList
    BY <1>1 DEF OnList
  <2> QED BY <1>1, <1>2, <1>5, <1>6, <2>1 DEF AloneFinds, ContainsElement
<1> QED BY <1>7, <1>9, <1>10, <1>11

LEMMA ReadPayloadStep == ASSUME Inv, NEW t \in Threads, ReadPayload(t) PROVE Inv'
<1>1. /\ pc[t] = "payload" /\ next # NULL /\ ~crashed
      /\ current' = [current EXCEPT ![t] = payload[next]]
      /\ pc' = [pc EXCEPT ![t] = "tail"]
      /\ next' = next /\ start' = start /\ hold' = hold /\ crashed' = crashed
      /\ UNCHANGED <<usage, phase, first, last, nodes, names, returned, key, overlapped>>
  BY DEF ReadPayload, pointers
<1>2. Searching(t)
  BY <1>1 DEF Searching
<1>3. next \in live /\ payload[next] \in Elements
  BY <1>1, <1>2, Searched
<1>4. ThreadsTyped'
  BY <1>1, <1>3 DEF Inv, SearchInv, ThreadsTyped, PCs
<1>5. /\ pc'[t] = "tail" /\ current'[t] = payload[next]
      /\ \A u \in Threads \ {t} : pc'[u] = pc[u] /\ current'[u] = current[u]
  BY <1>1 DEF Inv, SearchInv, ThreadsTyped
<1>6. hold[t] = NULL
  BY <1>1 DEF Inv, SearchInv, ThreadsTyped
<1>7. ASSUME ~overlapped[t], NEW s, Linked(s)
      PROVE  \E a, j \in 1 .. Len(s) : Between(t, s, a, j)'
  <2>1. PICK a, j \in 1 .. Len(s) : Between(t, s, a, j)
    BY <1>2, <1>7 DEF Inv, SearchInv, Alone
  <2>2. Between(t, s, a, j)'
    BY <1>1, <1>5, <2>1 DEF Between, nodes
  <2> QED BY <2>2
<1> QED BY <1>1, <1>2, <1>3, <1>4, <1>5, <1>6, <1>7, StepFrame

LEMMA ReadTailStep == ASSUME Inv, NEW t \in Threads, ReadTail(t) PROVE Inv'
<1>1. /\ pc[t] = "tail" /\ next # NULL /\ ~crashed
      /\ hold' = [hold EXCEPT ![t] = tail[next]]
      /\ pc' = [pc EXCEPT ![t] = "move"]
      /\ next' = next /\ start' = start /\ current' = current /\ crashed' = crashed
      /\ UNCHANGED <<usage, phase, first, last, nodes, names, returned, key, overlapped>>
  BY DEF ReadTail, pointers
<1>2. Searching(t)
  BY <1>1 DEF Searching
<1>3. next \in live /\ tail[next] \in live \cup {NULL}
  BY <1>1, <1>2, Searched
<1>4. ThreadsTyped'
  BY <1>1, <1>3 DEF Inv, ListInv, NodesTyped, SearchInv, ThreadsTyped, PCs
<1>5. /\ pc'[t] = "move" /\ hold'[t] = tail[next]
      /\ \A u \in Threads \ {t} : pc'[u] = pc[u] /\ hold'[u] = hold[u]
  BY <1>1 DEF Inv, SearchInv, ThreadsTyped
<1>6. ASSUME ~overlapped[t], NEW s, Linked(s)
      PROVE  \E a, j \in 1 .. Len(s) : Between(t, s, a, j)'
  <2>1. PICK a, j \in 1 .. Len(s) : Between(t, s, a, j)
    BY <1>2, <1>6 DEF Inv, SearchInv, Alone
  <2>2. Between(t, s, a, j)'
    BY <1>1, <1>5, <2>1 DEF Between, nodes
  <2> QED BY <2>2
<1> QED BY <1>1, <1>2, <1>3, <1>4, <1>5, <1>6, StepFrame

LEMMA MoveOnStep == ASSUME Inv, NEW t \in Threads, MoveOn(t) PROVE Inv'
<1>1. /\ pc[t] = "move" /\ ~crashed
      /\ next' = hold[t]
      /\ hold' = [hold EXCEPT ![t] = NULL]
      /\ pc' = [pc EXCEPT ![t] = "check"]
      /\ start' = start /\ current' = current /\ crashed' = crashed
      /\ UNCHANGED <<usage, phase, first, last, nodes, names, returned, key, overlapped>>
  BY DEF MoveOn
<1>2. Searching(t)
  BY <1>1 DEF Searching
<1>3. hold[t] \in live \cup {NULL}
  BY <1>2, Searched DEF Inv, Iterator
<1>4. ThreadsTyped'
  BY <1>1 DEF Inv, SearchInv, ThreadsTyped, PCs
<1>5. /\ pc'[t] = "check" /\ hold'[t] = NULL
      /\ \A u \in Threads \ {t} : pc'[u] = pc[u] /\ hold'[u] = hold[u]
  BY <1>1 DEF Inv, SearchInv, ThreadsTyped
<1>6. ASSUME ~overlapped[t], NEW s, Linked(s)
      PROVE  \E a, j \in 1 .. Len(s) : Between(t, s, a, j)'
  <2>1. PICK a, j \in 1 .. Len(s) : Between(t, s, a, j)
    BY <1>2, <1>6 DEF Inv, SearchInv, Alone
  <2>2. Between(t, s, a, j)'
    BY <1>1, <1>5, <2>1 DEF Between, nodes
  <2> QED BY <2>2
<1> QED BY <1>1, <1>2, <1>3, <1>4, <1>5, <1>6, StepFrame

\* One more place is passed.
LEMMA PassedNext ==
  ASSUME NEW s, Len(s) \in Nat, NEW a \in 1 .. Len(s), NEW j \in 1 .. Len(s),
         NEW i \in Passed(s, a, IF j < Len(s) THEN j + 1 ELSE 1)
  PROVE  i = j \/ (a # j /\ i \in Passed(s, a, j)) \/ (a = j /\ i = j)
BY DEF Passed

\* A search that comes back to where it began has passed them all.
LEMMA PassedAll ==
  ASSUME NEW s, Len(s) \in Nat, NEW a \in 1 .. Len(s)
  PROVE  Passed(s, a, a) = 1 .. Len(s)
<1>1. Passed(s, a, a) = (a .. Len(s)) \cup (1 .. (a - 1))
  BY DEF Passed
<1>2. \A i : i \in (a .. Len(s)) \cup (1 .. (a - 1)) <=> i \in 1 .. Len(s)
  OBVIOUS
<1> QED BY <1>1, <1>2

LEMMA CompareStep ==
  ASSUME Inv, NEW t \in Threads, ~crashed, crashed' = crashed,
         \/ pc[t] = "check" /\ next # NULL /\ next' = next
         \/ pc[t] = "wrap" /\ next' = first,
         Compare(t), hold' = hold,
         UNCHANGED <<usage, phase, first, last, nodes, names, returned, key,
                     overlapped>>
  PROVE  Inv'
<1> DEFINE seen == current[t]
           over == seen = key[t] \/ seen = start[t]
<1>1. Searching(t) /\ pc[t] \in {"check", "wrap"}
  BY DEF Searching
<1>2. /\ pc' = [pc EXCEPT ![t] = IF over THEN "done" ELSE "payload"]
      /\ current' = [current EXCEPT ![t] = IF seen = key[t] THEN seen ELSE NULL]
      /\ start' = [start EXCEPT ![t] =
                      IF over THEN NULL ELSE IF @ = NULL THEN seen ELSE @]
  BY DEF Compare
<1>3. ThreadsTyped /\ hold[t] = NULL /\ key' = key /\ overlapped' = overlapped
  BY <1>1 DEF Inv, SearchInv, ThreadsTyped
<1>4. ThreadsTyped'
  BY <1>2, <1>3 DEF ThreadsTyped, PCs
<1>5. /\ pc'[t] = IF over THEN "done" ELSE "payload"
      /\ current'[t] = IF seen = key[t] THEN seen ELSE NULL
      /\ start'[t] = IF over THEN NULL ELSE IF start[t] = NULL THEN seen ELSE start[t]
      /\ \A u \in Threads \ {t} : /\ pc'[u] = pc[u] /\ start'[u] = start[u]
                                 /\ current'[u] = current[u]
  BY <1>2, <1>3 DEF ThreadsTyped
<1>6. next' \in live /\ next' # NULL
  BY <1>1, Searched
<1>7. PICK s : Linked(s)
  BY <1>1, Searched DEF Inv, ListInv, Row
<1>8. /\ s \in Seq(Nodes) /\ Len(s) \in Nat /\ DOMAIN s = 1 .. Len(s)
      /\ live = Range(s) /\ OnList = Range(s)
      /\ \A i \in 1 .. Len(s) : payload[s[i]] \in Elements /\ payload[s[i]] # NULL
  <2>1. /\ s \in Seq(Nodes) /\ Len(s) \in Nat /\ DOMAIN s = 1 .. Len(s)
        /\ live = Range(s) /\ OnList = Range(s)
    BY <1>7, ReadersSee DEF Linked, Readers
  <2>2. \A n \in live : payload[n] \in Elements
    BY DEF Inv, ListInv, NodesTyped
  <2> QED BY <2>1, <2>2, AbsentAssumption DEF Range
<1>9. \A k : ContainsElement(k) <=> \E i \in 1 .. Len(s) : payload[s[i]] = k
  BY <1>8 DEF ContainsElement, Range
<1>10. ASSUME ~overlapped[t], NEW r, Linked(r)
       PROVE  \E a, j \in 1 .. Len(r) : Between(t, r, a, j)
  BY <1>1, <1>10 DEF Inv, SearchInv, Alone
<1>11. ASSUME ~overlapped[t], ~over, NEW r, Linked(r)
       PROVE  \E a, j \in 1 .. Len(r) : Between(t, r, a, j)'
  <2>1. PICK a, j \in 1 .. Len(r) : Between(t, r, a, j)
    BY <1>10, <1>11
  <2> DEFINE k == IF j < Len(r) THEN j + 1 ELSE 1
  <2>2. /\ r \in Seq(Nodes) /\ Len(r) \in Nat /\ first = r[1] /\ DOMAIN r = 1 .. Len(r)
        /\ tail[r[j]] = IF j < Len(r) THEN r[j + 1] ELSE NULL
        /\ \A i \in 1 .. Len(r) : r[i] # NULL /\ r[i] \in live
    BY <1>11, AbsentAssumption DEF Linked, Range
  <2>3. /\ seen = payload[r[j]] /\ next = tail[r[j]] /\ key[t] # NULL
        /\ pc[t] = "wrap" => next = NULL
        /\ IF start[t] = NULL THEN a = j
           ELSE /\ start[t] = payload[r[a]]
                /\ \A i \in Passed(r, a, j) : payload[r[i]] # key[t]
    BY <1>1, <2>1 DEF Between
  <2>4. next' = r[k] /\ k \in 1 .. Len(r)
    <3>1. CASE j < Len(r)
      <4>1. next = r[j + 1] /\ j + 1 \in 1 .. Len(r) /\ next # NULL
        BY <2>2, <2>3, <3>1
      <4> QED BY <2>3, <3>1, <4>1
    <3>2. CASE ~(j < Len(r))
      <4>1. next = NULL /\ 1 \in 1 .. Len(r)
        BY <2>2, <2>3, <3>2
      <4> QED BY <2>2, <3>2, <4>1
    <3> QED BY <3>1, <3>2
  <2>5. seen \in Elements /\ seen # NULL
    BY <2>2, <2>3, AbsentAssumption DEF Inv, ListInv, NodesTyped
  <2>6. start'[t] = payload[r[a]] /\ start'[t] # NULL
    BY <1>5, <1>11, <2>3, <2>5
  <2>7. ASSUME NEW i \in Passed(r, a, k) PROVE payload[r[i]] # key[t]
    <3>1. i = j \/ (a # j /\ i \in Passed(r, a, j)) \/ (a = j /\ i = j)
      BY <2>2, <2>7, PassedNext
    <3>2. CASE i = j
      BY <1>11, <2>3, <3>2
    <3>3. CASE i # j
      <4>1. a # j /\ i \in Passed(r, a, j)
        BY <3>1, <3>3
      <4> QED BY <2>3, <4>1
    <3> QED BY <3>2, <3>3
  <2>8. pc'[t] = "payload" /\ key'[t] = key[t] /\ payload' = payload
    BY <1>5, <1>11 DEF nodes
  <2> HIDE DEF k
  <2>9. Between(t, r, a, k)'
    BY <2>3, <2>4, <2>6, <2>7, <2>8 DEF Between
  <2> QED BY <2>4, <2>9
<1>12. ASSUME ~overlapped[t], over
       PROVE  current'[t] = IF ContainsElement(key[t]) THEN key[t] ELSE NULL
  <2>1. PICK a, j \in 1 .. Len(s) : Between(t, s, a, j)
    BY <1>7, <1>10, <1>12
  <2>2. /\ seen = payload[s[j]]
        /\ IF start[t] = NULL THEN a = j
           ELSE /\ start[t] = payload[s[a]]
                /\ \A i \in Passed(s, a, j) : payload[s[i]] # key[t]
    BY <1>1, <2>1 DEF Between
  <2>3. CASE seen = key[t]
    BY <1>5, <1>9, <2>2, <2>3
  <2>4. CASE seen # key[t]
    <3>1. seen = start[t] /\ start[t] # NULL
      BY <1>8, <1>12, <2>2, <2>4
    <3>2. a = j
      BY <1>7, <2>2, <3>1 DEF Linked
    <3>3. Passed(s, a, a) = 1 .. Len(s)
      BY <1>8, PassedAll
    <3>4. ~ContainsElement(key[t])
      BY <1>9, <2>2, <3>1, <3>2, <3>3
    <3> QED BY <1>5, <2>4, <3>4
  <2> QED BY <2>3, <2>4
<1> HIDE DEF over, seen
<1>13. pc'[t] # "idle" /\ hold'[t] \in live \cup {NULL}
  BY <1>3, <1>5
<1>14. ~overlapped[t] /\ pc'[t] # "done" =>
         \A r : Linked(r) => \E a, j \in 1 .. Len(r) : Between(t, r, a, j)'
  BY <1>5, <1>11
<1>15. ~overlapped[t] /\ pc'[t] = "done" =>
         current'[t] = IF ContainsElement(key[t]) THEN key[t] ELSE NULL
  BY <1>5, <1>12
<1> QED BY <1>1, <1>4, <1>5, <1>6, <1>13, <1>14, <1>15, StepFrame

LEMMA CheckStep == ASSUME Inv, NEW t \in Threads, Check(t) PROVE Inv'
<1>1. /\ pc[t] = "check" /\ ~crashed /\ crashed' = crashed /\ hold' = hold /\ next' = next
      /\ UNCHANGED <<usage, phase, first, last, nodes, names, returned, key, overlapped>>
  BY DEF Check, pointers
<1>2. CASE next # NULL
  BY <1>1, <1>2, CompareStep DEF Check
<1>3. CASE next = NULL
  <2>1. /\ pc' = [pc EXCEPT ![t] = "wrap"] /\ current' = current /\ start' = start
    BY <1>3 DEF Check
  <2>2. Searching(t)
    BY <1>1 DEF Searching
  <2>3. ThreadsTyped' /\ hold[t] = NULL
    BY <1>1, <2>1 DEF Inv, SearchInv, ThreadsTyped, PCs
  <2>4. pc'[t] = "wrap" /\ \A u \in Threads \ {t} : pc'[u] = pc[u]
    BY <2>1 DEF Inv, SearchInv, ThreadsTyped
  <2>5. ASSUME ~overlapped[t], NEW s, Linked(s)
        PROVE  \E a, j \in 1 .. Len(s) : Between(t, s, a, j)'
    <3>1. PICK a, j \in 1 .. Len(s) : Between(t, s, a, j)
      BY <2>2, <2>5 DEF Inv, SearchInv, Alone
    <3>2. Between(t, s, a, j)'
      BY <1>1, <1>3, <2>1, <2>4, <3>1 DEF Between, nodes
    <3> QED BY <3>2
  <2> QED BY <1>1, <1>3, <2>1, <2>2, <2>3, <2>4, <2>5, StepFrame
<1> QED BY <1>2, <1>3

LEMMA WrapStep == ASSUME Inv, NEW t \in Threads, Wrap(t) PROVE Inv'
BY CompareStep DEF Wrap

(***************************************************************************)
(* The invariant is inductive.                                             *)
(***************************************************************************)
LEMMA InitInv == Init => Inv
<1> SUFFICES ASSUME Init PROVE Inv
  OBVIOUS
<1> USE DEF Init
<1>1. NodesTyped
  BY DEF NodesTyped
<1>2. Row
  <2>1. Linked(<< >>)
    BY DEF Linked, Range
  <2> QED BY <2>1 DEF Row
<1>3. Ring /\ Reading
  BY DEF Ring, Reading, NamesRead
<1>4. Threaded /\ ThreadsTyped /\ Iterator
  BY DEF Threaded, ThreadsTyped, Iterator, PCs, Searching, IsEmpty
<1>5. Alone /\ AloneFinds
  BY DEF Alone, AloneFinds, Searching
<1> QED BY <1>1, <1>2, <1>3, <1>4, <1>5 DEF Inv, ListInv, SearchInv

LEMMA StutterInv == Inv /\ UNCHANGED vars => Inv'
<1> SUFFICES ASSUME Inv, UNCHANGED vars PROVE Inv'
  OBVIOUS
<1>1. /\ usage' = usage /\ phase' = phase /\ first' = first /\ last' = last
      /\ payload' = payload /\ tail' = tail /\ live' = live /\ wild' = wild
      /\ next' = next /\ inserted' = inserted /\ read' = read /\ returned' = returned
      /\ pc' = pc /\ key' = key /\ start' = start /\ current' = current
      /\ hold' = hold /\ overlapped' = overlapped /\ crashed' = crashed
  BY DEF vars, pointers, nodes, names, searches
<1>2. \A s : Linked(s)' <=> Linked(s)
  BY <1>1 DEF Linked
<1>3. ListInv'
  BY <1>1, <1>2
     DEF Inv, ListInv, NodesTyped, Row, Ring, Reading, NamesRead, IsEmpty
<1>4. Threaded' /\ ThreadsTyped' /\ Iterator'
  BY <1>1
     DEF Inv, SearchInv, Threaded, ThreadsTyped, Iterator, Searching, IsEmpty
<1>5. Alone'
  BY <1>1, <1>2 DEF Inv, SearchInv, Alone, Between, Searching
<1>6. AloneFinds'
  <2>1. OnList' = OnList
    BY <1>1 DEF OnList
  <2> QED BY <1>1, <2>1
          DEF Inv, SearchInv, AloneFinds, ContainsElement, Searching
<1> QED BY <1>3, <1>4, <1>5, <1>6 DEF Inv, SearchInv

LEMMA NextInv == Inv /\ [Next]_vars => Inv'
<1> SUFFICES ASSUME Inv, [Next]_vars PROVE Inv'
  OBVIOUS
<1>1. CASE ListStep
  BY <1>1, ListStepKeeps
<1>2. ASSUME NEW t \in Threads, Begin(t) \/ Step(t) PROVE Inv'
  BY <1>2, BeginStep, CrashStep, ReadPayloadStep, ReadTailStep, MoveOnStep,
     CheckStep, WrapStep DEF Step
<1>3. CASE Over \/ UNCHANGED vars
  BY <1>3, StutterInv DEF Over
<1> QED BY <1>1, <1>2, <1>3 DEF Next, ListStep

LEMMA Invariant == Spec => []Inv
<1> QED BY InitInv, NextInv, PTL DEF Spec

(***************************************************************************)
(* The theorems                                                            *)
(***************************************************************************)
\* What the two ways of keeping the nodes have in common
LEMMA FirstOnList == Inv => first \in live \cup {NULL} /\ next \in Nodes \cup {NULL}
<1> SUFFICES ASSUME Inv PROVE first \in live \cup {NULL} /\ next \in Nodes \cup {NULL}
  OBVIOUS
<1> USE DEF Inv, ListInv
<1>1. CASE usage # "names"
  <2>1. PICK s : Linked(s)
    BY <1>1 DEF Row
  <2> QED BY <1>1, <2>1 DEF Linked, Range, Iterator, NodesTyped
<1>2. CASE usage = "names"
  BY <1>2 DEF Ring, Reading, Iterator, IsEmpty, NodesTyped
<1> QED BY <1>1, <1>2

\* Type correctness: what is read from the nodes of the list are elements and
\* nodes, however many of them were freed before.
THEOREM TypeCorrect == Spec => []TypeOK
<1>1. Inv => TypeOK
  <2> SUFFICES ASSUME Inv PROVE TypeOK
    OBVIOUS
  <2>1. {first, next, last} \subseteq Nodes \cup {NULL}
    BY FirstOnList DEF Inv, ListInv, NodesTyped
  <2> QED BY <2>1 DEF TypeOK, Inv, ListInv, NodesTyped, SearchInv, ThreadsTyped, PCs
<1> QED BY <1>1, Invariant, PTL

\* `last' points at a node that was freed when connections were removed, and
\* is written through when names are collected and when a list is given up:
\* of one list never both.
THEOREM NoWildWriteAlways == Spec => []NoWildWrite
<1>1. Inv => NoWildWrite
  BY DEF Inv, ListInv, NodesTyped, NoWildWrite
<1> QED BY <1>1, Invariant, PTL

\* No removal loses a node, or leaves one linked that was freed.
THEOREM NodesAlwaysAccounted == Spec => []NodesAccounted
<1>1. Inv => NodesAccounted
  BY ReadersSee DEF Inv, ListInv, Row, Linked, Readers, NodesAccounted
<1> QED BY <1>1, Invariant, PTL

\* Nothing but a search under way leaves the iterator outside the list.
THEOREM IteratorAlwaysSettles == Spec => []IteratorSettles
<1>1. Inv => IteratorSettles
  <2> SUFFICES ASSUME Inv, ~IsEmpty, \A t \in Threads : ~Searching(t)
               PROVE  next \in OnList
    BY DEF IteratorSettles
  <2> USE DEF Inv, ListInv
  <2>1. next # NULL
    BY DEF Iterator, Searching
  <2>2. CASE usage # "names"
    <3>1. PICK s : Linked(s)
      BY <2>2 DEF Row
    <3> QED BY <2>1, <2>2, <3>1, ReadersSee DEF Linked, Readers, Iterator
  <2>3. CASE usage = "names"
    <3>1. /\ next \in {first, tail[first]} /\ first # NULL
          /\ first \in Nodes /\ tail[first] \in Nodes
      BY <2>3 DEF Ring, Reading, IsEmpty, NodesTyped
    <3>2. tail[first] # NULL
      BY <3>1, AbsentAssumption
    <3> QED BY <3>1, <3>2 DEF OnList, From, Closed
  <2> QED BY <2>2, <2>3
<1> QED BY <1>1, Invariant, PTL

\* A search that no other overlaps finds what is there, from wherever the
\* searches before it have left the iterator, and no search ends the program
\* that no other overlaps.
THEOREM AloneAlwaysFinds == Spec => []AloneFinds
<1>1. Inv => AloneFinds
  BY DEF Inv, SearchInv
<1> QED BY <1>1, Invariant, PTL

\* Of any number of names the first and the last are read in turn.
THEOREM NamesAlwaysRead == Spec => []NamesRead
<1>1. Inv => NamesRead
  BY DEF Inv, ListInv, Reading
<1> QED BY <1>1, Invariant, PTL

(***************************************************************************)
(* The refinement                                                          *)
(***************************************************************************)
ElementsOf(s) == [i \in 1 .. Len(s) |-> payload[s[i]]]

\* What stands for the abstract list
AbstractListOf ==
  IF usage = "names" THEN [elements |-> << >>, next |-> NULL]
  ELSE [elements |-> ElementsOnList,
        next |-> IF next = NULL THEN GetElementN(0) ELSE Payload(next)]

View ==
  \A s : Linked(s) /\ usage # "names" =>
    AbstractListOf = [elements |-> ElementsOf(s),
                      next |-> IF next # NULL THEN payload[next]
                               ELSE IF s = << >> THEN NULL ELSE payload[s[1]]]

LEMMA ViewHolds == View
<1> SUFFICES ASSUME NEW s, Linked(s), usage # "names"
             PROVE  AbstractListOf =
                      [elements |-> ElementsOf(s),
                       next |-> IF next # NULL THEN payload[next]
                                ELSE IF s = << >> THEN NULL ELSE payload[s[1]]]
  BY DEF View
<1>1. ElementsOnList = ElementsOf(s)
  BY ReadersSee DEF Readers, ElementsOf
<1>2. GetElementN(0) = IF s = << >> THEN NULL ELSE payload[s[1]]
  <2>1. s \in Seq(Nodes) /\ (s # << >> => s[1] # NULL)
    BY AbsentAssumption DEF Linked
  <2>2. NodeN(0) = IF 0 < Len(s) THEN s[0 + 1] ELSE NULL
    BY ReadersSee DEF Readers
  <2> QED BY <2>1, <2>2 DEF GetElementN, Payload
<1> QED BY <1>1, <1>2 DEF AbstractListOf, Payload

LEMMA ViewNext == View'
BY ViewHolds, PTL

\* The sequence and its payloads
LEMMA LinkedFacts ==
  ASSUME NodesTyped, NEW s, Linked(s)
  PROVE  /\ s \in Seq(Nodes) /\ Len(s) \in Nat /\ DOMAIN s = 1 .. Len(s)
         /\ ElementsOf(s) \in Seq(Elements) /\ Len(ElementsOf(s)) = Len(s)
         /\ \A i \in 1 .. Len(s) : ElementsOf(s)[i] = payload[s[i]]
         /\ \A i \in 1 .. Len(s) : s[i] \in live /\ s[i] # NULL
         /\ \A n \in live : \E i \in 1 .. Len(s) : n = s[i]
         /\ ElementsOf(s) = << >> <=> s = << >>
         /\ IsEmpty <=> s = << >>
         /\ Abstract!ToSet(ElementsOf(s)) = {payload[n] : n \in live}
<1>1. s \in Seq(Nodes) /\ Len(s) \in Nat /\ DOMAIN s = 1 .. Len(s) /\ live = Range(s)
  BY DEF Linked
<1>2. /\ \A i \in 1 .. Len(s) : s[i] \in live /\ s[i] # NULL
      /\ \A n \in live : \E i \in 1 .. Len(s) : n = s[i]
      /\ IsEmpty <=> s = << >>
  BY <1>1, AbsentAssumption DEF Linked, Range, IsEmpty
<1>3. \A i \in 1 .. Len(s) : payload[s[i]] \in Elements
  BY <1>2 DEF NodesTyped
<1>4. /\ ElementsOf(s) \in Seq(Elements) /\ Len(ElementsOf(s)) = Len(s)
      /\ \A i \in 1 .. Len(s) : ElementsOf(s)[i] = payload[s[i]]
      /\ DOMAIN ElementsOf(s) = 1 .. Len(s)
  BY <1>1, <1>3 DEF ElementsOf
<1>5. ElementsOf(s) = << >> <=> s = << >>
  BY <1>1, <1>4
<1>6. Abstract!ToSet(ElementsOf(s)) = {payload[n] : n \in live}
  BY <1>1, <1>2, <1>4 DEF Abstract!ToSet
<1> QED BY <1>1, <1>2, <1>4, <1>5, <1>6

\* Where a payload is found
LEMMA PositionIs ==
  ASSUME NodesTyped, NEW s, Linked(s), NEW k \in 1 .. Len(s),
         NEW l, l.elements = ElementsOf(s)
  PROVE  Abstract!PositionOf(l, payload[s[k]]) = k
<1>1. /\ Len(ElementsOf(s)) = Len(s)
      /\ \A i \in 1 .. Len(s) : ElementsOf(s)[i] = payload[s[i]]
  BY LinkedFacts
<1>2. \A i \in 1 .. Len(s) : payload[s[i]] = payload[s[k]] => i = k
  BY DEF Linked
<1> QED BY <1>1, <1>2 DEF Abstract!PositionOf

AbstractStep ==
  IF usage = "names" THEN UNCHANGED AbstractListOf
  ELSE Abstract!Next \/ UNCHANGED <<AbstractListOf, returned>>

LEMMA InsertRefines == Inv /\ Inv' /\ InsertElement => Abstract!Insert
<1> SUFFICES ASSUME Inv, Inv', InsertElement PROVE Abstract!Insert
  OBVIOUS
<1>1. PICK e \in NewElements, n \in FreeNodes :
        /\ ConstructNode(n, e, first)
        /\ first' = n
        /\ next' = IF IsEmpty THEN n ELSE next
  BY DEF InsertElement
<1>2. usage' = usage /\ phase = "build" /\ usage # "names" /\ returned' = returned
  BY DEF InsertElement
<1>3. PICK s : Linked(s)
  BY <1>2 DEF Inv, ListInv, Row
<1>4. n \in Nodes \ live /\ e \in Elements /\ ~ContainsElement(e) /\ NodesTyped
  BY DEF FreeNodes, NodesTyped, NewElements, Inv, ListInv
<1> DEFINE q == <<n>> \o s
<1>5. /\ Linked(q)' /\ payload'[n] = e
      /\ \A i \in 1 .. Len(s) : payload'[s[i]] = payload[s[i]]
  BY <1>1, <1>3, <1>4, InsertLinked
<1>6. /\ s \in Seq(Nodes) /\ Len(s) \in Nat
      /\ ElementsOf(s) \in Seq(Elements) /\ Len(ElementsOf(s)) = Len(s)
      /\ \A i \in 1 .. Len(s) : ElementsOf(s)[i] = payload[s[i]]
      /\ \A m \in live : \E i \in 1 .. Len(s) : m = s[i]
      /\ ElementsOf(s) = << >> <=> s = << >>
      /\ IsEmpty <=> s = << >>
  BY <1>3, <1>4, LinkedFacts
<1>7. /\ Len(q) = Len(s) + 1 /\ q[1] = n
      /\ \A i \in 2 .. Len(s) + 1 : i - 1 \in 1 .. Len(s) /\ q[i] = s[i - 1]
  BY <1>4, <1>6
<1>8. ElementsOf(q)' = <<e>> \o ElementsOf(s)
  <2>1. ElementsOf(q)' = [i \in 1 .. Len(q) |-> payload'[q[i]]]
    BY DEF ElementsOf
  <2> HIDE DEF q
  <2> DEFINE r == <<e>> \o ElementsOf(s)
  <2>2. /\ Len(r) = Len(s) + 1 /\ DOMAIN r = 1 .. Len(s) + 1 /\ r[1] = e
        /\ \A i \in 2 .. Len(s) + 1 : r[i] = ElementsOf(s)[i - 1]
        /\ r = [i \in 1 .. Len(s) + 1 |-> r[i]]
    BY <1>4, <1>6
  <2> HIDE DEF r
  <2>3. ASSUME NEW i \in 1 .. Len(s) + 1 PROVE payload'[q[i]] = r[i]
    <3>1. CASE i = 1
      BY <1>5, <1>7, <2>2, <3>1
    <3>2. CASE i # 1
      <4>1. i \in 2 .. Len(s) + 1
        BY <1>6, <3>2
      <4>2. i - 1 \in 1 .. Len(s) /\ q[i] = s[i - 1] /\ r[i] = ElementsOf(s)[i - 1]
        BY <1>7, <2>2, <4>1
      <4> QED BY <1>5, <1>6, <4>2
    <3> QED BY <3>1, <3>2
  <2>4. [i \in 1 .. Len(q) |-> payload'[q[i]]] = r
    BY <1>7, <2>2, <2>3
  <2> QED BY <2>1, <2>4 DEF r
<1> HIDE DEF q
<1>9. AbstractListOf = [elements |-> ElementsOf(s),
                        next |-> IF next # NULL THEN payload[next]
                                 ELSE IF s = << >> THEN NULL ELSE payload[s[1]]]
  BY <1>2, <1>3, ViewHolds DEF View
<1>10. AbstractListOf' = [elements |-> ElementsOf(q)',
                          next |-> IF next' # NULL THEN payload'[next']
                                   ELSE IF q = << >> THEN NULL ELSE payload'[q[1]]]
  BY <1>2, <1>5, ViewNext DEF View
<1>11. AbstractListOf' = Abstract!InsertElement(AbstractListOf, e)
  <2>1. CASE s = << >>
    <3>1. next' = n /\ n # NULL
      BY <1>1, <1>4, <1>6, <2>1, AbsentAssumption
    <3> QED BY <1>5, <1>6, <1>8, <1>9, <1>10, <2>1, <3>1
            DEF Abstract!InsertElement, Abstract!IsEmpty
  <2>2. CASE s # << >>
    <3>1. next' = next /\ next # NULL /\ next \in live
      BY <1>1, <1>2, <1>6, <2>2, Quiet DEF ListStep, Settled
    <3>2. payload'[next] = payload[next]
      BY <1>5, <1>6, <3>1
    <3> QED BY <1>6, <1>8, <1>9, <1>10, <2>2, <3>1, <3>2
            DEF Abstract!InsertElement, Abstract!IsEmpty
  <2> QED BY <2>1, <2>2
<1>12. e \in Elements \ Abstract!ToSet(AbstractListOf.elements)
  BY <1>3, <1>4, <1>9, LinkedFacts, ReadersSee
     DEF Readers, ContainsElement, Linked
<1> QED BY <1>2, <1>11, <1>12 DEF Abstract!Insert, AbstractListOf

\* The node that leaves the list takes its payload along, and the iterator
\* moves on from it.
LEMMA UnlinkRefines ==
  ASSUME Inv, Inv', usage # "names", usage' = usage, Settled,
         NEW s, Linked(s), NEW k \in 1 .. Len(s),
         NEW p, p = (IF k = 1 THEN NULL ELSE s[k - 1]), Unlink(s[k], p)
  PROVE  AbstractListOf' = Abstract!RemoveElement(AbstractListOf, payload[s[k]])
<1> DEFINE r == RemoveAt(s, k)
           l == AbstractListOf
           e == payload[s[k]]
           els == ElementsOf(s)
           rest == RemoveAt(els, k)
<1>1. NodesTyped
  BY DEF Inv, ListInv
<1>2. /\ s \in Seq(Nodes) /\ Len(s) \in Nat
      /\ els \in Seq(Elements) /\ Len(els) = Len(s) /\ DOMAIN els = 1 .. Len(s)
      /\ \A i \in 1 .. Len(s) : els[i] = payload[s[i]]
      /\ \A i \in 1 .. Len(s) : s[i] \in live /\ s[i] # NULL
      /\ \A m \in live : \E i \in 1 .. Len(s) : m = s[i]
      /\ IsEmpty <=> s = << >>
  BY <1>1, LinkedFacts
<1>3. /\ \A i, j \in 1 .. Len(s) : payload[s[i]] = payload[s[j]] => i = j
      /\ \A i \in 1 .. Len(s) : tail[s[i]] = IF i < Len(s) THEN s[i + 1] ELSE NULL
      /\ first = s[1]
  BY DEF Linked
<1>4. /\ Linked(r)'
      /\ \A i \in 1 .. Len(s) : i # k => payload'[s[i]] = payload[s[i]]
  BY <1>1, UnlinkLinked
<1>5. /\ r \in Seq(Nodes) /\ Len(r) = Len(s) - 1
      /\ \A i \in 1 .. Len(s) : i < k => r[i] = s[i]
      /\ \A i \in 1 .. Len(s) : i > k => r[i - 1] = s[i]
  <2>1. s \in Seq(Nodes)
    BY <1>2
  <2> QED BY <2>1, RemoveAtProperties
<1> HIDE DEF els
<1>6. /\ rest \in Seq(Elements) /\ Len(rest) = Len(s) - 1
      /\ \A i \in 1 .. Len(s) : i < k => rest[i] = els[i]
      /\ \A i \in 1 .. Len(s) : i > k => rest[i - 1] = els[i]
  <2>1. els \in Seq(Elements) /\ k \in 1 .. Len(els)
    BY <1>2
  <2> HIDE DEF rest
  <2>2. /\ rest \in Seq(Elements) /\ Len(rest) = Len(els) - 1
        /\ \A i \in 1 .. Len(els) : i < k => rest[i] = els[i]
        /\ \A i \in 1 .. Len(els) : i > k => rest[i - 1] = els[i]
    BY <2>1, RemoveAtProperties DEF rest
  <2> QED BY <1>2, <2>2
<1>7. l = [elements |-> els, next |-> IF next # NULL THEN payload[next]
                                      ELSE IF s = << >> THEN NULL ELSE payload[s[1]]]
  BY ViewHolds DEF View, els
<1>8. l' = [elements |-> ElementsOf(r)',
            next |-> IF next' # NULL THEN payload'[next']
                     ELSE IF r = << >> THEN NULL ELSE payload'[r[1]]]
  BY <1>4, ViewNext DEF View
<1>9. next \in live /\ next # NULL
  BY <1>2 DEF Settled
<1>10. PICK j \in 1 .. Len(s) : next = s[j]
  BY <1>2, <1>9
<1>11. l.elements = els /\ l.next = payload[s[j]]
  BY <1>7, <1>9, <1>10
<1> HIDE DEF l, r
<1>12. /\ Abstract!PositionOf(l, e) = k
       /\ Abstract!PositionOf(l, l.next) = j
       /\ Abstract!ContainsElement(l, e)
  <2>1. Abstract!PositionOf(l, payload[s[k]]) = k
    BY <1>1, <1>11, PositionIs DEF els
  <2>2. Abstract!PositionOf(l, payload[s[j]]) = j
    BY <1>1, <1>11, PositionIs DEF els
  <2>3. e \in {payload[m] : m \in live}
    BY <1>2
  <2>4. Abstract!ToSet(els) = {payload[m] : m \in live}
    BY <1>1, LinkedFacts DEF els
  <2> QED BY <1>11, <2>1, <2>2, <2>3, <2>4 DEF Abstract!ContainsElement
<1>13. Abstract!RemoveAt(els, k) = rest
  BY DEF Abstract!RemoveAt, RemoveAt
<1>14. ElementsOf(r)' = rest
  <2>1. ElementsOf(r)' = [i \in 1 .. Len(r) |-> payload'[r[i]]]
    BY DEF ElementsOf
  <2> HIDE DEF rest
  <2>2. ASSUME NEW i \in 1 .. Len(r) PROVE payload'[r[i]] = rest[i]
    <3>1. i \in 1 .. Len(s) /\ i + 1 \in 1 .. Len(s) /\ (i + 1) - 1 = i
      BY <1>2, <1>5
    <3>2. CASE i < k
      <4>1. r[i] = s[i] /\ rest[i] = els[i] /\ i # k
        BY <1>2, <1>5, <1>6, <3>1, <3>2
      <4> QED BY <1>2, <1>4, <3>1, <4>1
    <3>3. CASE ~(i < k)
      <4>1. i + 1 > k /\ i + 1 # k
        BY <3>1, <3>3
      <4>2. r[i] = s[i + 1] /\ rest[i] = els[i + 1]
        BY <1>5, <1>6, <3>1, <4>1
      <4> QED BY <1>2, <1>4, <3>1, <4>1, <4>2
    <3> QED BY <3>2, <3>3
  <2>3. rest = [i \in 1 .. Len(r) |-> rest[i]]
    BY <1>5, <1>6
  <2> QED BY <2>1, <2>2, <2>3
<1> HIDE DEF rest, e
<1>15. /\ \A i \in 1 .. Len(r) : r[i] \in Nodes /\ r[i] # NULL
       /\ (r = << >> <=> Len(s) = 1) /\ (rest = << >> <=> Len(s) = 1)
  BY <1>2, <1>5, <1>6, AbsentAssumption
<1>16. next' = IF next # s[k] THEN next
               ELSE IF s[k] # first /\ tail[s[k]] = NULL THEN first
               ELSE tail[s[k]]
  BY DEF Unlink
<1>17. l.next = e <=> j = k
  BY <1>3, <1>11 DEF e
<1>18. l'.next = IF rest = << >> THEN NULL
                 ELSE IF l.next = e THEN Abstract!After(l, e) ELSE l.next
  <2>1. CASE Len(s) = 1
    <3>1. j = 1 /\ k = 1 /\ tail[s[k]] = NULL
      BY <1>3, <2>1
    <3>2. next' = NULL
      BY <1>3, <1>10, <1>16, <3>1
    <3> QED BY <1>8, <1>15, <2>1, <3>2
  <2>2. CASE Len(s) # 1 /\ j # k
    <3>1. next' = next /\ payload'[next] = payload[next]
      BY <1>3, <1>4, <1>10, <1>16, <2>2
    <3> QED BY <1>8, <1>9, <1>10, <1>11, <1>15, <1>17, <2>2, <3>1
  <2>3. CASE Len(s) # 1 /\ j = k /\ k < Len(s)
    <3>1. Abstract!After(l, e) = els[k + 1]
      BY <1>2, <1>11, <1>12, <2>3 DEF Abstract!After
    <3>2. k + 1 \in 1 .. Len(s) /\ k + 1 # k
      BY <1>2, <2>3
    <3>3. tail[s[k]] = s[k + 1] /\ s[k + 1] # NULL
      BY <1>2, <1>3, <2>3, <3>2
    <3>4. next' = s[k + 1] /\ payload'[s[k + 1]] = els[k + 1]
      BY <1>2, <1>4, <1>10, <1>16, <2>3, <3>2, <3>3
    <3> QED BY <1>8, <1>15, <1>17, <2>3, <3>1, <3>3, <3>4
  <2>4. CASE Len(s) # 1 /\ j = k /\ k = Len(s)
    <3>1. Abstract!After(l, e) = els[1]
      BY <1>2, <1>11, <1>12, <2>4 DEF Abstract!After
    <3>2. 1 \in 1 .. Len(s) /\ k # 1
      BY <1>2, <2>4
    <3>3. tail[s[k]] = NULL /\ s[k] # first
      BY <1>2, <1>3, <2>4, <3>2
    <3>4. next' = s[1] /\ payload'[s[1]] = els[1] /\ s[1] # NULL
      BY <1>2, <1>3, <1>4, <1>10, <1>16, <2>4, <3>2, <3>3
    <3> QED BY <1>8, <1>15, <1>17, <2>4, <3>1, <3>4
  <2>5. \/ Len(s) = 1
        \/ Len(s) # 1 /\ j # k
        \/ Len(s) # 1 /\ j = k /\ k < Len(s)
        \/ Len(s) # 1 /\ j = k /\ k = Len(s)
    <3>1. Len(s) \in Nat
      BY <1>2
    <3> QED BY <3>1
  <2> QED BY <2>1, <2>2, <2>3, <2>4, <2>5
<1>19. l' = [elements |-> rest, next |-> l'.next]
  BY <1>8, <1>14
<1> QED BY <1>11, <1>12, <1>13, <1>18, <1>19 DEF Abstract!RemoveElement, e, l

LEMMA RemoveRefines == Inv /\ Inv' /\ RemoveElement => Abstract!RemoveOne
<1> SUFFICES ASSUME Inv, Inv', RemoveElement PROVE Abstract!RemoveOne
  OBVIOUS
<1>1. PICK n \in OnList : Unlink(n, Previous(n))
  BY DEF RemoveElement
<1>2. usage = "connections" /\ usage' = usage /\ returned' = returned
  BY DEF RemoveElement
<1>3. PICK s : Linked(s)
  BY <1>2 DEF Inv, ListInv, Row
<1>4. n \in live /\ NodesTyped
  BY <1>3, ReadersSee DEF Readers, Linked, Inv, ListInv
<1>5. PICK k \in 1 .. Len(s) : n = s[k]
  BY <1>3, <1>4, LinkedFacts
<1>6. Previous(n) = IF k = 1 THEN NULL ELSE s[k - 1]
  BY <1>3, <1>5, PreviousIs
<1>7. Settled
  BY Quiet DEF ListStep
<1>8. AbstractListOf' = Abstract!RemoveElement(AbstractListOf, payload[n])
  BY <1>1, <1>2, <1>3, <1>5, <1>6, <1>7, UnlinkRefines
<1>9. payload[n] \in Abstract!ToSet(AbstractListOf.elements)
  BY <1>2, <1>3, <1>4, ViewHolds, LinkedFacts DEF View
<1> QED BY <1>2, <1>8, <1>9 DEF Abstract!RemoveOne, AbstractListOf

LEMMA PopRefines == Inv /\ Inv' /\ Pop => Abstract!Pop
<1> SUFFICES ASSUME Inv, Inv', Pop PROVE Abstract!Pop
  OBVIOUS
<1>1. /\ usage = "stack" /\ usage' = usage /\ returned' = GetElementN(0)
      /\ first # NULL /\ Unlink(first, NULL)
  BY DEF Pop, IsEmpty
<1>2. PICK s : Linked(s)
  BY <1>1 DEF Inv, ListInv, Row
<1>3. NodesTyped /\ Settled
  BY Quiet DEF ListStep, Inv, ListInv
<1>4. s # << >> /\ first = s[1] /\ s \in Seq(Nodes) /\ first # NULL
  BY <1>1, <1>2 DEF Linked
<1> DEFINE k == 1
<1>5. k \in 1 .. Len(s) /\ NULL = (IF k = 1 THEN NULL ELSE s[k - 1]) /\ Unlink(s[k], NULL)
  BY <1>1, <1>4
<1>6. usage # "names"
  BY <1>1
<1> HIDE DEF k
<1>7. AbstractListOf' = Abstract!RemoveElement(AbstractListOf, payload[s[k]])
  BY <1>1, <1>2, <1>3, <1>5, <1>6, UnlinkRefines
<1>8. Abstract!ElementN(AbstractListOf, 0) = payload[s[1]]
  <2>1. /\ ElementsOf(s)[1] = payload[s[1]] /\ Len(ElementsOf(s)) = Len(s)
        /\ Len(s) \in Nat /\ 0 < Len(s)
    BY <1>2, <1>3, <1>4, LinkedFacts
  <2>2. AbstractListOf.elements = ElementsOf(s)
    BY <1>2, <1>6, ViewHolds DEF View
  <2> QED BY <2>1, <2>2 DEF Abstract!ElementN
<1>9. GetElementN(0) = payload[s[1]]
  <2>1. NodeN(0) = s[0 + 1] /\ 0 + 1 = 1
    BY <1>2, <1>4, ReadersSee DEF Readers
  <2> QED BY <1>4, <2>1 DEF GetElementN, Payload
<1> QED BY <1>1, <1>7, <1>8, <1>9 DEF Abstract!Pop, AbstractListOf, k

\* What getElementN returns
LEMMA ElementNIs ==
  ASSUME Inv, usage # "names", NEW k \in Nat
  PROVE  Abstract!ElementN(AbstractListOf, k) = GetElementN(k)
<1>1. PICK s : Linked(s)
  BY DEF Inv, ListInv, Row
<1>2. /\ Len(ElementsOf(s)) = Len(s) /\ Len(s) \in Nat
      /\ \A i \in 1 .. Len(s) : ElementsOf(s)[i] = payload[s[i]] /\ s[i] # NULL
  BY <1>1, LinkedFacts DEF Inv, ListInv
<1>3. AbstractListOf.elements = ElementsOf(s)
  BY <1>1, ViewHolds DEF View
<1>4. NodeN(k) = IF k < Len(s) THEN s[k + 1] ELSE NULL
  BY <1>1, ReadersSee DEF Readers
<1>5. k < Len(s) => k + 1 \in 1 .. Len(s)
  BY <1>2
<1> QED BY <1>2, <1>3, <1>4, <1>5 DEF Abstract!ElementN, GetElementN, Payload

LEMMA GetRefines == Inv /\ GetElement => Abstract!Get
<1> SUFFICES ASSUME Inv, GetElement PROVE Abstract!Get
  OBVIOUS
<1>1. /\ usage # "names" /\ usage' = usage /\ first' = first /\ next' = next
      /\ payload' = payload /\ tail' = tail
  BY DEF GetElement, pointers, nodes
<1>2. PICK s : Linked(s)
  BY <1>1 DEF Inv, ListInv, Row
<1>3. /\ GetListLength = Len(s) /\ Len(s) \in Nat /\ Len(ElementsOf(s)) = Len(s)
      /\ AbstractListOf.elements = ElementsOf(s)
  BY <1>1, <1>2, LengthIs, LinkedFacts, ViewHolds DEF Inv, ListInv, View
<1>4. PICK k \in 0 .. GetListLength : returned' = GetElementN(k)
  BY DEF GetElement
<1>5. k \in Nat /\ k \in 0 .. Abstract!Length(AbstractListOf)
  BY <1>3, <1>4 DEF Abstract!Length
<1>6. returned' = Abstract!ElementN(AbstractListOf, k)
  BY <1>1, <1>4, <1>5, ElementNIs
<1>7. AbstractListOf' = AbstractListOf
  BY <1>1 DEF AbstractListOf, ElementsOnList, GetElementN, GetListLength, OnList,
              NodeN, Payload
<1> QED BY <1>1, <1>5, <1>6, <1>7 DEF Abstract!Get, AbstractListOf

\* The iterator goes round as it does in ConnectionList.
LEMMA AfterIs ==
  ASSUME NodesTyped, NEW s, Linked(s), NEW n \in live,
         NEW l, l.elements = ElementsOf(s)
  PROVE  Abstract!After(l, payload[n]) = payload[Wrapped(n)]
<1>1. /\ Len(ElementsOf(s)) = Len(s) /\ Len(s) \in Nat
      /\ \A i \in 1 .. Len(s) : ElementsOf(s)[i] = payload[s[i]] /\ s[i] # NULL
  BY LinkedFacts
<1>2. PICK k \in 1 .. Len(s) : n = s[k]
  BY LinkedFacts
<1>3. Abstract!PositionOf(l, payload[n]) = k
  BY <1>2, PositionIs
<1>4. /\ tail[n] = IF k < Len(s) THEN s[k + 1] ELSE NULL
      /\ first = s[1] /\ 1 \in 1 .. Len(s)
      /\ k < Len(s) => k + 1 \in 1 .. Len(s)
  BY <1>1, <1>2 DEF Linked
<1> QED BY <1>1, <1>3, <1>4 DEF Abstract!After, Wrapped

\* Nothing but the iterator moves.
LEMMA MovedView ==
  ASSUME NEW s, Linked(s), usage # "names",
         UNCHANGED <<usage, first, last, nodes>>
  PROVE  AbstractListOf' =
           [elements |-> ElementsOf(s),
            next |-> IF next' # NULL THEN payload[next']
                     ELSE IF s = << >> THEN NULL ELSE payload[s[1]]]
<1>1. usage' = usage /\ first' = first /\ payload' = payload /\ tail' = tail /\ live' = live
  BY DEF nodes
<1>2. Linked(s)' /\ ElementsOf(s)' = ElementsOf(s)
  BY <1>1 DEF Linked, ElementsOf
<1> QED BY <1>1, <1>2, ViewNext DEF View

LEMMA GetNextRefines ==
  Inv /\ GetNextElement /\ usage # "names" => Abstract!GetNext
<1> SUFFICES ASSUME Inv, GetNextElement, usage # "names" PROVE Abstract!GetNext
  OBVIOUS
<1>1. /\ UNCHANGED <<usage, first, last, nodes>>
      /\ returned' = IF IsEmpty THEN NULL ELSE payload[next]
      /\ next' = IF IsEmpty THEN next ELSE Wrapped(next)
  BY DEF GetNextElement
<1>2. PICK s : Linked(s)
  BY DEF Inv, ListInv, Row
<1>3. NodesTyped /\ Settled
  BY Quiet DEF ListStep, Inv, ListInv
<1>4. /\ AbstractListOf = [elements |-> ElementsOf(s),
                           next |-> IF next # NULL THEN payload[next]
                                    ELSE IF s = << >> THEN NULL ELSE payload[s[1]]]
      /\ ElementsOf(s) = << >> <=> s = << >>
      /\ IsEmpty <=> s = << >>
  BY <1>2, <1>3, ViewHolds, LinkedFacts DEF View
<1>5. AbstractListOf' = [elements |-> ElementsOf(s),
                         next |-> IF next' # NULL THEN payload[next']
                                  ELSE IF s = << >> THEN NULL ELSE payload[s[1]]]
  BY <1>1, <1>2, MovedView
<1>6. CASE s = << >>
  <2>1. next = NULL /\ next' = next /\ returned' = NULL
    BY <1>1, <1>3, <1>4, <1>6 DEF Settled
  <2>2. AbstractListOf' = AbstractListOf /\ AbstractListOf.next = NULL
        /\ AbstractListOf.elements = << >>
    BY <1>4, <1>5, <1>6, <2>1
  <2> QED BY <2>1, <2>2 DEF Abstract!GetNext, Abstract!Rotate, Abstract!IsEmpty, AbstractListOf
<1>7. CASE s # << >>
  <2>1. next \in live /\ next # NULL /\ next' = Wrapped(next) /\ returned' = payload[next]
    BY <1>1, <1>3, <1>4, <1>7 DEF Settled
  <2>2. Wrapped(next) # NULL
    BY <1>2, <2>1, WrappedLive
  <2>3. Abstract!After(AbstractListOf, payload[next]) = payload[Wrapped(next)]
    BY <1>2, <1>3, <1>4, <2>1, AfterIs
  <2>4. AbstractListOf.next = payload[next] /\ AbstractListOf.elements # << >>
    BY <1>4, <1>7, <2>1
  <2>5. AbstractListOf' = [AbstractListOf EXCEPT !.next =
                             Abstract!After(AbstractListOf, AbstractListOf.next)]
    BY <1>4, <1>5, <2>1, <2>2, <2>3, <2>4
  <2> QED BY <2>1, <2>4, <2>5
          DEF Abstract!GetNext, Abstract!Rotate, Abstract!IsEmpty, AbstractListOf
<1> QED BY <1>6, <1>7

\* Threads move the iterator of a map to any element, or off the list, which
\* stands for the first.
LEMMA SearchRefines ==
  ASSUME Inv, Inv', usage = "map", ~IsEmpty, UNCHANGED <<usage, first, last, nodes, returned>>
  PROVE  Abstract!Search
<1>1. usage # "names" /\ usage' # "names" /\ usage' = "map"
  BY DEF nodes
<1>2. PICK s : Linked(s)
  BY <1>1 DEF Inv, ListInv, Row
<1>3. /\ Abstract!ToSet(ElementsOf(s)) = {payload[n] : n \in live}
      /\ s # << >> /\ s[1] \in live
  <2>1. s # << >> /\ s \in Seq(Nodes)
    BY <1>2 DEF Linked, IsEmpty
  <2>2. 1 \in 1 .. Len(s)
    BY <2>1
  <2> QED BY <1>2, <2>1, <2>2, LinkedFacts DEF Inv, ListInv
<1> DEFINE e == IF next' # NULL THEN payload[next'] ELSE payload[s[1]]
<1>4. AbstractListOf' = [elements |-> ElementsOf(s), next |-> e]
  BY <1>1, <1>2, <1>3, MovedView
<1>5. AbstractListOf.elements = ElementsOf(s)
  BY <1>1, <1>2, ViewHolds DEF View
<1>6. next' \in live \cup {NULL}
  BY <1>1 DEF Inv, Iterator, nodes
<1>7. e \in Abstract!ToSet(AbstractListOf.elements)
  BY <1>3, <1>5, <1>6
<1> HIDE DEF e
<1>8. AbstractListOf' = Abstract!MovedTo(e)
  BY <1>1, <1>4, <1>5 DEF Abstract!MovedTo, AbstractListOf
<1> QED BY <1>1, <1>7, <1>8 DEF Abstract!Search, AbstractListOf

LEMMA RewindRefines == Inv /\ Rewind /\ usage # "names" => Abstract!Rewind
<1> SUFFICES ASSUME Inv, Rewind, usage # "names" PROVE Abstract!Rewind
  OBVIOUS
<1>1. /\ UNCHANGED <<usage, first, last, nodes>> /\ returned' = returned
      /\ next' = (IF IsEmpty THEN next ELSE first) /\ usage' = usage
  BY DEF Rewind
<1>2. PICK s : Linked(s)
  BY DEF Inv, ListInv, Row
<1>3. NodesTyped /\ Settled
  BY Quiet DEF ListStep, Inv, ListInv
<1>4. /\ AbstractListOf.elements = ElementsOf(s)
      /\ IsEmpty <=> s = << >>
      /\ s # << >> => first = s[1]
      /\ first = NULL <=> IsEmpty
  BY <1>2, <1>3, ViewHolds, LinkedFacts DEF View, Linked, IsEmpty
<1>5. AbstractListOf' = [elements |-> ElementsOf(s),
                         next |-> IF next' # NULL THEN payload[next']
                                  ELSE IF s = << >> THEN NULL ELSE payload[s[1]]]
  BY <1>1, <1>2, MovedView
<1>6. Abstract!ElementN(AbstractListOf, 0) = IF s = << >> THEN NULL ELSE payload[s[1]]
  <2>1. /\ Len(ElementsOf(s)) = Len(s) /\ Len(s) \in Nat /\ s \in Seq(Nodes)
        /\ s # << >> => ElementsOf(s)[0 + 1] = payload[s[1]] /\ 0 < Len(s)
    BY <1>2, <1>3, LinkedFacts
  <2> QED BY <1>4, <2>1 DEF Abstract!ElementN
<1>7. AbstractListOf' = Abstract!MovedTo(Abstract!ElementN(AbstractListOf, 0))
  <2>1. IF s = << >> THEN next' = NULL ELSE next' = s[1] /\ next' # NULL
    BY <1>1, <1>3, <1>4 DEF Settled
  <2> QED BY <1>4, <1>5, <1>6, <2>1 DEF Abstract!MovedTo, AbstractListOf
<1> QED BY <1>1, <1>7 DEF Abstract!Rewind, AbstractListOf

LEMMA DecRefRefines ==
  Inv /\ Inv' /\ DecRef /\ usage # "names" => Abstract!Clear
<1> SUFFICES ASSUME Inv, Inv', DecRef, usage # "names" PROVE Abstract!Clear
  OBVIOUS
<1>1. usage' = usage /\ returned' = returned
  BY DEF DecRef
<1>2. first' = NULL
  BY DEF DecRef, RemoveAllElements, pointers, IsEmpty
<1>3. PICK s : Linked(s)'
  BY <1>1 DEF Inv, ListInv, Row
<1>4. s = << >> /\ next' = NULL
  BY <1>2, <1>3, AbsentAssumption DEF Linked, Inv, Iterator, IsEmpty
<1>5. AbstractListOf' = [elements |-> ElementsOf(s)', next |-> NULL]
  BY <1>1, <1>3, <1>4, ViewNext DEF View
<1>6. ElementsOf(s)' = << >>
  BY <1>4 DEF ElementsOf
<1> QED BY <1>1, <1>5, <1>6 DEF Abstract!Clear, Abstract!EmptyList, AbstractListOf

\* A step does what the abstract list may do, or leaves it alone.
LEMMA StepRefines == Inv /\ Inv' /\ [Next]_vars => AbstractStep
<1> SUFFICES ASSUME Inv, Inv', [Next]_vars PROVE AbstractStep
  OBVIOUS
<1>1. usage' = usage
  BY DEF Next, Step, vars, Over, InsertElement, InsertElementAtTail, RemoveElement,
         Pop, GetElement, GetNextElement, PutOrGet, Rewind, DecRef, Share, Begin,
         Crash, ReadPayload, ReadTail, MoveOn, Check, Wrap
<1>2. CASE usage = "names"
  BY <1>1, <1>2 DEF AbstractStep, AbstractListOf
<1>3. CASE usage # "names"
  <2> SUFFICES Abstract!Next \/ UNCHANGED <<AbstractListOf, returned>>
    BY <1>3 DEF AbstractStep
  <2>1. CASE InsertElement
    BY <2>1, InsertRefines DEF Abstract!Next
  <2>2. CASE InsertElementAtTail
    BY <1>3, <2>2 DEF InsertElementAtTail
  <2>3. CASE RemoveElement
    BY <2>3, RemoveRefines DEF Abstract!Next
  <2>4. CASE Pop
    BY <2>4, PopRefines DEF Abstract!Next
  <2>5. CASE GetElement
    BY <2>5, GetRefines DEF Abstract!Next
  <2>6. CASE GetNextElement
    BY <1>3, <2>6, GetNextRefines DEF Abstract!Next
  <2>7. CASE PutOrGet
    <3>1. PICK s : Linked(s)
      BY <1>3 DEF Inv, ListInv, Row
    <3>2. PICK n \in OnList : next' = Wrapped(n)
      BY <2>7 DEF PutOrGet
    <3>3. ~IsEmpty
      BY <3>1, <3>2, ReadersSee, WrappedLive DEF Readers, Linked
    <3>4. Abstract!Search
      BY <2>7, <3>3, SearchRefines DEF PutOrGet
    <3> QED BY <3>4 DEF Abstract!Next
  <2>8. CASE Rewind
    BY <1>3, <2>8, RewindRefines DEF Abstract!Next
  <2>9. CASE DecRef
    BY <1>3, <2>9, DecRefRefines DEF Abstract!Next
  <2>10. CASE Share \/ Over \/ UNCHANGED vars
    <3>1. /\ first' = first /\ next' = next /\ payload' = payload /\ tail' = tail
          /\ returned' = returned
      BY <2>10 DEF Share, Over, vars, pointers, nodes
    <3>2. AbstractListOf' = AbstractListOf
      BY <1>1, <3>1 DEF AbstractListOf, ElementsOnList, GetElementN, GetListLength,
                        OnList, NodeN, Payload
    <3> QED BY <3>1, <3>2
  <2>11. ASSUME NEW t \in Threads, Begin(t) \/ Step(t) PROVE Abstract!Search
    <3>1. usage = "map" /\ ~IsEmpty
      BY <2>11, Searched
         DEF Begin, Step, Crash, ReadPayload, ReadTail, MoveOn, Check, Wrap, Searching
    <3>2. UNCHANGED <<usage, first, last, nodes, returned>>
      BY <2>11
         DEF Begin, Step, Crash, ReadPayload, ReadTail, MoveOn, Check, Wrap, pointers
    <3> QED BY <3>1, <3>2, SearchRefines
  <2> QED BY <2>1, <2>2, <2>3, <2>4, <2>5, <2>6, <2>7, <2>8, <2>9, <2>10, <2>11
          DEF Next, Abstract!Next
<1> QED BY <1>2, <1>3

\* Every operation on the pointers, and every interleaving of searches, does to
\* the list what ConnectionList says, and returns what it says.
THEOREM ListImplemented == Spec => ImplementsList
<1>1. Init => Abstract!Init
  <2> SUFFICES ASSUME Init PROVE Abstract!Init
    OBVIOUS
  <2>1. Linked(<< >>)
    BY DEF Init, Linked, Range
  <2>2. usage # "names" =>
          AbstractListOf = [elements |-> ElementsOf(<< >>), next |-> NULL]
    BY <2>1, ViewHolds DEF View, Init
  <2>3. ElementsOf(<< >>) = << >> /\ returned = NULL
    BY DEF ElementsOf, Init
  <2> QED BY <2>2, <2>3 DEF AbstractListOf, Abstract!Init, Abstract!EmptyList
<1>2. Inv /\ Inv' /\ [Next]_vars =>
        [Abstract!Next]_<<IF usage = "names" THEN [elements |-> << >>, next |-> NULL]
                          ELSE [elements |-> ElementsOnList,
                                next |-> IF next = NULL THEN GetElementN(0)
                                         ELSE Payload(next)],
                          IF usage = "names" THEN NULL ELSE returned>>
  <2> SUFFICES ASSUME Inv, Inv', [Next]_vars
               PROVE  \/ Abstract!Next
                      \/ UNCHANGED <<AbstractListOf,
                                     IF usage = "names" THEN NULL ELSE returned>>
    BY DEF AbstractListOf
  <2>1. AbstractStep
    BY StepRefines
  <2>2. usage' = usage
    BY DEF Next, Step, vars, Over, InsertElement, InsertElementAtTail, RemoveElement,
           Pop, GetElement, GetNextElement, PutOrGet, Rewind, DecRef, Share, Begin,
           Crash, ReadPayload, ReadTail, MoveOn, Check, Wrap
  <2> QED BY <2>1, <2>2 DEF AbstractStep
<1> QED BY <1>1, <1>2, Invariant, PTL DEF Spec, ImplementsList, Abstract!Spec
=============================================================================
