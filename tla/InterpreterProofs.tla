--------------------------- MODULE InterpreterProofs ---------------------------
(***************************************************************************)
(* What holds of a component whatever bytes it executes.  First the        *)
(* scopes, for every stack of levels, of any height and with any names in  *)
(* it: only what a level has for a name matters.  Then the memory: objects *)
(* are only made where nothing in use is, and a variable keeps its value.  *)
(* Last the types, if those of what comes from outside are known.          *)
(***************************************************************************)
EXTENDS CompiledCode, DataLemmas

Holds(level, name) == ListMap_get(level, name) # NULL

(***************************************************************************)
(* Innermost is the level it is known to be.                               *)
(***************************************************************************)
LEMMA InnermostIs ==
  ASSUME NEW levels \in SUBSET Int, NEW k \in levels,
         \A j \in levels : k <= j
  PROVE  Innermost(levels) = k
<1> DEFINE m == Innermost(levels)
<1>1. m \in levels /\ \A j \in levels : m <= j
  BY DEF Innermost
<1> HIDE DEF m
<1>2. m \in Int /\ k \in Int /\ m <= k /\ k <= m
  BY <1>1
<1>3. m = k
  BY <1>2
<1> QED BY <1>3 DEF m

\* Of the levels of a stack some are the innermost, unless there are none.
LEMMA InnermostExists ==
  ASSUME NEW L, NEW s \in Seq(L), NEW levels \in SUBSET (1 .. Len(s)), levels # {}
  PROVE  \E k \in levels : \A j \in levels : k <= j
<1>1. levels \in SUBSET Nat
  OBVIOUS
<1> QED BY <1>1, NatMin

(***************************************************************************)
(* A level among others: of three parts of a stack, the middle one.        *)
(***************************************************************************)
LEMMA Parts ==
  ASSUME NEW L, NEW inner \in Seq(L), NEW frame \in L, NEW outer \in Seq(L)
  PROVE  LET s == inner \o <<frame>> \o outer
             n == Len(inner)
         IN /\ s \in Seq(L)
            /\ Len(s) = n + 1 + Len(outer)
            /\ \A k \in 1 .. n : s[k] = inner[k]
            /\ s[n + 1] = frame
            /\ \A k \in n + 2 .. Len(s) : s[k] = outer[k - (n + 1)]
<1> DEFINE n == Len(inner)
           t == inner \o <<frame>>
           s == t \o outer
<1>1. n \in Nat /\ <<frame>> \in Seq(L) /\ Len(<<frame>>) = 1
  OBVIOUS
<1>2. /\ t \in Seq(L) /\ Len(t) = n + 1
      /\ \A k \in 1 .. n : t[k] = inner[k]
      /\ t[n + 1] = frame
  BY <1>1
<1> HIDE DEF t, n
<1>3. /\ s \in Seq(L) /\ Len(s) = n + 1 + Len(outer)
      /\ \A k \in 1 .. n + 1 : s[k] = t[k]
      /\ \A k \in n + 2 .. Len(s) : s[k] = outer[k - (n + 1)]
  BY <1>1, <1>2
<1> QED BY <1>1, <1>2, <1>3 DEF t, n

(***************************************************************************)
(* A procedure that returns leaves its scope, the `frame' that holds its   *)
(* return address, and every scope it has entered: if it returns from the  *)
(* level of its body.  From within blocks the count of exitTo is one short *)
(* and the scope of the procedure stays, with the address in it.           *)
(***************************************************************************)
THEOREM ReturnLeaves ==
  ASSUME NEW L, NEW inner \in Seq(L), NEW frame \in L, NEW outer \in Seq(L),
         NEW name, Holds(frame, name),
         \A k \in DOMAIN inner : ~Holds(inner[k], name)
  PROVE  ScopeStack_exitScope(
           ScopeStack_exitTo(inner \o <<frame>> \o outer, name))
         = IF inner = << >> THEN outer ELSE <<frame>> \o outer
<1> DEFINE s == inner \o <<frame>> \o outer
           n == Len(inner)
<1>1. /\ n \in Nat /\ s \in Seq(L) /\ Len(s) = n + 1 + Len(outer)
      /\ \A k \in 1 .. n : s[k] = inner[k]
      /\ s[n + 1] = frame
      /\ \A k \in n + 2 .. Len(s) : s[k] = outer[k - (n + 1)]
  BY Parts
<1>2. /\ DOMAIN s = 1 .. Len(s) /\ DOMAIN inner = 1 .. n
      /\ n = 0 <=> inner = << >>
  BY <1>1
<1> HIDE DEF s, n
<1>3. /\ Holding(s, name) \in SUBSET Int
      /\ n + 1 \in Holding(s, name)
      /\ \A j \in Holding(s, name) : n + 1 <= j
  <2>1. Holding(s, name) = {k \in 1 .. Len(s) : Holds(s[k], name)}
    BY <1>2 DEF Holding, Holds
  <2>2. n + 1 \in 1 .. Len(s)
    BY <1>1
  <2>3. \A k \in 1 .. n : ~Holds(s[k], name)
    BY <1>1, <1>2
  <2>4. n + 1 \in Holding(s, name)
    BY <1>1, <2>1, <2>2
  <2>5. ASSUME NEW j \in Holding(s, name)
        PROVE  j \in Int /\ n + 1 <= j
    <3>1. j \in 1 .. Len(s) /\ j \notin 1 .. n
      BY <2>1, <2>3
    <3> QED BY <1>1, <3>1
  <2> QED BY <2>4, <2>5
<1>4. Innermost(Holding(s, name)) = n + 1
  BY <1>3, InnermostIs, <1>1
<1>5. ScopeStack_exitTo(s, name) = IF n - 1 > 0 THEN SubSeq(s, n, Len(s)) ELSE s
  BY <1>1, <1>3, <1>4 DEF ScopeStack_exitTo
<1>6. CASE n = 0
  <2>1. ScopeStack_exitTo(s, name) = s /\ s # << >> /\ inner = << >>
    BY <1>1, <1>2, <1>5, <1>6
  <2>2. Tail(s) \in Seq(L) /\ Len(Tail(s)) = Len(outer)
    BY <1>1, <1>6, <2>1
  <2>3. \A k \in 1 .. Len(outer) : Tail(s)[k] = outer[k]
    BY <1>1, <1>6, <2>1
  <2> QED BY <2>1, <2>2, <2>3 DEF ScopeStack_exitScope, s
<1>7. CASE n # 0
  <2> DEFINE whole == SubSeq(s, n, Len(s))
             after == Tail(whole)
             left == <<frame>> \o outer
  <2>1. /\ whole \in Seq(L) /\ Len(whole) = 2 + Len(outer)
        /\ \A k \in 1 .. 2 + Len(outer) : whole[k] = s[k + n - 1]
    BY <1>1, <1>7
  <2>2. ScopeStack_exitTo(s, name) = whole
    <3>1. CASE n = 1
      <4>1. /\ Len(whole) = Len(s)
            /\ \A k \in 1 .. Len(s) : whole[k] = s[k]
        BY <1>1, <2>1, <3>1
      <4>2. whole = s
        BY <1>1, <2>1, <4>1
      <4> QED BY <1>5, <3>1, <4>2
    <3>2. CASE n # 1
      <4>1. n - 1 > 0
        BY <1>1, <1>7, <3>2
      <4> QED BY <1>5, <4>1
    <3> QED BY <3>1, <3>2
  <2> HIDE DEF whole
  <2>3. whole # << >> /\ Len(outer) \in Nat
    BY <2>1
  <2>4. /\ after \in Seq(L) /\ Len(after) = 1 + Len(outer)
        /\ \A k \in 1 .. 1 + Len(outer) : after[k] = whole[k + 1]
    BY <2>1, <2>3
  <2>5. \A k \in 1 .. 1 + Len(outer) : whole[k + 1] = s[k + n]
    BY <1>1, <2>1
  <2>6. /\ left \in Seq(L) /\ Len(left) = 1 + Len(outer) /\ left[1] = frame
        /\ \A k \in 2 .. 1 + Len(outer) : left[k] = outer[k - 1]
    OBVIOUS
  <2> HIDE DEF after, left
  <2>7. ASSUME NEW k \in 1 .. 1 + Len(outer)
        PROVE  after[k] = left[k]
    <3>1. CASE k = 1
      <4>1. k + n = n + 1
        BY <1>1, <3>1
      <4>2. s[k + n] = frame
        BY <1>1, <4>1
      <4> QED BY <2>4, <2>5, <2>6, <3>1, <4>2
    <3>2. CASE k # 1
      <4>1. k + n \in n + 2 .. Len(s) /\ k \in 2 .. 1 + Len(outer)
        BY <1>1, <3>2
      <4>2. s[k + n] = outer[k + n - (n + 1)] /\ k + n - (n + 1) = k - 1
        BY <1>1, <4>1
      <4> QED BY <2>4, <2>5, <2>6, <4>1, <4>2
    <3> QED BY <3>1, <3>2
  <2>8. after = left
    <3>1. Len(after) = Len(left) /\ \A k \in 1 .. Len(after) : after[k] = left[k]
      BY <2>4, <2>6, <2>7
    <3> QED BY <2>4, <2>6, <3>1, SeqEqual
  <2>9. inner # << >>
    BY <1>2, <1>7
  <2> QED BY <2>2, <2>3, <2>8, <2>9 DEF ScopeStack_exitScope, s, after, left
<1> QED BY <1>6, <1>7

(***************************************************************************)
(* A scope that is entered and left again leaves everything as it was.     *)
(***************************************************************************)
THEOREM LeftAsEntered ==
  ASSUME NEW L, NEW s \in Seq(L), ListMap_constructor \in L
  PROVE  ScopeStack_exitScope(ScopeStack_enterScope(s)) = s
<1> DEFINE e == ListMap_constructor
           t == <<e>> \o s
<1> HIDE DEF e
<1>1. t \in Seq(L) /\ t # << >> /\ Tail(t) = s
  BY DEF e
<1> QED BY <1>1 DEF ScopeStack_exitScope, ScopeStack_enterScope, e

(***************************************************************************)
(* STORE, of a name that some level declares, changes the innermost one    *)
(* that does, and only what it has for that name: a LOAD then gives the    *)
(* value that was stored, and for any other name what it gave before.      *)
(***************************************************************************)
THEOREM LoadAfterStore ==
  ASSUME NEW L, NEW s \in Seq(L), NEW name, NEW value, value # NULL,
         Declaring(s, name) # {}
  PROVE  LET stored == ScopeStack_store(s, name, value)
         IN /\ ScopeStack_load(stored, name) = value
            /\ \A x : x # name =>
                 ScopeStack_load(stored, x) = ScopeStack_load(s, x)
<1>0. PICK k \in Declaring(s, name) : \A j \in Declaring(s, name) : k <= j
  <2>1. Declaring(s, name) \in SUBSET (1 .. Len(s))
    BY DEF Declaring
  <2> QED BY <2>1, InnermostExists
<1> DEFINE stored == ScopeStack_store(s, name, value)
           put == [s[k] EXCEPT ![name] = value]
<1>1. /\ k \in 1 .. Len(s) /\ DOMAIN s = 1 .. Len(s) /\ Len(s) \in Nat
      /\ name \in DOMAIN s[k] /\ s[k] \in L
  BY DEF Declaring
<1>2. Declaring(s, name) \in SUBSET Int
  BY <1>1 DEF Declaring
<1>3. Innermost(Declaring(s, name)) = k
  BY <1>0, <1>2, InnermostIs
<1>4. stored = [s EXCEPT ![k] = put]
  BY <1>3 DEF ScopeStack_store, ListMap_put
<1>5. /\ DOMAIN stored = 1 .. Len(s)
      /\ stored[k] = put
      /\ \A j \in 1 .. Len(s) : j # k => stored[j] = s[j]
  BY <1>1, <1>4
<1>6. /\ DOMAIN put = DOMAIN s[k] /\ put[name] = value
      /\ \A x \in DOMAIN s[k] : x # name => put[x] = s[k][x]
  BY <1>1
<1> HIDE DEF stored, put
<1>7. ScopeStack_load(stored, name) = value
  <2>1. ListMap_get(stored[k], name) = value
    BY <1>1, <1>5, <1>6 DEF ListMap_get
  <2>2. k \in Holding(stored, name) /\ Holding(stored, name) \in SUBSET Int
    BY <1>1, <1>5, <2>1 DEF Holding
  <2>3. \A j \in Holding(stored, name) : k <= j
    <3> SUFFICES ASSUME NEW j \in Holding(stored, name), j # k
                 PROVE  k <= j
      BY <1>1
    <3>1. j \in 1 .. Len(s) /\ ListMap_get(s[j], name) # NULL
      BY <1>5 DEF Holding
    <3>2. j \in Declaring(s, name)
      BY <1>1, <3>1 DEF Declaring, ListMap_get
    <3> QED BY <1>0, <3>2
  <2>4. Innermost(Holding(stored, name)) = k
    BY <2>2, <2>3, InnermostIs
  <2> QED BY <1>5, <1>6, <2>2, <2>4 DEF ScopeStack_load
<1>8. ASSUME NEW x, x # name
      PROVE  ScopeStack_load(stored, x) = ScopeStack_load(s, x)
  <2>1. \A j \in 1 .. Len(s) : ListMap_get(stored[j], x) = ListMap_get(s[j], x)
    BY <1>1, <1>5, <1>6, <1>8 DEF ListMap_get
  <2>2. Holding(stored, x) = Holding(s, x)
    BY <1>1, <1>5, <2>1 DEF Holding
  <2>3. CASE Holding(s, x) = {}
    BY <2>2, <2>3 DEF ScopeStack_load
  <2>4. CASE Holding(s, x) # {}
    <3>1. PICK i \in Holding(s, x) : \A j \in Holding(s, x) : i <= j
      <4>1. Holding(s, x) \in SUBSET (1 .. Len(s))
        BY <1>1 DEF Holding
      <4> QED BY <2>4, <4>1, InnermostExists
    <3>2. Holding(s, x) \in SUBSET Int
      BY <1>1 DEF Holding
    <3>3. Innermost(Holding(s, x)) = i
      BY <3>1, <3>2, InnermostIs
    <3>4. i \in 1 .. Len(s) /\ x \in DOMAIN s[i]
      BY <1>1 DEF Holding, ListMap_get
    <3>5. stored[i][x] = s[i][x]
      BY <1>1, <1>5, <1>6, <1>8, <3>4
    <3> QED BY <2>2, <2>4, <3>3, <3>5 DEF ScopeStack_load
  <2> QED BY <2>3, <2>4
<1> QED BY <1>7, <1>8 DEF stored

-----------------------------------------------------------------------------
(***************************************************************************)
(* Objects.  Of a set of numbers, each rank is that of one of them: what   *)
(* GC_alloc chooses exists.                                                *)
(***************************************************************************)
LEMMA Ranked ==
  ASSUME NEW S \in SUBSET Nat, IsFiniteSet(S), NEW n \in Nat, n < Cardinality(S)
  PROVE  \E o \in S : Cardinality({q \in S : q < o}) = n
<1> DEFINE Below(o) == {q \in S : q < o}
           T == {k \in Nat : k < Cardinality(S) =>
                                \E o \in S : Cardinality(Below(o)) = k}
<1>1. Cardinality(S) \in Nat
  BY FS_CardinalityType
<1>2. 0 \in T
  <2> SUFFICES ASSUME 0 < Cardinality(S)
               PROVE  \E o \in S : Cardinality(Below(o)) = 0
    OBVIOUS
  <2>1. S # {}
    BY FS_EmptySet
  <2>2. PICK o \in S : \A y \in S : o <= y
    BY <2>1, NatMin
  <2>3. Below(o) = {}
    <3>1. \A q \in S : ~(q < o)
      BY <2>2
    <3> QED BY <3>1
  <2> QED BY <2>3, FS_EmptySet
<1>3. ASSUME NEW k \in T \cap Nat PROVE k + 1 \in T
  <2> SUFFICES ASSUME k + 1 < Cardinality(S)
               PROVE  \E o \in S : Cardinality(Below(o)) = k + 1
    OBVIOUS
  <2>1. PICK o \in S : Cardinality(Below(o)) = k
    BY <1>1
  <2>2. IsFiniteSet(Below(o)) /\ o \notin Below(o)
    BY FS_Subset
  <2>3. Cardinality(Below(o) \cup {o}) = k + 1
    BY <2>1, <2>2, FS_AddElement
  <2> DEFINE Above == {q \in S : q > o}
  <2>4. Above # {}
    <3> SUFFICES ASSUME Above = {} PROVE FALSE
      OBVIOUS
    <3>1. \A q \in S : q < o \/ q = o
      <4>1. \A q \in S : ~(q > o)
        OBVIOUS
      <4> QED BY <4>1
    <3>2. S = Below(o) \cup {o}
      BY <3>1
    <3> QED BY <1>1, <2>3, <3>2
  <2>5. PICK p \in Above : \A y \in Above : p <= y
    <3>1. Above \in SUBSET Nat
      OBVIOUS
    <3> QED BY <2>4, <3>1, NatMin
  <2>6. Below(p) = Below(o) \cup {o}
    <3>1. p \in S /\ p > o /\ \A y \in S : y > o => p <= y
      BY <2>5
    <3>2. \A q \in S : q < p <=> q < o \/ q = o
      BY <3>1
    <3> QED BY <3>2
  <2>7. p \in S /\ Cardinality(Below(p)) = k + 1
    BY <2>3, <2>5, <2>6
  <2> QED BY <2>7
<1> HIDE DEF T
<1>4. n \in T
  BY <1>2, <1>3, SetInduction
<1> QED BY <1>4 DEF T

\* What the variables, the parameters and the stack refer to can be reached.
LEMMA RootsReached == Roots \subseteq Reachable
<1> DEFINE next(R) == UNION {{o} \cup (Range(heap[o].refs) \ {NULL}) : o \in R}
           IsReach(f, n) ==
             f = [i \in 0 .. n |-> IF i = 0 THEN Roots ELSE next(f[i - 1])]
           T == {n \in Nat : \E f : IsReach(f, n)}
<1>1. \A R : R \subseteq next(R)
  OBVIOUS
<1>2. 0 \in T
  <2> DEFINE f == [i \in 0 .. 0 |-> Roots]
  <2>1. IsReach(f, 0)
    OBVIOUS
  <2> QED BY <2>1
<1>3. ASSUME NEW n \in T \cap Nat PROVE n + 1 \in T
  <2>1. PICK f : IsReach(f, n)
    OBVIOUS
  <2> HIDE DEF next
  <2> DEFINE g == [i \in 0 .. n + 1 |-> IF i = n + 1 THEN next(f[n]) ELSE f[i]]
  <2>2. \A i \in 0 .. n : g[i] = f[i]
    OBVIOUS
  <2>3. \A i \in 0 .. n : g[i] = IF i = 0 THEN Roots ELSE next(g[i - 1])
    <3> SUFFICES ASSUME NEW i \in 0 .. n
                 PROVE  g[i] = IF i = 0 THEN Roots ELSE next(g[i - 1])
      OBVIOUS
    <3>1. f[i] = IF i = 0 THEN Roots ELSE next(f[i - 1])
      BY <2>1
    <3>2. i # 0 => i - 1 \in 0 .. n
      OBVIOUS
    <3> QED BY <2>2, <3>1, <3>2
  <2>4. g[n + 1] = next(g[n])
    BY <2>2
  <2>5. IsReach(g, n + 1)
    <3>1. \A i \in 0 .. n + 1 : g[i] = IF i = 0 THEN Roots ELSE next(g[i - 1])
      <4>1. \A i \in 0 .. n + 1 : i \in 0 .. n \/ (i = n + 1 /\ i # 0 /\ i - 1 = n)
        OBVIOUS
      <4> HIDE DEF g
      <4> QED BY <2>3, <2>4, <4>1
    <3>2. g = [i \in 0 .. n + 1 |-> g[i]]
      OBVIOUS
    <3> HIDE DEF g
    <3> QED BY <3>1, <3>2
  <2>6. n + 1 \in Nat
    OBVIOUS
  <2> HIDE DEF g, IsReach
  <2>7. \E h : IsReach(h, n + 1)
    BY <2>5
  <2> QED BY <2>6, <2>7
<1> HIDE DEF T
<1>4. MaxObjects \in T
  BY <1>2, <1>3, SetInduction, MaxObjectsAssumption
<1> DEFINE reach == CHOOSE g : IsReach(g, MaxObjects)
<1>5. IsReach(reach, MaxObjects)
  <2>1. \E g : IsReach(g, MaxObjects)
    BY <1>4 DEF T
  <2> HIDE DEF IsReach
  <2> QED BY <2>1
<1>6. Reachable = reach[MaxObjects]
  BY DEF Reachable
<1> HIDE DEF reach, next
<1> DEFINE U == {i \in Nat : i <= MaxObjects => Roots \subseteq reach[i]}
<1>7. 0 \in U
  BY <1>5, MaxObjectsAssumption
<1>8. ASSUME NEW i \in U \cap Nat PROVE i + 1 \in U
  <2> SUFFICES ASSUME i + 1 <= MaxObjects PROVE Roots \subseteq reach[i + 1]
    OBVIOUS
  <2>1. reach[i + 1] = next(reach[i])
    BY <1>5, MaxObjectsAssumption
  <2>2. Roots \subseteq reach[i]
    BY MaxObjectsAssumption
  <2> QED BY <1>1, <2>1, <2>2
<1> HIDE DEF U
<1>9. MaxObjects \in U
  BY <1>7, <1>8, SetInduction, MaxObjectsAssumption
<1> QED BY <1>6, <1>9, MaxObjectsAssumption DEF U

-----------------------------------------------------------------------------
(***************************************************************************)
(* The inductive invariant: whatever refers to an object refers to one of  *)
(* Objects.  So what a variable has is a root of Reachable, or NULL, and   *)
(* none of the objects that GC_alloc gives.  A call leaves the address and *)
(* the file to return to under names that no byte of a file can be.        *)
(***************************************************************************)
Values == Objects \cup {NULL}

HeapOK(h) ==
  /\ h = [o \in Objects |-> h[o]]
  /\ \A o \in Objects : IsObject(h[o], Values)

\* A level has objects for the names of variables, and what a call has left.
LevelOK(l) ==
  /\ \A x \in DOMAIN l \ {RETURN_ADDRESS, RETURN_SOURCE} : l[x] \in Values
  /\ RETURN_SOURCE \in DOMAIN l => l[RETURN_SOURCE] \in {NULL, "own"}

ScopesOK(s) ==
  /\ \E L : s \in Seq(L)
  /\ \A k \in DOMAIN s : LevelOK(s[k])

MemoryInv ==
  /\ program \in Programs /\ file \in {"own", "main"}
  /\ stack \in Seq(Objects) /\ parameters \in Seq(Objects)
  /\ HeapOK(heap)
  /\ ScopesOK(scopes)
  /\ \A x \in DOMAIN procs : procs[x].parameters \in Seq(Nat \cup {EOF})

\* The levels that two stacks have in common, from the outermost one
Outer(s, t) == \A d \in DOMAIN s \cap DOMAIN t : Level(t, d) = Level(s, d)

LEMMA FreeIsFinite == Free \in SUBSET Objects /\ IsFiniteSet(Free)
<1>1. IsFiniteSet(Objects) /\ Free \subseteq Objects
  BY MaxObjectsAssumption, FS_Interval DEF Objects, Free
<1> QED BY <1>1, FS_Subset

\* Allocation takes as many objects as are asked for, none of them in use.
LEMMA AllocTakesFree ==
  ASSUME NEW n \in Nat, n <= Cardinality(Free)
  PROVE  /\ GC_alloc(n) \in Seq(Free) /\ Len(GC_alloc(n)) = n
         /\ DOMAIN GC_alloc(n) = 1 .. n
<1>1. Free \in SUBSET Nat /\ IsFiniteSet(Free)
  <2>1. Objects \in SUBSET Nat
    BY MaxObjectsAssumption DEF Objects
  <2> QED BY <2>1, FreeIsFinite
<1>2. Cardinality(Free) \in Nat
  BY <1>1, FS_CardinalityType
<1>3. \A i \in 1 .. n : \E o \in Free : Cardinality({q \in Free : q < o}) = i - 1
  <2> SUFFICES ASSUME NEW i \in 1 .. n
               PROVE  \E o \in Free : Cardinality({q \in Free : q < o}) = i - 1
    OBVIOUS
  <2>1. i - 1 \in Nat /\ i - 1 < Cardinality(Free)
    BY <1>2
  <2> QED BY <1>1, <2>1, Ranked
<1> DEFINE a == [i \in 1 .. n |-> CHOOSE o \in Free :
                                     Cardinality({q \in Free : q < o}) = i - 1]
<1>4. GC_alloc(n) = a
  BY DEF GC_alloc
<1>5. a \in [1 .. n -> Free]
  BY <1>3
<1> HIDE DEF a
<1> QED BY <1>4, <1>5

LEMMA AllocatedSound ==
  ASSUME HeapOK(heap), NEW contents,
         Len(contents) \in Nat, DOMAIN contents = 1 .. Len(contents),
         Len(contents) <= Cardinality(Free),
         \A i \in 1 .. Len(contents) :
           IsObject(contents[i], Values \cup -Len(contents) .. -1)
  PROVE  /\ HeapOK(Allocated(contents))
         /\ \A o \in Objects \ Free : Allocated(contents)[o] = heap[o]
<1> DEFINE n == Len(contents)
           new == GC_alloc(n)
           Target(r) == IF r \in Int /\ r < 0 THEN new[-r] ELSE r
           refs(c) == [x \in DOMAIN c.refs |-> Target(c.refs[x])]
           at(o) == CHOOSE j \in DOMAIN new : new[j] = o
           made(o) == [contents[at(o)] EXCEPT !.refs = refs(contents[at(o)])]
<1>1. new \in Seq(Free) /\ DOMAIN new = 1 .. n /\ Free \subseteq Objects
  BY AllocTakesFree DEF Free
<1>2. Allocated(contents) =
        [o \in Objects |-> IF o \in Range(new) THEN made(o) ELSE heap[o]]
  BY DEF Allocated
<1>3. Range(new) \subseteq Free
  BY <1>1 DEF Range
<1>4. ASSUME NEW o \in Range(new) PROVE IsObject(made(o), Values)
  <2>1. \E j \in DOMAIN new : new[j] = o
    BY DEF Range
  <2> HIDE DEF new
  <2>2. at(o) \in 1 .. n
    BY <1>1, <2>1
  <2> DEFINE c == contents[at(o)]
  <2>3. IsObject(c, Values \cup -n .. -1)
    BY <2>2
  <2> HIDE DEF at
  <2>4. \A x \in DOMAIN c.refs : Target(c.refs[x]) \in Values
    <3> SUFFICES ASSUME NEW x \in DOMAIN c.refs PROVE Target(c.refs[x]) \in Values
      OBVIOUS
    <3>1. c.refs[x] \in Values \/ c.refs[x] \in -n .. -1
      BY <2>3 DEF IsObject
    <3>2. CASE c.refs[x] \in Values
      <4>1. ~(c.refs[x] \in Int /\ c.refs[x] < 0)
        BY <3>2, ProgramsAssumption, MaxObjectsAssumption DEF Values, Objects
      <4> QED BY <3>2, <4>1
    <3>3. CASE c.refs[x] \in -n .. -1
      <4>1. c.refs[x] \in Int /\ c.refs[x] < 0 /\ -c.refs[x] \in 1 .. n
        BY <3>3
      <4>2. new[-c.refs[x]] \in Objects
        BY <1>1, <4>1
      <4> QED BY <4>1, <4>2 DEF Values
    <3> QED BY <3>1, <3>2, <3>3
  <2>5. c = [type |-> c.type, value |-> c.value, refs |-> c.refs]
    BY <2>3 DEF IsObject
  <2> HIDE DEF Target, c
  <2>6. made(o) = [type |-> c.type, value |-> c.value, refs |-> refs(c)]
    BY <2>5 DEF c
  <2> QED BY <2>4, <2>6 DEF IsObject
<1> HIDE DEF new, made
<1> QED BY <1>1, <1>2, <1>3, <1>4 DEF HeapOK

-----------------------------------------------------------------------------
\* Of the places of a name in a list, one is the last.
LEMMA LastPlace ==
  ASSUME NEW N, NEW names \in Seq(N), NEW x \in Range(names)
  PROVE  \E i \in DOMAIN names :
           names[i] = x /\ \A j \in DOMAIN names : names[j] = x => j <= i
<1> DEFINE n == Len(names)
           T == {k \in Nat : k <= n /\ n - k \in 1 .. n /\ names[n - k] = x}
<1>1. DOMAIN names = 1 .. n /\ n \in Nat
  OBVIOUS
<1> HIDE DEF n
<1>2. PICK i \in 1 .. n : names[i] = x
  BY <1>1 DEF Range
<1>3. n - i \in T
  <2>1. n - i \in Nat /\ n - i <= n /\ n - (n - i) = i
    BY <1>1, <1>2
  <2> QED BY <1>2, <2>1
<1>4. PICK k \in T : \A y \in T : k <= y
  <2>1. T \in SUBSET Nat /\ T # {}
    BY <1>3
  <2> HIDE DEF T
  <2> QED BY <2>1, NatMin
<1>5. n - k \in 1 .. n /\ names[n - k] = x
  BY <1>4
<1>6. ASSUME NEW j \in 1 .. n, names[j] = x PROVE j <= n - k
  <2>1. n - j \in T
    <3>1. n - j \in Nat /\ n - j <= n /\ n - (n - j) = j
      BY <1>1
    <3> QED BY <1>6, <3>1
  <2>2. k <= n - j
    BY <1>4, <2>1
  <2>3. k \in Nat
    OBVIOUS
  <2> HIDE DEF T
  <2> QED BY <1>1, <2>2, <2>3
<1> HIDE DEF T
<1> QED BY <1>1, <1>5, <1>6

\* Binding names changes the innermost level, and there those names.
LEMMA BindSound ==
  ASSUME NEW s, \E L : s \in Seq(L), s # << >>,
         NEW N, NEW names \in Seq(N), NEW values
  PROVE  LET t == Bind(s, names, values)
         IN /\ \E L : t \in Seq(L)
            /\ Len(t) = Len(s) /\ DOMAIN t = DOMAIN s
            /\ \A k \in DOMAIN s : k # 1 => t[k] = s[k]
            /\ DOMAIN t[1] = DOMAIN s[1] \cup Range(names)
            /\ \A x \in Range(names) :
                 \E i \in DOMAIN names : names[i] = x /\ t[1][x] = values[i]
            /\ \A x \in DOMAIN s[1] \ Range(names) : t[1][x] = s[1][x]
<1> DEFINE Final(x) == CHOOSE i \in DOMAIN names :
                        /\ names[i] = x
                        /\ \A j \in DOMAIN names : names[j] = x => j <= i
           bound == {names[i] : i \in DOMAIN names}
           level == [x \in DOMAIN s[1] \cup bound |->
                       IF x \in bound THEN values[Final(x)]
                                      ELSE ListMap_get(s[1], x)]
           t == Bind(s, names, values)
<1>1. bound = Range(names)
  BY DEF Range
<1>2. t = [s EXCEPT ![1] = level]
  BY DEF Bind
<1>3. \A x \in bound : Final(x) \in DOMAIN names /\ names[Final(x)] = x
  BY <1>1, LastPlace
<1> HIDE DEF Final, t
<1>4. PICK L : s \in Seq(L)
  OBVIOUS
<1>5. /\ DOMAIN level = DOMAIN s[1] \cup bound
      /\ \A x \in bound : level[x] = values[Final(x)]
      /\ \A x \in DOMAIN s[1] \ bound : level[x] = s[1][x]
  BY DEF ListMap_get
<1> HIDE DEF level
<1>6. t \in Seq(L \cup {level}) /\ Len(t) = Len(s) /\ t[1] = level
      /\ \A k \in DOMAIN s : k # 1 => t[k] = s[k]
  BY <1>2, <1>4
<1>7. DOMAIN t = DOMAIN s /\ \E M : t \in Seq(M)
  BY <1>4, <1>6
<1>8. /\ DOMAIN t[1] = DOMAIN s[1] \cup Range(names)
      /\ \A x \in DOMAIN s[1] \ Range(names) : t[1][x] = s[1][x]
  BY <1>1, <1>5, <1>6
<1>9. ASSUME NEW x \in Range(names)
      PROVE  \E i \in DOMAIN names : names[i] = x /\ t[1][x] = values[i]
  <2>1. t[1][x] = values[Final(x)] /\ Final(x) \in DOMAIN names /\ names[Final(x)] = x
    BY <1>1, <1>3, <1>5, <1>6
  <2> QED BY <2>1
<1>10. /\ \E M : t \in Seq(M)
       /\ Len(t) = Len(s) /\ DOMAIN t = DOMAIN s
       /\ \A k \in DOMAIN s : k # 1 => t[k] = s[k]
       /\ DOMAIN t[1] = DOMAIN s[1] \cup Range(names)
       /\ \A x \in Range(names) :
            \E i \in DOMAIN names : names[i] = x /\ t[1][x] = values[i]
       /\ \A x \in DOMAIN s[1] \ Range(names) : t[1][x] = s[1][x]
  BY <1>6, <1>7, <1>8, <1>9
<1> QED BY <1>10 DEF t

\* What a scope above the others, and leaving some, does to the levels.
LEMMA EnterSound ==
  ASSUME NEW s, ScopesOK(s)
  PROVE  LET t == ScopeStack_enterScope(s)
         IN ScopesOK(t) /\ Outer(s, t) /\ t # << >> /\ t[1] = << >>
            /\ Len(t) = Len(s) + 1 /\ Len(s) \in Nat
            /\ \A k \in 1 .. Len(s) : t[k + 1] = s[k]
<1> DEFINE e == ListMap_constructor
           t == <<e>> \o s
<1>0. e = << >> /\ DOMAIN e = {}
  BY DEF ListMap_constructor
<1>1. PICK L : s \in Seq(L)
  BY DEF ScopesOK
<1> HIDE DEF e
<1>2. /\ t \in Seq(L \cup {e}) /\ Len(t) = Len(s) + 1 /\ t[1] = e /\ Len(s) \in Nat
      /\ \A k \in 1 .. Len(s) : t[k + 1] = s[k]
      /\ DOMAIN s = 1 .. Len(s) /\ DOMAIN t = 1 .. Len(s) + 1
  BY <1>1
<1> HIDE DEF t
<1>3. LevelOK(e)
  BY <1>0 DEF LevelOK
<1>4. \A k \in DOMAIN t : LevelOK(t[k])
  <2> SUFFICES ASSUME NEW k \in DOMAIN t, k # 1 PROVE LevelOK(t[k])
    BY <1>2, <1>3
  <2>1. k - 1 \in 1 .. Len(s) /\ (k - 1) + 1 = k
    BY <1>2
  <2> QED BY <1>2, <2>1 DEF ScopesOK
<1>5. Outer(s, t)
  <2> SUFFICES ASSUME NEW d \in DOMAIN s PROVE Level(t, d) = Level(s, d)
    BY DEF Outer
  <2>1. /\ Len(s) + 1 - d \in 1 .. Len(s)
        /\ Len(t) + 1 - d = (Len(s) + 1 - d) + 1
    BY <1>2
  <2> QED BY <1>2, <2>1 DEF Level
<1>6. ScopeStack_enterScope(s) = t
  BY DEF ScopeStack_enterScope, t, e
<1> QED BY <1>0, <1>2, <1>4, <1>5, <1>6 DEF ScopesOK

LEMMA SuffixSound ==
  ASSUME NEW s, ScopesOK(s), NEW n \in Nat, n <= Len(s)
  PROVE  LET t == SubSeq(s, n + 1, Len(s))
         IN ScopesOK(t) /\ Outer(s, t) /\ Len(t) <= Len(s)
<1> DEFINE t == SubSeq(s, n + 1, Len(s))
<1>1. PICK L : s \in Seq(L)
  BY DEF ScopesOK
<1>2. /\ t \in Seq(L) /\ Len(t) = Len(s) - n /\ Len(s) \in Nat
      /\ \A k \in 1 .. Len(s) - n : t[k] = s[n + k]
      /\ DOMAIN s = 1 .. Len(s) /\ DOMAIN t = 1 .. Len(s) - n
  BY <1>1, SubSeqProperties
<1> HIDE DEF t
<1>3. \A k \in DOMAIN t : LevelOK(t[k])
  <2> SUFFICES ASSUME NEW k \in 1 .. Len(s) - n PROVE LevelOK(t[k])
    BY <1>2
  <2>1. n + k \in 1 .. Len(s)
    BY <1>2
  <2> QED BY <1>2, <2>1 DEF ScopesOK
<1>4. Outer(s, t)
  <2> SUFFICES ASSUME NEW d \in 1 .. Len(s) - n PROVE Level(t, d) = Level(s, d)
    BY <1>2 DEF Outer
  <2>1. /\ Len(t) + 1 - d \in 1 .. Len(s) - n
        /\ n + (Len(t) + 1 - d) = Len(s) + 1 - d
    BY <1>2
  <2> QED BY <1>2, <2>1 DEF Level
<1>5. ScopesOK(t) /\ Len(t) <= Len(s)
  BY <1>2, <1>3 DEF ScopesOK
<1> QED BY <1>4, <1>5 DEF t

LEMMA ExitSound ==
  ASSUME NEW s, ScopesOK(s)
  PROVE  LET t == ScopeStack_exitScope(s)
         IN ScopesOK(t) /\ Outer(s, t) /\ Len(t) <= Len(s)
<1>1. PICK L : s \in Seq(L)
  BY DEF ScopesOK
<1>2. CASE s = << >>
  BY <1>2 DEF ScopeStack_exitScope, Outer
<1>3. CASE s # << >>
  <2>1. Len(s) \in Nat /\ 1 <= Len(s) /\ Tail(s) = SubSeq(s, 1 + 1, Len(s))
    BY <1>1, <1>3
  <2> QED BY <1>3, <2>1, SuffixSound DEF ScopeStack_exitScope
<1> QED BY <1>2, <1>3

LEMMA ExitToSound ==
  ASSUME NEW s, ScopesOK(s), NEW name
  PROVE  LET t == ScopeStack_exitTo(s, name) IN ScopesOK(t) /\ Outer(s, t)
<1> DEFINE held == Holding(s, name)
           n == IF held = {} THEN Len(s) - 1 ELSE Innermost(held) - 2
<1>1. PICK L : s \in Seq(L)
  BY DEF ScopesOK
<1>2. Len(s) \in Nat /\ held \in SUBSET (1 .. Len(s))
  BY <1>1 DEF Holding
<1> HIDE DEF held
<1>3. n \in Int /\ n <= Len(s)
  <2>1. CASE held = {}
    BY <1>2, <2>1
  <2>2. CASE held # {}
    <3>1. PICK k \in held : \A j \in held : k <= j
      BY <1>1, <1>2, <2>2, InnermostExists
    <3>2. held \in SUBSET Int
      BY <1>2
    <3>3. Innermost(held) = k
      BY <3>1, <3>2, InnermostIs
    <3> QED BY <1>2, <2>2, <3>1, <3>3
  <2> QED BY <2>1, <2>2
<1>4. ScopeStack_exitTo(s, name) = IF n > 0 THEN SubSeq(s, n + 1, Len(s)) ELSE s
  BY DEF ScopeStack_exitTo, held
<1> HIDE DEF n
<1>5. Outer(s, s)
  BY DEF Outer
<1> QED BY <1>3, <1>4, <1>5, SuffixSound

LEMMA OuterTransitive ==
  ASSUME NEW s, ScopesOK(s), NEW t, ScopesOK(t), NEW u, ScopesOK(u),
         Outer(s, t), Outer(t, u), Len(u) <= Len(t)
  PROVE  Outer(s, u)
<1>1. \A d \in DOMAIN u : d \in DOMAIN t
  BY DEF ScopesOK
<1> QED BY <1>1 DEF Outer

LEMMA OuterReflexive == \A s : Outer(s, s)
BY DEF Outer

-----------------------------------------------------------------------------
\* What is read from a file: bytes, numbers of bytes, names.
LEMMA Reading ==
  ASSUME MemoryInv
  PROVE  /\ \A p : ByteAt(Bytes, p) \in Nat \cup {EOF} /\ CountAt(Bytes, p) \in Nat
         /\ \A p : ByteAt(Bytes, p) \notin {RETURN_ADDRESS, RETURN_SOURCE}
         /\ Name \in Nat \cup {EOF} /\ Name \notin {RETURN_ADDRESS, RETURN_SOURCE}
         /\ Field \in Nat \cup {EOF}
         /\ \A p, i : ParameterName(Bytes, p, i) \in Nat \cup {EOF}
<1>1. Bytes \in Seq(Nat)
  BY ProgramsAssumption DEF MemoryInv, Bytes
<1>2. \A p : ByteAt(Bytes, p) \in Nat \cup {EOF}
  BY <1>1 DEF ByteAt
<1>3. \A n \in Nat \cup {EOF} : n \notin {RETURN_ADDRESS, RETURN_SOURCE}
  BY DEF EOF, RETURN_ADDRESS, RETURN_SOURCE
<1>4. \A p : CountAt(Bytes, p) \in Nat
  BY <1>2 DEF CountAt
<1> QED BY <1>2, <1>3, <1>4 DEF Name, Field, ParameterName

\* What a name stands for
LEMMA LoadSound ==
  ASSUME MemoryInv, NEW x
  PROVE  LET value == ScopeStack_load(scopes, x)
         IN /\ x \notin {RETURN_ADDRESS, RETURN_SOURCE} => value \in Values
            /\ x = RETURN_SOURCE => value \in {NULL, "own"}
<1>1. CASE Holding(scopes, x) = {}
  BY <1>1 DEF ScopeStack_load, Values
<1>2. CASE Holding(scopes, x) # {}
  <2>1. PICK L : scopes \in Seq(L)
    BY DEF MemoryInv, ScopesOK
  <2>2. /\ DOMAIN scopes = 1 .. Len(scopes)
        /\ Holding(scopes, x) \in SUBSET (1 .. Len(scopes))
    BY <2>1 DEF Holding
  <2>3. PICK k \in Holding(scopes, x) : \A j \in Holding(scopes, x) : k <= j
    BY <1>2, <2>1, <2>2, InnermostExists
  <2>4. Innermost(Holding(scopes, x)) = k
    BY <2>2, <2>3, InnermostIs
  <2>5. k \in DOMAIN scopes /\ x \in DOMAIN scopes[k]
    BY <2>3 DEF Holding, ListMap_get
  <2>6. LevelOK(scopes[k])
    BY <2>5 DEF MemoryInv, ScopesOK
  <2> QED BY <1>2, <2>4, <2>5, <2>6 DEF ScopeStack_load, LevelOK
<1> QED BY <1>1, <1>2

\* What is on the stack, and what is left of it
LEMMA StackSound ==
  ASSUME MemoryInv
  PROVE  /\ \A k : Stack_pop(k) \in Values
         /\ \A n \in Nat : After(n) \in Seq(Objects)
         /\ stack # << >> => stack[1] \in Objects /\ Stack_pop(1) = stack[1]
<1>1. stack \in Seq(Objects)
  BY DEF MemoryInv
<1>2. \A k : Stack_pop(k) \in Values
  BY <1>1 DEF Stack_pop, Values
<1>3. ASSUME NEW n \in Nat PROVE After(n) \in Seq(Objects)
  BY <1>1 DEF After
<1> QED BY <1>1, <1>2, <1>3 DEF Stack_pop

\* The variables of a scope are in use.
LEMMA VariablesInUse ==
  ASSUME MemoryInv, NEW k \in DOMAIN scopes,
         NEW x \in DOMAIN scopes[k] \ {RETURN_ADDRESS, RETURN_SOURCE}
  PROVE  scopes[k][x] = NULL \/ scopes[k][x] \in Objects \ Free
<1>1. scopes[k][x] \in Values
  BY DEF MemoryInv, ScopesOK, LevelOK
<1>2. scopes[k][x] # NULL => scopes[k][x] \in Roots
  BY DEF Roots, Variables
<1> QED BY <1>1, <1>2, RootsReached DEF Free, Values

Sound == MemoryInv' /\ KeepsVariables

\* A step that changes no object and only the scopes that it enters or leaves
LEMMA ScopesChange ==
  ASSUME MemoryInv, UNCHANGED <<program, heap, procs>>, file' \in {"own", "main"},
         stack' \in Seq(Objects), parameters' \in Seq(Objects),
         ScopesOK(scopes'), Outer(scopes, scopes')
  PROVE  Sound
<1>1. MemoryInv'
  BY DEF MemoryInv
<1>2. KeepsVariables
  BY DEF KeepsVariables, Outer
<1> QED BY <1>1, <1>2 DEF Sound

\* A step that changes the stack at most
LEMMA StackChanges ==
  ASSUME MemoryInv, UNCHANGED <<program, file, parameters, heap, procs, scopes>>,
         stack' \in Seq(Objects)
  PROVE  Sound
<1>1. ScopesOK(scopes') /\ Outer(scopes, scopes') /\ file' \in {"own", "main"}
      /\ parameters' \in Seq(Objects)
  BY OuterReflexive DEF MemoryInv
<1> QED BY <1>1, ScopesChange

\* A step that makes objects
LEMMA ObjectsMade ==
  ASSUME MemoryInv, NEW n \in Nat, NEW contents, Replace(n, contents),
         Len(contents) \in Nat \ {0}, DOMAIN contents = 1 .. Len(contents),
         \A i \in 1 .. Len(contents) :
           IsObject(contents[i], Values \cup -Len(contents) .. -1)
  PROVE  Sound
<1>1. /\ Len(contents) <= Cardinality(Free)
      /\ heap' = Allocated(contents) /\ stack' = GC_alloc(1) \o After(n)
      /\ UNCHANGED <<program, file, parameters, procs, scopes>>
  BY DEF Replace, Continue, Goto, self
<1>2. HeapOK(heap') /\ \A o \in Objects \ Free : heap'[o] = heap[o]
  BY <1>1, AllocatedSound DEF MemoryInv
<1>3. stack' \in Seq(Objects)
  <2>1. Free \in SUBSET Objects /\ IsFiniteSet(Free)
    BY FreeIsFinite
  <2>2. 1 <= Cardinality(Free)
    BY <1>1, <2>1, FS_CardinalityType
  <2>3. GC_alloc(1) \in Seq(Free)
    BY <2>2, AllocTakesFree
  <2>4. GC_alloc(1) \in Seq(Objects)
    BY <2>1, <2>3
  <2> HIDE DEF GC_alloc
  <2>5. After(n) \in Seq(Objects)
    BY StackSound
  <2> QED BY <1>1, <2>4, <2>5
<1>4. MemoryInv'
  BY <1>1, <1>2, <1>3 DEF MemoryInv
<1>5. KeepsVariables
  <2> SUFFICES ASSUME NEW d \in DOMAIN scopes,
                      NEW x \in DOMAIN Level(scopes, d)
                                  \ {RETURN_ADDRESS, RETURN_SOURCE}
               PROVE  Contents(heap', Level(scopes, d)[x])
                        = Contents(heap, Level(scopes, d)[x])
    BY <1>1 DEF KeepsVariables
  <2>1. PICK L : scopes \in Seq(L)
    BY DEF MemoryInv, ScopesOK
  <2>2. Len(scopes) + 1 - d \in DOMAIN scopes
    BY <2>1
  <2>3. Level(scopes, d)[x] = NULL \/ Level(scopes, d)[x] \in Objects \ Free
    BY <2>2, VariablesInUse DEF Level
  <2> QED BY <1>2, <2>3 DEF Contents
<1> QED BY <1>4, <1>5 DEF Sound

-----------------------------------------------------------------------------
(***************************************************************************)
(* The instructions                                                        *)
(***************************************************************************)
\* That a step was not refused, and did not crash
LEMMA Runs ==
  ASSUME Executable
  PROVE  ~Crashes /\ ~Refuses
BY DEF Executable, Outcome

LEMMA ScopeSteps ==
  ASSUME MemoryInv, EnterScope \/ ExitScope
  PROVE  Sound
<1>1. /\ UNCHANGED <<program, file, parameters, procs, heap, stack>>
      /\ file' \in {"own", "main"} /\ stack' \in Seq(Objects)
      /\ parameters' \in Seq(Objects)
  BY DEF EnterScope, ExitScope, Rescope, Continue, Goto, self, MemoryInv
<1>2. ScopesOK(scopes') /\ Outer(scopes, scopes')
  BY EnterSound, ExitSound DEF EnterScope, ExitScope, Rescope, MemoryInv
<1> QED BY <1>1, <1>2, ScopesChange

LEMMA DeclareStep ==
  ASSUME MemoryInv, Executable, Declare
  PROVE  Sound
<1> DEFINE level == ListMap_declare(scopes[1], Name)
<1>1. PICK L : scopes \in Seq(L)
  BY DEF MemoryInv, ScopesOK
<1>2. scopes # << >>
  BY Runs DEF Crashes, Declare, Executes
<1>3. /\ UNCHANGED <<program, file, parameters, procs, heap, stack>>
      /\ scopes' = [scopes EXCEPT ![1] = level]
  BY DEF Declare, Rescope, Continue, Goto, self, ScopeStack_declare
<1>4. /\ DOMAIN level = DOMAIN scopes[1] \cup {Name}
      /\ \A x \in DOMAIN scopes[1] : level[x] = scopes[1][x]
      /\ Name \notin DOMAIN scopes[1] => level[Name] = NULL
  BY DEF ListMap_declare, ListMap_get
<1> HIDE DEF level
<1>5. /\ scopes' \in Seq(L \cup {level}) /\ Len(scopes') = Len(scopes)
      /\ DOMAIN scopes' = DOMAIN scopes /\ scopes'[1] = level /\ 1 \in DOMAIN scopes
      /\ \A k \in DOMAIN scopes : k # 1 => scopes'[k] = scopes[k]
  BY <1>1, <1>2, <1>3
<1>6. LevelOK(level)
  <2>1. LevelOK(scopes[1])
    BY <1>5 DEF MemoryInv, ScopesOK
  <2> QED BY <1>4, <2>1, Reading DEF LevelOK, Values
<1>7. MemoryInv'
  <2>1. ScopesOK(scopes')
    BY <1>5, <1>6 DEF MemoryInv, ScopesOK
  <2> QED BY <1>3, <2>1 DEF MemoryInv
<1>8. KeepsVariables
  BY <1>3, <1>4, <1>5 DEF KeepsVariables, Level
<1> QED BY <1>7, <1>8 DEF Sound

LEMMA StoreStep ==
  ASSUME MemoryInv, Executable, Store
  PROVE  Sound
<1> DEFINE declared == Declaring(scopes, Name)
           value == Stack_pop(1)
<1>1. PICK L : scopes \in Seq(L)
  BY DEF MemoryInv, ScopesOK
<1>2. declared # {} /\ Opcode = Op.STORE
  BY Runs DEF Crashes, Store, Executes
<1>3. declared \in SUBSET (1 .. Len(scopes)) /\ DOMAIN scopes = 1 .. Len(scopes)
      /\ Len(scopes) \in Nat
  BY <1>1 DEF Declaring
<1>4. PICK k \in declared : \A j \in declared : k <= j
  BY <1>1, <1>2, <1>3, InnermostExists
<1>5. Innermost(declared) = k
  BY <1>3, <1>4, InnermostIs
<1> DEFINE level == [scopes[k] EXCEPT ![Name] = value]
<1>6. /\ UNCHANGED <<program, file, parameters, procs, heap>>
      /\ scopes' = [scopes EXCEPT ![k] = level]
      /\ stack' = After(1)
  BY <1>5 DEF Store, Continue, Goto, self, ScopeStack_store, ListMap_put
<1>7. k \in DOMAIN scopes /\ Name \in DOMAIN scopes[k]
  BY DEF Declaring
<1>8. value \in Values /\ stack' \in Seq(Objects)
  BY <1>6, StackSound
<1>9. /\ DOMAIN level = DOMAIN scopes[k] /\ level[Name] = value
      /\ \A x \in DOMAIN level : x # Name => level[x] = scopes[k][x]
  BY <1>7
<1> HIDE DEF level, value
<1>10. /\ scopes' \in Seq(L \cup {level}) /\ Len(scopes') = Len(scopes)
       /\ DOMAIN scopes' = DOMAIN scopes /\ scopes'[k] = level
       /\ \A j \in DOMAIN scopes : j # k => scopes'[j] = scopes[j]
  BY <1>1, <1>6, <1>7
<1>11. LevelOK(level)
  <2>1. LevelOK(scopes[k])
    BY <1>7 DEF MemoryInv, ScopesOK
  <2> QED BY <1>8, <1>9, <2>1, Reading DEF LevelOK
<1>12. MemoryInv'
  <2>1. ScopesOK(scopes')
    BY <1>10, <1>11 DEF MemoryInv, ScopesOK
  <2> QED BY <1>6, <1>8, <2>1 DEF MemoryInv
<1>13. KeepsVariables
  <2> SUFFICES ASSUME NEW d \in DOMAIN scopes,
                      NEW x \in DOMAIN Level(scopes, d),
                      x \notin DOMAIN Level(scopes', d)
                        \/ Level(scopes', d)[x] # Level(scopes, d)[x]
               PROVE  /\ Name = x
                      /\ \A e \in d + 1 .. Len(scopes) :
                           x \notin DOMAIN Level(scopes, e)
    BY <1>2, <1>6 DEF KeepsVariables
  <2>1. Len(scopes) + 1 - d \in DOMAIN scopes
    BY <1>3
  <2>2. Len(scopes) + 1 - d = k /\ Name = x
    BY <1>9, <1>10, <2>1 DEF Level
  <2>3. ASSUME NEW e \in d + 1 .. Len(scopes), x \in DOMAIN Level(scopes, e)
        PROVE  FALSE
    <3>1. Len(scopes) + 1 - e \in 1 .. Len(scopes) /\ Len(scopes) + 1 - e < k
      BY <1>3, <2>2
    <3>2. Len(scopes) + 1 - e \in declared
      BY <1>3, <2>2, <2>3, <3>1 DEF Declaring, Level
    <3> QED BY <1>3, <1>4, <3>1, <3>2
  <2> QED BY <2>2, <2>3
<1> QED BY <1>12, <1>13 DEF Sound

LEMMA LoadStep ==
  ASSUME MemoryInv, Executable, Load
  PROVE  Sound
<1> DEFINE value == ScopeStack_load(scopes, Name)
<1>1. value # NULL
  BY Runs DEF Refuses, Load, Executes
<1>2. value \in Objects
  BY <1>1, LoadSound, Reading DEF Values
<1>3. /\ UNCHANGED <<program, file, parameters, heap, procs, scopes>>
      /\ stack' = <<value>> \o stack
  BY DEF Load, Restack, Continue, Goto, self
<1> HIDE DEF value
<1>4. stack' \in Seq(Objects)
  BY <1>2, <1>3 DEF MemoryInv
<1> QED BY <1>3, <1>4, StackChanges

LEMMA PlainIsObject ==
  ASSUME NEW R, NEW type, NEW value
  PROVE  IsObject(TypedObject_construct(type, value), R)
BY DEF IsObject, TypedObject_construct

LEMMA OneObjectMade ==
  ASSUME MemoryInv, NEW n \in Nat, NEW c, IsObject(c, Values), Replace(n, <<c>>)
  PROVE  Sound
<1> DEFINE contents == <<c>>
<1>1. Len(contents) = 1 /\ DOMAIN contents = 1 .. 1 /\ contents[1] = c
  OBVIOUS
<1>2. IsObject(c, Values \cup -1 .. -1)
  BY DEF IsObject
<1> HIDE DEF contents
<1>3. Replace(n, contents)
  BY DEF contents
<1>4. Len(contents) \in Nat \ {0} /\ DOMAIN contents = 1 .. Len(contents)
      /\ \A i \in 1 .. Len(contents) :
           IsObject(contents[i], Values \cup -Len(contents) .. -1)
  BY <1>1, <1>2
<1> QED BY <1>3, <1>4, ObjectsMade

LEMMA ValueSteps ==
  ASSUME MemoryInv, Push \/ Expression \/ Call
  PROVE  Sound
<1>1. CASE Push
  BY <1>1, PlainIsObject, OneObjectMade DEF Push
<1>2. CASE Expression
  <2>1. PICK op \in Expressions :
          \E result \in Results(op, heap[stack[2]], Top) : Replace(2, <<result>>)
    BY <1>2 DEF Expression
  <2>2. PICK result \in Results(op, heap[stack[2]], Top) : Replace(2, <<result>>)
    BY <2>1
  <2>3. \E type, value : result = TypedObject_construct(type, value)
    <3>1. CASE op \in Comparisons
      BY <3>1 DEF Results, Truth
    <3>2. CASE op \in Connectives /\ op \notin Comparisons
      BY <3>2 DEF Results, Truth
    <3>3. CASE op \in Arithmetic /\ op \notin Comparisons /\ op \notin Connectives
      BY <3>3 DEF Results
    <3> QED BY <3>1, <3>2, <3>3 DEF Expressions
  <2> QED BY <2>2, <2>3, PlainIsObject, OneObjectMade
<1>3. CASE Call
  BY <1>3, PlainIsObject, OneObjectMade, Reading DEF Call
<1> QED BY <1>1, <1>2, <1>3

LEMMA NotStep ==
  ASSUME MemoryInv, Executable, Not
  PROVE  Sound
<1>1. stack # << >> /\ Opcode = Op.NOT
  BY Runs DEF Refuses, Not, Executes
<1> DEFINE o == stack[1]
           c == heap[o]
<1>2. o \in Objects
  BY <1>1, StackSound
<1>3. /\ UNCHANGED <<program, file, parameters, procs, stack, scopes>>
      /\ heap' = [heap EXCEPT ![o].value = 1 - @]
  BY DEF Not, Continue, Goto, self
<1>4. HeapOK(heap) /\ IsObject(c, Values)
  BY <1>2 DEF MemoryInv, HeapOK
<1> DEFINE d == [c EXCEPT !.value = 1 - @]
<1>5. d = [type |-> c.type, value |-> 1 - c.value, refs |-> c.refs]
  BY <1>4 DEF IsObject
<1>6. IsObject(d, Values)
  BY <1>4, <1>5 DEF IsObject
<1>7. heap' = [heap EXCEPT ![o] = d]
  BY <1>3
<1> HIDE DEF c, d, o
<1>8. HeapOK(heap') /\ \A p \in Objects : p # o => heap'[p] = heap[p]
  BY <1>2, <1>4, <1>6, <1>7 DEF HeapOK
<1>9. MemoryInv'
  BY <1>3, <1>8 DEF MemoryInv
<1>10. KeepsVariables
  <2> SUFFICES ASSUME NEW e \in DOMAIN scopes,
                      NEW x \in DOMAIN Level(scopes, e)
                                  \ {RETURN_ADDRESS, RETURN_SOURCE},
                      Level(scopes, e)[x] # stack[1]
               PROVE  Contents(heap', Level(scopes, e)[x])
                        = Contents(heap, Level(scopes, e)[x])
    BY <1>1, <1>3 DEF KeepsVariables
  <2>1. PICK L : scopes \in Seq(L)
    BY DEF MemoryInv, ScopesOK
  <2>2. Len(scopes) + 1 - e \in DOMAIN scopes
    BY <2>1
  <2>3. Level(scopes, e)[x] = NULL \/ Level(scopes, e)[x] \in Objects
    BY <2>2, VariablesInUse DEF Level
  <2> QED BY <1>8, <2>3 DEF Contents, o
<1> QED BY <1>9, <1>10 DEF Sound

LEMMA AnyStep ==
  ASSUME MemoryInv, AnyType
  PROVE  Sound
<1> DEFINE refs == IF stack = << >> THEN << >> ELSE [x \in {CONTENT} |-> stack[1]]
<1>1. Replace(1, <<Container(Type.ANY, refs)>>)
  BY DEF AnyType
<1>2. \A x \in DOMAIN refs : refs[x] \in Values
  <2>1. CASE stack = << >>
    <3>1. refs = << >> /\ DOMAIN << >> = {}
      BY <2>1
    <3> HIDE DEF refs
    <3> QED BY <3>1
  <2>2. CASE stack # << >>
    <3>1. refs = [x \in {CONTENT} |-> stack[1]]
      BY <2>2
    <3>2. stack[1] \in Values
      BY <2>2, StackSound DEF Values
    <3> HIDE DEF refs
    <3> QED BY <3>1, <3>2
  <2> QED BY <2>1, <2>2
<1> HIDE DEF refs
<1>3. IsObject(Container(Type.ANY, refs), Values)
  BY <1>2 DEF IsObject, Container
<1> QED BY <1>1, <1>3, OneObjectMade

LEMMA StructSteps ==
  ASSUME MemoryInv, Executable, StructConstructor \/ StructLoad
  PROVE  Sound
<1>1. CASE StructConstructor
  <2> DEFINE p == pos + 2
             n == CountAt(Bytes, p)
             fields == [i \in 1 .. n |-> ParameterName(Bytes, p, i)]
             e == ListMap_constructor
             s == <<e>>
             t == Bind(s, fields, Popped(n))
             refs == t[1]
  <2>1. Replace(n, <<Container(Type.STRUCT, refs)>>)
    BY <1>1 DEF StructConstructor
  <2>2. n \in Nat
    BY Reading
  <2>3. fields \in Seq(Nat \cup {EOF}) /\ DOMAIN fields = 1 .. n
    BY <2>2, Reading
  <2>a. e = << >> /\ DOMAIN << >> = {}
    BY DEF ListMap_constructor
  <2> HIDE DEF e
  <2>4. /\ s \in Seq({e}) /\ s # << >> /\ s[1] = e
    OBVIOUS
  <2>b. DOMAIN s[1] = {} /\ \E L : s \in Seq(L)
    BY <2>a, <2>4
  <2> HIDE DEF fields, s, n
  <2>5. /\ DOMAIN t[1] = DOMAIN s[1] \cup Range(fields)
        /\ \A x \in Range(fields) :
             \E i \in DOMAIN fields : fields[i] = x /\ t[1][x] = Popped(n)[i]
    <3> DEFINE N == Nat \cup {EOF}
    <3>1. fields \in Seq(N)
      BY <2>3
    <3> HIDE DEF N
    <3>2. s # << >> /\ \E L : s \in Seq(L)
      BY <2>4, <2>b
    <3> QED BY <3>1, <3>2, BindSound
  <2>6. \A i \in 1 .. n : Popped(n)[i] \in Values
    BY StackSound DEF Popped
  <2>7. \A x \in DOMAIN refs : refs[x] \in Values
    BY <2>3, <2>b, <2>5, <2>6
  <2> HIDE DEF refs
  <2>8. IsObject(Container(Type.STRUCT, refs), Values)
    BY <2>7 DEF IsObject, Container
  <2> QED BY <2>1, <2>2, <2>8, OneObjectMade
<1>2. CASE StructLoad
  <2>1. stack # << >> /\ ListMap_get(Top.refs, Field) # NULL
    BY <1>2, Runs DEF Crashes, Refuses, StructLoad, Executes
  <2> DEFINE value == Top.refs[Field]
  <2>2. value \in Objects
    <3>1. IsObject(Top, Values)
      BY <2>1, StackSound DEF Top, MemoryInv, HeapOK
    <3> QED BY <2>1, <3>1 DEF IsObject, ListMap_get, Values
  <2>3. /\ UNCHANGED <<program, file, parameters, heap, procs, scopes>>
        /\ stack' = <<value>> \o After(1)
    BY <1>2 DEF StructLoad, Restack, Continue, Goto, self
  <2>4. After(1) \in Seq(Objects)
    BY StackSound
  <2> HIDE DEF value
  <2>5. stack' \in Seq(Objects)
    BY <2>2, <2>3, <2>4
  <2> QED BY <2>3, <2>5, StackChanges
<1> QED BY <1>1, <1>2

LEMMA ReceiveStep ==
  ASSUME MemoryInv, Receive
  PROVE  Sound
<1>1. PICK m \in program.messages : Replace(0, m)
  BY DEF Receive
<1>2. /\ Len(m) \in Nat \ {0} /\ DOMAIN m = 1 .. Len(m)
      /\ \A i \in 1 .. Len(m) : IsObject(m[i], {NULL} \cup -Len(m) .. -1)
  BY ProgramsAssumption DEF MemoryInv
<1>3. ASSUME NEW i \in 1 .. Len(m)
      PROVE  IsObject(m[i], Values \cup -Len(m) .. -1)
  <2>1. IsObject(m[i], {NULL} \cup -Len(m) .. -1)
    BY <1>2
  <2>2. {NULL} \cup -Len(m) .. -1 \subseteq Values \cup -Len(m) .. -1
    BY DEF Values
  <2> QED BY <2>1, <2>2 DEF IsObject
<1> QED BY <1>1, <1>2, <1>3, ObjectsMade

\* Names and values as a level may have them
Bindable(names, values) ==
  \A i \in DOMAIN names :
    /\ names[i] \notin {RETURN_ADDRESS, RETURN_SOURCE} => values[i] \in Values
    /\ names[i] = RETURN_SOURCE => values[i] \in {NULL, "own"}

\* What is bound in the innermost scope leaves the others as they were.
LEMMA BoundInside ==
  ASSUME NEW s, ScopesOK(s), s # << >>,
         NEW N, NEW names \in Seq(N), NEW values, Bindable(names, values)
  PROVE  LET t == Bind(s, names, values)
         IN /\ ScopesOK(t) /\ Len(t) = Len(s) /\ DOMAIN t = DOMAIN s
            /\ \A k \in DOMAIN s : k # 1 => t[k] = s[k]
<1> DEFINE t == Bind(s, names, values)
<1>1. /\ \E L : t \in Seq(L)
      /\ Len(t) = Len(s) /\ DOMAIN t = DOMAIN s
      /\ \A k \in DOMAIN s : k # 1 => t[k] = s[k]
      /\ DOMAIN t[1] = DOMAIN s[1] \cup Range(names)
      /\ \A x \in Range(names) :
           \E i \in DOMAIN names : names[i] = x /\ t[1][x] = values[i]
      /\ \A x \in DOMAIN s[1] \ Range(names) : t[1][x] = s[1][x]
  BY BindSound DEF ScopesOK
<1> HIDE DEF t
<1>2. LevelOK(s[1])
  <2>1. 1 \in DOMAIN s
    BY DEF ScopesOK
  <2> QED BY <2>1 DEF ScopesOK
<1>3. LevelOK(t[1])
  BY <1>1, <1>2 DEF LevelOK, Bindable
<1>4. ScopesOK(t)
  <2>1. \A k \in DOMAIN t : LevelOK(t[k])
    BY <1>1, <1>3 DEF ScopesOK
  <2> QED BY <1>1, <2>1 DEF ScopesOK
<1> QED BY <1>1, <1>4 DEF t

LEMMA BoundInNewScope ==
  ASSUME NEW s, ScopesOK(s),
         NEW N, NEW names \in Seq(N), NEW values, Bindable(names, values)
  PROVE  LET t == Bind(ScopeStack_enterScope(s), names, values)
         IN ScopesOK(t) /\ Outer(s, t)
<1> DEFINE u == ScopeStack_enterScope(s)
           t == Bind(u, names, values)
<1>1. ScopesOK(u) /\ Outer(s, u) /\ u # << >> /\ Len(u) = Len(s) + 1
      /\ Len(s) \in Nat
  BY EnterSound
<1> HIDE DEF u
<1>2. ScopesOK(t) /\ Len(t) = Len(u) /\ DOMAIN t = DOMAIN u
      /\ \A k \in DOMAIN u : k # 1 => t[k] = u[k]
  BY <1>1, BoundInside
<1> HIDE DEF t
<1>3. DOMAIN s = 1 .. Len(s) /\ DOMAIN u = 1 .. Len(s) + 1
  <2>1. \E L : s \in Seq(L)
    BY DEF ScopesOK
  <2>2. \E L : u \in Seq(L)
    BY <1>1 DEF ScopesOK
  <2> QED BY <1>1, <2>1, <2>2
<1>4. Outer(s, t)
  <2> SUFFICES ASSUME NEW d \in DOMAIN s PROVE Level(t, d) = Level(s, d)
    BY DEF Outer
  <2>1. Level(u, d) = Level(s, d)
    BY <1>1, <1>3 DEF Outer
  <2>2. Len(u) + 1 - d \in DOMAIN u /\ Len(u) + 1 - d # 1
    BY <1>1, <1>3
  <2> QED BY <1>2, <2>1, <2>2 DEF Level
<1> QED BY <1>2, <1>4 DEF t, u

\* The instructions that only go elsewhere, and those that only take from
\* the stack
LEMMA JumpSteps ==
  ASSUME MemoryInv,
         \/ Jump \/ BehaviourJump \/ ElseClause \/ Connect \/ Disconnect
         \/ UnknownByte \/ DeclareChannels \/ Stop \/ StoppedByOther
         \/ Fails \/ End \/ Done
  PROVE  Sound
<1>1. UNCHANGED <<program, file, parameters, heap, procs, scopes, stack>>
  <2>1. CASE Jump \/ BehaviourJump \/ ElseClause
    BY <2>1 DEF Jump, BehaviourJump, ElseClause, JumpTo, Goto, Continue, self,
                memory
  <2>2. CASE Connect \/ Disconnect \/ UnknownByte
    BY <2>2 DEF Connect, Disconnect, UnknownByte, JumpTo, Goto, self, memory
  <2>3. CASE DeclareChannels \/ Stop
    BY <2>3 DEF DeclareChannels, Stop, Continue, Goto, memory
  <2>4. CASE StoppedByOther \/ Fails \/ End \/ Done
    BY <2>4 DEF StoppedByOther, Fails, End, Done, self, memory, vars, place
  <2> QED BY <2>1, <2>2, <2>3, <2>4
<1>2. stack' \in Seq(Objects)
  BY <1>1 DEF MemoryInv
<1> QED BY <1>1, <1>2, StackChanges

LEMMA PopSteps ==
  ASSUME MemoryInv, IfClause \/ Send \/ CallStandard
  PROVE  Sound
<1>1. /\ UNCHANGED <<program, file, parameters, heap, procs, scopes>>
      /\ \E n \in Nat : stack' = After(n)
  <2>1. CASE IfClause
    BY <2>1 DEF IfClause, Goto, self
  <2>2. CASE Send
    BY <2>2 DEF Send, Restack, Continue, Goto, self
  <2>3. CASE CallStandard
    <3>1. program.standardFunctions[Name] \in Nat
      BY <2>3, ProgramsAssumption DEF CallStandard, StandardFunction, MemoryInv
    <3> QED BY <2>3, <3>1 DEF CallStandard, Restack, Continue, Goto, self
  <2> QED BY <2>1, <2>2, <2>3
<1>2. stack' \in Seq(Objects)
  BY <1>1, StackSound
<1> QED BY <1>1, <1>2, StackChanges

LEMMA Joined ==
  ASSUME NEW S, NEW s \in Seq(S), NEW T, NEW t \in Seq(T)
  PROVE  /\ Len(s) \in Nat /\ Len(t) \in Nat
         /\ DOMAIN (s \o t) = 1 .. Len(s) + Len(t)
         /\ \A i \in 1 .. Len(s) : (s \o t)[i] = s[i]
         /\ \A i \in Len(s) + 1 .. Len(s) + Len(t) : (s \o t)[i] = t[i - Len(s)]
OBVIOUS

\* The names of a procedure are none of those a call uses.
LEMMA CallToSound ==
  ASSUME MemoryInv, NEW f \in {"own", "main"}, NEW procedure,
         procedure.parameters \in Seq(Nat \cup {EOF}),
         NEW names, NEW values, CallTo(f, procedure, names, values),
         names \in Seq(Int), values \in Seq({Following, "own"}),
         Len(names) = Len(values),
         \A i \in 1 .. Len(names) :
           /\ names[i] \in {RETURN_ADDRESS, RETURN_SOURCE}
           /\ names[i] = RETURN_SOURCE => values[i] = "own"
  PROVE  Sound
<1> DEFINE p == procedure.parameters
           n == Len(p)
           v == Popped(n)
<1>1. p \in Seq(Int) /\ n \in Nat /\ DOMAIN p = 1 .. n
      /\ \A i \in 1 .. n : p[i] \notin {RETURN_ADDRESS, RETURN_SOURCE}
  <2>1. \A x \in Nat \cup {EOF} :
          x \in Int /\ x \notin {RETURN_ADDRESS, RETURN_SOURCE}
    BY DEF EOF, RETURN_ADDRESS, RETURN_SOURCE
  <2> HIDE DEF p
  <2>2. p \in Seq(Nat \cup {EOF}) /\ n \in Nat /\ DOMAIN p = 1 .. n
    BY DEF p
  <2>3. \A i \in 1 .. n : p[i] \in Nat \cup {EOF}
    BY <2>2
  <2>4. p \in Seq(Int)
    <3>1. \A i \in 1 .. n : p[i] \in Int
      BY <2>1, <2>3
    <3>2. p \in [1 .. n -> Int]
      BY <2>2, <3>1
    <3> QED BY <2>2, <3>2
  <2> QED BY <2>1, <2>2, <2>3, <2>4
<1>2. v \in Seq(Values) /\ Len(v) = n /\ \A i \in 1 .. n : v[i] \in Values
  <2> HIDE DEF n
  <2>1. /\ v = [i \in 1 .. n |-> Stack_pop(i)]
        /\ \A i \in 1 .. n : Stack_pop(i) \in Values
    BY StackSound DEF Popped
  <2> HIDE DEF v
  <2> QED BY <1>1, <2>1
<1>3. /\ UNCHANGED <<program, heap, procs, parameters>> /\ file' = f
      /\ stack' = After(n)
      /\ scopes' = Bind(ScopeStack_enterScope(scopes), names \o p, values \o v)
  BY DEF CallTo, self
<1>n. Len(p) = n
  OBVIOUS
<1> HIDE DEF p, v, n
<1>4. names \o p \in Seq(Int) /\ Bindable(names \o p, values \o v)
  <2> DEFINE a == names \o p
             b == values \o v
             m == Len(names)
  <2>1. /\ a \in Seq(Int) /\ DOMAIN a = 1 .. m + n /\ m \in Nat
        /\ \A i \in 1 .. m : a[i] = names[i]
        /\ \A i \in m + 1 .. m + n : a[i] = p[i - m]
    <3>1. names \o p \in Seq(Int)
      BY <1>1
    <3>2. /\ DOMAIN (names \o p) = 1 .. Len(names) + Len(p) /\ Len(names) \in Nat
          /\ \A i \in 1 .. Len(names) : (names \o p)[i] = names[i]
          /\ \A i \in Len(names) + 1 .. Len(names) + Len(p) :
               (names \o p)[i] = p[i - Len(names)]
      <4> DEFINE I == Int
      <4>1. names \in Seq(I) /\ p \in Seq(I)
        BY <1>1
      <4> HIDE DEF I
      <4> QED BY <4>1, Joined
    <3> QED BY <1>n, <3>1, <3>2
  <2>2. /\ \A i \in 1 .. m : b[i] = values[i]
        /\ \A i \in m + 1 .. m + n : b[i] = v[i - m]
    BY <1>1, <1>2, Joined
  <2> HIDE DEF a, b
  <2>3. ASSUME NEW i \in 1 .. m
        PROVE  a[i] = RETURN_SOURCE => b[i] = "own"
    BY <2>1, <2>2
  <2>4. ASSUME NEW i \in m + 1 .. m + n
        PROVE  a[i] \notin {RETURN_ADDRESS, RETURN_SOURCE} /\ b[i] \in Values
    <3>1. i - m \in 1 .. n
      BY <1>1, <2>1
    <3> QED BY <1>1, <1>2, <2>1, <2>2, <3>1
  <2>5. \A i \in 1 .. m : a[i] \in {RETURN_ADDRESS, RETURN_SOURCE}
    BY <2>1
  <2>6. \A i \in DOMAIN a : i \in 1 .. m \/ i \in m + 1 .. m + n
    BY <1>1, <2>1
  <2>7. Bindable(a, b)
    BY <2>3, <2>4, <2>5, <2>6 DEF Bindable
  <2> QED BY <2>1, <2>7 DEF a, b
<1>5. ScopesOK(scopes') /\ Outer(scopes, scopes')
  BY <1>3, <1>4, BoundInNewScope DEF MemoryInv
<1>6. stack' \in Seq(Objects) /\ file' \in {"own", "main"}
      /\ parameters' \in Seq(Objects)
  BY <1>1, <1>3, StackSound DEF MemoryInv
<1> QED BY <1>3, <1>5, <1>6, ScopesChange

LEMMA CallSteps ==
  ASSUME MemoryInv, CallOwn \/ CallGlobal
  PROVE  Sound
<1>1. CASE CallOwn
  <2> DEFINE names == <<RETURN_ADDRESS>>
             values == <<Following>>
  <2>1. CallTo(file, procs[Name], names, values)
        /\ procs[Name].parameters \in Seq(Nat \cup {EOF})
        /\ file \in {"own", "main"}
    BY <1>1 DEF CallOwn, OwnProcedure, MemoryInv
  <2>2. /\ names \in Seq(Int) /\ values \in Seq({Following, "own"})
        /\ Len(names) = Len(values)
        /\ \A i \in 1 .. Len(names) :
             /\ names[i] \in {RETURN_ADDRESS, RETURN_SOURCE}
             /\ names[i] = RETURN_SOURCE => values[i] = "own"
    BY DEF RETURN_ADDRESS, RETURN_SOURCE
  <2> HIDE DEF names, values
  <2> QED BY <2>1, <2>2, CallToSound
<1>2. CASE CallGlobal
  <2> DEFINE names == <<RETURN_ADDRESS, RETURN_SOURCE>>
             values == <<Following, "own">>
  <2>1. CallTo("main", program.globals[Name], names, values)
    BY <1>2 DEF CallGlobal
  <2>2. program.globals[Name].parameters \in Seq(Nat)
    BY <1>2, ProgramsAssumption DEF CallGlobal, GlobalProcedure, MemoryInv
  <2>3. program.globals[Name].parameters \in Seq(Nat \cup {EOF})
    <3> DEFINE q == program.globals[Name].parameters
    <3> HIDE DEF q
    <3>1. q \in Seq(Nat) => q \in Seq(Nat \cup {EOF})
      OBVIOUS
    <3> QED BY <2>2, <3>1 DEF q
  <2>4. /\ names \in Seq(Int) /\ values \in Seq({Following, "own"})
        /\ Len(names) = Len(values)
        /\ \A i \in 1 .. Len(names) :
             /\ names[i] \in {RETURN_ADDRESS, RETURN_SOURCE}
             /\ names[i] = RETURN_SOURCE => values[i] = "own"
    BY DEF RETURN_ADDRESS, RETURN_SOURCE
  <2> HIDE DEF names, values
  <2> QED BY <2>1, <2>3, <2>4, CallToSound
<1> QED BY <1>1, <1>2

LEMMA ReturnSteps ==
  ASSUME MemoryInv, ProcReturn
  PROVE  Sound
<1> DEFINE s == ScopeStack_exitTo(scopes, RETURN_ADDRESS)
           t == ScopeStack_exitScope(s)
<1>1. ScopesOK(scopes) /\ ScopesOK(s) /\ Outer(scopes, s)
  BY ExitToSound DEF MemoryInv
<1> HIDE DEF s
<1>2. ScopesOK(t) /\ Outer(s, t) /\ Len(t) <= Len(s)
  BY <1>1, ExitSound
<1>3. scopes' = t /\ UNCHANGED <<program, parameters, procs, stack, heap>>
      /\ file' \in {file, ScopeStack_load(scopes, RETURN_SOURCE)}
      /\ (ScopeStack_load(scopes, RETURN_SOURCE) = NULL => file' = file)
  BY DEF ProcReturn, self, s
<1> HIDE DEF t
<1>4. ScopesOK(scopes') /\ Outer(scopes, scopes')
  BY <1>1, <1>2, <1>3, OuterTransitive
<1>5. file' \in {"own", "main"} /\ stack' \in Seq(Objects)
      /\ parameters' \in Seq(Objects)
  BY <1>3, LoadSound DEF MemoryInv
<1> QED BY <1>3, <1>4, <1>5, ScopesChange

LEMMA BlockSteps ==
  ASSUME MemoryInv, Return \/ BlockEnd
  PROVE  Sound
<1>1. CASE ProcReturn
  BY <1>1, ReturnSteps
<1>2. CASE UNCHANGED <<self, memory, file>>
  <2>1. UNCHANGED <<program, file, parameters, heap, procs, scopes, stack>>
    BY <1>2 DEF self, memory
  <2>2. stack' \in Seq(Objects)
    BY <2>1 DEF MemoryInv
  <2> QED BY <2>1, <2>2, StackChanges
<1>3. ProcReturn \/ UNCHANGED <<self, memory, file>>
  BY DEF Return, BlockEnd, JumpTo, Goto
<1> QED BY <1>1, <1>2, <1>3

LEMMA ProjectSteps ==
  ASSUME MemoryInv, Executable, ProjectEntry \/ ProjectExit
  PROVE  Sound
<1>1. /\ UNCHANGED <<program, file, parameters, heap, procs>>
      /\ file' \in {"own", "main"} /\ parameters' \in Seq(Objects)
  BY DEF ProjectEntry, ProjectExit, Goto, Continue, MemoryInv
<1>2. CASE ProjectEntry
  <2> DEFINE value == Top.refs[CONTENT]
             names == <<Name>>
             values == <<value>>
  <2>1. stack # << >> /\ CONTENT \in DOMAIN Top.refs
    BY <1>2, Runs DEF Crashes, ProjectEntry, Executes
  <2>2. value \in Values
    <3>1. IsObject(Top, Values)
      BY <2>1, StackSound DEF Top, MemoryInv, HeapOK
    <3> QED BY <2>1, <3>1 DEF IsObject
  <2>3. /\ scopes' = Bind(ScopeStack_enterScope(scopes), names, values)
        /\ stack' = After(1)
    BY <1>2 DEF ProjectEntry
  <2> HIDE DEF value
  <2>4. names \in Seq({Name}) /\ Bindable(names, values)
    BY <2>2, Reading DEF Bindable
  <2> HIDE DEF names, values
  <2>5. ScopesOK(scopes') /\ Outer(scopes, scopes')
    BY <2>3, <2>4, BoundInNewScope DEF MemoryInv
  <2>6. stack' \in Seq(Objects)
    BY <2>3, StackSound
  <2> QED BY <1>1, <2>5, <2>6, ScopesChange
<1>3. CASE ProjectExit
  <2>1. scopes' = ScopeStack_exitScope(scopes) /\ stack' = stack
    BY <1>3 DEF ProjectExit
  <2>2. ScopesOK(scopes') /\ Outer(scopes, scopes') /\ stack' \in Seq(Objects)
    BY <2>1, ExitSound DEF MemoryInv
  <2> QED BY <1>1, <2>2, ScopesChange
<1> QED BY <1>2, <1>3

LEMMA ConstructStep ==
  ASSUME MemoryInv, Executable, Construct
  PROVE  Sound
<1> DEFINE names == ConstructorNames(FittingConstructor)
           t == Bind(scopes, names, parameters)
<1>1. /\ UNCHANGED <<program, file, heap, procs, stack>>
      /\ parameters' = << >>
      /\ scopes' = IF parameters = << >> THEN scopes ELSE t
      /\ Opcode = Op.CONSTRUCTOR
  BY DEF Construct, Goto, Executes
<1>2. << >> \in Seq(Objects)
  OBVIOUS
<1>3. CASE parameters = << >>
  <2>1. /\ ScopesOK(scopes') /\ Outer(scopes, scopes')
        /\ file' \in {"own", "main"} /\ stack' \in Seq(Objects)
        /\ parameters' \in Seq(Objects)
    BY <1>1, <1>2, <1>3, OuterReflexive DEF MemoryInv
  <2> QED BY <1>1, <2>1, ScopesChange
<1>4. CASE parameters # << >>
  <2>1. scopes # << >>
    BY <1>1, <1>4, Runs DEF Crashes
  <2>2. parameters \in Seq(Objects) /\ DOMAIN parameters = 1 .. Len(parameters)
        /\ Len(parameters) \in Nat
    BY DEF MemoryInv
  <2> DEFINE N == Nat \cup {EOF}
  <2>3. names = [i \in 1 .. Len(parameters) |-> names[i]]
        /\ \A i \in 1 .. Len(parameters) : names[i] \in N
    BY <2>2, Reading DEF ConstructorNames
  <2> HIDE DEF names
  <2>4. names \in Seq(N) /\ DOMAIN names = DOMAIN parameters
    BY <2>2, <2>3
  <2>5. \A n \in N : n \notin {RETURN_ADDRESS, RETURN_SOURCE}
    BY DEF EOF, RETURN_ADDRESS, RETURN_SOURCE
  <2>6. Bindable(names, parameters)
    BY <2>2, <2>3, <2>4, <2>5 DEF Bindable, Values
  <2>7. ScopesOK(scopes)
    BY DEF MemoryInv
  <2> HIDE DEF N, t
  <2>8. /\ ScopesOK(t) /\ Len(t) = Len(scopes) /\ DOMAIN t = DOMAIN scopes
        /\ \A k \in DOMAIN scopes : k # 1 => t[k] = scopes[k]
    BY <2>1, <2>4, <2>6, <2>7, BoundInside DEF t
  <2>9. scopes' = t
    BY <1>1, <1>4
  <2>10. MemoryInv'
    BY <1>1, <1>2, <2>8, <2>9 DEF MemoryInv
  <2>11. KeepsVariables
    <3> SUFFICES ASSUME NEW d \in DOMAIN scopes, d # Len(scopes)
                 PROVE  Level(t, d) = Level(scopes, d)
      BY <1>1, <2>9 DEF KeepsVariables
    <3>1. Len(scopes) + 1 - d \in DOMAIN scopes /\ Len(scopes) + 1 - d # 1
      <4>1. PICK L : scopes \in Seq(L)
        BY <2>7 DEF ScopesOK
      <4>2. DOMAIN scopes = 1 .. Len(scopes) /\ Len(scopes) \in Nat
        BY <4>1
      <4> QED BY <4>2
    <3> QED BY <2>8, <3>1 DEF Level
  <2> QED BY <2>10, <2>11 DEF Sound
<1> QED BY <1>3, <1>4

LEMMA ProcStep ==
  ASSUME MemoryInv, Proc
  PROVE  Sound
<1> DEFINE N == Nat \cup {EOF}
           p == pos + 4
           n == CountAt(Bytes, p)
           listed == [i \in 1 .. n |-> ParameterName(Bytes, p, i)]
           declared == Procedure(p).parameters
<1>1. /\ UNCHANGED <<program, file, parameters, heap, stack, scopes>>
      /\ procs' = ListMap_put(ListMap_declare(procs, Name), Name, Procedure(p))
  BY DEF Proc, Goto, memory
<1>2. declared \in Seq(N)
  <2>1. declared = Reverse(listed)
    BY DEF Procedure
  <2>2. n \in Nat /\ \A i \in 1 .. n : listed[i] \in N
    BY Reading
  <2> HIDE DEF listed, n
  <2>3. listed \in Seq(N)
    BY <2>2 DEF listed
  <2>4. Reverse(listed) \in Seq(N)
    <3>1. \A i \in 1 .. Len(listed) : listed[(Len(listed) - i) + 1] \in N
      <4>1. \A i \in 1 .. Len(listed) : (Len(listed) - i) + 1 \in 1 .. Len(listed)
        BY <2>3
      <4> QED BY <2>3, <4>1
    <3> QED BY <2>3, <3>1 DEF Reverse
  <2> QED BY <2>1, <2>4
<1>3. /\ DOMAIN procs' = DOMAIN procs \cup {Name}
      /\ procs'[Name] = Procedure(p)
      /\ \A x \in DOMAIN procs : x # Name => procs'[x] = procs[x]
  BY <1>1 DEF ListMap_put, ListMap_declare, ListMap_get
<1>4. MemoryInv'
  BY <1>1, <1>2, <1>3 DEF MemoryInv
<1>5. KeepsVariables
  BY <1>1 DEF KeepsVariables
<1> QED BY <1>4, <1>5 DEF Sound

-----------------------------------------------------------------------------
(***************************************************************************)
(* At first the component has its arguments.                               *)
(***************************************************************************)
LEMMA MemoryAtFirst == Init => MemoryInv
<1> SUFFICES ASSUME Init PROVE MemoryInv
  OBVIOUS
<1>1. PICK n \in 0 .. MaxObjects :
        /\ DOMAIN program.arguments = 1 .. n
        /\ \A i \in 1 .. n : IsObject(program.arguments[i], {NULL} \cup 1 .. n)
  BY ProgramsAssumption DEF Init
<1>2. 1 .. n \subseteq Objects
  BY MaxObjectsAssumption DEF Objects
<1>3. parameters \in Seq(Objects)
  BY <1>1, <1>2 DEF Init
<1>4. HeapOK(heap)
  <2>1. \A i \in 1 .. n : IsObject(program.arguments[i], Values)
    BY <1>1, <1>2 DEF IsObject, Values
  <2>2. IsObject(NoObject, Values)
    BY PlainIsObject DEF NoObject
  <2> QED BY <1>1, <2>1, <2>2 DEF Init, HeapOK
<1>5. ScopesOK(scopes)
  <2>1. << >> \in Seq({}) /\ DOMAIN << >> = {}
    OBVIOUS
  <2> QED BY <2>1 DEF Init, ScopesOK
<1>6. stack \in Seq(Objects) /\ DOMAIN procs = {}
  BY DEF Init
<1> QED BY <1>3, <1>4, <1>5, <1>6 DEF Init, MemoryInv

LEMMA MemoryStep == MemoryInv /\ [Next]_vars => Sound
<1> SUFFICES ASSUME MemoryInv, [Next]_vars PROVE Sound
  OBVIOUS
<1>1. CASE Executable /\ Instruction
  <2>1. CASE EnterScope \/ ExitScope
    BY <2>1, ScopeSteps
  <2>2. CASE Declare \/ Store \/ Load
    BY <1>1, <2>2, DeclareStep, StoreStep, LoadStep
  <2>3. CASE Push \/ Expression \/ Call
    BY <2>3, ValueSteps
  <2>4. CASE Not \/ AnyType
    BY <1>1, <2>4, NotStep, AnyStep
  <2>5. CASE StructConstructor \/ StructLoad
    BY <1>1, <2>5, StructSteps
  <2>6. CASE \/ Jump \/ BehaviourJump \/ ElseClause \/ Disconnect
             \/ UnknownByte \/ DeclareChannels \/ Stop
    BY <2>6, JumpSteps
  <2>7. CASE IfClause \/ CallStandard
    BY <2>7, PopSteps
  <2>8. CASE Proc \/ Construct
    BY <1>1, <2>8, ProcStep, ConstructStep
  <2>9. CASE CallOwn \/ CallGlobal
    BY <2>9, CallSteps
  <2>10. CASE Return \/ BlockEnd
    BY <2>10, BlockSteps
  <2>11. CASE ProjectEntry \/ ProjectExit
    BY <1>1, <2>11, ProjectSteps
  <2> QED BY <1>1, <2>1, <2>2, <2>3, <2>4, <2>5, <2>6, <2>7, <2>8, <2>9,
             <2>10, <2>11 DEF Instruction
<1>2. CASE Fails \/ End \/ StoppedByOther \/ Done
  BY <1>2, JumpSteps
<1>3. CASE Connect \/ Send \/ Receive
  BY <1>3, JumpSteps, PopSteps, ReceiveStep
<1>4. CASE UNCHANGED vars
  <2>1. UNCHANGED <<program, file, parameters, heap, procs, scopes, stack>>
    BY <1>4 DEF vars, place, self, memory
  <2>2. stack' \in Seq(Objects)
    BY <2>1 DEF MemoryInv
  <2> QED BY <2>1, <2>2, StackChanges
<1> QED BY <1>1, <1>2, <1>3, <1>4 DEF Next, Alone, Together

(***************************************************************************)
(* In a component that executes any bytes whatever, objects refer to       *)
(* objects, and so do the variables, the parameters and the data stack.    *)
(***************************************************************************)
THEOREM MemoryAlwaysSound == Spec => []MemoryInv
<1>1. Init => MemoryInv
  BY MemoryAtFirst
<1>2. MemoryInv /\ [Next]_vars => MemoryInv'
  BY MemoryStep DEF Sound
<1> QED BY <1>1, <1>2, PTL DEF Spec

(***************************************************************************)
(* Every variable of a scope that stays keeps its value, in a component    *)
(* that executes any bytes whatever.                                       *)
(***************************************************************************)
THEOREM VariablesAlwaysKept == Spec => VariablesKept
<1>1. MemoryInv /\ [Next]_vars => [KeepsVariables]_vars
  BY MemoryStep DEF Sound
<1> QED BY <1>1, MemoryAlwaysSound, PTL DEF Spec, VariablesKept

-----------------------------------------------------------------------------
(***************************************************************************)
(* Types.  UNKNOWN is the type of memory in which no object was made, and  *)
(* of literals that are refused: no variable, value or reference leads to  *)
(* it.                                                                     *)
(***************************************************************************)
TypedObjects == {o \in Objects : heap[o].type \in Range(Type) \ {Type.UNKNOWN}}

TypesOK ==
  /\ Roots \subseteq TypedObjects
  /\ \A o \in TypedObjects : Range(heap[o].refs) \subseteq TypedObjects

\* Levels from the outermost
LEMMA ScopesFrom ==
  ASSUME NEW s, ScopesOK(s)
  PROVE  /\ Len(s) \in Nat /\ DOMAIN s = 1 .. Len(s)
         /\ \A d \in 1 .. Len(s) :
              Len(s) + 1 - d \in 1 .. Len(s) /\ Level(s, d) = s[Len(s) + 1 - d]
<1>1. PICK L : s \in Seq(L)
  BY DEF ScopesOK
<1>2. Len(s) \in Nat /\ DOMAIN s = 1 .. Len(s)
  BY <1>1
<1> QED BY <1>2 DEF Level

KnownTypes == Range(Type) \ {Type.UNKNOWN}
Known == TypedObjects \cup {NULL}
ScopesKnown(s) == \A k \in DOMAIN s : Variables(s[k]) \subseteq Known

\* What a component starts from is typed if values and variables are.
LEMMA RootsKnown ==
  (Roots \subseteq TypedObjects)
    <=> /\ Range(stack) \cup Range(parameters) \subseteq Known
        /\ ScopesKnown(scopes)
BY DEF Roots, Known, ScopesKnown, TypedObjects, Objects

\* A step that changes no object
LEMMA TypesStay ==
  ASSUME TypesOK, heap' = heap,
         Range(stack') \cup Range(parameters') \subseteq Known,
         ScopesKnown(scopes')
  PROVE  TypesOK'
<1>1. TypedObjects' = TypedObjects /\ Known' = Known
  BY DEF TypedObjects, Known
<1>2. ScopesKnown(scopes)'
  BY <1>1 DEF ScopesKnown
<1>3. (Roots \subseteq TypedObjects)'
  BY <1>1, <1>2 DEF Roots, Known, ScopesKnown
<1> QED BY <1>1, <1>3 DEF TypesOK

\* The values and variables of a component are typed.
LEMMA KnownNow ==
  ASSUME TypesOK
  PROVE  /\ Range(stack) \cup Range(parameters) \subseteq Known
         /\ ScopesKnown(scopes)
BY RootsKnown DEF TypesOK

\* What is popped is typed, and so is what is left.
LEMMA StackKnown ==
  ASSUME MemoryInv, TypesOK
  PROVE  /\ \A k : Stack_pop(k) \in Known
         /\ \A k \in DOMAIN stack : stack[k] \in TypedObjects
         /\ \A n \in Nat : Range(After(n)) \subseteq TypedObjects
<1>1. stack \in Seq(Objects) /\ NULL \notin Objects
  BY ProgramsAssumption DEF MemoryInv, Objects
<1>2. \A k \in DOMAIN stack : stack[k] \in TypedObjects
  BY <1>1, KnownNow DEF Known, Range
<1>3. \A k : Stack_pop(k) \in Known
  BY <1>2 DEF Stack_pop, Known
<1>4. ASSUME NEW n \in Nat PROVE Range(After(n)) \subseteq TypedObjects
  <2>1. stack \in Seq(TypedObjects)
    <3>1. DOMAIN stack = 1 .. Len(stack) /\ Len(stack) \in Nat
          /\ stack = [k \in 1 .. Len(stack) |-> stack[k]]
      BY <1>1
    <3> QED BY <1>2, <3>1
  <2>2. After(n) \in Seq(TypedObjects)
    BY <2>1 DEF After
  <2> QED BY <2>2 DEF Range
<1> QED BY <1>2, <1>3, <1>4

\* Leaving scopes brings no new variables.
LEMMA LeftKnown ==
  ASSUME NEW s, ScopesOK(s), NEW t, ScopesOK(t), ScopesKnown(s), Outer(s, t),
         Len(t) <= Len(s)
  PROVE  ScopesKnown(t)
<1> SUFFICES ASSUME NEW k \in DOMAIN t PROVE Variables(t[k]) \subseteq Known
  BY DEF ScopesKnown
<1>1. /\ Len(s) \in Nat /\ Len(t) \in Nat /\ DOMAIN t = 1 .. Len(t)
      /\ DOMAIN s = 1 .. Len(s)
  BY ScopesFrom
<1> DEFINE d == Len(t) + 1 - k
           j == Len(s) + 1 - d
<1>2. d \in DOMAIN s /\ d \in DOMAIN t /\ Len(t) + 1 - d = k /\ j \in DOMAIN s
  BY <1>1
<1> HIDE DEF d, j
<1>3. t[k] = s[j]
  BY <1>2 DEF Outer, Level, j
<1> QED BY <1>2, <1>3 DEF ScopesKnown

\* A new scope has no variables.
LEMMA EnteredKnown ==
  ASSUME NEW s, ScopesOK(s), ScopesKnown(s)
  PROVE  ScopesKnown(ScopeStack_enterScope(s))
<1> DEFINE t == ScopeStack_enterScope(s)
<1>1. /\ ScopesOK(t) /\ t # << >> /\ t[1] = << >> /\ Len(t) = Len(s) + 1
      /\ Len(s) \in Nat /\ \A k \in 1 .. Len(s) : t[k + 1] = s[k]
  BY EnterSound
<1> HIDE DEF t
<1>2. DOMAIN t = 1 .. Len(s) + 1 /\ DOMAIN s = 1 .. Len(s)
  BY <1>1, ScopesFrom
<1>3. Variables(t[1]) = {}
  <2>1. DOMAIN << >> = {}
    OBVIOUS
  <2> QED BY <1>1, <2>1 DEF Variables
<1>4. \A k \in DOMAIN t : k = 1 \/ (k - 1 \in DOMAIN s /\ t[k] = s[k - 1])
  <2> SUFFICES ASSUME NEW k \in DOMAIN t, k # 1
               PROVE  k - 1 \in DOMAIN s /\ t[k] = s[k - 1]
    OBVIOUS
  <2>1. k - 1 \in 1 .. Len(s) /\ (k - 1) + 1 = k
    BY <1>1, <1>2
  <2> QED BY <1>1, <1>2, <2>1
<1>5. ScopesKnown(t)
  BY <1>3, <1>4 DEF ScopesKnown
<1> QED BY <1>5 DEF t

\* Binding typed values keeps the scopes typed; the names of returns have none.
LEMMA BoundKnown ==
  ASSUME NEW s, ScopesOK(s), ScopesKnown(s), s # << >>,
         NEW N, NEW names \in Seq(N), NEW values,
         \A i \in DOMAIN names :
           names[i] \notin {RETURN_ADDRESS, RETURN_SOURCE} => values[i] \in Known
  PROVE  ScopesKnown(Bind(s, names, values))
<1> DEFINE t == Bind(s, names, values)
<1>1. /\ DOMAIN t = DOMAIN s
      /\ \A k \in DOMAIN s : k # 1 => t[k] = s[k]
      /\ DOMAIN t[1] = DOMAIN s[1] \cup Range(names)
      /\ \A x \in Range(names) :
           \E i \in DOMAIN names : names[i] = x /\ t[1][x] = values[i]
      /\ \A x \in DOMAIN s[1] \ Range(names) : t[1][x] = s[1][x]
  BY BindSound DEF ScopesOK
<1>2. 1 \in DOMAIN s
  BY ScopesFrom DEF ScopesOK
<1> HIDE DEF t
<1>3. Variables(t[1]) \subseteq Known
  BY <1>1, <1>2 DEF Variables, ScopesKnown
<1>4. ScopesKnown(t)
  BY <1>1, <1>3 DEF ScopesKnown
<1> QED BY <1>4 DEF t

\* The elements of two sequences, joined
LEMMA JoinedRange ==
  ASSUME NEW S, NEW a \in Seq(S), NEW T, NEW b \in Seq(T)
  PROVE  Range(a \o b) \subseteq Range(a) \cup Range(b)
<1>1. /\ Len(a) \in Nat /\ Len(b) \in Nat
      /\ DOMAIN (a \o b) = 1 .. Len(a) + Len(b)
      /\ \A i \in 1 .. Len(a) : (a \o b)[i] = a[i]
      /\ \A i \in Len(a) + 1 .. Len(a) + Len(b) : (a \o b)[i] = b[i - Len(a)]
  BY Joined
<1>2. DOMAIN a = 1 .. Len(a) /\ DOMAIN b = 1 .. Len(b)
  OBVIOUS
<1>3. ASSUME NEW i \in DOMAIN (a \o b)
      PROVE  (a \o b)[i] \in Range(a) \cup Range(b)
  <2>1. CASE i \in 1 .. Len(a)
    BY <1>1, <1>2, <2>1 DEF Range
  <2>2. CASE i \in Len(a) + 1 .. Len(a) + Len(b)
    <3>1. i - Len(a) \in DOMAIN b
      BY <1>1, <1>2, <2>2
    <3> QED BY <1>1, <2>2, <3>1 DEF Range
  <2> QED BY <1>1, <2>1, <2>2
<1> QED BY <1>3 DEF Range

\* Objects with types, made where nothing in use is, refer to objects with types.
LEMMA AllocatedTyped ==
  ASSUME MemoryInv, TypesOK, NEW contents,
         Len(contents) \in Nat \ {0}, DOMAIN contents = 1 .. Len(contents),
         Len(contents) <= Cardinality(Free),
         \A i \in 1 .. Len(contents) :
           /\ IsObject(contents[i], TypedObjects \cup -Len(contents) .. -1)
           /\ contents[i].type \in KnownTypes,
         heap' = Allocated(contents)
  PROVE  /\ Range(GC_alloc(1)) \subseteq TypedObjects'
         /\ TypedObjects \subseteq TypedObjects'
         /\ \A o \in TypedObjects' : Range(heap'[o].refs) \subseteq TypedObjects'
<1> DEFINE n == Len(contents)
           new == GC_alloc(n)
           Target(r) == IF r \in Int /\ r < 0 THEN new[-r] ELSE r
           refs(c) == [x \in DOMAIN c.refs |-> Target(c.refs[x])]
           at(o) == CHOOSE j \in DOMAIN new : new[j] = o
           made(o) == [contents[at(o)] EXCEPT !.refs = refs(contents[at(o)])]
<1>1. new \in Seq(Free) /\ DOMAIN new = 1 .. n /\ Free \subseteq Objects
  BY AllocTakesFree DEF Free
<1>2. heap' = [o \in Objects |-> IF o \in Range(new) THEN made(o) ELSE heap[o]]
  BY DEF Allocated
<1>3. Range(GC_alloc(1)) \subseteq Range(new)
  <2> DEFINE pick(i) == CHOOSE o \in Free : Cardinality({q \in Free : q < o}) = i - 1
  <2>1. new = [i \in 1 .. n |-> pick(i)] /\ GC_alloc(1) = [i \in 1 .. 1 |-> pick(i)]
    BY DEF GC_alloc
  <2> HIDE DEF pick, new
  <2>2. 1 \in 1 .. n /\ DOMAIN GC_alloc(1) = 1 .. 1 /\ GC_alloc(1)[1] = new[1]
    BY <2>1
  <2> QED BY <1>1, <2>2 DEF Range
<1>4. Range(new) \subseteq Objects
  BY <1>1 DEF Range
<1>5. ASSUME NEW o \in Range(new)
      PROVE  /\ made(o).type \in KnownTypes
             /\ \A x \in DOMAIN made(o).refs :
                  made(o).refs[x] \in TypedObjects \cup Range(new)
  <2>1. \E j \in DOMAIN new : new[j] = o
    BY DEF Range
  <2> HIDE DEF new
  <2>2. at(o) \in 1 .. n
    BY <1>1, <2>1
  <2> DEFINE c == contents[at(o)]
  <2>3. IsObject(c, TypedObjects \cup -n .. -1) /\ c.type \in KnownTypes
    BY <2>2
  <2> HIDE DEF at
  <2>4. \A x \in DOMAIN c.refs : Target(c.refs[x]) \in TypedObjects \cup Range(new)
    <3> SUFFICES ASSUME NEW x \in DOMAIN c.refs
                 PROVE  Target(c.refs[x]) \in TypedObjects \cup Range(new)
      OBVIOUS
    <3>1. c.refs[x] \in TypedObjects \/ c.refs[x] \in -n .. -1
      BY <2>3 DEF IsObject
    <3>2. CASE c.refs[x] \in TypedObjects
      <4>1. ~(c.refs[x] \in Int /\ c.refs[x] < 0)
        BY <3>2, MaxObjectsAssumption DEF TypedObjects, Objects
      <4> QED BY <3>2, <4>1
    <3>3. CASE c.refs[x] \in -n .. -1
      <4>1. c.refs[x] \in Int /\ c.refs[x] < 0 /\ -c.refs[x] \in 1 .. n
        BY <3>3
      <4>2. new[-c.refs[x]] \in Range(new)
        BY <1>1, <4>1 DEF Range
      <4> QED BY <4>1, <4>2
    <3> QED BY <3>1, <3>2, <3>3
  <2>5. c = [type |-> c.type, value |-> c.value, refs |-> c.refs]
    BY <2>3 DEF IsObject
  <2> HIDE DEF Target, c
  <2>6. made(o) = [type |-> c.type, value |-> c.value, refs |-> refs(c)]
    BY <2>5 DEF c
  <2> QED BY <2>3, <2>4, <2>6
<1> HIDE DEF new, made
<1>6. \A o \in Objects : heap'[o] = IF o \in Range(new) THEN made(o) ELSE heap[o]
  BY <1>2
<1>7. TypedObjects' = {o \in Objects : heap'[o].type \in KnownTypes}
      /\ TypedObjects = {o \in Objects : heap[o].type \in KnownTypes}
  BY DEF TypedObjects, KnownTypes
<1>8. Range(new) \subseteq TypedObjects' /\ TypedObjects \subseteq TypedObjects'
  BY <1>4, <1>5, <1>6, <1>7
<1>9. ASSUME NEW o \in TypedObjects'
      PROVE  Range(heap'[o].refs) \subseteq TypedObjects'
  <2>1. CASE o \in Range(new)
    BY <1>4, <1>5, <1>6, <1>8, <2>1 DEF Range
  <2>2. CASE o \notin Range(new)
    BY <1>6, <1>7, <1>8, <2>2 DEF TypesOK
  <2> QED BY <2>1, <2>2
<1> QED BY <1>3, <1>8, <1>9

\* A step that makes objects of known types
LEMMA TypedMade ==
  ASSUME MemoryInv, TypesOK, NEW n \in Nat, NEW contents, Replace(n, contents),
         Len(contents) \in Nat \ {0}, DOMAIN contents = 1 .. Len(contents),
         \A i \in 1 .. Len(contents) :
           /\ IsObject(contents[i], TypedObjects \cup -Len(contents) .. -1)
           /\ contents[i].type \in KnownTypes
  PROVE  TypesOK'
<1>1. /\ Len(contents) <= Cardinality(Free)
      /\ heap' = Allocated(contents) /\ stack' = GC_alloc(1) \o After(n)
      /\ UNCHANGED <<parameters, scopes>>
  BY DEF Replace, Continue, Goto, self
<1>2. /\ Range(GC_alloc(1)) \subseteq TypedObjects'
      /\ TypedObjects \subseteq TypedObjects'
      /\ \A o \in TypedObjects' : Range(heap'[o].refs) \subseteq TypedObjects'
  BY <1>1, AllocatedTyped
<1>3. Range(stack') \subseteq Range(GC_alloc(1)) \cup Range(After(n))
  <2> DEFINE a == GC_alloc(1)
             b == After(n)
  <2>1. a \in Seq(Free)
    <3>1. Free \in SUBSET Objects /\ IsFiniteSet(Free)
      BY FreeIsFinite
    <3>2. 1 <= Cardinality(Free)
      BY <1>1, <3>1, FS_CardinalityType
    <3> QED BY <3>2, AllocTakesFree
  <2>2. b \in Seq(Objects)
    BY StackSound
  <2>3. stack' = a \o b
    BY <1>1
  <2> HIDE DEF a, b
  <2>4. Range(a \o b) \subseteq Range(a) \cup Range(b)
    BY <2>1, <2>2, JoinedRange
  <2> QED BY <2>3, <2>4 DEF a, b
<1>4. Range(After(n)) \subseteq TypedObjects
  BY StackKnown
<1>5. Known \subseteq Known'
  BY <1>2 DEF Known
<1>6. (Range(stack) \cup Range(parameters) \subseteq Known)'
      /\ ScopesKnown(scopes)'
  BY <1>1, <1>2, <1>3, <1>4, <1>5, KnownNow DEF ScopesKnown, Known
<1>7. (Roots \subseteq TypedObjects)'
  BY <1>6 DEF Roots, Known, ScopesKnown
<1> QED BY <1>2, <1>7 DEF TypesOK

\* An instruction that leaves one object with a type on the data stack keeps types.
LEMMA OneTypedMade ==
  ASSUME MemoryInv, TypesOK, NEW n \in Nat, NEW c, IsObject(c, TypedObjects),
         c.type \in KnownTypes, Replace(n, <<c>>)
  PROVE  TypesOK'
<1> DEFINE contents == <<c>>
<1>1. Len(contents) = 1 /\ DOMAIN contents = 1 .. 1 /\ contents[1] = c
  OBVIOUS
<1>2. IsObject(c, TypedObjects \cup -1 .. -1)
  BY DEF IsObject
<1> HIDE DEF contents
<1>3. Replace(n, contents)
  BY DEF contents
<1>4. Len(contents) \in Nat \ {0} /\ DOMAIN contents = 1 .. Len(contents)
      /\ \A i \in 1 .. Len(contents) :
           /\ IsObject(contents[i], TypedObjects \cup -Len(contents) .. -1)
           /\ contents[i].type \in KnownTypes
  BY <1>1, <1>2
<1> QED BY <1>3, <1>4, TypedMade

\* Types that are known
LEMMA TypesAre ==
  {Type.INTEGER, Type.UNSIGNED_INTEGER, Type.REAL, Type.BOOL, Type.BYTE,
     Type.STRING, Type.COMPONENT, Type.STRUCT, Type.ANY} \subseteq KnownTypes
BY DEF Type, KnownTypes, Range

\* Arithmetic gives a number.
LEMMA ResultTypeKnown ==
  ASSUME NEW a, NEW b, TypedObject_isNumber(a), TypedObject_isNumber(b)
  PROVE  ResultType(a, b) \in KnownTypes
<1> DEFINE order == <<Type.REAL, Type.UNSIGNED_INTEGER, Type.INTEGER, Type.BYTE>>
           First(i) == /\ order[i] \in {a.type, b.type}
                       /\ \A j \in 1 .. i - 1 : order[j] \notin {a.type, b.type}
           k == CHOOSE i \in DOMAIN order : First(i)
<1>1. DOMAIN order = 1 .. 4 /\ order[1] = Type.REAL
      /\ order[2] = Type.UNSIGNED_INTEGER /\ order[3] = Type.INTEGER
      /\ order[4] = Type.BYTE
  OBVIOUS
<1>2. \A i \in 1 .. 4 : order[i] \in KnownTypes
  BY <1>1, TypesAre
<1>3. \E i \in 1 .. 4 : order[i] = a.type
  BY <1>1 DEF TypedObject_isNumber, NumberTypes
<1> HIDE DEF order
<1>4. \E i \in 1 .. 4 : First(i)
  <2> DEFINE S == {i \in 1 .. 4 : order[i] \in {a.type, b.type}}
  <2>1. S \in SUBSET Nat /\ S # {}
    BY <1>3
  <2>2. PICK i \in S : \A j \in S : i <= j
    BY <2>1, NatMin
  <2> QED BY <2>2
<1>5. k \in 1 .. 4
  BY <1>1, <1>4
<1> QED BY <1>2, <1>5 DEF ResultType, order

\* What a return leaves: the scopes below that of the procedure, which stays
\* if there were scopes above it.
LEMMA ReturnScopes ==
  ASSUME NEW s, ScopesOK(s), NEW name, Holding(s, name) # {}
  PROVE  LET k == Innermost(Holding(s, name))
             t == ScopeStack_exitScope(ScopeStack_exitTo(s, name))
         IN /\ k \in Holding(s, name) /\ \A j \in Holding(s, name) : k <= j
            /\ ScopesOK(t) /\ Outer(s, t) /\ Len(t) \in Nat
            /\ Len(t) = IF k = 1 THEN Len(s) - 1 ELSE Len(s) + 1 - k
<1> DEFINE held == Holding(s, name)
           u == ScopeStack_exitTo(s, name)
           t == ScopeStack_exitScope(u)
<1>1. PICK L : s \in Seq(L)
  BY DEF ScopesOK
<1>2. Len(s) \in Nat /\ held \in SUBSET (1 .. Len(s)) /\ held \in SUBSET Int
  BY <1>1 DEF Holding
<1>h. held # {}
  OBVIOUS
<1>e. ScopeStack_exitTo(s, name) =
        IF Innermost(held) - 2 > 0
          THEN SubSeq(s, Innermost(held) - 2 + 1, Len(s)) ELSE s
  BY DEF ScopeStack_exitTo
<1> HIDE DEF held
<1>3. PICK k \in held : \A j \in held : k <= j
  BY <1>1, <1>2, <1>h, InnermostExists
<1>4. Innermost(held) = k
  BY <1>2, <1>3, InnermostIs
<1>5. k \in 1 .. Len(s)
  BY <1>2
<1>6. ScopesOK(u) /\ Outer(s, u)
      /\ Len(u) = IF k > 2 THEN Len(s) - (k - 2) ELSE Len(s)
  <2>1. CASE k > 2
    <3> DEFINE n == k - 2
    <3>1. n \in Nat /\ n <= Len(s) /\ n > 0 /\ u = SubSeq(s, n + 1, Len(s))
      BY <1>2, <1>4, <1>5, <1>e, <2>1
    <3> HIDE DEF n, u
    <3>2. Len(SubSeq(s, n + 1, Len(s))) = Len(s) - n
      BY <1>1, <1>2, <3>1, SubSeqProperties
    <3>3. ScopesOK(u) /\ Outer(s, u)
      BY <3>1, SuffixSound
    <3> QED BY <2>1, <3>1, <3>2, <3>3 DEF n
  <2>2. CASE ~(k > 2)
    <3>1. ~(k - 2 > 0)
      BY <1>5, <2>2
    <3>2. u = s
      BY <1>4, <1>e, <3>1
    <3> QED BY <2>2, <3>2, OuterReflexive
  <2> QED BY <2>1, <2>2
<1> HIDE DEF u
<1>7. Len(u) \in Nat /\ Len(u) >= 1
  BY <1>2, <1>5, <1>6
<1>8. ScopesOK(t) /\ Outer(u, t) /\ Len(t) <= Len(u)
  BY <1>6, ExitSound
<1>9. Len(t) = Len(u) - 1
  <2>1. PICK K : u \in Seq(K)
    BY <1>6 DEF ScopesOK
  <2>2. u # << >>
    BY <1>7
  <2> QED BY <2>1, <2>2 DEF ScopeStack_exitScope
<1> HIDE DEF t
<1>10. Outer(s, t)
  BY <1>6, <1>8, OuterTransitive
<1>11. Len(t) \in Nat /\ Len(t) = IF k = 1 THEN Len(s) - 1 ELSE Len(s) + 1 - k
  BY <1>2, <1>5, <1>6, <1>7, <1>9
<1> QED BY <1>3, <1>4, <1>8, <1>10, <1>11 DEF t, u, held


\* Scopes, declarations and assignments keep types.
LEMMA TypedScopeSteps ==
  ASSUME MemoryInv, TypesOK, Executable, EnterScope \/ ExitScope \/ Declare \/ Store
  PROVE  TypesOK'
<1>1. heap' = heap /\ parameters' = parameters /\ ScopesOK(scopes)
      /\ ScopesKnown(scopes) /\ Range(parameters) \subseteq Known
      /\ (stack' = stack \/ stack' = After(1))
  BY KnownNow DEF EnterScope, ExitScope, Declare, Store, Rescope, self, MemoryInv
<1>2. Range(stack') \cup Range(parameters') \subseteq Known
  BY <1>1, KnownNow, StackKnown DEF Known
<1>3. ScopesKnown(scopes')
  <2>1. CASE EnterScope
    BY <1>1, <2>1, EnteredKnown DEF EnterScope, Rescope
  <2>2. CASE ExitScope
    <3> DEFINE t == ScopeStack_exitScope(scopes)
    <3>1. ScopesOK(t) /\ Outer(scopes, t) /\ Len(t) <= Len(scopes) /\ scopes' = t
      BY <1>1, <2>2, ExitSound DEF ExitScope, Rescope
    <3> HIDE DEF t
    <3> QED BY <1>1, <3>1, LeftKnown
  <2>3. CASE Declare
    <3> DEFINE level == ListMap_declare(scopes[1], Name)
    <3>1. scopes # << >>
      BY <2>3, Runs DEF Crashes, Declare, Executes
    <3>2. scopes' = [scopes EXCEPT ![1] = level]
      BY <2>3 DEF Declare, Rescope, ScopeStack_declare
    <3>3. /\ DOMAIN level = DOMAIN scopes[1] \cup {Name}
          /\ \A x \in DOMAIN scopes[1] : level[x] = scopes[1][x]
          /\ Name \notin DOMAIN scopes[1] => level[Name] = NULL
      BY DEF ListMap_declare, ListMap_get
    <3> HIDE DEF level
    <3>4. 1 \in DOMAIN scopes
      BY <1>1, <3>1, ScopesFrom DEF ScopesOK
    <3>5. Variables(level) \subseteq Known
      BY <1>1, <3>3, <3>4 DEF Variables, ScopesKnown, Known
    <3> QED BY <1>1, <3>2, <3>5 DEF ScopesKnown
  <2>4. CASE Store
    <3> DEFINE k == Innermost(Declaring(scopes, Name))
               level == [scopes[k] EXCEPT ![Name] = Stack_pop(1)]
    <3>1. scopes' = [scopes EXCEPT ![k] = level]
      BY <2>4 DEF Store, ScopeStack_store, ListMap_put
    <3>2. Stack_pop(1) \in Known
      BY StackKnown
    <3>3. k \in DOMAIN scopes => Variables(level) \subseteq Known
      BY <1>1, <3>2 DEF Variables, ScopesKnown
    <3> HIDE DEF k, level
    <3> QED BY <1>1, <3>1, <3>3 DEF ScopesKnown
  <2> QED BY <2>1, <2>2, <2>3, <2>4
<1> QED BY <1>1, <1>2, <1>3, TypesStay

\* LOAD and the load from a struct push what was there.
LEMMA TypedLoads ==
  ASSUME MemoryInv, TypesOK, Executable, Load \/ StructLoad
  PROVE  TypesOK'
<1>1. UNCHANGED <<heap, parameters, scopes>>
  BY DEF Load, StructLoad, Restack, self
<1>2. PICK o \in TypedObjects, n \in {0, 1} : stack' = <<o>> \o (IF n = 0 THEN stack ELSE After(1))
  <2>1. CASE Load
    <3> DEFINE value == ScopeStack_load(scopes, Name)
    <3>1. value # NULL /\ Name \notin {RETURN_ADDRESS, RETURN_SOURCE}
      BY <2>1, Runs, Reading DEF Refuses, Load, Executes
    <3>2. PICK k \in Holding(scopes, Name) :
            value = scopes[k][Name]
      <4>1. Holding(scopes, Name) # {}
        BY <3>1 DEF ScopeStack_load
      <4>2. Holding(scopes, Name) \in SUBSET Nat
        BY ScopesFrom DEF Holding, MemoryInv
      <4>3. PICK k \in Holding(scopes, Name) :
              \A j \in Holding(scopes, Name) : k <= j
        BY <4>1, <4>2, NatMin
      <4>4. Holding(scopes, Name) \in SUBSET Int
        BY <4>2
      <4>5. Innermost(Holding(scopes, Name)) = k
        BY <4>3, <4>4, InnermostIs
      <4> QED BY <4>1, <4>5 DEF ScopeStack_load
    <3>3. value \in Variables(scopes[k]) /\ k \in DOMAIN scopes
      BY <3>1, <3>2 DEF Variables, Holding, ListMap_get
    <3>4. value \in TypedObjects
      BY <3>1, <3>3, KnownNow DEF ScopesKnown, Known
    <3>5. stack' = <<value>> \o stack
      BY <2>1 DEF Load, Restack
    <3> HIDE DEF value
    <3> QED BY <3>4, <3>5
  <2>2. CASE StructLoad
    <3>1. stack # << >> /\ ListMap_get(Top.refs, Field) # NULL
      BY <2>2, Runs DEF Crashes, Refuses, StructLoad, Executes
    <3>2. stack[1] \in TypedObjects
      <4>1. 1 \in DOMAIN stack
        BY <3>1 DEF MemoryInv
      <4> QED BY <4>1, StackKnown
    <3>3. Top.refs[Field] \in TypedObjects
      BY <3>1, <3>2 DEF ListMap_get, TypesOK, Top, Range
    <3> QED BY <2>2, <3>3 DEF StructLoad, Restack
  <2> QED BY <2>1, <2>2
<1> DEFINE rest == IF n = 0 THEN stack ELSE After(1)
<1>3. rest \in Seq(Objects) /\ Range(rest) \subseteq Known
  BY StackKnown, StackSound, KnownNow DEF Known, MemoryInv
<1> HIDE DEF rest
<1>4. Range(<<o>> \o rest) \subseteq Known
  <2> DEFINE a == <<o>>
  <2>1. a \in Seq(TypedObjects) /\ Range(a) \subseteq Known
    BY DEF Range, Known
  <2> HIDE DEF a
  <2>2. Range(a \o rest) \subseteq Range(a) \cup Range(rest)
    BY <1>3, <2>1, JoinedRange
  <2> QED BY <1>3, <2>1, <2>2 DEF a
<1>5. Range(stack') \cup Range(parameters') \subseteq Known
  BY <1>1, <1>2, <1>4, KnownNow DEF rest
<1>6. ScopesKnown(scopes')
  BY <1>1, KnownNow
<1> QED BY <1>1, <1>5, <1>6, TypesStay

\* A value without references has the type it is made with.
LEMMA PlainIsTyped ==
  ASSUME NEW type \in KnownTypes, NEW value
  PROVE  LET c == TypedObject_construct(type, value)
         IN IsObject(c, TypedObjects) /\ c.type \in KnownTypes
BY PlainIsObject DEF TypedObject_construct

\* Literals, expressions and CALL make objects with types.
LEMMA TypedValues ==
  ASSUME MemoryInv, TypesOK, Executable, Push \/ Expression \/ Call
  PROVE  TypesOK'
<1>1. CASE Push
  <2> DEFINE type == ByteAt(Bytes, Operand)
  <2>1. Following # REFUSED /\ Opcode = Op.PUSH
    BY <1>1, Runs DEF Refuses, Push, Executes
  <2>2. IsData(Bytes, Operand)
    <3>1. AfterOperands(Bytes, Operand, Op.PUSH)
            = IF IsData(Bytes, Operand) THEN AfterData(Bytes, Operand) ELSE REFUSED
      BY DEF AfterOperands, Op
    <3> QED BY <2>1, <3>1 DEF Following
  <2>3. type \in KnownTypes
    BY <2>2, TypesAre DEF IsData
  <2> QED BY <1>1, <2>3, PlainIsTyped, OneTypedMade DEF Push
<1>2. CASE Expression
  <2>1. PICK op \in Expressions :
          /\ Opcode = op
          /\ \E result \in Results(op, heap[stack[2]], Top) : Replace(2, <<result>>)
    BY <1>2 DEF Expression, Executes
  <2> DEFINE a == heap[stack[2]]
  <2>2. Accepts(op, a, Top)
    BY <2>1, Runs DEF Refuses
  <2>3. PICK result \in Results(op, a, Top) : Replace(2, <<result>>)
    BY <2>1
  <2> HIDE DEF a
  <2>4. \E type \in KnownTypes : \E value :
          result = TypedObject_construct(type, value)
    <3>0. /\ Comparisons \cap Connectives = {} /\ Arithmetic \cap Connectives = {}
          /\ Arithmetic \cap Comparisons = {}
      BY DEF Comparisons, Connectives, Arithmetic, Op
    <3>1. CASE op \in Comparisons \/ op \in Connectives
      <4>1. \/ result = Truth(Compares(op, a.value, Top.value))
            \/ result = Truth(Connects(op, a.value, Top.value))
        BY <3>0, <3>1 DEF Results
      <4>2. Type.BOOL \in KnownTypes
        BY TypesAre
      <4> QED BY <4>1, <4>2 DEF Truth
    <3>2. CASE op \in Arithmetic
      <4>1. ResultType(a, Top) \in KnownTypes
        BY <2>2, <3>0, <3>2, ResultTypeKnown DEF Accepts
      <4> QED BY <3>0, <3>2, <4>1 DEF Results
    <3> QED BY <2>1, <3>1, <3>2 DEF Expressions
  <2> QED BY <2>3, <2>4, PlainIsTyped, OneTypedMade
<1>3. CASE Call
  <2>1. Type.COMPONENT \in KnownTypes
    BY TypesAre
  <2> DEFINE n == CountAt(Bytes, Following - 1)
  <2>2. n \in Nat /\ Replace(n, <<TypedObject_construct(Type.COMPONENT, Name)>>)
    BY <1>3, Reading DEF Call
  <2> HIDE DEF n
  <2> QED BY <2>1, <2>2, PlainIsTyped, OneTypedMade
<1> QED BY <1>1, <1>2, <1>3

\* NOT makes a truth value.
LEMMA TypedNot ==
  ASSUME MemoryInv, TypesOK, Executable, Not
  PROVE  TypesOK'
<1>1. stack # << >> /\ Opcode = Op.NOT
  BY Runs DEF Refuses, Not, Executes
<1> DEFINE o == stack[1]
<1>2. o \in Objects
  BY <1>1, StackSound
<1>3. /\ UNCHANGED <<parameters, stack, scopes>>
      /\ heap' = [heap EXCEPT ![o].value = 1 - @]
  BY DEF Not, Continue, Goto, self
<1> DEFINE c == heap[o]
           d == [c EXCEPT !.value = 1 - @]
<1>4. HeapOK(heap) /\ c = [type |-> c.type, value |-> c.value, refs |-> c.refs]
  BY <1>2 DEF MemoryInv, HeapOK, IsObject
<1>5. d.type = c.type /\ d.refs = c.refs
  BY <1>4
<1>6. heap' = [heap EXCEPT ![o] = d]
  BY <1>3
<1> HIDE DEF o, d
<1>7. \A p \in Objects : heap'[p].type = heap[p].type /\ heap'[p].refs = heap[p].refs
  BY <1>2, <1>4, <1>5, <1>6 DEF HeapOK
<1>8. TypedObjects' = TypedObjects
  BY <1>7 DEF TypedObjects
<1>9. Roots' = Roots
  BY <1>3 DEF Roots
<1> QED BY <1>7, <1>8, <1>9 DEF TypesOK, TypedObjects

\* ANY and STRUCT make objects that refer to typed ones.
LEMMA TypedContainers ==
  ASSUME MemoryInv, TypesOK, Executable, AnyType \/ StructConstructor
  PROVE  TypesOK'
<1>1. CASE AnyType
  <2> DEFINE refs == IF stack = << >> THEN << >> ELSE [x \in {CONTENT} |-> stack[1]]
  <2>1. Replace(1, <<Container(Type.ANY, refs)>>)
    BY <1>1 DEF AnyType
  <2>2. \A x \in DOMAIN refs : refs[x] \in TypedObjects
    <3>1. CASE stack = << >>
      <4>1. refs = << >> /\ DOMAIN << >> = {}
        BY <3>1
      <4> HIDE DEF refs
      <4> QED BY <4>1
    <3>2. CASE stack # << >>
      <4>1. refs = [x \in {CONTENT} |-> stack[1]]
        BY <3>2
      <4>2. 1 \in DOMAIN stack
        BY <3>2 DEF MemoryInv
      <4>3. stack[1] \in TypedObjects
        BY <4>2, StackKnown
      <4> HIDE DEF refs
      <4> QED BY <4>1, <4>3
    <3> QED BY <3>1, <3>2
  <2> HIDE DEF refs
  <2>3. IsObject(Container(Type.ANY, refs), TypedObjects)
        /\ Container(Type.ANY, refs).type \in KnownTypes
    BY <2>2, TypesAre DEF IsObject, Container
  <2> QED BY <2>1, <2>3, OneTypedMade
<1>2. CASE StructConstructor
  <2> DEFINE p == pos + 2
             n == CountAt(Bytes, p)
             fields == [i \in 1 .. n |-> ParameterName(Bytes, p, i)]
             e == ListMap_constructor
             s == <<e>>
             t == Bind(s, fields, Popped(n))
             refs == t[1]
  <2>1. Replace(n, <<Container(Type.STRUCT, refs)>>)
    BY <1>2 DEF StructConstructor
  <2>2. n \in Nat /\ ~(Len(stack) < n)
    BY <1>2, Reading, Runs DEF Crashes, StructConstructor, Executes
  <2>3. fields \in Seq(Nat \cup {EOF}) /\ DOMAIN fields = 1 .. n
    BY <2>2, Reading
  <2>a. e = << >> /\ DOMAIN << >> = {}
    BY DEF ListMap_constructor
  <2> HIDE DEF e
  <2>4. /\ s \in Seq({e}) /\ s # << >> /\ s[1] = e
    OBVIOUS
  <2>b. DOMAIN s[1] = {} /\ \E L : s \in Seq(L)
    BY <2>a, <2>4
  <2> HIDE DEF fields, s, n
  <2>5. /\ DOMAIN t[1] = DOMAIN s[1] \cup Range(fields)
        /\ \A x \in Range(fields) :
             \E i \in DOMAIN fields : fields[i] = x /\ t[1][x] = Popped(n)[i]
    <3> DEFINE N == Nat \cup {EOF}
    <3>1. fields \in Seq(N)
      BY <2>3
    <3> HIDE DEF N
    <3>2. s # << >> /\ \E L : s \in Seq(L)
      BY <2>4, <2>b
    <3> QED BY <3>1, <3>2, BindSound
  <2>6. \A i \in 1 .. n : Popped(n)[i] \in TypedObjects
    <3>1. stack \in Seq(Objects)
      BY DEF MemoryInv
    <3>2. \A i \in 1 .. n : i \in DOMAIN stack
      BY <2>2, <3>1
    <3> QED BY <3>2, StackKnown DEF Popped, Stack_pop
  <2>7. \A x \in DOMAIN refs : refs[x] \in TypedObjects
    BY <2>3, <2>b, <2>5, <2>6
  <2> HIDE DEF refs
  <2>8. IsObject(Container(Type.STRUCT, refs), TypedObjects)
        /\ Container(Type.STRUCT, refs).type \in KnownTypes
    BY <2>7, TypesAre DEF IsObject, Container
  <2> QED BY <2>1, <2>2, <2>8, OneTypedMade
<1> QED BY <1>1, <1>2

\* A message brings typed objects.
LEMMA TypedReceive ==
  ASSUME MemoryInv, TypesOK, Receive,
         \A m \in program.messages : \A i \in DOMAIN m : Typed(m[i])
  PROVE  TypesOK'
<1>1. PICK m \in program.messages : Replace(0, m)
  BY DEF Receive
<1>2. /\ Len(m) \in Nat \ {0} /\ DOMAIN m = 1 .. Len(m)
      /\ \A i \in 1 .. Len(m) : IsObject(m[i], {NULL} \cup -Len(m) .. -1)
  BY ProgramsAssumption DEF MemoryInv
<1>3. ASSUME NEW i \in 1 .. Len(m)
      PROVE  /\ IsObject(m[i], TypedObjects \cup -Len(m) .. -1)
             /\ m[i].type \in KnownTypes
  <2>1. IsObject(m[i], {NULL} \cup -Len(m) .. -1)
    BY <1>2
  <2>2. Typed(m[i])
    BY <1>2
  <2> QED BY <2>1, <2>2 DEF IsObject, Typed, KnownTypes
<1> QED BY <1>1, <1>2, <1>3, TypedMade

\* What only pops, or leaves the data alone, keeps types.
LEMMA TypedPops ==
  ASSUME MemoryInv, TypesOK,
         \/ Jump \/ BehaviourJump \/ ElseClause \/ Connect \/ Disconnect
         \/ UnknownByte \/ DeclareChannels \/ Stop \/ StoppedByOther
         \/ Fails \/ End \/ Done \/ UNCHANGED vars
         \/ IfClause \/ Send \/ CallStandard \/ Proc
  PROVE  TypesOK'
<1>1. /\ UNCHANGED <<parameters, heap, scopes>>
      /\ stack' = stack \/ \E n \in Nat : stack' = After(n)
  <2>1. CASE Jump \/ BehaviourJump \/ ElseClause
    BY <2>1 DEF Jump, BehaviourJump, ElseClause, JumpTo, Goto, Continue, self,
                memory
  <2>2. CASE Connect \/ Disconnect \/ UnknownByte
    BY <2>2 DEF Connect, Disconnect, UnknownByte, JumpTo, Goto, self, memory
  <2>3. CASE DeclareChannels \/ Stop \/ Proc
    BY <2>3 DEF DeclareChannels, Stop, Proc, Continue, Goto, memory
  <2>4. CASE StoppedByOther \/ Fails \/ End \/ Done \/ UNCHANGED vars
    BY <2>4 DEF StoppedByOther, Fails, End, Done, self, memory, vars, place
  <2>5. CASE IfClause
    BY <2>5 DEF IfClause, Goto, self
  <2>6. CASE Send
    BY <2>6 DEF Send, Restack, Continue, Goto, self
  <2>7. CASE CallStandard
    <3>1. program.standardFunctions[Name] \in Nat
      BY <2>7, ProgramsAssumption DEF CallStandard, StandardFunction, MemoryInv
    <3> QED BY <2>7, <3>1 DEF CallStandard, Restack, Continue, Goto, self
  <2> QED BY <2>1, <2>2, <2>3, <2>4, <2>5, <2>6, <2>7
<1>2. Range(stack') \cup Range(parameters') \subseteq Known
  BY <1>1, KnownNow, StackKnown DEF Known
<1>3. ScopesKnown(scopes')
  BY <1>1, KnownNow
<1> QED BY <1>1, <1>2, <1>3, TypesStay

\* Popping n values gives the n on top.
LEMMA Popping ==
  ASSUME MemoryInv, NEW n \in Nat
  PROVE  /\ Popped(n) \in Seq(Values) /\ Len(Popped(n)) = n
         /\ \A i \in 1 .. n : Popped(n)[i] = Stack_pop(i)
<1>1. /\ Popped(n) = [i \in 1 .. n |-> Stack_pop(i)]
      /\ \A i \in 1 .. n : Stack_pop(i) \in Values
  BY StackSound DEF Popped
<1> QED BY <1>1

\* What is joined to the names in X goes to what is in K.
LEMMA JoinedMostly ==
  ASSUME NEW S, NEW x \in Seq(S), NEW y \in Seq(S),
         NEW R, NEW z \in Seq(R), NEW w \in Seq(R),
         Len(x) = Len(z), Len(y) = Len(w),
         NEW X, NEW K, \A i \in 1 .. Len(x) : x[i] \in X,
         \A i \in 1 .. Len(w) : w[i] \in K
  PROVE  /\ x \o y \in Seq(S)
         /\ \A i \in DOMAIN (x \o y) : (x \o y)[i] \notin X => (z \o w)[i] \in K
<1>1. x \o y \in Seq(S) /\ DOMAIN (x \o y) = 1 .. Len(x) + Len(y)
      /\ Len(x) \in Nat /\ Len(y) \in Nat
  <2>1. x \o y \in Seq(S)
    OBVIOUS
  <2> QED BY <2>1, Joined
<1>2. ASSUME NEW i \in 1 .. Len(x) + Len(y), (x \o y)[i] \notin X
      PROVE  (z \o w)[i] \in K
  <2>1. CASE i <= Len(x)
    <3>1. i \in 1 .. Len(x) /\ (x \o y)[i] = x[i]
      BY <2>1
    <3> QED BY <3>1, <1>2
  <2>2. CASE i > Len(x)
    <3>1. i - Len(x) \in 1 .. Len(w) /\ (z \o w)[i] = w[i - Len(x)]
      BY <1>1, <2>2
    <3> QED BY <3>1
  <2> QED BY <2>1, <2>2, <1>1
<1> QED BY <1>1, <1>2

\* Names that come from a file are none of those a call uses.
LEMMA ParametersApart ==
  ASSUME NEW p \in Seq(Nat \cup {EOF})
  PROVE  /\ p \in Seq(Int)
         /\ \A i \in 1 .. Len(p) : p[i] \notin {RETURN_ADDRESS, RETURN_SOURCE}
<1>1. \A x \in Nat \cup {EOF} :
        x \in Int /\ x \notin {RETURN_ADDRESS, RETURN_SOURCE}
  BY DEF EOF, RETURN_ADDRESS, RETURN_SOURCE
<1>2. /\ Len(p) \in Nat /\ p = [i \in 1 .. Len(p) |-> p[i]]
      /\ \A i \in 1 .. Len(p) : p[i] \in Nat \cup {EOF}
  OBVIOUS
<1>3. \A i \in 1 .. Len(p) : p[i] \in Int
  BY <1>1, <1>2
<1> QED BY <1>1, <1>2, <1>3

\* component_procCall binds typed values.
LEMMA TypedCallTo ==
  ASSUME MemoryInv, TypesOK, NEW f, NEW procedure,
         procedure.parameters \in Seq(Nat \cup {EOF}), NEW names \in Seq(Int),
         NEW values \in Seq({Following, "own"}), Len(names) = Len(values),
         \A i \in 1 .. Len(names) : names[i] \in {RETURN_ADDRESS, RETURN_SOURCE},
         CallTo(f, procedure, names, values)
  PROVE  TypesOK'
<1> DEFINE p == procedure.parameters
           a == names \o p
           b == values \o Popped(Len(p))
<1>1. /\ heap' = heap /\ parameters' = parameters /\ stack' = After(Len(p))
      /\ scopes' = Bind(ScopeStack_enterScope(scopes), a, b)
  BY DEF CallTo, self
<1>2. /\ a \in Seq(Int)
      /\ \A i \in DOMAIN a :
           a[i] \notin {RETURN_ADDRESS, RETURN_SOURCE} => b[i] \in Known
  <2> DEFINE R == {Following, "own"} \cup Values
             S == Int
             X == {RETURN_ADDRESS, RETURN_SOURCE}
             w == Popped(Len(p))
  <2>1. /\ p \in Seq(S) /\ names \in Seq(S) /\ Len(p) \in Nat
        /\ \A i \in 1 .. Len(names) : names[i] \in X
    BY ParametersApart
  <2>2. w \in Seq(Values) /\ Len(w) = Len(p) /\ \A i \in 1 .. Len(w) : w[i] \in Known
    BY <2>1, Popping, StackKnown
  <2> HIDE DEF p, S, X, w
  <2>3. values \in Seq(R) /\ w \in Seq(R)
    <3> DEFINE A == {Following, "own"}
               B == Values
    <3>1. values \in Seq(A) /\ w \in Seq(B)
      BY <2>2
    <3> HIDE DEF A, B
    <3>2. values \in Seq(A \cup B) /\ w \in Seq(A \cup B)
      BY <3>1
    <3> QED BY <3>2 DEF A, B
  <2> HIDE DEF R
  <2>4. /\ names \o p \in Seq(S)
        /\ \A i \in DOMAIN (names \o p) :
             (names \o p)[i] \notin X => (values \o w)[i] \in Known
    BY <2>1, <2>2, <2>3, JoinedMostly
  <2> QED BY <2>4 DEF S, X, w
<1>3. Len(p) \in Nat
  OBVIOUS
<1> HIDE DEF a, b, p
<1> DEFINE u == ScopeStack_enterScope(scopes)
<1>4. ScopesOK(u) /\ u # << >>
  BY EnterSound DEF MemoryInv
<1>5. ScopesKnown(u)
  BY EnteredKnown, KnownNow DEF MemoryInv
<1> HIDE DEF u
<1>6. ScopesKnown(Bind(u, a, b))
  BY <1>2, <1>4, <1>5, BoundKnown
<1>7. Range(stack') \cup Range(parameters') \subseteq Known
  BY <1>1, <1>3, KnownNow, StackKnown DEF Known
<1> QED BY <1>1, <1>6, <1>7, TypesStay DEF u

\* Calls keep types.
LEMMA TypedCalls ==
  ASSUME MemoryInv, TypesOK, CallOwn \/ CallGlobal
  PROVE  TypesOK'
<1>1. CASE CallOwn
  <2> DEFINE names == <<RETURN_ADDRESS>>
             values == <<Following>>
  <2>1. CallTo(file, procs[Name], names, values)
        /\ procs[Name].parameters \in Seq(Nat \cup {EOF})
    BY <1>1 DEF CallOwn, OwnProcedure, MemoryInv
  <2>2. /\ names \in Seq(Int) /\ values \in Seq({Following, "own"})
        /\ Len(names) = Len(values)
        /\ \A i \in 1 .. Len(names) : names[i] \in {RETURN_ADDRESS, RETURN_SOURCE}
    BY DEF RETURN_ADDRESS, RETURN_SOURCE
  <2> HIDE DEF names, values
  <2> QED BY <2>1, <2>2, TypedCallTo
<1>2. CASE CallGlobal
  <2> DEFINE names == <<RETURN_ADDRESS, RETURN_SOURCE>>
             values == <<Following, "own">>
             q == program.globals[Name].parameters
  <2>1. CallTo("main", program.globals[Name], names, values)
    BY <1>2 DEF CallGlobal
  <2>2. q \in Seq(Nat \cup {EOF})
    <3>1. q \in Seq(Nat)
      BY <1>2, ProgramsAssumption DEF CallGlobal, GlobalProcedure, MemoryInv
    <3> HIDE DEF q
    <3> QED BY <3>1
  <2>3. /\ names \in Seq(Int) /\ values \in Seq({Following, "own"})
        /\ Len(names) = Len(values)
        /\ \A i \in 1 .. Len(names) : names[i] \in {RETURN_ADDRESS, RETURN_SOURCE}
    BY DEF RETURN_ADDRESS, RETURN_SOURCE
  <2> HIDE DEF names, values
  <2> QED BY <2>1, <2>2, <2>3, TypedCallTo
<1> QED BY <1>1, <1>2

\* Returns leave scopes and bring none.
LEMMA TypedReturns ==
  ASSUME MemoryInv, TypesOK, Executable, Return \/ BlockEnd
  PROVE  TypesOK'
<1>1. \/ ProcReturn /\ Holding(scopes, RETURN_ADDRESS) # {}
      \/ UNCHANGED <<self, memory>>
  BY Runs DEF Return, BlockEnd, JumpTo, Executes, Crashes
<1>2. heap' = heap /\ parameters' = parameters /\ stack' = stack
  BY <1>1 DEF ProcReturn, self, memory
<1>3. Range(stack') \cup Range(parameters') \subseteq Known
  BY <1>2, KnownNow
<1>4. ScopesKnown(scopes')
  <2>1. CASE ProcReturn /\ Holding(scopes, RETURN_ADDRESS) # {}
    <3> DEFINE k == Innermost(Holding(scopes, RETURN_ADDRESS))
               t == ScopeStack_exitScope(
                      ScopeStack_exitTo(scopes, RETURN_ADDRESS))
    <3>1. scopes' = t
      BY <2>1 DEF ProcReturn
    <3>2. ScopesOK(scopes) /\ ScopesKnown(scopes)
      BY KnownNow DEF MemoryInv
    <3>3. /\ k \in Holding(scopes, RETURN_ADDRESS)
          /\ ScopesOK(t) /\ Outer(scopes, t) /\ Len(t) \in Nat
          /\ Len(t) = IF k = 1 THEN Len(scopes) - 1 ELSE Len(scopes) + 1 - k
      BY <2>1, <3>2, ReturnScopes
    <3>4. k \in 1 .. Len(scopes) /\ Len(scopes) \in Nat
      BY <3>2, <3>3, ScopesFrom DEF Holding
    <3> HIDE DEF k, t
    <3>5. Len(t) <= Len(scopes)
      BY <3>3, <3>4
    <3> QED BY <3>1, <3>2, <3>3, <3>5, LeftKnown
  <2>2. CASE UNCHANGED <<self, memory>>
    BY <2>2, KnownNow DEF memory
  <2> QED BY <1>1, <2>1, <2>2
<1> QED BY <1>2, <1>3, <1>4, TypesStay

\* The type of what a project is about is known.
LEMMA ProjectedKnown ==
  ASSUME MemoryInv, TypesOK, Executable, Opcode = Op.PROJECT_ENTRY
  PROVE  Top.refs[CONTENT] \in TypedObjects /\ ProjectedType \in KnownTypes
<1>1. stack # << >> /\ CONTENT \in DOMAIN Top.refs
  BY Runs DEF Crashes
<1>2. stack[1] \in TypedObjects
  <2>1. 1 \in DOMAIN stack
    BY <1>1 DEF MemoryInv
  <2> QED BY <2>1, StackKnown
<1>3. Top.refs[CONTENT] \in TypedObjects
  BY <1>1, <1>2 DEF TypesOK, Top, Range
<1> QED BY <1>3 DEF TypedObjects, ProjectedType, KnownTypes

\* Projects bind what an any value holds.
LEMMA TypedProjects ==
  ASSUME MemoryInv, TypesOK, Executable, ProjectEntry \/ ProjectExit
  PROVE  TypesOK'
<1>1. heap' = heap /\ parameters' = parameters
      /\ (stack' = stack \/ stack' = After(1))
  BY DEF ProjectEntry, ProjectExit
<1>2. Range(stack') \cup Range(parameters') \subseteq Known
  BY <1>1, KnownNow, StackKnown DEF Known
<1>3. ScopesKnown(scopes')
  <2>1. CASE ProjectEntry
    <3> DEFINE value == Top.refs[CONTENT]
               names == <<Name>>
               values == <<value>>
               u == ScopeStack_enterScope(scopes)
    <3>1. value \in Known
      BY <2>1, ProjectedKnown DEF ProjectEntry, Executes, Known
    <3>2. scopes' = Bind(u, names, values)
      BY <2>1 DEF ProjectEntry
    <3>3. ScopesOK(u) /\ u # << >> /\ ScopesKnown(u)
      BY EnterSound, EnteredKnown, KnownNow DEF MemoryInv
    <3> HIDE DEF u, value
    <3>4. names \in Seq({Name}) /\ \A i \in DOMAIN names : values[i] \in Known
      BY <3>1
    <3> HIDE DEF names, values
    <3> QED BY <3>2, <3>3, <3>4, BoundKnown
  <2>2. CASE ProjectExit
    <3> DEFINE t == ScopeStack_exitScope(scopes)
    <3>1. ScopesOK(scopes) /\ ScopesKnown(scopes)
      BY KnownNow DEF MemoryInv
    <3>2. ScopesOK(t) /\ Outer(scopes, t) /\ Len(t) <= Len(scopes) /\ scopes' = t
      BY <2>2, <3>1, ExitSound DEF ProjectExit
    <3> HIDE DEF t
    <3> QED BY <3>1, <3>2, LeftKnown
  <2> QED BY <2>1, <2>2
<1> QED BY <1>1, <1>2, <1>3, TypesStay

\* A constructor binds typed parameters.
LEMMA TypedConstruct ==
  ASSUME MemoryInv, TypesOK, Executable, Construct
  PROVE  TypesOK'
<1> DEFINE names == ConstructorNames(FittingConstructor)
<1>1. /\ heap' = heap /\ stack' = stack /\ parameters' = << >>
      /\ scopes' = IF parameters = << >> THEN scopes
                   ELSE Bind(scopes, names, parameters)
      /\ Opcode = Op.CONSTRUCTOR
  BY DEF Construct, Goto, Executes
<1>2. Range(stack') \cup Range(parameters') \subseteq Known
  <2>1. DOMAIN << >> = {}
    OBVIOUS
  <2> QED BY <1>1, <2>1, KnownNow DEF Range
<1>3. ScopesKnown(scopes')
  <2>1. CASE parameters = << >>
    BY <1>1, <2>1, KnownNow
  <2>2. CASE parameters # << >>
    <3>1. scopes # << >>
      BY <1>1, <2>2, Runs DEF Crashes
    <3>2. parameters \in Seq(Objects) /\ DOMAIN parameters = 1 .. Len(parameters)
          /\ Len(parameters) \in Nat
      BY DEF MemoryInv
    <3> DEFINE N == Nat \cup {EOF}
    <3>3. names = [i \in 1 .. Len(parameters) |-> names[i]]
          /\ \A i \in 1 .. Len(parameters) : names[i] \in N
      BY <3>2, Reading DEF ConstructorNames
    <3>4. scopes' = Bind(scopes, names, parameters)
      BY <1>1, <2>2
    <3> HIDE DEF names, N
    <3>5. names \in Seq(N) /\ DOMAIN names = DOMAIN parameters
      BY <3>2, <3>3
    <3>6. \A i \in DOMAIN names : parameters[i] \in Known
      BY <3>5, KnownNow DEF Range
    <3>7. ScopesOK(scopes) /\ ScopesKnown(scopes)
      BY KnownNow DEF MemoryInv
    <3> QED BY <3>1, <3>4, <3>5, <3>6, <3>7, BoundKnown
  <2> QED BY <2>1, <2>2
<1> QED BY <1>1, <1>2, <1>3, TypesStay

\* What the constructor and the channels are given
TypedFromOutside ==
  \A p \in Programs :
    /\ \A i \in DOMAIN p.arguments : Typed(p.arguments[i])
    /\ \A m \in p.messages : \A i \in DOMAIN m : Typed(m[i])

\* What a component is given when it starts has types.
LEMMA TypesAtFirst == TypedFromOutside /\ Init => TypesOK
<1> SUFFICES ASSUME TypedFromOutside, Init PROVE TypesOK
  OBVIOUS
<1>1. PICK n \in 0 .. MaxObjects :
        /\ DOMAIN program.arguments = 1 .. n
        /\ \A i \in 1 .. n : IsObject(program.arguments[i], {NULL} \cup 1 .. n)
  BY ProgramsAssumption DEF Init
<1>2. 1 .. n \subseteq Objects
  BY MaxObjectsAssumption DEF Objects
<1>3. \A i \in 1 .. n : Typed(program.arguments[i])
  BY <1>1 DEF TypedFromOutside, Init
<1>4. \A o \in Objects : heap[o] = IF o \in 1 .. n THEN program.arguments[o]
                                   ELSE NoObject
  BY <1>1 DEF Init
<1>5. NoObject.type = Type.UNKNOWN
  BY DEF NoObject, TypedObject_construct
<1>6. TypedObjects = 1 .. n
  BY <1>2, <1>3, <1>4, <1>5 DEF TypedObjects, Typed
<1>7. \A o \in TypedObjects : Range(heap[o].refs) \subseteq TypedObjects
  <2>1. ASSUME NEW o \in 1 .. n, NEW x \in DOMAIN heap[o].refs
        PROVE  heap[o].refs[x] \in 1 .. n
    <3>1. heap[o] = program.arguments[o]
      BY <1>2, <1>4
    <3>2. /\ heap[o].refs[x] \in {NULL} \cup 1 .. n
          /\ heap[o].refs[x] # NULL
      BY <1>1, <1>3, <3>1 DEF Typed, IsObject
    <3> QED BY <3>2
  <2> QED BY <1>6, <2>1 DEF Range
<1>8. Roots \subseteq TypedObjects
  <2>1. Range(parameters) \subseteq 1 .. n
    BY <1>1 DEF Init, Range
  <2>2. Range(stack) = {} /\ DOMAIN scopes = {}
    BY DEF Init, Range
  <2> QED BY <1>6, <2>1, <2>2 DEF Roots
<1> QED BY <1>7, <1>8 DEF TypesOK

\* Every step keeps types.
LEMMA TypesStep ==
  ASSUME TypedFromOutside, MemoryInv, TypesOK, [Next]_vars
  PROVE  TypesOK'
<1>1. CASE Executable /\ Instruction
  <2>1. CASE EnterScope \/ ExitScope \/ Declare \/ Store
    BY <1>1, <2>1, TypedScopeSteps
  <2>2. CASE Load \/ StructLoad
    BY <1>1, <2>2, TypedLoads
  <2>3. CASE Push \/ Expression \/ Call
    BY <1>1, <2>3, TypedValues
  <2>4. CASE Not
    BY <1>1, <2>4, TypedNot
  <2>5. CASE AnyType \/ StructConstructor
    BY <1>1, <2>5, TypedContainers
  <2>6. CASE \/ Jump \/ BehaviourJump \/ ElseClause \/ Disconnect
             \/ UnknownByte \/ DeclareChannels \/ Stop
             \/ IfClause \/ CallStandard \/ Proc
    BY <2>6, TypedPops
  <2>7. CASE Construct
    BY <1>1, <2>7, TypedConstruct
  <2>8. CASE CallOwn \/ CallGlobal
    BY <2>8, TypedCalls
  <2>9. CASE Return \/ BlockEnd
    BY <1>1, <2>9, TypedReturns
  <2>10. CASE ProjectEntry \/ ProjectExit
    BY <1>1, <2>10, TypedProjects
  <2> QED BY <1>1, <2>1, <2>2, <2>3, <2>4, <2>5, <2>6, <2>7, <2>8, <2>9,
             <2>10 DEF Instruction
<1>2. CASE Fails \/ End \/ StoppedByOther \/ Done \/ UNCHANGED vars
  BY <1>2, TypedPops
<1>3. CASE Executable /\ (Connect \/ Send \/ Receive)
  <2>1. program \in Programs
    BY DEF MemoryInv
  <2> QED BY <1>3, <2>1, TypedPops, TypedReceive DEF TypedFromOutside
<1> QED BY <1>1, <1>2, <1>3 DEF Next, Alone, Together

(***************************************************************************)
(* What a component declares, sends, receives or computes has a type, and  *)
(* so has all that it leads to: operators, casts and calls of procedures   *)
(* make typed objects of typed ones, also where they free one of their     *)
(* operands, in a component that executes any bytes whatever, if the       *)
(* constructor and the channels are given objects with a type.             *)
(***************************************************************************)
THEOREM TypesAlwaysKnown ==
  TypedFromOutside => (Spec => []TypesOK)
<1>1. TypedFromOutside /\ Init => TypesOK
  BY TypesAtFirst
<1>2. TypedFromOutside /\ MemoryInv /\ TypesOK /\ [Next]_vars => TypesOK'
  BY TypesStep
<1> SUFFICES ASSUME TypedFromOutside PROVE Spec => []TypesOK
  OBVIOUS
<1>3. Init => TypesOK
  BY <1>1
<1>4. MemoryInv /\ TypesOK /\ [Next]_vars => TypesOK'
  BY <1>2
<1> QED BY <1>3, <1>4, MemoryAlwaysSound, PTL DEF Spec
=============================================================================
