------------------------------ MODULE ScopeStack ------------------------------
(***************************************************************************)
(* The scopes of a component (ScopeStack.c, ListMap.c): a sequence of      *)
(* levels, the innermost first.  A level maps the names declared in it to  *)
(* values, NULL for one that has only been declared.                       *)
(***************************************************************************)
EXTENDS Integers, Sequences, FiniteSets

CONSTANT NULL

ListMap_constructor == << >>

ListMap_get(level, key) == IF key \in DOMAIN level THEN level[key] ELSE NULL

\* A name that has a value is not declared again.
ListMap_declare(level, key) ==
  [k \in DOMAIN level \cup {key} |-> ListMap_get(level, k)]

\* For a key that has been declared.
ListMap_put(level, key, value) == [level EXCEPT ![key] = value]

ScopeStack_enterScope(s) == <<ListMap_constructor>> \o s

ScopeStack_exitScope(s) == IF s = << >> THEN s ELSE Tail(s)

ScopeStack_declare(s, name) == [s EXCEPT ![1] = ListMap_declare(@, name)]

\* The levels where a name is declared, and those where it has a value.
Declaring(s, name) == {k \in DOMAIN s : name \in DOMAIN s[k]}
Holding(s, name) == {k \in DOMAIN s : ListMap_get(s[k], name) # NULL}

Innermost(levels) == CHOOSE k \in levels : \A j \in levels : k <= j

ScopeStack_load(s, name) ==
  IF Holding(s, name) = {} THEN NULL
  ELSE s[Innermost(Holding(s, name))][name]

\* Mutant: stores into the outermost scope that declares the name.
ScopeStack_storeOutermost(s, name, value) ==
  LET k == CHOOSE j \in Declaring(s, name) :
             \A i \in Declaring(s, name) : i <= j
  IN [s EXCEPT ![k] = ListMap_put(@, name, value)]

\* Of a name that is declared: for any other the loop runs off the list.
ScopeStack_store(s, name, value) ==
  LET k == Innermost(Declaring(s, name))
  IN [s EXCEPT ![k] = ListMap_put(@, name, value)]

\* Mutant: leaves the level that holds the name too.
ScopeStack_exitPast(s, name) ==
  LET last == IF Holding(s, name) = {} THEN Len(s) - 1
              ELSE Innermost(Holding(s, name))
  IN IF last > 0 THEN SubSeq(s, last + 1, Len(s)) ELSE s

\* The levels between the first and the one that holds the name are counted
\* and left, all but the first if no level does.
ScopeStack_exitTo(s, name) ==
  LET between == IF Holding(s, name) = {} THEN Len(s) - 1
                 ELSE Innermost(Holding(s, name)) - 2
  IN IF between > 0 THEN SubSeq(s, between + 1, Len(s)) ELSE s

(***************************************************************************)
(* Declares and stores names[1], names[2], ... one after the other in the  *)
(* innermost level: of a name that comes twice the last value stays.       *)
(***************************************************************************)
Bind(s, names, values) ==
  LET Last(x) == CHOOSE i \in DOMAIN names :
                   /\ names[i] = x
                   /\ \A j \in DOMAIN names : names[j] = x => j <= i
      bound == {names[i] : i \in DOMAIN names}
  IN [s EXCEPT ![1] =
        [x \in DOMAIN @ \cup bound |->
           IF x \in bound THEN values[Last(x)] ELSE ListMap_get(@, x)]]
=============================================================================
