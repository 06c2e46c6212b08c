------------------------------- MODULE Bytecode -------------------------------
(***************************************************************************)
(* The bytecode of a component (BytecodeTable.h), and how Component.c      *)
(* reads it, when it executes an instruction and when it skips one.  A     *)
(* file is a sequence b of numbers, one for each byte, but for strings:    *)
(* the characters of a string are one number, greater than every opcode,   *)
(* so that a string is its tag, that number and the byte 0.  Positions     *)
(* count from 1; reading outside of the file gives EOF.                    *)
(***************************************************************************)
EXTENDS Integers, Sequences

Type ==
  [UNKNOWN |-> 0, INTEGER |-> 1, UNSIGNED_INTEGER |-> 2, REAL |-> 3,
   BOOL |-> 4, BYTE |-> 5, STRING |-> 6, COMPONENT |-> 8, INWARD |-> 10,
   OUTWARD |-> 11, STRUCT |-> 12, ANY |-> 13]

Op ==
  [STOP |-> 0, ENTERSCOPE |-> 1, EXITSCOPE |-> 2, PUSH |-> 3, DECLARE |-> 4,
   LOAD |-> 5, STORE |-> 6, ADD |-> 7, SUB |-> 8, MUL |-> 9, DIV |-> 10,
   MOD |-> 11, LESS |-> 12, LESSEQUAL |-> 13, MORE |-> 14, MOREEQUAL |-> 15,
   EQUAL |-> 16, UNEQUAL |-> 17, AND |-> 18, OR |-> 19, NOT |-> 20,
   COMPONENT |-> 25, CALL |-> 26, CONSTRUCTOR |-> 27, BEHAVIOUR_JUMP |-> 28,
   JUMP |-> 29, IF_CLAUSE |-> 30, ELSE_CLAUSE |-> 31, CONNECT |-> 32,
   DISCONNECT |-> 33,
   SEND |-> 34, RECEIVE |-> 35, PROC |-> 36, RETURN |-> 37, PROCCALL |-> 38,
   BLOCKEND |-> 39, STRUCT |-> 40, ANY |-> 41, PROJECT_ENTRY |-> 42,
   PROJECT_EXIT |-> 43]

STRUCT_CONSTRUCTOR == 1
STRUCT_LOAD == 2

EOF == -1

\* fgetc at position p
ByteAt(b, p) == IF p \in DOMAIN b THEN b[p] ELSE EOF

\* A byte that bounds a loop: EOF is less than one.
CountAt(b, p) == IF ByteAt(b, p) = EOF THEN 0 ELSE ByteAt(b, p)

(***************************************************************************)
(* The operators After... give the position that follows what is read at   *)
(* p, REFUSED where the component ends with a syntax error.                *)
(***************************************************************************)
REFUSED == 0

Past(p, n) == IF p = REFUSED THEN REFUSED ELSE p + n

\* A string: its tag, and all until a 0.  (The end of the file in a string,
\* where the reading never ends, is taken for a syntax error too.)
AfterString(b, p) ==
  IF ByteAt(b, p) = Type.STRING /\ \E q \in p + 1 .. Len(b) : b[q] = 0
    THEN 1 + CHOOSE q \in p + 1 .. Len(b) :
               b[q] = 0 /\ \A r \in p + 1 .. q - 1 : b[r] # 0
    ELSE REFUSED

\* n strings in a row, each after `gap' bytes
AfterStringsApart(b, p, n, gap) ==
  LET after[i \in 0 .. n] ==
        IF i = 0 THEN p ELSE
          LET q == Past(after[i - 1], gap)
          IN IF q = REFUSED THEN REFUSED ELSE AfterString(b, q)
  IN after[n]

AfterStrings(b, p, n) == AfterStringsApart(b, p, n, 0)

\* A count, and as many pairs of a type and a name.
AfterParameters(b, p) ==
  IF p = REFUSED THEN REFUSED
  ELSE AfterStringsApart(b, p + 1, CountAt(b, p), 1)

\* The i-th of them, names being one number long
ParameterType(b, p, i) == ByteAt(b, p + 4 * i - 3)
ParameterName(b, p, i) == ByteAt(b, p + 4 * i - 1)

\* The bytes of a value, after its type.
TypedObject_getSize(t) ==
  CASE t \in {Type.INTEGER, Type.UNSIGNED_INTEGER} -> 4
    [] t = Type.REAL -> 8
    [] t \in {Type.BOOL, Type.BYTE} -> 1

IsData(b, p) ==
  \/ ByteAt(b, p) \in {Type.INTEGER, Type.UNSIGNED_INTEGER, Type.REAL,
                       Type.BOOL, Type.BYTE}
  \/ ByteAt(b, p) = Type.STRING /\ AfterString(b, p) # REFUSED

AfterData(b, p) ==
  IF ByteAt(b, p) = Type.STRING
    THEN AfterStrings(b, p, 1)
    ELSE p + 1 + TypedObject_getSize(ByteAt(b, p))

\* The value: values are small, and the most significant byte comes first.
DataAt(b, p) ==
  IF ByteAt(b, p) = Type.STRING THEN ByteAt(b, p + 1)
                                ELSE ByteAt(b, AfterData(b, p) - 1)

\* The distance of a jump.
AfterDistance(b, p) ==
  IF ByteAt(b, p) = Type.INTEGER THEN p + 5 ELSE REFUSED

\* Where each interface of a component starts; the last is where they end.
InterfaceAt(b, p) ==
  LET start[i \in 0 .. CountAt(b, p)] ==
        IF i = 0 THEN p + 1 ELSE
          LET q == start[i - 1]
          IN IF q = REFUSED THEN REFUSED
             ELSE AfterStringsApart(b, q + 1, CountAt(b, q), 2)
  IN start

AfterInterfaces(b, p) ==
  IF p = REFUSED THEN REFUSED ELSE InterfaceAt(b, p)[CountAt(b, p)]

\* The positions of the direction, type and name of every channel
ChannelsAt(b, p) ==
  UNION {{InterfaceAt(b, p)[i] + 1 + 5 * j :
            j \in 0 .. CountAt(b, InterfaceAt(b, p)[i]) - 1} :
         i \in 0 .. CountAt(b, p) - 1}

\* The operands an instruction reads when it is executed.
AfterOperands(b, p, op) ==
  CASE op \in {Op.STOP, Op.LOAD, Op.STORE, Op.SEND, Op.RECEIVE, Op.PROCCALL,
               Op.PROJECT_ENTRY} -> AfterStrings(b, p, 1)
    [] op \in {Op.DECLARE, Op.CALL} -> Past(AfterStrings(b, p, 1), 1)
    [] op = Op.DISCONNECT -> AfterStrings(b, p, 2)
    [] op = Op.CONNECT -> AfterStrings(b, p, 4)
    [] op = Op.PUSH -> IF IsData(b, p) THEN AfterData(b, p) ELSE REFUSED
    [] op \in {Op.BEHAVIOUR_JUMP, Op.JUMP, Op.IF_CLAUSE, Op.ELSE_CLAUSE} ->
         AfterDistance(b, p)
    [] op = Op.COMPONENT -> AfterInterfaces(b, AfterStrings(b, p, 1))
    [] op = Op.CONSTRUCTOR -> AfterParameters(b, p)
    [] op = Op.PROC -> AfterParameters(b, AfterStrings(b, p, 1))
    [] op = Op.STRUCT ->
         (CASE ByteAt(b, p) = STRUCT_CONSTRUCTOR -> AfterParameters(b, p + 1)
            [] ByteAt(b, p) = STRUCT_LOAD -> AfterStrings(b, p + 1, 1)
            [] OTHER -> REFUSED)
    [] OTHER -> p

(***************************************************************************)
(* The operands skipToNext reads.  It takes the distance of a jump for a   *)
(* string, does not know the operands of BEHAVIOUR_JUMP and PROJECT_ENTRY, *)
(* and expects strings after CALL and after STRUCT that are not there.     *)
(***************************************************************************)
AfterSkipped(b, p, op, until, inProject) ==
  CASE op \in {Op.JUMP, Op.IF_CLAUSE, Op.ELSE_CLAUSE} -> AfterStrings(b, p, 1)
    [] op \in {Op.BEHAVIOUR_JUMP, Op.PROJECT_ENTRY} -> p
    [] op = Op.PUSH /\ ByteAt(b, p) # Type.STRING /\ ~IsData(b, p) -> p + 1
    [] op = Op.CALL ->
         LET q == AfterStrings(b, p, 1)
         IN AfterStrings(b, Past(q, 1), CountAt(b, q))
    [] op = Op.STRUCT /\ ByteAt(b, p) = STRUCT_CONSTRUCTOR ->
         AfterParameters(b, AfterStrings(b, p + 1, 1))
    [] op = Op.STRUCT /\ ByteAt(b, p) \notin {STRUCT_CONSTRUCTOR, STRUCT_LOAD}
         -> p + 1
    [] op = Op.BLOCKEND /\ inProject /\ until = Op.PROJECT_EXIT ->
         IF ByteAt(b, p) = Op.PROJECT_EXIT THEN p ELSE p + 1
    [] OTHER -> AfterOperands(b, p, op)

\* component_skipToNext from p: the opcode that ends the search, `until' or
\* EOF, and the position after it.
SkipToNext(b, p, until, inProject) ==
  LET skip[q \in Nat] ==
        IF q = REFUSED THEN [found |-> EOF, next |-> REFUSED]
        ELSE IF ByteAt(b, q) \in {until, EOF}
          THEN [found |-> ByteAt(b, q), next |-> q + 1]
        ELSE skip[AfterSkipped(b, q + 1, ByteAt(b, q), until, inProject)]
  IN skip[p]

\* The block of a project whose type is t, or that of any type: whether there
\* is one, and the position after its type or after PROJECT_EXIT.  At the end
\* of the file the search goes on for ever.
HUNG == -1
ProjectBlock(b, p, t, inProject) ==
  LET block[q \in Nat] ==
        CASE q = REFUSED -> [found |-> FALSE, next |-> REFUSED]
          [] ByteAt(b, q) = EOF /\ q # REFUSED ->
               [found |-> FALSE, next |-> HUNG]
          [] ByteAt(b, q) = Op.PROJECT_EXIT ->
               [found |-> FALSE, next |-> q + 1]
          [] ByteAt(b, q) \in {t, Type.ANY} ->
               [found |-> TRUE, next |-> q + 1]
          [] OTHER -> block[SkipToNext(b, q + 1, Op.BLOCKEND, inProject).next]
  IN block[p]
=============================================================================
