------------------------------ MODULE TypedObject ------------------------------
(***************************************************************************)
(* The values of a program (TypedObject.c) and what the operators compute  *)
(* (component_expression).  An object has a type, the number it holds, and *)
(* the objects it refers to: the fields of a struct, the content of any.   *)
(***************************************************************************)
EXTENDS Bytecode

CONSTANT Unspecified   \* numbers a conversion out of range may give

CONTENT == 1           \* the name under which `any' keeps its content

TypedObject_construct(type, value) ==
  [type |-> type, value |-> value, refs |-> << >>]

Container(type, refs) == [type |-> type, value |-> 0, refs |-> refs]

NumberTypes ==
  {Type.INTEGER, Type.UNSIGNED_INTEGER, Type.REAL, Type.BYTE}

TypedObject_isNumber(x) == x.type \in NumberTypes

Arithmetic == {Op.ADD, Op.SUB, Op.MUL, Op.DIV, Op.MOD}
Connectives == {Op.AND, Op.OR}
Comparisons ==
  {Op.LESS, Op.LESSEQUAL, Op.EQUAL, Op.MOREEQUAL, Op.MORE, Op.UNEQUAL}
Expressions == Arithmetic \cup Connectives \cup Comparisons

\* Operands of other types are a syntax error.
Accepts(op, first, second) ==
  IF op \in Connectives
    THEN first.type = Type.BOOL /\ second.type = Type.BOOL
    ELSE /\ TypedObject_isNumber(first) /\ TypedObject_isNumber(second)
         /\ op = Op.MOD => Type.REAL \notin {first.type, second.type}

\* The first of these types that an operand has is the type of the result.
ResultType(first, second) ==
  LET order == <<Type.REAL, Type.UNSIGNED_INTEGER, Type.INTEGER, Type.BYTE>>
      k == CHOOSE i \in DOMAIN order :
             /\ order[i] \in {first.type, second.type}
             /\ \A j \in 1 .. i - 1 : order[j] \notin {first.type, second.type}
  IN order[k]

\* A number that the type cannot hold, or that the division of two numbers
\* does not give exactly, converts to any number.
Converted(type, n) ==
  IF \/ type = Type.BYTE /\ n \notin -128 .. 127
     \/ type = Type.UNSIGNED_INTEGER /\ n < 0
    THEN Unspecified ELSE {n}

Magnitude(n) == IF n < 0 THEN -n ELSE n

\* Rounded towards zero, as conversions to integer types are.
Quotient(a, b) ==
  LET q == Magnitude(a) \div Magnitude(b)
  IN IF (a < 0) = (b < 0) THEN q ELSE -q

Divided(type, a, b) ==
  IF b = 0 \/ (type = Type.REAL /\ a # b * Quotient(a, b))
    THEN Unspecified
    ELSE Converted(type, Quotient(a, b))

Computed(type, op, a, b) ==
  CASE op = Op.ADD -> Converted(type, a + b)
    [] op = Op.SUB -> Converted(type, a - b)
    [] op = Op.MUL -> Converted(type, a * b)
    [] op = Op.DIV -> Divided(type, a, b)
    [] op = Op.MOD -> Converted(type, a - b * Quotient(a, b))

Compares(op, a, b) ==
  \/ op = Op.LESS /\ a < b
  \/ op = Op.LESSEQUAL /\ a <= b
  \/ op = Op.EQUAL /\ a = b
  \/ op = Op.MOREEQUAL /\ a >= b
  \/ op = Op.MORE /\ a > b
  \/ op = Op.UNEQUAL /\ a # b

Connects(op, a, b) ==
  \/ op = Op.AND /\ a # 0 /\ b # 0
  \/ op = Op.OR /\ (a # 0 \/ b # 0)

\* Mutant: the type of the result is not set.
TruthUntyped(holds) ==
  TypedObject_construct(Type.UNKNOWN, IF holds THEN 1 ELSE 0)

Truth(holds) == TypedObject_construct(Type.BOOL, IF holds THEN 1 ELSE 0)

\* The objects an expression may leave, for operands it accepts.
Results(op, first, second) ==
  CASE op \in Comparisons -> {Truth(Compares(op, first.value, second.value))}
    [] op \in Connectives -> {Truth(Connects(op, first.value, second.value))}
    [] op \in Arithmetic ->
         LET type == ResultType(first, second)
         IN {TypedObject_construct(type, n) :
               n \in Computed(type, op, first.value, second.value)}
=============================================================================
