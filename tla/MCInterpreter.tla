---------------------------- MODULE MCInterpreter ----------------------------
(***************************************************************************)
(* Programs like those of InsensePrograms, put together from instructions  *)
(* as the compiler does it, for Interpreter.                               *)
(***************************************************************************)
EXTENDS CompiledCode

Str(x) == <<Type.STRING, x, 0>>
Number(n) == <<Type.INTEGER, 0, 0, 0, n>>
Do(op) == <<op>>
With(op, x) == <<op>> \o Str(x)
PushInt(n) == <<Op.PUSH>> \o Number(n)
PushBool(n) == <<Op.PUSH, Type.BOOL, n>>
New(x, type) == <<With(Op.DECLARE, x) \o <<type>>, With(Op.STORE, x)>>
LetInt(x, k) == <<PushInt(k)>> \o New(x, Type.INTEGER)
LetBool(x, k) == <<PushBool(k)>> \o New(x, Type.BOOL)
Load_(x) == With(Op.LOAD, x)
Store_(x) == With(Op.STORE, x)
Call_(x) == With(Op.PROCCALL, x)

\* Pairs of a type and a name, after their number
List(pairs) ==
  <<Len(pairs)>> \o FlattenSeq([i \in DOMAIN pairs |->
                                  <<pairs[i][1]>> \o Str(pairs[i][2])])

Size(code) == Len(FlattenSeq(code))
Block_(code) == <<Do(Op.ENTERSCOPE)>> \o code \o <<Do(Op.EXITSCOPE)>>
Constructor_(pairs, code) ==
  Block_(<<<<Op.CONSTRUCTOR>> \o List(pairs)>> \o code) \o <<Do(Op.BLOCKEND)>>
Proc_(x, pairs, code) ==
  <<With(Op.PROC, x) \o List(pairs)>> \o code \o <<Do(Op.BLOCKEND)>>
If_(code, else) ==
  LET jump == <<<<Op.ELSE_CLAUSE>> \o Number(Size(else))>>
  IN <<<<Op.IF_CLAUSE>> \o Number(Size(code))>> \o code
       \o (IF else = << >> THEN << >> ELSE jump \o else)
While_(test, code) ==
  test \o <<<<Op.IF_CLAUSE>> \o Number(Size(code) + 6)>> \o code
    \o <<<<Op.JUMP>> \o Number(Size(test) + Size(code) + 13)>>
Behaviour_(code) ==
  Block_(code \o <<<<Op.BEHAVIOUR_JUMP>> \o Number(Size(code) + 7)>>)
Component_(x, channels_, code) ==
  <<With(Op.COMPONENT, x) \o <<1, Len(channels_)>>
      \o FlattenSeq([i \in DOMAIN channels_ |->
           <<channels_[i][1], channels_[i][2]>> \o Str(channels_[i][3])])>>
    \o Block_(code)

\* Where each instruction starts, and where the file ends
StartsOf(code) ==
  LET at[i \in 0 .. Len(code)] ==
        IF i = 0 THEN 1 ELSE at[i - 1] + Len(code[i])
  IN {at[i] : i \in 0 .. Len(code)}

\* Names
C == 100  Input == 101  Output == 102  Show == 103
A == 104  B == 105  I == 106  S == 107  F == 108  G == 109  For == 110
Text == 111  Other == 112  Missing == 113

Plus(x, k) == <<Load_(x), PushInt(k), Do(Op.ADD), PushInt(3), Do(Op.MOD),
                Store_(x)>>
Display(x) == <<Load_(x), Call_(Show)>>

PlainValue(type, k) == TypedObject_construct(type, k)

\* A component with these instructions, next to these of the main program
Program(x, code, mainCode, arguments, stoppable) ==
  LET files == [own |-> FlattenSeq(code), main |-> FlattenSeq(mainCode)]
      starts == [own |-> StartsOf(code), main |-> StartsOf(mainCode)]
      declared == {q \in starts.main : ByteAt(files.main, q) = Op.PROC}
      at(y) == CHOOSE q \in declared : files.main[q + 2] = y
      names(q) == [i \in 1 .. files.main[q + 4] |->
                     ParameterName(files.main, q + 4, i)]
  IN [name |-> x, bytes |-> files, starts |-> starts,
      globals |-> [y \in {files.main[q + 2] : q \in declared} |->
                     [position |-> AfterParameters(files.main, at(y) + 4),
                      parameters |-> Reverse(names(at(y)))]],
      standardFunctions |-> (Show :> 1),
      interfaces |-> (C :> {Input, Output} @@ Other :> {Input}),
      arguments |-> arguments,
      messages |->
        {<<PlainValue(Type.INTEGER, 1)>>,
         <<Container(Type.STRUCT, (A :> -2) @@ (B :> -3)),
           PlainValue(Type.INTEGER, 2), PlainValue(Type.REAL, 1)>>}
          \cup {<<Container(Type.ANY, CONTENT :> -2), PlainValue(t, 1)>> :
                  t \in {Type.INTEGER, Type.REAL, Type.BOOL}},
      stoppable |-> stoppable]

Empty == Constructor_(<< >>, << >>)
Integer(x) == <<Type.INTEGER, x>>

\* DEMO1, DEMO2: a variable of the behaviour hides one of its name, and so
\* does one of a branch.
Calculation ==
  Component_(C, << >>,
    LetInt(A, 0)
      \o Constructor_(<< >>, <<PushInt(1), Store_(A)>>)
      \o Behaviour_(
           Plus(A, 1) \o <<Load_(A), PushInt(1), Do(Op.LESSEQUAL)>>
             \o New(B, Type.BOOL) \o LetInt(A, 2) \o Plus(A, 1)
             \o <<Load_(A), PushInt(1), Do(Op.LESSEQUAL), Do(Op.NOT),
                  Load_(B), Do(Op.OR)>>
             \o If_(Block_(Plus(A, 2)), Block_(Plus(A, 1)))
             \o <<Load_(A), PushInt(1), Do(Op.UNEQUAL)>>
             \o If_(Block_(LetInt(A, 7) \o Display(A)), << >>)
             \o <<Do(21)>>))

\* NOT of a variable changes the variable too.
Negation ==
  Component_(C, << >>,
    LetBool(A, 1) \o Empty
      \o Behaviour_(<<Load_(A), Do(Op.NOT)>> \o New(B, Type.BOOL)))

\* DEMO3: two constructors, and a loop.
Loop ==
  Component_(C, << >>,
    Empty
      \o Constructor_(<<<<Type.STRING, S>>, <<Type.INTEGER, I>>>>, Display(S))
      \o Behaviour_(Block_(
           LetInt(I, 1) \o LetInt(For, 2)
             \o While_(<<Load_(I), Load_(For), Do(Op.LESSEQUAL)>>,
                       Block_(Block_(Display(I)))
                         \o <<Load_(I), PushInt(1), Do(Op.ADD), Store_(I)>>))))

\* DEMO5: a procedure of the component, one of the main program; both use the
\* name that the caller uses.
Doubling(x, type, pushTwo) ==
  Proc_(x, <<<<type, A>>>>,
    <<Load_(A), pushTwo, Do(Op.MUL), Store_(A), Load_(A), Do(Op.RETURN)>>)

Procedures ==
  Component_(C, <<<<Type.OUTWARD, Type.INTEGER, Output>>>>,
    Doubling(F, Type.INTEGER, PushInt(2))
      \o Proc_(Other, <<<<Type.INTEGER, A>>, <<Type.INTEGER, B>>>>,
           <<Load_(A), Call_(F), Load_(B), Do(Op.SUB), Do(Op.RETURN)>>)
      \o Empty
      \o Behaviour_(
           LetInt(A, 2) \o <<Load_(A), Call_(F)>> \o New(B, Type.INTEGER)
             \o <<Load_(B), Load_(A), Call_(Other), With(Op.SEND, Output)>>
             \o <<Load_(A), Call_(G)>> \o New(I, Type.INTEGER) \o Display(I)))

ProceduresMain ==
  <<Do(Op.ENTERSCOPE)>> \o Doubling(G, Type.INTEGER, PushInt(2))
    \o <<Do(Op.EXITSCOPE)>>

\* DEMO6: a procedure that returns at the end of its body, and structs.
Structs ==
  Component_(C, <<<<Type.INWARD, Type.STRUCT, Input>>,
                  <<Type.OUTWARD, Type.STRUCT, Output>>>>,
    Proc_(F, <<<<Type.STRUCT, S>>>>,
      <<Load_(S), <<Op.STRUCT, STRUCT_LOAD>> \o Str(A), Call_(Show),
        Load_(S), <<Op.STRUCT, STRUCT_LOAD>> \o Str(B), Call_(Show)>>)
      \o Empty
      \o Behaviour_(
           <<With(Op.RECEIVE, Input)>> \o New(S, Type.STRUCT)
             \o <<Load_(S), Call_(F), PushInt(1), PushBool(0),
                  <<Op.STRUCT, STRUCT_CONSTRUCTOR>>
                    \o List(<<<<Type.BOOL, B>>, <<Type.INTEGER, A>>>>)>>
             \o New(S, Type.STRUCT)
             \o <<Load_(S), Call_(F), Load_(S), With(Op.SEND, Output)>>))

\* DEMO7: a project of what is received, with or without a block for every
\* type, before a procedure is called.
ProjectOf(other) ==
  <<With(Op.RECEIVE, Input)>> \o New(A, Type.ANY)
    \o <<Load_(A), With(Op.PROJECT_ENTRY, I) \o <<Type.INTEGER>>>>
    \o Block_(Block_(Display(I))) \o <<<<Op.BLOCKEND, Type.REAL>>>>
    \o Block_(Block_(Display(I))) \o other
    \o <<Do(Op.PROJECT_EXIT)>>
    \o <<PushInt(1), Do(Op.ANY)>> \o New(B, Type.ANY)
    \o <<With(Op.STOP, NO_NAME)>>

Projection(other) ==
  Component_(C, <<<<Type.INWARD, Type.ANY, Input>>>>,
             Empty \o Behaviour_(ProjectOf(other)))

\* A return from a block leaves a scope of the procedure behind.
EarlyReturn ==
  Component_(C, << >>,
    Proc_(F, <<<<Type.INTEGER, A>>>>,
      <<Do(Op.ENTERSCOPE), Load_(A), Do(Op.RETURN), Do(Op.EXITSCOPE)>>)
      \o Empty
      \o Behaviour_(<<PushInt(1), Call_(F)>> \o New(B, Type.INTEGER)
                      \o <<With(Op.STOP, C)>>))

\* A procedure of the main program calls another one.
Globals ==
  <<Do(Op.ENTERSCOPE)>>
    \o Proc_(F, << >>, <<PushInt(1), Call_(Show)>>)
    \o Proc_(G, << >>, <<Call_(F)>>)
    \o <<Do(Op.EXITSCOPE)>>

CallsGlobal ==
  Component_(C, << >>, Empty \o Behaviour_(<<Call_(G)>> \o LetInt(A, 1)))

\* Statements, some of which skipToNext does not get past, as the body of a
\* procedure, and as the blocks of a project, from which and after which that
\* procedure may be called.
Skipped ==
  {Display(A), <<Call_(F)>>,
   <<PushBool(1)>> \o If_(Block_(<<PushInt(1), Call_(Show)>>), << >>),
   <<PushInt(1), <<Op.STRUCT, STRUCT_CONSTRUCTOR>> \o List(<<Integer(A)>>)>>
     \o New(S, Type.STRUCT),
   <<With(Op.CALL, Other) \o <<0>>>> \o New(S, Type.COMPONENT)}

InProcedure(code) ==
  Component_(C, << >>,
    LetInt(A, 1) \o Proc_(F, << >>, Block_(code)) \o Empty
      \o Behaviour_(Display(A)))

InProject(first, second, after) ==
  Component_(C, <<<<Type.INWARD, Type.ANY, Input>>>>,
    LetInt(A, 1) \o Proc_(F, << >>, Display(A)) \o Empty
      \o Behaviour_(
           <<With(Op.RECEIVE, Input), With(Op.PROJECT_ENTRY, I)
               \o <<Type.INTEGER>>>>
             \o Block_(first) \o <<<<Op.BLOCKEND, Type.REAL>>>>
             \o Block_(second) \o <<Do(Op.BLOCKEND), Do(Op.PROJECT_EXIT)>>
             \o after \o <<With(Op.STOP, NO_NAME)>>))

\* A main program
Main ==
  <<Do(Op.ENTERSCOPE), PushInt(1), With(Op.CALL, C) \o <<1>>>>
    \o New(A, Type.COMPONENT)
    \o <<With(Op.CALL, Other) \o <<0>>>> \o New(B, Type.COMPONENT)
    \o <<With(Op.CONNECT, A) \o Str(Output) \o Str(B) \o Str(Input),
         With(Op.DISCONNECT, A) \o Str(Output), With(Op.STOP, A),
         Do(Op.EXITSCOPE)>>

\* A main program with a procedure that disconnects for its callers, the
\* CALL of a component whose file is not there, and a name for two components
Connect_(x, y) ==
  With(Op.CONNECT, x) \o Str(Output) \o Str(y) \o Str(Input)

MainWith(code) ==
  <<Do(Op.ENTERSCOPE)>>
    \o Proc_(F, <<<<Type.COMPONENT, A>>>>,
             <<With(Op.DISCONNECT, A) \o Str(Input)>>)
    \o <<With(Op.CALL, Other) \o <<0>>>> \o New(B, Type.COMPONENT)
    \o <<With(Op.CALL, C) \o <<0>>>> \o New(A, Type.COMPONENT) \o code
    \o <<Do(Op.EXITSCOPE)>>

Connecting ==
  {<<Connect_(A, B), Load_(A), Call_(F), Load_(B), Call_(F), Connect_(A, A)>>,
   <<Load_(B), Call_(F), Connect_(A, B)>>,
   <<With(Op.CALL, Missing) \o <<0>>>> \o New(S, Type.COMPONENT)
     \o <<Connect_(A, B)>>,
   <<Load_(A), Store_(B), Connect_(A, B)>>}

Alone_(code, arguments) == Program(C, code, << >>, arguments, TRUE)

TextAndNumber == <<PlainValue(Type.STRING, Text), PlainValue(Type.INTEGER, 4)>>

\* Two statements that follow each other, that are the branches of a
\* condition, or the body of a loop.
Statements ==
  {Plus(A, 1),
   Block_(LetInt(A, 2) \o Plus(A, 2)),
   <<Load_(A), PushInt(1), Do(Op.MORE)>>
     \o If_(Block_(Plus(A, 1)), Block_(LetInt(I, 1))),
   <<Load_(A), Call_(F), Store_(A)>> \o Plus(A, 0),
   Block_(<<Load_(A), Call_(G)>> \o New(A, Type.INTEGER) \o Display(A)),
   Block_(<<With(Op.RECEIVE, Input)>> \o New(S, Type.STRUCT)
            \o <<Load_(S), <<Op.STRUCT, STRUCT_LOAD>> \o Str(A),
                 Store_(A)>>)}

Combined(s, t) ==
  {s \o t,
   <<Load_(A), PushInt(1), Do(Op.EQUAL)>> \o If_(Block_(s), Block_(t)),
   Block_(LetInt(I, 1)
            \o While_(<<Load_(I), PushInt(2), Do(Op.LESSEQUAL)>>,
                      Block_(s \o t) \o <<Load_(I), PushInt(1), Do(Op.ADD),
                                          Store_(I)>>))}

\* Of a component with a variable A and a procedure that has one too
Combination(code) ==
  Component_(C, <<<<Type.INWARD, Type.STRUCT, Input>>>>,
    LetInt(A, 0) \o Doubling(F, Type.INTEGER, PushInt(2)) \o Empty
      \o Behaviour_(code))

Combinations ==
  UNION {{Program(C, Combination(code), ProceduresMain, << >>, TRUE) :
            code \in Combined(s, t)} : s \in Statements, t \in Statements}

SkippedCode ==
  {Alone_(InProcedure(s), << >>) : s \in Skipped}
    \cup {Alone_(InProject(s, u, v), << >>) :
            s \in Skipped, u \in Skipped, v \in {<< >>, <<Call_(F)>>}}

MCPrograms ==
  Combinations \cup SkippedCode \cup
  {Program(Text, MainWith(code), << >>, << >>, FALSE) : code \in Connecting} \cup
  {Alone_(Calculation, << >>), Alone_(Negation, << >>),
   Alone_(Loop, << >>), Alone_(Loop, TextAndNumber), Alone_(Structs, << >>),
   Alone_(Projection(<<Do(Op.BLOCKEND)>>), << >>),
   Alone_(Projection(<<<<Op.BLOCKEND, Type.ANY>>, PushInt(1), Call_(Show)>>),
          << >>),
   Alone_(EarlyReturn, << >>),
   Program(C, Procedures, ProceduresMain, << >>, TRUE),
   Program(C, CallsGlobal, Globals, << >>, TRUE),
   Program(Text, Main, << >>, << >>, FALSE)}

\* A component whose only constructor takes a text and a number
TwoParameters ==
  Component_(C, << >>,
    Constructor_(<<<<Type.STRING, S>>, <<Type.INTEGER, I>>>>, << >>)
      \o Behaviour_(<<PushInt(1), Call_(Show)>>))

MCTwoParameters == {Alone_(TwoParameters, TextAndNumber)}

MCUnspecified == {0, 1}

\* The proofs about compiled programs are about these.
ASSUME MCCompiled == CompiledPrograms /\ NamedPrograms
=============================================================================
