---------------------------- MODULE CompiledProofs ----------------------------
(***************************************************************************)
(* What holds of a component that executes a compiled program: whatever it *)
(* calls, returns from and jumps to, it stays in step with its file, its   *)
(* objects have types, and a procedure gets its arguments under its names  *)
(* and goes back to where it was called from.  The files of a component    *)
(* are any that satisfy Compiled; of the arguments, NamesApart as well.    *)
(***************************************************************************)
EXTENDS InterpreterProofs

-----------------------------------------------------------------------------
(***************************************************************************)
(* The inductive invariant.  Scopes count from the outermost: the i-th     *)
(* call from the last entered the scope at height Height(i).               *)
(***************************************************************************)
Height(i) == Len(calls[i].names) + 1

\* In s, below height d there is the scope of a procedure, with n scopes above it.
InBody(s, d, n) ==
  \E e \in DOMAIN s :
    /\ e < d /\ RETURN_ADDRESS \in DOMAIN Level(s, e)
    /\ n \in 0 .. d - 1 - e

CallsOwn == file = "own" \/ calls[1].file = "own"

PlaceOK ==
  /\ pos \in Starts
  /\ inProject \in InProjects(program)
  /\ Enclosed(program, file, pos) => inProject
  /\ file = "main" => calls # << >>
  /\ calls # << >> => Inside(program, file, pos)
  /\ Inside(program, file, pos) =>
       InBody(scopes, Len(scopes) + 1, Within(program, file, pos))

ProceduresOK ==
  \A x \in DOMAIN procs :
    /\ Entry(program, "own", procs[x].position)
    /\ \E r \in At(program, "own", Op.PROC) : ByteAt(program.bytes.own, r + 2) = x

\* The records of the calls, the latest first
CallOK(i) ==
  /\ calls[i].file \in Files /\ calls[i].resume \in Nat
  /\ Len(calls[i].names) \in Nat
  /\ calls[i].names = [k \in 1 .. Len(calls[i].names) |-> calls[i].names[k]]
  /\ \A j \in DOMAIN calls : j < i => Height(i) < Height(j)

\* The scope of a call, and those below it
FrameOK(i) ==
  /\ Height(i) <= Len(scopes)
  /\ RETURN_ADDRESS \in DOMAIN Level(scopes, Height(i))
  /\ Level(scopes, Height(i))[RETURN_ADDRESS] = calls[i].resume
  /\ \A d \in 1 .. Height(i) - 1 :
       DOMAIN Level(scopes, d) = calls[i].names[Height(i) - d]

FramesOK ==
  /\ \E C : calls \in Seq(C)
  /\ \A i \in DOMAIN calls : CallOK(i) /\ FrameOK(i)
  /\ calls # << >> =>
       Within(program, file, pos) \in 0 .. Len(scopes) - Height(1)
  /\ file = "main" =>
       /\ RETURN_SOURCE \in DOMAIN Level(scopes, Height(1))
       /\ Level(scopes, Height(1))[RETURN_SOURCE] = "own"

\* Of a scope at height d that has the address r
AddressOK(d, r) ==
  /\ r \in program.starts.own
  /\ Inside(program, "own", r) => InBody(scopes, d, Within(program, "own", r))
  /\ \A i \in DOMAIN calls :
       /\ Height(i) <= d => (Enclosed(program, "own", r) => inProject)
       /\ Height(i) < d =>
            /\ Inside(program, "own", r)
            /\ Within(program, "own", r) \in 0 .. d - 1 - Height(i)

AddressesOK ==
  CallsOwn =>
    /\ \A i \in DOMAIN calls : calls[i].file = "own"
    /\ \A d \in DOMAIN scopes : \A r :
         /\ RETURN_ADDRESS \in DOMAIN Level(scopes, d)
         /\ Level(scopes, d)[RETURN_ADDRESS] = r
         => AddressOK(d, r)

CodeInv == PlaceOK /\ ProceduresOK /\ FramesOK /\ AddressesOK

\* A step within the code of a file, without a call or a return
CodeStays ==
  /\ UNCHANGED <<program, file, calls>>
  /\ pos' \in Starts
  /\ inProject' \in InProjects(program)
  /\ Enclosed(program, file, pos') => inProject'
  /\ Inside(program, file, pos') =>
       /\ Inside(program, file, pos)
       /\ Within(program, file, pos') \in
            0 .. Within(program, file, pos) + Len(scopes') - Len(scopes)
  /\ calls # << >> =>
       /\ inProject => inProject'
       /\ Inside(program, file, pos')

\* Levels from which a procedure would return in the same way
SameReturn(l, m) ==
  \A x \in {RETURN_ADDRESS, RETURN_SOURCE} :
    /\ x \in DOMAIN l <=> x \in DOMAIN m
    /\ x \in DOMAIN l => m[x] = l[x]

\* At each height the same way back, and the same names below the innermost
SameFrames(s, t) ==
  /\ \A d \in DOMAIN t \cap DOMAIN s :
       /\ SameReturn(Level(s, d), Level(t, d))
       /\ d < Len(s) => DOMAIN Level(t, d) = DOMAIN Level(s, d)
  /\ \A d \in DOMAIN t \ DOMAIN s : RETURN_ADDRESS \notin DOMAIN Level(t, d)

\* If the levels that stay are the same, so are the frames.
LEMMA OuterFrames ==
  ASSUME NEW s, NEW t, Outer(s, t),
         \A d \in DOMAIN t \ DOMAIN s : RETURN_ADDRESS \notin DOMAIN Level(t, d)
  PROVE  SameFrames(s, t)
BY DEF Outer, SameFrames, SameReturn

\* A change of levels that keeps every way back keeps the frames.
LEMMA ChangedFrames ==
  ASSUME NEW s, ScopesOK(s), NEW t, DOMAIN t = DOMAIN s, Len(t) = Len(s),
         \A k \in DOMAIN s : /\ SameReturn(s[k], t[k])
                             /\ k # 1 => DOMAIN t[k] = DOMAIN s[k]
  PROVE  SameFrames(s, t)
<1>1. \A d \in DOMAIN s :
        /\ SameReturn(Level(s, d), Level(t, d))
        /\ d < Len(s) => DOMAIN Level(t, d) = DOMAIN Level(s, d)
  <2> SUFFICES ASSUME NEW d \in DOMAIN s
               PROVE  /\ SameReturn(Level(s, d), Level(t, d))
                      /\ d < Len(s) => DOMAIN Level(t, d) = DOMAIN Level(s, d)
    OBVIOUS
  <2> DEFINE k == Len(s) + 1 - d
  <2>1. k \in DOMAIN s /\ (d < Len(s) => k # 1)
    BY ScopesFrom
  <2>2. Level(s, d) = s[k] /\ Level(t, d) = t[k]
    BY DEF Level
  <2> HIDE DEF k
  <2> QED BY <2>1, <2>2
<1> QED BY <1>1 DEF SameFrames

\* Instructions that neither call nor return keep the invariant, if they lead
\* to another of the same body and keep the frames.
LEMMA Proceeds ==
  ASSUME ScopesOK(scopes), ScopesOK(scopes'), CodeInv, CodeStays, ProceduresOK',
         SameFrames(scopes, scopes')
  PROVE  CodeInv'
<1>0. UNCHANGED <<program, file, calls>>
  BY DEF CodeStays
<1>h. \A i \in DOMAIN calls : Height(i)' = Height(i)
  BY <1>0 DEF Height
<1>s. /\ Len(scopes) \in Nat /\ DOMAIN scopes = 1 .. Len(scopes)
      /\ Len(scopes') \in Nat /\ DOMAIN scopes' = 1 .. Len(scopes')
  BY ScopesFrom
<1>b. ASSUME NEW d \in Nat, NEW n, InBody(scopes, d, n), NEW c \in Nat, NEW m \in Nat,
             c <= Len(scopes') + 1, m <= n + c - d
      PROVE  InBody(scopes', c, m)
  <2>1. PICK e \in DOMAIN scopes : /\ e < d /\ RETURN_ADDRESS \in DOMAIN Level(scopes, e)
                                   /\ n \in 0 .. d - 1 - e
    BY <1>b DEF InBody
  <2>2. e \in DOMAIN scopes' /\ e < c /\ m \in 0 .. c - 1 - e
    BY <1>b, <1>s, <2>1
  <2>3. RETURN_ADDRESS \in DOMAIN Level(scopes', e)
    BY <2>1, <2>2 DEF SameFrames, SameReturn
  <2> QED BY <2>2, <2>3 DEF InBody
<1>i. \A d, n : InBody(scopes, d, n) => n \in Nat
  BY DEF InBody
<1>1. PlaceOK'
  <2>1. ASSUME Inside(program, file, pos')
        PROVE  InBody(scopes', Len(scopes') + 1, Within(program, file, pos'))
    <3> DEFINE n == Within(program, file, pos)
               m == Within(program, file, pos')
    <3>1. InBody(scopes, Len(scopes) + 1, n) /\ m \in 0 .. n + Len(scopes') - Len(scopes)
      BY <2>1 DEF CodeStays, CodeInv, PlaceOK
    <3>2. n \in Nat
      BY <1>i, <3>1
    <3> HIDE DEF n, m
    <3>3. m \in Nat /\ Len(scopes) + 1 \in Nat /\ Len(scopes') + 1 \in Nat
          /\ m <= n + (Len(scopes') + 1) - (Len(scopes) + 1)
      BY <1>s, <3>1, <3>2
    <3>4. InBody(scopes', Len(scopes') + 1, m)
      BY <1>b, <3>1, <3>2, <3>3
    <3> QED BY <3>4 DEF m
  <2> QED BY <1>0, <2>1 DEF PlaceOK, CodeStays, Starts, CodeInv
<1>g. ASSUME NEW i \in DOMAIN calls
      PROVE  /\ Height(i) \in Nat \ {0} /\ Height(i) <= Height(1)
             /\ Height(1) <= Len(scopes) /\ Height(1) <= Len(scopes')
             /\ 1 \in DOMAIN calls
  <2>1. PICK C : calls \in Seq(C)
    BY DEF CodeInv, FramesOK
  <2>2. 1 \in DOMAIN calls /\ calls # << >> /\ i \in Nat /\ i >= 1
    BY <2>1
  <2>3. CallOK(i) /\ CallOK(1) /\ FrameOK(1)
    BY <2>2 DEF CodeInv, FramesOK
  <2>4. Height(i) \in Nat \ {0} /\ Height(1) \in Nat /\ Height(1) <= Len(scopes)
    BY <2>3 DEF CallOK, FrameOK, Height
  <2>5. Height(i) <= Height(1)
    BY <2>2, <2>3, <2>4 DEF CallOK
  <2>6. /\ Within(program, file, pos) \in 0 .. Len(scopes) - Height(1)
        /\ Within(program, file, pos') \in
             0 .. Within(program, file, pos) + Len(scopes') - Len(scopes)
    BY <2>2 DEF CodeInv, FramesOK, CodeStays
  <2>7. Height(1) <= Len(scopes')
    BY <1>s, <2>4, <2>6
  <2> QED BY <2>2, <2>4, <2>5, <2>7
<1>f. ASSUME NEW i \in DOMAIN calls
      PROVE  CallOK(i)' /\ FrameOK(i)'
  <2>1. CallOK(i) /\ FrameOK(i)
    BY DEF CodeInv, FramesOK
  <2>2. CallOK(i)'
    BY <1>0, <2>1 DEF CallOK, Height
  <2> DEFINE h == Height(i)
  <2>3. h \in DOMAIN scopes /\ h \in DOMAIN scopes' /\ h <= Len(scopes)
        /\ h <= Len(scopes')
    BY <1>g, <1>s
  <2>4. SameReturn(Level(scopes, h), Level(scopes', h))
    BY <2>3 DEF SameFrames
  <2>5. /\ RETURN_ADDRESS \in DOMAIN Level(scopes', h)
        /\ Level(scopes', h)[RETURN_ADDRESS] = calls[i].resume
    BY <2>1, <2>4 DEF FrameOK, SameReturn
  <2>6. ASSUME NEW d \in 1 .. h - 1
        PROVE  DOMAIN Level(scopes', d) = calls[i].names[h - d]
    <3>1. d \in DOMAIN scopes /\ d \in DOMAIN scopes' /\ d < Len(scopes)
      BY <1>g, <1>s
    <3> QED BY <2>1, <3>1 DEF FrameOK, SameFrames
  <2>7. calls' = calls /\ Height(i)' = h
    BY <1>0, <1>h
  <2> HIDE DEF h
  <2>8. FrameOK(i)'
    BY <2>3, <2>5, <2>6, <2>7 DEF FrameOK
  <2> QED BY <2>2, <2>8
<1>3. FramesOK'
  <2>1. \E C : calls' \in Seq(C)
    BY <1>0 DEF CodeInv, FramesOK
  <2>2. \A i \in DOMAIN calls' : CallOK(i)' /\ FrameOK(i)'
    BY <1>0, <1>f
  <2>3. ASSUME calls # << >>
        PROVE  Within(program, file, pos)' \in 0 .. Len(scopes') - Height(1)'
    <3>1. 1 \in DOMAIN calls
      BY <2>3 DEF CodeInv, FramesOK
    <3>2. /\ Within(program, file, pos) \in 0 .. Len(scopes) - Height(1)
          /\ Within(program, file, pos') \in
               0 .. Within(program, file, pos) + Len(scopes') - Len(scopes)
      BY <2>3 DEF CodeInv, FramesOK, CodeStays
    <3>3. Height(1) \in Nat
      BY <1>g, <3>1
    <3> QED BY <1>0, <1>h, <1>s, <3>1, <3>2, <3>3
  <2>4. ASSUME file = "main"
        PROVE  /\ RETURN_SOURCE \in DOMAIN Level(scopes', Height(1)')
               /\ Level(scopes', Height(1)')[RETURN_SOURCE] = "own"
    <3>1. 1 \in DOMAIN calls
      BY <2>4 DEF CodeInv, FramesOK, PlaceOK
    <3>2. Height(1) \in DOMAIN scopes /\ Height(1) \in DOMAIN scopes'
      BY <1>g, <1>s, <3>1
    <3>3. SameReturn(Level(scopes, Height(1)), Level(scopes', Height(1)))
      BY <3>2 DEF SameFrames
    <3>4. Height(1)' = Height(1)
      BY <1>h, <3>1
    <3> QED BY <2>4, <3>3, <3>4 DEF SameReturn, CodeInv, FramesOK
  <2> QED BY <1>0, <2>1, <2>2, <2>3, <2>4 DEF FramesOK
<1>4. AddressesOK'
  <2>1. ASSUME CallsOwn
        PROVE  \A i \in DOMAIN calls : calls[i].file = "own"
    BY <2>1 DEF CodeInv, AddressesOK
  <2>2. ASSUME CallsOwn, NEW d \in DOMAIN scopes', NEW r,
               RETURN_ADDRESS \in DOMAIN Level(scopes', d),
               Level(scopes', d)[RETURN_ADDRESS] = r
        PROVE  AddressOK(d, r)'
    <3>1. d \in DOMAIN scopes
      BY <2>2 DEF SameFrames
    <3>2. RETURN_ADDRESS \in DOMAIN Level(scopes, d)
          /\ Level(scopes, d)[RETURN_ADDRESS] = r
      BY <2>2, <3>1 DEF SameFrames, SameReturn
    <3>3. AddressOK(d, r)
      BY <2>2, <3>1, <3>2 DEF CodeInv, AddressesOK
    <3>4. \A i \in DOMAIN calls : inProject => inProject'
      BY DEF CodeStays, CodeInv, FramesOK
    <3>5. ASSUME Inside(program, "own", r)
          PROVE  InBody(scopes', d, Within(program, "own", r))
      <4> DEFINE n == Within(program, "own", r)
      <4>1. InBody(scopes, d, n) /\ d \in Nat /\ d <= Len(scopes') + 1
        BY <1>s, <2>2, <3>3, <3>5 DEF AddressOK
      <4>2. n \in Nat
        BY <1>i, <4>1
      <4> HIDE DEF n
      <4>3. n <= n + d - d
        BY <4>1, <4>2
      <4>4. InBody(scopes', d, n)
        BY <1>b, <4>1, <4>2, <4>3
      <4> QED BY <4>4 DEF n
    <3> QED BY <1>0, <1>h, <3>3, <3>4, <3>5 DEF AddressOK
  <2>3. CallsOwn' => CallsOwn
    BY <1>0 DEF CallsOwn
  <2> QED BY <1>0, <2>1, <2>2, <2>3 DEF AddressesOK
<1> QED BY <1>1, <1>3, <1>4 DEF CodeInv

-----------------------------------------------------------------------------
(***************************************************************************)
(* Which instruction is executed, and where it is.                         *)
(***************************************************************************)
\* The instruction that is executed is one of the file's.
LEMMA Fetch ==
  ASSUME Compiled(program), MemoryInv, PlaceOK, Executable
  PROVE  /\ file \in Files /\ pos \in Nat \ {0}
         /\ pos \in At(program, file, Opcode)
         /\ pos \in Instructions(program, file)
         /\ program.bytes[file][pos] = Opcode
         /\ Following = Ends(program.bytes[file], pos)
         /\ Following # REFUSED
         /\ inProject \in InProjectsAt(program, file, pos)
<1>1. file \in Files
  BY DEF MemoryInv, Files
<1>2. pos \in program.starts[file] /\ pos \in Nat \ {0}
  BY <1>1 DEF PlaceOK, Starts, Compiled
<1>3. Opcode # EOF /\ Following # REFUSED
  BY Runs DEF Executable, Fetched, Refuses
<1>4. pos \in DOMAIN Bytes /\ Opcode = Bytes[pos]
  BY <1>3 DEF Opcode, ByteAt
<1>5. pos \in Instructions(program, file) /\ program.bytes[file][pos] = Opcode
  BY <1>2, <1>4 DEF Instructions, Bytes
<1>6. pos \in At(program, file, Opcode)
  BY <1>5 DEF At
<1>7. Following = Ends(program.bytes[file], pos)
  BY <1>4 DEF Following, Ends, Operand, Bytes
<1>8. inProject \in InProjectsAt(program, file, pos)
  BY DEF PlaceOK, InProjectsAt
<1> QED BY <1>1, <1>2, <1>3, <1>5, <1>6, <1>7, <1>8

\* What the static predicate says of the next instruction
LEMMA LeadsInStep ==
  ASSUME Compiled(program), MemoryInv, PlaceOK, Executable,
         NEW r \in Leads(program, file, pos, inProject)
  PROVE  /\ r \in Starts /\ r \in Nat \ {0}
         /\ Enclosed(program, file, r) => inProject /\ Opcode # Op.PROJECT_EXIT
         /\ Inside(program, file, r) <=> Inside(program, file, pos)
         /\ Inside(program, file, r) =>
              Within(program, file, r) \in
                0 .. Within(program, file, pos) + Enters(Opcode)
BY Fetch DEF Compiled, FitTogether, Starts

\* A step to where the instruction leads
LEMMA LedTo ==
  ASSUME Compiled(program), MemoryInv, CodeInv, Executable,
         ScopesOK(scopes'), UNCHANGED <<program, file, calls, inProject>>,
         pos' \in Leads(program, file, pos, inProject),
         Len(scopes') >= Len(scopes) + Enters(Opcode)
  PROVE  CodeStays
<1>1. PlaceOK
  BY DEF CodeInv
<1>2. /\ pos' \in Starts
      /\ Enclosed(program, file, pos') => inProject
      /\ Inside(program, file, pos') <=> Inside(program, file, pos)
      /\ Inside(program, file, pos') =>
           Within(program, file, pos') \in
             0 .. Within(program, file, pos) + Enters(Opcode)
  BY <1>1, LeadsInStep
<1>3. Len(scopes) \in Nat /\ Len(scopes') \in Nat
  BY ScopesFrom DEF MemoryInv
<1>4. Enters(Opcode) \in Int
  BY DEF Enters
<1>5. Inside(program, file, pos) => Within(program, file, pos) \in Nat
  BY <1>1 DEF PlaceOK, InBody
<1> DEFINE n == Within(program, file, pos)
           m == Within(program, file, pos')
<1> HIDE DEF n, m
<1>6. Inside(program, file, pos') => m \in 0 .. n + Len(scopes') - Len(scopes)
  BY <1>2, <1>3, <1>4, <1>5 DEF n, m
<1> QED BY <1>1, <1>2, <1>6 DEF CodeStays, PlaceOK, n, m

\* The next instruction of most
LEMMA Onwards ==
  ASSUME Compiled(program), MemoryInv, PlaceOK, Executable,
         Opcode \notin {Op.JUMP, Op.ELSE_CLAUSE, Op.PROC, Op.BLOCKEND, Op.RETURN,
                        Op.CONSTRUCTOR, Op.PROJECT_ENTRY}
  PROVE  Following \in Leads(program, file, pos, inProject)
BY Fetch DEF Leads, Op

\* Instructions that leave the scopes alone keep the frames.
LEMMA SameScopes ==
  ASSUME MemoryInv, scopes' = scopes
  PROVE  /\ ScopesOK(scopes') /\ SameFrames(scopes, scopes')
         /\ Len(scopes) \in Nat /\ Len(scopes') = Len(scopes)
<1>1. ScopesOK(scopes) /\ Len(scopes) \in Nat
  BY ScopesFrom DEF MemoryInv
<1>2. SameFrames(scopes, scopes)
  BY DEF SameFrames, SameReturn
<1> QED BY <1>1, <1>2

\* Without a PROC the procedures stay those of the file.
LEMMA ProceduresStay ==
  ASSUME ProceduresOK, UNCHANGED <<program, procs>>
  PROVE  ProceduresOK'
BY DEF ProceduresOK

\* An instruction that leaves the scopes alone
LEMMA Flat ==
  ASSUME Compiled(program), MemoryInv, CodeInv, Executable, ProceduresOK',
         UNCHANGED <<program, file, calls, inProject, scopes>>,
         pos' \in Leads(program, file, pos, inProject),
         Opcode \notin {Op.ENTERSCOPE, Op.EXITSCOPE}
  PROVE  CodeInv'
<1>1. ScopesOK(scopes) /\ ScopesOK(scopes') /\ SameFrames(scopes, scopes')
      /\ Len(scopes) \in Nat /\ Len(scopes') = Len(scopes)
  BY SameScopes DEF MemoryInv
<1>2. Len(scopes') >= Len(scopes) + Enters(Opcode)
  BY <1>1 DEF Enters
<1> QED BY <1>1, <1>2, LedTo, Proceeds

-----------------------------------------------------------------------------
(***************************************************************************)
(* Instructions that do not call.                                          *)
(***************************************************************************)
LEMMA FlatOnwards ==
  ASSUME Compiled(program), MemoryInv, CodeInv, Executable,
         UNCHANGED <<program, file, calls, inProject, procs, scopes>>,
         pos' = Following,
         Opcode \notin {Op.JUMP, Op.ELSE_CLAUSE, Op.PROC, Op.BLOCKEND, Op.RETURN,
                        Op.CONSTRUCTOR, Op.PROJECT_ENTRY, Op.ENTERSCOPE,
                        Op.EXITSCOPE}
  PROVE  CodeInv'
<1>1. pos' \in Leads(program, file, pos, inProject)
  BY Onwards DEF CodeInv
<1>2. ProceduresOK'
  BY ProceduresStay DEF CodeInv
<1> QED BY <1>1, <1>2, Flat

\* What changes values and other components only goes on behind its operands.
LEMMA PlainSteps ==
  ASSUME Compiled(program), MemoryInv, CodeInv, Executable,
         \/ Load \/ Push \/ Expression \/ Not \/ AnyType
         \/ StructConstructor \/ StructLoad \/ CallStandard
         \/ DeclareChannels \/ Call \/ Stop \/ Disconnect \/ UnknownByte
         \/ Connect \/ Send \/ Receive
  PROVE  CodeInv'
<1>1. /\ UNCHANGED <<program, file, calls, inProject, procs, scopes>>
      /\ pos' = Following
  BY DEF Load, Push, Expression, Not, AnyType, StructConstructor, StructLoad,
         CallStandard, DeclareChannels, Call, Stop, Disconnect, UnknownByte,
         Connect, Send, Receive, Replace, Restack, Continue, Goto, JumpTo,
         self, memory, ghosts
<1>2. Opcode \notin {Op.JUMP, Op.ELSE_CLAUSE, Op.PROC, Op.BLOCKEND, Op.RETURN,
                     Op.CONSTRUCTOR, Op.PROJECT_ENTRY, Op.ENTERSCOPE,
                     Op.EXITSCOPE}
  <2> DEFINE X == {Op.JUMP, Op.ELSE_CLAUSE, Op.PROC, Op.BLOCKEND, Op.RETURN,
                   Op.CONSTRUCTOR, Op.PROJECT_ENTRY, Op.ENTERSCOPE,
                   Op.EXITSCOPE}
  <2>1. CASE UnknownByte
    <3>1. X \subseteq Range(Op)
      BY DEF Op, Range
    <3> QED BY <2>1, <3>1 DEF UnknownByte, Executes
  <2>2. CASE Expression
    BY <2>2 DEF Expression, Executes, Expressions, Arithmetic, Connectives,
                Comparisons, Op
  <2>3. CASE Load \/ Push \/ Not \/ AnyType \/ StructConstructor \/ StructLoad
    BY <2>3 DEF Load, Push, Not, AnyType, StructConstructor, StructLoad, Executes, Op
  <2>4. CASE CallStandard \/ DeclareChannels \/ Call \/ Stop \/ Disconnect
    BY <2>4 DEF CallStandard, DeclareChannels, Call, Stop, Disconnect, Executes, Op
  <2>5. CASE Connect \/ Send \/ Receive
    BY <2>5 DEF Connect, Send, Receive, Executes, Op
  <2> QED BY <2>1, <2>2, <2>3, <2>4, <2>5
<1> QED BY <1>1, <1>2, FlatOnwards

\* Jumps, and the branches of IF, lead where Leads says.
LEMMA JumpsLead ==
  ASSUME Compiled(program), MemoryInv, CodeInv, Executable,
         Jump \/ BehaviourJump \/ IfClause \/ ElseClause
  PROVE  CodeInv'
<1> DEFINE b == program.bytes[file]
           back == Following - Distance(b, pos) + 1
<1>1. /\ b[pos] = Opcode /\ Following = Ends(b, pos)
      /\ LastOperand = Distance(b, pos) /\ Bytes = b
  BY Fetch DEF CodeInv, LastOperand, Distance, Bytes
<1>2. /\ UNCHANGED <<program, file, calls, inProject, procs, scopes>>
      /\ Opcode \in {Op.JUMP, Op.BEHAVIOUR_JUMP, Op.IF_CLAUSE, Op.ELSE_CLAUSE}
      /\ \/ Opcode = Op.JUMP /\ pos' = back
         \/ Opcode = Op.BEHAVIOUR_JUMP /\ pos' \in {Following, back}
         \/ Opcode = Op.IF_CLAUSE /\ pos' \in {Following, Otherwise}
         \/ Opcode = Op.ELSE_CLAUSE /\ pos' = Following + Distance(b, pos)
  <2> HIDE DEF b
  <2> QED
  BY <1>1 DEF Jump, BehaviourJump, IfClause, ElseClause, Continue, Goto, JumpTo,
              Executes, self, memory, ghosts
<1>3. Otherwise = WhenFalse(b, pos)
  BY <1>1 DEF Otherwise, WhenFalse
<1> HIDE DEF b
<1>4. pos' \in Leads(program, file, pos, inProject)
  BY <1>1, <1>2, <1>3 DEF Leads, Op, b
<1>5. Opcode \notin {Op.ENTERSCOPE, Op.EXITSCOPE}
  BY <1>2 DEF Op
<1>6. ProceduresOK'
  BY <1>2, ProceduresStay DEF CodeInv
<1> QED BY <1>2, <1>4, <1>5, <1>6, Flat

\* Declarations and projects are executed outside of procedures only.
LEMMA UncalledAt ==
  ASSUME Compiled(program), MemoryInv, CodeInv, Executable,
         Opcode \in {Op.PROC, Op.CONSTRUCTOR, Op.PROJECT_ENTRY, Op.PROJECT_EXIT}
  PROVE  ~Inside(program, file, pos) /\ calls = << >> /\ file = "own"
<1>1. ~Inside(program, file, pos)
  BY Fetch DEF Compiled, ProceduresPlain, CodeInv
<1> QED BY <1>1 DEF CodeInv, PlaceOK, MemoryInv

\* PROC makes a procedure whose body starts behind its parameters, and goes on
\* behind the body.
LEMMA ProcedureFound ==
  ASSUME Compiled(program), MemoryInv, CodeInv, Executable, Proc
  PROVE  CodeInv'
<1> DEFINE b == program.bytes[file]
<1>1. Opcode = Op.PROC /\ UNCHANGED <<program, file, calls, inProject, scopes>>
      /\ pos' = SkipToNext(Bytes, Following, Op.BLOCKEND, inProject).next
      /\ procs' = ListMap_put(ListMap_declare(procs, Name), Name,
                              Procedure(pos + 4))
  BY DEF Proc, Goto, Executes, memory, ghosts, AfterBody, SkipTo
<1>2. pos' # REFUSED
  BY <1>1, Runs DEF Refuses, AfterBody, SkipTo
<1>3. b[pos] = Opcode /\ Following = Ends(b, pos) /\ Bytes = b
      /\ pos \in At(program, file, Op.PROC) /\ Following # REFUSED
  BY <1>1, Fetch DEF CodeInv, Bytes
<1>4. file = "own"
  BY <1>1, UncalledAt
<1> HIDE DEF b
<1>5. pos' \in Leads(program, file, pos, inProject)
  BY <1>1, <1>2, <1>3 DEF Leads, Op, b
<1>6. Entry(program, "own", AfterParameters(b, pos + 4))
  BY <1>3, <1>4 DEF Compiled, ProceduresPlain, Files, b
<1>7. /\ DOMAIN procs' = DOMAIN procs \cup {Name}
      /\ procs'[Name] = Procedure(pos + 4)
      /\ \A x \in DOMAIN procs : x # Name => procs'[x] = procs[x]
  BY <1>1 DEF ListMap_put, ListMap_declare, ListMap_get
<1>8. Procedure(pos + 4).position = AfterParameters(b, pos + 4)
  BY <1>3 DEF Procedure
<1>9. Name = ByteAt(program.bytes.own, pos + 2)
  BY <1>4 DEF Name, Bytes
<1>10. ProceduresOK'
  <2> SUFFICES ASSUME NEW x \in DOMAIN procs'
               PROVE  /\ Entry(program, "own", procs'[x].position)
                      /\ \E r \in At(program, "own", Op.PROC) :
                           ByteAt(program.bytes.own, r + 2) = x
    BY <1>1 DEF ProceduresOK
  <2>1. CASE x = Name
    BY <1>3, <1>4, <1>6, <1>7, <1>8, <1>9, <2>1
  <2>2. CASE x # Name
    BY <1>7, <2>2 DEF CodeInv, ProceduresOK
  <2> QED BY <2>1, <2>2
<1>11. Opcode \notin {Op.ENTERSCOPE, Op.EXITSCOPE}
  BY <1>1 DEF Op
<1> QED BY <1>1, <1>5, <1>10, <1>11, Flat

\* A change of one level that keeps the way back
LEMMA LevelChanged ==
  ASSUME NEW s, ScopesOK(s), NEW k \in DOMAIN s, NEW level, NEW t,
         t = [s EXCEPT ![k] = level], SameReturn(s[k], level),
         k = 1 \/ DOMAIN level = DOMAIN s[k]
  PROVE  SameFrames(s, t) /\ Len(t) = Len(s)
<1>1. PICK L : s \in Seq(L)
  BY DEF ScopesOK
<1>2. DOMAIN t = DOMAIN s /\ Len(t) = Len(s)
  BY <1>1
<1>3. t[k] = level /\ \A j \in DOMAIN s : j # k => t[j] = s[j]
  OBVIOUS
<1>4. \A j \in DOMAIN s : /\ SameReturn(s[j], t[j])
                          /\ j # 1 => DOMAIN t[j] = DOMAIN s[j]
  BY <1>3 DEF SameReturn
<1> QED BY <1>2, <1>4, ChangedFrames

\* What enters, leaves or changes scopes keeps the frames.
LEMMA ScopesKeepCode ==
  ASSUME MemoryInv, MemoryInv', Executable,
         EnterScope \/ ExitScope \/ Declare \/ Store
  PROVE  /\ SameFrames(scopes, scopes')
         /\ Len(scopes') >= Len(scopes) + Enters(Opcode)
<1>1. ScopesOK(scopes) /\ ScopesOK(scopes') /\ Len(scopes) \in Nat
      /\ Len(scopes') \in Nat
  BY ScopesFrom DEF MemoryInv
<1>2. CASE EnterScope
  <2> DEFINE t == ScopeStack_enterScope(scopes)
  <2>1. scopes' = t /\ Opcode = Op.ENTERSCOPE
    BY <1>2 DEF EnterScope, Rescope, Executes
  <2>2. Outer(scopes, t) /\ t[1] = << >> /\ Len(t) = Len(scopes) + 1
        /\ ScopesOK(t)
    BY <1>1, EnterSound
  <2>3. \A d \in DOMAIN t \ DOMAIN scopes : Level(t, d) = << >>
    <3> HIDE DEF t
    <3>1. DOMAIN t = 1 .. Len(scopes) + 1 /\ DOMAIN scopes = 1 .. Len(scopes)
      BY <2>2, <1>1, ScopesFrom
    <3>2. \A d \in DOMAIN t \ DOMAIN scopes : d = Len(scopes) + 1
      BY <1>1, <3>1
    <3> QED BY <1>1, <2>2, <3>2 DEF Level
  <2>4. DOMAIN << >> = {}
    OBVIOUS
  <2> HIDE DEF t
  <2>5. SameFrames(scopes, t)
    BY <2>2, <2>3, <2>4, OuterFrames
  <2> QED BY <1>1, <2>1, <2>2, <2>5 DEF Enters, Op
<1>3. CASE ExitScope
  <2> DEFINE t == ScopeStack_exitScope(scopes)
  <2>1. scopes' = t /\ Opcode = Op.EXITSCOPE
    BY <1>3 DEF ExitScope, Rescope, Executes
  <2>2. Outer(scopes, t) /\ Len(t) <= Len(scopes) /\ ScopesOK(t)
    BY <1>1, ExitSound
  <2>3. Len(t) >= Len(scopes) - 1
    <3>1. PICK L : scopes \in Seq(L)
      BY DEF MemoryInv, ScopesOK
    <3> QED BY <3>1 DEF ScopeStack_exitScope
  <2>4. DOMAIN t \subseteq DOMAIN scopes
    <3> HIDE DEF t
    <3> QED BY <1>1, <2>2, ScopesFrom
  <2> HIDE DEF t
  <2>5. SameFrames(scopes, t)
    BY <2>2, <2>4, OuterFrames
  <2> QED BY <1>1, <2>1, <2>3, <2>5 DEF Enters, Op
<1>4. CASE Declare
  <2> DEFINE level == ListMap_declare(scopes[1], Name)
  <2>1. Opcode = Op.DECLARE /\ scopes # << >>
    BY <1>4, Runs DEF Crashes, Declare, Executes
  <2>2. scopes' = [scopes EXCEPT ![1] = level]
    BY <1>4 DEF Declare, Rescope, ScopeStack_declare
  <2>3. /\ DOMAIN level = DOMAIN scopes[1] \cup {Name}
        /\ \A x \in DOMAIN scopes[1] : level[x] = scopes[1][x]
    BY DEF ListMap_declare, ListMap_get
  <2>4. 1 \in DOMAIN scopes
    BY <1>1, <2>1, ScopesFrom DEF ScopesOK
  <2> HIDE DEF level
  <2>5. SameReturn(scopes[1], level)
    BY <2>3, Reading DEF SameReturn
  <2>6. SameFrames(scopes, scopes') /\ Len(scopes') = Len(scopes)
    BY <1>1, <2>2, <2>4, <2>5, LevelChanged
  <2> QED BY <1>1, <2>1, <2>6 DEF Enters, Op
<1>5. CASE Store
  <2> DEFINE k == Innermost(Declaring(scopes, Name))
             level == [scopes[k] EXCEPT ![Name] = Stack_pop(1)]
  <2>1. Opcode = Op.STORE /\ Declaring(scopes, Name) # {}
    BY <1>5, Runs DEF Crashes, Store, Executes
  <2>2. scopes' = [scopes EXCEPT ![k] = level]
    BY <1>5 DEF Store, ScopeStack_store, ListMap_put
  <2>3. k \in DOMAIN scopes
    <3>1. PICK L : scopes \in Seq(L)
      BY <1>1 DEF ScopesOK
    <3>2. Declaring(scopes, Name) \in SUBSET (1 .. Len(scopes))
          /\ DOMAIN scopes = 1 .. Len(scopes)
      BY <3>1 DEF Declaring
    <3>3. PICK j \in Declaring(scopes, Name) :
            \A i \in Declaring(scopes, Name) : j <= i
      BY <2>1, <3>1, <3>2, InnermostExists
    <3>4. k = j
      BY <3>2, <3>3, InnermostIs
    <3> QED BY <3>2, <3>3, <3>4
  <2>4. /\ DOMAIN level = DOMAIN scopes[k]
        /\ \A x \in DOMAIN scopes[k] : x # Name => level[x] = scopes[k][x]
    OBVIOUS
  <2> HIDE DEF level, k
  <2>5. SameReturn(scopes[k], level)
    BY <2>4, Reading DEF SameReturn
  <2>6. SameFrames(scopes, scopes') /\ Len(scopes') = Len(scopes)
    BY <1>1, <2>2, <2>3, <2>4, <2>5, LevelChanged
  <2> QED BY <1>1, <2>1, <2>6 DEF Enters, Op
<1> QED BY <1>2, <1>3, <1>4, <1>5

\* ENTERSCOPE, EXITSCOPE, DECLARE and STORE keep the invariant.
LEMMA ScopeStepsLead ==
  ASSUME Compiled(program), MemoryInv, MemoryInv', CodeInv, Executable,
         EnterScope \/ ExitScope \/ Declare \/ Store
  PROVE  CodeInv'
<1>1. /\ UNCHANGED <<program, file, calls, inProject, procs>>
      /\ pos' = Following
      /\ Opcode \in {Op.ENTERSCOPE, Op.EXITSCOPE, Op.DECLARE, Op.STORE}
  BY DEF EnterScope, ExitScope, Declare, Store, Rescope, Continue, Goto, self,
         ghosts, Executes
<1>2. pos' \in Leads(program, file, pos, inProject)
  BY <1>1, Onwards DEF CodeInv, Op
<1>3. ScopesOK(scopes) /\ ScopesOK(scopes')
  BY DEF MemoryInv
<1>4. CodeStays
  BY <1>1, <1>2, <1>3, ScopesKeepCode, LedTo
<1>5. ProceduresOK'
  BY <1>1, ProceduresStay DEF CodeInv
<1> QED BY <1>3, <1>4, <1>5, ScopesKeepCode, Proceeds

\* What does not move keeps the invariant.
LEMMA CodeUntouched ==
  ASSUME CodeInv,
         UNCHANGED <<program, file, pos, inProject, procs, scopes, calls>>
  PROVE  CodeInv'
<1>1. PlaceOK'
  BY DEF CodeInv, PlaceOK, Starts
<1>2. ProceduresOK'
  BY DEF CodeInv, ProceduresOK
<1>h. \A i : Height(i)' = Height(i)
  BY DEF Height
<1>c. \A i : CallOK(i)' = CallOK(i) /\ FrameOK(i)' = FrameOK(i)
  BY DEF CallOK, FrameOK, Height
<1>3. FramesOK'
  BY <1>c, <1>h DEF CodeInv, FramesOK
<1>a. \A d, r : AddressOK(d, r)' = AddressOK(d, r)
  BY DEF AddressOK, Height
<1>4. AddressesOK'
  BY <1>a DEF CodeInv, AddressesOK, CallsOwn
<1> QED BY <1>1, <1>2, <1>3, <1>4 DEF CodeInv

\* The end of a component, however it comes, moves nothing.
LEMMA OthersKeepCode ==
  ASSUME CodeInv, Fails \/ End \/ StoppedByOther \/ Done \/ UNCHANGED vars
  PROVE  CodeInv'
<1>1. UNCHANGED <<program, file, pos, inProject, procs, scopes, calls>>
  BY DEF Fails, End, StoppedByOther, Done, vars, place, self, memory, ghosts
<1> QED BY <1>1, CodeUntouched

\* A new scope has the names that are bound in it.
LEMMA NewScopeBound ==
  ASSUME NEW s, ScopesOK(s), NEW N, NEW names \in Seq(N), NEW values
  PROVE  LET t == Bind(ScopeStack_enterScope(s), names, values)
         IN /\ Outer(s, t) /\ Len(t) = Len(s) + 1 /\ Len(s) \in Nat
            /\ DOMAIN t = 1 .. Len(s) + 1 /\ DOMAIN s = 1 .. Len(s)
            /\ \A d \in DOMAIN t \ DOMAIN s : d = Len(s) + 1
            /\ Level(t, Len(s) + 1) = t[1]
            /\ DOMAIN t[1] = Range(names)
            /\ \A x \in Range(names) :
                 \E i \in DOMAIN names : names[i] = x /\ t[1][x] = values[i]
<1> DEFINE u == ScopeStack_enterScope(s)
           t == Bind(u, names, values)
<1>1. ScopesOK(u) /\ Outer(s, u) /\ u # << >> /\ u[1] = << >>
      /\ Len(u) = Len(s) + 1 /\ Len(s) \in Nat
  BY EnterSound
<1> HIDE DEF u
<1>2. /\ DOMAIN t = DOMAIN u /\ Len(t) = Len(u)
      /\ \A k \in DOMAIN u : k # 1 => t[k] = u[k]
      /\ DOMAIN t[1] = DOMAIN u[1] \cup Range(names)
      /\ \A x \in Range(names) :
           \E i \in DOMAIN names : names[i] = x /\ t[1][x] = values[i]
  <2>1. (\E L : u \in Seq(L)) /\ u # << >>
    BY <1>1 DEF ScopesOK
  <2> QED BY <2>1, BindSound
<1> HIDE DEF t
<1>3. DOMAIN u = 1 .. Len(s) + 1 /\ DOMAIN s = 1 .. Len(s)
  BY <1>1, ScopesFrom
<1>4. DOMAIN t[1] = Range(names)
  <2>1. DOMAIN << >> = {}
    OBVIOUS
  <2> QED BY <1>1, <1>2, <2>1
<1>5. Outer(s, t)
  <2>1. \A d \in DOMAIN s : Len(t) + 1 - d \in DOMAIN u /\ Len(t) + 1 - d # 1
    BY <1>1, <1>2, <1>3
  <2>2. \A d \in DOMAIN s : Level(t, d) = Level(u, d)
    BY <1>2, <2>1 DEF Level
  <2>3. \A d \in DOMAIN s : Level(u, d) = Level(s, d)
    BY <1>1, <1>3 DEF Outer
  <2> QED BY <2>2, <2>3 DEF Outer
<1>6. \A d \in DOMAIN t \ DOMAIN s : d = Len(s) + 1
  BY <1>1, <1>2, <1>3
<1>7. Level(t, Len(s) + 1) = t[1]
  BY <1>1, <1>2 DEF Level
<1> QED BY <1>1, <1>2, <1>3, <1>4, <1>5, <1>6, <1>7 DEF t, u

\* PROJECT_ENTRY leads to the block for the type, or the default one.
LEMMA ProjectEntered ==
  ASSUME Compiled(program), MemoryInv, MemoryInv', TypesOK, CodeInv, Executable,
         ProjectEntry
  PROVE  CodeInv'
<1> DEFINE block == ProjectBlock(Bytes, Following, ProjectedType, inProject)
           u == ScopeStack_enterScope(scopes)
           names == <<Name>>
           values == <<Top.refs[CONTENT]>>
<1>1. /\ UNCHANGED <<program, file, calls, procs>> /\ Opcode = Op.PROJECT_ENTRY
      /\ pos' = block.next /\ inProject' = (inProject \/ block.found)
      /\ scopes' = Bind(u, names, values)
  BY DEF ProjectEntry, Goto, ghosts, Executes, Block
<1>2. block.next \notin {REFUSED, HUNG}
  BY <1>1, Runs DEF Refuses, Executable, Outcome, Block
<1>3. ~Inside(program, file, pos) /\ calls = << >>
  BY <1>1, UncalledAt
<1>4. /\ pos \in At(program, file, Op.PROJECT_ENTRY) /\ file \in Files
      /\ Bytes = program.bytes[file] /\ Following = Ends(program.bytes[file], pos)
      /\ inProject \in InProjectsAt(program, file, pos)
  BY <1>1, Fetch DEF CodeInv, Bytes
<1>5. ProjectedType \in Range(Type) \ {Type.UNKNOWN}
  BY <1>1, ProjectedKnown DEF KnownTypes
<1> HIDE DEF block
<1>6. /\ block.next \in program.starts[file] /\ ~Inside(program, file, block.next)
      /\ Enclosed(program, file, block.next) => inProject \/ block.found
  BY <1>2, <1>4, <1>5 DEF Compiled, BlocksFound, block
<1>7. inProject' \in InProjects(program)
  <2>1. InProjects(program) = BOOLEAN
    BY <1>4 DEF InProjects
  <2>2. inProject' \in BOOLEAN
    BY <1>1
  <2> QED BY <2>1, <2>2
<1>8. CodeStays
  BY <1>1, <1>3, <1>6, <1>7 DEF CodeStays, Starts
<1>9. ScopesOK(scopes) /\ ScopesOK(scopes')
  BY DEF MemoryInv
<1>10. SameFrames(scopes, scopes')
  <2>1. names \in Seq({Name}) /\ Range(names) = {Name}
    BY DEF Range
  <2> HIDE DEF names, values
  <2>2. /\ Outer(scopes, scopes')
        /\ \A d \in DOMAIN scopes' \ DOMAIN scopes : d = Len(scopes) + 1
        /\ DOMAIN Level(scopes', Len(scopes) + 1) = {Name}
    <3> DEFINE t == Bind(ScopeStack_enterScope(scopes), names, values)
    <3>1. /\ Outer(scopes, t) /\ \A d \in DOMAIN t \ DOMAIN scopes : d = Len(scopes) + 1
          /\ Level(t, Len(scopes) + 1) = t[1] /\ DOMAIN t[1] = Range(names)
      BY <1>9, <2>1, NewScopeBound
    <3>2. scopes' = t
      BY <1>1
    <3> HIDE DEF t
    <3> QED BY <2>1, <3>1, <3>2
  <2>3. \A d \in DOMAIN scopes' \ DOMAIN scopes :
          RETURN_ADDRESS \notin DOMAIN Level(scopes', d)
    BY <2>2, Reading
  <2> QED BY <2>2, <2>3, OuterFrames
<1>11. ProceduresOK'
  BY <1>1, ProceduresStay DEF CodeInv
<1> QED BY <1>8, <1>9, <1>10, <1>11, Proceeds

\* PROJECT_EXIT ends a project, outside of procedures.
LEMMA ProjectLeft ==
  ASSUME Compiled(program), MemoryInv, MemoryInv', CodeInv, Executable, ProjectExit
  PROVE  CodeInv'
<1> DEFINE t == ScopeStack_exitScope(scopes)
<1>1. /\ UNCHANGED <<program, file, calls, procs>> /\ Opcode = Op.PROJECT_EXIT
      /\ pos' = Following /\ inProject' = FALSE /\ scopes' = t
  BY DEF ProjectExit, Continue, Goto, ghosts, Executes
<1>2. ~Inside(program, file, pos) /\ calls = << >>
  BY <1>1, UncalledAt
<1>3. Following \in Leads(program, file, pos, inProject)
  BY <1>1, Onwards DEF CodeInv, Op
<1>4. /\ Following \in Starts /\ ~Inside(program, file, Following)
      /\ ~Enclosed(program, file, Following)
  BY <1>1, <1>2, <1>3, LeadsInStep DEF CodeInv
<1>5. inProject' \in InProjects(program)
  BY <1>1 DEF InProjects
<1>6. CodeStays
  BY <1>1, <1>2, <1>4, <1>5 DEF CodeStays
<1>7. ScopesOK(scopes) /\ ScopesOK(t) /\ Outer(scopes, t) /\ Len(t) <= Len(scopes)
  BY ExitSound DEF MemoryInv
<1> HIDE DEF t
<1>8. DOMAIN t \subseteq DOMAIN scopes
  <2>1. Len(scopes) \in Nat /\ Len(t) \in Nat /\ DOMAIN t = 1 .. Len(t)
        /\ DOMAIN scopes = 1 .. Len(scopes)
    BY <1>7, ScopesFrom
  <2> QED BY <1>7, <2>1
<1>9. SameFrames(scopes, scopes') /\ ScopesOK(scopes')
  BY <1>1, <1>7, <1>8, OuterFrames
<1>10. ProceduresOK'
  BY <1>1, ProceduresStay DEF CodeInv
<1> QED BY <1>6, <1>7, <1>9, <1>10, Proceeds

\* The scope of the call under way holds the way back.
LEMMA CallHolds ==
  ASSUME MemoryInv, CodeInv, calls # << >>
  PROVE  /\ 1 \in DOMAIN calls /\ CallOK(1) /\ FrameOK(1)
         /\ Height(1) \in 1 .. Len(scopes)
         /\ Len(scopes) + 1 - Height(1) \in Holding(scopes, RETURN_ADDRESS)
<1>1. PICK C : calls \in Seq(C)
  BY DEF CodeInv, FramesOK
<1>2. 1 \in DOMAIN calls
  BY <1>1
<1>3. CallOK(1) /\ FrameOK(1)
  BY <1>2 DEF CodeInv, FramesOK
<1>4. Height(1) \in Nat \ {0} /\ Height(1) <= Len(scopes)
  BY <1>3 DEF CallOK, FrameOK, Height
<1>5. Len(scopes) \in Nat /\ DOMAIN scopes = 1 .. Len(scopes)
  BY ScopesFrom DEF MemoryInv
<1> DEFINE k == Len(scopes) + 1 - Height(1)
<1>6. k \in DOMAIN scopes /\ Level(scopes, Height(1)) = scopes[k]
  BY <1>4, <1>5 DEF Level
<1> HIDE DEF k
<1>7. ListMap_get(scopes[k], RETURN_ADDRESS) # NULL
  BY <1>3, <1>6, ProgramsAssumption DEF FrameOK, CallOK, ListMap_get
<1> QED BY <1>2, <1>3, <1>4, <1>5, <1>6, <1>7 DEF Holding, k

\* In a body a call is under way, or an earlier one has left its scope.
LEMMA BodyHolds ==
  ASSUME Compiled(program), MemoryInv, CodeInv, Inside(program, file, pos)
  PROVE  Holding(scopes, RETURN_ADDRESS) # {}
<1>1. CASE calls # << >>
  BY <1>1, CallHolds
<1>2. CASE calls = << >>
  <2>1. file = "own"
    BY <1>2 DEF CodeInv, PlaceOK, MemoryInv
  <2>2. PICK d \in DOMAIN scopes : RETURN_ADDRESS \in DOMAIN Level(scopes, d)
    BY DEF CodeInv, PlaceOK, InBody
  <2> DEFINE r == Level(scopes, d)[RETURN_ADDRESS]
             k == Len(scopes) + 1 - d
  <2>3. AddressOK(d, r)
    BY <2>1, <2>2 DEF CodeInv, AddressesOK, CallsOwn
  <2>4. r \in Nat
    BY <2>3 DEF AddressOK, Compiled, Files
  <2>5. k \in DOMAIN scopes /\ Level(scopes, d) = scopes[k]
    BY ScopesFrom DEF MemoryInv
  <2>6. ListMap_get(scopes[k], RETURN_ADDRESS) # NULL
    BY <2>2, <2>4, <2>5, ProgramsAssumption DEF ListMap_get
  <2> QED BY <2>5, <2>6 DEF Holding
<1> QED BY <1>1, <1>2

\* BLOCKEND, where it is not taken for a return, goes on with the project or
\* behind it.
LEMMA BlockEnded ==
  ASSUME Compiled(program), MemoryInv, CodeInv, Executable, BlockEnd,
         inProject \/ Holding(scopes, RETURN_ADDRESS) = {}
  PROVE  CodeInv'
<1> DEFINE b == program.bytes[file]
<1>1. Opcode = Op.BLOCKEND
      /\ UNCHANGED <<program, file, calls, inProject, procs, scopes>>
      /\ pos' = IF inProject THEN AfterProject ELSE Following
  BY DEF BlockEnd, JumpTo, Goto, Executes, self, memory, ghosts
<1>2. b[pos] = Opcode /\ Following = Ends(b, pos) /\ Bytes = b
  BY Fetch DEF CodeInv, Bytes
<1>3. inProject => pos' # REFUSED
  BY <1>1, Runs DEF Refuses
<1>4. ~inProject => ~Inside(program, file, pos)
  BY BodyHolds
<1> HIDE DEF b
<1>5. AfterProject =
        IF ByteAt(b, pos + 1) = Op.PROJECT_EXIT THEN pos + 2
        ELSE SkipToNext(b, pos + 2, Op.PROJECT_EXIT, inProject).next
  BY <1>2 DEF AfterProject, SkipTo, Operand
<1>6. pos' \in Leads(program, file, pos, inProject)
  BY <1>1, <1>2, <1>3, <1>4, <1>5 DEF Leads, Op, b
<1>7. Opcode \notin {Op.ENTERSCOPE, Op.EXITSCOPE}
  BY <1>1 DEF Op
<1>8. ProceduresOK'
  BY <1>1, ProceduresStay DEF CodeInv
<1> QED BY <1>1, <1>6, <1>7, <1>8, Flat

\* A sequence with one more element in front.
LEMMA PutBefore ==
  ASSUME NEW C, NEW s \in Seq(C), NEW x
  PROVE  LET t == <<x>> \o s
         IN /\ \E D : t \in Seq(D)
            /\ t # << >> /\ t[1] = x /\ 1 \in DOMAIN t
            /\ \A i \in DOMAIN s : i + 1 \in DOMAIN t /\ t[i + 1] = s[i]
            /\ \A i \in DOMAIN t :
                 i \in Nat /\ (i = 1 \/ (i - 1 \in DOMAIN s /\ i > 1))
<1> DEFINE t == <<x>> \o s
<1>1. /\ t \in Seq(C \cup {x}) /\ Len(t) = Len(s) + 1 /\ t[1] = x /\ Len(s) \in Nat
      /\ \A k \in 1 .. Len(s) : t[k + 1] = s[k]
      /\ DOMAIN s = 1 .. Len(s) /\ DOMAIN t = 1 .. Len(s) + 1
  OBVIOUS
<1> HIDE DEF t
<1>2. \E D : t \in Seq(D)
  BY <1>1
<1>3. /\ t # << >> /\ 1 \in DOMAIN t
      /\ \A i \in DOMAIN s : i + 1 \in DOMAIN t /\ t[i + 1] = s[i]
      /\ \A i \in DOMAIN t :
           i \in Nat /\ (i = 1 \/ (i - 1 \in DOMAIN s /\ i > 1))
  BY <1>1
<1> QED BY <1>1, <1>2, <1>3 DEF t

\* The calls under way: the scope of a later one is further in.
LEMMA Heights ==
  ASSUME CodeInv
  PROVE  /\ \A i \in DOMAIN calls :
              /\ i \in Nat \ {0} /\ 1 \in DOMAIN calls /\ calls # << >>
              /\ Height(i) \in Nat \ {0} /\ Height(i) <= Len(scopes)
              /\ Height(i) <= Height(1)
              /\ i > 1 => Height(i) < Height(1)
<1>1. PICK C : calls \in Seq(C)
  BY DEF CodeInv, FramesOK
<1> SUFFICES ASSUME NEW i \in DOMAIN calls
             PROVE  /\ i \in Nat \ {0} /\ 1 \in DOMAIN calls /\ calls # << >>
                    /\ Height(i) \in Nat \ {0} /\ Height(i) <= Len(scopes)
                    /\ Height(i) <= Height(1)
                    /\ i > 1 => Height(i) < Height(1)
  OBVIOUS
<1>2. i \in Nat \ {0} /\ 1 \in DOMAIN calls /\ calls # << >>
  BY <1>1
<1>3. CallOK(i) /\ FrameOK(i) /\ CallOK(1)
  BY <1>2 DEF CodeInv, FramesOK
<1>4. /\ Height(i) \in Nat \ {0} /\ Height(i) <= Len(scopes)
      /\ Height(1) \in Nat
  BY <1>3 DEF CallOK, FrameOK, Height
<1>5. i > 1 => Height(i) < Height(1)
  BY <1>2, <1>3 DEF CallOK
<1> QED BY <1>2, <1>4, <1>5

\* A body that an inner scope has stayed open for is below the outer ones.
LEMMA BodyBelow ==
  ASSUME NEW s, NEW t, NEW d \in Int, NEW n, InBody(s, d, n), NEW c \in Int, NEW m,
         \A e \in DOMAIN s : e < d => e \in DOMAIN t /\ Level(t, e) = Level(s, e),
         DOMAIN s \subseteq Int, m \in 0 .. n + c - d, d <= c
  PROVE  InBody(t, c, m)
<1>1. PICK e \in DOMAIN s : /\ e < d /\ RETURN_ADDRESS \in DOMAIN Level(s, e)
                            /\ n \in 0 .. d - 1 - e
  BY DEF InBody
<1>2. e \in DOMAIN t /\ RETURN_ADDRESS \in DOMAIN Level(t, e)
  BY <1>1
<1>3. e < c /\ m \in 0 .. c - 1 - e
  BY <1>1
<1> QED BY <1>2, <1>3 DEF InBody

-----------------------------------------------------------------------------
(***************************************************************************)
(* Calls of procedures.                                                    *)
(***************************************************************************)
\* A call: one more scope, which says where to return to.
Called(f, position) ==
  /\ file' = f /\ pos' = position
  /\ UNCHANGED <<program, inProject, procs>>
  /\ calls' = <<[resume |-> Following, file |-> file,
                 names |-> ScopeNames(scopes)]>> \o calls
  /\ Outer(scopes, scopes') /\ Len(scopes') = Len(scopes) + 1
  /\ LET level == Level(scopes', Len(scopes) + 1)
     IN /\ RETURN_ADDRESS \in DOMAIN level /\ level[RETURN_ADDRESS] = Following
        /\ f = "main" => /\ RETURN_SOURCE \in DOMAIN level
                         /\ level[RETURN_SOURCE] = "own"

\* A call keeps the invariant: its record and its scope are the latest, and all
\* others are where they were.
LEMMA CallsBegin ==
  ASSUME Compiled(program), MemoryInv, MemoryInv', CodeInv, Executable,
         Opcode = Op.PROCCALL, NEW f \in Files, f = "own" => file = "own",
         NEW position, Entry(program, f, position), Called(f, position)
  PROVE  CodeInv'
<1> DEFINE n == Len(scopes)
           call == [resume |-> Following, file |-> file,
                    names |-> ScopeNames(scopes)]
<1>1. /\ n \in Nat /\ DOMAIN scopes = 1 .. n
      /\ Len(scopes') = n + 1 /\ DOMAIN scopes' = 1 .. n + 1
  BY ScopesFrom DEF MemoryInv, Called
<1>2. \A d \in 1 .. n : Level(scopes', d) = Level(scopes, d)
  <2>1. Outer(scopes, scopes')
    BY DEF Called
  <2> QED BY <1>1, <2>1 DEF Outer
<1>3. /\ \E D : calls' \in Seq(D)
      /\ calls' # << >> /\ calls'[1] = call /\ 1 \in DOMAIN calls'
      /\ \A i \in DOMAIN calls : i + 1 \in DOMAIN calls' /\ calls'[i + 1] = calls[i]
      /\ \A i \in DOMAIN calls' :
           i \in Nat /\ (i = 1 \/ (i - 1 \in DOMAIN calls /\ i > 1))
  <2>1. PICK C : calls \in Seq(C)
    BY DEF CodeInv, FramesOK
  <2>2. calls' = <<call>> \o calls
    BY DEF Called
  <2> HIDE DEF call
  <2> QED BY <2>1, <2>2, PutBefore
<1>4. /\ call.resume = Following /\ call.file = file
      /\ call.names = [k \in 1 .. n |-> DOMAIN scopes[k]]
      /\ Len(call.names) = n /\ call.names = [k \in 1 .. n |-> call.names[k]]
  BY <1>1 DEF ScopeNames
<1> HIDE DEF call
<1>5. Height(1)' = n + 1
  BY <1>3, <1>4 DEF Height
<1>6. \A i \in DOMAIN calls : Height(i + 1)' = Height(i)
  BY <1>3 DEF Height
<1>7. /\ Following \in program.starts[file] /\ Following \in Nat
      /\ Enclosed(program, file, Following) => inProject
      /\ Inside(program, file, Following) <=> Inside(program, file, pos)
      /\ Inside(program, file, Following) =>
           Within(program, file, Following) \in 0 .. Within(program, file, pos)
  <2>1. Following \in Leads(program, file, pos, inProject)
    BY Onwards DEF CodeInv, Op
  <2>2. Enters(Opcode) = 0
    BY DEF Enters, Op
  <2>3. Inside(program, file, pos) => Within(program, file, pos) \in Nat
    BY DEF CodeInv, PlaceOK, InBody
  <2>4. /\ Following \in Starts /\ Following \in Nat
        /\ Enclosed(program, file, Following) => inProject
        /\ Inside(program, file, Following) <=> Inside(program, file, pos)
        /\ Inside(program, file, Following) =>
             Within(program, file, Following) \in
               0 .. Within(program, file, pos) + Enters(Opcode)
    BY <2>1, LeadsInStep DEF CodeInv
  <2> QED BY <2>2, <2>3, <2>4 DEF Starts
<1>8. /\ f \in {"own", "main"} /\ file \in {"own", "main"}
  BY DEF MemoryInv, Files
<1>9. /\ position \in program.starts[f] /\ ~Enclosed(program, f, position)
      /\ Inside(program, f, position) /\ Within(program, f, position) = 0
  BY DEF Entry
<1>10. /\ file' = f /\ pos' = position /\ program' = program
       /\ inProject' = inProject /\ procs' = procs
  BY DEF Called
<1>l. LET level == Level(scopes', n + 1)
      IN /\ RETURN_ADDRESS \in DOMAIN level /\ level[RETURN_ADDRESS] = Following
         /\ f = "main" => /\ RETURN_SOURCE \in DOMAIN level
                          /\ level[RETURN_SOURCE] = "own"
  BY DEF Called
<1>11. PlaceOK'
  <2>1. InBody(scopes', n + 2, 0)
    BY <1>1, <1>l DEF InBody
  <2>2. Len(scopes') + 1 = n + 2
    BY <1>1
  <2> QED BY <1>3, <1>9, <1>10, <2>1, <2>2 DEF PlaceOK, CodeInv, Starts
<1>12. ProceduresOK'
  BY <1>10, ProceduresStay DEF CodeInv
<1>13. FramesOK'
  <2>1. CallOK(1)'
    <3>1. call.file \in Files /\ call.resume \in Nat
      BY <1>4, <1>7, <1>8 DEF Files
    <3>2. \A j \in DOMAIN calls' : ~(j < 1)
      BY <1>3
    <3> QED BY <1>1, <1>3, <1>4, <3>1, <3>2 DEF CallOK
  <2>2. FrameOK(1)'
    <3>1. ASSUME NEW d \in 1 .. n
          PROVE  DOMAIN Level(scopes', d) = call.names[(n + 1) - d]
      <4>1. (n + 1) - d \in 1 .. n /\ Level(scopes, d) = scopes[(n + 1) - d]
        BY <1>1 DEF Level
      <4> QED BY <1>2, <1>4, <4>1
    <3> QED BY <1>1, <1>3, <1>4, <1>5, <1>l, <3>1 DEF FrameOK
  <2>3. ASSUME NEW i \in DOMAIN calls
        PROVE  CallOK(i + 1)' /\ FrameOK(i + 1)'
    <3>1. CallOK(i) /\ FrameOK(i) /\ i \in Nat /\ Height(i) \in Nat \ {0}
          /\ Height(i) <= n
      BY Heights DEF CodeInv, FramesOK
    <3>2. \A j \in DOMAIN calls' : j < i + 1 => Height(i) < Height(j)'
      <4> SUFFICES ASSUME NEW j \in DOMAIN calls', j < i + 1
                   PROVE  Height(i) < Height(j)'
        OBVIOUS
      <4>1. CASE j = 1
        BY <1>1, <1>5, <3>1, <4>1
      <4>2. CASE j # 1
        <5> DEFINE k == j - 1
        <5>0. j \in Nat /\ j - 1 \in DOMAIN calls
          BY <1>3, <4>2
        <5>1. k \in DOMAIN calls /\ k < i /\ j = k + 1
          BY <3>1, <5>0
        <5> HIDE DEF k
        <5>2. Height(i) < Height(k)
          BY <3>1, <5>1 DEF CallOK
        <5>3. Height(j)' = Height(k)
          BY <1>6, <5>1
        <5> QED BY <5>2, <5>3
      <4> QED BY <4>1, <4>2
    <3>3. CallOK(i + 1)'
      BY <1>3, <1>6, <3>1, <3>2 DEF CallOK
    <3>4. \A d \in 1 .. Height(i) : Level(scopes', d) = Level(scopes, d)
      BY <1>1, <1>2, <3>1
    <3>5. FrameOK(i + 1)'
      <4>1. Height(i) \in 1 .. Height(i) /\ Height(i) <= n + 1
            /\ \A d \in 1 .. Height(i) - 1 : d \in 1 .. Height(i)
        BY <1>1, <3>1
      <4> QED BY <1>1, <1>3, <1>6, <3>1, <3>4, <4>1 DEF FrameOK
    <3> QED BY <3>3, <3>5
  <2>4. ASSUME NEW i \in DOMAIN calls' PROVE CallOK(i)' /\ FrameOK(i)'
    <3>1. CASE i = 1
      BY <2>1, <2>2, <3>1
    <3>2. CASE i # 1
      <4> DEFINE k == i - 1
      <4>1. k \in DOMAIN calls /\ i = k + 1
        BY <1>3, <3>2
      <4> HIDE DEF k
      <4> QED BY <2>3, <4>1
    <3> QED BY <3>1, <3>2
  <2>5. Within(program, f, position) \in 0 .. Len(scopes') - Height(1)'
    BY <1>1, <1>5, <1>9
  <2> QED BY <1>3, <1>5, <1>10, <1>l, <2>4, <2>5 DEF FramesOK
<1>14. AddressesOK'
  <2> SUFFICES ASSUME CallsOwn' PROVE
        /\ \A i \in DOMAIN calls' : calls'[i].file = "own"
        /\ \A d \in DOMAIN scopes' : \A r :
             /\ RETURN_ADDRESS \in DOMAIN Level(scopes', d)
             /\ Level(scopes', d)[RETURN_ADDRESS] = r
             => AddressOK(d, r)'
    BY DEF AddressesOK
  <2>1. file = "own"
    BY <1>3, <1>4, <1>8, <1>10 DEF CallsOwn
  <2>2. CallsOwn
    BY <2>1 DEF CallsOwn
  <2>3. \A i \in DOMAIN calls' : calls'[i].file = "own"
    <3> SUFFICES ASSUME NEW i \in DOMAIN calls' PROVE calls'[i].file = "own"
      OBVIOUS
    <3>1. CASE i = 1
      BY <1>3, <1>4, <2>1, <3>1
    <3>2. CASE i # 1
      <4> DEFINE k == i - 1
      <4>1. k \in DOMAIN calls /\ i = k + 1
        BY <1>3, <3>2
      <4> HIDE DEF k
      <4> QED BY <1>3, <2>2, <4>1 DEF CodeInv, AddressesOK
    <3> QED BY <3>1, <3>2
  <2>4. ASSUME NEW d \in 1 .. n, NEW r,
               RETURN_ADDRESS \in DOMAIN Level(scopes', d),
               Level(scopes', d)[RETURN_ADDRESS] = r
        PROVE  AddressOK(d, r)'
    <3>1. AddressOK(d, r)
      BY <1>1, <1>2, <2>2, <2>4 DEF CodeInv, AddressesOK
    <3>2. ASSUME Inside(program, "own", r)
          PROVE  InBody(scopes', d, Within(program, "own", r))
      <4> DEFINE m == Within(program, "own", r)
      <4>1. InBody(scopes, d, m)
        BY <3>1, <3>2 DEF AddressOK
      <4>2. m \in Nat
        BY <4>1 DEF InBody
      <4> HIDE DEF m
      <4>3. \A e \in DOMAIN scopes :
              e < d => e \in DOMAIN scopes' /\ Level(scopes', e) = Level(scopes, e)
        BY <1>1, <1>2
      <4>4. DOMAIN scopes \subseteq Int /\ m \in 0 .. m + d - d /\ d <= d /\ d \in Int
        BY <1>1, <4>2
      <4>5. InBody(scopes', d, m)
        BY <4>1, <4>3, <4>4, BodyBelow
      <4> QED BY <4>5 DEF m
    <3>3. ASSUME NEW i \in DOMAIN calls'
          PROVE  /\ Height(i)' <= d => (Enclosed(program, "own", r) => inProject)
                 /\ Height(i)' < d =>
                      /\ Inside(program, "own", r)
                      /\ Within(program, "own", r) \in 0 .. d - 1 - Height(i)'
      <4>1. CASE i = 1
        BY <1>1, <1>5, <4>1
      <4>2. CASE i # 1
        <5> DEFINE k == i - 1
        <5>1. k \in DOMAIN calls /\ i = k + 1
          BY <1>3, <4>2
        <5> HIDE DEF k
        <5>2. Height(i)' = Height(k)
          BY <1>6, <5>1
        <5> QED BY <3>1, <5>1, <5>2 DEF AddressOK
      <4> QED BY <4>1, <4>2
    <3> QED BY <1>10, <3>1, <3>2, <3>3 DEF AddressOK
  <2>5. ASSUME NEW c, c = n + 1, NEW r, r = Following
        PROVE  AddressOK(c, r)'
    <3> DEFINE m == Within(program, "own", Following)
               w == Within(program, "own", pos)
    <3>1. /\ Following \in program.starts.own
          /\ Enclosed(program, "own", Following) => inProject
          /\ Inside(program, "own", Following) <=> Inside(program, "own", pos)
          /\ Inside(program, "own", Following) => m \in 0 .. w
      BY <1>7, <2>1
    <3>2. /\ Inside(program, "own", pos) => InBody(scopes, n + 1, w)
          /\ calls # << >> => Inside(program, "own", pos)
          /\ calls # << >> => w \in 0 .. n - Height(1)
      BY <2>1 DEF CodeInv, PlaceOK, FramesOK
    <3> HIDE DEF m, w
    <3>3. ASSUME Inside(program, "own", Following)
          PROVE  InBody(scopes', n + 1, m)
      <4>1. InBody(scopes, n + 1, w)
        BY <3>1, <3>2, <3>3
      <4>2. w \in Nat
        BY <4>1 DEF InBody
      <4>3. \A e \in DOMAIN scopes :
              e < n + 1 => e \in DOMAIN scopes' /\ Level(scopes', e) = Level(scopes, e)
        BY <1>1, <1>2
      <4>4. DOMAIN scopes \subseteq Int /\ m \in 0 .. w + (n + 1) - (n + 1)
            /\ n + 1 <= n + 1 /\ n + 1 \in Int
        BY <1>1, <3>1, <3>3, <4>2
      <4> QED BY <4>1, <4>3, <4>4, BodyBelow
    <3>4. ASSUME NEW i \in DOMAIN calls', Height(i)' < n + 1
          PROVE  /\ Inside(program, "own", Following)
                 /\ m \in 0 .. (n + 1) - 1 - Height(i)'
      <4> DEFINE k == i - 1
      <4>1. i # 1
        BY <1>1, <1>5, <3>4
      <4>2. k \in DOMAIN calls /\ i = k + 1
        BY <1>3, <4>1
      <4> HIDE DEF k
      <4>3. Height(i)' = Height(k) /\ Height(k) \in Nat /\ Height(k) <= Height(1)
            /\ Height(1) \in Nat /\ calls # << >>
        BY <1>6, <4>2, Heights
      <4> QED BY <1>1, <3>1, <3>2, <4>3
    <3>5. \A i \in DOMAIN calls' :
            /\ Height(i)' <= n + 1 =>
                 (Enclosed(program, "own", Following) => inProject)
            /\ Height(i)' < n + 1 =>
                 /\ Inside(program, "own", Following)
                 /\ m \in 0 .. (n + 1) - 1 - Height(i)'
      BY <3>1, <3>4
    <3>6. /\ r \in program.starts.own
          /\ Inside(program, "own", r) => InBody(scopes', c, Within(program, "own", r))
          /\ \A i \in DOMAIN calls' :
               /\ Height(i)' <= c => (Enclosed(program, "own", r) => inProject)
               /\ Height(i)' < c =>
                    /\ Inside(program, "own", r)
                    /\ Within(program, "own", r) \in 0 .. c - 1 - Height(i)'
      BY <2>5, <3>1, <3>3, <3>5 DEF m
    <3> QED BY <1>10, <3>6 DEF AddressOK
  <2>6. \A d \in DOMAIN scopes' : d \in 1 .. n \/ d = n + 1
    BY <1>1
  <2>7. ASSUME NEW d \in DOMAIN scopes', NEW r,
               RETURN_ADDRESS \in DOMAIN Level(scopes', d),
               Level(scopes', d)[RETURN_ADDRESS] = r
        PROVE  AddressOK(d, r)'
    <3>1. CASE d \in 1 .. n
      BY <2>4, <2>7, <3>1
    <3>2. CASE d = n + 1
      <4>1. r = Following
        BY <1>l, <2>7, <3>2
      <4> QED BY <2>5, <3>2, <4>1
    <3> QED BY <2>6, <3>1, <3>2
  <2> QED BY <2>3, <2>7
<1> QED BY <1>11, <1>12, <1>13, <1>14 DEF CodeInv

\* Pairs of a name and a value, joined to others
LEMMA JoinedPairs ==
  ASSUME NEW S, NEW x \in Seq(S), NEW y \in Seq(S),
         NEW R, NEW z \in Seq(R), NEW w \in Seq(R),
         Len(x) = Len(z), Len(y) = Len(w)
  PROVE  /\ x \o y \in Seq(S)
         /\ Range(x) \subseteq Range(x \o y)
         /\ \A i \in DOMAIN (x \o y) :
              \/ /\ i \in 1 .. Len(x)
                 /\ (x \o y)[i] = x[i] /\ (z \o w)[i] = z[i]
              \/ /\ i - Len(x) \in 1 .. Len(y)
                 /\ (x \o y)[i] = y[i - Len(x)] /\ (z \o w)[i] = w[i - Len(x)]
<1>1. x \o y \in Seq(S) /\ DOMAIN (x \o y) = 1 .. Len(x) + Len(y)
      /\ Len(x) \in Nat /\ Len(y) \in Nat /\ DOMAIN x = 1 .. Len(x)
  <2>1. x \o y \in Seq(S)
    OBVIOUS
  <2>2. DOMAIN x = 1 .. Len(x)
    OBVIOUS
  <2> QED BY <2>1, <2>2, Joined
<1>2. \A i \in 1 .. Len(x) : (x \o y)[i] = x[i]
  BY Joined
<1>3. Range(x) \subseteq Range(x \o y)
  <2>1. DOMAIN x \subseteq DOMAIN (x \o y)
    BY <1>1
  <2> QED BY <1>1, <1>2, <2>1 DEF Range
<1>4. ASSUME NEW i \in 1 .. Len(x) + Len(y)
      PROVE  \/ /\ i \in 1 .. Len(x)
                /\ (x \o y)[i] = x[i] /\ (z \o w)[i] = z[i]
             \/ /\ i - Len(x) \in 1 .. Len(y)
                /\ (x \o y)[i] = y[i - Len(x)] /\ (z \o w)[i] = w[i - Len(x)]
  <2>1. CASE i <= Len(x)
    BY <2>1
  <2>2. CASE i > Len(x)
    <3>1. i - Len(x) \in 1 .. Len(y) /\ i \in Len(x) + 1 .. Len(x) + Len(y)
          /\ i \in Len(z) + 1 .. Len(z) + Len(w)
      BY <1>1, <2>2
    <3>2. (x \o y)[i] = y[i - Len(x)]
      BY <3>1, Joined
    <3>3. (z \o w)[i] = w[i - Len(z)]
      BY <3>1, Joined
    <3> QED BY <3>1, <3>2, <3>3
  <2> QED BY <2>1, <2>2, <1>1
<1> QED BY <1>1, <1>3, <1>4

\* What component_procCall does, in either file, is a call.
LEMMA CallToCalled ==
  ASSUME MemoryInv, NEW f, NEW procedure,
         procedure.parameters \in Seq(Nat \cup {EOF}), NEW names \in Seq(Int),
         NEW values \in Seq({Following, "own"}), Len(names) = Len(values),
         \A i \in 1 .. Len(names) :
           /\ names[i] \in {RETURN_ADDRESS, RETURN_SOURCE}
           /\ names[i] = RETURN_ADDRESS => values[i] = Following
           /\ names[i] = RETURN_SOURCE => values[i] = "own",
         RETURN_ADDRESS \in Range(names),
         f = "main" => RETURN_SOURCE \in Range(names),
         CallTo(f, procedure, names, values)
  PROVE  Called(f, procedure.position)
<1> DEFINE p == procedure.parameters
           w == Popped(Len(p))
           a == names \o p
           b == values \o w
           t == Bind(ScopeStack_enterScope(scopes), a, b)
<1>1. /\ file' = f /\ pos' = procedure.position /\ scopes' = t
      /\ UNCHANGED <<program, inProject, procs>>
      /\ calls' = <<[resume |-> Following, file |-> file,
                     names |-> ScopeNames(scopes)]>> \o calls
  BY DEF CallTo, self
<1>2. /\ p \in Seq(Int) /\ Len(p) \in Nat
      /\ \A i \in 1 .. Len(p) : p[i] \notin {RETURN_ADDRESS, RETURN_SOURCE}
  <2>1. p \in Seq(Nat \cup {EOF})
    OBVIOUS
  <2> HIDE DEF p
  <2>2. Len(p) \in Nat
    BY <2>1
  <2> QED BY <2>1, <2>2, ParametersApart
<1> HIDE DEF p
<1>3. w \in Seq(Values) /\ Len(w) = Len(p)
  <2>1. Len(p) \in Nat
    BY <1>2
  <2> QED BY <2>1, Popping
<1> HIDE DEF w
<1>4. /\ a \in Seq(Int)
      /\ Range(names) \subseteq Range(a)
      /\ \A i \in DOMAIN a : a[i] = RETURN_ADDRESS => b[i] = Following
      /\ \A i \in DOMAIN a : a[i] = RETURN_SOURCE => b[i] = "own"
  <2> DEFINE A == {Following, "own"}
             B == Values
             R == A \cup B
             N == Int
  <2>1. values \in Seq(A) /\ w \in Seq(B) /\ p \in Seq(N) /\ names \in Seq(N)
    BY <1>2, <1>3
  <2> HIDE DEF A, B, N
  <2>2. values \in Seq(R) /\ w \in Seq(R)
    BY <2>1
  <2> HIDE DEF R
  <2>3. /\ a \in Seq(N) /\ Range(names) \subseteq Range(a)
        /\ \A i \in DOMAIN a :
             \/ i \in 1 .. Len(names) /\ a[i] = names[i] /\ b[i] = values[i]
             \/ i - Len(names) \in 1 .. Len(p) /\ a[i] = p[i - Len(names)]
    BY <1>3, <2>1, <2>2, JoinedPairs
  <2> HIDE DEF a, b
  <2>4. ASSUME NEW i \in DOMAIN a, a[i] \in {RETURN_ADDRESS, RETURN_SOURCE}
        PROVE  i \in 1 .. Len(names) /\ a[i] = names[i] /\ b[i] = values[i]
    BY <1>2, <2>3, <2>4
  <2> QED BY <2>3, <2>4 DEF N
<1> HIDE DEF a, b
<1>5. /\ Outer(scopes, t) /\ Len(t) = Len(scopes) + 1
      /\ Level(t, Len(scopes) + 1) = t[1]
      /\ DOMAIN t[1] = Range(a)
      /\ \A x \in Range(a) :
           \E i \in DOMAIN a : a[i] = x /\ t[1][x] = b[i]
  <2>1. ScopesOK(scopes)
    BY DEF MemoryInv
  <2>2. a \in Seq(Int)
    BY <1>4
  <2> QED BY <2>1, <2>2, NewScopeBound
<1> HIDE DEF t
<1>6. /\ RETURN_ADDRESS \in DOMAIN t[1] /\ t[1][RETURN_ADDRESS] = Following
      /\ f = "main" => RETURN_SOURCE \in DOMAIN t[1] /\ t[1][RETURN_SOURCE] = "own"
  BY <1>4, <1>5
<1> QED BY <1>1, <1>5, <1>6 DEF Called

\* Calls of own and of global procedures keep the invariant.
LEMMA CallsLead ==
  ASSUME Compiled(program), MemoryInv, MemoryInv', CodeInv, Executable,
         CallOwn \/ CallGlobal
  PROVE  CodeInv'
<1>0. Opcode = Op.PROCCALL
  BY DEF CallOwn, CallGlobal, Executes
<1>1. CASE CallOwn
  <2> DEFINE names == <<RETURN_ADDRESS>>
             values == <<Following>>
  <2>1. Name \in DOMAIN procs /\ CallTo(file, procs[Name], names, values)
        /\ procs[Name].parameters \in Seq(Nat \cup {EOF})
    BY <1>1 DEF CallOwn, OwnProcedure, MemoryInv
  <2>2. /\ Entry(program, "own", procs[Name].position)
        /\ \E r \in At(program, "own", Op.PROC) :
             ByteAt(program.bytes.own, r + 2) = Name
    BY <2>1 DEF CodeInv, ProceduresOK
  <2>3. file = "own"
    <3> SUFFICES ASSUME file = "main" PROVE FALSE
      BY DEF MemoryInv
    <3>1. Inside(program, "main", pos)
      BY DEF CodeInv, PlaceOK
    <3>2. pos \in At(program, "main", Op.PROCCALL)
      BY <1>0, Fetch DEF CodeInv
    <3>3. ByteAt(program.bytes.main, pos + 2) = Name
      BY DEF Name, Bytes
    <3> QED BY <2>2, <3>1, <3>2, <3>3 DEF Compiled, GlobalsApart
  <2>4. /\ names \in Seq(Int) /\ values \in Seq({Following, "own"})
        /\ Len(names) = Len(values) /\ RETURN_ADDRESS \in Range(names)
        /\ \A i \in 1 .. Len(names) :
             /\ names[i] \in {RETURN_ADDRESS, RETURN_SOURCE}
             /\ names[i] = RETURN_ADDRESS => values[i] = Following
             /\ names[i] = RETURN_SOURCE => values[i] = "own"
    BY DEF RETURN_ADDRESS, RETURN_SOURCE, Range
  <2> HIDE DEF names, values
  <2>5. Called("own", procs[Name].position)
    BY <2>1, <2>3, <2>4, CallToCalled
  <2> QED BY <1>0, <2>2, <2>3, <2>5, CallsBegin DEF Files
<1>2. CASE CallGlobal
  <2> DEFINE names == <<RETURN_ADDRESS, RETURN_SOURCE>>
             values == <<Following, "own">>
             procedure == program.globals[Name]
             q == procedure.parameters
  <2>1. Name \in DOMAIN program.globals /\ CallTo("main", procedure, names, values)
    BY <1>2 DEF CallGlobal, GlobalProcedure
  <2>2. q \in Seq(Nat \cup {EOF})
    <3>1. q \in Seq(Nat)
      BY <2>1, ProgramsAssumption DEF MemoryInv
    <3> HIDE DEF q
    <3> QED BY <3>1
  <2>3. Entry(program, "main", procedure.position)
    BY <2>1 DEF Compiled, GlobalsApart
  <2>4. /\ names \in Seq(Int) /\ values \in Seq({Following, "own"})
        /\ Len(names) = Len(values) /\ RETURN_ADDRESS \in Range(names)
        /\ RETURN_SOURCE \in Range(names)
        /\ \A i \in 1 .. Len(names) :
             /\ names[i] \in {RETURN_ADDRESS, RETURN_SOURCE}
             /\ names[i] = RETURN_ADDRESS => values[i] = Following
             /\ names[i] = RETURN_SOURCE => values[i] = "own"
    BY DEF RETURN_ADDRESS, RETURN_SOURCE, Range
  <2> HIDE DEF names, values, procedure
  <2>5. Called("main", procedure.position)
    BY <2>1, <2>2, <2>4, CallToCalled
  <2> QED BY <1>0, <2>3, <2>5, CallsBegin DEF Files
<1> QED BY <1>1, <1>2

-----------------------------------------------------------------------------
(***************************************************************************)
(* Returns.                                                                *)
(***************************************************************************)
LEMMA WithoutFirst ==
  ASSUME NEW C, NEW s \in Seq(C), s # << >>
  PROVE  LET t == Tail(s)
         IN /\ t \in Seq(C)
            /\ \A i \in DOMAIN t : /\ i \in Nat \ {0} /\ i + 1 \in DOMAIN s
                                   /\ t[i] = s[i + 1]
            /\ t # << >> => 1 \in DOMAIN t /\ 2 \in DOMAIN s
<1>1. /\ Tail(s) \in Seq(C) /\ Len(Tail(s)) = Len(s) - 1 /\ Len(s) \in Nat \ {0}
      /\ \A i \in 1 .. Len(s) - 1 : Tail(s)[i] = s[i + 1]
      /\ DOMAIN s = 1 .. Len(s)
  OBVIOUS
<1> DEFINE t == Tail(s)
<1> HIDE DEF t
<1>2. DOMAIN t = 1 .. Len(t) /\ (t # << >> => Len(t) # 0)
  BY <1>1 DEF t
<1>3. \A i \in DOMAIN t : i \in Nat \ {0} /\ i + 1 \in DOMAIN s
  BY <1>1, <1>2 DEF t
<1>4. \A i \in DOMAIN t : t[i] = s[i + 1]
  BY <1>1, <1>2 DEF t
<1>5. t # << >> => 1 \in DOMAIN t /\ 2 \in DOMAIN s
  BY <1>1, <1>2 DEF t
<1> QED BY <1>1, <1>3, <1>4, <1>5 DEF t

\* A return leads to the component's file, whatever the file of the call.
LEMMA ReturnsToOwn ==
  ASSUME MemoryInv, CodeInv, ProcReturn
  PROVE  file' = "own"
<1> DEFINE source == ScopeStack_load(scopes, RETURN_SOURCE)
<1>1. source \in {NULL, "own"}
  BY LoadSound
<1>2. file' = IF source = NULL THEN file ELSE source
  BY DEF ProcReturn
<1>3. CASE file = "own"
  BY <1>1, <1>2, <1>3
<1>4. CASE file # "own"
  <2>1. file = "main"
    BY <1>4 DEF MemoryInv
  <2>2. calls # << >>
    BY <2>1 DEF CodeInv, PlaceOK
  <2> DEFINE k == Len(scopes) + 1 - Height(1)
  <2>3. /\ RETURN_SOURCE \in DOMAIN Level(scopes, Height(1))
        /\ Level(scopes, Height(1))[RETURN_SOURCE] = "own"
        /\ Level(scopes, Height(1)) = scopes[k]
    BY <2>1 DEF CodeInv, FramesOK, Level
  <2>4. k \in DOMAIN scopes
    BY <2>2, CallHolds DEF Holding
  <2> HIDE DEF k
  <2>5. k \in Holding(scopes, RETURN_SOURCE)
    BY <2>3, <2>4, ProgramsAssumption DEF Holding, ListMap_get
  <2>6. source # NULL
    <3> DEFINE H == Holding(scopes, RETURN_SOURCE)
    <3>1. PICK L : scopes \in Seq(L)
      BY DEF MemoryInv, ScopesOK
    <3>2. H \in SUBSET (1 .. Len(scopes)) /\ H # {}
      BY <2>5, <3>1 DEF Holding
    <3>3. PICK j \in H : \A i \in H : j <= i
      BY <3>1, <3>2, InnermostExists
    <3>4. Innermost(H) = j
      BY <3>2, <3>3, InnermostIs
    <3>5. ListMap_get(scopes[j], RETURN_SOURCE) # NULL
      BY <3>3 DEF Holding
    <3>6. source = scopes[j][RETURN_SOURCE]
      BY <3>2, <3>4 DEF ScopeStack_load
    <3> QED BY <3>5, <3>6 DEF ListMap_get
  <2> QED BY <1>1, <1>2, <2>6
<1> QED BY <1>3, <1>4

\* A return keeps the invariant, if it does not go astray: also one that leaves
\* the scope of its procedure in place, and one that finds such a scope.
LEMMA CallsEnd ==
  ASSUME Compiled(program), MemoryInv, MemoryInv', CodeInv, ProcReturn,
         Holding(scopes, RETURN_ADDRESS) # {}, ~astray'
  PROVE  CodeInv'
<1> DEFINE H == Holding(scopes, RETURN_ADDRESS)
           n == Len(scopes)
           k == Innermost(H)
           t == ScopeStack_exitScope(ScopeStack_exitTo(scopes, RETURN_ADDRESS))
<1>1. /\ UNCHANGED <<program, inProject, procs>>
      /\ pos' = scopes[k][RETURN_ADDRESS] /\ scopes' = t
      /\ calls # << >> /\ calls' = Tail(calls) /\ file' = calls[1].file
  BY DEF ProcReturn, self, ScopeStack_load
<1>2. file' = "own"
  BY ReturnsToOwn
<1>3. CallsOwn
  BY <1>1, <1>2 DEF CallsOwn
<1>4. n \in Nat /\ DOMAIN scopes = 1 .. n
  BY ScopesFrom DEF MemoryInv
<1>5. /\ k \in H /\ \A j \in H : k <= j
      /\ ScopesOK(t) /\ Outer(scopes, t) /\ Len(t) \in Nat
      /\ Len(t) = IF k = 1 THEN n - 1 ELSE n + 1 - k
  BY ReturnScopes DEF MemoryInv
<1>6. DOMAIN t = 1 .. Len(t)
  BY <1>5, ScopesFrom
<1>7. k \in 1 .. n /\ RETURN_ADDRESS \in DOMAIN scopes[k]
  BY <1>4, <1>5, Zenon DEF Holding, ListMap_get
<1>8. PICK d \in 1 .. n : d = n + 1 - k
  BY <1>4, <1>7
<1>9. n + 1 - d = k /\ Len(t) \in d - 1 .. d /\ d <= n
  <2>1. n \in Nat /\ k \in 1 .. n /\ d \in 1 .. n /\ d = n + 1 - k
        /\ Len(t) = IF k = 1 THEN n - 1 ELSE n + 1 - k
    BY <1>4, <1>5, <1>7, <1>8, Zenon
  <2> HIDE DEF n, k, t
  <2> QED BY <2>1
<1>10. PICK r : r = scopes[k][RETURN_ADDRESS]
  OBVIOUS
<1>11. RETURN_ADDRESS \in DOMAIN Level(scopes, d)
       /\ Level(scopes, d)[RETURN_ADDRESS] = r
  BY <1>7, <1>9, <1>10 DEF Level
<1>12. AddressOK(d, r)
  BY <1>3, <1>4, <1>11 DEF CodeInv, AddressesOK
<1>13. Height(1) <= d /\ Height(1) \in Nat \ {0} /\ 1 \in DOMAIN calls
  <2>1. n + 1 - Height(1) \in H /\ Height(1) \in 1 .. n /\ 1 \in DOMAIN calls
    BY <1>1, CallHolds
  <2>2. k <= n + 1 - Height(1)
    BY <1>5, <2>1
  <2> QED BY <1>4, <1>7, <1>8, <2>1, <2>2
<1>14. pos' = r
  BY <1>1, <1>10
<1> HIDE DEF t, k, H
<1>15. DOMAIN t \subseteq DOMAIN scopes
       /\ \A e \in DOMAIN t : Level(t, e) = Level(scopes, e)
  <2>1. DOMAIN t \subseteq DOMAIN scopes
    BY <1>4, <1>6, <1>9
  <2> QED BY <1>5, <2>1 DEF Outer
<1>16. ASSUME NEW c \in Int, NEW m, InBody(scopes, c, m), c <= Len(t) + 1,
              NEW b \in Int, c <= b
       PROVE  InBody(t, b, m)
  <2>1. m \in Nat
    BY <1>16 DEF InBody
  <2>2. m \in 0 .. m + b - c /\ DOMAIN scopes \subseteq Int
    BY <1>4, <1>16, <2>1
  <2>3. \A e \in DOMAIN scopes :
          e < c => e \in DOMAIN t /\ Level(t, e) = Level(scopes, e)
    <3> SUFFICES ASSUME NEW e \in DOMAIN scopes, e < c
                 PROVE  e \in DOMAIN t /\ Level(t, e) = Level(scopes, e)
      OBVIOUS
    <3> DEFINE l == Len(t)
    <3>1. e \in Int /\ 1 <= e /\ c <= l + 1 /\ l \in Nat
      <4>1. l \in Nat
        BY <1>5
      <4>2. c <= l + 1
        BY <1>16
      <4>3. e \in 1 .. n /\ n \in Nat
        BY <1>4
      <4> HIDE DEF l, n
      <4> QED BY <4>1, <4>2, <4>3
    <3>2. e \in 1 .. l
      <4> HIDE DEF l
      <4> QED BY <3>1
    <3> QED BY <1>6, <1>15, <3>2
  <2> QED BY <1>16, <2>2, <2>3, BodyBelow
<1>17. /\ calls' = Tail(calls) /\ \E C : calls' \in Seq(C)
       /\ \A i \in DOMAIN calls' : /\ i \in Nat \ {0} /\ i + 1 \in DOMAIN calls
                                   /\ calls'[i] = calls[i + 1]
       /\ calls' # << >> => 1 \in DOMAIN calls' /\ 2 \in DOMAIN calls
  <2>1. PICK C : calls \in Seq(C)
    BY DEF CodeInv, FramesOK
  <2> DEFINE u == Tail(calls)
  <2>2. /\ u \in Seq(C)
        /\ \A i \in DOMAIN u : /\ i \in Nat \ {0} /\ i + 1 \in DOMAIN calls
                               /\ u[i] = calls[i + 1]
        /\ u # << >> => 1 \in DOMAIN u /\ 2 \in DOMAIN calls
    BY <1>1, <2>1, WithoutFirst
  <2>3. calls' = u
    BY <1>1
  <2> HIDE DEF u
  <2>4. \E D : calls' \in Seq(D)
    BY <2>2, <2>3
  <2> QED BY <1>1, <2>2, <2>3, <2>4
<1>18. \A i \in DOMAIN calls' : Height(i)' = Height(i + 1)
  BY <1>17 DEF Height
<1>19. \A i \in DOMAIN calls' :
         /\ Height(i + 1) \in Nat \ {0} /\ Height(i + 1) < Height(1)
         /\ Height(i + 1) <= Len(t) /\ Height(i + 1) < d
  <2> SUFFICES ASSUME NEW i \in DOMAIN calls'
               PROVE  /\ Height(i + 1) \in Nat \ {0} /\ Height(i + 1) < Height(1)
                      /\ Height(i + 1) <= Len(t) /\ Height(i + 1) < d
    OBVIOUS
  <2>1. i + 1 \in DOMAIN calls /\ i + 1 > 1
    BY <1>17
  <2>2. Height(i + 1) \in Nat \ {0} /\ Height(i + 1) < Height(1)
    BY <2>1, Heights
  <2>3. /\ Height(1) \in Nat \ {0} /\ Height(1) <= d /\ d \in Int
        /\ Len(t) \in Nat /\ d - 1 <= Len(t)
    BY <1>5, <1>8, <1>9, <1>13
  <2> DEFINE g == Height(1)
             h == Height(i + 1)
  <2>4. g \in Nat /\ h \in Nat \ {0} /\ h < g /\ g <= d
    BY <2>2, <2>3
  <2> HIDE DEF g, h
  <2>5. h \in Nat \ {0} /\ h < g /\ h <= Len(t) /\ h < d
    BY <2>3, <2>4
  <2> QED BY <2>5 DEF g, h
<1>20. PlaceOK'
  <2>1. r \in program.starts.own /\ (Enclosed(program, "own", r) => inProject)
    BY <1>12, <1>13 DEF AddressOK
  <2>2. calls' # << >> => Inside(program, "own", r)
    <3> SUFFICES ASSUME calls' # << >> PROVE Inside(program, "own", r)
      OBVIOUS
    <3>1. 1 \in DOMAIN calls' /\ 1 + 1 \in DOMAIN calls
      BY <1>17
    <3>2. Height(1 + 1) < d
      BY <1>19, <3>1
    <3> QED BY <1>12, <3>1, <3>2 DEF AddressOK
  <2>3. ASSUME Inside(program, "own", r)
        PROVE  InBody(scopes', Len(scopes') + 1, Within(program, "own", r))
    <3> DEFINE m == Within(program, "own", r)
    <3>1. InBody(scopes, d, m)
      BY <1>12, <2>3 DEF AddressOK
    <3> HIDE DEF m
    <3>2. d \in Int /\ d <= Len(t) + 1 /\ Len(t) + 1 \in Int
      BY <1>5, <1>8, <1>9
    <3>3. InBody(t, Len(t) + 1, m)
      BY <1>16, <3>1, <3>2
    <3> QED BY <1>1, <3>3 DEF m
  <2>4. inProject \in InProjects(program)
    BY DEF CodeInv, PlaceOK
  <2> QED BY <1>1, <1>2, <1>14, <2>1, <2>2, <2>3, <2>4 DEF PlaceOK, Starts
<1>21. ProceduresOK'
  BY <1>1, ProceduresStay DEF CodeInv
<1>22. FramesOK'
  <2>1. ASSUME NEW i \in DOMAIN calls'
        PROVE  CallOK(i)' /\ FrameOK(i)'
    <3>1. /\ i \in Nat \ {0} /\ i + 1 \in DOMAIN calls
          /\ calls'[i] = calls[i + 1] /\ Height(i)' = Height(i + 1)
      BY <1>17, <1>18
    <3>2. CallOK(i + 1) /\ FrameOK(i + 1)
      BY <3>1 DEF CodeInv, FramesOK
    <3>3. \A j \in DOMAIN calls' : j < i => Height(i)' < Height(j)'
      <4> SUFFICES ASSUME NEW j \in DOMAIN calls', j < i
                   PROVE  Height(i)' < Height(j)'
        OBVIOUS
      <4>1. j + 1 \in DOMAIN calls /\ j + 1 < i + 1
            /\ Height(j)' = Height(j + 1)
        BY <1>17, <1>18, <3>1
      <4> QED BY <3>1, <3>2, <4>1 DEF CallOK
    <3>4. CallOK(i)'
      BY <3>1, <3>2, <3>3 DEF CallOK
    <3> DEFINE h == Height(i + 1)
    <3>5. h \in Nat \ {0} /\ h <= Len(t)
      BY <1>19
    <3>6. \A e \in 1 .. h : Level(t, e) = Level(scopes, e)
      BY <1>5, <1>6, <1>15, <3>5
    <3>7. /\ RETURN_ADDRESS \in DOMAIN Level(t, h)
          /\ Level(t, h)[RETURN_ADDRESS] = calls[i + 1].resume
          /\ \A e \in 1 .. h - 1 : DOMAIN Level(t, e) = calls[i + 1].names[h - e]
      <4>1. h \in 1 .. h /\ \A e \in 1 .. h - 1 : e \in 1 .. h
        BY <3>5
      <4> QED BY <3>2, <3>6, <4>1 DEF FrameOK
    <3> HIDE DEF h
    <3>8. FrameOK(i)'
      <4>1. Height(i)' = h /\ calls'[i] = calls[i + 1] /\ scopes' = t
        BY <1>1, <3>1 DEF h
      <4> QED BY <3>5, <3>7, <4>1 DEF FrameOK
    <3> QED BY <3>4, <3>8
  <2>2. ASSUME calls' # << >>
        PROVE  Within(program, "own", r) \in 0 .. Len(t) - Height(1)'
    <3>1. 1 \in DOMAIN calls' /\ 1 + 1 \in DOMAIN calls
      BY <1>17, <2>2
    <3> DEFINE h == Height(1 + 1)
    <3>2. h \in Nat \ {0} /\ h < d /\ Height(1)' = h
      BY <1>18, <1>19, <3>1
    <3>3. Within(program, "own", r) \in 0 .. d - 1 - h
      BY <1>12, <3>1, <3>2 DEF AddressOK
    <3> HIDE DEF h
    <3> QED BY <1>5, <1>8, <1>9, <3>2, <3>3
  <2> QED BY <1>1, <1>2, <1>14, <1>17, <2>1, <2>2 DEF FramesOK
<1>23. AddressesOK'
  <2>1. \A i \in DOMAIN calls' : calls'[i].file = "own"
    BY <1>3, <1>17 DEF CodeInv, AddressesOK
  <2>2. ASSUME NEW c \in DOMAIN t, NEW q,
               RETURN_ADDRESS \in DOMAIN Level(t, c),
               Level(t, c)[RETURN_ADDRESS] = q
        PROVE  AddressOK(c, q)'
    <3>1. c \in DOMAIN scopes /\ Level(t, c) = Level(scopes, c) /\ c \in 1 .. Len(t)
      BY <1>6, <1>15
    <3>2. AddressOK(c, q)
      BY <1>3, <2>2, <3>1 DEF CodeInv, AddressesOK
    <3>3. ASSUME Inside(program, "own", q)
          PROVE  InBody(scopes', c, Within(program, "own", q))
      <4> DEFINE m == Within(program, "own", q)
      <4>1. InBody(scopes, c, m)
        BY <3>2, <3>3 DEF AddressOK
      <4> HIDE DEF m
      <4>2. c \in Int /\ c <= Len(t) + 1 /\ c <= c
        BY <1>5, <3>1
      <4>3. InBody(t, c, m)
        BY <1>16, <4>1, <4>2
      <4> QED BY <1>1, <4>3 DEF m
    <3>4. \A i \in DOMAIN calls' :
            /\ Height(i)' <= c => (Enclosed(program, "own", q) => inProject)
            /\ Height(i)' < c =>
                 /\ Inside(program, "own", q)
                 /\ Within(program, "own", q) \in 0 .. c - 1 - Height(i)'
      BY <1>17, <1>18, <3>2 DEF AddressOK
    <3> QED BY <1>1, <3>2, <3>3, <3>4 DEF AddressOK
  <2>3. scopes' = t
    BY <1>1
  <2> QED BY <2>1, <2>2, <2>3 DEF AddressesOK
<1> QED BY <1>20, <1>21, <1>22, <1>23 DEF CodeInv

\* RETURN and BLOCKEND keep the invariant, if they do not go astray.
LEMMA ReturnsLead ==
  ASSUME Compiled(program), MemoryInv, MemoryInv', CodeInv, Executable,
         Return \/ BlockEnd, ~astray'
  PROVE  CodeInv'
<1>1. CASE Return
  <2>1. ProcReturn /\ Holding(scopes, RETURN_ADDRESS) # {}
    BY <1>1, Runs DEF Return, Executes, Crashes
  <2> QED BY <2>1, CallsEnd
<1>2. CASE BlockEnd /\ (inProject \/ Holding(scopes, RETURN_ADDRESS) = {})
  BY <1>2, BlockEnded
<1>3. CASE BlockEnd /\ ~inProject /\ Holding(scopes, RETURN_ADDRESS) # {}
  <2>1. ProcReturn
    BY <1>3 DEF BlockEnd
  <2> QED BY <1>3, <2>1, CallsEnd
<1> QED BY <1>1, <1>2, <1>3

-----------------------------------------------------------------------------
(***************************************************************************)
(* What the declaration of a procedure, of a project and of a constructor  *)
(* lead to: skipping to the next block starts no earlier than where it is  *)
(* called from, and ends.                                                  *)
(*                                                                         *)
(* Reading goes on: what is read at p ends behind p, or is refused.        *)
(***************************************************************************)
Ahead(p) == {REFUSED} \cup {r \in Nat : r >= p}

\* The bytes of a file are numbers, and outside of them is EOF.
LEMMA ReadingFrom ==
  ASSUME NEW b \in Seq(Nat)
  PROVE  /\ \A p : ByteAt(b, p) \in Nat \cup {EOF} /\ CountAt(b, p) \in Nat
         /\ \A p : ByteAt(b, p) # EOF <=> p \in DOMAIN b
         /\ ByteAt(b, REFUSED) = EOF
         /\ Len(b) \in Nat /\ DOMAIN b = 1 .. Len(b)
<1>1. \A p : ByteAt(b, p) \in Nat \cup {EOF}
  BY DEF ByteAt
<1>2. \A p : CountAt(b, p) \in Nat
  BY <1>1 DEF CountAt
<1>3. \A p : ByteAt(b, p) # EOF <=> p \in DOMAIN b
  BY DEF ByteAt, EOF
<1>4. Len(b) \in Nat /\ DOMAIN b = 1 .. Len(b)
  OBVIOUS
<1>5. REFUSED \notin DOMAIN b
  BY <1>4 DEF REFUSED
<1> QED BY <1>1, <1>2, <1>3, <1>4, <1>5

\* Passing over bytes
LEMMA PastAhead ==
  ASSUME NEW a \in Nat, NEW p \in Ahead(a), NEW n \in Nat
  PROVE  Past(p, n) \in Ahead(a)
BY DEF Past, Ahead, REFUSED

\* Reading a string
LEMMA StringAhead ==
  ASSUME NEW b \in Seq(Nat), NEW a \in Nat, NEW p \in Ahead(a)
  PROVE  AfterString(b, p) \in Ahead(a)
<1> DEFINE Z == {q \in p + 1 .. Len(b) : b[q] = 0}
<1>1. CASE ~(ByteAt(b, p) = Type.STRING /\ \E q \in p + 1 .. Len(b) : b[q] = 0)
  BY <1>1 DEF AfterString, Ahead
<1>2. CASE ByteAt(b, p) = Type.STRING /\ \E q \in p + 1 .. Len(b) : b[q] = 0
  <2>1. p # REFUSED
    BY <1>2, ReadingFrom DEF Type, EOF
  <2>2. p \in Nat /\ p >= a
    BY <2>1 DEF Ahead, REFUSED
  <2>3. Z \in SUBSET Nat /\ Z # {}
    BY <1>2, <2>2
  <2>4. PICK z \in Z : \A y \in Z : z <= y
    BY <2>3, NatMin
  <2> DEFINE First(q) == b[q] = 0 /\ \A r \in p + 1 .. q - 1 : b[r] # 0
  <2>5. First(z) /\ z \in p + 1 .. Len(b)
    <3>1. \A r \in p + 1 .. z - 1 : r \in p + 1 .. Len(b) /\ r < z
      BY <2>2, <2>4
    <3> QED BY <2>2, <2>4, <3>1
  <2> DEFINE q == CHOOSE q \in p + 1 .. Len(b) : First(q)
  <2>6. q \in p + 1 .. Len(b)
    <3> HIDE DEF First
    <3> QED BY <2>5
  <2>7. AfterString(b, p) = 1 + q
    BY <1>2 DEF AfterString
  <2> HIDE DEF q
  <2> QED BY <2>2, <2>6, <2>7 DEF Ahead
<1> QED BY <1>1, <1>2

\* Reading several strings
LEMMA StringsAhead ==
  ASSUME NEW b \in Seq(Nat), NEW a \in Nat, NEW p \in Ahead(a),
         NEW n \in Nat, NEW gap \in Nat
  PROVE  AfterStringsApart(b, p, n, gap) \in Ahead(a)
<1> DEFINE D == Ahead(a)
           On(x) == LET q == Past(x, gap)
                    IN IF q = REFUSED THEN REFUSED ELSE AfterString(b, q)
           Is(f) == f = [i \in 0 .. n |-> IF i = 0 THEN p ELSE On(f[i - 1])]
           next == [x \in D |-> On(x)]
           after == CHOOSE f : Is(f)
<1>1. \A x \in D : On(x) \in D
  <2> SUFFICES ASSUME NEW x \in D PROVE On(x) \in D
    OBVIOUS
  <2>1. Past(x, gap) \in D /\ REFUSED \in D
    BY PastAhead DEF Ahead
  <2> QED BY <2>1, StringAhead
<1> HIDE DEF D, On
<1>2. next \in [D -> D] /\ p \in D
  BY <1>1 DEF D
<1>3. PICK f \in [0 .. n -> D] : StepsFrom(f, n, p, next)
  <2> HIDE DEF next
  <2> QED BY <1>2, SegmentRecursion
<1>4. \A i \in 0 .. n : f[i] = IF i = 0 THEN p ELSE On(f[i - 1])
  <2> SUFFICES ASSUME NEW i \in 0 .. n
               PROVE  f[i] = IF i = 0 THEN p ELSE On(f[i - 1])
    OBVIOUS
  <2>1. i # 0 => i - 1 \in 0 .. n
    OBVIOUS
  <2>2. i # 0 => next[f[i - 1]] = On(f[i - 1])
    BY <2>1
  <2> HIDE DEF next
  <2> QED BY <1>3, <2>2 DEF StepsFrom
<1>5. Is(f)
  BY <1>3, <1>4
<1>6. Is(after)
  <2> HIDE DEF Is
  <2> QED BY <1>5
<1>7. AfterStringsApart(b, p, n, gap) = after[n]
  BY DEF AfterStringsApart, On
<1> HIDE DEF after
<1>8. after[0] \in D
  BY <1>2, <1>6
<1>9. \A i \in 0 .. n - 1 : after[i] \in D => after[i + 1] \in D
  <2> SUFFICES ASSUME NEW i \in 0 .. n - 1, after[i] \in D
               PROVE  after[i + 1] \in D
    OBVIOUS
  <2>1. i + 1 \in 0 .. n /\ i + 1 # 0 /\ (i + 1) - 1 = i
    OBVIOUS
  <2>2. after[i + 1] = On(after[i])
    BY <1>6, <2>1
  <2> QED BY <1>1, <2>2
<1> HIDE DEF Is
<1>10. \A i \in 0 .. n : after[i] \in D
  BY <1>8, <1>9, SegmentInduction
<1> QED BY <1>7, <1>10 DEF D

\* Reading a list of parameters
LEMMA ParametersAhead ==
  ASSUME NEW b \in Seq(Nat), NEW a \in Nat, NEW p \in Ahead(a)
  PROVE  AfterParameters(b, p) \in Ahead(a)
<1>1. CASE p = REFUSED
  BY <1>1 DEF AfterParameters, Ahead
<1>2. CASE p # REFUSED
  <2>1. p + 1 \in Ahead(a) /\ CountAt(b, p) \in Nat /\ 1 \in Nat
    BY <1>2, ReadingFrom DEF Ahead, REFUSED
  <2>2. AfterStringsApart(b, p + 1, CountAt(b, p), 1) \in Ahead(a)
    BY <2>1, StringsAhead
  <2> QED BY <1>2, <2>2 DEF AfterParameters
<1> QED BY <1>1, <1>2

\* Reading the interfaces of a component
LEMMA InterfacesAhead ==
  ASSUME NEW b \in Seq(Nat), NEW a \in Nat, NEW p \in Ahead(a)
  PROVE  AfterInterfaces(b, p) \in Ahead(a)
<1>1. CASE p = REFUSED
  BY <1>1 DEF AfterInterfaces, Ahead
<1>2. CASE p # REFUSED
  <2> DEFINE D == Ahead(a)
             n == CountAt(b, p)
             On(q) == IF q = REFUSED THEN REFUSED
                      ELSE AfterStringsApart(b, q + 1, CountAt(b, q), 2)
             Is(f) == f = [i \in 0 .. n |-> IF i = 0 THEN p + 1 ELSE On(f[i - 1])]
             next == [x \in D |-> On(x)]
             start == CHOOSE f : Is(f)
  <2>0. n \in Nat
    BY ReadingFrom
  <2>1. \A x \in D : On(x) \in D
    <3> SUFFICES ASSUME NEW x \in D PROVE On(x) \in D
      OBVIOUS
    <3>1. CASE x = REFUSED
      BY <3>1
    <3>2. CASE x # REFUSED
      <4>1. x + 1 \in Ahead(a) /\ CountAt(b, x) \in Nat /\ 2 \in Nat
        BY <3>2, ReadingFrom DEF Ahead, REFUSED
      <4>2. AfterStringsApart(b, x + 1, CountAt(b, x), 2) \in Ahead(a)
        BY <4>1, StringsAhead
      <4> QED BY <3>2, <4>2
    <3> QED BY <3>1, <3>2
  <2>2. p + 1 \in D
    BY <1>2 DEF Ahead, REFUSED
  <2>7. AfterInterfaces(b, p) = start[n]
    BY <1>2 DEF AfterInterfaces, InterfaceAt
  <2> HIDE DEF D, On, n
  <2>3. PICK f \in [0 .. n -> D] : StepsFrom(f, n, p + 1, next)
    <3>1. next \in [D -> D]
      BY <2>1
    <3> HIDE DEF next
    <3> QED BY <2>0, <2>2, <3>1, SegmentRecursion
  <2>4. \A i \in 0 .. n : f[i] = IF i = 0 THEN p + 1 ELSE On(f[i - 1])
    <3> SUFFICES ASSUME NEW i \in 0 .. n
                 PROVE  f[i] = IF i = 0 THEN p + 1 ELSE On(f[i - 1])
      OBVIOUS
    <3>1. i # 0 => i - 1 \in 0 .. n
      BY <2>0
    <3>2. i # 0 => next[f[i - 1]] = On(f[i - 1])
      BY <3>1
    <3> HIDE DEF next
    <3> QED BY <2>3, <3>2 DEF StepsFrom
  <2>5. Is(f)
    BY <2>3, <2>4
  <2>6. Is(start)
    <3> HIDE DEF Is
    <3> QED BY <2>5
  <2> HIDE DEF start
  <2>8. start[0] \in D
    BY <2>0, <2>2, <2>6
  <2>9. \A i \in 0 .. n - 1 : start[i] \in D => start[i + 1] \in D
    <3> SUFFICES ASSUME NEW i \in 0 .. n - 1, start[i] \in D
                 PROVE  start[i + 1] \in D
      OBVIOUS
    <3>1. i + 1 \in 0 .. n /\ i + 1 # 0 /\ (i + 1) - 1 = i
      BY <2>0
    <3>2. start[i + 1] = On(start[i])
      BY <2>6, <3>1
    <3> QED BY <2>1, <3>2
  <2> HIDE DEF Is
  <2>10. \A i \in 0 .. n : start[i] \in D
    BY <2>0, <2>8, <2>9, SegmentInduction
  <2> QED BY <2>0, <2>7, <2>10 DEF D
<1> QED BY <1>1, <1>2

\* Executing an instruction reads on.
LEMMA OperandsAhead ==
  ASSUME NEW b \in Seq(Nat), NEW p \in Nat \ {0}, NEW op
  PROVE  AfterOperands(b, p, op) \in Ahead(p)
<1>1. p \in Ahead(p) /\ p + 1 \in Ahead(p) /\ REFUSED \in Ahead(p)
  BY DEF Ahead
<1>2. \A q \in Ahead(p), n \in Nat : AfterStrings(b, q, n) \in Ahead(p)
  BY StringsAhead DEF AfterStrings
<1>3. \A n \in {1, 2, 4} : AfterStrings(b, p, n) \in Ahead(p)
  BY <1>1, <1>2
<1>4. Past(AfterStrings(b, p, 1), 1) \in Ahead(p)
  BY <1>3, PastAhead
<1>5. AfterStrings(b, p + 1, 1) \in Ahead(p)
  BY <1>1, <1>2
<1>6. AfterDistance(b, p) \in Ahead(p)
  BY DEF AfterDistance, Ahead
<1>7. IsData(b, p) => AfterData(b, p) \in Ahead(p)
  <2> SUFFICES ASSUME IsData(b, p) PROVE AfterData(b, p) \in Ahead(p)
    OBVIOUS
  <2>1. CASE ByteAt(b, p) = Type.STRING
    BY <1>3, <2>1 DEF AfterData
  <2>2. CASE ByteAt(b, p) # Type.STRING
    <3>1. TypedObject_getSize(ByteAt(b, p)) \in {1, 4, 8}
      BY <2>2 DEF IsData, TypedObject_getSize, Type
    <3>2. AfterData(b, p) = p + 1 + TypedObject_getSize(ByteAt(b, p))
      BY <2>2 DEF AfterData
    <3> QED BY <3>1, <3>2 DEF Ahead
  <2> QED BY <2>1, <2>2
<1>8. /\ AfterInterfaces(b, AfterStrings(b, p, 1)) \in Ahead(p)
      /\ AfterParameters(b, p) \in Ahead(p)
      /\ AfterParameters(b, p + 1) \in Ahead(p)
      /\ AfterParameters(b, AfterStrings(b, p, 1)) \in Ahead(p)
  BY <1>1, <1>3, InterfacesAhead, ParametersAhead
<1> QED BY <1>1, <1>3, <1>4, <1>5, <1>6, <1>7, <1>8 DEF AfterOperands, Op

\* Skipping an instruction reads on.
LEMMA SkippedAhead ==
  ASSUME NEW b \in Seq(Nat), NEW p \in Nat \ {0}, NEW op, NEW until, NEW in
  PROVE  AfterSkipped(b, p, op, until, in) \in Ahead(p)
<1>1. p \in Ahead(p) /\ p + 1 \in Ahead(p) /\ REFUSED \in Ahead(p)
  BY DEF Ahead
<1>2. \A q \in Ahead(p), n \in Nat : AfterStrings(b, q, n) \in Ahead(p)
  BY StringsAhead DEF AfterStrings
<1>3. AfterStrings(b, p, 1) \in Ahead(p) /\ AfterStrings(b, p + 1, 1) \in Ahead(p)
  BY <1>1, <1>2
<1>4. AfterParameters(b, AfterStrings(b, p + 1, 1)) \in Ahead(p)
  BY <1>3, ParametersAhead
<1>5. LET q == AfterStrings(b, p, 1)
      IN AfterStrings(b, Past(q, 1), CountAt(b, q)) \in Ahead(p)
  <2>1. Past(AfterStrings(b, p, 1), 1) \in Ahead(p)
    BY <1>3, PastAhead
  <2> QED BY <1>2, <2>1, ReadingFrom
<1>6. AfterOperands(b, p, op) \in Ahead(p)
  BY OperandsAhead
<1> QED BY <1>1, <1>3, <1>4, <1>5, <1>6 DEF AfterSkipped

\* skipToNext ends, and no earlier than where it starts; outside of the file
\* it finds the end of it.
LEMMA SkipEnds ==
  ASSUME NEW b \in Seq(Nat), NEW until, NEW in, NEW p \in Nat
  PROVE  LET s == SkipToNext(b, p, until, in)
         IN /\ s.next \in Ahead(p)
            /\ p = REFUSED => s.next = REFUSED
            /\ p \notin DOMAIN b => s.found = EOF
<1> DEFINE S == {q \in Nat : q = REFUSED \/ ByteAt(b, q) \in {until, EOF}}
           Out(q) == IF q = REFUSED THEN [found |-> EOF, next |-> REFUSED]
                     ELSE [found |-> ByteAt(b, q), next |-> q + 1]
           Next0(q) == IF q = REFUSED THEN REFUSED
                       ELSE AfterSkipped(b, q + 1, ByteAt(b, q), until, in)
           V0(q) == [found : Nat \cup {EOF},
                     next : IF q = REFUSED THEN {REFUSED} ELSE Ahead(q)]
           out == [q \in Nat |-> Out(q)]
           next == [q \in Nat |-> Next0(q)]
           V == [q \in Nat |-> V0(q)]
           Is(f) ==
             f = [q \in Nat |->
                    IF q = REFUSED THEN [found |-> EOF, next |-> REFUSED]
                    ELSE IF ByteAt(b, q) \in {until, EOF}
                      THEN [found |-> ByteAt(b, q), next |-> q + 1]
                    ELSE f[AfterSkipped(b, q + 1, ByteAt(b, q), until, in)]]
           skip == CHOOSE f : Is(f)
<1>1. \A q \in Nat : Next0(q) \in Ahead(q + 1) /\ Next0(q) \in Nat
  <2> SUFFICES ASSUME NEW q \in Nat
               PROVE  Next0(q) \in Ahead(q + 1) /\ Next0(q) \in Nat
    OBVIOUS
  <2>1. q + 1 \in Nat \ {0}
    OBVIOUS
  <2>2. AfterSkipped(b, q + 1, ByteAt(b, q), until, in) \in Ahead(q + 1)
    BY <2>1, SkippedAhead
  <2>3. Next0(q) \in Ahead(q + 1)
    BY <2>2 DEF Ahead
  <2> HIDE DEF Next0
  <2> QED BY <2>3 DEF Ahead, REFUSED
<1>2. next \in [Nat -> Nat]
  BY <1>1
<1>3. \A f : Is(f) <=> Searches(f, S, out, next)
  <2> SUFFICES ASSUME NEW f
               PROVE  Is(f) <=> Searches(f, S, out, next)
    OBVIOUS
  <2>1. \A q \in Nat :
          (IF q \in S THEN out[q] ELSE f[next[q]])
            = IF q = REFUSED THEN [found |-> EOF, next |-> REFUSED]
              ELSE IF ByteAt(b, q) \in {until, EOF}
                THEN [found |-> ByteAt(b, q), next |-> q + 1]
              ELSE f[AfterSkipped(b, q + 1, ByteAt(b, q), until, in)]
    OBVIOUS
  <2> QED BY <2>1 DEF Searches
<1>4. \E f : Is(f)
  <2>1. \E f : Searches(f, S, out, next)
    <3> HIDE DEF S, out, next
    <3> QED BY <1>2, SearchExists
  <2> HIDE DEF Is, S, out, next
  <2> QED BY <1>3, <2>1
<1>5. Is(skip)
  <2> HIDE DEF Is
  <2> QED BY <1>4
<1>6. SkipToNext(b, p, until, in) = skip[p]
  BY DEF SkipToNext
<1> HIDE DEF skip
<1>7. Searches(skip, S, out, next)
  <2> HIDE DEF Is, S, out, next
  <2> QED BY <1>3, <1>5
<1>8. \A q \in Nat \cap S : out[q] \in V[q]
  <2> SUFFICES ASSUME NEW q \in Nat PROVE Out(q) \in V0(q)
    OBVIOUS
  <2>1. ByteAt(b, q) \in Nat \cup {EOF}
    BY ReadingFrom
  <2> QED BY <2>1 DEF Ahead
<1>9. \A q \in Nat \ S : /\ q <= Len(b) /\ V[next[q]] \subseteq V[q]
                         /\ next[q] \in S \/ next[q] > q
  <2> SUFFICES ASSUME NEW q \in Nat, q \notin S
               PROVE  /\ q <= Len(b) /\ V[next[q]] \subseteq V[q]
                      /\ next[q] \in S \/ next[q] > q
    OBVIOUS
  <2>1. q # REFUSED /\ q <= Len(b)
    BY ReadingFrom
  <2> DEFINE r == next[q]
  <2>2. r \in Nat /\ r \in Ahead(q + 1)
    BY <1>1
  <2>3. V[r] = V0(r) /\ V[q] = V0(q)
    <3> HIDE DEF r, V0
    <3> QED BY <2>2
  <2>4. r = REFUSED => r \in S
    BY <2>2
  <2> HIDE DEF r, V
  <2>5. r = REFUSED \/ r > q
    BY <2>2 DEF Ahead
  <2>6. Ahead(r) \subseteq Ahead(q) \/ r = REFUSED
    BY <2>5, <2>2 DEF Ahead
  <2>7. REFUSED \in Ahead(q)
    BY DEF Ahead
  <2>8. V0(r) \subseteq V0(q)
    BY <2>1, <2>6, <2>7
  <2> QED BY <2>1, <2>3, <2>4, <2>5, <2>8 DEF r
<1>10. Len(b) \in Nat
  OBVIOUS
<1>11. \A q \in Nat : skip[q] \in V[q]
  <2>1. LeadsOn(S, out, next, V, Len(b))
    BY <1>8, <1>9 DEF LeadsOn
  <2> DEFINE N == Len(b)
  <2>2. N \in Nat /\ LeadsOn(S, out, next, V, N)
    BY <1>10, <2>1
  <2> HIDE DEF S, out, next, V, Is, N
  <2> QED BY <1>2, <1>7, <2>2, SearchFinds
<1>12. skip[p] \in V0(p)
  BY <1>11
<1>13. p \in S => skip[p] = Out(p)
  BY <1>7 DEF Searches
<1>14. p \notin DOMAIN b => p \in S /\ ByteAt(b, p) = EOF
  BY ReadingFrom
<1>15. skip[p].next \in Ahead(p)
  <2>1. REFUSED \in Ahead(p)
    BY DEF Ahead
  <2> QED BY <1>12, <2>1
<1>16. p = REFUSED => skip[p].next = REFUSED
  BY <1>12
<1>17. p \notin DOMAIN b => skip[p].found = EOF
  BY <1>13, <1>14
<1> QED BY <1>6, <1>15, <1>16, <1>17

\* The constructor that is found is one whose body starts with an instruction.
LEMMA ConstructorFound ==
  ASSUME Compiled(program), MemoryInv, inProject \in InProjects(program),
         file = "own", pos \in At(program, "own", Op.CONSTRUCTOR),
         FittingConstructor # REFUSED
  PROVE  LET body == AfterParameters(Bytes, FittingConstructor)
         IN /\ body \in program.starts.own
            /\ ~Enclosed(program, "own", body) /\ ~Inside(program, "own", body)
            /\ ByteAt(Bytes, FittingConstructor) = Len(parameters)
            /\ \E q \in At(program, "own", Op.CONSTRUCTOR) :
                 FittingConstructor = ListAt(q + 1)
<1> DEFINE c == IF running THEN TRUE ELSE FALSE
           At0 == At(program, "own", Op.CONSTRUCTOR)
           Lists == {ListAt(q + 1) : q \in At0}
           Good == {l \in Lists : /\ AfterParameters(Bytes, l) # REFUSED
                                  /\ ByteAt(Bytes, l) = Len(parameters)}
           Seek(p) == SkipTo(Op.CONSTRUCTOR, AfterParameters(Bytes, p))
           S == {p \in Nat : \/ p = REFUSED \/ Fits(p, p # Operand)
                             \/ Seek(p).found # Op.CONSTRUCTOR}
           Out(p) == IF p = REFUSED THEN REFUSED
                     ELSE IF Fits(p, p # Operand) THEN p ELSE REFUSED
           Next0(p) == ListAt(Seek(p).next)
           V0(p) == IF p \in Lists \cup {REFUSED} THEN {REFUSED} \cup Good
                    ELSE Nat
           out == [p \in Nat |-> Out(p)]
           next == [p \in Nat |-> Next0(p)]
           V == [p \in Nat |-> V0(p)]
           Is(f) ==
             f = [p \in Nat |->
                    IF p = REFUSED THEN REFUSED
                    ELSE IF Fits(p, p # Operand) THEN p
                    ELSE IF Seek(p).found # Op.CONSTRUCTOR THEN REFUSED
                    ELSE f[ListAt(Seek(p).next)]]
           fitting == CHOOSE f : Is(f)
<1>1. Bytes \in Seq(Nat) /\ Bytes = program.bytes["own"] /\ REFUSED \in Nat
  BY ProgramsAssumption DEF MemoryInv, Bytes, REFUSED
<1>2. c \in BOOLEAN /\ \A p : ListAt(p) = ListFrom(Bytes, p, c, inProject)
  BY DEF ListAt, ListFrom, SkipTo
<1>3. ASSUME NEW p \in Nat PROVE ListAt(p) \in Ahead(p)
  <2>1. SkipTo(Op.BLOCKEND, p).next \in Ahead(p)
    BY <1>1, SkipEnds DEF SkipTo
  <2>2. Past(SkipTo(Op.BLOCKEND, p).next, 1) \in Ahead(p) /\ p \in Ahead(p)
    BY <2>1, PastAhead DEF Ahead
  <2> QED BY <2>2 DEF ListAt
<1>4. ASSUME NEW p \in Nat
      PROVE  /\ AfterParameters(Bytes, p) \in Nat
             /\ Seek(p).next \in Ahead(AfterParameters(Bytes, p))
             /\ AfterParameters(Bytes, p) \notin DOMAIN Bytes =>
                  Seek(p).found = EOF
             /\ p # REFUSED => AfterParameters(Bytes, p) \in Ahead(p + 1)
  <2>1. p # REFUSED => AfterParameters(Bytes, p) \in Ahead(p + 1)
    <3>1. p + 1 \in Ahead(p + 1) /\ CountAt(Bytes, p) \in Nat /\ p + 1 \in Nat
          /\ 1 \in Nat
      BY <1>1, ReadingFrom DEF Ahead
    <3>2. AfterStringsApart(Bytes, p + 1, CountAt(Bytes, p), 1) \in Ahead(p + 1)
      BY <1>1, <3>1, StringsAhead
    <3> QED BY <3>2 DEF AfterParameters
  <2>2. AfterParameters(Bytes, p) \in Nat
    <3>1. p = REFUSED => AfterParameters(Bytes, p) = REFUSED
      BY DEF AfterParameters
    <3> QED BY <1>1, <2>1, <3>1 DEF Ahead
  <2> QED BY <1>1, <2>1, <2>2, SkipEnds DEF SkipTo
<1>5. \A p \in Nat : /\ Next0(p) \in Nat
                     /\ p \notin S => Next0(p) = REFUSED \/ Next0(p) > p
  <2> SUFFICES ASSUME NEW p \in Nat
               PROVE  /\ Next0(p) \in Nat
                      /\ p \notin S => Next0(p) = REFUSED \/ Next0(p) > p
    OBVIOUS
  <2> DEFINE a == AfterParameters(Bytes, p)
             s == Seek(p).next
             r == ListAt(s)
  <2>1. /\ a \in Nat /\ s \in Ahead(a)
        /\ p # REFUSED => a \in Ahead(p + 1)
    BY <1>4
  <2>2. a = REFUSED => Seek(p).found = EOF
    <3>1. REFUSED \notin DOMAIN Bytes
      BY <1>1, ReadingFrom DEF REFUSED
    <3> QED BY <1>4, <3>1
  <2>3. p \notin S => p # REFUSED /\ a # REFUSED
    BY <2>2 DEF EOF, Op
  <2> HIDE DEF S, Seek, a, s
  <2>4. s \in Nat
    BY <2>1 DEF Ahead, REFUSED
  <2>5. r \in Ahead(s)
    BY <1>3, <2>4
  <2>6. s = REFUSED => r = REFUSED
    <3>1. SkipTo(Op.BLOCKEND, REFUSED).next = REFUSED
      BY <1>1, SkipEnds DEF SkipTo
    <3> QED BY <3>1 DEF ListAt, Past
  <2> HIDE DEF r
  <2>7. r \in Nat
    BY <1>1, <2>5 DEF Ahead
  <2>8. p \notin S => r = REFUSED \/ r > p
    BY <2>1, <2>3, <2>4, <2>5, <2>6, <2>7 DEF Ahead
  <2> QED BY <2>7, <2>8 DEF r, s
<1>6. next \in [Nat -> Nat]
  <2> HIDE DEF Next0
  <2> QED BY <1>5
<1>7. \A f : Is(f) <=> Searches(f, S, out, next)
  <2> SUFFICES ASSUME NEW f PROVE Is(f) <=> Searches(f, S, out, next)
    OBVIOUS
  <2> HIDE DEF Seek
  <2>1. \A p \in Nat :
          (IF p \in S THEN out[p] ELSE f[next[p]])
            = IF p = REFUSED THEN REFUSED
              ELSE IF Fits(p, p # Operand) THEN p
              ELSE IF Seek(p).found # Op.CONSTRUCTOR THEN REFUSED
              ELSE f[ListAt(Seek(p).next)]
    OBVIOUS
  <2> QED BY <2>1 DEF Searches
<1>8. FittingConstructor = fitting[ListAt(Operand)]
  BY DEF FittingConstructor
<1>9. Is(fitting)
  <2>1. \E f : Searches(f, S, out, next)
    <3> HIDE DEF S, out, next
    <3> QED BY <1>6, SearchExists
  <2> HIDE DEF Is, S, out, next
  <2> QED BY <1>7, <2>1
<1> HIDE DEF fitting
<1>10. Searches(fitting, S, out, next)
  <2> HIDE DEF Is, S, out, next
  <2> QED BY <1>7, <1>9
<1> HIDE DEF Is, c
<1>11. Lists \subseteq Nat /\ Good \subseteq Nat
  <2> SUFFICES ASSUME NEW q \in At0 PROVE ListAt(q + 1) \in Nat
    OBVIOUS
  <2>1. q + 1 \in Nat
    BY DEF At, Instructions, Compiled, Files
  <2> QED BY <1>1, <1>3, <2>1 DEF Ahead
<1>12. ASSUME NEW p \in Lists, p \notin S
       PROVE  Next0(p) \in Lists \cup {REFUSED}
  <2>1. PICK q \in At0 : p = ListAt(q + 1)
    OBVIOUS
  <2>2. p = ListFrom(Bytes, q + 1, c, inProject)
    BY <1>2, <2>1
  <2>3. Seek(p).found = Op.CONSTRUCTOR
    BY <1>11, <1>12
  <2>4. Seek(p).next - 1 \in At0
    <3>1. ConstructorsFound(program, "own")
      BY DEF Compiled, Files
    <3> QED BY <1>1, <1>2, <2>2, <2>3, <3>1 DEF ConstructorsFound, SkipTo
  <2>5. Seek(p).next \in Nat
    BY <1>1, <1>4, <1>11 DEF Ahead
  <2> DEFINE n == Seek(p).next
  <2>6. n = (n - 1) + 1
    <3> HIDE DEF n
    <3> QED BY <2>5 DEF n
  <2> QED BY <2>4, <2>6
<1>13. LeadsOn(S, out, next, V, Len(Bytes))
  <2>1. ASSUME NEW p \in Nat \cap S PROVE out[p] \in V[p]
    <3>1. out[p] = Out(p) /\ V[p] = V0(p)
      OBVIOUS
    <3>2. Fits(p, p # Operand) => /\ AfterParameters(Bytes, p) # REFUSED
                                  /\ ByteAt(Bytes, p) = Len(parameters)
      BY DEF Fits
    <3> QED BY <1>1, <3>1, <3>2
  <2>2. ASSUME NEW p \in Nat \ S
        PROVE  /\ p <= Len(Bytes) /\ V[next[p]] \subseteq V[p]
               /\ next[p] \in S \/ next[p] > p
    <3> DEFINE r == Next0(p)
    <3>1. next[p] = r
      <4> HIDE DEF Next0
      <4> QED OBVIOUS
    <3>2. r \in Nat /\ (r = REFUSED \/ r > p)
      <4> HIDE DEF Next0, S
      <4> QED BY <1>5
    <3>3. REFUSED \in S
      BY <1>1
    <3>4. V[r] = V0(r) /\ V[p] = V0(p)
      <4> HIDE DEF Next0, V0
      <4> QED BY <3>2
    <3>5. p \in Lists => r \in Lists \cup {REFUSED}
      <4> HIDE DEF Next0, S, Lists
      <4> QED BY <1>12
    <3>6. p # REFUSED /\ Seek(p).found = Op.CONSTRUCTOR
      OBVIOUS
    <3>7. p <= Len(Bytes)
      <4> DEFINE a == AfterParameters(Bytes, p)
      <4>1. a \in DOMAIN Bytes
        BY <1>4, <3>6 DEF EOF, Op
      <4>2. a \in Ahead(p + 1)
        BY <1>4, <3>6
      <4>3. DOMAIN Bytes = 1 .. Len(Bytes) /\ Len(Bytes) \in Nat
        BY <1>1, ReadingFrom
      <4> HIDE DEF a
      <4> QED BY <4>1, <4>2, <4>3 DEF Ahead, REFUSED
    <3> HIDE DEF r, Seek, S, Next0, Lists, V, Good
    <3>8. V0(r) \subseteq V0(p)
      BY <1>1, <1>11, <3>2, <3>5, <3>6
    <3> QED BY <3>1, <3>2, <3>3, <3>4, <3>7, <3>8
  <2> QED BY <2>1, <2>2 DEF LeadsOn
<1>14. \A p \in Nat : fitting[p] \in V[p]
  <2> DEFINE N == Len(Bytes)
  <2>1. N \in Nat /\ LeadsOn(S, out, next, V, N)
    BY <1>1, <1>13
  <2> HIDE DEF S, out, next, V, N
  <2> QED BY <1>6, <1>10, <2>1, SearchFinds
<1>15. ListAt(Operand) \in Lists
  BY DEF Operand
<1>16. FittingConstructor \in {REFUSED} \cup Good
  <2> HIDE DEF Lists, Good
  <2> QED BY <1>8, <1>11, <1>14, <1>15
<1>17. PICK q \in At0 : /\ FittingConstructor = ListAt(q + 1)
                        /\ AfterParameters(Bytes, FittingConstructor) # REFUSED
                        /\ ByteAt(Bytes, FittingConstructor) = Len(parameters)
  BY <1>16
<1>18. FittingConstructor = ListFrom(Bytes, q + 1, c, inProject)
  BY <1>2, <1>17
<1>19. ConstructorsFound(program, "own")
  BY DEF Compiled, Files
<1> QED BY <1>1, <1>2, <1>17, <1>18, <1>19 DEF ConstructorsFound

\* CONSTRUCTOR leads to the body of the one that is chosen.
LEMMA ConstructorLeads ==
  ASSUME Compiled(program), MemoryInv, MemoryInv', CodeInv, Executable, Construct
  PROVE  CodeInv'
<1> DEFINE names == ConstructorNames(FittingConstructor)
           body == AfterParameters(Bytes, FittingConstructor)
<1>1. /\ UNCHANGED <<program, file, calls, inProject, procs>>
      /\ pos' = body
      /\ scopes' = IF parameters = << >> THEN scopes
                   ELSE Bind(scopes, names, parameters)
      /\ Opcode = Op.CONSTRUCTOR
  BY DEF Construct, Goto, Executes, ghosts
<1>2. calls = << >> /\ file = "own"
  BY <1>1, UncalledAt
<1>3. pos \in At(program, "own", Op.CONSTRUCTOR)
  BY <1>1, <1>2, Fetch DEF CodeInv
<1>4. inProject \in InProjects(program)
  BY DEF CodeInv, PlaceOK
<1>5. FittingConstructor # REFUSED
  BY <1>1, Runs DEF Refuses
<1>6. /\ body \in program.starts.own
      /\ ~Enclosed(program, "own", body) /\ ~Inside(program, "own", body)
  BY <1>2, <1>3, <1>4, <1>5, ConstructorFound
<1>7. CodeStays
  <2> HIDE DEF body, names
  <2> QED BY <1>1, <1>2, <1>4, <1>6 DEF CodeStays, Starts
<1>8. SameFrames(scopes, scopes')
  <2>1. CASE parameters = << >>
    BY <1>1, <2>1, SameScopes
  <2>2. CASE parameters # << >>
    <3>1. scopes # << >>
      BY <1>1, <2>2, Runs DEF Crashes
    <3>2. DOMAIN parameters = 1 .. Len(parameters) /\ Len(parameters) \in Nat
      BY DEF MemoryInv
    <3> DEFINE N == Nat \cup {EOF}
               t == Bind(scopes, names, parameters)
    <3>3. names = [i \in 1 .. Len(parameters) |-> names[i]]
          /\ \A i \in 1 .. Len(parameters) : names[i] \in N
      BY <3>2, Reading DEF ConstructorNames
    <3>4. scopes' = t
      BY <1>1, <2>2
    <3> HIDE DEF names, N, t
    <3>5. names \in Seq(N) /\ Range(names) \subseteq N
      BY <3>2, <3>3 DEF Range
    <3>6. (\E L : scopes \in Seq(L)) /\ scopes # << >> /\ ScopesOK(scopes)
      BY <3>1 DEF MemoryInv, ScopesOK
    <3>7. /\ DOMAIN t = DOMAIN scopes /\ Len(t) = Len(scopes)
          /\ \A k \in DOMAIN scopes : k # 1 => t[k] = scopes[k]
          /\ DOMAIN t[1] = DOMAIN scopes[1] \cup Range(names)
          /\ \A x \in DOMAIN scopes[1] \ Range(names) : t[1][x] = scopes[1][x]
      BY <3>5, <3>6, BindSound DEF t
    <3>8. RETURN_ADDRESS \notin N /\ RETURN_SOURCE \notin N
      BY DEF N, EOF, RETURN_ADDRESS, RETURN_SOURCE
    <3>9. SameReturn(scopes[1], t[1])
      BY <3>5, <3>7, <3>8 DEF SameReturn
    <3>10. \A k \in DOMAIN scopes : /\ SameReturn(scopes[k], t[k])
                                    /\ k # 1 => DOMAIN t[k] = DOMAIN scopes[k]
      <4> SUFFICES ASSUME NEW k \in DOMAIN scopes
                   PROVE  /\ SameReturn(scopes[k], t[k])
                          /\ k # 1 => DOMAIN t[k] = DOMAIN scopes[k]
        OBVIOUS
      <4>1. CASE k = 1
        BY <3>9, <4>1
      <4>2. CASE k # 1
        BY <3>7, <4>2 DEF SameReturn
      <4> QED BY <4>1, <4>2
    <3> QED BY <3>4, <3>6, <3>7, <3>10, ChangedFrames
  <2> QED BY <2>1, <2>2
<1>9. ProceduresOK'
  BY <1>1, ProceduresStay DEF CodeInv
<1> QED BY <1>7, <1>8, <1>9, Proceeds DEF MemoryInv

\* Who went astray stays so.
LEMMA StaysAstray ==
  ASSUME [Next]_vars, astray
  PROVE  astray'
<1>1. CASE Executable /\ Instruction
  <2>1. CASE \/ EnterScope \/ ExitScope \/ Declare \/ Store \/ Load
             \/ Push \/ Expression \/ Not \/ AnyType \/ StructConstructor
             \/ StructLoad \/ Jump \/ BehaviourJump \/ IfClause \/ ElseClause
    BY <2>1 DEF EnterScope, ExitScope, Declare, Store, Load, Push, Expression,
         Not, AnyType, StructConstructor, StructLoad, Jump, BehaviourJump,
         IfClause, ElseClause, Rescope, Restack, Replace, JumpTo, ghosts
  <2>2. CASE \/ Proc \/ CallOwn \/ CallGlobal \/ CallStandard
             \/ ProjectEntry \/ ProjectExit
             \/ DeclareChannels \/ Construct \/ Call \/ Stop \/ Disconnect
             \/ UnknownByte
    BY <2>2 DEF Proc, CallOwn, CallGlobal, CallStandard, CallTo, ProjectEntry,
         ProjectExit, DeclareChannels, Construct, Call, Stop, Disconnect,
         UnknownByte, Restack, Replace, JumpTo, ghosts
  <2>3. CASE Return \/ BlockEnd
    BY <2>3 DEF Return, BlockEnd, ProcReturn, JumpTo, ghosts
  <2> QED BY <1>1, <2>1, <2>2, <2>3 DEF Instruction
<1>2. CASE Fails \/ End \/ StoppedByOther \/ Done \/ UNCHANGED vars
  BY <1>2 DEF Fails, End, StoppedByOther, Done, vars, ghosts
<1>3. CASE Connect \/ Send \/ Receive
  BY <1>3 DEF Connect, Send, Receive, JumpTo, Restack, Replace, ghosts
<1> QED BY <1>1, <1>2, <1>3 DEF Next, Alone, Together

\* Every step keeps CodeInv, if it does not go astray.
LEMMA CodeStep ==
  ASSUME Compiled(program), MemoryInv, MemoryInv', TypesOK, CodeInv,
         [Next]_vars, ~astray'
  PROVE  CodeInv'
<1>1. CASE Executable /\ Instruction
  <2>1. CASE EnterScope \/ ExitScope \/ Declare \/ Store
    BY <1>1, <2>1, ScopeStepsLead
  <2>2. CASE \/ Load \/ Push \/ Expression \/ Not \/ AnyType
             \/ StructConstructor \/ StructLoad \/ CallStandard
             \/ DeclareChannels \/ Call \/ Stop \/ Disconnect \/ UnknownByte
    BY <1>1, <2>2, PlainSteps
  <2>3. CASE Jump \/ BehaviourJump \/ IfClause \/ ElseClause
    BY <1>1, <2>3, JumpsLead
  <2>4. CASE Proc
    BY <1>1, <2>4, ProcedureFound
  <2>5. CASE CallOwn \/ CallGlobal
    BY <1>1, <2>5, CallsLead
  <2>6. CASE Return \/ BlockEnd
    BY <1>1, <2>6, ReturnsLead
  <2>7. CASE ProjectEntry
    BY <1>1, <2>7, ProjectEntered
  <2>8. CASE ProjectExit
    BY <1>1, <2>8, ProjectLeft
  <2>9. CASE Construct
    BY <1>1, <2>9, ConstructorLeads
  <2> QED BY <1>1, <2>1, <2>2, <2>3, <2>4, <2>5, <2>6, <2>7, <2>8, <2>9
          DEF Instruction
<1>2. CASE Fails \/ End \/ StoppedByOther \/ Done \/ UNCHANGED vars
  BY <1>2, OthersKeepCode
<1>3. CASE Executable /\ (Connect \/ Send \/ Receive)
  BY <1>3, PlainSteps
<1> QED BY <1>1, <1>2, <1>3 DEF Next, Alone, Together

\* A component starts at the first instruction of its file, with no calls.
LEMMA CodeAtFirst ==
  ASSUME Compiled(program), Init
  PROVE  CodeInv
<1>1. /\ file = "own" /\ pos = 1 /\ inProject = FALSE /\ calls = << >>
      /\ procs = << >> /\ scopes = << >> /\ DOMAIN << >> = {}
  BY DEF Init
<1>2. 1 \in program.starts.own /\ ~Enclosed(program, "own", 1)
  BY DEF Compiled
<1>3. ~Inside(program, "own", 1)
  <2>1. \A r \in At(program, "own", Op.PROC) : r \in Nat \ {0}
    BY DEF At, Instructions, Compiled, Files
  <2>2. \A r \in At(program, "own", Op.PROC) : ~(r < 1)
    BY <2>1
  <2> QED BY <2>2 DEF Inside, Around
<1>4. inProject \in InProjects(program)
  BY <1>1 DEF InProjects
<1>5. PlaceOK
  BY <1>1, <1>2, <1>3, <1>4 DEF PlaceOK, Starts
<1>6. ProceduresOK
  BY <1>1 DEF ProceduresOK
<1>7. FramesOK
  <2>1. << >> \in Seq({})
    OBVIOUS
  <2> QED BY <1>1, <2>1 DEF FramesOK
<1>8. AddressesOK
  BY <1>1 DEF AddressesOK
<1> QED BY <1>5, <1>6, <1>7, <1>8 DEF CodeInv

(***************************************************************************)
(* The inductive invariant of a component whose program was compiled       *)
(***************************************************************************)
StatusOK ==
  /\ status \in {"run", "ended", "refused", "crashed", "hung"}
  /\ {stop, running, inProject, astray} \subseteq BOOLEAN

CompiledInv == /\ program \in Programs /\ TypesOK /\ StatusOK
               /\ ~astray => CodeInv

\* Every step keeps the status one of those there are.
LEMMA StatusStep ==
  ASSUME StatusOK, [Next]_vars
  PROVE  StatusOK'
<1>1. CASE Executable /\ Instruction
  <2>1. CASE \/ EnterScope \/ ExitScope \/ Declare \/ Store \/ Load
             \/ Push \/ Expression \/ Not \/ AnyType \/ StructConstructor
             \/ StructLoad \/ Jump \/ IfClause \/ ElseClause
    <3>1. UNCHANGED <<status, stop, running, inProject, astray>>
      BY <2>1 DEF EnterScope, ExitScope, Declare, Store, Load, Push, Expression,
           Not, AnyType, StructConstructor, StructLoad, Jump, IfClause,
           ElseClause, Rescope, Restack, Replace, JumpTo, Continue, Goto, self,
           ghosts
    <3> QED BY <3>1 DEF StatusOK
  <2>2. CASE \/ Proc \/ CallOwn \/ CallGlobal \/ CallStandard
             \/ DeclareChannels \/ Call \/ Disconnect \/ UnknownByte
    <3>1. UNCHANGED <<status, stop, running, inProject, astray>>
      BY <2>2 DEF Proc, CallOwn, CallGlobal, CallStandard, CallTo,
           DeclareChannels, Call, Disconnect, UnknownByte, Restack, Replace,
           JumpTo, Continue, Goto, self, ghosts
    <3> QED BY <3>1 DEF StatusOK
  <2>3. CASE Return \/ BlockEnd
    <3>1. UNCHANGED <<status, stop, running, inProject>> /\ astray' \in BOOLEAN
      BY <2>3 DEF StatusOK, Return, BlockEnd, ProcReturn, JumpTo, Goto, self,
           ghosts
    <3> QED BY <3>1 DEF StatusOK
  <2>4. CASE ProjectEntry \/ ProjectExit
    <3>1. UNCHANGED <<status, stop, running, astray>> /\ inProject' \in BOOLEAN
      BY <2>4 DEF StatusOK, ProjectEntry, ProjectExit, Continue, Goto, ghosts
    <3> QED BY <3>1 DEF StatusOK
  <2>5. CASE Construct
    <3>1. UNCHANGED <<status, stop, inProject, astray>> /\ running' = TRUE
      BY <2>5 DEF Construct, Goto, ghosts
    <3> QED BY <3>1 DEF StatusOK
  <2>6. CASE BehaviourJump \/ Stop
    <3>1. UNCHANGED <<status, running, inProject, astray>>
      BY <2>6 DEF BehaviourJump, Stop, JumpTo, Continue, Goto, self, ghosts
    <3>2. \/ stop' = stop \/ stop' = TRUE
          \/ stop' = (Name \in {NO_NAME, program.name})
      BY <2>6 DEF BehaviourJump, Stop, JumpTo, self
    <3>3. stop \in BOOLEAN
      BY DEF StatusOK
    <3> DEFINE named == Name \in {NO_NAME, program.name}
    <3>4. named \in BOOLEAN
      OBVIOUS
    <3>5. stop' \in {stop, TRUE, named}
      BY <3>2
    <3> HIDE DEF named
    <3>6. stop' \in BOOLEAN
      BY <3>3, <3>4, <3>5
    <3> QED BY <3>1, <3>6 DEF StatusOK
  <2> QED BY <1>1, <2>1, <2>2, <2>3, <2>4, <2>5, <2>6 DEF Instruction
<1>2. CASE Fails \/ End
  <2>1. UNCHANGED <<stop, running, inProject, astray>>
    BY <1>2 DEF Fails, End, self, ghosts
  <2>2. status' \in {"ended", "refused", "crashed", "hung"}
    BY <1>2 DEF Fails, End, Outcome
  <2> QED BY <2>1, <2>2 DEF StatusOK
<1>3. CASE StoppedByOther \/ Done \/ UNCHANGED vars
  <2>1. UNCHANGED <<status, running, inProject, astray>> /\ stop' \in BOOLEAN
    BY <1>3 DEF StatusOK, StoppedByOther, Done, vars, place, self, ghosts
  <2> QED BY <2>1 DEF StatusOK
<1>4. CASE Connect \/ Send \/ Receive
  <2>1. UNCHANGED <<status, stop, running, inProject, astray>>
    BY <1>4 DEF Connect, Send, Receive, JumpTo, Restack, Replace, Continue,
         Goto, self, ghosts
  <2> QED BY <2>1 DEF StatusOK
<1> QED BY <1>1, <1>2, <1>3, <1>4 DEF Next, Alone, Together

\* A compiled program is given objects with types.
LEMMA CompiledIsTyped == CompiledPrograms => TypedFromOutside
BY DEF CompiledPrograms, Compiled, TypedFromOutside

\* The invariant holds when a component starts.
LEMMA CompiledInvAtFirst == CompiledPrograms /\ Init => CompiledInv
<1> SUFFICES ASSUME CompiledPrograms, Init PROVE CompiledInv
  OBVIOUS
<1>1. program \in Programs /\ StatusOK
  BY DEF Init, StatusOK
<1>2. CodeInv
  BY <1>1, CodeAtFirst DEF CompiledPrograms
<1>3. TypesOK
  BY CompiledIsTyped, TypesAtFirst
<1> QED BY <1>1, <1>2, <1>3 DEF CompiledInv

\* The invariant is inductive, over MemoryInv.
LEMMA CompiledInvStep ==
  CompiledPrograms /\ MemoryInv /\ MemoryInv' /\ CompiledInv /\ [Next]_vars
    => CompiledInv'
<1> SUFFICES ASSUME CompiledPrograms, MemoryInv, MemoryInv', CompiledInv,
                    [Next]_vars
             PROVE  CompiledInv'
  OBVIOUS
<1>1. StatusOK'
  BY StatusStep DEF CompiledInv
<1>2. TypesOK'
  BY CompiledIsTyped, TypesStep DEF CompiledInv
<1>3. program' \in Programs
  BY DEF MemoryInv
<1>4. ASSUME ~astray' PROVE CodeInv'
  <2>1. ~astray
    BY <1>4, StaysAstray
  <2>2. Compiled(program)
    BY DEF CompiledInv, CompiledPrograms
  <2> QED BY <1>4, <2>1, <2>2, CodeStep DEF CompiledInv
<1> QED BY <1>1, <1>2, <1>3, <1>4 DEF CompiledInv

(***************************************************************************)
(* The invariant of every component whose programs were compiled: where it *)
(* is, which procedures it has, and, for each call, the scope that it      *)
(* entered and where it returns to.                                        *)
(***************************************************************************)
THEOREM CompiledAlwaysSound ==
  CompiledPrograms => (Spec => [](MemoryInv /\ CompiledInv))
<1> SUFFICES ASSUME CompiledPrograms PROVE Spec => [](MemoryInv /\ CompiledInv)
  OBVIOUS
<1>1. Init => CompiledInv
  BY CompiledInvAtFirst
<1>2. MemoryInv /\ MemoryInv' /\ CompiledInv /\ [Next]_vars => CompiledInv'
  BY CompiledInvStep
<1> QED BY <1>1, <1>2, MemoryAlwaysSound, PTL DEF Spec

(***************************************************************************)
(* Between two instructions, a component that is still running is at the   *)
(* first byte of one, unless a return went to another file: jumps, ends of *)
(* blocks, what skipToNext finds, calls and returns lead nowhere else, in  *)
(* every component whose programs were compiled.                           *)
(***************************************************************************)
THEOREM AlwaysInStep == CompiledPrograms => (Spec => []InStep)
<1> SUFFICES ASSUME CompiledPrograms PROVE Spec => []InStep
  OBVIOUS
<1>1. MemoryInv /\ CompiledInv => InStep
  BY DEF CompiledInv, CodeInv, PlaceOK, InStep
<1>2. Spec => [](MemoryInv /\ CompiledInv)
  BY CompiledAlwaysSound
<1> QED BY <1>1, <1>2, PTL

\* What can be reached has a known type.
LEMMA ReachedAreTyped ==
  ASSUME TypesOK
  PROVE  Reachable \subseteq TypedObjects
<1> DEFINE D == SUBSET TypedObjects
           n == MaxObjects
           On(R) == UNION {{o} \cup (Range(heap[o].refs) \ {NULL}) : o \in R}
           Is(f) == f = [i \in 0 .. n |-> IF i = 0 THEN Roots ELSE On(f[i - 1])]
           next == [R \in D |-> On(R)]
           reach == CHOOSE f : Is(f)
<1>0. n \in Nat
  BY MaxObjectsAssumption
<1>1. \A R \in D : On(R) \in D
  BY DEF TypesOK
<1>2. Roots \in D
  BY DEF TypesOK
<1>7. Reachable = reach[n]
  BY DEF Reachable
<1> HIDE DEF D, On, n
<1>3. PICK f \in [0 .. n -> D] : StepsFrom(f, n, Roots, next)
  <2>1. next \in [D -> D]
    BY <1>1
  <2> HIDE DEF next
  <2> QED BY <1>0, <1>2, <2>1, SegmentRecursion
<1>4. \A i \in 0 .. n : f[i] = IF i = 0 THEN Roots ELSE On(f[i - 1])
  <2> SUFFICES ASSUME NEW i \in 0 .. n
               PROVE  f[i] = IF i = 0 THEN Roots ELSE On(f[i - 1])
    OBVIOUS
  <2>1. i # 0 => i - 1 \in 0 .. n
    BY <1>0
  <2>2. i # 0 => next[f[i - 1]] = On(f[i - 1])
    BY <2>1
  <2> HIDE DEF next
  <2> QED BY <1>3, <2>2 DEF StepsFrom
<1>5. Is(f)
  BY <1>3, <1>4
<1>6. Is(reach)
  <2> HIDE DEF Is
  <2> QED BY <1>5
<1> HIDE DEF reach
<1>8. reach[0] \in D
  BY <1>0, <1>2, <1>6
<1>9. \A i \in 0 .. n - 1 : reach[i] \in D => reach[i + 1] \in D
  <2> SUFFICES ASSUME NEW i \in 0 .. n - 1, reach[i] \in D
               PROVE  reach[i + 1] \in D
    OBVIOUS
  <2>1. i + 1 \in 0 .. n /\ i + 1 # 0 /\ (i + 1) - 1 = i
    BY <1>0
  <2>2. reach[i + 1] = On(reach[i])
    BY <1>6, <2>1
  <2> QED BY <1>1, <2>2
<1> HIDE DEF Is
<1>10. \A i \in 0 .. n : reach[i] \in D
  BY <1>0, <1>8, <1>9, SegmentInduction
<1> QED BY <1>0, <1>7, <1>10 DEF D

(***************************************************************************)
(* Unless a return went to another file, the position is one of a file,    *)
(* the values on the data stack and in the scopes are objects, and what    *)
(* can be reached from them has a known type: it is what the decisions on  *)
(* types in Component.c rest on.                                           *)
(***************************************************************************)
THEOREM AlwaysTypeOK ==
  CompiledPrograms => (Spec => [](~astray => TypeOK))
<1> SUFFICES ASSUME CompiledPrograms PROVE Spec => [](~astray => TypeOK)
  OBVIOUS
<1>1. MemoryInv /\ CompiledInv => (~astray => TypeOK)
  <2> SUFFICES ASSUME MemoryInv, CompiledInv, ~astray PROVE TypeOK
    OBVIOUS
  <2>1. pos \in Nat \ {0}
    <3>1. pos \in program.starts[file] /\ program \in Programs
      BY DEF CompiledInv, CodeInv, PlaceOK, Starts
    <3>2. Compiled(program) /\ file \in Files
      BY <3>1 DEF CompiledPrograms, MemoryInv, Files
    <3> QED BY <3>1, <3>2 DEF Compiled
  <2>2. Range(stack) \cup Range(parameters) \subseteq Objects
    BY DEF MemoryInv, Range
  <2>3. \A o \in Reachable : heap[o].type \in Range(Type) \ {Type.UNKNOWN}
    BY ReachedAreTyped DEF CompiledInv, TypedObjects
  <2>4. \A k \in DOMAIN scopes : Variables(scopes[k]) \subseteq Objects \cup {NULL}
    BY DEF MemoryInv, ScopesOK, LevelOK, Variables, Values
  <2> QED BY <2>1, <2>2, <2>3, <2>4 DEF TypeOK, MemoryInv, CompiledInv, StatusOK
<1>2. Spec => [](MemoryInv /\ CompiledInv)
  BY CompiledAlwaysSound
<1> QED BY <1>1, <1>2, PTL

\* Only a return takes a call off the list.
LEMMA OnlyReturnsShorten ==
  ASSUME MemoryInv, CodeInv, [Next]_vars, Len(calls') < Len(calls)
  PROVE  ProcReturn /\ Holding(scopes, RETURN_ADDRESS) # {}
<1>1. PICK C : calls \in Seq(C)
  BY DEF CodeInv, FramesOK
<1>2. Len(calls) \in Nat
  BY <1>1
<1>3. calls' # calls
  BY <1>2
<1>4. CASE Executable /\ Instruction
  <2>1. CASE \/ EnterScope \/ ExitScope \/ Declare \/ Store \/ Load
             \/ Push \/ Expression \/ Not \/ AnyType \/ StructConstructor
             \/ StructLoad \/ Jump \/ BehaviourJump \/ IfClause \/ ElseClause
    BY <1>3, <2>1 DEF EnterScope, ExitScope, Declare, Store, Load, Push,
         Expression, Not, AnyType, StructConstructor, StructLoad, Jump,
         BehaviourJump, IfClause, ElseClause, Rescope, Restack, Replace,
         JumpTo, ghosts
  <2>2. CASE \/ Proc \/ CallStandard \/ ProjectEntry \/ ProjectExit
             \/ DeclareChannels \/ Construct \/ Call \/ Stop \/ Disconnect
             \/ UnknownByte
    BY <1>3, <2>2 DEF Proc, CallStandard, ProjectEntry, ProjectExit,
         DeclareChannels, Construct, Call, Stop, Disconnect, UnknownByte,
         Restack, Replace, JumpTo, ghosts
  <2>3. CASE CallOwn \/ CallGlobal
    <3> DEFINE call == [resume |-> Following, file |-> file,
                        names |-> ScopeNames(scopes)]
    <3>1. calls' = <<call>> \o calls
      BY <2>3 DEF CallOwn, CallGlobal, CallTo
    <3> HIDE DEF call
    <3>2. Len(<<call>> \o calls) = Len(calls) + 1
      BY <1>1
    <3> QED BY <1>2, <3>1, <3>2
  <2>4. CASE Return
    BY <1>4, <2>4, Runs DEF Return, Executes, Crashes
  <2>5. CASE BlockEnd
    BY <1>3, <2>5 DEF BlockEnd, JumpTo, ghosts
  <2> QED BY <1>4, <2>1, <2>2, <2>3, <2>4, <2>5 DEF Instruction
<1>5. CASE Fails \/ End \/ StoppedByOther \/ Done \/ UNCHANGED vars
  BY <1>3, <1>5 DEF Fails, End, StoppedByOther, Done, vars, ghosts
<1>6. CASE Connect \/ Send \/ Receive
  BY <1>3, <1>6 DEF Connect, Send, Receive, JumpTo, Restack, Replace, ghosts
<1> QED BY <1>4, <1>5, <1>6 DEF Next, Alone, Together

\* When no more levels hold an address than there are calls, the innermost
\* of them is that of the latest call.
LEMMA NoOtherHolds ==
  ASSUME MemoryInv, CodeInv, calls # << >>,
         Cardinality(Holding(scopes, RETURN_ADDRESS)) = Len(calls),
         1 \in Holding(scopes, RETURN_ADDRESS)
  PROVE  Height(1) = Len(scopes)
<1> DEFINE H == Holding(scopes, RETURN_ADDRESS)
           n == Len(scopes)
           m == Len(calls)
           s == [i \in 1 .. m |-> n + 1 - Height(i)]
<1>1. PICK C : calls \in Seq(C)
  BY DEF CodeInv, FramesOK
<1>2. m \in Nat /\ DOMAIN calls = 1 .. m
  BY <1>1
<1>3. n \in Nat /\ DOMAIN scopes = 1 .. n
  BY ScopesFrom DEF MemoryInv
<1>4. \A i \in 1 .. m : Height(i) \in Nat \ {0} /\ Height(i) <= n
                        /\ Height(i) <= Height(1)
  BY <1>2, Heights
<1>5. s \in Seq(Int) /\ Len(s) = m
  <2>1. \A i \in 1 .. m : n + 1 - Height(i) \in Int
    BY <1>3, <1>4
  <2> HIDE DEF m
  <2> QED BY <1>2, <2>1
<1>6. \A i, j \in 1 .. m : s[i] = s[j] => i = j
  <2> SUFFICES ASSUME NEW i \in 1 .. m, NEW j \in 1 .. m, s[i] = s[j]
               PROVE  i = j
    OBVIOUS
  <2>1. CallOK(i) /\ CallOK(j)
    BY <1>2 DEF CodeInv, FramesOK
  <2>2. (i < j => Height(j) < Height(i)) /\ (j < i => Height(i) < Height(j))
    BY <1>2, <2>1 DEF CallOK
  <2>3. Height(i) \in Nat /\ Height(j) \in Nat
        /\ n + 1 - Height(i) = n + 1 - Height(j)
    BY <1>4
  <2> DEFINE hi == Height(i)
             hj == Height(j)
  <2>4. hi = hj
    <3> HIDE DEF hi, hj, n
    <3> QED BY <1>3, <2>3 DEF hi, hj
  <2> HIDE DEF hi, hj, m, s
  <2>5. ~(i < j) /\ ~(j < i)
    BY <2>2, <2>3, <2>4 DEF hi, hj
  <2> QED BY <1>2, <2>5
<1>7. Cardinality(Range(s)) = m
  <2> HIDE DEF s, m
  <2> QED BY <1>5, <1>6, CardinalityOfSequence
<1>8. Range(s) \subseteq H
  <2> SUFFICES ASSUME NEW i \in 1 .. m PROVE n + 1 - Height(i) \in H
    BY DEF Range
  <2>1. FrameOK(i) /\ CallOK(i)
    BY <1>2 DEF CodeInv, FramesOK
  <2> DEFINE h == Height(i)
             k == n + 1 - h
  <2>2. h \in Nat \ {0} /\ h <= n
    BY <1>4
  <2> HIDE DEF h
  <2>3. k \in 1 .. n
    <3> HIDE DEF n
    <3> QED BY <1>3, <2>2
  <2>4. /\ RETURN_ADDRESS \in DOMAIN scopes[k]
        /\ scopes[k][RETURN_ADDRESS] = calls[i].resume
    BY <2>1 DEF FrameOK, Level, h
  <2>5. calls[i].resume # NULL
    BY <2>1, ProgramsAssumption DEF CallOK
  <2>6. k \in H
    BY <1>3, <2>3, <2>4, <2>5 DEF Holding, ListMap_get
  <2> QED BY <2>6 DEF h
<1>9. IsFiniteSet(H)
  <2>1. IsFiniteSet(1 .. n)
    BY <1>3, FS_Interval
  <2>2. H \subseteq 1 .. n
    BY <1>3 DEF Holding
  <2> QED BY <2>1, <2>2, FS_Subset
<1>10. Range(s) = H
  <2>1. Cardinality(H) = m
    OBVIOUS
  <2> HIDE DEF H, s, m
  <2> QED BY <1>7, <1>8, <1>9, <2>1, FS_Subset
<1>11. PICK i \in 1 .. m : n + 1 - Height(i) = 1
  BY <1>10 DEF Range
<1>12. 1 \in 1 .. m
  BY <1>2, <1>11
<1> DEFINE h == Height(i)
           g == Height(1)
<1>13. h \in Nat /\ g \in Nat /\ h <= g /\ g <= n /\ n + 1 - h = 1
  BY <1>4, <1>11, <1>12
<1> HIDE DEF h, g, n
<1>14. g = n
  BY <1>3, <1>13
<1> QED BY <1>14 DEF g, n

\* Where every call under way has a scope, a return that finds its own on top
\* takes it and restores what was there at the call.
LEMMA Restores ==
  ASSUME Compiled(program), MemoryInv, CodeInv, [Next]_vars,
         Len(calls') < Len(calls), ~astray', RETURN_ADDRESS \in DOMAIN scopes[1],
         Cardinality(Holding(scopes, RETURN_ADDRESS)) = Len(calls)
  PROVE  /\ pos' = calls[1].resume /\ file' = calls[1].file
         /\ ScopeNames(scopes') = calls[1].names
<1> DEFINE H == Holding(scopes, RETURN_ADDRESS)
           n == Len(scopes)
           k == Innermost(H)
           t == ScopeStack_exitScope(ScopeStack_exitTo(scopes, RETURN_ADDRESS))
<1>1. ProcReturn /\ H # {}
  BY OnlyReturnsShorten
<1>2. /\ pos' = scopes[k][RETURN_ADDRESS] /\ scopes' = t
      /\ calls # << >> /\ file' = calls[1].file
  BY <1>1 DEF ProcReturn, ScopeStack_load
<1>3. calls[1].file = "own"
  BY <1>1, <1>2, ReturnsToOwn
<1>4. n \in Nat /\ DOMAIN scopes = 1 .. n
  BY ScopesFrom DEF MemoryInv
<1>5. /\ k \in H /\ \A j \in H : k <= j
      /\ ScopesOK(t) /\ Outer(scopes, t) /\ Len(t) \in Nat
      /\ Len(t) = IF k = 1 THEN n - 1 ELSE n + 1 - k
  BY <1>1, ReturnScopes DEF MemoryInv
<1>6. n \in 1 .. n /\ 1 \in 1 .. n /\ Level(scopes, n) = scopes[1]
  <2>1. n # 0
    <3>1. PICK j : j \in 1 .. n
      BY <1>1, <1>4 DEF Holding
    <3> HIDE DEF n
    <3> QED BY <1>4, <3>1
  <2>2. n + 1 - n = 1
    BY <1>4
  <2> QED BY <1>4, <2>1, <2>2 DEF Level
<1>7. 1 \in H
  <2>1. PICK r : r = scopes[1][RETURN_ADDRESS]
    OBVIOUS
  <2>2. AddressOK(n, r)
    BY <1>3, <1>4, <1>6, <2>1 DEF CodeInv, AddressesOK, CallsOwn
  <2>3. r \in Nat
    BY <2>2 DEF AddressOK, Compiled, Files
  <2>4. r # NULL
    BY <2>3, ProgramsAssumption
  <2> QED BY <1>4, <1>6, <2>1, <2>4 DEF Holding, ListMap_get
<1>8. k = 1
  <2>1. k \in 1 .. n /\ k <= 1
    BY <1>4, <1>5, <1>7, Zenon DEF Holding
  <2> HIDE DEF k
  <2> QED BY <2>1
<1>9. Height(1) = n
  BY <1>2, <1>7, NoOtherHolds
<1>10. 1 \in DOMAIN calls /\ CallOK(1) /\ FrameOK(1)
  BY <1>2, CallHolds
<1>11. pos' = calls[1].resume
  BY <1>2, <1>6, <1>8, <1>9, <1>10 DEF FrameOK
<1> DEFINE names == calls[1].names
           l == Len(t)
<1>12. l \in Nat /\ l = n - 1 /\ DOMAIN t = 1 .. l
  BY <1>5, <1>8, ScopesFrom
<1>13. Len(names) = l /\ names = [j \in 1 .. Len(names) |-> names[j]]
  <2>1. Len(names) \in Nat /\ names = [j \in 1 .. Len(names) |-> names[j]]
        /\ Len(names) + 1 = n
    BY <1>9, <1>10 DEF CallOK, Height
  <2> DEFINE m == Len(names)
  <2>2. m \in Nat /\ m + 1 = n
    BY <2>1
  <2> HIDE DEF m, l, n
  <2>3. m = l
    BY <1>12, <2>2
  <2> QED BY <2>1, <2>3 DEF m, n
<1>14. ASSUME NEW j \in 1 .. l PROVE DOMAIN t[j] = names[j]
  <2> DEFINE d == l + 1 - j
  <2>1. d \in 1 .. l /\ l + 1 - d = j /\ n - d = j /\ d \in 1 .. n - 1
        /\ d \in 1 .. n
    <3> HIDE DEF l, n
    <3> QED BY <1>4, <1>12, <1>14
  <2> HIDE DEF d
  <2>2. Level(t, d) = t[j]
    BY <2>1 DEF Level
  <2>3. Level(t, d) = Level(scopes, d)
    BY <1>4, <1>5, <1>12, <2>1, Zenon DEF Outer
  <2>4. DOMAIN Level(scopes, d) = names[n - d]
    BY <1>9, <1>10, <2>1 DEF FrameOK
  <2> QED BY <2>1, <2>2, <2>3, <2>4
<1>15. ScopeNames(t) = names
  <2> HIDE DEF names, t, l
  <2> QED BY <1>12, <1>13, <1>14 DEF ScopeNames
<1> QED BY <1>2, <1>11, <1>15

(***************************************************************************)
(* A return goes to the instruction after the call, in the file of the     *)
(* call, with the scopes there were: however many scopes the body had      *)
(* entered, and whatever was declared in them.                             *)
(***************************************************************************)
THEOREM AlwaysRestores == CompiledPrograms => (Spec => ReturnRestores)
<1> SUFFICES ASSUME CompiledPrograms PROVE Spec => ReturnRestores
  OBVIOUS
<1> DEFINE Restored ==
      LET call == calls[1]
      IN /\ Fetched /\ Len(calls') < Len(calls)
         /\ ~astray' /\ RETURN_ADDRESS \in DOMAIN scopes[1]
         /\ Cardinality(Holding(scopes, RETURN_ADDRESS)) = Len(calls)
         => /\ pos' = call.resume /\ file' = call.file
            /\ ScopeNames(scopes') = call.names
<1>1. MemoryInv /\ CompiledInv /\ [Next]_vars => [Restored]_vars
  <2> SUFFICES ASSUME MemoryInv, CompiledInv, [Next]_vars,
                      Len(calls') < Len(calls), ~astray',
                      RETURN_ADDRESS \in DOMAIN scopes[1],
                      Cardinality(Holding(scopes, RETURN_ADDRESS)) = Len(calls)
               PROVE  /\ pos' = calls[1].resume /\ file' = calls[1].file
                      /\ ScopeNames(scopes') = calls[1].names
    OBVIOUS
  <2>1. ~astray
    BY StaysAstray
  <2>2. CodeInv /\ Compiled(program)
    BY <2>1 DEF CompiledInv, CompiledPrograms
  <2> QED BY <2>2, Restores
<1>2. Spec => [](MemoryInv /\ CompiledInv)
  BY CompiledAlwaysSound
<1> QED BY <1>1, <1>2, PTL DEF Spec, ReturnRestores

-----------------------------------------------------------------------------
(***************************************************************************)
(* Arguments: which procedures there are, and how names and values meet.   *)
(***************************************************************************)
\* Only calls make the list of calls longer.
LEMMA OnlyCallsLengthen ==
  ASSUME MemoryInv, CodeInv, [Next]_vars, Len(calls') > Len(calls), ~astray'
  PROVE  Executable /\ (CallOwn \/ CallGlobal)
<1>1. PICK C : calls \in Seq(C)
  BY DEF CodeInv, FramesOK
<1>2. Len(calls) \in Nat
  BY <1>1
<1>3. calls' # calls
  BY <1>2
<1>4. CASE Executable /\ Instruction
  <2>1. CASE \/ EnterScope \/ ExitScope \/ Declare \/ Store \/ Load
             \/ Push \/ Expression \/ Not \/ AnyType \/ StructConstructor
             \/ StructLoad \/ Jump \/ BehaviourJump \/ IfClause \/ ElseClause
    BY <1>3, <2>1 DEF EnterScope, ExitScope, Declare, Store, Load, Push,
         Expression, Not, AnyType, StructConstructor, StructLoad, Jump,
         BehaviourJump, IfClause, ElseClause, Rescope, Restack, Replace,
         JumpTo, ghosts
  <2>2. CASE \/ Proc \/ CallStandard \/ ProjectEntry \/ ProjectExit
             \/ DeclareChannels \/ Construct \/ Call \/ Stop \/ Disconnect
             \/ UnknownByte
    BY <1>3, <2>2 DEF Proc, CallStandard, ProjectEntry, ProjectExit,
         DeclareChannels, Construct, Call, Stop, Disconnect, UnknownByte,
         Restack, Replace, JumpTo, ghosts
  <2>3. CASE Return \/ BlockEnd
    <3>1. CASE ProcReturn
      <4>1. calls' = Tail(calls) /\ calls # << >>
        BY <1>3, <3>1 DEF ProcReturn
      <4>2. Len(Tail(calls)) = Len(calls) - 1
        BY <1>1, <4>1
      <4> QED BY <1>2, <4>1, <4>2
    <3>2. CASE UNCHANGED calls
      BY <1>3, <3>2
    <3> QED BY <2>3, <3>1, <3>2 DEF Return, BlockEnd, JumpTo, ghosts
  <2> QED BY <1>4, <2>1, <2>2, <2>3 DEF Instruction
<1>5. CASE Fails \/ End \/ StoppedByOther \/ Done \/ UNCHANGED vars
  BY <1>3, <1>5 DEF Fails, End, StoppedByOther, Done, vars, ghosts
<1>6. CASE Connect \/ Send \/ Receive
  BY <1>3, <1>6 DEF Connect, Send, Receive, JumpTo, Restack, Replace, ghosts
<1> QED BY <1>4, <1>5, <1>6 DEF Next, Alone, Together

\* Only the constructor makes a component run its behaviour.
LEMMA OnlyConstructorsStart ==
  ASSUME [Next]_vars, running', ~running
  PROVE  Executable /\ Construct
<1>1. CASE Executable /\ Instruction
  <2>1. CASE \/ EnterScope \/ ExitScope \/ Declare \/ Store \/ Load
             \/ Push \/ Expression \/ Not \/ AnyType \/ StructConstructor
             \/ StructLoad \/ Jump \/ BehaviourJump \/ IfClause \/ ElseClause
    BY <2>1 DEF EnterScope, ExitScope, Declare, Store, Load, Push, Expression,
         Not, AnyType, StructConstructor, StructLoad, Jump, BehaviourJump,
         IfClause, ElseClause, Rescope, Restack, Replace, JumpTo, self
  <2>2. CASE \/ Proc \/ CallOwn \/ CallGlobal \/ CallStandard
             \/ ProjectEntry \/ ProjectExit
             \/ DeclareChannels \/ Call \/ Stop \/ Disconnect \/ UnknownByte
    BY <2>2 DEF Proc, CallOwn, CallGlobal, CallStandard, CallTo, ProjectEntry,
         ProjectExit, DeclareChannels, Call, Stop, Disconnect,
         UnknownByte, Restack, Replace, JumpTo, self
  <2>3. CASE Return \/ BlockEnd
    BY <2>3 DEF Return, BlockEnd, ProcReturn, JumpTo, self
  <2>4. CASE Construct
    BY <1>1, <2>4
  <2> QED BY <1>1, <2>1, <2>2, <2>3, <2>4 DEF Instruction
<1>2. CASE Fails \/ End \/ StoppedByOther \/ Done \/ UNCHANGED vars
  BY <1>2 DEF Fails, End, StoppedByOther, Done, vars, self
<1>3. CASE Connect \/ Send \/ Receive
  BY <1>3 DEF Connect, Send, Receive, JumpTo, Restack, Replace, self
<1> QED BY <1>1, <1>2, <1>3 DEF Next, Alone, Together

\* The procedures of a component are those its file declares.
ParametersOK ==
  \A x \in DOMAIN procs :
    \E q \in At(program, "own", Op.PROC) :
      /\ ByteAt(program.bytes.own, q + 2) = x
      /\ procs[x].parameters = Reverse(NamesAt(program, "own", q + 4))

\* Only PROC changes the procedures.
LEMMA OnlyProcDeclares ==
  ASSUME [Next]_vars, procs' # procs
  PROVE  Executable /\ Proc
<1>1. CASE Executable /\ Instruction
  <2>1. CASE \/ EnterScope \/ ExitScope \/ Declare \/ Store \/ Load
             \/ Push \/ Expression \/ Not \/ AnyType \/ StructConstructor
             \/ StructLoad \/ Jump \/ BehaviourJump \/ IfClause \/ ElseClause
    BY <2>1 DEF EnterScope, ExitScope, Declare, Store, Load, Push, Expression,
         Not, AnyType, StructConstructor, StructLoad, Jump, BehaviourJump,
         IfClause, ElseClause, Rescope, Restack, Replace, JumpTo, self
  <2>2. CASE \/ Construct \/ CallOwn \/ CallGlobal \/ CallStandard
             \/ ProjectEntry \/ ProjectExit
             \/ DeclareChannels \/ Call \/ Stop \/ Disconnect \/ UnknownByte
    BY <2>2 DEF Construct, CallOwn, CallGlobal, CallStandard, CallTo,
         ProjectEntry, ProjectExit, DeclareChannels, Call, Stop, Disconnect,
         UnknownByte, Restack, Replace, JumpTo, self
  <2>3. CASE Return \/ BlockEnd
    BY <2>3 DEF Return, BlockEnd, ProcReturn, JumpTo, self
  <2>4. CASE Proc
    BY <1>1, <2>4
  <2> QED BY <1>1, <2>1, <2>2, <2>3, <2>4 DEF Instruction
<1>2. CASE Fails \/ End \/ StoppedByOther \/ Done \/ UNCHANGED vars
  BY <1>2 DEF Fails, End, StoppedByOther, Done, vars, self
<1>3. CASE Connect \/ Send \/ Receive
  BY <1>3 DEF Connect, Send, Receive, JumpTo, Restack, Replace, self
<1> QED BY <1>1, <1>2, <1>3 DEF Next, Alone, Together

\* A component executes one program.
LEMMA ProgramStays ==
  ASSUME [Next]_vars
  PROVE  program' = program
<1>1. CASE Executable /\ Instruction
  <2>1. CASE \/ EnterScope \/ ExitScope \/ Declare \/ Store \/ Load
             \/ Push \/ Expression \/ Not \/ AnyType \/ StructConstructor
             \/ StructLoad \/ Jump \/ BehaviourJump \/ IfClause \/ ElseClause
    BY <2>1 DEF EnterScope, ExitScope, Declare, Store, Load, Push, Expression,
         Not, AnyType, StructConstructor, StructLoad, Jump, BehaviourJump,
         IfClause, ElseClause, Rescope, Restack, Replace, JumpTo, self
  <2>2. CASE \/ Proc \/ Construct \/ CallOwn \/ CallGlobal \/ CallStandard
             \/ ProjectEntry \/ ProjectExit
             \/ DeclareChannels \/ Call \/ Stop \/ Disconnect \/ UnknownByte
    BY <2>2 DEF Proc, Construct, CallOwn, CallGlobal, CallStandard, CallTo,
         ProjectEntry, ProjectExit, DeclareChannels, Call, Stop, Disconnect,
         UnknownByte, Restack, Replace, JumpTo, self
  <2>3. CASE Return \/ BlockEnd
    BY <2>3 DEF Return, BlockEnd, ProcReturn, JumpTo, self
  <2> QED BY <1>1, <2>1, <2>2, <2>3 DEF Instruction
<1>2. CASE Fails \/ End \/ StoppedByOther \/ Done \/ UNCHANGED vars
  BY <1>2 DEF Fails, End, StoppedByOther, Done, vars, self
<1>3. CASE Connect \/ Send \/ Receive
  BY <1>3 DEF Connect, Send, Receive, JumpTo, Restack, Replace, self
<1> QED BY <1>1, <1>2, <1>3 DEF Next, Alone, Together

\* The procedures stay those that are declared.
LEMMA ParametersStep ==
  ASSUME Compiled(program), MemoryInv, CodeInv, ParametersOK, [Next]_vars
  PROVE  ParametersOK'
<1>1. program' = program
  BY ProgramStays
<1>2. CASE procs' = procs
  BY <1>1, <1>2 DEF ParametersOK
<1>3. CASE procs' # procs
  <2>1. Executable /\ Proc
    BY <1>3, OnlyProcDeclares
  <2>2. Opcode = Op.PROC
        /\ procs' = ListMap_put(ListMap_declare(procs, Name), Name,
                                Procedure(pos + 4))
    BY <2>1 DEF Proc, Executes
  <2>3. file = "own"
    BY <2>1, <2>2, UncalledAt
  <2>4. pos \in At(program, "own", Op.PROC)
    BY <2>1, <2>2, <2>3, Fetch DEF CodeInv
  <2>5. /\ DOMAIN procs' = DOMAIN procs \cup {Name}
        /\ procs'[Name] = Procedure(pos + 4)
        /\ \A x \in DOMAIN procs : x # Name => procs'[x] = procs[x]
    BY <2>2 DEF ListMap_put, ListMap_declare, ListMap_get
  <2>6. /\ Procedure(pos + 4).parameters = Reverse(NamesAt(program, "own", pos + 4))
        /\ Name = ByteAt(program.bytes.own, pos + 2)
    BY <2>3 DEF Procedure, NamesAt, Bytes, Name
  <2> QED BY <1>1, <2>4, <2>5, <2>6 DEF ParametersOK
<1> QED BY <1>2, <1>3

\* The elements of the second of two joined sequences
LEMMA JoinedLast ==
  ASSUME NEW S, NEW a \in Seq(S), NEW T, NEW b \in Seq(T), NEW k \in 1 .. Len(b)
  PROVE  b[k] \in Range(a \o b)
<1> DEFINE l == Len(a)
           m == Len(b)
           c == a \o b
<1>1. /\ l \in Nat /\ m \in Nat /\ DOMAIN c = 1 .. l + m
      /\ \A i \in l + 1 .. l + m : c[i] = b[i - l]
  BY Joined
<1> HIDE DEF l, m, c
<1>2. k \in 1 .. m
  BY DEF m
<1>3. l + k \in 1 .. l + m /\ l + k \in l + 1 .. l + m /\ (l + k) - l = k
  BY <1>1, <1>2
<1>4. l + k \in DOMAIN c /\ c[l + k] = b[k]
  BY <1>1, <1>3
<1> QED BY <1>4 DEF Range, c

\* The arguments of a call are popped, each into the name at its place.
LEMMA ArgumentsPopped ==
  ASSUME MemoryInv, NEW f, NEW procedure,
         procedure.parameters \in Seq(Nat \cup {EOF}), NEW names \in Seq(Int),
         NEW values \in Seq({Following, "own"}), Len(names) = Len(values),
         \A i \in 1 .. Len(names) : names[i] \in {RETURN_ADDRESS, RETURN_SOURCE},
         CallTo(f, procedure, names, values)
  PROVE  LET p == procedure.parameters
         IN \A k \in 1 .. Len(p) :
              (\A l \in 1 .. Len(p) : p[l] = p[k] => l = k)
                => scopes'[1][p[k]] = Stack_pop(k)
<1> DEFINE p == procedure.parameters
           n == Len(p)
           w == Popped(n)
           a == names \o p
           b == values \o w
           t == Bind(ScopeStack_enterScope(scopes), a, b)
<1>1. scopes' = t
  BY DEF CallTo
<1>2. /\ p \in Seq(Int) /\ n \in Nat
      /\ \A i \in 1 .. n : p[i] \notin {RETURN_ADDRESS, RETURN_SOURCE}
  <2>1. p \in Seq(Nat \cup {EOF})
    OBVIOUS
  <2> HIDE DEF p
  <2>2. Len(p) \in Nat
    BY <2>1
  <2> QED BY <2>1, <2>2, ParametersApart
<1> HIDE DEF p
<1>3. w \in Seq(Values) /\ Len(w) = n /\ \A i \in 1 .. n : w[i] = Stack_pop(i)
  <2> HIDE DEF n
  <2> QED BY <1>2, Popping
<1> HIDE DEF w
<1>4. /\ a \in Seq(Int)
      /\ \A k \in 1 .. n : p[k] \in Range(a)
      /\ \A i \in DOMAIN a : a[i] \notin {RETURN_ADDRESS, RETURN_SOURCE} =>
           \E k \in 1 .. n : a[i] = p[k] /\ b[i] = w[k]
  <2> DEFINE A == {Following, "own"}
             B == Values
             R == A \cup B
             N == Int
  <2>1. values \in Seq(A) /\ w \in Seq(B) /\ p \in Seq(N) /\ names \in Seq(N)
    BY <1>2, <1>3
  <2> HIDE DEF A, B, N
  <2>2. values \in Seq(R) /\ w \in Seq(R)
    BY <2>1
  <2> HIDE DEF R
  <2>3. /\ a \in Seq(N)
        /\ \A i \in DOMAIN a :
             \/ i \in 1 .. Len(names) /\ a[i] = names[i] /\ b[i] = values[i]
             \/ /\ i - Len(names) \in 1 .. Len(p) /\ a[i] = p[i - Len(names)]
                /\ b[i] = w[i - Len(names)]
    BY <1>3, <2>1, <2>2, JoinedPairs
  <2>4. \A k \in 1 .. n : p[k] \in Range(a)
    BY <2>1, JoinedLast
  <2> HIDE DEF a, b
  <2>5. ASSUME NEW i \in DOMAIN a, a[i] \notin {RETURN_ADDRESS, RETURN_SOURCE}
        PROVE  \E k \in 1 .. n : a[i] = p[k] /\ b[i] = w[k]
    <3> DEFINE l == Len(names)
    <3>1. ~(i \in 1 .. l /\ a[i] = names[i])
      BY <2>5
    <3>2. i - l \in 1 .. n /\ a[i] = p[i - l] /\ b[i] = w[i - l]
      BY <2>3, <3>1
    <3> HIDE DEF l
    <3> QED BY <3>2
  <2> QED BY <2>3, <2>4, <2>5 DEF N
<1> HIDE DEF a, b
<1>5. /\ Outer(scopes, t) /\ Len(t) = Len(scopes) + 1
      /\ Level(t, Len(scopes) + 1) = t[1]
      /\ DOMAIN t[1] = Range(a)
      /\ \A x \in Range(a) :
           \E i \in DOMAIN a : a[i] = x /\ t[1][x] = b[i]
  <2>1. ScopesOK(scopes)
    BY DEF MemoryInv
  <2>2. a \in Seq(Int)
    BY <1>4
  <2> QED BY <2>1, <2>2, NewScopeBound
<1> HIDE DEF t, n
<1>6. ASSUME NEW k \in 1 .. n, \A l \in 1 .. n : p[l] = p[k] => l = k
      PROVE  t[1][p[k]] = Stack_pop(k)
  <2>1. PICK i \in DOMAIN a : a[i] = p[k] /\ t[1][p[k]] = b[i]
    BY <1>4, <1>5
  <2>2. PICK l \in 1 .. n : a[i] = p[l] /\ b[i] = w[l]
    BY <1>2, <1>4, <2>1
  <2>3. l = k
    BY <1>6, <2>1, <2>2
  <2> QED BY <1>3, <2>1, <2>2, <2>3
<1> QED BY <1>1, <1>6 DEF p, n

\* The parameters of a procedure are its names, the last one first.
LEMMA ArgumentsBound ==
  ASSUME MemoryInv, NEW f, NEW procedure,
         procedure.parameters \in Seq(Nat \cup {EOF}), NEW names \in Seq(Int),
         NEW values \in Seq({Following, "own"}), Len(names) = Len(values),
         \A i \in 1 .. Len(names) : names[i] \in {RETURN_ADDRESS, RETURN_SOURCE},
         CallTo(f, procedure, names, values),
         NEW n \in Nat, NEW d, DOMAIN d = 1 .. n, Len(d) = n, NamesDiffer(d),
         procedure.parameters = Reverse(d)
  PROVE  \A i \in 1 .. n : scopes'[1][d[i]] = Stack_pop(n - i + 1)
<1> DEFINE p == procedure.parameters
<1>1. \A k \in 1 .. Len(p) :
        (\A l \in 1 .. Len(p) : p[l] = p[k] => l = k)
          => scopes'[1][p[k]] = Stack_pop(k)
  BY ArgumentsPopped
<1>2. p = Reverse(d)
  OBVIOUS
<1> HIDE DEF p
<1>3. Len(p) = n /\ \A i \in 1 .. n : p[i] = d[(n - i) + 1]
  BY <1>2 DEF Reverse
<1>4. ASSUME NEW i \in 1 .. n PROVE scopes'[1][d[i]] = Stack_pop(n - i + 1)
  <2> DEFINE k == n - i + 1
  <2>1. k \in 1 .. n /\ (n - k) + 1 = i
    OBVIOUS
  <2> HIDE DEF k
  <2>2. p[k] = d[i]
    BY <1>3, <2>1
  <2>3. ASSUME NEW l \in 1 .. n, p[l] = p[k] PROVE l = k
    <3>1. d[(n - l) + 1] = d[i] /\ (n - l) + 1 \in 1 .. n
      BY <1>3, <2>2, <2>3
    <3>2. (n - l) + 1 = i
      BY <3>1 DEF NamesDiffer
    <3> QED BY <2>1, <3>2
  <2>4. scopes'[1][p[k]] = Stack_pop(k)
    BY <1>1, <1>3, <2>1, <2>3
  <2> QED BY <2>2, <2>4 DEF k
<1> QED BY <1>4

\* A declaration lists as many names as it says.
LEMMA NamesRead ==
  ASSUME MemoryInv, NEW f \in Files, NEW q
  PROVE  /\ CountAt(program.bytes[f], q) \in Nat
         /\ DOMAIN NamesAt(program, f, q) = 1 .. CountAt(program.bytes[f], q)
         /\ Len(NamesAt(program, f, q)) = CountAt(program.bytes[f], q)
<1> DEFINE b == program.bytes[f]
           n == CountAt(b, q)
<1>1. b \in Seq(Nat)
  BY ProgramsAssumption DEF MemoryInv, Files
<1> HIDE DEF b
<1>2. n \in Nat
  BY <1>1, ReadingFrom
<1> HIDE DEF n
<1>3. NamesAt(program, f, q) = [i \in 1 .. n |-> ParameterName(b, q, i)]
  BY DEF NamesAt, n, b
<1>4. Len(NamesAt(program, f, q)) = n /\ DOMAIN NamesAt(program, f, q) = 1 .. n
  BY <1>2, <1>3
<1> QED BY <1>2, <1>4 DEF n, b

\* There is one procedure of each name.
LEMMA OneOfName ==
  ASSUME NamesApart(program), NEW f \in Files, NEW q \in At(program, f, Op.PROC)
  PROVE  q = CHOOSE r \in program.starts[f] :
               /\ ByteAt(program.bytes[f], r) = Op.PROC
               /\ ByteAt(program.bytes[f], r + 2) = ByteAt(program.bytes[f], q + 2)
<1> DEFINE b == program.bytes[f]
           Is(r) == /\ ByteAt(b, r) = Op.PROC
                    /\ ByteAt(b, r + 2) = ByteAt(b, q + 2)
<1>1. q \in program.starts[f] /\ Is(q)
  BY DEF At, Instructions, ByteAt
<1>2. ASSUME NEW r \in program.starts[f], Is(r) PROVE r = q
  <2>1. ByteAt(b, r) = Op.PROC
    BY <1>2
  <2>2. r \in DOMAIN b /\ b[r] = Op.PROC
    BY <2>1 DEF ByteAt, EOF, Op
  <2>3. r \in At(program, f, Op.PROC)
    BY <2>2 DEF At, Instructions
  <2> QED BY <1>2, <2>3 DEF NamesApart
<1> HIDE DEF Is
<1>3. q = CHOOSE r \in program.starts[f] : Is(r)
  BY <1>1, <1>2
<1> QED BY <1>3 DEF Is

\* And one constructor with each body.
LEMMA OneOfBody ==
  ASSUME NamesApart(program), NEW f \in Files,
         NEW q \in At(program, f, Op.CONSTRUCTOR)
  PROVE  q = CHOOSE r \in program.starts[f] :
               /\ ByteAt(program.bytes[f], r) = Op.CONSTRUCTOR
               /\ AfterParameters(program.bytes[f], r + 1)
                    = AfterParameters(program.bytes[f], q + 1)
<1> DEFINE b == program.bytes[f]
           Is(r) == /\ ByteAt(b, r) = Op.CONSTRUCTOR
                    /\ AfterParameters(b, r + 1) = AfterParameters(b, q + 1)
<1>1. q \in program.starts[f] /\ Is(q)
  BY DEF At, Instructions, ByteAt
<1>2. ASSUME NEW r \in program.starts[f], Is(r) PROVE r = q
  <2>1. ByteAt(b, r) = Op.CONSTRUCTOR
    BY <1>2
  <2>2. r \in DOMAIN b /\ b[r] = Op.CONSTRUCTOR
    BY <2>1 DEF ByteAt, EOF, Op
  <2>3. r \in At(program, f, Op.CONSTRUCTOR)
    BY <2>2 DEF At, Instructions
  <2> QED BY <1>2, <2>3 DEF NamesApart
<1> HIDE DEF Is
<1>3. q = CHOOSE r \in program.starts[f] : Is(r)
  BY <1>1, <1>2
<1> QED BY <1>3 DEF Is

\* The procedure that a call names
Callee ==
  CHOOSE q \in program.starts[file'] :
    /\ ByteAt(program.bytes[file'], q) = Op.PROC
    /\ ByteAt(program.bytes[file'], q + 2) = Name

\* The arguments of a procedure have its names.
LEMMA CallsInOrder ==
  ASSUME Compiled(program), NamesApart(program), MemoryInv, CodeInv,
         ParametersOK, Executable, CallOwn \/ CallGlobal
  PROVE  LET names == Declared(file', Callee + 4)
         IN \A i \in DOMAIN names :
              scopes'[1][names[i]] = Stack_pop(Len(names) - i + 1)
<1>0. Opcode = Op.PROCCALL
  BY DEF CallOwn, CallGlobal, Executes
<1>1. ASSUME NEW f \in Files, NEW procedure, NEW ns \in Seq(Int),
             NEW vs \in Seq({Following, "own"}), Len(ns) = Len(vs),
             \A i \in 1 .. Len(ns) : ns[i] \in {RETURN_ADDRESS, RETURN_SOURCE},
             procedure.parameters \in Seq(Nat \cup {EOF}),
             CallTo(f, procedure, ns, vs),
             NEW q \in At(program, f, Op.PROC),
             ByteAt(program.bytes[f], q + 2) = Name,
             procedure.parameters = Reverse(NamesAt(program, f, q + 4))
      PROVE  LET names == Declared(file', Callee + 4)
             IN \A i \in DOMAIN names :
                  scopes'[1][names[i]] = Stack_pop(Len(names) - i + 1)
  <2> DEFINE d == NamesAt(program, f, q + 4)
             n == CountAt(program.bytes[f], q + 4)
  <2>1. file' = f
    BY <1>1 DEF CallTo
  <2>2. Callee = q
    BY <1>1, <2>1, OneOfName DEF Callee
  <2>3. Declared(file', Callee + 4) = d
    BY <2>1, <2>2 DEF Declared, NamesAt
  <2>4. n \in Nat /\ DOMAIN d = 1 .. n /\ Len(d) = n
    BY NamesRead
  <2>5. NamesDiffer(d)
    BY DEF NamesApart
  <2> HIDE DEF d, n
  <2>6. procedure.parameters = Reverse(d)
    BY <1>1 DEF d
  <2>7. \A i \in 1 .. n : scopes'[1][d[i]] = Stack_pop(n - i + 1)
    BY <1>1, <2>4, <2>5, <2>6, ArgumentsBound
  <2> QED BY <2>3, <2>4, <2>7
<1>2. CASE CallOwn
  <2> DEFINE ns == <<RETURN_ADDRESS>>
             vs == <<Following>>
  <2>1. Name \in DOMAIN procs /\ CallTo(file, procs[Name], ns, vs)
        /\ procs[Name].parameters \in Seq(Nat \cup {EOF})
    BY <1>2 DEF CallOwn, OwnProcedure, MemoryInv
  <2>2. PICK q \in At(program, "own", Op.PROC) :
          /\ ByteAt(program.bytes.own, q + 2) = Name
          /\ procs[Name].parameters = Reverse(NamesAt(program, "own", q + 4))
    BY <2>1 DEF ParametersOK
  <2>3. file = "own"
    <3> SUFFICES ASSUME file = "main" PROVE FALSE
      BY DEF MemoryInv
    <3>1. Inside(program, "main", pos)
      BY DEF CodeInv, PlaceOK
    <3>2. pos \in At(program, "main", Op.PROCCALL)
      BY <1>0, Fetch DEF CodeInv
    <3>3. ByteAt(program.bytes.main, pos + 2) = Name
      BY DEF Name, Bytes
    <3> QED BY <2>2, <3>1, <3>2, <3>3 DEF Compiled, GlobalsApart
  <2>4. /\ ns \in Seq(Int) /\ vs \in Seq({Following, "own"})
        /\ Len(ns) = Len(vs)
        /\ \A i \in 1 .. Len(ns) : ns[i] \in {RETURN_ADDRESS, RETURN_SOURCE}
    BY DEF RETURN_ADDRESS, RETURN_SOURCE
  <2> HIDE DEF ns, vs
  <2>5. "own" \in Files /\ CallTo("own", procs[Name], ns, vs)
    BY <2>1, <2>3 DEF Files
  <2> QED BY <1>1, <2>1, <2>2, <2>4, <2>5
<1>3. CASE CallGlobal
  <2> DEFINE ns == <<RETURN_ADDRESS, RETURN_SOURCE>>
             vs == <<Following, "own">>
             procedure == program.globals[Name]
             p == procedure.parameters
  <2>1. Name \in DOMAIN program.globals /\ CallTo("main", procedure, ns, vs)
    BY <1>3 DEF CallGlobal, GlobalProcedure
  <2>2. p \in Seq(Nat \cup {EOF})
    <3>1. p \in Seq(Nat)
      BY <2>1, ProgramsAssumption DEF MemoryInv
    <3> HIDE DEF p
    <3> QED BY <3>1
  <2>3. PICK q \in At(program, "main", Op.PROC) :
          /\ ByteAt(program.bytes.main, q + 2) = Name
          /\ p = Reverse(NamesAt(program, "main", q + 4))
    BY <2>1 DEF NamesApart
  <2>4. /\ ns \in Seq(Int) /\ vs \in Seq({Following, "own"})
        /\ Len(ns) = Len(vs)
        /\ \A i \in 1 .. Len(ns) : ns[i] \in {RETURN_ADDRESS, RETURN_SOURCE}
    BY DEF RETURN_ADDRESS, RETURN_SOURCE
  <2> HIDE DEF ns, vs, procedure
  <2>5. "main" \in Files
    BY DEF Files
  <2> QED BY <1>1, <2>1, <2>2, <2>3, <2>4, <2>5
<1> QED BY <1>2, <1>3

\* Up to two names come from the ring in their order.
LEMMA RingOfTwo ==
  ASSUME NEW n \in Nat, n <= 2, NEW i \in 1 .. n
  PROVE  RingOrder(n, i) = i
<1>1. CASE i = 1
  BY <1>1 DEF RingOrder
<1>2. CASE i = 2 /\ n = 2
  BY <1>2 DEF RingOrder
<1> QED BY <1>1, <1>2

\* The constructor whose body a component goes to
Constructor ==
  CHOOSE q \in Starts :
    /\ ByteAt(Bytes, q) = Op.CONSTRUCTOR
    /\ AfterParameters(Bytes, q + 1) = pos'

\* The arguments of a component have the names of its constructor, up to two.
LEMMA ConstructorInOrder ==
  ASSUME Compiled(program), NamesApart(program), MemoryInv, CodeInv,
         Executable, Construct, ~running, Len(parameters) <= 2
  PROVE  LET names == Declared(file, Constructor + 1)
         IN /\ Len(names) = Len(parameters)
            /\ \A i \in DOMAIN names : scopes'[1][names[i]] = parameters[i]
<1> DEFINE b == program.bytes["own"]
           n == Len(parameters)
<1>1. /\ pos' = AfterParameters(Bytes, FittingConstructor)
      /\ scopes' = IF parameters = << >> THEN scopes
                   ELSE Bind(scopes, ConstructorNames(FittingConstructor),
                             parameters)
      /\ Opcode = Op.CONSTRUCTOR
  BY DEF Construct, Goto, Executes
<1>2. file = "own" /\ Bytes = b /\ Starts = program.starts["own"]
  BY <1>1, UncalledAt DEF Bytes, Starts
<1>3. pos \in At(program, "own", Op.CONSTRUCTOR)
  BY <1>1, <1>2, Fetch DEF CodeInv
<1>4. inProject \in InProjects(program) /\ FittingConstructor # REFUSED
  BY <1>1, Runs DEF CodeInv, PlaceOK, Refuses
<1>5. PICK q \in At(program, "own", Op.CONSTRUCTOR) :
        FittingConstructor = q + 1 /\ ByteAt(b, q + 1) = n
  <2>1. /\ ByteAt(Bytes, FittingConstructor) = n
        /\ \E q \in At(program, "own", Op.CONSTRUCTOR) :
             FittingConstructor = ListAt(q + 1)
    BY <1>2, <1>3, <1>4, ConstructorFound
  <2>2. \A p : ListAt(p) = p
    BY DEF ListAt
  <2> QED BY <1>2, <2>1, <2>2
<1> DEFINE d == NamesAt(program, "own", q + 1)
<1>6. Constructor = q
  <2>1. "own" \in Files
    BY DEF Files
  <2>2. q = CHOOSE r \in program.starts["own"] :
              /\ ByteAt(b, r) = Op.CONSTRUCTOR
              /\ AfterParameters(b, r + 1) = AfterParameters(b, q + 1)
    BY <2>1, OneOfBody
  <2> QED BY <1>1, <1>2, <1>5, <2>2 DEF Constructor
<1>7. Declared(file, Constructor + 1) = d
  BY <1>2, <1>6 DEF Declared, NamesAt
<1>8. n \in Nat /\ DOMAIN parameters = 1 .. n
  BY DEF MemoryInv
<1>9. CountAt(b, q + 1) = n
  BY <1>5, <1>8 DEF CountAt, EOF
<1>10. DOMAIN d = 1 .. n /\ Len(d) = n /\ NamesDiffer(d)
  BY <1>9, NamesRead DEF NamesApart, Files
<1>11. d = [i \in 1 .. n |-> d[i]]
  BY <1>9 DEF NamesAt
<1>12. ConstructorNames(FittingConstructor) = d
  <2>1. \A i \in 1 .. n : RingOrder(n, i) = i
    BY <1>8, RingOfTwo
  <2>2. ConstructorNames(FittingConstructor)
          = [i \in 1 .. n |-> ParameterName(b, q + 1, RingOrder(n, i))]
    BY <1>2, <1>5, <1>8 DEF ConstructorNames
  <2>3. d = [i \in 1 .. n |-> ParameterName(b, q + 1, i)]
    BY <1>9 DEF NamesAt
  <2> QED BY <2>1, <2>2, <2>3
<1> HIDE DEF d, b, n
<1>13. ASSUME NEW i \in 1 .. n PROVE scopes'[1][d[i]] = parameters[i]
  <2> DEFINE t == Bind(scopes, d, parameters)
  <2>1. parameters # << >>
    BY <1>8
  <2>2. scopes' = t /\ scopes # << >> /\ \E L : scopes \in Seq(L)
    BY <1>1, <1>12, <2>1, Runs DEF Crashes, MemoryInv, ScopesOK
  <2> DEFINE N == {d[k] : k \in 1 .. n}
  <2>3. \A k \in 1 .. n : d[k] \in N
    OBVIOUS
  <2> HIDE DEF t, N
  <2>4. d \in Seq(N) /\ d[i] \in Range(d)
    BY <1>8, <1>10, <1>11, <2>3 DEF Range
  <2>5. \E k \in DOMAIN d : d[k] = d[i] /\ t[1][d[i]] = parameters[k]
    BY <2>2, <2>4, BindSound DEF t
  <2> QED BY <1>10, <2>2, <2>5 DEF NamesDiffer
<1> QED BY <1>7, <1>10, <1>13 DEF n

\* The parameters of procedures are known until a return goes astray.
LEMMA ParametersAlwaysKnown ==
  CompiledPrograms => (Spec => [](~astray => ParametersOK))
<1> SUFFICES ASSUME CompiledPrograms
             PROVE  Spec => [](~astray => ParametersOK)
  OBVIOUS
<1>1. Init => ParametersOK
  <2>1. DOMAIN << >> = {}
    OBVIOUS
  <2> QED BY <2>1 DEF Init, ParametersOK
<1>2. /\ MemoryInv /\ CompiledInv /\ (~astray => ParametersOK) /\ [Next]_vars
      => (~astray => ParametersOK)'
  BY StaysAstray, ParametersStep DEF CompiledInv, CompiledPrograms
<1>3. Spec => [](MemoryInv /\ CompiledInv)
  BY CompiledAlwaysSound
<1> QED BY <1>1, <1>2, <1>3, PTL DEF Spec

(***************************************************************************)
(* A procedure finds each argument of its call under the name that it      *)
(* declares at that place, and the constructor the arguments of its        *)
(* component, up to two: through the reversal of the stack, the list that  *)
(* is filled at its head and the ring of names, in every component whose   *)
(* programs were compiled, as long as no return went to another file.      *)
(***************************************************************************)
THEOREM ArgumentsAlwaysInOrder ==
  CompiledPrograms /\ NamedPrograms =>
    (Spec /\ []~astray => ArgumentsInOrder)
<1> SUFFICES ASSUME CompiledPrograms, NamedPrograms
             PROVE  Spec /\ []~astray => ArgumentsInOrder
  OBVIOUS
<1> DEFINE InOrder ==
      /\ Len(calls') > Len(calls) =>
           LET p == CHOOSE q \in program.starts[file'] :
                      /\ ByteAt(program.bytes[file'], q) = Op.PROC
                      /\ ByteAt(program.bytes[file'], q + 2) = Name
               names == Declared(file', p + 4)
           IN \A i \in DOMAIN names :
                scopes'[1][names[i]] = Stack_pop(Len(names) - i + 1)
      /\ running' /\ ~running /\ Len(parameters) <= 2 =>
           LET p == CHOOSE q \in Starts :
                      /\ ByteAt(Bytes, q) = Op.CONSTRUCTOR
                      /\ AfterParameters(Bytes, q + 1) = pos'
               names == Declared(file, p + 1)
           IN /\ Len(names) = Len(parameters)
              /\ \A i \in DOMAIN names :
                   scopes'[1][names[i]] = parameters[i]
<1>1. MemoryInv /\ CompiledInv /\ (~astray => ParametersOK)
      /\ ~astray /\ ~astray' /\ [Next]_vars => [InOrder]_vars
  <2> SUFFICES ASSUME MemoryInv, CompiledInv, ParametersOK, ~astray, ~astray',
                      [Next]_vars
               PROVE  InOrder
    OBVIOUS
  <2>1. CodeInv /\ Compiled(program) /\ NamesApart(program)
    BY DEF CompiledInv, CompiledPrograms, NamedPrograms
  <2>2. ASSUME Len(calls') > Len(calls)
        PROVE  LET names == Declared(file', Callee + 4)
               IN \A i \in DOMAIN names :
                    scopes'[1][names[i]] = Stack_pop(Len(names) - i + 1)
    BY <2>1, <2>2, OnlyCallsLengthen, CallsInOrder
  <2>3. ASSUME running', ~running, Len(parameters) <= 2
        PROVE  LET names == Declared(file, Constructor + 1)
               IN /\ Len(names) = Len(parameters)
                  /\ \A i \in DOMAIN names :
                       scopes'[1][names[i]] = parameters[i]
    BY <2>1, <2>3, OnlyConstructorsStart, ConstructorInOrder
  <2> QED BY <2>2, <2>3 DEF Callee, Constructor
<1>2. Spec => [](MemoryInv /\ CompiledInv) /\ [](~astray => ParametersOK)
  BY CompiledAlwaysSound, ParametersAlwaysKnown
<1> QED BY <1>1, <1>2, PTL DEF Spec, ArgumentsInOrder
=============================================================================
