----------------------------- MODULE Interpreter -----------------------------
(***************************************************************************)
(* A component that executes its bytecode: component_run, the function of  *)
(* each instruction, and the state they share - the position in the file,  *)
(* the data stack, the scopes, the procedures.  One step is one turn of    *)
(* the loop of component_run; the other components are seen through what   *)
(* they send and through their STOP.  `calls' and `astray' record the      *)
(* calls under way and are read by properties only.                        *)
(***************************************************************************)
EXTENDS ScopeStack, TypedObject, SequencesExt

CONSTANTS Programs,      \* the programs, one of which is executed
          MaxObjects     \* objects that are in use at the same time

ASSUME MaxObjectsAssumption == MaxObjects \in Nat \ {0}

Objects == 1 .. MaxObjects

(***************************************************************************)
(* Names are numbers above every opcode.  A call keeps where it came from  *)
(* under two names that no program uses, "_returnAddress" and              *)
(* "_returnSource".  The third is that of STOP without a name.             *)
(***************************************************************************)
RETURN_ADDRESS == -2
RETURN_SOURCE == -3
NO_NAME == 46

\* An object whose references are in R, or to a neighbour in a message
IsObject(c, R) ==
  /\ c = [type |-> c.type, value |-> c.value, refs |-> c.refs]
  /\ \A x \in DOMAIN c.refs : c.refs[x] \in R

\* What a program consists of.  In a message -j refers to its j-th object.
\* Under interfaces are the channels of every component that has a file.
ASSUME ProgramsAssumption ==
  /\ NULL \notin Int /\ NULL # "own"
  /\ \A p \in Programs :
       /\ p.bytes.own \in Seq(Nat) /\ p.bytes.main \in Seq(Nat)
       /\ \E n \in 0 .. MaxObjects :
            /\ DOMAIN p.arguments = 1 .. n
            /\ \A i \in 1 .. n : IsObject(p.arguments[i], {NULL} \cup 1 .. n)
       /\ \A m \in p.messages :
            /\ Len(m) \in Nat \ {0} /\ DOMAIN m = 1 .. Len(m)
            /\ \A i \in 1 .. Len(m) : IsObject(m[i], {NULL} \cup -Len(m) .. -1)
       /\ \A x \in DOMAIN p.globals : p.globals[x].parameters \in Seq(Nat)
       /\ \A x \in DOMAIN p.standardFunctions : p.standardFunctions[x] \in Nat

VARIABLES
  program,     \* the files and what is around the component
  file, pos,   \* sourceFile: whose file it is, and the next byte
  status,      \* "run", and how the thread ended
  stop, running, inProject,
  parameters, channels, procs,
  stack, heap, \* dataStack, top first, and the objects
  scopes,
  calls,       \* for every call under way, where and in which scopes it was
  astray       \* a return went to another file than that of its call

place == <<file, pos, status>>
self == <<program, stop, running, inProject, parameters, channels, procs>>
memory == <<stack, heap, scopes>>
ghosts == <<calls, astray>>
vars == <<place, self, memory, ghosts>>

Bytes == program.bytes[file]
Opcode == ByteAt(Bytes, pos)
Operand == pos + 1
Following == AfterOperands(Bytes, Operand, Opcode)
SkipTo(op, p) == SkipToNext(Bytes, p, op, inProject)
Name == ByteAt(Bytes, pos + 2)              \* of the string that comes first
LastOperand == ByteAt(Bytes, Following - 1)

(***************************************************************************)
(* The data stack.  Popping an empty stack gives NULL.                     *)
(***************************************************************************)
Stack_pop(k) == IF k \in DOMAIN stack THEN stack[k] ELSE NULL
Popped(n) == [k \in 1 .. n |-> Stack_pop(k)]
After(n) == SubSeq(stack, n + 1, Len(stack))
Top == heap[stack[1]]

(***************************************************************************)
(* The objects that can be reached from the stack, the parameters and the  *)
(* variables.  GC_alloc gives memory that none of these has.               *)
(***************************************************************************)
Variables(level) ==
  {level[x] : x \in DOMAIN level \ {RETURN_ADDRESS, RETURN_SOURCE}}

Roots ==
  (Range(stack) \cup Range(parameters)
     \cup UNION {Variables(scopes[k]) : k \in DOMAIN scopes}) \ {NULL}

Reachable ==
  LET reach[n \in 0 .. MaxObjects] ==
        IF n = 0 THEN Roots
        ELSE UNION {{o} \cup (Range(heap[o].refs) \ {NULL}) :
                    o \in reach[n - 1]}
  IN reach[MaxObjects]

Free == Objects \ Reachable

GC_alloc(n) ==
  LET free == Free
  IN [i \in 1 .. n |->
        CHOOSE o \in free : Cardinality({q \in free : q < o}) = i - 1]

\* New objects with these contents: a reference -j is to the j-th of them.
Allocated(contents) ==
  LET new == GC_alloc(Len(contents))
      Target(r) == IF r \in Int /\ r < 0 THEN new[-r] ELSE r
      refs(c) == [x \in DOMAIN c.refs |-> Target(c.refs[x])]
  IN [o \in Objects |->
        IF o \in Range(new)
          THEN LET c == contents[CHOOSE j \in DOMAIN new : new[j] = o]
               IN [c EXCEPT !.refs = refs(c)]
          ELSE heap[o]]

(***************************************************************************)
(* What an instruction leaves alone.                                       *)
(***************************************************************************)
Goto(p) == pos' = p /\ UNCHANGED <<file, status>>
Continue == Goto(Following)

\* Replaces n items of the stack by a new object.
Replace(n, contents) ==
  /\ Len(contents) <= Cardinality(Free)
  /\ heap' = Allocated(contents)
  /\ stack' = GC_alloc(1) \o After(n)
  /\ Continue
  /\ UNCHANGED <<self, scopes, ghosts>>

Restack(new) ==
  stack' = new /\ Continue /\ UNCHANGED <<self, heap, scopes, ghosts>>

Rescope(new) ==
  scopes' = new /\ Continue /\ UNCHANGED <<self, heap, stack, ghosts>>

(***************************************************************************)
(* The constructors.  The parameters were put at the head of their list,   *)
(* the last one first, where the iterator stayed: the first comparison     *)
(* starts with the last parameter.  After it the list is rewound.          *)
(***************************************************************************)
ParameterTypes(rewound) ==
  LET n == Len(parameters)
      type(i) == heap[parameters[i]].type
  IN [i \in 1 .. n |-> IF rewound THEN type(i)
                       ELSE IF i = 1 THEN type(n) ELSE type(i - 1)]

Fits(p, rewound) ==
  /\ ByteAt(Bytes, p) = Len(parameters)
  /\ AfterParameters(Bytes, p) # REFUSED
  /\ \A i \in DOMAIN parameters :
       ParameterType(Bytes, p, i) = ParameterTypes(rewound)[i]

\* Where the list of parameters of a constructor starts.  One that is reached
\* when the component has been constructed is skipped, from that list on.
ListAt(p) == IF running THEN Past(SkipTo(Op.BLOCKEND, p).next, 1) ELSE p

FittingConstructor ==
  LET fitting[p \in Nat] ==
        LET skipped == SkipTo(Op.CONSTRUCTOR, AfterParameters(Bytes, p))
        IN IF p = REFUSED THEN REFUSED
           ELSE IF Fits(p, p # Operand) THEN p
           ELSE IF skipped.found # Op.CONSTRUCTOR THEN REFUSED
           ELSE fitting[ListAt(skipped.next)]
  IN fitting[ListAt(Operand)]

\* The names come from a ring to which every insertion at the tail hangs the
\* new node behind the first one: the first name, the last, the first...
RingOrder(n, i) == IF i % 2 = 1 THEN 1 ELSE n

ConstructorNames(p) ==
  [i \in DOMAIN parameters |->
     ParameterName(Bytes, p, RingOrder(Len(parameters), i))]

\* Mutant: the names are bound in the order of their list.
ProcedureUnreversed(p) ==
  [position |-> AfterParameters(Bytes, p),
   parameters |-> [i \in 1 .. CountAt(Bytes, p) |->
                     ParameterName(Bytes, p, i)]]

(***************************************************************************)
(* Procedures.  addParameter puts a name at the head of the list.          *)
(***************************************************************************)
Procedure(p) ==
  [position |-> AfterParameters(Bytes, p),
   parameters |-> Reverse([i \in 1 .. CountAt(Bytes, p) |->
                             ParameterName(Bytes, p, i)])]

OwnProcedure == Name \in DOMAIN procs
GlobalProcedure == ~OwnProcedure /\ Name \in DOMAIN program.globals
StandardFunction ==
  /\ ~OwnProcedure /\ ~GlobalProcedure
  /\ Name \in DOMAIN program.standardFunctions

(***************************************************************************)
(* The instructions that end the thread: FATAL, and a pointer that is NULL *)
(* or nobody set.                                                          *)
(***************************************************************************)
IsComponent(name) ==
  LET o == ScopeStack_load(scopes, name)
  IN o # NULL /\ heap[o].type = Type.COMPONENT

\* Whether the component a variable has declares a channel.
HasChannel(name, channel) ==
  LET component == heap[ScopeStack_load(scopes, name)].value
  IN /\ component \in DOMAIN program.interfaces
     /\ channel \in program.interfaces[component]

Field == ByteAt(Bytes, pos + 3)

Peers ==   \* the pairs of a component and a channel that an operand names
  {<<ByteAt(Bytes, pos + k), ByteAt(Bytes, pos + k + 3)>> :
     k \in IF Opcode = Op.CONNECT THEN {2, 8} ELSE {2}}

PeersDeclared ==
  \A peer \in Peers : IsComponent(peer[1]) /\ HasChannel(peer[1], peer[2])

FileMissing == Opcode = Op.CALL /\ Name \notin DOMAIN program.interfaces

ProjectedType == heap[Top.refs[CONTENT]].type

Block == ProjectBlock(Bytes, Following, ProjectedType, inProject)

\* At the end of a block of a project: the exit may come next, else a type.
AfterProject ==
  IF ByteAt(Bytes, Operand) = Op.PROJECT_EXIT THEN pos + 2
  ELSE SkipTo(Op.PROJECT_EXIT, pos + 2).next

AfterBody == SkipTo(Op.BLOCKEND, Following).next

Crashes ==
  \/ Opcode \in {Op.IF_CLAUSE, Op.PROJECT_ENTRY} /\ stack = << >>
  \/ Opcode = Op.SEND /\ Name \in DOMAIN channels /\ stack = << >>
  \/ /\ Opcode = Op.STRUCT /\ ByteAt(Bytes, Operand) = STRUCT_LOAD
     /\ stack = << >>
  \/ /\ Opcode = Op.STRUCT /\ ByteAt(Bytes, Operand) = STRUCT_CONSTRUCTOR
     /\ Len(stack) < CountAt(Bytes, pos + 2)
  \/ /\ Opcode \in {Op.JUMP, Op.BEHAVIOUR_JUMP, Op.IF_CLAUSE, Op.ELSE_CLAUSE}
     /\ ~IsData(Bytes, Operand)
  \/ Opcode = Op.MOD /\ Len(stack) > 1 /\ Top.value = 0
  \/ Opcode = Op.DECLARE /\ scopes = << >>
  \/ Opcode = Op.STORE /\ Declaring(scopes, Name) = {}
  \/ Opcode = Op.CONSTRUCTOR /\ scopes = << >> /\ parameters # << >>
  \/ Opcode = Op.RECEIVE /\ Name \notin DOMAIN channels
  \/ /\ Opcode = Op.PROJECT_ENTRY /\ stack # << >>
     /\ CONTENT \notin DOMAIN Top.refs
  \/ Opcode = Op.RETURN /\ Holding(scopes, RETURN_ADDRESS) = {}
  \/ /\ Opcode = Op.PROCCALL /\ StandardFunction
     /\ Len(stack) < program.standardFunctions[Name]

Refuses ==
  \/ Following = REFUSED
  \/ /\ Opcode \in Expressions
     /\ Len(stack) < 2 \/ ~Accepts(Opcode, heap[stack[2]], Top)
  \/ Opcode = Op.NOT /\ (stack = << >> \/ Top.type # Type.BOOL)
  \/ Opcode = Op.IF_CLAUSE /\ Top.type # Type.BOOL
  \/ Opcode = Op.LOAD /\ ScopeStack_load(scopes, Name) = NULL
  \/ /\ Opcode = Op.STOP /\ Name \notin {NO_NAME, program.name}
     /\ ~IsComponent(Name)
  \/ Opcode \in {Op.CONNECT, Op.DISCONNECT} /\ ~PeersDeclared
  \/ FileMissing
  \/ /\ Opcode = Op.COMPONENT
     /\ \/ Name # program.name
        \/ \E q \in ChannelsAt(Bytes, pos + 4) :
             ByteAt(Bytes, q) \notin {Type.INWARD, Type.OUTWARD}
  \/ Opcode = Op.SEND /\ Name \notin DOMAIN channels
  \/ /\ Opcode = Op.PROCCALL
     /\ ~OwnProcedure /\ ~GlobalProcedure /\ ~StandardFunction
  \/ /\ Opcode = Op.STRUCT /\ ByteAt(Bytes, Operand) = STRUCT_LOAD
     /\ ListMap_get(Top.refs, Field) = NULL
  \/ Opcode = Op.PROJECT_EXIT /\ ~inProject
  \/ Opcode = Op.CONSTRUCTOR /\ FittingConstructor = REFUSED
  \/ Opcode = Op.PROC /\ AfterBody = REFUSED
  \/ Opcode = Op.BLOCKEND /\ inProject /\ AfterProject = REFUSED
  \/ Opcode = Op.PROJECT_ENTRY /\ Block.next = REFUSED

Outcome ==
  IF Crashes THEN "crashed"
  ELSE IF Refuses THEN "refused"
  ELSE IF Opcode = Op.PROJECT_ENTRY /\ Block.next = HUNG THEN "hung"
  ELSE "run"

Fetched == status = "run" /\ ~stop /\ Opcode # EOF

Executable == Fetched /\ Outcome = "run"
Executes(op) == Opcode = op

\* DISCONNECT does not wait for the other component, which may not have come
\* to the declaration of the channel yet.  How far it is is left open, also
\* after a CONNECT, which waits for it.
DisconnectsEarly == Opcode = Op.DISCONNECT /\ PeersDeclared

Fails ==
  /\ Fetched
  /\ \/ Outcome # "run" /\ status' = Outcome
     \/ DisconnectsEarly /\ status' = "refused"
  /\ UNCHANGED <<file, pos, self, memory, ghosts>>

(***************************************************************************)
(* Scopes and variables                                                    *)
(***************************************************************************)
EnterScope ==
  Executes(Op.ENTERSCOPE) /\ Rescope(ScopeStack_enterScope(scopes))

ExitScope == Executes(Op.EXITSCOPE) /\ Rescope(ScopeStack_exitScope(scopes))

Declare == Executes(Op.DECLARE) /\ Rescope(ScopeStack_declare(scopes, Name))

Store ==
  /\ Executes(Op.STORE)
  /\ scopes' = ScopeStack_store(scopes, Name, Stack_pop(1))
  /\ stack' = After(1)
  /\ Continue
  /\ UNCHANGED <<self, heap, ghosts>>

Load ==
  Executes(Op.LOAD) /\ Restack(<<ScopeStack_load(scopes, Name)>> \o stack)

(***************************************************************************)
(* Values                                                                  *)
(***************************************************************************)
Push ==
  /\ Executes(Op.PUSH)
  /\ Replace(0, <<TypedObject_construct(ByteAt(Bytes, Operand),
                                        DataAt(Bytes, Operand))>>)

Expression ==
  \E op \in Expressions :
    /\ Executes(op)
    /\ \E result \in Results(op, heap[stack[2]], Top) : Replace(2, <<result>>)

\* The object that was popped is changed, whoever else refers to it.
Not ==
  /\ Executes(Op.NOT)
  /\ heap' = [heap EXCEPT ![stack[1]].value = 1 - @]
  /\ Continue
  /\ UNCHANGED <<self, stack, scopes, ghosts>>

AnyType ==
  /\ Executes(Op.ANY)
  /\ Replace(1, <<Container(Type.ANY, IF stack = << >> THEN << >>
                                      ELSE [x \in {CONTENT} |-> stack[1]])>>)

StructConstructor ==
  /\ Executes(Op.STRUCT) /\ ByteAt(Bytes, Operand) = STRUCT_CONSTRUCTOR
  /\ LET p == pos + 2
         n == CountAt(Bytes, p)
         fields == [i \in 1 .. n |-> ParameterName(Bytes, p, i)]
     IN Replace(n, <<Container(Type.STRUCT,
                               Bind(<<ListMap_constructor>>, fields,
                                    Popped(n))[1])>>)

StructLoad ==
  /\ Executes(Op.STRUCT) /\ ByteAt(Bytes, Operand) = STRUCT_LOAD
  /\ Restack(<<Top.refs[Field]>> \o After(1))

(***************************************************************************)
(* Jumps.  The distance counts from after the operand.                     *)
(***************************************************************************)
JumpTo(p) == Goto(p) /\ UNCHANGED <<self, memory, ghosts>>

Jump == Executes(Op.JUMP) /\ JumpTo(Following - LastOperand + 1)

\* It looks once more whether it has to stop.
BehaviourJump ==
  /\ Executes(Op.BEHAVIOUR_JUMP)
  /\ \/ JumpTo(Following - LastOperand + 1)
     \/ /\ program.stoppable
        /\ stop' = TRUE
        /\ Continue
        /\ UNCHANGED <<program, running, inProject, parameters, channels,
                       procs, memory, ghosts>>

\* Mutant: consumes ELSE, and not its operand.
OtherwiseInOperand ==
  LET p == Following + LastOperand
  IN IF ByteAt(Bytes, p) = Op.ELSE_CLAUSE THEN p + 1
     ELSE IF ByteAt(Bytes, p) = EOF THEN Len(Bytes)
     ELSE p

\* Where a false condition leads: ELSE and its operand are consumed, any
\* other byte is given back.
Otherwise ==
  LET p == Following + LastOperand
  IN IF ByteAt(Bytes, p) = Op.ELSE_CLAUSE THEN AfterData(Bytes, p + 1)
     ELSE IF ByteAt(Bytes, p) = EOF THEN Len(Bytes)
     ELSE p

IfClause ==
  /\ Executes(Op.IF_CLAUSE)
  /\ Goto(IF Top.value = 0 THEN Otherwise ELSE Following)
  /\ stack' = After(1)
  /\ UNCHANGED <<self, heap, scopes, ghosts>>

ElseClause == Executes(Op.ELSE_CLAUSE) /\ JumpTo(Following + LastOperand)

(***************************************************************************)
(* Procedures                                                              *)
(***************************************************************************)
Proc ==
  /\ Executes(Op.PROC)
  /\ procs' = ListMap_put(ListMap_declare(procs, Name), Name,
                          Procedure(pos + 4))
  /\ Goto(AfterBody)
  /\ UNCHANGED <<program, stop, running, inProject, parameters, channels,
                 memory, ghosts>>

ScopeNames(s) == [k \in DOMAIN s |-> DOMAIN s[k]]

\* The arguments are popped into a scope that also says where to return to.
CallTo(f, procedure, names, values) ==
  LET n == Len(procedure.parameters)
  IN /\ scopes' = Bind(ScopeStack_enterScope(scopes),
                       names \o procedure.parameters, values \o Popped(n))
     /\ stack' = After(n)
     /\ file' = f
     /\ pos' = procedure.position
     /\ calls' = <<[resume |-> Following, file |-> file,
                    names |-> ScopeNames(scopes)]>> \o calls
     /\ UNCHANGED <<status, self, heap, astray>>

CallOwn ==
  /\ Executes(Op.PROCCALL) /\ OwnProcedure
  /\ CallTo(file, procs[Name], <<RETURN_ADDRESS>>, <<Following>>)

\* The way back always leads to the component's own file.
CallGlobal ==
  /\ Executes(Op.PROCCALL) /\ GlobalProcedure
  /\ CallTo("main", program.globals[Name],
            <<RETURN_ADDRESS, RETURN_SOURCE>>, <<Following, "own">>)

\* Mutant: the arguments are read and stay on the stack.
CallStandardPeeks ==
  /\ Executes(Op.PROCCALL) /\ StandardFunction
  /\ Restack(stack)

CallStandard ==
  /\ Executes(Op.PROCCALL) /\ StandardFunction
  /\ Restack(After(program.standardFunctions[Name]))

\* Mutant: the scope of the procedure stays.
ProcReturnInScope ==
  LET source == ScopeStack_load(scopes, RETURN_SOURCE)
  IN /\ pos' = ScopeStack_load(scopes, RETURN_ADDRESS)
     /\ file' = IF source = NULL THEN file ELSE source
     /\ scopes' = ScopeStack_exitTo(scopes, RETURN_ADDRESS)
     /\ calls' = IF calls = << >> THEN calls ELSE Tail(calls)
     /\ astray' = (astray \/ calls = << >> \/ file' # calls[1].file)
     /\ UNCHANGED <<status, self, stack, heap>>

\* Address and file are looked up separately, then the scopes are left.
ProcReturn ==
  LET source == ScopeStack_load(scopes, RETURN_SOURCE)
  IN /\ pos' = ScopeStack_load(scopes, RETURN_ADDRESS)
     /\ file' = IF source = NULL THEN file ELSE source
     /\ scopes' = ScopeStack_exitScope(
                    ScopeStack_exitTo(scopes, RETURN_ADDRESS))
     /\ calls' = IF calls = << >> THEN calls ELSE Tail(calls)
     /\ astray' = (astray \/ calls = << >> \/ file' # calls[1].file)
     /\ UNCHANGED <<status, self, stack, heap>>

Return == Executes(Op.RETURN) /\ ProcReturn

\* Mutant: the end of a body does not return.
BlockEndGoesOn ==
  /\ Executes(Op.BLOCKEND)
  /\ JumpTo(IF inProject THEN AfterProject ELSE Following)

BlockEnd ==
  /\ Executes(Op.BLOCKEND)
  /\ IF inProject THEN JumpTo(AfterProject)
     ELSE IF Holding(scopes, RETURN_ADDRESS) # {} THEN ProcReturn
     ELSE JumpTo(Following)

(***************************************************************************)
(* Projects of a value of type `any'                                       *)
(***************************************************************************)
ProjectEntry ==
  /\ Executes(Op.PROJECT_ENTRY)
  /\ scopes' = Bind(ScopeStack_enterScope(scopes), <<Name>>,
                    <<Top.refs[CONTENT]>>)
  /\ stack' = After(1)
  /\ inProject' = (inProject \/ Block.found)
  /\ Goto(Block.next)
  /\ UNCHANGED <<program, stop, running, parameters, channels, procs, heap,
                 ghosts>>

ProjectExit ==
  /\ Executes(Op.PROJECT_EXIT)
  /\ scopes' = ScopeStack_exitScope(scopes)
  /\ inProject' = FALSE
  /\ Continue
  /\ UNCHANGED <<program, stop, running, parameters, channels, procs, stack,
                 heap, ghosts>>

(***************************************************************************)
(* The component and the others                                            *)
(***************************************************************************)
DeclareChannels ==
  /\ Executes(Op.COMPONENT)
  /\ LET declared == ChannelsAt(Bytes, pos + 4)
         type(x) == ByteAt(Bytes, 1 + CHOOSE q \in declared :
                                        ByteAt(Bytes, q + 3) = x)
         names == {ByteAt(Bytes, q + 3) : q \in declared}
     IN channels' = [x \in names |-> type(x)] @@ channels
  /\ Continue
  /\ UNCHANGED <<program, stop, running, inProject, parameters, procs, memory,
                 ghosts>>

\* Binds the parameters of the constructor that takes them.
Construct ==
  /\ Executes(Op.CONSTRUCTOR)
  /\ scopes' = IF parameters = << >> THEN scopes
               ELSE Bind(scopes, ConstructorNames(FittingConstructor),
                         parameters)
  /\ parameters' = << >>
  /\ running' = TRUE
  /\ Goto(AfterParameters(Bytes, FittingConstructor))
  /\ UNCHANGED <<program, stop, inProject, channels, procs, stack, heap,
                 ghosts>>

\* The new component has its own thread.
Call ==
  /\ Executes(Op.CALL)
  /\ Replace(CountAt(Bytes, Following - 1),
             <<TypedObject_construct(Type.COMPONENT, Name)>>)

\* To stop another component has no effect here.
Stop ==
  /\ Executes(Op.STOP)
  /\ stop' = (Name \in {NO_NAME, program.name})
  /\ Continue
  /\ UNCHANGED <<program, running, inProject, parameters, channels, procs,
                 memory, ghosts>>

StoppedByOther ==
  /\ status = "run" /\ ~stop /\ program.stoppable
  /\ stop' = TRUE
  /\ UNCHANGED <<place, program, running, inProject, parameters, channels,
                 procs, memory, ghosts>>

Connect == Executes(Op.CONNECT) /\ JumpTo(Following)

Disconnect == Executes(Op.DISCONNECT) /\ JumpTo(Following)

Send == Executes(Op.SEND) /\ Restack(After(1))

\* A message is an object and, after it, those it refers to.
Receive ==
  /\ Executes(Op.RECEIVE)
  /\ \E message \in program.messages :
       /\ message[1].type = channels[Name]
       /\ Replace(0, message)

\* Any other byte is logged.
UnknownByte ==
  /\ \E byte \in {Opcode} \ Range(Op) : Executes(byte)
  /\ JumpTo(Following)

End ==
  /\ status = "run" /\ (stop \/ Opcode = EOF)
  /\ status' = "ended"
  /\ UNCHANGED <<file, pos, self, memory, ghosts>>

(***************************************************************************)
(* The specification                                                       *)
(***************************************************************************)
NoObject == TypedObject_construct(Type.UNKNOWN, 0)

Init ==
  /\ program \in Programs
  /\ file = "own" /\ pos = 1 /\ status = "run"
  /\ stop = FALSE /\ running = FALSE /\ inProject = FALSE
  /\ parameters = [i \in DOMAIN program.arguments |-> i]
  /\ channels = << >> /\ procs = << >>
  /\ stack = << >> /\ scopes = << >>
  /\ heap = [o \in Objects |-> IF o \in DOMAIN program.arguments
                                 THEN program.arguments[o] ELSE NoObject]
  /\ calls = << >> /\ astray = FALSE

\* What a component does alone, and what it does with the others
Instruction ==
  \/ EnterScope \/ ExitScope \/ Declare \/ Store \/ Load
  \/ Push \/ Expression \/ Not \/ AnyType \/ StructConstructor \/ StructLoad
  \/ Jump \/ BehaviourJump \/ IfClause \/ ElseClause
  \/ Proc \/ CallOwn \/ CallGlobal \/ CallStandard \/ Return \/ BlockEnd
  \/ ProjectEntry \/ ProjectExit
  \/ DeclareChannels \/ Construct \/ Call \/ Stop \/ Disconnect
  \/ UnknownByte

Alone == (Executable /\ Instruction) \/ Fails \/ End

Together == (Executable /\ (Connect \/ Send \/ Receive)) \/ StoppedByOther

Done == status # "run" /\ UNCHANGED vars

Next == Alone \/ Together \/ Done

Spec == Init /\ [][Next]_vars /\ WF_vars(Alone)

TypeOK ==
  /\ file \in {"own", "main"} /\ pos \in Nat \ {0}
  /\ status \in {"run", "ended", "refused", "crashed", "hung"}
  /\ {stop, running, inProject, astray} \subseteq BOOLEAN
  /\ Range(stack) \cup Range(parameters) \subseteq Objects
  /\ \A o \in Reachable : heap[o].type \in Range(Type) \ {Type.UNKNOWN}
  /\ \A k \in DOMAIN scopes : Variables(scopes[k]) \subseteq Objects \cup {NULL}

Starts == program.starts[file]

(***************************************************************************)
(* Jumps, the ends of blocks, the skipping of what is not executed and     *)
(* returns lead to the first byte of an instruction.  The distances, the   *)
(* operands each function reads and those skipToNext passes over have to   *)
(* fit for it.                                                             *)
(***************************************************************************)
InStep == status = "run" /\ ~astray => pos \in Starts

\* The instructions from p on, up to the next of a kind
StartsUpTo(p, op) ==
  {q \in Starts : p <= q /\ \A r \in Starts : r \in p .. q - 1 => Bytes[r] # op}

\* Where skipToNext does not pass over what the instruction at q reads.
Misread(q) ==
  LET op == ByteAt(Bytes, q)
  IN AfterSkipped(Bytes, q + 1, op, Op.BLOCKEND, FALSE)
       # AfterOperands(Bytes, q + 1, op)

(***************************************************************************)
(* What the compiler has accepted fails only where it skips code: at a     *)
(* procedure, or a project, with an instruction that skipToNext misreads   *)
(* (a branch, a new struct, a CALL, another project), at a constructor     *)
(* that follows the one that was executed, and at the end of a procedure   *)
(* without RETURN once a project was entered, which is taken for the end   *)
(* of a project's block; or for want of another component: at a CALL of    *)
(* one that has no file, and at a DISCONNECT that comes before the other   *)
(* has declared the channel.  No other instruction lacks a name, a type or *)
(* an operand.                                                             *)
(***************************************************************************)
LacksOther == FileMissing \/ DisconnectsEarly

OnlySkippingFails ==
  ~astray =>
    /\ status \notin {"crashed", "hung"}
    /\ status = "refused" =>
         \/ LacksOther
         \/ Opcode = Op.CONSTRUCTOR /\ running
         \/ Opcode = Op.BLOCKEND /\ inProject /\ calls # << >>
         \/ /\ Opcode = Op.PROC
            /\ \E q \in StartsUpTo(Following, Op.BLOCKEND) : Misread(q)
         \/ /\ Opcode \in {Op.PROJECT_ENTRY, Op.BLOCKEND}
            /\ \E q \in StartsUpTo(pos + 1, Op.PROJECT_EXIT) : Misread(q)

(***************************************************************************)
(* A procedure returns behind its call, to the file and to the scopes of   *)
(* the caller, however many other calls there were in between: by RETURN   *)
(* or at the end of its body, unless it returns from within a block or an  *)
(* earlier call has left its scope behind.                                 *)
(***************************************************************************)
ReturnRestores ==
  [][LET call == calls[1]
     IN /\ Fetched /\ Len(calls') < Len(calls)
        /\ ~astray' /\ RETURN_ADDRESS \in DOMAIN scopes[1]
        /\ Cardinality(Holding(scopes, RETURN_ADDRESS)) = Len(calls)
        => /\ pos' = call.resume /\ file' = call.file
           /\ ScopeNames(scopes') = call.names]_vars

\* Levels count from the outermost, for a comparison with the next state.
Level(s, d) == s[Len(s) + 1 - d]
Contents(h, o) == IF o = NULL THEN NULL ELSE h[o]

(***************************************************************************)
(* A variable of a scope that stays keeps its value, also when it is       *)
(* hidden by another of its name, when procedures use that name, and when  *)
(* objects are made: only STORE changes the innermost of its name, NOT     *)
(* the object it is given, and a constructor the variables of its block    *)
(* whose names it takes.                                                   *)
(***************************************************************************)
KeepsVariables ==
  \A d \in DOMAIN scopes \cap DOMAIN scopes' :
    LET was == Level(scopes, d)
        is == Level(scopes', d)
    IN \A x \in DOMAIN was \ {RETURN_ADDRESS, RETURN_SOURCE} :
         \/ /\ x \in DOMAIN is
            /\ Contents(heap', is[x]) = Contents(heap, was[x])
         \/ /\ Opcode = Op.STORE /\ Name = x
            /\ \A e \in d + 1 .. Len(scopes) :
                 x \notin DOMAIN Level(scopes, e)
         \/ Opcode = Op.NOT /\ was[x] = stack[1]
         \/ Opcode = Op.CONSTRUCTOR /\ d = Len(scopes)

VariablesKept == [][KeepsVariables]_vars

\* The names that a declaration lists, in its order
Declared(f, p) ==
  LET b == program.bytes[f]
  IN [i \in 1 .. CountAt(b, p) |-> ParameterName(b, p, i)]

(***************************************************************************)
(* The i-th argument of a procedure or of a constructor is the value of    *)
(* the i-th name it declares: across the reversal of the stack, the list   *)
(* that is filled at its head, and the iterator the constructors share.    *)
(* Of a constructor this says nothing beyond two parameters.               *)
(***************************************************************************)
ArgumentsInOrder ==
  [][/\ Len(calls') > Len(calls) =>
          LET p == CHOOSE q \in program.starts[file'] :
                     /\ ByteAt(program.bytes[file'], q) = Op.PROC
                     /\ ByteAt(program.bytes[file'], q + 2) = Name
              names == Declared(file', p + 4)
          IN \A i \in DOMAIN names :
               scopes'[1][names[i]] = Stack_pop(Len(names) - i + 1)
     /\ running' /\ ~running /\ Len(parameters) <= 2 =>
          LET p == CHOOSE q \in Starts :
                     /\ ByteAt(Bytes, q) = Op.CONSTRUCTOR
                     /\ AfterParameters(Bytes, q + 1) = pos'
              names == Declared(file, p + 1)
          IN /\ Len(names) = Len(parameters)
             /\ \A i \in DOMAIN names :
                  scopes'[1][names[i]] = parameters[i]]_vars

(***************************************************************************)
(* Whenever a behaviour starts again the data stack is empty, and the      *)
(* scopes are those that are open in the text: nothing piles up in a       *)
(* component that runs for ever.  Not so after a project block, and after  *)
(* a return from within a block.                                           *)
(***************************************************************************)
BehaviourSettles ==
  status = "run" /\ ~astray /\ Opcode = Op.BEHAVIOUR_JUMP =>
    LET Before(op) ==
          Cardinality({q \in Starts : q < pos /\ Bytes[q] = op})
    IN /\ stack = << >>
       /\ \/ Before(Op.PROJECT_ENTRY) > 0
          \/ Holding(scopes, RETURN_ADDRESS) # {}
          \/ Len(scopes) = Before(Op.ENTERSCOPE) - Before(Op.EXITSCOPE)

(***************************************************************************)
(* Every call of a procedure that receives nothing returns, also where its *)
(* body ends without RETURN, unless the component is stopped, or ends for  *)
(* want of another one, a return went astray or a project was entered:     *)
(* from then on only RETURN returns.                                       *)
(***************************************************************************)
CallsReturn ==
  calls # << >> ~> \/ calls = << >> \/ stop \/ astray \/ inProject
                   \/ status = "refused" /\ LacksOther

(***************************************************************************)
(* A component that has a constructor for its arguments is constructed.    *)
(***************************************************************************)
Constructed ==
  status = "refused" /\ Opcode = Op.CONSTRUCTOR /\ ~running =>
    ~ \E q \in Starts :
        /\ q >= pos /\ ByteAt(Bytes, q) = Op.CONSTRUCTOR
        /\ Fits(q + 1, TRUE)
=============================================================================
