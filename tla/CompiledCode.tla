----------------------------- MODULE CompiledCode -----------------------------
(***************************************************************************)
(* What can be seen in the files of a program without executing them: that *)
(* every instruction leads from its first byte to the first byte of        *)
(* another, that procedures leave the scopes they enter, and that the      *)
(* types of what comes from outside are known; and which names differ.  It *)
(* is what the proofs about returns, jumps, types and arguments suppose of *)
(* a program; of the programs that are executed it is evaluated.           *)
(***************************************************************************)
EXTENDS Interpreter

Files == {"own", "main"}

Instructions(p, f) == {q \in p.starts[f] : q \in DOMAIN p.bytes[f]}
At(p, f, op) == {q \in Instructions(p, f) : p.bytes[f][q] = op}
Before(p, f, q, op) == Cardinality({r \in At(p, f, op) : r < q})

(***************************************************************************)
(* The procedure whose body q is in, and how many scopes deep, and whether *)
(* q is in a project.                                                      *)
(***************************************************************************)
Depth(p, f, q) == Before(p, f, q, Op.ENTERSCOPE) - Before(p, f, q, Op.EXITSCOPE)

Around(p, f, q) ==
  {r \in At(p, f, Op.PROC) :
     r < q /\ \A s \in At(p, f, Op.BLOCKEND) : ~(r < s /\ s < q)}

Inside(p, f, q) == Around(p, f, q) # {}

Within(p, f, q) ==
  Depth(p, f, q) - Depth(p, f, CHOOSE r \in Around(p, f, q) : TRUE)

Enclosed(p, f, q) ==
  Before(p, f, q, Op.PROJECT_ENTRY) > Before(p, f, q, Op.PROJECT_EXIT)

\* What inProject may be, and what it may be at q
InProjects(p) ==
  IF \A f \in Files : At(p, f, Op.PROJECT_ENTRY) = {} THEN {FALSE} ELSE BOOLEAN

InProjectsAt(p, f, q) ==
  {in \in InProjects(p) : Enclosed(p, f, q) => in}

(***************************************************************************)
(* Where an instruction leads that neither calls nor returns nor looks for *)
(* a block or a constructor.  At the end of a body there is a return.      *)
(***************************************************************************)
Ends(b, q) == AfterOperands(b, q + 1, b[q])
Distance(b, q) == ByteAt(b, Ends(b, q) - 1)

WhenFalse(b, q) ==
  LET r == Ends(b, q) + Distance(b, q)
  IN IF ByteAt(b, r) = Op.ELSE_CLAUSE THEN AfterData(b, r + 1)
     ELSE IF ByteAt(b, r) = EOF THEN Len(b)
     ELSE r

Leads(p, f, q, in) ==
  LET b == p.bytes[f]
      next == Ends(b, q)
      back == next - Distance(b, q) + 1
  IN CASE b[q] = Op.JUMP -> {back}
       [] b[q] = Op.BEHAVIOUR_JUMP -> {next, back}
       [] b[q] = Op.IF_CLAUSE -> {next, WhenFalse(b, q)}
       [] b[q] = Op.ELSE_CLAUSE -> {next + Distance(b, q)}
       [] b[q] = Op.PROC ->
            {SkipToNext(b, next, Op.BLOCKEND, in).next} \ {REFUSED}
       [] b[q] = Op.BLOCKEND /\ in ->
            {IF ByteAt(b, q + 1) = Op.PROJECT_EXIT THEN q + 2
             ELSE SkipToNext(b, q + 2, Op.PROJECT_EXIT, in).next} \ {REFUSED}
       [] b[q] = Op.BLOCKEND /\ ~in /\ Inside(p, f, q) -> {}
       [] b[q] \in {Op.RETURN, Op.CONSTRUCTOR, Op.PROJECT_ENTRY} -> {}
       [] OTHER -> {next}

\* The scopes it enters
Enters(op) ==
  IF op = Op.ENTERSCOPE THEN 1 ELSE IF op = Op.EXITSCOPE THEN -1 ELSE 0

FitTogether(p, f) ==
  \A q \in Instructions(p, f) : \A in \in InProjectsAt(p, f, q) :
    Ends(p.bytes[f], q) # REFUSED =>
      \A r \in Leads(p, f, q, in) :
        /\ r \in p.starts[f]
        /\ Enclosed(p, f, r) => in /\ p.bytes[f][q] # Op.PROJECT_EXIT
        /\ Inside(p, f, r) <=> Inside(p, f, q)
        /\ Inside(p, f, r) =>
             Within(p, f, r) \in 0 .. Within(p, f, q) + Enters(p.bytes[f][q])

\* A block of a project starts with an instruction.
BlocksFound(p, f) ==
  \A q \in At(p, f, Op.PROJECT_ENTRY) :
    \A in \in InProjectsAt(p, f, q), t \in Range(Type) \ {Type.UNKNOWN} :
      LET block == ProjectBlock(p.bytes[f], Ends(p.bytes[f], q), t, in)
      IN block.next \notin {REFUSED, HUNG} =>
           /\ block.next \in p.starts[f] /\ ~Inside(p, f, block.next)
           /\ Enclosed(p, f, block.next) => in \/ block.found

(***************************************************************************)
(* The lists of parameters that the search for a constructor looks at,     *)
(* before one was executed and after it.                                   *)
(***************************************************************************)
ListFrom(b, q, constructed, in) ==
  IF constructed THEN Past(SkipToNext(b, q, Op.BLOCKEND, in).next, 1) ELSE q

ConstructorsFound(p, f) ==
  \A q \in At(p, f, Op.CONSTRUCTOR) :
    \A constructed \in BOOLEAN, in \in InProjects(p) :
      LET b == p.bytes[f]
          body == AfterParameters(b, ListFrom(b, q + 1, constructed, in))
          next == SkipToNext(b, body, Op.CONSTRUCTOR, in)
      IN /\ body # REFUSED =>
              /\ body \in p.starts[f]
              /\ ~Enclosed(p, f, body) /\ ~Inside(p, f, body)
         /\ next.found = Op.CONSTRUCTOR =>
              next.next - 1 \in At(p, f, Op.CONSTRUCTOR)

\* Where a body starts
Entry(p, f, q) ==
  /\ q \in p.starts[f] /\ ~Enclosed(p, f, q)
  /\ Inside(p, f, q) /\ Within(p, f, q) = 0

\* A procedure declares nothing but variables, and has no project in it.
ProceduresPlain(p, f) ==
  /\ \A q \in At(p, f, Op.PROC) :
       Ends(p.bytes[f], q) # REFUSED =>
         Entry(p, f, AfterParameters(p.bytes[f], q + 4))
  /\ \A op \in {Op.PROC, Op.CONSTRUCTOR, Op.PROJECT_ENTRY, Op.PROJECT_EXIT} :
       \A q \in At(p, f, op) : ~Inside(p, f, q)

\* Procedures of the main program call none of the component.
GlobalsApart(p) ==
  /\ \A x \in DOMAIN p.globals : Entry(p, "main", p.globals[x].position)
  /\ \A q \in At(p, "main", Op.PROCCALL), r \in At(p, "own", Op.PROC) :
       Inside(p, "main", q) =>
         ByteAt(p.bytes.main, q + 2) # ByteAt(p.bytes.own, r + 2)

Typed(c) ==
  /\ c.type \in Range(Type) \ {Type.UNKNOWN}
  /\ \A x \in DOMAIN c.refs : c.refs[x] # NULL

Compiled(p) ==
  /\ 1 \in p.starts.own /\ ~Enclosed(p, "own", 1)
  /\ \A f \in Files :
       /\ p.starts[f] \in SUBSET (Nat \ {0})
       /\ FitTogether(p, f) /\ BlocksFound(p, f) /\ ConstructorsFound(p, f)
       /\ ProceduresPlain(p, f)
  /\ GlobalsApart(p)
  /\ \A i \in DOMAIN p.arguments : Typed(p.arguments[i])
  /\ \A m \in p.messages : \A i \in DOMAIN m : Typed(m[i])

(***************************************************************************)
(* The names of a list of parameters differ, and so do those of the        *)
(* procedures of a file.  Every list belongs to one constructor.  The      *)
(* global procedures are those of the main program.                        *)
(***************************************************************************)
NamesDiffer(names) ==
  \A i, j \in DOMAIN names : names[i] = names[j] => i = j

NamesAt(p, f, q) ==
  [i \in 1 .. CountAt(p.bytes[f], q) |-> ParameterName(p.bytes[f], q, i)]

NamesApart(p) ==
  /\ \A f \in Files :
       /\ \A q \in At(p, f, Op.PROC) : NamesDiffer(NamesAt(p, f, q + 4))
       /\ \A q, r \in At(p, f, Op.PROC) :
            ByteAt(p.bytes[f], q + 2) = ByteAt(p.bytes[f], r + 2) => q = r
       /\ \A q \in At(p, f, Op.CONSTRUCTOR) : NamesDiffer(NamesAt(p, f, q + 1))
       /\ \A q, r \in At(p, f, Op.CONSTRUCTOR) :
            AfterParameters(p.bytes[f], q + 1) = AfterParameters(p.bytes[f], r + 1)
              => q = r
  /\ \A x \in DOMAIN p.globals :
       \E q \in At(p, "main", Op.PROC) :
         /\ ByteAt(p.bytes.main, q + 2) = x
         /\ p.globals[x].parameters = Reverse(NamesAt(p, "main", q + 4))

CompiledPrograms == \A p \in Programs : Compiled(p)
NamedPrograms == \A p \in Programs : NamesApart(p)
=============================================================================
