---------------------------- MODULE LifecycleProofs ----------------------------
(***************************************************************************)
(* For every set of components and all programs: that a component ends     *)
(* after those it started, and that the references to it are counted as    *)
(* they should be.                                                         *)
(***************************************************************************)
EXTENDS Lifecycle, TLAPS

Calling == {"call", "setThreadId", "construct", "push"}
Ending == {"dropSelf", "freeSelf", "ended"}

\* The instruction at which a thread is inside a function.
AtInstruction(t) ==
  /\ ip[t] \in 1..Len(Program[t])
  /\ pc[t] \in Calling => Instruction(t).op = "call"
  /\ pc[t] \in {"connect", "connectOther"} => Instruction(t).op = "connect"
  /\ pc[t] = "jump" => Instruction(t).op = "jump"

Placed == \A u \in Components :
            pc[u] \in Calling \cup {"connect", "connectOther", "jump"}
              => AtInstruction(u)

TypeInv ==
  /\ TypeOK
  /\ Placed

\* A thread runs in an object that is there.
Allocated == \A x \in Components : heap[x] = "none" => pc[x] = "none"

\* A component that has not ended is still waited for by its starter: it is on
\* the list, about to be put on it, or being joined.
InWaitList(p, x) == \E i \in DOMAIN wait[p] : wait[p][i] = x
BeingCalled(p, x) ==
  pc[p] \in {"setThreadId", "construct", "push"} /\ Name(p) = x
BeingJoined(p, x) == pc[p] = "join" /\ joining[p] = x

WaitedFor(p, x) == InWaitList(p, x) \/ BeingCalled(p, x) \/ BeingJoined(p, x)

Accounted ==
  \A x \in Components :
    starter[x] # NULL /\ pc[x] # "ended" => WaitedFor(starter[x], x)

\* The list of a component that has done its waiting is empty.
Reaped == \A p \in Components : pc[p] \in Ending => wait[p] = << >>

EndInv == TypeInv /\ Allocated /\ Accounted /\ Reaped

-----------------------------------------------------------------------------
\* What the three kinds of instructions with arguments carry.
LEMMA InstructionTypes ==
  ASSUME NEW r \in Instructions
  PROVE  /\ r.op \in Steps
         /\ r.op \in {"call", "stop"} => r.name \in Components
         /\ r.op = "connect" => r.name \in Components /\ r.other \in Components
         /\ r.op = "jump" => r.target \in Nat \ {0}
<1>1. CASE r \in [op: {"constructor", "send", "receive", "fatal"}]
  BY <1>1 DEF Steps
<1>2. CASE r \in [op: {"call", "stop"}, name: Components]
  BY <1>2 DEF Steps
<1>3. CASE r \in [op: {"connect"}, name: Components, other: Components]
  BY <1>3 DEF Steps
<1>4. CASE r \in [op: {"jump"}, target: Nat \ {0, 1}]
  BY <1>4 DEF Steps
<1> QED
  BY <1>1, <1>2, <1>3, <1>4 DEF Instructions

\* The program of a thread has an instruction at every position in it.
LEMMA InstructionIn ==
  ASSUME NEW t \in Components, ip[t] \in 1..Len(Program[t])
  PROVE  Instruction(t) \in Instructions
BY LifecycleAssumption DEF Instruction

-----------------------------------------------------------------------------
(***************************************************************************)
(* Type correctness.                                                       *)
(***************************************************************************)
\* A step of t that leaves the instructions of the others alone.
LEMMA OthersStay ==
  ASSUME TypeInv, NEW t \in Components, NEW s \in Steps, Goto(t, s),
         \A u \in Components \ {t} : ip'[u] = ip[u],
         s \in Calling \cup {"connect", "connectOther", "jump"}
           => AtInstruction(t)'
  PROVE  pc' \in [Components -> Steps] /\ Placed'
<1>1. pc \in [Components -> Steps]
  BY DEF TypeInv, TypeOK
<1>2. pc' \in [Components -> Steps]
  BY <1>1 DEF Goto
<1>3. ASSUME NEW u \in Components \ {t},
             pc'[u] \in Calling \cup {"connect", "connectOther", "jump"}
      PROVE  AtInstruction(u)'
  <2>1. pc'[u] = pc[u] /\ ip'[u] = ip[u]
    BY <1>1, <1>3 DEF Goto
  <2>2. AtInstruction(u)
    BY <1>3, <2>1 DEF TypeInv, Placed
  <2> QED BY <2>1, <2>2 DEF AtInstruction, Instruction
<1> QED BY <1>1, <1>2, <1>3 DEF Goto, Placed

\* The first state has the types.
LEMMA TypeInit == Init => TypeInv
<1> SUFFICES ASSUME Init PROVE TypeInv
  OBVIOUS
<1>1. TypeOK
  <2>1. wait \in [Components -> Seq(Components)]
    BY DEF Init
  <2>2. pc \in [Components -> Steps] /\ heap \in [Components -> {"none", "live", "freed"}]
    BY DEF Init, Steps
  <2>3. refs \in [Components -> Int]
    BY DEF Init
  <2>7. links \in SUBSET (Components \X Components)
    BY DEF Init
  <2>4. ip \in [Components -> Nat \ {0}]
    BY DEF Init
  <2>8. exited \in BOOLEAN
    BY DEF Init
  <2>5. stop \in [Components -> BOOLEAN] /\ running \in [Components -> BOOLEAN]
    BY DEF Init
  <2>6. /\ joining \in [Components -> Components \cup {NULL}]
        /\ starter \in [Components -> Components \cup {NULL}]
    BY DEF Init
  <2> QED BY <2>1, <2>2, <2>3, <2>4, <2>5, <2>6, <2>7, <2>8 DEF TypeOK
<1>2. \A t \in Components : pc[t] \in {"fetch", "none"}
  BY DEF Init
<1> QED BY <1>1, <1>2 DEF TypeInv, Placed, Calling

\* Fetching goes to the function of an instruction of the program, or out.
LEMMA FetchTypes ==
  ASSUME TypeInv, NEW t \in Components, Fetch(t)
  PROVE  pc' \in [Components -> Steps] /\ Placed'
<1>1. TypeOK /\ ip' = ip
  BY DEF TypeInv, Fetch
<1>2. CASE Goto(t, "reap") \/ Goto(t, "fatal")
  <2>1. {"reap", "fatal"} \subseteq Steps
    BY DEF Steps
  <2> QED BY <1>1, <1>2, <2>1, OthersStay DEF Calling
<1>3. CASE /\ ~(stop[t] \/ ip[t] > Len(Program[t]))
           /\ Goto(t, Instruction(t).op)
  <2>1. ip[t] \in 1..Len(Program[t])
    BY <1>1, <1>3, LifecycleAssumption DEF TypeOK
  <2>2. Instruction(t).op \in
          {"constructor", "send", "receive", "fatal", "call", "stop", "connect", "jump"}
    BY <2>1, InstructionIn DEF Instructions
  <2>3. Instruction(t).op \in Steps /\ pc'[t] = Instruction(t).op
    BY <1>1, <1>3, <2>2 DEF Steps, Goto, TypeOK
  <2>4. AtInstruction(t)'
    BY <1>1, <2>1, <2>2, <2>3 DEF AtInstruction, Calling, Instruction
  <2> QED BY <1>1, <1>3, <2>3, <2>4, OthersStay
<1> QED BY <1>2, <1>3 DEF Fetch

\* The step after an instruction that is done.
LEMMA DoneTypes ==
  ASSUME TypeInv, NEW t \in Components, Done(t)
  PROVE  /\ pc' \in [Components -> Steps] /\ Placed'
         /\ ip' \in [Components -> Nat \ {0}]
<1>1. TypeOK
  BY DEF TypeInv
<1>2. ip' \in [Components -> Nat \ {0}] /\ \A u \in Components \ {t} : ip'[u] = ip[u]
  BY <1>1 DEF Done, TypeOK
<1>3. "fetch" \in Steps
  BY DEF Steps
<1> QED BY <1>2, <1>3, OthersStay DEF Done, Calling

\* Names of instructions at which a thread is.
LEMMA NamesTypes ==
  ASSUME TypeInv, NEW t \in Components
  PROVE  /\ pc[t] \in Calling => Name(t) \in Components
         /\ pc[t] \in {"connect", "connectOther"}
              => Name(t) \in Components /\ Other(t) \in Components
         /\ pc[t] = "jump" => Instruction(t).target \in Nat \ {0}
<1>1. pc[t] \in Calling \cup {"connect", "connectOther", "jump"} => AtInstruction(t)
  BY DEF TypeInv, Placed
<1>2. AtInstruction(t) => Instruction(t) \in Instructions
  BY InstructionIn DEF AtInstruction
<1> QED BY <1>1, <1>2, InstructionTypes DEF AtInstruction, Name, Other

\* The steps of component_run and its instructions.
LEMMA RunTypes ==
  ASSUME TypeInv, NEW t \in Components, UNCHANGED exited,
         \/ Fetch(t) \/ Constructor(t) \/ Stop(t) \/ BehaviourJump(t) \/ Fatal(t)
         \/ Connect(t) \/ ConnectOther(t) \/ \E u \in Components : Meet(t, u)
  PROVE  TypeInv'
<1>1. TypeOK
  BY DEF TypeInv
<1>2. CASE Fetch(t)
  BY <1>1, <1>2, FetchTypes
     DEF Fetch, TypeInv, TypeOK, flags, waits, memory
<1>3. CASE Constructor(t)
  BY <1>1, <1>3, DoneTypes
     DEF Constructor, TypeInv, TypeOK, waits, memory
<1>4. CASE Stop(t)
  BY <1>1, <1>4, DoneTypes
     DEF Stop, TypeInv, TypeOK, waits, memory
<1>5. CASE BehaviourJump(t)
  <2>1. "fetch" \in Steps
    BY DEF Steps
  <2>2. /\ ip' \in [Components -> Nat \ {0}]
        /\ \A u \in Components \ {t} : ip'[u] = ip[u]
    BY <1>1, <1>5, NamesTypes DEF BehaviourJump, TypeOK
  <2>3. pc' \in [Components -> Steps] /\ Placed'
    BY <1>5, <2>1, <2>2, OthersStay DEF BehaviourJump, Calling
  <2> QED BY <1>1, <1>5, <2>2, <2>3
          DEF BehaviourJump, TypeInv, TypeOK, flags, waits, memory
<1>6. CASE Fatal(t)
  <2>1. "reap" \in Steps
    BY DEF Steps
  <2>2. pc' \in [Components -> Steps] /\ Placed'
    BY <1>6, <2>1, OthersStay DEF Fatal, Calling
  <2> QED BY <1>1, <1>6, <2>2 DEF Fatal, TypeInv, TypeOK, flags, waits, memory
<1>7. CASE Connect(t)
  <2>1. {"connectOther", "fatal"} \subseteq Steps
    BY DEF Steps
  <2>2. AtInstruction(t) /\ pc[t] = "connect"
    BY <1>7 DEF Connect, TypeInv, Placed
  <2>3. ASSUME Goto(t, "connectOther") PROVE pc' \in [Components -> Steps] /\ Placed'
    <3>1. pc'[t] = "connectOther" /\ ip' = ip
      BY <1>1, <1>7, <2>3 DEF Connect, Goto, TypeOK
    <3>2. AtInstruction(t)'
      BY <2>2, <3>1 DEF AtInstruction, Instruction, Calling
    <3> QED BY <2>1, <2>3, <3>1, <3>2, OthersStay
  <2>4. ASSUME Goto(t, "fatal") PROVE pc' \in [Components -> Steps] /\ Placed'
    BY <1>7, <2>1, <2>4, OthersStay DEF Connect, Calling
  <2>5. pc' \in [Components -> Steps] /\ Placed'
    BY <1>7, <2>3, <2>4 DEF Connect, Goto
  <2> QED BY <1>1, <1>7, <2>5 DEF Connect, TypeInv, TypeOK, flags, waits, memory
<1>8. CASE ConnectOther(t)
  <2>1. Name(t) \in Components /\ Other(t) \in Components
    BY <1>8, NamesTypes DEF ConnectOther
  <2>2. links' \in SUBSET (Components \X Components)
    BY <1>1, <1>8, <2>1 DEF ConnectOther, TypeOK
  <2>3. /\ pc' \in [Components -> Steps] /\ Placed'
        /\ ip' \in [Components -> Nat \ {0}]
    BY <1>8, DoneTypes DEF ConnectOther
  <2> QED BY <1>1, <1>8, <2>2, <2>3
          DEF ConnectOther, TypeInv, TypeOK, flags, waits, memory
<1>9. ASSUME NEW u \in Components, Meet(t, u) PROVE TypeInv'
  <2>0. "fetch" \in Steps
    BY DEF Steps
  <2>3. pc' \in [Components -> Steps] /\ pc'[t] = "fetch" /\ pc'[u] = "fetch"
    BY <1>1, <1>9, <2>0 DEF Meet, TypeOK
  <2>4. ip[t] + 1 \in Nat \ {0} /\ ip[u] + 1 \in Nat \ {0} /\ t # u
    BY <1>1, <1>9 DEF Meet, TypeOK
  <2>5. ip' \in [Components -> Nat \ {0}]
    BY <1>1, <1>9, <2>4 DEF Meet, TypeOK
  <2>1. /\ pc' \in [Components -> Steps]
        /\ ip' \in [Components -> Nat \ {0}]
        /\ pc'[t] = "fetch" /\ pc'[u] = "fetch"
    BY <2>3, <2>5
  <2>2. ASSUME NEW v \in Components,
               pc'[v] \in Calling \cup {"connect", "connectOther", "jump"}
        PROVE  AtInstruction(v)'
    <3>1. pc'[v] = pc[v] /\ ip'[v] = ip[v]
      BY <1>1, <1>9, <2>1, <2>2 DEF Meet, TypeOK, Calling
    <3> QED BY <2>2, <3>1 DEF TypeInv, Placed, AtInstruction, Instruction
  <2> QED BY <1>1, <1>9, <2>1, <2>2
          DEF Meet, TypeInv, TypeOK, Placed, flags, waits, memory
<1> QED BY <1>2, <1>3, <1>4, <1>5, <1>6, <1>7, <1>8, <1>9

\* The steps of component_call.
LEMMA CallTypes ==
  ASSUME TypeInv, Allocated, NEW t \in Components, UNCHANGED exited,
         Call(t) \/ SetThreadId(t) \/ Construct(t) \/ Push(t)
  PROVE  TypeInv'
<1>1. TypeOK
  BY DEF TypeInv
<1>2. pc[t] \in Calling /\ AtInstruction(t) /\ Name(t) \in Components
  BY NamesTypes DEF Call, SetThreadId, Construct, Push, Calling, TypeInv, Placed
<1>3. {"setThreadId", "construct", "push", "fetch", "ended"} \subseteq Steps
  BY DEF Steps
<1>4. CASE Call(t)
  <2>6. starter' \in [Components -> Components \cup {NULL}]
    BY <1>1, <1>4 DEF Call, CallFails, CallStarts, TypeOK
  <2>7. pc' \in [Components -> Steps]
    <3>1. CASE CallFails(t)
      BY <1>1, <1>3, <3>1 DEF CallFails, TypeOK
    <3>2. CASE CallStarts(t)
      BY <1>1, <1>3, <3>2 DEF CallStarts, TypeOK
    <3> QED BY <1>4, <3>1, <3>2 DEF Call
  <2>1. /\ pc' \in [Components -> Steps] /\ ip' = ip
        /\ starter' \in [Components -> Components \cup {NULL}]
    BY <1>4, <2>6, <2>7 DEF Call
  <2>2. heap' \in [Components -> {"none", "live", "freed"}]
    BY <1>1, <1>4 DEF Call, CallFails, CallStarts, TypeOK
  <2>3. refs' \in [Components -> Int]
    BY <1>1, <1>4 DEF Call, CallFails, CallStarts, TypeOK
  <2>4. ASSUME NEW u \in Components,
               pc'[u] \in Calling \cup {"connect", "connectOther", "jump"}
        PROVE  AtInstruction(u)'
    <3>1. CASE u = t
      <4>1. pc'[t] \in {"setThreadId", "ended", "fetch"}
        BY <1>1, <1>4 DEF Call, CallFails, CallStarts, TypeOK
      <4> QED BY <1>2, <2>1, <2>4, <3>1, <4>1
              DEF AtInstruction, Instruction, Calling
    <3>2. CASE u # t
      <4>1. pc'[u] = pc[u]
        BY <1>1, <1>4, <2>4, <3>2
           DEF Call, CallFails, CallStarts, TypeOK, Calling
      <4> QED BY <2>1, <2>4, <4>1
              DEF TypeInv, Placed, AtInstruction, Instruction
    <3> QED BY <3>1, <3>2
  <2>5. TypeOK'
    BY <1>1, <1>4, <2>1, <2>2, <2>3 DEF Call, TypeOK, flags, waits
  <2> QED BY <2>4, <2>5 DEF TypeInv, Placed
<1>5. CASE SetThreadId(t)
  <2>1. pc'[t] = "construct" /\ ip' = ip
    BY <1>1, <1>5 DEF SetThreadId, Goto, TypeOK
  <2>2. AtInstruction(t)'
    BY <1>2, <2>1 DEF AtInstruction, Instruction, Calling
  <2>3. pc' \in [Components -> Steps] /\ Placed'
    BY <1>3, <1>5, <2>1, <2>2, OthersStay DEF SetThreadId
  <2> QED BY <1>1, <1>5, <2>3
          DEF SetThreadId, TypeInv, TypeOK, flags, waits, memory
<1>6. CASE Construct(t)
  <2>1. pc'[t] = "push" /\ ip' = ip
    BY <1>1, <1>6 DEF Construct, Goto, TypeOK
  <2>2. AtInstruction(t)'
    BY <1>2, <2>1 DEF AtInstruction, Instruction, Calling
  <2>3. pc' \in [Components -> Steps] /\ Placed'
    BY <1>3, <1>6, <2>1, <2>2, OthersStay DEF Construct
  <2>5. refs[Name(t)] + 1 \in Int
    BY <1>1, <1>2 DEF TypeOK
  <2>4. refs' \in [Components -> Int]
    BY <1>1, <1>6, <2>5 DEF Construct, IncRef, TypeOK
  <2> QED BY <1>1, <1>6, <2>3, <2>4 DEF Construct, TypeInv, TypeOK, flags, waits
<1>7. CASE Push(t)
  <2>1. wait' \in [Components -> Seq(Components)]
    BY <1>1, <1>2, <1>7 DEF Push, TypeOK
  <2> QED BY <1>1, <1>7, <2>1, DoneTypes DEF Push, TypeInv, TypeOK, flags, memory
<1> QED BY <1>4, <1>5, <1>6, <1>7

\* The steps of component_cleanUpAndStop.
LEMMA CleanUpTypes ==
  ASSUME TypeInv, NEW t \in Components, UNCHANGED exited,
         \/ Reap(t) \/ Join(t) \/ DropJoined(t) \/ FreeJoined(t)
         \/ DropSelf(t) \/ FreeSelf(t)
  PROVE  TypeInv'
<1>1. TypeOK
  BY DEF TypeInv
<1>2. {"dropSelf", "join", "dropJoined", "freeJoined", "reap", "freeSelf", "ended"}
        \subseteq Steps
  BY DEF Steps
<1>3. pc' \in [Components -> Steps] /\ Placed'
  <2>1. PICK s \in {"dropSelf", "join", "dropJoined", "freeJoined", "reap",
                    "freeSelf", "ended"} : Goto(t, s)
    BY DEF Reap, Join, DropJoined, FreeJoined, DropSelf, FreeSelf
  <2>2. ip' = ip
    BY DEF Reap, Join, DropJoined, FreeJoined, DropSelf, FreeSelf
  <2>3. s \in Steps /\ s \notin Calling \cup {"connect", "connectOther", "jump"}
    BY <1>2, <2>1 DEF Calling
  <2> QED BY <2>1, <2>2, <2>3, OthersStay
<1>4. wait' \in [Components -> Seq(Components)]
  <2>1. CASE Reap(t) /\ wait[t] # << >>
    <3>1. Tail(wait[t]) \in Seq(Components)
      BY <1>1, <2>1 DEF TypeOK
    <3> QED BY <1>1, <2>1, <3>1 DEF Reap, TypeOK
  <2>2. CASE ~(Reap(t) /\ wait[t] # << >>)
    BY <1>1, <2>2
       DEF Reap, Join, DropJoined, FreeJoined, DropSelf, FreeSelf, TypeOK, waits
  <2> QED BY <2>1, <2>2
<1>5. joining' \in [Components -> Components \cup {NULL}]
  <2>1. CASE Reap(t) /\ wait[t] # << >>
    <3>1. Head(wait[t]) \in Components
      BY <1>1, <2>1 DEF TypeOK
    <3> QED BY <1>1, <2>1, <3>1 DEF Reap, TypeOK
  <2>2. CASE ~(Reap(t) /\ wait[t] # << >>)
    BY <1>1, <2>2
       DEF Reap, Join, DropJoined, FreeJoined, DropSelf, FreeSelf, TypeOK, waits
  <2> QED BY <2>1, <2>2
<1>6. refs' \in [Components -> Int]
  BY <1>1 DEF Reap, Join, DropJoined, FreeJoined, DropSelf, FreeSelf, DecRef,
              TypeOK, memory
<1>7. heap' \in [Components -> {"none", "live", "freed"}]
  BY <1>1 DEF Reap, Join, DropJoined, FreeJoined, DropSelf, FreeSelf,
              FreeIfUnused, TypeOK, memory
<1>8. UNCHANGED <<ip, flags, starter, links, exited>>
  BY DEF Reap, Join, DropJoined, FreeJoined, DropSelf, FreeSelf
<1> QED BY <1>1, <1>3, <1>4, <1>5, <1>6, <1>7, <1>8 DEF TypeInv, TypeOK, flags

-----------------------------------------------------------------------------
(***************************************************************************)
(* A thread runs in an object that is there.                               *)
(***************************************************************************)
\* Objects are not unmade, and only CALL makes a thread, in a new object.
LEMMA AllocatedStep ==
  ASSUME TypeInv, Allocated, NEW t \in Components, Step(t)
  PROVE  Allocated'
<1>1. TypeOK
  BY DEF TypeInv
<1>2. CASE Call(t)
  <2>1. Name(t) \in Components /\ heap[Name(t)] = "none" /\ heap[t] # "none"
    BY <1>2, NamesTypes DEF Call, Calling, Allocated
  <2> QED BY <1>1, <1>2, <2>1
          DEF Call, CallFails, CallStarts, Allocated, TypeOK
<1>3. CASE ~Call(t)
  <2>1. ASSUME NEW u \in Components, heap'[u] = "none" PROVE heap[u] = "none"
    BY <1>1, <1>3, <2>1
       DEF Step, Fetch, Constructor, Stop, BehaviourJump, Fatal, Connect,
           ConnectOther, Meet, SetThreadId, Construct, Push, Reap, Join,
           DropJoined, FreeJoined, DropSelf, FreeSelf, FreeIfUnused, memory, TypeOK
  <2>2. ASSUME NEW u \in Components, pc[u] = "none" PROVE pc'[u] = "none"
    BY <1>1, <1>3, <2>2
       DEF Step, Fetch, Constructor, Stop, BehaviourJump, Fatal, Connect,
           ConnectOther, Meet, SetThreadId, Construct, Push, Reap, Join,
           DropJoined, FreeJoined, DropSelf, FreeSelf, Goto, Done, TypeOK
  <2> QED BY <2>1, <2>2 DEF Allocated
<1> QED BY <1>2, <1>3

\* The program's types hold whatever a thread does.
LEMMA TypeStep ==
  ASSUME TypeInv, Allocated, NEW t \in Components, Step(t)
  PROVE  TypeInv'
BY RunTypes, CallTypes, CleanUpTypes DEF Step

\* Every value that a variable takes is of its kind, for every program.
THEOREM LifecycleTypeCorrect == Spec => []TypeOK
<1>1. Init => TypeInv /\ Allocated
  BY TypeInit DEF Init, Allocated
<1>2. TypeInv /\ Allocated /\ [Next]_vars => (TypeInv /\ Allocated)'
  <2> SUFFICES ASSUME TypeInv, Allocated, [Next]_vars
               PROVE  (TypeInv /\ Allocated)'
    OBVIOUS
  <2>1. ASSUME NEW t \in Components, Step(t) PROVE (TypeInv /\ Allocated)'
    BY <2>1, TypeStep, AllocatedStep
  <2>2. CASE MainReturns
    BY <2>2 DEF MainReturns, TypeInv, TypeOK, Placed, AtInstruction, Instruction,
                Allocated, flags, waits, memory
  <2>3. CASE UNCHANGED vars
    BY <2>3 DEF vars, TypeInv, TypeOK, Placed, AtInstruction, Instruction,
                Allocated, flags, waits, memory
  <2> QED BY <2>1, <2>2, <2>3 DEF Next, Gone
<1>3. TypeInv => TypeOK
  BY DEF TypeInv
<1> QED BY <1>1, <1>2, <1>3, PTL DEF Spec

-----------------------------------------------------------------------------
(***************************************************************************)
(* A component ends after those it started.                                *)
(***************************************************************************)
\* A step of t leaves the lists of the others alone, and their place too unless
\* it starts them or meets them.
Kept(p) == pc'[p] = pc[p] /\ ip'[p] = ip[p]
Begins(p) == pc[p] \in {"none", "receive"} /\ pc'[p] = "fetch"

LEMMA OthersKept ==
  ASSUME TypeInv, Allocated, NEW t \in Components, Step(t), NEW p \in Components \ {t}
  PROVE  /\ wait'[p] = wait[p] /\ joining'[p] = joining[p]
         /\ Kept(p) \/ Begins(p)
<1>1. TypeOK
  BY DEF TypeInv
<1>2. wait'[p] = wait[p] /\ joining'[p] = joining[p]
  BY <1>1 DEF Step, Fetch, Constructor, Stop, BehaviourJump, Fatal, Connect,
       ConnectOther, Meet, Call, SetThreadId, Construct, Push, Reap, Join,
       DropJoined, FreeJoined, DropSelf, FreeSelf, waits, TypeOK
<1>3. CASE Call(t)
  <2>1. Name(t) \in Components /\ pc[Name(t)] = "none"
    BY <1>3, NamesTypes DEF Call, Calling, Allocated
  <2>2. ip' = ip
    BY <1>3 DEF Call
  <2>3. CASE CallFails(t)
    <3>1. pc'[p] = pc[p]
      BY <1>1, <2>3 DEF CallFails, TypeOK
    <3> QED BY <1>2, <2>2, <3>1 DEF Kept
  <2>4. CASE CallStarts(t)
    <3>1. CASE p = Name(t)
      <4>1. pc'[p] = "fetch"
        BY <1>1, <2>4, <3>1 DEF CallStarts, TypeOK
      <4> QED BY <1>2, <2>1, <3>1, <4>1 DEF Begins
    <3>2. CASE p # Name(t)
      <4>1. pc'[p] = pc[p]
        BY <1>1, <2>4, <3>2 DEF CallStarts, TypeOK
      <4> QED BY <1>2, <2>2, <4>1 DEF Kept
    <3> QED BY <3>1, <3>2
  <2> QED BY <1>2, <1>3, <2>3, <2>4 DEF Call
<1>4. ASSUME NEW u \in Components, Meet(t, u)
      PROVE  Kept(p) \/ Begins(p)
  <2>1. CASE p = u
    BY <1>1, <1>4, <2>1 DEF Meet, Begins, TypeOK
  <2>2. CASE p # u
    BY <1>1, <1>4, <2>2 DEF Meet, Kept, TypeOK
  <2> QED BY <2>1, <2>2
<1>5. CASE ~Call(t) /\ ~\E u \in Components : Meet(t, u)
  <2>1. pc'[p] = pc[p]
    BY <1>1, <1>5
       DEF Step, Fetch, Constructor, Stop, BehaviourJump, Fatal, Connect,
           ConnectOther, SetThreadId, Construct, Push, Reap, Join,
           DropJoined, FreeJoined, DropSelf, FreeSelf, Goto, Done, TypeOK
  <2>2. ip'[p] = ip[p]
    BY <1>1, <1>5
       DEF Step, Fetch, Constructor, Stop, BehaviourJump, Fatal, Connect,
           ConnectOther, SetThreadId, Construct, Push, Reap, Join,
           DropJoined, FreeJoined, DropSelf, FreeSelf, Done, TypeOK
  <2> QED BY <1>2, <2>1, <2>2 DEF Kept
<1> QED BY <1>2, <1>3, <1>4, <1>5

\* Nothing follows the end of a thread.
LEMMA EndedStays ==
  ASSUME TypeInv, Allocated, NEW t \in Components, Step(t),
         NEW x \in Components, pc[x] = "ended"
  PROVE  pc'[x] = "ended"
<1>1. x # t
  BY DEF Step, Fetch, Constructor, Stop, BehaviourJump, Fatal, Connect,
         ConnectOther, Meet, Call, SetThreadId, Construct, Push, Reap, Join,
         DropJoined, FreeJoined, DropSelf, FreeSelf
<1> QED BY <1>1, OthersKept DEF Kept, Begins

\* What another thread has to wait for stays that.
LEMMA OthersWait ==
  ASSUME EndInv, NEW t \in Components, Step(t),
         NEW p \in Components \ {t}, NEW x, WaitedFor(p, x)
  PROVE  WaitedFor(p, x)'
BY OthersKept DEF EndInv, Kept, Begins, WaitedFor, InWaitList, BeingCalled, BeingJoined, Name, Instruction

\* The thread that steps moves a component on towards its join.
LEMMA OwnWait ==
  ASSUME EndInv, NEW t \in Components, Step(t),
         NEW x \in Components, WaitedFor(t, x), pc[x] # "ended"
  PROVE  WaitedFor(t, x)'
<1>1. TypeOK
  BY DEF EndInv, TypeInv
<1>2. wait[t] \in Seq(Components)
  BY <1>1 DEF TypeOK
<1>3. CASE Push(t)
  <2>1. Name(t) \in Components
    BY <1>3, NamesTypes DEF Push, Calling, EndInv
  <2>2. wait'[t] = <<Name(t)>> \o wait[t]
    BY <1>1, <1>3 DEF Push, TypeOK
  <2>3. CASE InWaitList(t, x)
    <3>1. PICK i \in DOMAIN wait[t] : wait[t][i] = x
      BY <2>3 DEF InWaitList
    <3>2. i + 1 \in DOMAIN wait'[t] /\ wait'[t][i + 1] = x
      BY <1>2, <2>1, <2>2, <3>1
    <3> QED BY <3>2 DEF WaitedFor, InWaitList
  <2>4. CASE Name(t) = x
    <3>1. 1 \in DOMAIN wait'[t] /\ wait'[t][1] = x
      BY <1>2, <2>1, <2>2, <2>4
    <3> QED BY <3>1 DEF WaitedFor, InWaitList
  <2> QED BY <1>3, <2>3, <2>4 DEF Push, WaitedFor, BeingCalled, BeingJoined
<1>4. CASE Reap(t)
  <2>1. PICK i \in DOMAIN wait[t] : wait[t][i] = x
    BY <1>4 DEF Reap, WaitedFor, InWaitList, BeingCalled, BeingJoined
  <2>2. wait[t] # << >>
    BY <1>2, <2>1
  <2>3. /\ pc'[t] = "join" /\ wait'[t] = Tail(wait[t])
        /\ joining'[t] = Head(wait[t])
    BY <1>1, <1>4, <2>2 DEF Reap, Goto, TypeOK
  <2>4. CASE i = 1
    BY <1>2, <2>1, <2>3, <2>4 DEF WaitedFor, BeingJoined
  <2>5. CASE i # 1
    <3>1. i - 1 \in DOMAIN wait'[t] /\ wait'[t][i - 1] = x
      BY <1>2, <2>1, <2>2, <2>3, <2>5
    <3> QED BY <3>1 DEF WaitedFor, InWaitList
  <2> QED BY <2>4, <2>5
<1>5. CASE SetThreadId(t) \/ Construct(t)
  BY <1>1, <1>5 DEF SetThreadId, Construct, Goto, WaitedFor, InWaitList,
                    BeingCalled, BeingJoined, Name, Instruction, waits, TypeOK
<1>6. CASE ~Push(t) /\ ~Reap(t) /\ ~SetThreadId(t) /\ ~Construct(t)
  <2>1. wait' = wait
    BY <1>6 DEF Step, Fetch, Constructor, Stop, BehaviourJump, Fatal, Connect,
         ConnectOther, Meet, Call, Join, DropJoined, FreeJoined, DropSelf,
         FreeSelf, waits
  <2>2. ~BeingCalled(t, x) /\ ~BeingJoined(t, x)
    BY <1>6 DEF Step, Fetch, Constructor, Stop, BehaviourJump, Fatal, Connect,
         ConnectOther, Meet, Call, Join, DropJoined, FreeJoined, DropSelf,
         FreeSelf, BeingCalled, BeingJoined
  <2> QED BY <2>1, <2>2 DEF WaitedFor, InWaitList
<1> QED BY <1>3, <1>4, <1>5, <1>6

\* No started component is forgotten.
LEMMA AccountedStep ==
  ASSUME Missing = {}, EndInv, NEW t \in Components, Step(t)
  PROVE  Accounted'
<1>1. TypeOK
  BY DEF EndInv, TypeInv
<1> SUFFICES ASSUME NEW x \in Components, (starter[x] # NULL)', (pc[x] # "ended")'
             PROVE  WaitedFor(starter[x], x)'
  BY DEF Accounted
<1>2. pc[x] # "ended"
  BY EndedStays DEF EndInv
<1>5. ASSUME NEW p \in Components, p = starter'[x], WaitedFor(p, x)'
      PROVE  WaitedFor(starter[x], x)'
  BY <1>5 DEF WaitedFor, InWaitList, BeingCalled, BeingJoined, Name, Instruction
<1>3. CASE starter'[x] = starter[x]
  <2>1. PICK p \in Components : p = starter[x]
    BY <1>1, <1>3 DEF TypeOK
  <2>2. WaitedFor(p, x)
    BY <1>2, <1>3, <2>1 DEF EndInv, Accounted
  <2>3. WaitedFor(p, x)'
    BY <1>2, <2>2, OthersWait, OwnWait
  <2> QED BY <1>3, <1>5, <2>1, <2>3
<1>4. CASE starter'[x] # starter[x]
  <2>1. CallStarts(t) /\ pc[t] = "call" /\ ip' = ip
    BY <1>4 DEF Step, Fetch, Constructor, Stop, BehaviourJump, Fatal, Connect,
         ConnectOther, Meet, Call, CallFails, SetThreadId, Construct, Push, Reap,
         Join, DropJoined, FreeJoined, DropSelf, FreeSelf
  <2>2. Name(t) = x /\ starter'[x] = t
    BY <1>1, <1>4, <2>1 DEF CallStarts, TypeOK
  <2>3. pc[x] = "none" /\ x # t
    BY <1>4, <2>1, <2>2
       DEF Step, Fetch, Constructor, Stop, BehaviourJump, Fatal, Connect,
           ConnectOther, Meet, Call, SetThreadId, Construct, Push, Reap,
           Join, DropJoined, FreeJoined, DropSelf, FreeSelf, EndInv, Allocated
  <2>4. pc'[t] = "setThreadId"
    BY <1>1, <2>1, <2>2, <2>3 DEF CallStarts, TypeOK
  <2>5. Name(t)' = x
    BY <2>1, <2>2 DEF Name, Instruction
  <2>6. WaitedFor(t, x)'
    BY <2>4, <2>5 DEF WaitedFor, BeingCalled
  <2> QED BY <1>5, <2>2, <2>6
<1> QED BY <1>3, <1>4

\* Only an empty list ends the waiting.
LEMMA ReapedStep ==
  ASSUME Missing = {}, EndInv, NEW t \in Components, Step(t)
  PROVE  Reaped'
<1>1. TypeOK
  BY DEF EndInv, TypeInv
<1>2. ASSUME NEW p \in Components \ {t}, pc'[p] \in Ending
      PROVE  wait'[p] = << >>
  BY <1>2, OthersKept DEF Kept, Begins, Ending, EndInv, Reaped
<1>3. ASSUME pc'[t] \in Ending PROVE wait'[t] = << >>
  <2>1. CASE Reap(t)
    BY <1>1, <1>3, <2>1 DEF Reap, Goto, TypeOK, Ending, waits
  <2>2. CASE DropSelf(t) \/ FreeSelf(t)
    BY <2>2 DEF DropSelf, FreeSelf, EndInv, Reaped, Ending, waits
  <2>3. CASE Fetch(t)
    <3>1. pc'[t] \in {"reap", "fatal"} \/ pc'[t] = Instruction(t).op
      BY <1>1, <2>3 DEF Fetch, Goto, TypeOK
    <3>4. ~(ip[t] > Len(Program[t])) => ip[t] \in 1..Len(Program[t])
      BY <1>1, LifecycleAssumption DEF TypeOK
    <3>2. ~(ip[t] > Len(Program[t])) => Instruction(t) \in Instructions
      BY <3>4, InstructionIn
    <3>3. ip[t] > Len(Program[t]) => pc'[t] = "reap"
      BY <1>1, <2>3 DEF Fetch, Goto, TypeOK
    <3> QED BY <1>3, <3>1, <3>2, <3>3 DEF Instructions, Ending
  <2>4. CASE Call(t)
    <3>1. CallStarts(t) /\ pc[t] = "call"
      BY <2>4 DEF Call
    <3>2. pc'[t] \in {"setThreadId", "fetch"}
      BY <1>1, <3>1 DEF CallStarts, TypeOK
    <3> QED BY <1>3, <3>2 DEF Ending
  <2>5. CASE ~Reap(t) /\ ~DropSelf(t) /\ ~FreeSelf(t) /\ ~Fetch(t) /\ ~Call(t)
    <3>1. pc'[t] \notin Ending
      BY <1>1, <2>5
         DEF Step, Constructor, Stop, BehaviourJump, Fatal, Connect,
             ConnectOther, Meet, SetThreadId, Construct, Push, Join,
             DropJoined, FreeJoined, Goto, Done, TypeOK, Ending
    <3> QED BY <1>3, <3>1
  <2> QED BY <2>1, <2>2, <2>3, <2>4, <2>5
<1> QED BY <1>2, <1>3 DEF Reaped

LEMMA EndInit == Init => EndInv
<1> SUFFICES ASSUME Init PROVE EndInv
  OBVIOUS
<1>1. Allocated /\ Accounted
  BY DEF Init, Allocated, Accounted
<1>2. Reaped
  BY DEF Init, Reaped, Ending
<1> QED BY <1>1, <1>2, TypeInit DEF EndInv

LEMMA EndNext ==
  ASSUME Missing = {}
  PROVE  EndInv /\ [Next]_vars => EndInv'
<1> SUFFICES ASSUME EndInv, [Next]_vars PROVE EndInv'
  OBVIOUS
<1>1. ASSUME NEW t \in Components, Step(t) PROVE EndInv'
  BY <1>1, TypeStep, AllocatedStep, AccountedStep, ReapedStep DEF EndInv
<1>2. CASE UNCHANGED <<pc, ip, flags, waits, starter, links, memory>>
           /\ exited' \in BOOLEAN
  BY <1>2 DEF EndInv, TypeInv, TypeOK, Placed, AtInstruction, Instruction,
              Allocated, Accounted, WaitedFor, InWaitList, BeingCalled,
              BeingJoined, Name, Reaped, flags, waits, memory
<1>3. CASE MainReturns
  BY <1>2, <1>3 DEF MainReturns
<1>4. CASE UNCHANGED vars
  BY <1>2, <1>4 DEF vars, EndInv, TypeInv, TypeOK
<1> QED BY <1>1, <1>3, <1>4 DEF Next, Gone

LEMMA EndInvImplies == EndInv => EndsLast
<1> SUFFICES ASSUME EndInv, NEW x \in Components, starter[x] # NULL,
                    pc[starter[x]] \in Ending, pc[x] # "ended"
             PROVE  FALSE
  BY DEF EndsLast, Ending
<1>1. starter[x] \in Components /\ wait[starter[x]] = << >>
  BY DEF EndInv, TypeInv, TypeOK, Reaped
<1>2. WaitedFor(starter[x], x)
  BY DEF EndInv, Accounted
<1> QED BY <1>1, <1>2
        DEF WaitedFor, InWaitList, BeingCalled, BeingJoined, Ending

\* A component that gives up its own reference, or has ended, started only
\* components that have ended: component_cleanUpAndStop empties the whole wait
\* list, on which component_call put every one of them.  A CALL whose file is
\* missing ends a thread without that, so there must be none.
THEOREM EndsLastAlways ==
  ASSUME Missing = {}
  PROVE  Spec => []EndsLast
<1>1. Init => EndInv
  BY EndInit
<1>2. EndInv /\ [Next]_vars => EndInv'
  BY EndNext
<1>3. EndInv => EndsLast
  BY EndInvImplies
<1> QED BY <1>1, <1>2, <1>3, PTL DEF Spec

-----------------------------------------------------------------------------
(***************************************************************************)
(* Reference counts.  A component object has two owners: its own thread,   *)
(* until it ends, and the thread that called it, from the construction of  *)
(* the typed object until it has joined the component.                     *)
(***************************************************************************)
Reaping == {"reap", "join", "dropJoined", "freeJoined"}

\* p, after Making y, has a reference to it, and has just given it up.
Holding(p, y) ==
  \/ InWaitList(p, y)
  \/ pc[p] = "push" /\ Name(p) = y
  \/ pc[p] \in {"join", "dropJoined"} /\ joining[p] = y
Releasing(p, y) == pc[p] = "freeJoined" /\ joining[p] = y

\* Every component but the main one has one starter, which runs or ran.
StartedOnce ==
  /\ pc[Main] # "none"
  /\ \A y \in Components :
       /\ starter[y] # NULL =>
            pc[y] # "none" /\ pc[starter[y]] # "none" /\ y # Main /\ starter[y] # y
       /\ pc[y] # "none" /\ y # Main => starter[y] # NULL

\* The wait list of p has each component once, and only those p started.
ListRight(p) ==
  /\ \A i \in DOMAIN wait[p] : starter[wait[p][i]] = p
  /\ \A i, j \in DOMAIN wait[p] : wait[p][i] = wait[p][j] => i = j
  /\ pc[p] \in {"setThreadId", "construct", "push"} =>
       starter[Name(p)] = p /\ ~InWaitList(p, Name(p))
  /\ pc[p] \in {"join", "dropJoined", "freeJoined"} =>
       /\ joining[p] \in Components
       /\ starter[joining[p]] = p /\ ~InWaitList(p, joining[p])
  /\ pc[p] \in {"dropJoined", "freeJoined"} => pc[joining[p]] = "ended"

\* Until it cleans up p has, or is about to have, a reference to each component
\* it started.
Remembers(p) ==
  pc[p] \notin Reaping \cup Ending =>
    \A y \in Components : starter[y] = p => Making(p, y) \/ Holding(p, y)

\* The names that an instruction is about to use were looked up.
LookedUp(p) ==
  /\ pc[p] = "stop" => Name(p) = p \/ (Name(p) \in Components /\ starter[Name(p)] = p)
  /\ pc[p] \in {"connect", "connectOther"} => starter[Name(p)] = p
  /\ pc[p] = "connectOther" => starter[Other(p)] = p

Own(y) == IF pc[y] \in {"none", "freeSelf", "ended"} THEN 0 ELSE 1
Held(y) == starter[y] # NULL /\ Holding(starter[y], y)
Theirs(y) == IF Held(y) THEN 1 ELSE 0

\* The count is the number of owners.  A CALL that fails ends a thread without
\* giving up its reference.
Counted(y) ==
  \/ refs[y] = Own(y) + Theirs(y)
  \/ CallFailed(y) /\ refs[y] = 1 + Theirs(y)

\* What is freed, nobody has or is about to have; what has ended is not freed
\* only while somebody has it.
FreedRight(y) ==
  /\ heap[y] = "live" => pc[y] # "none"
  /\ heap[y] = "freed" =>
       \/ pc[y] = "none"
       \/ /\ pc[y] = "ended"
          /\ starter[y] # NULL =>
               /\ ~Making(starter[y], y)
               /\ ~Holding(starter[y], y) /\ ~Releasing(starter[y], y)
  /\ heap[y] = "live" /\ pc[y] = "ended" =>
       \/ CallFailed(y)
       \/ starter[y] # NULL /\ (Holding(starter[y], y) \/ Releasing(starter[y], y))

RefsInv ==
  /\ TypeInv /\ Allocated /\ StartedOnce
  /\ \A p \in Components : ListRight(p) /\ Remembers(p) /\ LookedUp(p)
  /\ \A y \in Components : Counted(y) /\ FreedRight(y)

\* The names of the instructions under way are components.
NamesOf(p) ==
  /\ pc[p] \in Calling \cup {"connect", "connectOther"} => Name(p) \in Components
  /\ pc[p] = "connectOther" => Other(p) \in Components

LEMMA NamesKnown ==
  ASSUME TypeInv, NEW p \in Components
  PROVE  NamesOf(p)
BY NamesTypes DEF NamesOf

\* A component that is called has no thread yet, and no starter.
LEMMA CalledIsNew ==
  ASSUME RefsInv, NEW t \in Components, Call(t)
  PROVE  /\ Name(t) \in Components /\ Name(t) # t
         /\ pc[t] = "call" /\ pc[Name(t)] = "none"
         /\ heap[Name(t)] = "none" /\ starter[Name(t)] = NULL
         /\ ip' = ip /\ wait' = wait /\ joining' = joining
         /\ AtInstruction(t)
<1>1. pc[t] = "call" /\ heap[Name(t)] = "none" /\ Name(t) \in Components
  BY NamesTypes DEF Call, Calling, RefsInv
<1>2. AtInstruction(t)
  BY <1>1 DEF RefsInv, TypeInv, Placed, Calling
<1>3. pc[Name(t)] = "none" /\ starter[Name(t)] = NULL
  BY <1>1 DEF RefsInv, Allocated, StartedOnce
<1>4. ip' = ip /\ wait' = wait /\ joining' = joining
  BY DEF Call, waits
<1> QED BY <1>1, <1>2, <1>3, <1>4

LEMMA StarterStays ==
  ASSUME NEW t \in Components, Step(t), ~(Call(t) /\ CallStarts(t))
  PROVE  starter' = starter
BY DEF Step, Fetch, Constructor, Stop, BehaviourJump, Fatal, Connect,
       ConnectOther, Meet, Call, CallFails, SetThreadId, Construct, Push, Reap,
       Join, DropJoined, FreeJoined, DropSelf, FreeSelf

\* What another thread has of a component does not change.
LEMMA OthersHold ==
  ASSUME RefsInv, NEW t \in Components, Step(t), NEW p \in Components \ {t}
  PROVE  /\ \A y : /\ InWaitList(p, y)' = InWaitList(p, y)
                   /\ Making(p, y)' = Making(p, y)
                   /\ Holding(p, y)' = Holding(p, y)
                   /\ Releasing(p, y)' = Releasing(p, y)
         /\ \A y \in Components : starter'[y] = p <=> starter[y] = p
<1>0. TypeInv /\ Allocated
  BY DEF RefsInv
<1>1. wait'[p] = wait[p] /\ joining'[p] = joining[p] /\ (Kept(p) \/ Begins(p))
  BY <1>0, OthersKept
<1>2. ASSUME NEW y
      PROVE  /\ InWaitList(p, y)' = InWaitList(p, y)
             /\ Making(p, y)' = Making(p, y)
             /\ Holding(p, y)' = Holding(p, y)
             /\ Releasing(p, y)' = Releasing(p, y)
  <2>1. InWaitList(p, y)' = InWaitList(p, y)
    BY <1>1 DEF InWaitList
  <2>2. CASE Kept(p)
    BY <1>1, <2>1, <2>2 DEF Kept, Making, Holding, Releasing, Name, Instruction
  <2>3. CASE Begins(p)
    BY <1>1, <2>1, <2>3 DEF Begins, Making, Holding, Releasing
  <2> QED BY <1>1, <2>1, <2>2, <2>3
<1>3. ASSUME NEW y \in Components PROVE starter'[y] = p <=> starter[y] = p
  <2>1. CASE Call(t) /\ CallStarts(t)
    <3>1. starter[Name(t)] = NULL
      BY <2>1, CalledIsNew
    <3> QED BY <2>1, <3>1, LifecycleAssumption
            DEF CallStarts, RefsInv, TypeInv, TypeOK
  <2>2. CASE ~(Call(t) /\ CallStarts(t))
    BY <2>2, StarterStays
  <2> QED BY <2>1, <2>2
<1> QED BY <1>2, <1>3

\* So what is right about another thread stays right.
LEMMA OthersRight ==
  ASSUME RefsInv, NEW t \in Components, Step(t), NEW p \in Components \ {t}
  PROVE  (ListRight(p) /\ Remembers(p) /\ LookedUp(p))'
<1>0. /\ TypeInv /\ Allocated /\ TypeOK
      /\ ListRight(p) /\ Remembers(p) /\ LookedUp(p)
  BY DEF RefsInv, TypeInv
<1>1. wait'[p] = wait[p] /\ joining'[p] = joining[p] /\ (Kept(p) \/ Begins(p))
  BY <1>0, OthersKept
<1>2. /\ \A y : /\ InWaitList(p, y)' = InWaitList(p, y)
                /\ Making(p, y)' = Making(p, y)
                /\ Holding(p, y)' = Holding(p, y)
      /\ \A y \in Components : starter'[y] = p <=> starter[y] = p
  BY OthersHold
<1>3. \A x \in Components : pc[x] = "ended" => pc'[x] = "ended"
  BY <1>0, EndedStays
<1>4. \A i \in DOMAIN wait[p] : wait[p][i] \in Components
  BY <1>0 DEF TypeOK
<1>5. NamesOf(p)
  BY <1>0, NamesKnown
<1>6. ListRight(p)'
  <2>1. \A i \in DOMAIN wait'[p] : starter'[wait'[p][i]] = p
    BY <1>0, <1>1, <1>2, <1>4 DEF ListRight
  <2>2. \A i, j \in DOMAIN wait'[p] : wait'[p][i] = wait'[p][j] => i = j
    BY <1>0, <1>1 DEF ListRight
  <2>3. CASE Kept(p)
    <3>1. pc'[p] = pc[p] /\ Name(p)' = Name(p)
      BY <2>3 DEF Kept, Name, Instruction
    <3>2. pc[p] \in {"setThreadId", "construct", "push"} =>
            starter'[Name(p)] = p /\ \A i \in DOMAIN wait'[p] : wait'[p][i] # Name(p)
      BY <1>0, <1>1, <1>2, <1>5 DEF ListRight, NamesOf, Calling, InWaitList
    <3>3. pc[p] \in {"join", "dropJoined", "freeJoined"} =>
            /\ joining[p] \in Components
            /\ starter'[joining[p]] = p
            /\ \A i \in DOMAIN wait'[p] : wait'[p][i] # joining[p]
      BY <1>0, <1>1, <1>2 DEF ListRight, InWaitList
    <3>4. pc[p] \in {"dropJoined", "freeJoined"} => pc'[joining[p]] = "ended"
      BY <1>0, <1>3 DEF ListRight
    <3> QED BY <1>1, <2>1, <2>2, <3>1, <3>2, <3>3, <3>4 DEF ListRight, InWaitList
  <2>4. CASE Begins(p)
    BY <2>1, <2>2, <2>4 DEF Begins, ListRight
  <2> QED BY <1>1, <2>3, <2>4
<1>7. Remembers(p)'
  BY <1>0, <1>1, <1>2 DEF Remembers, Kept, Begins, Reaping, Ending
<1>8. LookedUp(p)'
  <2>1. CASE Kept(p)
    <3>1. pc'[p] = pc[p] /\ Name(p)' = Name(p) /\ Other(p)' = Other(p)
      BY <2>1 DEF Kept, Name, Other, Instruction
    <3> QED BY <1>0, <1>2, <1>5, <3>1 DEF LookedUp, NamesOf
  <2>2. CASE Begins(p)
    BY <2>2 DEF Begins, LookedUp
  <2> QED BY <1>1, <2>1, <2>2
<1> QED BY <1>6, <1>7, <1>8

-----------------------------------------------------------------------------
(***************************************************************************)
(* An object that a step leaves alone.                                     *)
(***************************************************************************)
\* A thread that has ended, or has not begun, or is at its last step.
Still == {"none", "freeSelf", "ended"}

SameHold(p, y) ==
  /\ Making(p, y)' = Making(p, y)
  /\ Holding(p, y)' = Holding(p, y)
  /\ Releasing(p, y)' = Releasing(p, y)

LEMMA EndedRemains ==
  ASSUME RefsInv, NEW t \in Components, Step(t),
         NEW x \in Components, pc[x] = "ended"
  PROVE  x # t /\ pc'[x] = "ended" /\ CallFailed(x)' = CallFailed(x)
<1>1. x # t
  BY DEF Step, Fetch, Constructor, Stop, BehaviourJump, Fatal, Connect,
         ConnectOther, Meet, Call, SetThreadId, Construct, Push, Reap, Join,
         DropJoined, FreeJoined, DropSelf, FreeSelf
<1>2. Kept(x)
  BY <1>1, OthersKept DEF RefsInv, Begins
<1> QED BY <1>1, <1>2 DEF Kept, CallFailed, Instruction

LEMMA ObjectKept ==
  ASSUME RefsInv, NEW t \in Components, Step(t), NEW y \in Components,
         refs'[y] = refs[y], heap'[y] = heap[y], starter'[y] = starter[y],
         pc'[y] = pc[y] \/ (pc[y] \notin Still /\ pc'[y] \notin Still),
         starter[y] = t => SameHold(t, y)
  PROVE  (Counted(y) /\ FreedRight(y))'
<1>1. Counted(y) /\ FreedRight(y) /\ TypeOK
  BY DEF RefsInv, TypeInv
<1>2. PICK p : p = starter[y]
  OBVIOUS
<1>3. p # NULL => SameHold(p, y)
  BY <1>1, <1>2, OthersHold DEF TypeOK, SameHold
<1>4. pc[y] = "ended" => CallFailed(y)' = CallFailed(y)
  BY EndedRemains
<1>5. Held(y)' = Held(y)
  BY <1>2, <1>3 DEF Held, SameHold, Holding, InWaitList, Name, Instruction
<1>6. Own(y)' = Own(y) /\ Theirs(y)' = Theirs(y)
  BY <1>5 DEF Own, Theirs, Still
<1>7. Counted(y)'
  BY <1>1, <1>4, <1>6 DEF Counted, CallFailed, Still
<1>8. FreedRight(y)'
  <2>1. CASE p = NULL
    BY <1>1, <1>2, <1>4, <2>1 DEF FreedRight, Still
  <2>2. CASE p # NULL
    <3>1. /\ Making(starter[y], y)' = Making(starter[y], y)
          /\ Holding(starter[y], y)' = Holding(starter[y], y)
          /\ Releasing(starter[y], y)' = Releasing(starter[y], y)
      BY <1>2, <1>3, <2>2
         DEF SameHold, Making, Holding, Releasing, InWaitList, Name, Instruction
    <3> QED BY <1>1, <1>4, <3>1 DEF FreedRight, Still
  <2> QED BY <2>1, <2>2
<1> QED BY <1>7, <1>8

\* A thread that takes a step is there, and stays.
LEMMA NeverNone ==
  ASSUME TypeInv, NEW t \in Components, Step(t)
  PROVE  pc[t] # "none" /\ pc'[t] # "none"
<1>1. TypeOK
  BY DEF TypeInv
<1>2. CASE Fetch(t)
  <2>1. pc'[t] \in {"reap", "fatal"} \/ pc'[t] = Instruction(t).op
    BY <1>1, <1>2 DEF Fetch, Goto, TypeOK
  <2>2. ip[t] > Len(Program[t]) => pc'[t] = "reap"
    BY <1>1, <1>2 DEF Fetch, Goto, TypeOK
  <2>3. ~(ip[t] > Len(Program[t])) => ip[t] \in 1..Len(Program[t])
    BY <1>1, LifecycleAssumption DEF TypeOK
  <2>4. ~(ip[t] > Len(Program[t])) => Instruction(t) \in Instructions
    BY <2>3, InstructionIn
  <2> QED BY <1>2, <2>1, <2>2, <2>4 DEF Instructions, Fetch
<1>3. CASE Call(t)
  <2>1. pc[t] = "call" /\ pc'[t] \in {"ended", "setThreadId", "fetch"}
    BY <1>1, <1>3 DEF Call, CallFails, CallStarts, TypeOK
  <2> QED BY <2>1
<1>4. CASE ~Fetch(t) /\ ~Call(t)
  BY <1>1, <1>4
     DEF Step, Constructor, Stop, BehaviourJump, Fatal, Connect, ConnectOther,
         Meet, SetThreadId, Construct, Push, Reap, Join, DropJoined, FreeJoined,
         DropSelf, FreeSelf, Goto, Done, TypeOK
<1> QED BY <1>2, <1>3, <1>4

\* Where nobody is started, nobody's starter changes.
LEMMA StartedOnceKept ==
  ASSUME RefsInv, NEW t \in Components, Step(t), starter' = starter
  PROVE  StartedOnce'
<1>1. TypeInv /\ Allocated /\ TypeOK /\ StartedOnce
  BY DEF RefsInv, TypeInv
<1>2. ASSUME NEW x \in Components PROVE pc'[x] = "none" <=> pc[x] = "none"
  <2>1. CASE x = t
    <3>1. pc[t] # "none" /\ (pc'[t] # "none")
      BY <1>1, NeverNone
    <3> QED BY <2>1, <3>1
  <2>2. CASE x # t
    <3>1. Kept(x) \/ Begins(x)
      BY <1>1, <2>2, OthersKept
    <3>2. CASE Kept(x)
      BY <3>2 DEF Kept
    <3>3. CASE Begins(x) /\ pc[x] = "none"
      <4>1. starter[x] = NULL
        BY <1>1, <3>3 DEF StartedOnce
      <4>2. Call(t) /\ CallStarts(t) /\ Name(t) = x
        BY <1>1, <2>2, <3>3
           DEF Begins, Step, Fetch, Constructor, Stop, BehaviourJump, Fatal, Connect,
               ConnectOther, Meet, Call, CallFails, CallStarts, SetThreadId, Construct,
               Push, Reap, Join, DropJoined, FreeJoined, DropSelf, FreeSelf,
               Goto, Done, TypeOK
      <4> QED BY <1>1, <4>1, <4>2, LifecycleAssumption DEF CallStarts, TypeOK
    <3>4. CASE Begins(x) /\ pc[x] # "none"
      BY <3>4 DEF Begins
    <3> QED BY <3>1, <3>2, <3>3, <3>4
  <2> QED BY <2>1, <2>2
<1> QED BY <1>1, <1>2, LifecycleAssumption DEF StartedOnce, TypeOK

-----------------------------------------------------------------------------
(***************************************************************************)
(* The steps that count nothing.                                           *)
(***************************************************************************)
RunSteps == {"fetch", "constructor", "send", "receive", "fatal", "stop", "jump",
             "connect", "connectOther"}

Runs(t) ==
  \/ Fetch(t) \/ Constructor(t) \/ Stop(t) \/ BehaviourJump(t) \/ Fatal(t)
  \/ Connect(t) \/ ConnectOther(t) \/ \E u \in Components : Meet(t, u)

\* Where fetching goes, and what it has looked up.
LEMMA FetchGoes ==
  ASSUME TypeInv, NEW t \in Components, Fetch(t)
  PROVE  /\ pc'[t] \in RunSteps \cup {"call", "reap"}
         /\ ip' = ip /\ starter' = starter
         /\ pc'[t] \notin {"connectOther", "fetch"}
         /\ pc'[t] = "stop" =>
              Name(t) = t \/ (Name(t) \in Components /\ starter[Name(t)] = t)
         /\ pc'[t] = "connect" => starter[Name(t)] = t
<1>1. TypeOK /\ ip' = ip /\ starter' = starter
  BY DEF TypeInv, Fetch
<1>2. CASE Goto(t, "reap") \/ Goto(t, "fatal")
  BY <1>1, <1>2 DEF Goto, TypeOK, RunSteps
<1>3. CASE /\ ~(ip[t] > Len(Program[t])) /\ Resolves(t)
           /\ Goto(t, Instruction(t).op)
  <2>1. ip[t] \in 1..Len(Program[t])
    BY <1>1, <1>3, LifecycleAssumption DEF TypeOK
  <2>2. Instruction(t) \in Instructions /\ pc'[t] = Instruction(t).op
    BY <1>1, <1>3, <2>1, InstructionIn DEF Goto, TypeOK
  <2>3. pc'[t] \in RunSteps \cup {"call"} /\ pc'[t] \notin {"connectOther", "fetch"}
    BY <2>2 DEF Instructions, RunSteps
  <2>4. Instruction(t).op \in {"stop", "connect"} => Name(t) \in Components
    BY <2>2, InstructionTypes DEF Name
  <2>5. pc'[t] = "stop" => Name(t) = t \/ starter[Name(t)] = t
    BY <1>3, <2>2 DEF Resolves, InScope
  <2>6. pc'[t] = "connect" => starter[Name(t)] = t
    BY <1>3, <2>2 DEF Resolves, InScope
  <2> QED BY <1>1, <2>2, <2>3, <2>4, <2>5, <2>6
<1> QED BY <1>2, <1>3 DEF Fetch

LEMMA RunGoes ==
  ASSUME TypeInv, NEW t \in Components, Runs(t)
  PROVE  /\ pc[t] \in RunSteps /\ pc'[t] \in RunSteps \cup {"call", "reap"}
         /\ UNCHANGED <<wait, joining, starter, refs, heap>>
<1>1. TypeOK
  BY DEF TypeInv
<1>2. UNCHANGED <<wait, joining, starter, refs, heap>>
  BY DEF Runs, Fetch, Constructor, Stop, BehaviourJump, Fatal, Connect,
         ConnectOther, Meet, waits, memory
<1>3. CASE Fetch(t)
  BY <1>2, <1>3, FetchGoes DEF Fetch, RunSteps
<1>4. CASE ~Fetch(t)
  BY <1>1, <1>2, <1>4
     DEF Runs, Constructor, Stop, BehaviourJump, Fatal, Connect, ConnectOther,
         Meet, Goto, Done, TypeOK, RunSteps
<1> QED BY <1>3, <1>4

\* They leave what the thread has of other components.
LEMMA RunHolds ==
  ASSUME TypeInv, NEW t \in Components, Runs(t), NEW y
  PROVE  SameHold(t, y)
<1>1. /\ pc[t] \in RunSteps /\ pc'[t] \in RunSteps \cup {"call", "reap"}
      /\ wait' = wait
  BY RunGoes
<1> QED BY <1>1 DEF SameHold, Making, Holding, Releasing, InWaitList, RunSteps

LEMMA RunRight ==
  ASSUME RefsInv, NEW t \in Components, Step(t), Runs(t)
  PROVE  RefsInv'
<1>1. TypeInv /\ Allocated /\ TypeOK
  BY DEF RefsInv, TypeInv
<1>2. /\ pc[t] \in RunSteps /\ pc'[t] \in RunSteps \cup {"call", "reap"}
      /\ wait' = wait /\ joining' = joining /\ starter' = starter
      /\ refs' = refs /\ heap' = heap
  BY <1>1, RunGoes
<1>3. (TypeInv /\ Allocated /\ StartedOnce)'
  BY <1>1, <1>2, TypeStep, AllocatedStep, StartedOnceKept
<1>4. ListRight(t)'
  BY <1>2 DEF RefsInv, ListRight, RunSteps
<1>5. Remembers(t)'
  <2>1. \A y : SameHold(t, y)
    BY <1>1, RunHolds
  <2>2. \A y \in Components : starter[y] = t => Making(t, y) \/ Holding(t, y)
    BY <1>2 DEF RefsInv, Remembers, RunSteps, Reaping, Ending
  <2> QED BY <1>2, <2>1, <2>2 DEF Remembers, SameHold
<1>6. LookedUp(t)'
  <2>1. CASE Fetch(t)
    <3>1. Name(t)' = Name(t)
      BY <1>1, <2>1, FetchGoes DEF Name, Instruction
    <3> QED BY <1>1, <2>1, <3>1, FetchGoes DEF LookedUp
  <2>2. CASE Connect(t)
    <3>1. /\ pc[t] = "connect" /\ ip' = ip
          /\ pc'[t] \in {"connectOther", "fatal"}
          /\ pc'[t] = "connectOther" => starter[Other(t)] = t
      BY <1>1, <2>2 DEF Connect, Goto, TypeOK, InScope
    <3>2. Name(t)' = Name(t) /\ Other(t)' = Other(t)
      BY <3>1 DEF Name, Other, Instruction
    <3> QED BY <1>2, <3>1, <3>2 DEF RefsInv, LookedUp
  <2>3. CASE ~Fetch(t) /\ ~Connect(t)
    <3>1. pc'[t] \in {"fetch", "reap"}
      BY <1>1, <2>3
         DEF Runs, Constructor, Stop, BehaviourJump, Fatal, ConnectOther, Meet,
             Goto, Done, TypeOK
    <3> QED BY <3>1 DEF LookedUp
  <2> QED BY <2>1, <2>2, <2>3
<1>7. ASSUME NEW y \in Components PROVE (Counted(y) /\ FreedRight(y))'
  <2>1. pc'[y] = pc[y] \/ (pc[y] \notin Still /\ pc'[y] \notin Still)
    <3>1. CASE y = t
      BY <1>2, <3>1 DEF RunSteps, Still
    <3>2. CASE y # t
      <4>1. Kept(y) \/ Begins(y)
        BY <1>1, <3>2, OthersKept
      <4>2. pc[y] = "none" => pc'[y] = "none"
        BY <1>1, <3>2
           DEF Runs, Fetch, Constructor, Stop, BehaviourJump, Fatal, Connect,
               ConnectOther, Meet, Goto, Done, TypeOK
      <4> QED BY <4>1, <4>2 DEF Kept, Begins, Still
    <3> QED BY <3>1, <3>2
  <2> QED BY <1>1, <1>2, <2>1, ObjectKept, RunHolds
<1> QED BY <1>3, <1>4, <1>5, <1>6, <1>7, OthersRight DEF RefsInv

\* The steps in which nothing but the place of the thread and its list change.
LEMMA ListStepRight ==
  ASSUME RefsInv, NEW t \in Components, Step(t),
         SetThreadId(t) \/ Push(t) \/ Reap(t) \/ Join(t)
  PROVE  RefsInv'
<1>1. /\ TypeInv /\ Allocated /\ TypeOK
      /\ ListRight(t) /\ Remembers(t) /\ LookedUp(t)
  BY DEF RefsInv, TypeInv
<1>2. starter' = starter /\ refs' = refs /\ heap' = heap
  BY DEF SetThreadId, Push, Reap, Join, memory
<1>3. (TypeInv /\ Allocated /\ StartedOnce)'
  BY <1>1, <1>2, TypeStep, AllocatedStep, StartedOnceKept
<1>4. wait[t] \in Seq(Components)
  BY <1>1 DEF TypeOK
<1>5. /\ \A y \in Components : y # t => pc'[y] = pc[y]
      /\ pc[t] \notin Still \cup {"stop", "connect", "connectOther", "ended"}
      /\ LookedUp(t)'
  BY <1>1 DEF SetThreadId, Push, Reap, Join, Goto, Done, TypeOK, Still, LookedUp
<1>6. \A y \in Components : pc[y] = "ended" => pc'[y] = "ended"
  BY <1>1, EndedStays
<1>7. CASE SetThreadId(t)
  <2>1. /\ pc[t] = "setThreadId" /\ pc'[t] = "construct"
        /\ wait' = wait /\ joining' = joining /\ Name(t)' = Name(t)
    BY <1>1, <1>7 DEF SetThreadId, Goto, TypeOK, waits, Name, Instruction
  <2>2. \A y : SameHold(t, y)
    BY <2>1 DEF SameHold, Making, Holding, Releasing, InWaitList
  <2>3. ListRight(t)'
    BY <1>1, <1>2, <2>1 DEF ListRight, InWaitList
  <2>4. Remembers(t)'
    BY <1>1, <1>2, <2>1, <2>2 DEF Remembers, SameHold, Reaping, Ending
  <2>5. \A y \in Components : (Counted(y) /\ FreedRight(y))'
    BY <1>2, <1>5, <2>1, <2>2, ObjectKept DEF Still
  <2> QED BY <1>3, <1>5, <2>3, <2>4, <2>5, OthersRight DEF RefsInv
<1>8. CASE Push(t)
  <2>1. /\ pc[t] = "push" /\ pc'[t] = "fetch" /\ joining' = joining
        /\ Name(t) \in Components /\ wait'[t] = <<Name(t)>> \o wait[t]
    BY <1>1, <1>8, NamesTypes DEF Push, Done, Goto, TypeOK, Calling
  <2>2. /\ DOMAIN wait'[t] = 1 .. Len(wait[t]) + 1 /\ wait'[t][1] = Name(t)
        /\ DOMAIN wait[t] = 1 .. Len(wait[t]) /\ Len(wait[t]) \in Nat
        /\ \A i \in 1 .. Len(wait[t]) : wait'[t][i + 1] = wait[t][i]
    BY <1>4, <2>1
  <2>3. ASSUME NEW i \in DOMAIN wait'[t], i # 1
        PROVE  i - 1 \in DOMAIN wait[t] /\ wait'[t][i] = wait[t][i - 1]
    <3>1. i - 1 \in 1 .. Len(wait[t]) /\ (i - 1) + 1 = i
      BY <2>2, <2>3
    <3>2. wait'[t][(i - 1) + 1] = wait[t][i - 1]
      BY <2>2, <3>1
    <3> QED BY <2>2, <3>1, <3>2
  <2>4. ASSUME NEW y PROVE SameHold(t, y)
    <3>1. InWaitList(t, y)' <=> InWaitList(t, y) \/ Name(t) = y
      <4>1. ASSUME InWaitList(t, y) PROVE InWaitList(t, y)'
        <5>1. PICK i \in DOMAIN wait[t] : wait[t][i] = y
          BY <4>1 DEF InWaitList
        <5>2. i + 1 \in DOMAIN wait'[t] /\ wait'[t][i + 1] = y
          BY <2>2, <5>1
        <5> QED BY <5>2 DEF InWaitList
      <4>2. ASSUME Name(t) = y PROVE InWaitList(t, y)'
        <5>1. 1 \in DOMAIN wait'[t]
          BY <2>2
        <5> QED BY <2>2, <4>2, <5>1 DEF InWaitList
      <4>3. ASSUME InWaitList(t, y)' PROVE InWaitList(t, y) \/ Name(t) = y
        BY <2>2, <2>3, <4>3 DEF InWaitList
      <4> QED BY <4>1, <4>2, <4>3
    <3> QED BY <2>1, <3>1 DEF SameHold, Making, Holding, Releasing
  <2>5. ListRight(t)'
    <3>1. \A i \in DOMAIN wait'[t] : starter'[wait'[t][i]] = t
      BY <1>1, <1>2, <2>1, <2>2, <2>3 DEF ListRight
    <3>2. ASSUME NEW i \in DOMAIN wait'[t], NEW j \in DOMAIN wait'[t],
                 wait'[t][i] = wait'[t][j]
          PROVE  i = j
      <4>1. \A k \in DOMAIN wait[t] : wait[t][k] # Name(t)
        BY <1>1, <2>1 DEF ListRight, InWaitList
      <4>2. CASE i = 1 \/ j = 1
        <5>1. \A k \in DOMAIN wait'[t] : k # 1 => wait'[t][k] # Name(t)
          BY <2>3, <4>1
        <5> QED BY <2>2, <3>2, <4>2, <5>1
      <4>3. CASE i # 1 /\ j # 1
        <5>1. i - 1 = j - 1
          BY <1>1, <2>3, <3>2, <4>3 DEF ListRight
        <5> QED BY <2>2, <5>1
      <4> QED BY <4>2, <4>3
    <3> QED BY <2>1, <3>1, <3>2 DEF ListRight
  <2>6. Remembers(t)'
    BY <1>1, <1>2, <2>1, <2>4 DEF Remembers, SameHold, Reaping, Ending
  <2>7. \A y \in Components : (Counted(y) /\ FreedRight(y))'
    BY <1>2, <1>5, <2>1, <2>4, ObjectKept DEF Still
  <2> QED BY <1>3, <1>5, <2>5, <2>6, <2>7, OthersRight DEF RefsInv
<1>9. CASE Reap(t) /\ wait[t] = << >>
  <2>1. /\ pc[t] = "reap" /\ pc'[t] = "dropSelf"
        /\ wait' = wait /\ joining' = joining
    BY <1>1, <1>9 DEF Reap, Goto, TypeOK, waits
  <2>2. \A y : SameHold(t, y)
    BY <2>1 DEF SameHold, Making, Holding, Releasing, InWaitList
  <2>3. ListRight(t)'
    BY <1>1, <1>2, <2>1 DEF ListRight
  <2>4. Remembers(t)'
    BY <2>1 DEF Remembers, Ending
  <2>5. \A y \in Components : (Counted(y) /\ FreedRight(y))'
    BY <1>2, <1>5, <2>1, <2>2, ObjectKept DEF Still
  <2> QED BY <1>3, <1>5, <2>3, <2>4, <2>5, OthersRight DEF RefsInv
<1>10. CASE Reap(t) /\ wait[t] # << >>
  <2>1. /\ pc[t] = "reap" /\ pc'[t] = "join"
        /\ wait'[t] = Tail(wait[t]) /\ joining'[t] = Head(wait[t])
    BY <1>1, <1>10 DEF Reap, Goto, TypeOK
  <2>2. /\ DOMAIN wait[t] = 1 .. Len(wait[t]) /\ Len(wait[t]) \in Nat \ {0}
        /\ DOMAIN wait'[t] = 1 .. Len(wait[t]) - 1
        /\ joining'[t] = wait[t][1] /\ joining'[t] \in Components
        /\ \A i \in 1 .. Len(wait[t]) - 1 : wait'[t][i] = wait[t][i + 1]
    BY <1>4, <1>10, <2>1
  <2>3. \A i \in DOMAIN wait'[t] : i + 1 \in DOMAIN wait[t] /\ i + 1 # 1
    BY <2>2
  <2>4. ASSUME NEW y PROVE SameHold(t, y)
    <3>1. InWaitList(t, y) <=> InWaitList(t, y)' \/ joining'[t] = y
      <4>1. ASSUME InWaitList(t, y), joining'[t] # y PROVE InWaitList(t, y)'
        <5>1. PICK i \in DOMAIN wait[t] : wait[t][i] = y
          BY <4>1 DEF InWaitList
        <5>2. i - 1 \in 1 .. Len(wait[t]) - 1 /\ (i - 1) + 1 = i
          BY <2>2, <4>1, <5>1
        <5>3. i - 1 \in DOMAIN wait'[t] /\ wait'[t][i - 1] = y
          BY <2>2, <5>1, <5>2
        <5> QED BY <5>3 DEF InWaitList
      <4>2. ASSUME joining'[t] = y PROVE InWaitList(t, y)
        <5>1. 1 \in DOMAIN wait[t]
          BY <2>2
        <5> QED BY <2>2, <4>2, <5>1 DEF InWaitList
      <4>3. ASSUME InWaitList(t, y)' PROVE InWaitList(t, y)
        BY <2>2, <2>3, <4>3 DEF InWaitList
      <4> QED BY <4>1, <4>2, <4>3
    <3> QED BY <2>1, <3>1 DEF SameHold, Making, Holding, Releasing
  <2>5. ListRight(t)'
    <3>1. \A i \in DOMAIN wait'[t] : starter'[wait'[t][i]] = t
      BY <1>1, <1>2, <2>2, <2>3 DEF ListRight
    <3>2. ASSUME NEW i \in DOMAIN wait'[t], NEW j \in DOMAIN wait'[t],
                 wait'[t][i] = wait'[t][j]
          PROVE  i = j
      <4>1. /\ i + 1 \in DOMAIN wait[t] /\ j + 1 \in DOMAIN wait[t]
            /\ wait[t][i + 1] = wait[t][j + 1]
        BY <2>2, <2>3, <3>2
      <4>2. i + 1 = j + 1
        BY <1>1, <4>1 DEF ListRight
      <4> QED BY <2>2, <4>2
    <3>3. \A i \in DOMAIN wait'[t] : wait'[t][i] # joining'[t]
      <4>1. 1 \in DOMAIN wait[t]
        BY <2>2
      <4> QED BY <1>1, <2>2, <2>3, <4>1 DEF ListRight
    <3>4. starter'[joining'[t]] = t
      <4>1. 1 \in DOMAIN wait[t]
        BY <2>2
      <4> QED BY <1>1, <1>2, <2>2, <4>1 DEF ListRight
    <3> QED BY <2>1, <2>2, <3>1, <3>2, <3>3, <3>4 DEF ListRight, InWaitList
  <2>6. Remembers(t)'
    BY <2>1 DEF Remembers, Reaping
  <2>7. \A y \in Components : (Counted(y) /\ FreedRight(y))'
    BY <1>2, <1>5, <2>1, <2>4, ObjectKept DEF Still
  <2> QED BY <1>3, <1>5, <2>5, <2>6, <2>7, OthersRight DEF RefsInv
<1>11. CASE Join(t)
  <2>1. /\ pc[t] = "join" /\ pc'[t] = "dropJoined" /\ pc[joining[t]] = "ended"
        /\ wait' = wait /\ joining' = joining
    BY <1>1, <1>11 DEF Join, Goto, TypeOK, waits
  <2>2. \A y : SameHold(t, y)
    BY <2>1 DEF SameHold, Making, Holding, Releasing, InWaitList
  <2>3. ListRight(t)'
    BY <1>1, <1>2, <1>6, <2>1 DEF ListRight, InWaitList
  <2>4. Remembers(t)'
    BY <2>1 DEF Remembers, Reaping
  <2>5. \A y \in Components : (Counted(y) /\ FreedRight(y))'
    BY <1>2, <1>5, <2>1, <2>2, ObjectKept DEF Still
  <2> QED BY <1>3, <1>5, <2>3, <2>4, <2>5, OthersRight DEF RefsInv
<1> QED BY <1>7, <1>8, <1>9, <1>10, <1>11

-----------------------------------------------------------------------------
(***************************************************************************)
(* The steps that count and free.                                          *)
(***************************************************************************)
LEMMA ConstructRight ==
  ASSUME RefsInv, NEW t \in Components, Step(t), Construct(t)
  PROVE  RefsInv'
<1>1. /\ TypeInv /\ Allocated /\ TypeOK /\ StartedOnce
      /\ ListRight(t) /\ Remembers(t) /\ LookedUp(t)
  BY DEF RefsInv, TypeInv
<1>0. PICK x \in Components : x = Name(t)
  BY <1>1, NamesTypes DEF Construct, Calling
<1>2. /\ pc[t] = "construct" /\ pc'[t] = "push" /\ Name(t) = x
      /\ \A y \in Components : y # t => pc'[y] = pc[y]
      /\ wait' = wait /\ joining' = joining /\ Name(t)' = x
      /\ starter' = starter /\ heap' = heap
      /\ refs' = [refs EXCEPT ![x] = @ + 1]
  BY <1>0, <1>1
     DEF Construct, IncRef, Goto, TypeOK, waits, Name, Instruction
<1>3. (TypeInv /\ Allocated /\ StartedOnce)'
  BY <1>1, <1>2, TypeStep, AllocatedStep, StartedOnceKept
<1>4. starter[x] = t /\ ~InWaitList(t, x) /\ x # t
  BY <1>1, <1>2, LifecycleAssumption DEF ListRight, StartedOnce
<1>5. \A y : InWaitList(t, y)' = InWaitList(t, y)
  BY <1>2 DEF InWaitList
<1>6. ASSUME NEW y, y # x PROVE SameHold(t, y)
  BY <1>2, <1>5, <1>6 DEF SameHold, Making, Holding, Releasing
<1>7. ~Holding(t, x) /\ Making(t, x) /\ Holding(t, x)'
  BY <1>2, <1>4 DEF Making, Holding
<1>8. ListRight(t)'
  BY <1>1, <1>2, <1>5 DEF ListRight
<1>9. Remembers(t)'
  BY <1>1, <1>2, <1>6, <1>7 DEF Remembers, SameHold, Reaping, Ending
<1>10. LookedUp(t)'
  BY <1>2 DEF LookedUp
<1>11. ASSUME NEW y \in Components, y # x PROVE (Counted(y) /\ FreedRight(y))'
  BY <1>1, <1>2, <1>6, <1>11, ObjectKept DEF Still, TypeOK
<1>12. Held(x)' /\ ~Held(x)
  BY <1>2, <1>4, <1>7, LifecycleAssumption DEF Held, Holding, InWaitList
<1>13. Own(x)' = Own(x) /\ Own(x) \in Nat /\ Theirs(x)' = 1 /\ Theirs(x) = 0
       /\ CallFailed(x) = CallFailed(x)' /\ refs'[x] = refs[x] + 1
  BY <1>1, <1>2, <1>4, <1>12, EndedRemains DEF Own, Theirs, TypeOK, CallFailed
<1>14. Counted(x)'
  BY <1>2, <1>13 DEF RefsInv, Counted
<1>15. FreedRight(x)'
  <2>1. FreedRight(x) /\ pc[x] # "none"
    BY <1>1, <1>2, <1>4, LifecycleAssumption DEF RefsInv, StartedOnce
  <2>2. heap[x] # "freed"
    BY <1>4, <1>7, <2>1, LifecycleAssumption DEF FreedRight
  <2>3. Holding(starter[x], x)' /\ starter'[x] # NULL
    BY <1>12 DEF Held
  <2> QED BY <1>2, <1>4, <2>1, <2>2, <2>3 DEF FreedRight
<1> QED BY <1>3, <1>8, <1>9, <1>10, <1>11, <1>14, <1>15, OthersRight DEF RefsInv

LEMMA DropJoinedRight ==
  ASSUME RefsInv, NEW t \in Components, Step(t), DropJoined(t)
  PROVE  RefsInv'
<1>1. /\ TypeInv /\ Allocated /\ TypeOK /\ StartedOnce
      /\ ListRight(t) /\ Remembers(t) /\ LookedUp(t)
  BY DEF RefsInv, TypeInv
<1>0. PICK x \in Components : x = joining[t]
  BY <1>1 DEF DropJoined, ListRight
<1>2. /\ pc[t] = "dropJoined" /\ pc'[t] = "freeJoined" /\ joining[t] = x
      /\ \A y \in Components : y # t => pc'[y] = pc[y]
      /\ wait' = wait /\ joining' = joining
      /\ starter' = starter /\ heap' = heap
      /\ refs' = [refs EXCEPT ![x] = @ - 1]
  BY <1>0, <1>1 DEF DropJoined, DecRef, Goto, TypeOK, waits
<1>3. (TypeInv /\ Allocated /\ StartedOnce)'
  BY <1>1, <1>2, TypeStep, AllocatedStep, StartedOnceKept
<1>4. starter[x] = t /\ ~InWaitList(t, x) /\ pc[x] = "ended" /\ x # t
  BY <1>1, <1>2 DEF ListRight
<1>5. \A y : InWaitList(t, y)' = InWaitList(t, y)
  BY <1>2 DEF InWaitList
<1>6. ASSUME NEW y, y # x PROVE SameHold(t, y)
  BY <1>2, <1>5, <1>6 DEF SameHold, Making, Holding, Releasing
<1>7. Holding(t, x) /\ ~Holding(t, x)' /\ Releasing(t, x)'
  BY <1>2, <1>4, <1>5 DEF Releasing, Holding
<1>8. ListRight(t)'
  BY <1>1, <1>2, <1>4, <1>5 DEF ListRight
<1>9. Remembers(t)' /\ LookedUp(t)'
  BY <1>2 DEF Remembers, Reaping, LookedUp
<1>11. ASSUME NEW y \in Components, y # x PROVE (Counted(y) /\ FreedRight(y))'
  BY <1>1, <1>2, <1>6, <1>11, ObjectKept DEF Still, TypeOK
<1>12. Held(x) /\ ~Held(x)'
  BY <1>2, <1>4, <1>7, LifecycleAssumption DEF Held, Holding, InWaitList
<1>13. Own(x)' = Own(x) /\ Own(x) \in Nat /\ Theirs(x)' = 0 /\ Theirs(x) = 1
       /\ CallFailed(x) = CallFailed(x)' /\ refs'[x] = refs[x] - 1
  BY <1>1, <1>2, <1>4, <1>12, EndedRemains DEF Own, Theirs, TypeOK
<1>14. Counted(x)'
  BY <1>2, <1>13 DEF RefsInv, Counted
<1>15. FreedRight(x)'
  <2>1. FreedRight(x)
    BY <1>2 DEF RefsInv
  <2>2. heap[x] # "freed"
    BY <1>4, <1>7, <2>1, LifecycleAssumption DEF FreedRight
  <2>3. Releasing(starter[x], x)' /\ starter'[x] # NULL
    BY <1>2, <1>4, <1>7, LifecycleAssumption DEF Releasing
  <2> QED BY <1>2, <1>4, <2>2, <2>3 DEF FreedRight
<1> QED BY <1>3, <1>8, <1>9, <1>11, <1>14, <1>15, OthersRight DEF RefsInv

\* Whether its starter has a component is not up to the component.
LEMMA HeldKept ==
  ASSUME RefsInv, NEW t \in Components, Step(t), starter' = starter
  PROVE  Held(t)' = Held(t)
<1>1. PICK p : p = starter[t]
  OBVIOUS
<1>2. p = NULL \/ p \in Components \ {t}
  BY <1>1, LifecycleAssumption DEF RefsInv, TypeInv, TypeOK, StartedOnce
<1>3. p # NULL => Holding(p, t)' = Holding(p, t)
  BY <1>2, OthersHold
<1> QED BY <1>1, <1>3 DEF Held, Holding, InWaitList, Name, Instruction

LEMMA FreeJoinedRight ==
  ASSUME RefsInv, NEW t \in Components, Step(t), FreeJoined(t)
  PROVE  RefsInv'
<1>1. /\ TypeInv /\ Allocated /\ TypeOK /\ StartedOnce
      /\ ListRight(t) /\ Remembers(t) /\ LookedUp(t)
  BY DEF RefsInv, TypeInv
<1>0. PICK x \in Components : x = joining[t]
  BY <1>1 DEF FreeJoined, ListRight
<1>2. /\ pc[t] = "freeJoined" /\ pc'[t] = "reap" /\ joining[t] = x
      /\ \A y \in Components : y # t => pc'[y] = pc[y]
      /\ wait' = wait /\ joining' = joining
      /\ starter' = starter /\ refs' = refs
      /\ heap' = IF refs[x] <= 0 THEN [heap EXCEPT ![x] = "freed"] ELSE heap
  BY <1>0, <1>1 DEF FreeJoined, FreeIfUnused, Goto, TypeOK, waits
<1>3. (TypeInv /\ Allocated /\ StartedOnce)'
  BY <1>1, <1>2, TypeStep, AllocatedStep, StartedOnceKept
<1>4. starter[x] = t /\ ~InWaitList(t, x) /\ pc[x] = "ended" /\ x # t
  BY <1>1, <1>2 DEF ListRight
<1>5. \A y : InWaitList(t, y)' = InWaitList(t, y)
  BY <1>2 DEF InWaitList
<1>6. ASSUME NEW y, y # x PROVE SameHold(t, y)
  BY <1>2, <1>5, <1>6 DEF SameHold, Making, Holding, Releasing
<1>7. /\ ~Holding(t, x) /\ ~Holding(t, x)'
      /\ ~Making(t, x)' /\ ~Releasing(t, x)'
  BY <1>2, <1>4, <1>5 DEF Making, Releasing, Holding
<1>8. ListRight(t)'
  BY <1>1, <1>2, <1>5 DEF ListRight
<1>9. Remembers(t)' /\ LookedUp(t)'
  BY <1>2 DEF Remembers, Reaping, LookedUp
<1>11. ASSUME NEW y \in Components, y # x PROVE (Counted(y) /\ FreedRight(y))'
  BY <1>1, <1>2, <1>6, <1>11, ObjectKept DEF Still, TypeOK
<1>12. ~Held(x) /\ ~Held(x)'
  BY <1>2, <1>4, <1>7 DEF Held, Holding, InWaitList
<1>13. /\ pc'[x] = "ended" /\ Own(x)' = 0 /\ Own(x) = 0
       /\ Theirs(x)' = 0 /\ Theirs(x) = 0 /\ CallFailed(x) = CallFailed(x)'
  BY <1>2, <1>4, <1>12, EndedRemains DEF Own, Theirs
<1>14. Counted(x)'
  BY <1>2, <1>13 DEF RefsInv, Counted
<1>15. FreedRight(x)'
  <2>1. CASE refs[x] <= 0
    <3>1. heap'[x] = "freed"
      BY <1>1, <1>2, <2>1 DEF TypeOK
    <3>2. ~Making(starter[x], x)' /\ ~Holding(starter[x], x)' /\ ~Releasing(starter[x], x)'
      BY <1>2, <1>4, <1>7
         DEF Making, Holding, Releasing, InWaitList, Name, Instruction
    <3> QED BY <1>2, <1>13, <3>1, <3>2 DEF FreedRight
  <2>2. CASE ~(refs[x] <= 0)
    <3>1. CallFailed(x)'
      BY <1>13, <2>2 DEF RefsInv, Counted
    <3>2. heap'[x] # "freed"
      <4>1. Releasing(t, x) /\ t # NULL
        BY <1>2, LifecycleAssumption DEF Releasing
      <4> QED BY <1>2, <1>4, <2>2, <4>1 DEF RefsInv, FreedRight
    <3> QED BY <1>13, <3>1, <3>2 DEF FreedRight
  <2> QED BY <2>1, <2>2
<1> QED BY <1>3, <1>8, <1>9, <1>11, <1>14, <1>15, OthersRight DEF RefsInv

LEMMA DropSelfRight ==
  ASSUME RefsInv, NEW t \in Components, Step(t), DropSelf(t)
  PROVE  RefsInv'
<1>1. /\ TypeInv /\ Allocated /\ TypeOK /\ StartedOnce
      /\ ListRight(t) /\ Remembers(t) /\ LookedUp(t)
      /\ Counted(t) /\ FreedRight(t)
  BY DEF RefsInv, TypeInv
<1>2. /\ pc[t] = "dropSelf" /\ pc'[t] = "freeSelf"
      /\ \A y \in Components : y # t => pc'[y] = pc[y]
      /\ wait' = wait /\ joining' = joining
      /\ starter' = starter /\ heap' = heap
      /\ refs' = [refs EXCEPT ![t] = @ - 1]
  BY <1>1 DEF DropSelf, DecRef, Goto, TypeOK, waits
<1>3. (TypeInv /\ Allocated /\ StartedOnce)'
  BY <1>1, <1>2, TypeStep, AllocatedStep, StartedOnceKept
<1>4. \A y : SameHold(t, y)
  BY <1>2 DEF SameHold, Making, Holding, Releasing, InWaitList
<1>5. ListRight(t)' /\ Remembers(t)' /\ LookedUp(t)'
  BY <1>1, <1>2 DEF ListRight, Remembers, LookedUp, Ending
<1>6. ASSUME NEW y \in Components, y # t PROVE (Counted(y) /\ FreedRight(y))'
  BY <1>1, <1>2, <1>4, <1>6, ObjectKept DEF Still, TypeOK
<1>7. Held(t)' = Held(t)
  BY <1>2, HeldKept
<1>8. /\ Own(t) = 1 /\ Own(t)' = 0 /\ Theirs(t)' = Theirs(t)
      /\ Theirs(t) \in {0, 1} /\ refs'[t] = refs[t] - 1 /\ refs[t] \in Int
  BY <1>1, <1>2, <1>7 DEF Own, Theirs, TypeOK
<1>9. ~CallFailed(t)
  BY <1>2 DEF CallFailed
<1>10. Counted(t)'
  BY <1>1, <1>8, <1>9 DEF Counted
<1>11. FreedRight(t)'
  BY <1>1, <1>2 DEF FreedRight
<1> QED BY <1>3, <1>5, <1>6, <1>10, <1>11, OthersRight DEF RefsInv

\* The last step of a thread, if its starter has its reference by then.
LEMMA FreeSelfRight ==
  ASSUME RefsInv, InTime', NEW t \in Components, Step(t), FreeSelf(t)
  PROVE  RefsInv'
<1>1. /\ TypeInv /\ Allocated /\ TypeOK /\ StartedOnce
      /\ ListRight(t) /\ Remembers(t) /\ LookedUp(t)
      /\ Counted(t) /\ FreedRight(t)
  BY DEF RefsInv, TypeInv
<1>2. /\ pc[t] = "freeSelf" /\ pc'[t] = "ended"
      /\ \A y \in Components : y # t => pc'[y] = pc[y]
      /\ wait' = wait /\ joining' = joining
      /\ starter' = starter /\ refs' = refs
      /\ heap' = IF refs[t] <= 0 THEN [heap EXCEPT ![t] = "freed"] ELSE heap
  BY <1>1 DEF FreeSelf, FreeIfUnused, Goto, TypeOK, waits
<1>3. (TypeInv /\ Allocated /\ StartedOnce)'
  BY <1>1, <1>2, TypeStep, AllocatedStep, StartedOnceKept
<1>4. \A y : SameHold(t, y)
  BY <1>2 DEF SameHold, Making, Holding, Releasing, InWaitList
<1>5. ListRight(t)' /\ Remembers(t)' /\ LookedUp(t)'
  BY <1>1, <1>2 DEF ListRight, Remembers, LookedUp, Ending
<1>6. ASSUME NEW y \in Components, y # t PROVE (Counted(y) /\ FreedRight(y))'
  BY <1>1, <1>2, <1>4, <1>6, ObjectKept DEF Still, TypeOK
<1>7. Held(t)' = Held(t)
  BY <1>2, HeldKept
<1>8. /\ Own(t) = 0 /\ Own(t)' = 0 /\ Theirs(t)' = Theirs(t)
      /\ Theirs(t) = (IF Held(t) THEN 1 ELSE 0)
  BY <1>2, <1>7 DEF Own, Theirs
<1>9. ~CallFailed(t)
  BY <1>2 DEF CallFailed
<1>10. refs[t] = Theirs(t) /\ Counted(t)'
  BY <1>1, <1>2, <1>8, <1>9 DEF Counted
<1>11. FreedRight(t)'
  <2>1. CASE Held(t)
    <3>1. heap' = heap
      BY <1>2, <1>8, <1>10, <2>1
    <3>2. heap'[t] # "freed"
      BY <1>1, <1>2, <3>1 DEF FreedRight
    <3>3. starter'[t] # NULL /\ Holding(starter[t], t)'
      BY <1>2, <1>7, <2>1 DEF Held, Holding, InWaitList, Name, Instruction
    <3> QED BY <1>2, <3>2, <3>3 DEF FreedRight
  <2>2. CASE ~Held(t)
    <3>1. heap'[t] = "freed" /\ refs'[t] = 0
      BY <1>1, <1>2, <1>8, <1>10, <2>2 DEF TypeOK
    <3>2. ASSUME NEW p \in Components, p = starter[t]
          PROVE  ~Making(p, t)' /\ ~Holding(p, t)' /\ ~Releasing(p, t)'
      <4>1. p # t /\ p # NULL
        BY <1>1, <3>2, LifecycleAssumption DEF StartedOnce
      <4>2. ~Making(p, t)'
        BY <1>2, <3>1 DEF InTime
      <4>3. ~Holding(p, t) /\ ListRight(p)
        BY <2>2, <3>2, <4>1 DEF Held, RefsInv
      <4>4. ~Releasing(p, t)
        BY <1>2, <4>3 DEF ListRight, Releasing
      <4> QED BY <4>1, <4>2, <4>3, <4>4, OthersHold
    <3>3. starter[t] # NULL =>
            ~Making(starter[t], t)' /\ ~Holding(starter[t], t)' /\ ~Releasing(starter[t], t)'
      <4>1. PICK p : p = starter[t]
        OBVIOUS
      <4>2. starter[t] # NULL => p \in Components
        BY <1>1, <4>1 DEF TypeOK
      <4> QED BY <1>2, <3>2, <4>1, <4>2
              DEF Making, Holding, Releasing, InWaitList, Name, Instruction
    <3> QED BY <1>2, <3>1, <3>3 DEF FreedRight
  <2> QED BY <2>1, <2>2
<1> QED BY <1>3, <1>5, <1>6, <1>10, <1>11, OthersRight DEF RefsInv

LEMMA CallFailsRight ==
  ASSUME RefsInv, NEW t \in Components, Step(t), Call(t), CallFails(t)
  PROVE  RefsInv'
<1>1. /\ TypeInv /\ Allocated /\ TypeOK /\ StartedOnce
      /\ ListRight(t) /\ Remembers(t) /\ LookedUp(t)
      /\ Counted(t) /\ FreedRight(t)
  BY DEF RefsInv, TypeInv
<1>2. PICK x \in Components : x = Name(t)
  BY CalledIsNew
<1>3. /\ pc[t] = "call" /\ pc'[t] = "ended" /\ x # t
      /\ pc[x] = "none" /\ heap[x] = "none" /\ starter[x] = NULL
      /\ \A y \in Components : y # t => pc'[y] = pc[y]
      /\ wait' = wait /\ joining' = joining /\ ip' = ip
      /\ starter' = starter /\ refs' = refs
      /\ heap' = [heap EXCEPT ![x] = "freed"]
      /\ AtInstruction(t)
  BY <1>1, <1>2, CalledIsNew DEF CallFails, TypeOK
<1>4. (TypeInv /\ Allocated /\ StartedOnce)'
  BY <1>1, <1>3, TypeStep, AllocatedStep, StartedOnceKept
<1>5. \A y : SameHold(t, y)
  BY <1>3 DEF SameHold, Making, Holding, Releasing, InWaitList
<1>6. ListRight(t)' /\ Remembers(t)' /\ LookedUp(t)'
  BY <1>1, <1>3 DEF ListRight, Remembers, LookedUp, Ending
<1>7. ASSUME NEW y \in Components, y # t, y # x
      PROVE  (Counted(y) /\ FreedRight(y))'
  BY <1>1, <1>3, <1>5, <1>7, ObjectKept DEF Still, TypeOK
<1>8. Counted(x)' /\ FreedRight(x)'
  <2>1. Counted(x) /\ ~CallFailed(x) /\ heap'[x] = "freed" /\ pc'[x] = "none"
    BY <1>1, <1>3 DEF RefsInv, CallFailed, TypeOK
  <2>2. ~Held(x) /\ ~Held(x)'
    BY <1>3 DEF Held
  <2>3. Own(x)' = Own(x) /\ Theirs(x)' = Theirs(x)
    BY <1>3, <2>1, <2>2 DEF Own, Theirs
  <2> QED BY <1>3, <2>1, <2>3 DEF Counted, FreedRight
<1>9. CallFailed(t)' /\ ~CallFailed(t)
  <2>1. ip[t] <= Len(Program[t]) /\ Instruction(t).op = "call"
    BY <1>1, <1>3, LifecycleAssumption DEF AtInstruction, Calling, TypeOK
  <2> QED BY <1>3, <2>1 DEF CallFailed, Instruction
<1>10. Counted(t)'
  <2>1. Theirs(t)' = Theirs(t) /\ Own(t) = 1
    BY <1>3, HeldKept DEF Theirs, Own
  <2> QED BY <1>1, <1>3, <1>9, <2>1 DEF Counted
<1>11. FreedRight(t)'
  BY <1>1, <1>3, <1>9 DEF FreedRight, TypeOK
<1> QED BY <1>4, <1>6, <1>7, <1>8, <1>10, <1>11, OthersRight DEF RefsInv

LEMMA CallStartsRight ==
  ASSUME RefsInv, NEW t \in Components, Step(t), Call(t), CallStarts(t)
  PROVE  RefsInv'
<1>1. /\ TypeInv /\ Allocated /\ TypeOK /\ StartedOnce
      /\ ListRight(t) /\ Remembers(t) /\ LookedUp(t)
      /\ Counted(t) /\ FreedRight(t)
  BY DEF RefsInv, TypeInv
<1>2. PICK x \in Components : x = Name(t)
  BY CalledIsNew
<1>3. /\ pc[t] = "call" /\ pc'[t] = "setThreadId" /\ x # t /\ Name(t)' = x
      /\ pc[x] = "none" /\ heap[x] = "none" /\ starter[x] = NULL
      /\ pc'[x] = "fetch" /\ heap'[x] = "live" /\ starter'[x] = t /\ refs'[x] = 1
      /\ \A y \in Components : y # t /\ y # x => pc'[y] = pc[y]
      /\ \A y \in Components : y # x =>
           starter'[y] = starter[y] /\ refs'[y] = refs[y] /\ heap'[y] = heap[y]
      /\ wait' = wait /\ joining' = joining
  <2>1. ip' = ip /\ wait' = wait /\ joining' = joining /\ x # t /\ pc[t] = "call"
        /\ pc[x] = "none" /\ heap[x] = "none" /\ starter[x] = NULL
    BY <1>2, CalledIsNew
  <2>2. pc'[t] = "setThreadId" /\ pc'[x] = "fetch"
        /\ \A y \in Components : y # t /\ y # x => pc'[y] = pc[y]
    BY <1>1, <1>2, <2>1 DEF CallStarts, TypeOK
  <2>3. heap'[x] = "live" /\ starter'[x] = t /\ refs'[x] = 1
        /\ \A y \in Components : y # x =>
             starter'[y] = starter[y] /\ refs'[y] = refs[y] /\ heap'[y] = heap[y]
    BY <1>1, <1>2 DEF CallStarts, TypeOK
  <2> QED BY <1>2, <2>1, <2>2, <2>3 DEF Name, Instruction
<1>4. (TypeInv /\ Allocated)'
  BY <1>1, TypeStep, AllocatedStep
<1>6. StartedOnce'
  <2>1. x # Main
    BY <1>3 DEF RefsInv, StartedOnce
  <2>2. ASSUME NEW y \in Components, y # x
        PROVE  /\ starter'[y] # NULL =>
                    pc'[y] # "none" /\ pc'[starter'[y]] # "none" /\ y # Main /\ starter'[y] # y
               /\ pc'[y] # "none" /\ y # Main => starter'[y] # NULL
    <3>1. \A p \in Components : pc[p] # "none" => pc'[p] # "none"
      BY <1>3
    <3>2. pc'[y] # "none" => pc[y] # "none"
      BY <1>3, <2>2
    <3>3. starter[y] # NULL => starter[y] \in Components
      BY <1>1 DEF TypeOK
    <3>4. starter'[y] = starter[y]
      BY <1>3, <2>2
    <3> QED BY <1>1, <3>1, <3>2, <3>3, <3>4 DEF StartedOnce
  <2>3. pc'[Main] # "none"
    BY <1>1, <1>3, <2>1, LifecycleAssumption DEF StartedOnce
  <2>4. /\ starter'[x] = t /\ t # NULL /\ t # x
        /\ pc'[x] # "none" /\ pc'[t] # "none"
    BY <1>3, LifecycleAssumption
  <2> QED BY <2>1, <2>2, <2>3, <2>4 DEF StartedOnce
<1>7. \A y : InWaitList(t, y)' = InWaitList(t, y)
  BY <1>3 DEF InWaitList
<1>8. ~InWaitList(t, x)
  BY <1>1, <1>3, LifecycleAssumption DEF ListRight, InWaitList
<1>9. \A y : y # x => SameHold(t, y)
  BY <1>3, <1>7 DEF SameHold, Making, Holding, Releasing
<1>10. ListRight(t)'
  <2>1. \A i \in DOMAIN wait[t] : wait[t][i] \in Components /\ wait[t][i] # x
    BY <1>1, <1>8 DEF InWaitList, TypeOK
  <2> QED BY <1>1, <1>3, <1>7, <1>8, <2>1 DEF ListRight
<1>11. Remembers(t)' /\ LookedUp(t)'
  <2>1. Making(t, x)'
    BY <1>3 DEF Making
  <2>2. \A y \in Components : starter[y] = t => Making(t, y) \/ Holding(t, y)
    BY <1>1, <1>3 DEF Remembers, Reaping, Ending
  <2> QED BY <1>3, <1>9, <2>1, <2>2 DEF Remembers, SameHold, LookedUp
<1>12. ASSUME NEW y \in Components, y # x PROVE (Counted(y) /\ FreedRight(y))'
  <2>1. pc'[y] = pc[y] \/ (pc[y] \notin Still /\ pc'[y] \notin Still)
    BY <1>3, <1>12 DEF Still
  <2> QED BY <1>3, <1>9, <1>12, <2>1, ObjectKept
<1>13. Counted(x)' /\ FreedRight(x)'
  <2>1. ~Holding(t, x)'
    BY <1>3, <1>7, <1>8 DEF Holding
  <2>2. ~Held(x)'
    BY <1>3, <2>1 DEF Held, Holding, InWaitList, Name, Instruction
  <2>3. Own(x)' = 1 /\ Theirs(x)' = 0
    BY <1>3, <2>2 DEF Own, Theirs
  <2> QED BY <1>3, <2>3 DEF Counted, FreedRight
<1> QED BY <1>4, <1>6, <1>10, <1>11, <1>12, <1>13, OthersRight DEF RefsInv

LEMMA RefsInit == Init => RefsInv
<1> SUFFICES ASSUME Init PROVE RefsInv
  OBVIOUS
<1>1. TypeInv /\ Allocated
  BY TypeInit DEF Init, Allocated
<1>2. StartedOnce
  BY LifecycleAssumption DEF Init, StartedOnce
<1>3. ASSUME NEW p \in Components
      PROVE  ListRight(p) /\ Remembers(p) /\ LookedUp(p) /\ Counted(p) /\ FreedRight(p)
  <2>1. /\ wait[p] = << >> /\ starter[p] = NULL
        /\ pc[p] \in {"none", "fetch"} /\ heap[p] # "freed"
        /\ heap[p] = "live" => pc[p] # "none"
        /\ refs[p] = IF pc[p] = "none" THEN 0 ELSE 1
        /\ \A y \in Components : starter[y] # p
    BY LifecycleAssumption DEF Init
  <2>2. ListRight(p) /\ Remembers(p) /\ LookedUp(p)
    BY <2>1 DEF ListRight, Remembers, LookedUp
  <2>3. Own(p) = refs[p] /\ Theirs(p) = 0 /\ refs[p] \in Int
    BY <2>1 DEF Own, Theirs, Held
  <2> QED BY <2>1, <2>2, <2>3 DEF Counted, FreedRight
<1> QED BY <1>1, <1>2, <1>3 DEF RefsInv

LEMMA RefsNext == RefsInv /\ InTime' /\ [Next]_vars => RefsInv'
<1> SUFFICES ASSUME RefsInv, InTime', [Next]_vars PROVE RefsInv'
  OBVIOUS
<1>1. ASSUME NEW t \in Components, Step(t) PROVE RefsInv'
  BY <1>1, RunRight, ListStepRight, ConstructRight, DropJoinedRight,
     FreeJoinedRight, DropSelfRight, FreeSelfRight, CallFailsRight, CallStartsRight
     DEF Step, Runs, Call
<1>2. ASSUME UNCHANGED <<pc, ip, flags, waits, starter, links, memory>>,
             exited' \in BOOLEAN
      PROVE  RefsInv'
  <2>0. /\ pc' = pc /\ ip' = ip /\ stop' = stop /\ running' = running /\ wait' = wait
        /\ joining' = joining /\ starter' = starter /\ links' = links
        /\ refs' = refs /\ heap' = heap
    BY <1>2 DEF flags, waits, memory
  <2>1. (TypeInv /\ Allocated /\ StartedOnce)'
    BY <1>2, <2>0 DEF RefsInv, TypeInv, TypeOK, Placed, AtInstruction, Instruction,
                      Allocated, StartedOnce
  <2>2. \A p \in Components : (ListRight(p) /\ Remembers(p) /\ LookedUp(p))'
    BY <2>0 DEF RefsInv, ListRight, Remembers, LookedUp, InWaitList, Making, Holding,
                Name, Other, Instruction
  <2>3. \A y \in Components : (Counted(y) /\ FreedRight(y))'
    <3> TAKE y \in Components
    <3>2. CallFailed(y)' = CallFailed(y)
      BY <2>0 DEF CallFailed, Instruction
    <3>3. Held(y)' = Held(y)
      BY <2>0 DEF Held, Holding, InWaitList, Name, Instruction
    <3>4. Own(y)' = Own(y) /\ Theirs(y)' = Theirs(y)
      BY <2>0, <3>3 DEF Own, Theirs
    <3>5. Counted(y) /\ FreedRight(y)
      BY DEF RefsInv
    <3>6. Counted(y)'
      BY <2>0, <3>2, <3>4, <3>5 DEF Counted
    <3>7. FreedRight(y)'
      <4>1. /\ Making(starter[y], y)' = Making(starter[y], y)
            /\ Holding(starter[y], y)' = Holding(starter[y], y)
            /\ Releasing(starter[y], y)' = Releasing(starter[y], y)
        BY <2>0 DEF Making, Holding, Releasing, InWaitList, Name, Instruction
      <4> QED BY <2>0, <3>2, <3>5, <4>1 DEF FreedRight
    <3> QED BY <3>6, <3>7
  <2> QED BY <2>1, <2>2, <2>3 DEF RefsInv
<1>3. CASE MainReturns
  BY <1>2, <1>3 DEF MainReturns
<1>4. CASE UNCHANGED vars
  BY <1>2, <1>4 DEF vars, RefsInv, TypeInv, TypeOK
<1> QED BY <1>1, <1>3, <1>4 DEF Next, Gone

\* What a thread touches is not freed.
LEMMA TouchedIsThere == RefsInv => NoUseAfterFree
<1> SUFFICES ASSUME RefsInv, NEW t \in Components, NEW x \in Touched(t),
                    heap[x] = "freed"
             PROVE  FALSE
  BY DEF NoUseAfterFree, UsesFreed
<1>1. /\ TypeInv /\ TypeOK /\ StartedOnce
      /\ ListRight(t) /\ Remembers(t) /\ LookedUp(t) /\ FreedRight(t)
  BY DEF RefsInv, TypeInv
<1>2. pc[t] \notin {"none", "ended"}
  BY DEF Touched
<1>3. x # t
  BY <1>1, <1>2 DEF FreedRight
<1>4. ASSUME x \in Components, starter[x] = t
      PROVE  ~Making(t, x) /\ ~Holding(t, x) /\ ~Releasing(t, x)
  BY <1>1, <1>4, LifecycleAssumption DEF RefsInv, FreedRight, StartedOnce
<1>5. CASE pc[t] \in {"stop", "connect"}
  <2>1. x = Name(t) /\ x \in Components /\ starter[x] = t
    BY <1>1, <1>3, <1>5, NamesTypes DEF Touched, LookedUp
  <2> QED BY <1>1, <1>4, <1>5, <2>1 DEF Remembers, Reaping, Ending
<1>6. CASE pc[t] \in {"setThreadId", "construct"}
  <2>1. x = Name(t) /\ x \in Components /\ starter[x] = t
    BY <1>1, <1>3, <1>6, NamesTypes DEF Touched, ListRight, Calling
  <2> QED BY <1>4, <1>6, <2>1 DEF Making
<1>7. CASE pc[t] = "connectOther"
  <2>1. x = Other(t) /\ x \in Components /\ starter[x] = t
    BY <1>1, <1>3, <1>7, NamesTypes DEF Touched, LookedUp
  <2> QED BY <1>1, <1>4, <1>7, <2>1 DEF Remembers, Reaping, Ending
<1>8. CASE pc[t] \in {"join", "dropJoined", "freeJoined"}
  <2>1. x = joining[t] /\ x \in Components /\ starter[x] = t
    BY <1>1, <1>3, <1>8 DEF Touched, ListRight
  <2> QED BY <1>4, <1>8, <2>1 DEF Holding, Releasing
<1>9. CASE pc[t] \notin {"stop", "connect", "setThreadId", "construct", "connectOther",
                         "join", "dropJoined", "freeJoined"}
  BY <1>2, <1>3, <1>9 DEF Touched
<1> QED BY <1>5, <1>6, <1>7, <1>8, <1>9

(***************************************************************************)
(* No object is used after it was freed, for every set of components and   *)
(* all programs, CALLs that fail included, unless a component is there too *)
(* early: the time in which component_call has started a thread and not    *)
(* taken its own reference is the only cause.  The two references, of the  *)
(* thread and of the wait list, may be given up in any order, and each     *)
(* count be read late.                                                     *)
(***************************************************************************)
THEOREM FreedIsUnused == Spec /\ []InTime => []NoUseAfterFree
<1>1. Init => RefsInv
  BY RefsInit
<1>2. RefsInv /\ InTime' /\ [Next]_vars => RefsInv'
  BY RefsNext
<1>3. RefsInv => NoUseAfterFree
  BY TouchedIsThere
<1> QED BY <1>1, <1>2, <1>3, PTL DEF Spec

-----------------------------------------------------------------------------
(***************************************************************************)
(* Everything is freed in the end.                                         *)
(***************************************************************************)
\* Who started whom has no cycle, and leads back to the main component.
Rooted ==
  \A S \in SUBSET Components :
    S # {} => \E y \in S : starter[y] \notin S

LEMMA RootedStep ==
  ASSUME RefsInv, Rooted, NEW t \in Components, Step(t)
  PROVE  Rooted'
<1>1. CASE Call(t) /\ CallStarts(t)
  <2>1. PICK x \in Components : x = Name(t)
    BY <1>1, CalledIsNew
  <2>2. /\ x # t /\ pc[x] = "none" /\ starter'[x] = t
        /\ \A y \in Components : y # x => starter'[y] = starter[y]
    BY <1>1, <2>1, CalledIsNew DEF CallStarts, RefsInv, TypeInv, TypeOK
  <2> SUFFICES ASSUME NEW S \in SUBSET Components, S # {},
                      \A y \in S : starter'[y] \in S
               PROVE  FALSE
    BY DEF Rooted
  <2>3. S \ {x} # {}
    BY <2>2
  <2>4. \A y \in S \ {x} : starter[y] \in S \ {x}
    BY <2>2, LifecycleAssumption DEF RefsInv, StartedOnce
  <2> QED BY <2>3, <2>4 DEF Rooted
<1>2. CASE ~(Call(t) /\ CallStarts(t))
  BY <1>2, StarterStays DEF Rooted
<1> QED BY <1>1, <1>2

\* With the main component all have ended, and nobody has anything any more.
LEMMA NothingIsLeft ==
  ASSUME RefsInv, EndInv, Rooted, pc[Main] = "ended",
         NEW x \in Components, heap[x] = "live"
  PROVE  CallFailed(x)
<1>1. TypeOK /\ StartedOnce /\ FreedRight(x)
  BY DEF RefsInv, TypeInv
<1> DEFINE S == {y \in Components : pc[y] \notin {"none", "ended"}}
<1>2. ASSUME NEW y \in S PROVE starter[y] \in S
  <2>1. starter[y] # NULL /\ starter[y] \in Components
    BY <1>1 DEF StartedOnce, TypeOK
  <2>2. pc[starter[y]] # "none"
    BY <1>1, <2>1 DEF StartedOnce
  <2>3. pc[starter[y]] # "ended"
    <3>1. EndsLast
      BY EndInvImplies
    <3> QED BY <2>1, <3>1 DEF EndsLast
  <2> QED BY <2>1, <2>2, <2>3
<1>3. S = {}
  <2>1. S \in SUBSET Components
    OBVIOUS
  <2> QED BY <1>2, <2>1 DEF Rooted
<1>4. \A y \in Components : pc[y] # "none" => pc[y] = "ended"
  BY <1>3
<1>5. pc[x] = "ended"
  BY <1>1, <1>4 DEF FreedRight
<1>6. ASSUME starter[x] # NULL
      PROVE  ~Holding(starter[x], x) /\ ~Releasing(starter[x], x)
  <2>1. starter[x] \in Components /\ pc[starter[x]] = "ended"
    BY <1>1, <1>4, <1>6 DEF StartedOnce, TypeOK
  <2>2. wait[starter[x]] = << >>
    BY <2>1 DEF EndInv, Reaped, Ending
  <2> QED BY <2>1, <2>2 DEF Holding, Releasing, InWaitList
<1> QED BY <1>1, <1>5, <1>6 DEF FreedRight

(***************************************************************************)
(* When main() returns, every component there was has been given back, for *)
(* all programs without a CALL that fails: the two references of each are  *)
(* given up, and the one given up last finds that the count is 0.          *)
(***************************************************************************)
THEOREM NothingLeaks ==
  ASSUME Missing = {}
  PROVE  Spec /\ []InTime => []AllFreed
<1> DEFINE Inv == /\ RefsInv /\ EndInv /\ Rooted
                  /\ exited => pc[Main] = "ended"
<1>1. Init => Inv
  <2>1. Init => Rooted
    BY LifecycleAssumption DEF Init, Rooted
  <2>2. Init => ~exited
    BY DEF Init
  <2> QED BY <2>1, <2>2, RefsInit, EndInit
<1>2. Inv /\ InTime' /\ [Next]_vars => Inv'
  <2> SUFFICES ASSUME Inv, InTime', [Next]_vars PROVE Inv'
    OBVIOUS
  <2>1. RefsInv' /\ EndInv'
    BY RefsNext, EndNext
  <2>2. CASE \E t \in Components : Step(t)
    <3>1. PICK t \in Components : Step(t)
      BY <2>2
    <3>2. ~exited /\ ~exited'
      BY <3>1 DEF Step, Executing
    <3>3. Rooted'
      BY <3>1, RootedStep
    <3> QED BY <2>1, <3>2, <3>3
  <2>3. CASE MainReturns
    BY <2>1, <2>3 DEF MainReturns, Rooted
  <2>4. CASE UNCHANGED vars
    BY <2>1, <2>4 DEF vars, Rooted
  <2> QED BY <2>2, <2>3, <2>4 DEF Next, Gone
<1>3. Inv => AllFreed
  BY NothingIsLeft DEF AllFreed
<1> QED BY <1>1, <1>2, <1>3, PTL DEF Spec
=============================================================================
