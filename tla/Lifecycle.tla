------------------------------- MODULE Lifecycle -------------------------------
(***************************************************************************)
(* The life of components: how Component.c creates the thread of one, runs *)
(* it, stops it, joins it and gives its object back to the collector.      *)
(*                                                                         *)
(* A component executes the instructions of its program that matter to     *)
(* this; pc says which step of which function its thread takes next.       *)
(* Component objects are reached by several threads, so their reference    *)
(* counts (GC_mem_common.c) are part of the state.  Channels are what      *)
(* module Rendezvous promises of them: a send and a receive on connected   *)
(* channels return together, and wait for each other.                      *)
(***************************************************************************)
EXTENDS Integers, SequencesExt

CONSTANTS
  Components,   \* the component objects there is memory for
  Main,         \* the one that main() starts
  Missing,      \* those whose bytecode file does not exist
  Program,      \* the instructions of each
  NULL

\* CALL makes a new object, and each name in a program stands for one.  FATAL
\* is any instruction that ends in component_cleanUpAndStop.  A constructor is
\* where a program begins, and nothing jumps back to it.
Instructions ==
  [op: {"constructor", "send", "receive", "fatal"}]
    \cup [op: {"call", "stop"}, name: Components]
    \cup [op: {"connect"}, name: Components, other: Components]
    \cup [op: {"jump"}, target: Nat \ {0, 1}]

ASSUME LifecycleAssumption ==
  /\ Main \in Components \ Missing
  /\ NULL \notin Components
  /\ Program \in [Components -> Seq(Instructions)]
  /\ \A c \in Components : \A i \in DOMAIN Program[c] :
       Program[c][i].op = "constructor" => i = 1

VARIABLES
  pc, ip,         \* the next step and the next instruction of each thread
  stop, running,  \* the flags of each component
  wait,           \* waitComponents, the last one pushed first
  joining,        \* the component whose thread a thread is joining
  starter,        \* the component that created a component's thread
  links,          \* the connections, from an output to an input
  refs, heap,     \* reference count and memory of each object
  exited          \* main() has returned

flags == <<stop, running>>
waits == <<wait, joining>>
memory == <<refs, heap>>
vars == <<pc, ip, flags, waits, starter, links, memory, exited>>

Steps == {"none", "fetch", "constructor", "send", "receive", "fatal", "call",
          "stop", "connect", "jump", "setThreadId", "construct", "push",
          "connectOther", "reap", "join", "dropJoined", "freeJoined",
          "dropSelf", "freeSelf", "ended"}

TypeOK ==
  /\ pc \in [Components -> Steps]
  /\ ip \in [Components -> Nat \ {0}]
  /\ stop \in [Components -> BOOLEAN]
  /\ running \in [Components -> BOOLEAN]
  /\ wait \in [Components -> Seq(Components)]
  /\ joining \in [Components -> Components \cup {NULL}]
  /\ starter \in [Components -> Components \cup {NULL}]
  /\ links \in SUBSET (Components \X Components)
  /\ refs \in [Components -> Int]
  /\ heap \in [Components -> {"none", "live", "freed"}]
  /\ exited \in BOOLEAN

Instruction(t) == Program[t][ip[t]]
Name(t) == Instruction(t).name
Other(t) == Instruction(t).other

\* main() has created the main component, and its thread.
Init ==
  /\ pc = [c \in Components |-> IF c = Main THEN "fetch" ELSE "none"]
  /\ ip = [c \in Components |-> 1]
  /\ stop = [c \in Components |-> FALSE]
  /\ running = [c \in Components |-> FALSE]
  /\ wait = [c \in Components |-> << >>]
  /\ joining = [c \in Components |-> NULL]
  /\ starter = [c \in Components |-> NULL]
  /\ links = {}
  /\ refs = [c \in Components |-> IF c = Main THEN 1 ELSE 0]
  /\ heap = [c \in Components |-> IF c = Main THEN "live" ELSE "none"]
  /\ exited = FALSE

-----------------------------------------------------------------------------
(***************************************************************************)
(* component_run.                                                          *)
(***************************************************************************)
Goto(t, step) == pc' = [pc EXCEPT ![t] = step]

\* The names in the scope of t are those of the components it called.
InScope(t, x) == starter[x] = t

\* An instruction with a name that is not in scope is fatal.  STOP knows the
\* component itself, too.
Resolves(t) ==
  CASE Instruction(t).op = "stop"    -> Name(t) = t \/ InScope(t, Name(t))
    [] Instruction(t).op = "connect" -> InScope(t, Name(t))
    [] OTHER                         -> TRUE

Fetch(t) ==
  /\ pc[t] = "fetch"
  /\ Goto(t, IF stop[t] \/ ip[t] > Len(Program[t]) THEN "reap"
             ELSE IF Resolves(t) THEN Instruction(t).op ELSE "fatal")
  /\ UNCHANGED <<ip, flags, waits, starter, links, memory>>

\* The instruction is done.
Done(t) ==
  /\ Goto(t, "fetch")
  /\ ip' = [ip EXCEPT ![t] = @ + 1]

\* A constructor whose parameters match: the component is running.
Constructor(t) ==
  /\ pc[t] = "constructor"
  /\ running' = [running EXCEPT ![t] = TRUE]
  /\ Done(t)
  /\ UNCHANGED <<stop, waits, starter, links, memory>>

\* Mutant: the comparison with the own name is inverted.
StopItself(t) ==
  /\ pc[t] = "stop"
  /\ stop' = [stop EXCEPT ![t] = TRUE]
  /\ Done(t)
  /\ UNCHANGED <<running, waits, starter, links, memory>>

\* component_stop, of itself or of another component.
Stop(t) ==
  /\ pc[t] = "stop"
  /\ stop' = [stop EXCEPT ![Name(t)] = TRUE]
  /\ Done(t)
  /\ UNCHANGED <<running, waits, starter, links, memory>>

\* component_behaviourJump looks at the flag once more.
BehaviourJump(t) ==
  /\ pc[t] = "jump"
  /\ Goto(t, "fetch")
  /\ ip' = [ip EXCEPT ![t] = IF stop[t] THEN @ + 1 ELSE Instruction(t).target]
  /\ UNCHANGED <<flags, waits, starter, links, memory>>

Fatal(t) ==
  /\ pc[t] = "fatal"
  /\ Goto(t, "reap")
  /\ UNCHANGED <<ip, flags, waits, starter, links, memory>>

\* component_connect waits until both components are running, one by one.
Connect(t) ==
  /\ pc[t] = "connect"
  /\ running[Name(t)]
  /\ Goto(t, IF InScope(t, Other(t)) THEN "connectOther" ELSE "fatal")
  /\ UNCHANGED <<ip, flags, waits, starter, links, memory>>

ConnectOther(t) ==
  /\ pc[t] = "connectOther"
  /\ running[Other(t)]
  /\ links' = links \cup {<<Name(t), Other(t)>>}
  /\ Done(t)
  /\ UNCHANGED <<flags, waits, starter, memory>>

\* Mutant: a send meets a receive on a channel that is not connected.
MeetUnconnected(t, u) ==
  /\ pc[t] = "send" /\ pc[u] = "receive"
  /\ pc' = [pc EXCEPT ![t] = "fetch", ![u] = "fetch"]
  /\ ip' = [ip EXCEPT ![t] = @ + 1, ![u] = @ + 1]
  /\ UNCHANGED <<flags, waits, starter, links, memory>>

\* channel_send of t and channel_receive of u, a rendezvous.
Meet(t, u) ==
  /\ pc[t] = "send" /\ pc[u] = "receive"
  /\ <<t, u>> \in links
  /\ pc' = [pc EXCEPT ![t] = "fetch", ![u] = "fetch"]
  /\ ip' = [ip EXCEPT ![t] = @ + 1, ![u] = @ + 1]
  /\ UNCHANGED <<flags, waits, starter, links, memory>>

-----------------------------------------------------------------------------
(***************************************************************************)
(* component_call.  The object is nobody else's until the thread is there. *)
(***************************************************************************)
\* A file that does not open: component_newComponent cleans the new object up,
\* and with that ends the thread that called it.
CallFails(t) ==
  /\ pc' = [pc EXCEPT ![t] = "ended"]
  /\ heap' = [heap EXCEPT ![Name(t)] = "freed"]
  /\ UNCHANGED <<refs, starter>>

CallStarts(t) ==
  /\ pc' = [pc EXCEPT ![t] = "setThreadId", ![Name(t)] = "fetch"]
  /\ heap' = [heap EXCEPT ![Name(t)] = "live"]
  /\ refs' = [refs EXCEPT ![Name(t)] = 1]
  /\ starter' = [starter EXCEPT ![Name(t)] = t]

Call(t) ==
  /\ pc[t] = "call"
  /\ heap[Name(t)] = "none"   \* a bound: one object for each name
  /\ IF Name(t) \in Missing THEN CallFails(t) ELSE CallStarts(t)
  /\ UNCHANGED <<ip, flags, waits, links>>

\* Component_create writes the handle after the thread has begun.
SetThreadId(t) ==
  /\ pc[t] = "setThreadId"
  /\ Goto(t, "construct")
  /\ UNCHANGED <<ip, flags, waits, starter, links, memory>>

IncRef(x) == refs' = [refs EXCEPT ![x] = @ + 1]
DecRef(x) == refs' = [refs EXCEPT ![x] = @ - 1]

\* Mutant: the typed object takes no reference.
ConstructUncounted(t) ==
  /\ pc[t] = "construct"
  /\ Goto(t, "push")
  /\ UNCHANGED <<ip, flags, waits, starter, links, memory>>

\* The typed object for the scope and the wait list takes a reference.
Construct(t) ==
  /\ pc[t] = "construct"
  /\ IncRef(Name(t))
  /\ Goto(t, "push")
  /\ UNCHANGED <<ip, flags, waits, starter, links, heap>>

Push(t) ==
  /\ pc[t] = "push"
  /\ wait' = [wait EXCEPT ![t] = <<Name(t)>> \o @]
  /\ Done(t)
  /\ UNCHANGED <<flags, joining, starter, links, memory>>

-----------------------------------------------------------------------------
(***************************************************************************)
(* component_cleanUpAndStop.  GC_decRef decrements under a lock and then   *)
(* reads the count again, which are two steps.                             *)
(***************************************************************************)
\* Mutant: the typed object is taken for the component in it.
ReapWrapper(t) ==
  /\ pc[t] = "reap"
  /\ IF wait[t] = << >>
     THEN /\ Goto(t, "dropSelf")
          /\ UNCHANGED waits
     ELSE /\ Goto(t, "join")
          /\ wait' = [wait EXCEPT ![t] = Tail(@)]
          /\ joining' = [joining EXCEPT ![t] = <<Head(wait[t])>>]
  /\ UNCHANGED <<ip, flags, starter, links, memory>>

\* Components are joined in the reverse order of their start.
Reap(t) ==
  /\ pc[t] = "reap"
  /\ IF wait[t] = << >>
     THEN /\ Goto(t, "dropSelf")
          /\ UNCHANGED waits
     ELSE /\ Goto(t, "join")
          /\ wait' = [wait EXCEPT ![t] = Tail(@)]
          /\ joining' = [joining EXCEPT ![t] = Head(wait[t])]
  /\ UNCHANGED <<ip, flags, starter, links, memory>>

Join(t) ==
  /\ pc[t] = "join"
  /\ pc[joining[t]] = "ended"
  /\ Goto(t, "dropJoined")
  /\ UNCHANGED <<ip, flags, waits, starter, links, memory>>

FreeIfUnused(x) ==
  heap' = IF refs[x] <= 0 THEN [heap EXCEPT ![x] = "freed"] ELSE heap

\* Mutant: the reference of the wait list is kept.
JoinedKept(t) ==
  /\ pc[t] = "dropJoined"
  /\ Goto(t, "freeJoined")
  /\ UNCHANGED <<ip, flags, waits, starter, links, memory>>

DropJoined(t) ==
  /\ pc[t] = "dropJoined"
  /\ DecRef(joining[t])
  /\ Goto(t, "freeJoined")
  /\ UNCHANGED <<ip, flags, waits, starter, links, heap>>

\* Mutant: one component is waited for, not all.
FreeJoinedOnce(t) ==
  /\ pc[t] = "freeJoined"
  /\ FreeIfUnused(joining[t])
  /\ Goto(t, "dropSelf")
  /\ UNCHANGED <<ip, flags, waits, starter, links, refs>>

FreeJoined(t) ==
  /\ pc[t] = "freeJoined"
  /\ FreeIfUnused(joining[t])
  /\ Goto(t, "reap")
  /\ UNCHANGED <<ip, flags, waits, starter, links, refs>>

DropSelf(t) ==
  /\ pc[t] = "dropSelf"
  /\ DecRef(t)
  /\ Goto(t, "freeSelf")
  /\ UNCHANGED <<ip, flags, waits, starter, links, heap>>

FreeSelf(t) ==
  /\ pc[t] = "freeSelf"
  /\ FreeIfUnused(t)
  /\ Goto(t, "ended")
  /\ UNCHANGED <<ip, flags, waits, starter, links, refs>>

-----------------------------------------------------------------------------
\* The objects whose memory the next step of t reads or writes.
Touched(t) ==
  CASE pc[t] \in {"none", "ended"} -> {}
    [] pc[t] \in {"stop", "connect", "setThreadId", "construct"} -> {t, Name(t)}
    [] pc[t] = "connectOther" -> {t, Other(t)}
    [] pc[t] \in {"join", "dropJoined", "freeJoined"} -> {t, joining[t]}
    [] OTHER -> {t}

\* A step that uses freed memory may do anything: behaviours end before it.
UsesFreed == \E t \in Components : \E x \in Touched(t) : heap[x] = "freed"

Executing == ~exited /\ ~UsesFreed

Step(t) ==
  /\ Executing
  /\ UNCHANGED exited
  /\ \/ Fetch(t) \/ Constructor(t) \/ Stop(t) \/ BehaviourJump(t) \/ Fatal(t)
     \/ Connect(t) \/ ConnectOther(t) \/ \E u \in Components : Meet(t, u)
     \/ Call(t) \/ SetThreadId(t) \/ Construct(t) \/ Push(t)
     \/ Reap(t) \/ Join(t) \/ DropJoined(t) \/ FreeJoined(t)
     \/ DropSelf(t) \/ FreeSelf(t)

\* main() has joined the thread of the main component, and returns: the
\* process ends, whatever the other threads are doing.
MainReturns ==
  /\ Executing
  /\ pc[Main] = "ended"
  /\ exited' = TRUE
  /\ UNCHANGED <<pc, ip, flags, waits, starter, links, memory>>

Gone == exited /\ UNCHANGED vars

Next == (\E t \in Components : Step(t)) \/ MainReturns \/ Gone

\* The system runs every thread that can run.
Fairness == (\A t \in Components : WF_vars(Step(t))) /\ WF_vars(MainReturns)

Spec == Init /\ [][Next]_vars /\ Fairness

-----------------------------------------------------------------------------
(***************************************************************************)
(* Properties.                                                             *)
(***************************************************************************)
\* A component that gives up its own reference, or has ended, started only
\* components that have ended (waitComponents: they "must be waited on before
\* this Component may terminate").
EndsLast ==
  \A x \in Components : starter[x] # NULL =>
    (pc[starter[x]] \in {"dropSelf", "freeSelf", "ended"} => pc[x] = "ended")

\* p has started y, and not yet taken its own reference to it.
Making(p, y) == pc[p] \in {"setThreadId", "construct"} /\ Name(p) = y

\* No component has ended, with no reference left, while the CALL that started
\* it is still to take its own: nothing but the work of the components sees to
\* that, for component_call starts the thread first.
InTime ==
  \A p, y \in Components : Making(p, y) => pc[y] # "ended" \/ refs[y] > 0

\* No thread is about to use a component that has been given back: an object
\* is freed "if the memory is now not pointed to by anything" (GC_decRef).
NoUseAfterFree == ~UsesFreed

\* The thread of x ended in a CALL that failed.
CallFailed(x) ==
  pc[x] = "ended" /\ ip[x] <= Len(Program[x]) /\ Instruction(x).op = "call"

\* When the machine ends normally every component has been given back: the
\* reference of the thread, that of the typed object, and the two decrements
\* of child and parent balance, in whatever order they happen.  Those that
\* end in a failed CALL leak.
AllFreed ==
  exited => \A x \in Components : heap[x] = "live" => CallFailed(x)

\* The machine ends: the wait for `running`, the rendezvous, the stop flags
\* and the joins, however they interleave, do not wait for each other for
\* ever.
MachineEnds == <>exited
=============================================================================
