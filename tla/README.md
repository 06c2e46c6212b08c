# A verification project for the Insense virtual machine (InsenseCVM)

InsenseCVM runs Insense programs: components that share nothing and talk over
typed, synchronous channels. Each component is a thread that interprets its own
bytecode. This directory holds TLA+ modules that model parts of the machine, the
TLC configurations that check them, and TLAPS proofs about them.

Paths below are relative to the repository; line numbers are those of the commit
that `PROJECT.json` maps.

## 1. Inventory

| Component | State | Operations | Interacts with | Hard behaviour |
|---|---|---|---|---|
| Channels, `Channels/channel.c` | per channel: `ready`, `buffer`, `connections`, `mutex`, `conns_sem`, `blocked`, `actually_received`; one global `conn_op_mutex` | `channel_create`, `channel_bind`, `channel_unbind`, `channel_send`, `channel_receive`, `channel_select` (stub) | called by the threads of all components; uses semaphores and lists | everything concurrent: who claims whom, lost wakeups, lock order, lists changed while they are read |
| Semaphores, `Channels/my_semaphore.c` | a counter, a mutex, a condition variable | init, wait and post, in a counting and a binary form, destroy | used by channels only | the waits test with `if`: stolen and spurious wakeups |
| Recursive mutex, `Channels/my_mutex.c` | owner, count | lock, unlock | nobody calls it | |
| Iterated list, `Collections/IteratedList*.c` | nodes, `first`, `next` (a rotating iterator), `last` | insert at head and tail, remove, removeAll, next, n-th, length, contains, rewind, search | channels, list maps, parameters | one iterator shared by threads; `last` goes stale |
| List map, `Collections/ListMap.c` | an iterated list of entries | declare, get, put | channel tables, scopes | searches move the shared iterator |
| Stack, `Collections/Stack.c` | linked nodes, size | push, pop, peek, clear | data stack, wait list, scopes | reference counts |
| Garbage collector, `GC/GC_mem_common.c` | a reference count per object, one mutex | alloc, assign, incRef, decRef, free | everything | the count is read again after the mutex is released |
| Scope stack, `ScopeStack/ScopeStack.c` | a stack of maps | enter, exit, exitTo, declare, load, store | the interpreter | how many scopes a jump leaves; undeclared names |
| Component, `Component.c`, `UnixVM/Component.c` | program position, data stack, scopes, channels, `running`, `stop`, `waitComponents` | `component_run` and one function per instruction; create, exit, join | everything | start before the parent has its references, stop flags that a blocked component never reads, joins that never end |
| Procedures, typed objects | a jump position and parameters; a type and a value | construct, get, set, compare | the interpreter | |
| Main, standard functions, strings, logging | - | start-up, built-ins, output | | |

What makes each one correct:

* Channels. Every operation is claimed by exactly one counterpart. No wakeup is
  lost and none is left behind. A send returns only when one receiver has its
  message, and the message it has is that one. No two ready channels that are
  connected wait for each other. Nobody deadlocks. A connection is in both lists or
  in neither. Unbinding removes all connections. Every return releases every lock.
* Semaphores. A semaphore admits no more threads than it was posted.
* Lists. The iterator points into the list and a full turn of it meets every element;
  nothing is written through `last` when it points elsewhere; no node is lost.
* Collector. An object is freed once, and not while something refers to it.
* Scopes. A name means its innermost declaration, and leaving a block or a procedure
  restores the meanings from before it.
* Interpreter. Whatever reads the file, to execute or to skip, stays in step with the
  instructions in it. What the compiler accepted runs with every name, type and operand
  it needs. The i-th argument is bound to the i-th parameter. A behaviour that repeats
  for ever piles nothing up.
* Components. A component that was told to stop stops, everything it started is
  joined, and the machine then ends.

The `hazards` of `PROJECT.json` name the lines where these can go wrong.

## 2. Plan

Done, in this order:

1. Channels: `MySemaphore`, `ConnectionList`, `Channel`; the promise `Rendezvous` and the
   refinement `ChannelRendezvous`; `MCChannel`; the proofs `ConnectionListProofs` and
   `ChannelProofs`, which has the refinement too.
2. Components among each other: `Lifecycle` (over rendezvous as `Rendezvous` promises
   them), `MCLifecycle`, `LifecycleProofs`.
3. One component inside: `Bytecode`, `TypedObject`, `ScopeStack`, composed in
   `Interpreter`; `MCInterpreter`; `InterpreterProofs`, on components that execute any
   bytes, which has the lemmas on scopes too; `CompiledCode`, what can be seen in the files
   of a program without executing them, and `CompiledProofs` on the components that execute
   such files.
4. Lists: the promise `AbstractList` (over `ConnectionList`), the pointers in
   `IteratedList` with the refinement between them; `MCIteratedList`;
   `AbstractListProofs` and `IteratedListProofs`; the lemmas on data that the proofs
   share, `DataLemmas`.

Next:

* Models: the reference counts of values and collections, with `GC_assign`; the file of
  the main component, which the global procedures of all threads share.

## 3. The modules and the code

### MySemaphore
`my_sem_t` as a record: `value`, the threads `waiting` in the condition variable, and
the threads `woken` by a signal that have not yet run. `my_sem_wait` is two steps, up
to `pthread_cond_wait` (`MyMustBlock`, `Block`) and the decrement (`MyMayTake`,
`MyTake`); a woken thread decrements without looking at the counter again, as the code
does. Between the two steps any other thread may take the semaphore. A post wakes any
one of the waiting threads. `SpuriousWakeups` says whether `pthread_cond_wait` may
return without a signal, which POSIX allows.

### ConnectionList
A list is the sequence of its payloads and the payload at the iterator. This is enough
for `channel.c`, where a payload occurs once in a list (`channel_bind` asks
`containsElement` first). `last` is left out because no function used by `channel.c`
reads it. Each function of the list is one step: the word-by-word races of
`getNextElement` with an insertion that runs at the same time are below this module.

### Channel
The threads execute programs of calls, the arguments of CONNECT, DISCONNECT, SEND and
RECEIVE in `Component.c`; a thread sends on and receives from channels it owns, as
`component_send` and `component_receive` look their channel up in their own component.
`pc[t]` is the next step of the call. One step is: taking a lock; a semaphore
operation; the section between two such points; or an access to shared memory that no
lock protects (`Count`, `ScanNext`). Unlocking, and posting a semaphore just before
unlocking or returning, belong to the step they end: a release never waits, and a
thread that is let in by it does the same whether it comes a moment sooner or later.
`channel_send` and `channel_receive` differ only in what they do with the data, so
their common steps are one definition each.

| Code | Actions |
|---|---|
| `channel_create` 34-56 (memory from `GC_alloc` is zero) | `Init` |
| 164 / 208 `binary_sem_wait(conns_sem)` | `Enter` |
| 165-169 / 209-213 | `Arm` |
| 172 / 216 length, unprotected | `Count` |
| 176 / 220 next connection, unprotected | `ScanNext`, `ScanEnds` |
| 178-179 / 222-223, 86-87, 130-131 both mutexes | `LockIn`, `LockOut`, and `Fault` for a NULL connection |
| 181, 197-198 / 225, 242-243 | `Test` |
| 182-188 | `SendTransfer` |
| 189 | `AwaitReceived` |
| 192-194 / 237-239 | `Leave` |
| 202-203 / 247-248 | `LeaveAndPark`, `ParkBlocks`, `SendUnparks`, `ReceiveUnparks` |
| 226-234 | `ReceiveTransfer` |
| 250-251 | `Copy`, `Acknowledge` |
| `channel_bind` | `BindRefused`, `BindStarts`, `LockIn`, `LockOut`, `BindAgain`, `InsertLink` |
| `channel_unbind` | `UnbindStarts`, `UnbindNext`, `TakeIn`, `TakeOut`, `LockIn`, `LockOut`, `RemoveLink`, `UnbindEnds` |

`data[t]` is the memory behind the data argument of t's call, and `buffer` a pointer to
one of these. When a send returns, its caller may change that memory: the model puts
`Junk` there. `nd_received` is written and never read, and is left out with
`channel_select`, logging, and the exception handler.

A call whose thread dereferences NULL puts the system in `fault`, from where nothing
happens any more.

### Rendezvous and ChannelRendezvous
`Rendezvous` is what a programmer is told: an offered send and a waiting receive on
connected channels meet in one step, at which the receiver has the message, and both
return later. `ChannelRendezvous` maps the state of `Channel` to it. The meeting is the
step that clears both `ready` flags; a receiver that was found by a sender has, from
then on, the message its `buffer` points at, although it copies it only when it wakes.
That this memory does not change in between is part of what the refinement checks.

### Lifecycle
Each component runs a program of the instructions that create, connect, stop and end
components; `pc` is the next step of its thread in `component_run`, `component_call`,
`component_connect` or `component_cleanUpAndStop`.

| Code | Actions |
|---|---|
| `main` 66-76 | `Init`, `MainReturns` |
| `component_run` 115-227 | `Fetch`; `Fatal` for the many places that go to `component_cleanUpAndStop` |
| `component_constructor` 437-446 | `Constructor`, for a constructor that matches |
| `component_stop`, `component_behaviourJump` | `Stop`, `BehaviourJump` |
| `component_connect` 878-881, 905-908, 921 | `Connect`, `ConnectOther`: each waits for `running` |
| `component_send`, `component_receive` | `Meet`, a rendezvous on a connection |
| `component_newComponent`, `component_call` 334-356 | `Call`, which is `CallStarts` or `CallFails` |
| `Component_create` 39 | `SetThreadId` |
| `TypedObject_construct` 362 | `Construct`: the second reference |
| `component_call` 365-368 | `Push` |
| `component_cleanUpAndStop` 236-243, 254 | `Reap`, `Join`, `DropJoined`, `FreeJoined`, `DropSelf`, `FreeSelf` |

`heap` and `refs` are the memory and the count of component objects, the only objects
that two threads count. `GC_decRef` is two steps, the decrement under the lock and the
test of the count after it. A behaviour ends before a step that would use freed memory
(`UsesFreed`): nothing can be said of what follows. `starter` records who called a
component; it stands for the caller's scope, in which the names of a program are looked
up. A name stands for one component, so a program calls it once.

### Bytecode, ScopeStack and TypedObject
Pure operators, from which `Interpreter` is built.

`Bytecode` is the format of a file and the two ways `Component.c` reads it: what an
instruction consumes when it is executed (`AfterOperands`) and what `skipToNext` consumes
when it is skipped (`AfterSkipped`, `SkipToNext`). The two are separate because they are
separate in the code, and they differ. A file is a sequence of bytes, except that the
characters of a string are one number. So a string is its tag, a number above every
opcode, and the byte 0: a reader that starts in the middle of one goes as wrong as it does
in the program. Numeric operands have their real length and are small. The names under
which a call keeps where it came from, "_returnAddress" and "_returnSource", are the
negative numbers -2 and -3, which no byte is: a program is taken not to use names that begin
with an underscore.

`ScopeStack` is `ScopeStack.c` over maps as in `ListMap.c`: a sequence of levels, each a
function from the names declared in it to values or NULL. Where a name is looked up and
where it is stored are two conditions, `Holding` (has a value) and `Declaring`.
`ScopeStack_exitTo` counts levels as the loop of the code does.

`TypedObject` is values and what `component_expression` computes: which operand types are
accepted, the type of the result, and the number. A result that the type cannot hold, a
division by zero and an inexact division give any of `Unspecified`.

### Interpreter
One component that runs its file. One step is one turn of the loop of `component_run`: an
instruction with all it reads, calls and changes. There is one action per opcode (`PROCCALL`
and `STRUCT` have one for each of their cases), in the order of the `switch`.

| Code | Model |
|---|---|
| `sourceFile` and its position | `file` ("own", or "main" in a global procedure) and `pos` |
| `running`, `stop`, `inProjectBlock` | `running`, `stop`, `inProject` |
| `dataStack` | `stack`, sequence of objects, the top first |
| objects from `GC_alloc` | `heap`; an allocation takes objects that nothing reaches (`Reachable`), which is what correct reference counts provide |
| `parameters`, `channels`, `procs` | the same names |
| `exit` or a crash in the middle of an instruction | `Fails`: `Refuses` for what logs FATAL, `Crashes` for a NULL or unset pointer that is used, HUNG for a search that never ends |
| `component_constructor` 376-462 | `FittingConstructor` is the loop over the constructors of the file, `Construct` what it does with the one it chose |
| the iterators of its two lists | `ParameterTypes` (where the first comparison starts), `RingOrder` (the ring `insertElementAtTail` makes) |
| `component_procCall`, own, global, standard | `CallOwn`, `CallGlobal`, `CallStandard` |
| `component_procReturn`, `component_blockEnd` | `Return`, `BlockEnd` |
| other components | `Receive` (any message of the program's set), `StoppedByOther` (STOP), `Send`; the file names and channels in `program.interfaces`, for `Call`, `Connect` and `Disconnect` |
| `component_newComponent` 91-94, a CALL without a file | `FileMissing`, in `Refuses`: the caller's thread ends |
| `component_connect` 884-887, 912-915, `component_disconnect` 948-951, a channel that is not found | `PeersDeclared`, in `Refuses`; `DisconnectsEarly` for one that is not there yet |

A component object has the name of its file for a value, and `program.interfaces` says
which channels that file declares. CONNECT waits until the other component runs, and has
declared them; in the model it is executed or not, and the wait may be for ever. DISCONNECT
does not wait, so it may find the channel or not (`DisconnectsEarly`, a step of `Fails`):
how far the other component has come is left open, and stays open after a CONNECT.

`calls` and `astray` are no state of the program. They record the calls under way, and
whether a return went to another file than its call came from; only properties read them.

### CompiledCode
No part of the code, but what the proofs suppose of the files it executes, as `Compiled` of a
program, and `NamesApart`; section 5 says what they are. The instructions of a file are the positions in `starts`,
and where they lead is computed with the reading operators of `Bytecode`. `MCInterpreter`
puts its programs together as the compiler does, and assumes both of them, so that TLC
evaluates them of each.

### AbstractList and IteratedList
`AbstractList` is the promise: a list as in `ConnectionList`, the element that was last
returned, and whether other threads may move the iterator. `IteratedList` is the code on
nodes and pointers, with `first`, `next`, `last`, the payload and tail of every node, and
which nodes are allocated; a freed node may be allocated again. Each behaviour is one of the
five usages the machine has for a list, because the operations that meet on one list are
what makes `last` and the iterator right or wrong:

| Usage | In the code | Operations |
|---|---|---|
| connections | `channel.c` | insert, remove anywhere, next, n-th |
| stack | `Stack.c`, `ScopeStack.c` | insert, remove the first, n-th |
| parameters | `component_call`, `component_constructor` | insert, n-th, next, rewind |
| names | `component_constructor` 404-435 | insert at the tail, rewind, next |
| map | `ListMap.c` for the channels of a component | insert, get, put; then searches by several threads |

All end in `IteratedList_decRef`. On lists that one thread has to itself an operation is one
step. `IteratedList_searchList` on a shared map is one step per access to the list
(`ReadPayload`, `ReadTail`, `MoveOn`, `Check`, `Wrap`), for nothing locks it. `overlapped`
says that another search ran meanwhile; only properties read it. Where nothing is removed
`FreeNodes` picks one free node, and in a map `NewElements` picks one new key: the choices
left out are renamings of the one taken.

## 4. Runs

| Run | Instance | Result |
|---|---|---|
| `fanout` | three components and a main thread that binds, one message; sender and receivers repeat for ever; no deadlock allowed | `OneToken`, `NoMissedMatch`, `DataStable`, `ImplementsRendezvous`, `SendsReturn` hold |
| `reconnect` | a sender, a receiver, and a main thread that binds, unbinds, binds, binds; two messages | `OneToken`, `DataStable`, `Symmetric`, `UnbindDisconnects` hold; the program may stop or fault (below) |
| `connsem` | an output that sends once, connected to two inputs and then unbound | `ConnectionsExclusive` fails |
| `fanin` | two senders, one receiver | `DataStable` fails |
| `unbind` | one output connected to two inputs, then unbound | `UnbindDisconnects` fails |
| `relock` | as `reconnect` | `LocksReleased` fails |
| `lifecycle` | main calls, and connects, components that receive and fail, send, loop until stopped, and call a missing component | `TypeOK`, `EndsLast`, `InTime`, `NoUseAfterFree`, `AllFreed`, `MachineEnds` hold |
| `early` | main calls a component that has nothing to do | `NoUseAfterFree` fails |
| `missing` | a component calls one, then calls a missing one | `EndsLast` fails |
| `interpreter` | 178 programs, each run by one component | `TypeOK`, `InStep`, `OnlySkippingFails`, `BehaviourSettles`, `ReturnRestores`, `VariablesKept`, `ArgumentsInOrder`, `CallsReturn` hold |
| `constructor` | a component whose only constructor takes a text and a number | `Constructed` fails |
| `lists` | three elements, three nodes, two threads, all five usages | `TypeOK`, `NodesAccounted`, `NoWildWrite`, `IteratorSettles`, `AloneFinds`, `NamesRead`, `ImplementsList`, `SearchEnds` hold |

Bounds. The races of `fanout` are between two receivers over one sender, with a thread
that changes the lists they read: four threads and three channels. For `OneToken`,
`Symmetric`, `DataStable` and the refinement, the theorems of section 5 say that nothing
else happens in larger instances, and for `NoMissedMatch` that nothing else does in larger
instances of the same shape; in others it does, see below. The senders and
receivers repeat, so one operation may overlap with what the one
before it left behind; the state space is finite without a bound on counters. One
message suffices in `fanout`, where a wrong one would be `Junk`, the content of memory
nobody sent; `reconnect` uses two. `SpuriousWakeups` is FALSE in all runs.

In `lifecycle` no child ends before its parent has its reference (`InTime`): one waits for
the connection that main makes, one for the stop, and the one whose CALL fails never
releases its object. So `NoUseAfterFree` says there that the counts balance and the joins
order the last two decrements. That programs without `InTime` are not safe is what `early`
shows; that all others are is a theorem. Main has three children, one of them a child of its own, so that a list of several
entries is emptied while other lists grow.

Deadlock checking is off where a program can really stop: in `reconnect` two calls can
park with nobody left to find them, and `relock` leaves mutexes locked.

`interpreter`: programs are put together as the compiler does it, so that the distances of
jumps are computed from the code they pass over and the states are those of real programs.
Eleven follow the programs the repository comes with (`InsensePrograms`) and cases they
leave out: a return from a block, a global procedure that calls another, a project with no
block for what arrives. Four are main programs that connect and disconnect, in the main
text and from a procedure, the components they have called, and call one that has no file.
108 combine every two of six statements (assignment, a block that hides a variable, a
branch, calls of an own and of a global procedure that use the caller's names, a message
taken apart) in a sequence, as the branches of a condition, and in a loop. 55 have code
that `skipToNext` passes over: five kinds of statement as the body of a procedure and,
each with each, as the blocks of a project, with and without a call after it. Behaviours
repeat until a STOP that may come at any time. Arithmetic in them is modulo a small
number, which keeps the states finite (about 36 000). `MaxObjects` = 14 is more than any
of them has reachable at once: an action that found no free object would stop the
component, and `CallsReturn` or the deadlock check would fail.

`lists`: three elements are the least where a node has neighbours on both sides and a ring
loses one; a second turn of the iterator is reached because readings may go on. Two threads
are enough for every pair of overlapping accesses. 147 000 states.

Fairness. Each thread is weakly fair: a thread of the operating system that can run
does. A mutex or a semaphore is not fair in itself: a thread can be passed for ever by
others that take it, which `SendsReturn` tolerates in `fanout` because each channel's
locks are wanted by few threads that themselves must wait in turn. In `Lifecycle` too
every thread is weakly fair, and so is main(). In `Interpreter` the component is weakly
fair in what it does alone (`Alone`). Nothing is assumed of the others: a SEND, RECEIVE or
CONNECT may wait for ever and a STOP may never come, so `CallsReturn` is about procedures
that do none of these. In `IteratedList` a thread does not stop in the middle of a search;
it need not begin one.

### What the properties leave out
Several properties hold because they name the case in which the code does something else;
these cases are part of what the runs show.

* `NoMissedMatch` holds of `fanout`, where one end of every bind has no connections yet and
  no output has more than two. It is not true of all programs. A bind does not look whether
  both of its ends are parked (97-101): connect an output and an input that each wait on
  another connection, and both go on waiting. And the length of the list is counted (172)
  before the scan. If a third connection is inserted in between, and the iterator does not
  stand at the head, the scan goes to the new head in place of the last old element, which
  may be the one that is parked. TLC finds both in some 40 steps when a fourth channel is
  added; where neither can happen, the property is a theorem (section 5). In `reconnect`, where both ends can park on a list that an unbind has emptied, the
  property is not checked.
* `OnlySkippingFails` names where an accepted program fails, and says that it is nowhere
  else. `skipToNext` takes the distance of a jump for a string (1468-1476) and misreads STRUCT,
  CALL and PROJECT_ENTRY, so a procedure or a project that contains one of these may be
  refused where it is declared or entered. After the body of a constructor that is
  skipped one byte too many is consumed (387-388), so a component that is constructed by
  the first of two constructors ends at the second. `DEMO3` has two constructors.
  It also excepts the two ways a component ends for want of another one (`LacksOther`): a
  CALL of a component that has no file, and a DISCONNECT that comes before the other
  component has declared the channel. `CallsReturn` excepts them too. The
  programs of the run name no channel that the other's file lacks, as those of
  `InsensePrograms` do not; one that did would end there (`PeersDeclared`).
* Projects: both ways out of one consume PROJECT_EXIT without executing it (1249, 1288), so
  the scope of the project is never left and `inProject` is never reset, although
  `Component.h` 62 says that it "marks if a project block is being executed". A procedure
  without RETURN that is called from then on does not return: its end is taken for the end
  of a project's block. `CallsReturn` and `BehaviourSettles` except this.
* `astray`: a global procedure that calls another one overwrites nothing, but both keep
  "back to the component's own file" in their scopes; the inner one then returns to a
  position of one file in the other.
* `ReturnRestores` and `BehaviourSettles` except a RETURN from within a block: `exitTo`
  leaves one level too few there, and the procedure's scope stays, with a return address
  in it.
* `VariablesKept` excepts NOT, which changes the object itself.
* `NamesRead`, and `ArgumentsInOrder` for constructors, tell the order only up to two
  names. With three, the ring gives the first, the third, the first.
* `AloneFinds` is about searches that no other overlaps. Two that do overlap can miss an
  element, go on for ever, or use NULL; the run reaches all of these.

### What the failing runs show
* `connsem`: `channel_bind` posts `conns_sem` (106-107) although the owner of the
  channel may hold it. In the trace the channel has a connection, its owner takes the
  semaphore for a send, a second connection is made, which sets the semaphore to 1, and
  `channel_unbind` takes it too and changes the list the owner iterates over. Lines
  104-105 and `channel.h` 45 call the semaphore a mutex. There is a second way to the same
  state, which needs no second connection: the owner waits for its first one, the bind
  signals it, `channel_unbind` takes the semaphore before it wakes, and it does not look
  again (`my_semaphore.c` 37). Either way the owner may find the list empty: `match->mutex`
  on NULL (178).
* `fanin`: `actually_received` counts for a receiver, not for a sender. With two senders
  the second can use the acknowledgement of the first, and goes on before its own data
  were copied (`channel.h` 47 says that this is what the semaphore prevents).
* `unbind`: the loop of `channel_unbind` skips every second connection.
* `early`: `component_call` starts the thread (356) before `TypedObject_construct` takes a
  reference (362). A child that ends in between drops the only one, and the parent goes
  on with a freed object. `GC_mem_common.c` 152: "If the memory is now not pointed to by
  anything, free it."
* `missing`: when the file of a component cannot be opened, `component_newComponent` calls
  `component_cleanUpAndStop` for the new object (93), which ends the thread of the caller
  without the caller's joins. `Component.h` 57: components started "must be waited on
  before this Component may terminate".
* `relock`: binding two connected channels again leaves both mutexes locked.
* `constructor`: the parameters of a component were put at the head of their list
  (`Component.c` 349), whose iterator stayed at the last of them. The first constructor is
  compared from there (407), and the list is rewound only after a mismatch (452): one that
  takes a text and a number is skipped when it is given a text and a number.
  `Component.h` 70 says that the list is "in the order expected by the component".

## 5. Proofs

For every set of threads and channels, every owner and program that satisfy
`ChannelAssumption` and `ProgramAssumption`:

* `TypeCorrect`: `Spec => []TypeOK`, with or without spurious wakeups. The inductive
  invariant `TypeInv` adds what the types of a later step depend on: at which steps
  `match` is a channel and which one, and that the iterator of every list is one of its
  elements (`ListOK`). The latter rests on `InsertList`, `RemoveList` and `RotateList` of
  `ConnectionListProofs`.
* `OneTokenAlways`: `~SpuriousWakeups => (Spec => []OneToken)`. `TokenInv` adds who holds
  which mutex between `LockIn` and the release (`Held`), that what `Test` saw is still
  so at the claim (`SeenReady`), and that only the owner of a channel waits on its
  `blocked` (`OwnerWaits`). With these, a claim is made by the one thread that holds
  both mutexes, of channels that are both still ready and so have no token: it gives
  one to the other owner and none to its own. The steps that touch none of this are
  shown once to be `Quiet`. That programs bind and unbind does not weaken the theorem:
  it holds in the failing runs too. A woken thread does not look at the counter, so
  without the assumption on wakeups an owner could take a token that is not there.

* `SymmetricAlways`: `Spec => []Symmetric`, for all programs, those that unbind from
  several threads included. Between the look at one list (`BindAgain`, `UnbindNext`) and
  the change of both there are two lock operations. `SymmetryInv` says what stays true
  meanwhile: the thread holds `connOp`, the two are still (not) in each other's lists, and
  every list has only channels that the program connects, so that the two are never one.
* `DataStableFromOneSender`: `OneSender /\ ~SpuriousWakeups => (Spec => []DataStable)`.
  `OneSender` is about the program: all outputs that it binds to an input have one owner.
  `fanin` shows that it is needed. `DataStable` speaks of a moment, and the invariant
  `HandOver` of the whole exchange: the sender of a claimed receive waits for
  `actually_received` exactly as long as the receiver has a token to wake up with, is
  between waking and the acknowledgement, or has acknowledged, one of the three; and
  the receiver's `buffer` is that sender's. The proof rests on `TokenInv`, because a
  receiver that could wake up twice would acknowledge twice, and on `SymmetryInv`, which
  gives the two ends of a claim their directions and owners.
* `ChannelsImplementRendezvous`: under `OneSender`, `NeverUnbinds` and
  `~SpuriousWakeups`, `Spec => ImplementsRendezvous`. Every step maps to a step of
  `Rendezvous` or changes nothing there: `Arm` to an offer or a wait, `SendTransfer` and
  `ReceiveTransfer` to the meeting, `InsertLink` to a connection, the return of a call to
  its return. `RendezvousInv` adds that the counterpart of a call is still connected when
  they meet. This is where `NeverUnbinds` is needed: `conns_sem` does not keep
  `channel_unbind` away from a call that scans (`connsem`), so two channels can meet just
  after they were disconnected. In `fanout` the same refinement is model-checked.

* `NoNullConnection`: under `NeverUnbinds` and `~SpuriousWakeups`, `Spec => []~Faulted`: no
  thread uses a NULL connection. The list is read with no mutex held, and nothing but
  `conns_sem` keeps a call from a list without elements: `EntryInv` says that the semaphore
  of a channel without connections is 0 and no call is past it.
* `NoMissedMatchInSmallStars`: under `SmallStars`, `NeverUnbinds` and `~SpuriousWakeups`,
  `Spec => []NoMissedMatch`. `SmallStars` is about the program: of the two ends that a bind
  connects one is connected to nothing else, and no channel to three others. These are the
  limits of the property, not of the proof: beyond each of them it fails (section 4).
  `NoMissedMatch` only speaks of two calls that wait already. The invariant, `Meets`, speaks
  of any two connected channels that are ready: the owner of one of them still has the other
  one before it (`Seeks`), as the counterpart it is about to test or among those its scan is
  going to come to (`Ahead`). It is kept because `Arm` comes before `Count`; because two ends
  that are both locked are tested together; because a list of two that the iterator goes
  round twice shows both, also when the second was inserted between `Count` and `ScanNext`;
  and because a connection has an end that was empty before, which is not ready (`EntryInv`).
  The other invariants are needed too: a thread that waits has a channel that is ready
  (`WaitsReady`, from `TokenInv`), and each end of a connection is in the other's list
  (`SymmetryInv`).

For every set of components and every program that satisfy `LifecycleAssumption`:

* `LifecycleTypeCorrect`: `Spec => []TypeOK`. Its invariant adds at which steps a thread is
  inside which instruction (`Placed`), and that only allocated objects have a thread
  (`Allocated`), so that a CALL never starts a thread that runs already.
* `EndsLastAlways`: `Missing = {}` implies `Spec => []EndsLast`. `EndsLast` alone is not
  inductive: nothing in it says that a started component is known to its starter. `Accounted`
  does: it is in the wait list, between the start and the push, or being joined. `Reaped`
  adds that the list of a thread past its waiting is empty. The assumption is needed, as
  `missing` shows. The theorem is about behaviours up to a use of freed memory.

* `FreedIsUnused`: `Spec /\ []InTime => []NoUseAfterFree`, failing CALLs included.
  `InTime` says that no component has ended, with no reference left, while the CALL that
  started it has still to take its own (356-362 of `Component.c`). So this window, which
  `early` hits, is the only cause of a use after free. The invariant `RefsInv` says who
  owns what: a component has at most two owners, its thread until `DropSelf`
  and its starter from `Construct` to `DropJoined` (`Holding`), and `refs` is their number
  (`Counted`), or one too many after a CALL that failed. `Remembers` and `LookedUp` connect
  this with the names that the instructions of a program use: what an instruction names was
  started by the same thread and is still held by it. `FreedRight` covers the second half
  of `GC_decRef`, which reads the count after the lock: the starter drops its reference
  only after the join, so of the two that may see 0 one has ended before.
* `NothingLeaks`: `Missing = {}` implies `Spec /\ []InTime => []AllFreed`. When main() returns
  all others have ended, because who started whom leads back to the main component
  (`Rooted`: every set of components has one whose starter is not in it); with
  `EndInv` all lists are empty then, so nothing has an owner. A CALL that fails leaks, hence the
  assumption.

For all elements:

* `ListAlwaysSound` (`AbstractListProofs`): the iterator of an `AbstractList` is always one
  of its elements, and a reading returns an element or NULL. It is one conjunction,
  inductive as it stands, over the lemmas of `ConnectionListProofs` for each operation.

For all elements, nodes, threads and usages that satisfy `UsagesAssumption` and
`AbsentAssumption`:

* `TypeCorrect`, `NodesAlwaysAccounted`, `NoWildWriteAlways`, `IteratorAlwaysSettles`,
  `AloneAlwaysFinds`, `NamesAlwaysRead` (`IteratedListProofs`): every invariant of the run
  `lists`, for lists of any length and any number of threads. They have one inductive
  invariant, `Inv`, because each part needs others:
  * `Row`: some sequence of nodes is the list (`Linked`): its nodes are the allocated ones,
    each is the tail of the one before, and no payload occurs twice. Except of connections
    `last` is its last node. That is why nothing is written through a `last` that was freed:
    where `last` is used, only the first node is ever removed, and if that was `last` the
    list is empty. Of connections any node can go, and nothing is written through `last`,
    because a connected channel is not given up.
  * `Ring` and `Reading`: the ring of names has two nodes, whatever was inserted, and the
    iterator is at one or the other according to how many were read.
  * `Iterator`: it is off the list only while a thread is about to wrap it round.
  * `Threaded` and `Alone`: a search that no other overlaps began at one place of the list,
    is at another, and has passed no element with its key in between, the turn from the
    end to the start included. From this follows that the search that comes back to where
    it began has seen all.
* `ListImplemented`: `Spec => ImplementsList`. Each operation maps to the one of
  `AbstractList` over the payloads of `Linked`'s sequence. The removal of the element at the
  iterator, the last one included, moves the iterator where `RemoveElement` of
  `ConnectionList` does.

`OnList` and the n-th element are recursive definitions in the model (the least set that
contains `first` and is closed under `tail`; a function on numbers). What they are of a
linked sequence needs inductions, which `DataLemmas` states as facts about sets of numbers
(`NatMin`, `SetInduction`): the library's induction theorems take an operator, the
well-foundedness of < on Nat does not.

For all stacks of scopes, of any height and with any names in them:

* `ReturnLeaves` (`InterpreterProofs`): exitTo and exitScope, as a return executes them, take
  a procedure's scope off the stack and nothing else if the procedure returns from its
  body; from within one or more blocks they take the blocks and leave the procedure's
  scope. This is the part of `ReturnRestores` that concerns scopes, and its exception.
* `LoadAfterStore`: in a stack that declares the name, a LOAD gives what STORE put, and any
  other name still stands for what it stood for. `LeftAsEntered`: entering and leaving a
  scope changes nothing. That levels with a name have an innermost one is `NatMin` again.

For all bytes in the two files, all arguments, messages and tables of procedures that
satisfy `ProgramsAssumption`, and any number of objects; no compiler need have made them:

* `MemoryAlwaysSound`: `Spec => []MemoryInv`. The data stack, the parameters, the variables
  and the references in objects are objects or, of the last two, NULL. It has the half of
  `TypeOK` that is about memory; the other half, that positions are positive, is not true of
  all bytes, for a JUMP may lead in front of the file. It is proved of compiled programs below.
* `VariablesAlwaysKept`: `Spec => VariablesKept`. The two reasons a variable could change
  behind the program's back are the two halves of the proof. An object that is
  made might be one that a variable has: `Ranked` says that `GC_alloc` chooses among the
  free, `RootsReached` that what a variable has is not free, by induction along the function
  that computes `Reachable`, and `MemoryInv` that it is an object at all. And a level might be
  changed or moved when others come and go: for every instruction that enters, leaves or
  binds, the levels that stay are the same, counted from the outermost (`Outer`,
  `EnterSound`, `ExitSound`, `ExitToSound`, `BoundInside`), however many levels `exitTo`
  counts. STORE changes the one that `InnermostIs` gives. The theorem is about the object a
  variable has: its type, its value and its references.

* `TypesAlwaysKnown`: `TypedFromOutside => (Spec => []TypesOK)`. If the arguments and the
  messages have types and no missing references, so has every object the component can
  reach, whatever bytes it executes: operators only compute from operands they accept, and no
  literal, declaration or cast without a type gets past the instruction that reads it.

For all programs that are `Compiled`, which is said in `CompiledCode` of their two files as
they lie there, with no execution in it:

* each instruction leads from its first byte to the first byte of an instruction of the same
  body, no deeper in scopes than it entered (`FitTogether`); so do the searches for the block
  of a project and for a constructor, from every place they are made at (`BlocksFound`,
  `ConstructorsFound`);
* a procedure has no procedure, constructor or project in it (`ProceduresPlain`), and
  procedures of the main program call none of the component (`GlobalsApart`);
* what comes from outside has types.

TLC evaluates this of every program that the runs execute (`MCCompiled`), those in which
skipping goes wrong included: where reading or skipping is refused, the component ends and
`Compiled` asks nothing. Not every sequence of bytes is `Compiled`, and the theorems below are
not true of all: a JUMP may lead anywhere.

* `CompiledAlwaysSound`: `CompiledPrograms => (Spec => [](MemoryInv /\ CompiledInv))`. It is
  the inductive invariant of the next four: types, status, and, `~astray`, `CodeInv`:
  * `PlaceOK`: the position is the first byte of an instruction; inside of a body there is,
    below, the scope of a procedure, at least as many scopes down as the body has entered
    (`InBody`).
  * `ProceduresOK`: the tables of procedures have the first bytes of bodies.
  * `FramesOK`: the record of every call has its scope (`Height`): its return address is the
    one of the record, and the scopes below have the names they had at the call.
  * `AddressesOK`: in its own file, or in a procedure called from it, every return address
    in a scope, also one of a call that a return left in place (`ReturnLeaves`), is the
    first byte of an instruction with enough scopes below it. Without this a second RETURN
    through that scope could be anywhere.
  `astray` says that a return has gone to the wrong file, which global procedures can do;
  from then on a component reads one file at the positions of the other and the position
  means nothing.
* `AlwaysInStep`: `Spec => []InStep`, and `AlwaysTypeOK`: `Spec => [](~astray => TypeOK)`, both
  of compiled programs. That what can be reached is typed is an induction along the function
  that computes `Reachable` (`SegmentInduction`). That skipToNext ends, and not before where
  it starts, is one along the bytes of a file of any length (`SkipEnds`).
* `AlwaysRestores`: `Spec => ReturnRestores`, of compiled programs: a return that finds the
  scope of its call goes to the instruction after the call, in the file of the call, with
  the names there were in each scope. `OnlyReturnsShorten` shows that no other instruction
  makes the list of calls shorter; the rest is `FramesOK` and `ReturnScopes`.
* `ArgumentsAlwaysInOrder`: `Spec /\ []~astray => ArgumentsInOrder`, of compiled programs in
  which names are told apart as well (`NamedPrograms`, which TLC evaluates too): the
  parameters of a declaration have different names, so have the procedures of a file, each
  list of parameters belongs to one constructor, and the global procedures are those of the
  main program. `ParametersOK` is the invariant: the entry under each name in the table of
  procedures is what the PROC of that name declares, reversed. `ArgumentsPopped` follows
  each argument from the stack into the scope of the call, past the names that a call adds;
  `ConstructorFound` gives the number of names of the list a constructor is given, and
  `RingOfTwo` the order in which they are read.

Only model-checked:

* of `Interpreter`, `OnlySkippingFails` and `BehaviourSettles`. They need more of a program
  than `Compiled` says: which names are declared where, and how many values lie on the data
  stack. What is proved does not say that a component ends well, only where it is as long
  as it runs;
* `TypeOK` and `ArgumentsInOrder` after a return that went to another file;
* `NoMissedMatch` of programs that are no small stars, of which it is not true in general;
* `UnbindDisconnects`, `ConnectionsExclusive` and `LocksReleased`, which the failing runs
  refute; `UnbindDisconnects` holds of `reconnect`, where no channel has two connections;
* the refinement of `Rendezvous` where the program unbinds: it is checked of no such program;
* liveness (`SendsReturn`, `MachineEnds`, `SearchEnds`, `CallsReturn`), which is out of the
  prover's reach.

## 6. Not modelled

* Of `Component.c`: string escapes; the width and the bits of numbers (a result that does
  not fit is any number); the reference counts of values, collections and procedures
  (`Interpreter` allocates what is unreachable, which is right as long as they are);
  redeclaring a name before it has a value, which makes two entries of a map where the
  model has one; programs that use a scope before their first ENTERSCOPE other than to
  crash; a program with a variable of its own called "_returnAddress".
* The `FILE` of the main component, on which the global procedures of all threads run at
  the same time, and move each other's position. `Interpreter` has one thread.
* Of `Lifecycle`: constructors that do not match their parameters, names passed as
  parameters, DISCONNECT, and what a component does when its counterpart has gone (it
  waits for ever, and so does whoever joins it).
* What overlapping searches find. `IteratedList` has the steps, and no property says
  more than that they can go wrong.
* Of the lists: the reference counts of payloads and nodes, and the race of a reading with
  an insertion. `Stack_peek` and `ScopeStack_size` have no caller.
* `GC_assign` as steps of its own.
* Functions that never run or do nothing: `channel_select` returns 0, `Channel_decRef` and
  `my_sem_destroy` are not reached, the recursive mutex has no caller.
* What standard functions do with their arguments, strings and logging: sequential, and
  without state that anything here depends on; and the bytes of messages.
