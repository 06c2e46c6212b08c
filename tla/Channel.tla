------------------------------- MODULE Channel -------------------------------
(***************************************************************************)
(* The channels of Channels/channel.c, run by the threads of a set of      *)
(* components.                                                             *)
(*                                                                         *)
(* A thread executes its program, the SEND, RECEIVE, CONNECT and           *)
(* DISCONNECT instructions of a component, one call after the other.  A    *)
(* call is a sequence of steps, and pc says which one is next.  A step is  *)
(* a lock, a semaphore operation, a section under one mutex, or an access  *)
(* to shared memory made without a lock.  Releases are joined to the step  *)
(* they end, since no thread can be stopped by one.                        *)
(*                                                                         *)
(* data[t] is the memory the data argument of t's call points at, so the   *)
(* buffer pointer of a channel is a thread.                                *)
(***************************************************************************)
EXTENDS MySemaphore, ConnectionList

CONSTANTS
  Threads,            \* the threads, one per component
  Ins, Outs,          \* the channels of direction CHAN_IN and CHAN_OUT
  Owner,              \* the thread whose component declares the channel
  TypeSize,           \* the size of a channel's messages
  Messages,           \* what can be sent
  Junk,               \* memory that holds nothing sent
  Program             \* the channel instructions each thread executes

Channels == Ins \cup Outs

Calls == [op: {"send"}, id: Outs]
           \cup [op: {"receive"}, id: Ins]
           \cup [op: {"bind"}, id: Channels, other: Channels]
           \cup [op: {"unbind"}, id: Channels]

(***************************************************************************)
(* A component sends on and receives from its own channels only            *)
(* (component_send and component_receive look them up in this->channels).  *)
(***************************************************************************)
ASSUME ChannelAssumption ==
  /\ Ins \cap Outs = {}
  /\ NULL \notin Channels \cup Threads
  /\ Owner \in [Channels -> Threads]
  /\ Junk \notin Messages

ASSUME ProgramAssumption ==
  /\ Program \in [Threads -> [calls: Seq(Calls), repeats: BOOLEAN]]
  /\ \A t \in Threads : \A k \in 1 .. Len(Program[t].calls) :
       LET call == Program[t].calls[k] IN
       call.op \in {"send", "receive"} => Owner[call.id] = t

VARIABLES
  pc,         \* the next step of each thread
  ip,         \* the call of its program each thread is at
  data,       \* the message in the memory a call is given
  match, i, length,                 \* the local variables of a call
  connOp,     \* conn_op_mutex: its holder or NULL
  mutex,      \* mutex of each channel: its holder or NULL
  ready, buffer, connections,       \* fields of each channel
  connsSem, blocked, received       \* conns_sem, blocked, actually_received

locals == <<match, i, length>>
locks == <<connOp, mutex>>
fields == <<ready, buffer, connections>>
sems == <<connsSem, blocked, received>>
vars == <<pc, ip, data, locals, locks, fields, sems>>

Steps == {"call", "enter", "arm", "count", "scan", "lockIn", "lockOut",
          "test", "transfer", "awaitReceived", "leave", "leaveAndPark",
          "park", "copy", "acknowledge", "bindCheck", "insert",
          "unbindStart", "unbindNext", "takeIn", "takeOut", "remove", "fault"}

TypeOK ==
  /\ pc \in [Threads -> Steps]
  /\ ip \in [Threads -> Nat \ {0}]
  /\ data \in [Threads -> Messages \cup {Junk}]
  /\ match \in [Threads -> Channels \cup {NULL}]
  /\ i \in [Threads -> Nat]
  /\ length \in [Threads -> Nat]
  /\ connOp \in Threads \cup {NULL}
  /\ mutex \in [Channels -> Threads \cup {NULL}]
  /\ ready \in [Channels -> BOOLEAN]
  /\ buffer \in [Channels -> Threads \cup {NULL}]
  /\ connections \in [Channels -> ListsOver(Channels)]
  /\ connsSem \in [Channels -> Semaphores(Threads)]
  /\ blocked \in [Channels -> Semaphores(Threads)]
  /\ received \in [Channels -> Semaphores(Threads)]

Finished(t) == ip[t] > Len(Program[t].calls)

\* The call t is in, its operation and its channel.
Call(t) == Program[t].calls[ip[t]]
Op(t) == Call(t).op
Id(t) == Call(t).id

\* Every function locks the CHAN_IN end of a connection first.
InEnd(t) == IF Id(t) \in Ins THEN Id(t) ELSE match[t]
OutEnd(t) == IF Id(t) \in Ins THEN match[t] ELSE Id(t)

Unlocked(m, t) ==
  [c \in DOMAIN m |-> IF c \in {Id(t), match[t]} THEN NULL ELSE m[c]]

(***************************************************************************)
(* channel_create: not ready, connected to nothing, every semaphore 0.     *)
(***************************************************************************)
Init ==
  /\ pc = [t \in Threads |-> "call"]
  /\ ip = [t \in Threads |-> 1]
  /\ data = [t \in Threads |-> Junk]
  /\ match = [t \in Threads |-> NULL]
  /\ i = [t \in Threads |-> 0]
  /\ length = [t \in Threads |-> 0]
  /\ connOp = NULL
  /\ mutex = [c \in Channels |-> NULL]
  /\ ready = [c \in Channels |-> FALSE]
  /\ buffer = [c \in Channels |-> NULL]
  /\ connections = [c \in Channels |-> EmptyList]
  /\ connsSem = [c \in Channels |-> NewSemaphore(0)]
  /\ blocked = [c \in Channels |-> NewSemaphore(0)]
  /\ received = [c \in Channels |-> NewSemaphore(0)]

-----------------------------------------------------------------------------
(***************************************************************************)
(* Calls and returns.  A call's memory comes from its caller: it holds the *)
(* message to send, or nothing yet.  When a send returns, the caller may   *)
(* do with that memory what it likes.                                      *)
(***************************************************************************)
FirstStep == [send    |-> "enter",     receive |-> "enter",
              bind    |-> "bindCheck", unbind  |-> "unbindStart"]

Start(t) ==
  /\ pc[t] = "call"
  /\ ~Finished(t)
  /\ \E d \in IF Op(t) = "send" THEN Messages ELSE {Junk} :
       data' = [data EXCEPT ![t] = d]
  /\ pc' = [pc EXCEPT ![t] = FirstStep[Op(t)]]
  /\ UNCHANGED <<ip, locals, locks, fields, sems>>

Return(t) ==
  /\ pc' = [pc EXCEPT ![t] = "call"]
  /\ ip' = [ip EXCEPT ![t] = IF Program[t].repeats /\ @ = Len(Program[t].calls)
                               THEN 1 ELSE @ + 1]
  /\ match' = [match EXCEPT ![t] = NULL]
  /\ i' = [i EXCEPT ![t] = 0]
  /\ length' = [length EXCEPT ![t] = 0]

DataReleased(t) == data' = [data EXCEPT ![t] = IF Op(t) = "send" THEN Junk ELSE @]

-----------------------------------------------------------------------------
(***************************************************************************)
(* The steps that channel_send and channel_receive share.                  *)
(***************************************************************************)
\* binary_sem_wait(conns_sem)
Enter(t) ==
  /\ pc[t] = "enter"
  /\ \/ /\ BinaryMustBlock(connsSem[Id(t)], t)
        /\ connsSem' = [connsSem EXCEPT ![Id(t)] = Block(@, t)]
        /\ UNCHANGED pc
     \/ /\ BinaryMayTake(connsSem[Id(t)], t)
        /\ connsSem' = [connsSem EXCEPT ![Id(t)] = BinaryTake(@, t)]
        /\ pc' = [pc EXCEPT ![t] = "arm"]
  /\ UNCHANGED <<ip, data, locals, locks, fields, blocked, received>>

\* The channel is made ready under its mutex; a sender leaves its data there.
Arm(t) ==
  /\ pc[t] = "arm"
  /\ mutex[Id(t)] = NULL
  /\ ready' = [ready EXCEPT ![Id(t)] = TRUE]
  /\ buffer' = [buffer EXCEPT ![Id(t)] = IF Op(t) = "send" THEN t ELSE @]
  /\ pc' = [pc EXCEPT ![t] = "count"]
  /\ UNCHANGED <<ip, data, locals, locks, connections, sems>>

\* The length of the list is read with no mutex held.
Count(t) ==
  /\ pc[t] = "count"
  /\ length' = [length EXCEPT ![t] = Length(connections[Id(t)])]
  /\ i' = [i EXCEPT ![t] = 0]
  /\ pc' = [pc EXCEPT ![t] = "scan"]
  /\ UNCHANGED <<ip, data, match, locks, fields, sems>>

\* The next connection of the rotating iterator, again with no mutex held.
ScanNext(t) ==
  /\ pc[t] = "scan"
  /\ i[t] < length[t]
  /\ match' = [match EXCEPT ![t] = connections[Id(t)].next]
  /\ connections' = [connections EXCEPT ![Id(t)] = Rotate(@)]
  /\ i' = [i EXCEPT ![t] = @ + 1]
  /\ pc' = [pc EXCEPT ![t] = "lockIn"]
  /\ UNCHANGED <<ip, data, length, locks, ready, buffer, sems>>

\* Mutant: the scan stops one connection early.
ScanEndsEarly(t) ==
  /\ pc[t] = "scan"
  /\ i[t] + 1 >= length[t]
  /\ pc' = [pc EXCEPT ![t] = "leaveAndPark"]
  /\ UNCHANGED <<ip, data, locals, locks, fields, sems>>

ScanEnds(t) ==
  /\ pc[t] = "scan"
  /\ i[t] >= length[t]
  /\ pc' = [pc EXCEPT ![t] = "leaveAndPark"]
  /\ UNCHANGED <<ip, data, locals, locks, fields, sems>>

\* Mutant: the call's own channel is assumed to be ready still.
OtherReady(t) == ready[match[t]]

BothReady(t) == ready[match[t]] /\ ready[Id(t)]

Test(t) ==
  /\ pc[t] = "test"
  /\ IF BothReady(t)
       THEN /\ pc' = [pc EXCEPT ![t] = "transfer"]
            /\ UNCHANGED mutex
       ELSE /\ pc' = [pc EXCEPT ![t] = "scan"]
            /\ mutex' = Unlocked(mutex, t)
  /\ UNCHANGED <<ip, data, locals, connOp, fields, sems>>

\* Mutant: the call's own channel is left ready.
ClaimOther(t) ==
  /\ ready' = [ready EXCEPT ![match[t]] = FALSE]
  /\ \E s \in MyPosts(blocked[match[t]]) :
       blocked' = [blocked EXCEPT ![match[t]] = s]
  /\ mutex' = Unlocked(mutex, t)

\* Both ends stop being ready and the owner of the other one is woken.
Claim(t) ==
  /\ ready' = [ready EXCEPT ![Id(t)] = FALSE, ![match[t]] = FALSE]
  /\ \E s \in MyPosts(blocked[match[t]]) :
       blocked' = [blocked EXCEPT ![match[t]] = s]
  /\ mutex' = Unlocked(mutex, t)

PostConnsSem(c) ==
  \E s \in BinaryPosts(connsSem[c]) : connsSem' = [connsSem EXCEPT ![c] = s]

\* The last step of a call that found its counterpart itself.
Leave(t) ==
  /\ pc[t] = "leave"
  /\ PostConnsSem(Id(t))
  /\ Return(t)
  /\ DataReleased(t)
  /\ UNCHANGED <<locks, fields, blocked, received>>

\* Mutant: a call that parks keeps the connections.
KeepAndPark(t) ==
  /\ pc[t] = "leaveAndPark"
  /\ pc' = [pc EXCEPT ![t] = "park"]
  /\ UNCHANGED <<ip, data, locals, locks, fields, sems>>

\* Nobody was ready: give the connections back and wait for a counterpart.
LeaveAndPark(t) ==
  /\ pc[t] = "leaveAndPark"
  /\ PostConnsSem(Id(t))
  /\ pc' = [pc EXCEPT ![t] = "park"]
  /\ UNCHANGED <<ip, data, locals, locks, fields, blocked, received>>

ParkBlocks(t) ==
  /\ pc[t] = "park"
  /\ MyMustBlock(blocked[Id(t)], t)
  /\ blocked' = [blocked EXCEPT ![Id(t)] = Block(@, t)]
  /\ UNCHANGED <<pc, ip, data, locals, locks, fields, connsSem, received>>

-----------------------------------------------------------------------------
(***************************************************************************)
(* The mutexes of the two ends of a connection, CHAN_IN first, then what   *)
(* the call does with both.                                                *)
(***************************************************************************)
AfterLocks == [send |-> "test",   receive |-> "test",
               bind |-> "insert", unbind  |-> "remove"]

LockIn(t) ==
  /\ pc[t] = "lockIn"
  /\ InEnd(t) # NULL
  /\ mutex[InEnd(t)] = NULL
  /\ mutex' = [mutex EXCEPT ![InEnd(t)] = t]
  /\ pc' = [pc EXCEPT ![t] = "lockOut"]
  /\ UNCHANGED <<ip, data, locals, connOp, fields, sems>>

LockOut(t) ==
  /\ pc[t] = "lockOut"
  /\ OutEnd(t) # NULL
  /\ mutex[OutEnd(t)] = NULL
  /\ mutex' = [mutex EXCEPT ![OutEnd(t)] = t]
  /\ pc' = [pc EXCEPT ![t] = AfterLocks[Op(t)]]
  /\ UNCHANGED <<ip, data, locals, connOp, fields, sems>>

\* getNextElement found the list empty: match->mutex dereferences NULL.
Fault(t) ==
  /\ \/ pc[t] = "lockIn" /\ InEnd(t) = NULL
     \/ pc[t] = "lockOut" /\ OutEnd(t) = NULL
  /\ pc' = [pc EXCEPT ![t] = "fault"]
  /\ UNCHANGED <<ip, data, locals, locks, fields, sems>>

-----------------------------------------------------------------------------
(***************************************************************************)
(* channel_send: a sender that finds a ready receiver hands it the pointer *)
(* to the data and waits until the receiver has copied it.                 *)
(***************************************************************************)
\* Mutant: the receiver is woken without the pointer.
TransferNothing(t) ==
  /\ pc[t] = "transfer"
  /\ Op(t) = "send"
  /\ Claim(t)
  /\ pc' = [pc EXCEPT ![t] = "awaitReceived"]
  /\ UNCHANGED <<ip, data, locals, connOp, buffer, connections, connsSem, received>>

\* Mutant: the receiver is given the channel for the data.
TransferChannel(t) ==
  /\ pc[t] = "transfer"
  /\ Op(t) = "send"
  /\ buffer' = [buffer EXCEPT ![match[t]] = Id(t)]
  /\ Claim(t)
  /\ pc' = [pc EXCEPT ![t] = "awaitReceived"]
  /\ UNCHANGED <<ip, data, locals, connOp, connections, connsSem, received>>

SendTransfer(t) ==
  /\ pc[t] = "transfer"
  /\ Op(t) = "send"
  /\ buffer' = [buffer EXCEPT ![match[t]] = buffer[Id(t)]]
  /\ Claim(t)
  /\ pc' = [pc EXCEPT ![t] = "awaitReceived"]
  /\ UNCHANGED <<ip, data, locals, connOp, connections, connsSem, received>>

\* Mutant: the sender does not wait for the copy.
AwaitNothing(t) ==
  /\ pc[t] = "awaitReceived"
  /\ pc' = [pc EXCEPT ![t] = "leave"]
  /\ UNCHANGED <<ip, data, locals, locks, fields, sems>>

AwaitReceived(t) ==
  /\ pc[t] = "awaitReceived"
  /\ \/ /\ MyMustBlock(received[match[t]], t)
        /\ received' = [received EXCEPT ![match[t]] = Block(@, t)]
        /\ UNCHANGED pc
     \/ /\ MyMayTake(received[match[t]], t)
        /\ received' = [received EXCEPT ![match[t]] = MyTake(@, t)]
        /\ pc' = [pc EXCEPT ![t] = "leave"]
  /\ UNCHANGED <<ip, data, locals, locks, fields, connsSem, blocked>>

SendUnparks(t) ==
  /\ pc[t] = "park"
  /\ Op(t) = "send"
  /\ MyMayTake(blocked[Id(t)], t)
  /\ blocked' = [blocked EXCEPT ![Id(t)] = MyTake(@, t)]
  /\ Return(t)
  /\ DataReleased(t)
  /\ UNCHANGED <<locks, fields, connsSem, received>>

(***************************************************************************)
(* channel_receive: a receiver that finds a ready sender copies the data   *)
(* at once; one that was found copies it when it wakes, and says so.       *)
(***************************************************************************)
\* memncpy(data, cin->buffer, cin->typesize); a buffer never set is not data.
Copied(t, from) == [data EXCEPT ![t] = IF from = NULL THEN Junk ELSE data[from]]

ReceiveTransfer(t) ==
  /\ pc[t] = "transfer"
  /\ Op(t) = "receive"
  /\ buffer' = [buffer EXCEPT ![Id(t)] = buffer[match[t]]]
  /\ data' = Copied(t, buffer[match[t]])
  /\ Claim(t)
  /\ pc' = [pc EXCEPT ![t] = "leave"]
  /\ UNCHANGED <<ip, locals, connOp, connections, connsSem, received>>

\* Mutant: the receiver says that it has the data before it copies them.
AcknowledgeFirst(t) ==
  /\ pc[t] = "park"
  /\ Op(t) = "receive"
  /\ MyMayTake(blocked[Id(t)], t)
  /\ blocked' = [blocked EXCEPT ![Id(t)] = MyTake(@, t)]
  /\ \E s \in MyPosts(received[Id(t)]) :
       received' = [received EXCEPT ![Id(t)] = s]
  /\ pc' = [pc EXCEPT ![t] = "copy"]
  /\ UNCHANGED <<ip, data, locals, locks, fields, connsSem>>

ReceiveUnparks(t) ==
  /\ pc[t] = "park"
  /\ Op(t) = "receive"
  /\ MyMayTake(blocked[Id(t)], t)
  /\ blocked' = [blocked EXCEPT ![Id(t)] = MyTake(@, t)]
  /\ pc' = [pc EXCEPT ![t] = "copy"]
  /\ UNCHANGED <<ip, data, locals, locks, fields, connsSem, received>>

Copy(t) ==
  /\ pc[t] = "copy"
  /\ data' = Copied(t, buffer[Id(t)])
  /\ pc' = [pc EXCEPT ![t] = "acknowledge"]
  /\ UNCHANGED <<ip, locals, locks, fields, sems>>

Acknowledge(t) ==
  /\ pc[t] = "acknowledge"
  /\ \E s \in MyPosts(received[Id(t)]) :
       received' = [received EXCEPT ![Id(t)] = s]
  /\ Return(t)
  /\ UNCHANGED <<data, locks, fields, connsSem, blocked>>

-----------------------------------------------------------------------------
(***************************************************************************)
(* channel_bind.                                                           *)
(***************************************************************************)
Bindable(a, b) == (a \in Ins) # (b \in Ins) /\ TypeSize[a] = TypeSize[b]

BindRefused(t) ==
  /\ pc[t] = "bindCheck"
  /\ connOp = NULL
  /\ ~Bindable(Id(t), Call(t).other)
  /\ Return(t)
  /\ UNCHANGED <<data, locks, fields, sems>>

BindStarts(t) ==
  /\ pc[t] = "bindCheck"
  /\ connOp = NULL
  /\ Bindable(Id(t), Call(t).other)
  /\ connOp' = t
  /\ match' = [match EXCEPT ![t] = Call(t).other]
  /\ pc' = [pc EXCEPT ![t] = "lockIn"]
  /\ UNCHANGED <<ip, data, i, length, mutex, fields, sems>>

\* Already connected: only conn_op_mutex is released.
BindAgain(t) ==
  /\ pc[t] = "insert"
  /\ ContainsElement(connections[Id(t)], match[t])
  /\ connOp' = NULL
  /\ Return(t)
  /\ UNCHANGED <<data, mutex, fields, sems>>

InsertLink(t) ==
  /\ pc[t] = "insert"
  /\ ~ContainsElement(connections[Id(t)], match[t])
  /\ connections' = [connections EXCEPT ![Id(t)]    = InsertElement(@, match[t]),
                                        ![match[t]] = InsertElement(@, Id(t))]
  /\ \E s1 \in BinaryPosts(connsSem[Id(t)]), s2 \in BinaryPosts(connsSem[match[t]]) :
       connsSem' = [connsSem EXCEPT ![Id(t)] = s1, ![match[t]] = s2]
  /\ mutex' = Unlocked(mutex, t)
  /\ connOp' = NULL
  /\ Return(t)
  /\ UNCHANGED <<data, ready, buffer, blocked, received>>

-----------------------------------------------------------------------------
(***************************************************************************)
(* channel_unbind: conn_op_mutex is held throughout; the loop over the     *)
(* list takes the semaphores and the mutexes of one connection at a time.  *)
(***************************************************************************)
\* Mutant: the loop counts from 1.
UnbindFromOne(t) ==
  /\ pc[t] = "unbindStart"
  /\ connOp = NULL
  /\ connOp' = t
  /\ length' = [length EXCEPT ![t] = Length(connections[Id(t)])]
  /\ i' = [i EXCEPT ![t] = 1]
  /\ pc' = [pc EXCEPT ![t] = "unbindNext"]
  /\ UNCHANGED <<ip, data, match, mutex, fields, sems>>

UnbindStarts(t) ==
  /\ pc[t] = "unbindStart"
  /\ connOp = NULL
  /\ connOp' = t
  /\ length' = [length EXCEPT ![t] = Length(connections[Id(t)])]
  /\ i' = [i EXCEPT ![t] = 0]
  /\ pc' = [pc EXCEPT ![t] = "unbindNext"]
  /\ UNCHANGED <<ip, data, match, mutex, fields, sems>>

UnbindNext(t) ==
  /\ pc[t] = "unbindNext"
  /\ i[t] < length[t]
  /\ match' = [match EXCEPT ![t] = ElementN(connections[Id(t)], i[t])]
  /\ pc' = [pc EXCEPT ![t] = "takeIn"]
  /\ UNCHANGED <<ip, data, i, length, locks, fields, sems>>

\* binary_sem_wait(conns_sem) of one end.
TakeConnsSem(t, c, step) ==
  /\ \/ /\ BinaryMustBlock(connsSem[c], t)
        /\ connsSem' = [connsSem EXCEPT ![c] = Block(@, t)]
        /\ UNCHANGED pc
     \/ /\ BinaryMayTake(connsSem[c], t)
        /\ connsSem' = [connsSem EXCEPT ![c] = BinaryTake(@, t)]
        /\ pc' = [pc EXCEPT ![t] = step]
  /\ UNCHANGED <<ip, data, locals, locks, fields, blocked, received>>

TakeIn(t) == pc[t] = "takeIn" /\ TakeConnsSem(t, InEnd(t), "takeOut")
TakeOut(t) == pc[t] = "takeOut" /\ TakeConnsSem(t, OutEnd(t), "lockIn")

\* The semaphore of an end is given back if it has connections left.
PostUnlessEmpty(c, l) ==
  IF IsEmpty(l) THEN {connsSem[c]} ELSE BinaryPosts(connsSem[c])

\* Mutant: only the channel's own list is changed.
OppositeKept(t) == connections[match[t]]

\* The list of the other end, without the channel.
OppositeRest(t) == RemoveElement(connections[match[t]], Id(t))

RemoveLink(t) ==
  /\ pc[t] = "remove"
  /\ LET id == Id(t)
         opposite == match[t]
         rest == RemoveElement(connections[id], opposite)
         oppositeRest == OppositeRest(t)
     IN /\ connections' =
             [connections EXCEPT ![id] = rest, ![opposite] = oppositeRest]
        /\ \E s1 \in PostUnlessEmpty(id, rest),
              s2 \in PostUnlessEmpty(opposite, oppositeRest) :
             connsSem' = [connsSem EXCEPT ![id] = s1, ![opposite] = s2]
        /\ length' = [length EXCEPT ![t] = Length(rest)]
  /\ mutex' = Unlocked(mutex, t)
  /\ i' = [i EXCEPT ![t] = @ + 1]
  /\ match' = [match EXCEPT ![t] = NULL]
  /\ pc' = [pc EXCEPT ![t] = "unbindNext"]
  /\ UNCHANGED <<ip, data, connOp, ready, buffer, blocked, received>>

UnbindEnds(t) ==
  /\ pc[t] = "unbindNext"
  /\ i[t] >= length[t]
  /\ connOp' = NULL
  /\ Return(t)
  /\ UNCHANGED <<data, mutex, fields, sems>>

-----------------------------------------------------------------------------
channel_scan(t) ==
  \/ Enter(t) \/ Arm(t) \/ Count(t) \/ ScanNext(t) \/ ScanEnds(t) \/ Test(t)
  \/ Leave(t) \/ LeaveAndPark(t) \/ ParkBlocks(t)

channel_send(t) == SendTransfer(t) \/ AwaitReceived(t) \/ SendUnparks(t)

channel_receive(t) ==
  \/ ReceiveTransfer(t) \/ ReceiveUnparks(t) \/ Copy(t) \/ Acknowledge(t)

channel_bind(t) ==
  \/ BindRefused(t) \/ BindStarts(t) \/ BindAgain(t) \/ InsertLink(t)

channel_unbind(t) ==
  \/ UnbindStarts(t) \/ UnbindNext(t) \/ TakeIn(t) \/ TakeOut(t)
  \/ RemoveLink(t) \/ UnbindEnds(t)

Step(t) ==
  \/ Start(t) \/ LockIn(t) \/ LockOut(t) \/ Fault(t)
  \/ channel_scan(t) \/ channel_send(t) \/ channel_receive(t)
  \/ channel_bind(t) \/ channel_unbind(t)

\* A fault ends the process, and with it every thread.
Faulted == \E t \in Threads : pc[t] = "fault"

\* Nothing is left to do: the system may stop here.
Stopped ==
  /\ Faulted \/ \A t \in Threads : pc[t] = "call" /\ Finished(t)
  /\ UNCHANGED vars

Next ==
  \/ ~Faulted /\ \E t \in Threads : Step(t)
  \/ Stopped

\* Every thread is scheduled: it does not stay forever at a step it can take.
Fairness == \A t \in Threads : WF_vars(~Faulted /\ Step(t))

Spec == Init /\ [][Next]_vars /\ Fairness

-----------------------------------------------------------------------------
(***************************************************************************)
(* Correctness.                                                            *)
(***************************************************************************)
\* t is between making the channel ready and the end of its wait for the
\* counterpart.
Offering(t) ==
  \/ pc[t] \in {"count", "scan", "leaveAndPark", "park", "test", "transfer"}
  \/ /\ pc[t] \in {"lockIn", "lockOut", "fault"}
     /\ Op(t) \in {"send", "receive"}

(***************************************************************************)
(* Every operation on a channel is taken by exactly one counterpart: while *)
(* its owner offers it, the channel is either still ready, or one token    *)
(* waits in blocked ("wait here until data is taken"); at any other time   *)
(* there is neither.                                                       *)
(***************************************************************************)
HasOneToken(c) ==
  LET t == Owner[c] IN
  IF Offering(t) /\ Id(t) = c
    THEN /\ blocked[c].value = IF ready[c] THEN 0 ELSE 1
         /\ t \in blocked[c].woken => ~ready[c]
    ELSE blocked[c].value = 0 /\ ~ready[c]

OneToken == \A c \in Channels : HasOneToken(c)

\* t waits in the condition variable of its channel's blocked, unnoticed.
Parked(t) ==
  pc[t] = "park" /\ t \in blocked[Id(t)].waiting

(***************************************************************************)
(* The two owners of a connection never both wait for the other one to     *)
(* find them: no rendezvous of two ready channels is missed.  This is so   *)
(* as long as no bind connects two channels that are both parked, which it *)
(* does not notice, or inserts into a list between Count and ScanNext that *)
(* has two connections already: the scan then meets the new one in the     *)
(* place of an old one, which may be the one that is parked.               *)
(***************************************************************************)
NoMissedMatch ==
  ~Faulted =>
  \A o \in Outs, c \in Ins :
    ContainsElement(connections[o], c)
      => ~ (/\ Parked(Owner[o]) /\ Id(Owner[o]) = o
            /\ Parked(Owner[c]) /\ Id(Owner[c]) = c)

(***************************************************************************)
(* The data a receiver is about to copy still belongs to the send that     *)
(* offered it (actually_received: "make sure data can't be changed until   *)
(* after a receive has completed").                                        *)
(***************************************************************************)
DataStable ==
  \A t \in Threads :
    pc[t] = "copy" =>
      LET sender == buffer[Id(t)] IN
      sender # NULL => pc[sender] = "awaitReceived" /\ match[sender] = Id(t)

(***************************************************************************)
(* conns_sem acts "like a mutex": no connection is removed from a channel  *)
(* while the owner of the channel iterates over its connections.           *)
(***************************************************************************)
Iterates(t, c) ==
  /\ pc[t] \in {"arm", "count", "scan", "lockIn", "lockOut", "test", "transfer",
                "awaitReceived", "leave", "leaveAndPark"}
  /\ Op(t) \in {"send", "receive"}
  /\ Id(t) = c

ConnectionsExclusive ==
  \A t \in Threads :
    pc[t] = "remove" =>
      \A c \in {Id(t), match[t]} : ~Iterates(Owner[c], c)

\* Every connection is in the lists of both of its ends.
Symmetric ==
  \A a, b \in Channels :
    ContainsElement(connections[a], b) <=> ContainsElement(connections[b], a)

\* A thread that returns from a call to its program holds no lock.
LocksReleased ==
  \A t \in Threads :
    pc[t] = "call" => connOp # t /\ \A c \in Channels : mutex[c] # t

(***************************************************************************)
(* channel_unbind "disconnects from all other chans": when it returns, the *)
(* channel has no connections.                                             *)
(***************************************************************************)
UnbindDisconnects ==
  [][\A t \in Threads :
       pc[t] = "unbindNext" /\ pc'[t] = "call" => IsEmpty(connections'[Id(t)])]_vars

(***************************************************************************)
(* Every send that is begun returns to the program.                        *)
(***************************************************************************)
SendsReturn == \A t \in Threads : (pc[t] = "enter" /\ Op(t) = "send") ~> pc[t] = "call"
=============================================================================
