---------------------------- MODULE ChannelProofs ----------------------------
(***************************************************************************)
(* Theorems about the channels, for every set of threads and channels and  *)
(* every program: first that they are sound, then that they implement the  *)
(* rendezvous.                                                             *)
(***************************************************************************)
EXTENDS ChannelRendezvous, ConnectionListProofs

-----------------------------------------------------------------------------
(***************************************************************************)
(* The operations on a semaphore return a semaphore.                       *)
(***************************************************************************)
LEMMA SemaphoreTypes ==
  ASSUME NEW S, NEW s \in Semaphores(S), NEW t \in S
  PROVE  /\ Block(s, t) \in Semaphores(S)
         /\ MyTake(s, t) \in Semaphores(S)
         /\ BinaryTake(s, t) \in Semaphores(S)
<1>1. Block(s, t) \in Semaphores(S)
  BY DEF Semaphores, Block
<1>2. Awake(s, t) \in Semaphores(S)
  BY DEF Semaphores, Awake
<1> QED BY <1>1, <1>2 DEF Semaphores, MyTake, BinaryTake

\* A post leaves the semaphore in a state of a semaphore.
LEMMA PostTypes ==
  ASSUME NEW S, NEW s \in Semaphores(S)
  PROVE  /\ \A p \in MyPosts(s) : p \in Semaphores(S)
         /\ \A p \in BinaryPosts(s) : p \in Semaphores(S)
<1>1. ASSUME NEW r \in Semaphores(S), NEW p \in Signalled(r)
      PROVE  p \in Semaphores(S)
  <2>1. CASE r.waiting = {}
    BY <1>1, <2>1 DEF Signalled
  <2>2. CASE r.waiting # {}
    <3>1. PICK u \in r.waiting :
            p = [r EXCEPT !.waiting = @ \ {u}, !.woken = @ \cup {u}]
      BY <1>1, <2>2 DEF Signalled
    <3> QED BY <3>1 DEF Semaphores
  <2> QED BY <2>1, <2>2
<1>2. /\ [s EXCEPT !.value = @ + 1] \in Semaphores(S)
      /\ [s EXCEPT !.value = 1] \in Semaphores(S)
  BY DEF Semaphores
<1> QED BY <1>1, <1>2 DEF MyPosts, BinaryPosts

\* A post on a counter of 0 makes it 1 and loses no waiting thread.
LEMMA PostOnZero ==
  ASSUME NEW S, NEW s \in Semaphores(S), s.value = 0, NEW p \in MyPosts(s)
  PROVE  p.value = 1 /\ p.waiting \cup p.woken = s.waiting \cup s.woken
<1> DEFINE r == [s EXCEPT !.value = @ + 1]
<1>1. /\ r \in Semaphores(S) /\ r.value = 1
      /\ r.waiting = s.waiting /\ r.woken = s.woken
  BY DEF Semaphores
<1>2. p \in Signalled(r)
  BY DEF MyPosts
<1> HIDE DEF r
<1>3. CASE r.waiting = {}
  BY <1>1, <1>2, <1>3 DEF Signalled
<1>4. CASE r.waiting # {}
  <2>1. PICK u \in r.waiting : p = [r EXCEPT !.waiting = @ \ {u}, !.woken = @ \cup {u}]
    BY <1>2, <1>4 DEF Signalled
  <2>2. p.value = 1 /\ p.waiting = r.waiting \ {u} /\ p.woken = r.woken \cup {u}
    BY <1>1, <2>1 DEF Semaphores
  <2> QED BY <1>1, <2>1, <2>2
<1> QED BY <1>3, <1>4

\* Calls are what the program says, for a thread that has not finished.
LEMMA CallIsCall ==
  ASSUME NEW t \in Threads, ip[t] \in Nat \ {0}, ~Finished(t)
  PROVE  /\ Call(t) \in Calls
         /\ Op(t) \in {"send", "receive", "bind", "unbind"}
         /\ Id(t) \in Channels
         /\ Op(t) = "send" => Id(t) \in Outs
         /\ Op(t) = "receive" => Id(t) \in Ins
         /\ Op(t) = "bind" => Call(t).other \in Channels
         /\ Op(t) \in {"send", "receive"} => Owner[Id(t)] = t
<1>1. ip[t] \in 1 .. Len(Program[t].calls) /\ Program[t].calls \in Seq(Calls)
  BY ProgramAssumption DEF Finished
<1>2. Call(t) \in Calls
  BY <1>1 DEF Call
<1>3. Op(t) \in {"send", "receive"} => Owner[Id(t)] = t
  BY <1>1, ProgramAssumption DEF Op, Id, Call
<1> QED BY <1>2, <1>3 DEF Calls, Op, Id, Channels

-----------------------------------------------------------------------------
(***************************************************************************)
(* Type correctness.  The invariant adds that the lists are well formed,   *)
(* that a thread between calls only has a call to make, and that a thread  *)
(* beyond its locks has a counterpart.                                     *)
(***************************************************************************)
Inside == {"test", "transfer", "insert", "remove"}

ThreadOK(t) ==
  /\ pc[t] # "call" => ~Finished(t)
  /\ pc[t] \in {"enter", "arm", "count", "scan", "test", "transfer",
                "leave", "leaveAndPark", "park"} => Op(t) \in {"send", "receive"}
  /\ pc[t] = "awaitReceived" => Op(t) = "send"
  /\ pc[t] \in {"copy", "acknowledge"} => Op(t) = "receive"
  /\ pc[t] \in {"bindCheck", "insert"} => Op(t) = "bind"
  /\ pc[t] \in {"unbindStart", "unbindNext", "takeIn", "takeOut", "remove"}
       => Op(t) = "unbind"
  /\ pc[t] \in Inside => match[t] \in Channels
  /\ pc[t] = "lockOut" => InEnd(t) # NULL

TypeInv ==
  /\ TypeOK
  /\ \A c \in Channels : ListOK(connections[c])
  /\ \A t \in Threads : ThreadOK(t)

\* What Return does to the variables of its thread, and to no other's.
LEMMA ReturnTypes ==
  ASSUME TypeInv, NEW t \in Threads, Return(t)
  PROVE  /\ pc' \in [Threads -> Steps] /\ ip' \in [Threads -> Nat \ {0}]
         /\ match' \in [Threads -> Channels \cup {NULL}]
         /\ i' \in [Threads -> Nat] /\ length' \in [Threads -> Nat]
         /\ pc'[t] = "call"
         /\ \A u \in Threads \ {t} :
              pc'[u] = pc[u] /\ ip'[u] = ip[u] /\ match'[u] = match[u]
BY DEF Return, TypeInv, TypeOK, Steps

\* What TypeInv says of a thread is not disturbed by the steps of others.
LEMMA ThreadFrame ==
  ASSUME NEW u \in Threads, ThreadOK(u),
         pc'[u] = pc[u], ip'[u] = ip[u], match'[u] = match[u]
  PROVE  ThreadOK(u)'
BY DEF ThreadOK, Finished, InEnd, Id, Op, Call

\* The initial state is type correct.
LEMMA TypeInit == Init => TypeInv
<1> SUFFICES ASSUME Init PROVE TypeInv
  OBVIOUS
<1>1. EmptyList \in ListsOver(Channels) /\ ListOK(EmptyList)
  BY DEF EmptyList, ListsOver, ListOK, IsEmpty
<1>2. NewSemaphore(0) \in Semaphores(Threads)
  BY DEF NewSemaphore, Semaphores
<1>3. TypeOK
  BY <1>1, <1>2 DEF Init, TypeOK, Steps
<1> QED BY <1>1, <1>3 DEF TypeInv, ThreadOK, Inside, Init

(***************************************************************************)
(* One step of a thread that goes on with its call, or begins one, keeps   *)
(* what is said of the threads, if it does so for this thread.             *)
(***************************************************************************)
LEMMA OthersFrame ==
  ASSUME TypeInv, NEW t \in Threads, NEW step,
         \/ pc' = pc
         \/ pc' = [pc EXCEPT ![t] = step],
         \/ match' = match
         \/ \E m : match' = [match EXCEPT ![t] = m],
         ip' = ip
  PROVE  \A u \in Threads \ {t} : ThreadOK(u)'
<1>1. \A u \in Threads \ {t} : pc'[u] = pc[u] /\ ip'[u] = ip[u] /\ match'[u] = match[u]
  BY DEF TypeInv, TypeOK
<1> QED BY <1>1, ThreadFrame DEF TypeInv

\* The steps that change only pc and what the semaphores hold.
LEMMA SemaphoreStep ==
  ASSUME TypeInv, NEW t \in Threads,
         \/ Enter(t) \/ Leave(t) \/ LeaveAndPark(t) \/ ParkBlocks(t)
         \/ AwaitReceived(t) \/ SendUnparks(t) \/ ReceiveUnparks(t)
         \/ Acknowledge(t) \/ TakeIn(t) \/ TakeOut(t)
  PROVE  /\ connsSem' \in [Channels -> Semaphores(Threads)]
         /\ blocked' \in [Channels -> Semaphores(Threads)]
         /\ received' \in [Channels -> Semaphores(Threads)]
<1>1. /\ connsSem \in [Channels -> Semaphores(Threads)]
      /\ blocked \in [Channels -> Semaphores(Threads)]
      /\ received \in [Channels -> Semaphores(Threads)]
  BY DEF TypeInv, TypeOK
<1>2. ASSUME NEW sem \in [Channels -> Semaphores(Threads)], NEW c
      PROVE  /\ [sem EXCEPT ![c] = Block(@, t)] \in [Channels -> Semaphores(Threads)]
             /\ [sem EXCEPT ![c] = MyTake(@, t)] \in [Channels -> Semaphores(Threads)]
             /\ [sem EXCEPT ![c] = BinaryTake(@, t)] \in [Channels -> Semaphores(Threads)]
             /\ \A s \in MyPosts(sem[c]) \cup BinaryPosts(sem[c]) :
                  [sem EXCEPT ![c] = s] \in [Channels -> Semaphores(Threads)]
  <2>1. CASE c \in Channels
    BY <2>1, SemaphoreTypes, PostTypes
  <2>2. CASE c \notin Channels
    BY <2>2
  <2> QED BY <2>1, <2>2
<1> QED
  BY <1>1, <1>2
     DEF Enter, Leave, LeaveAndPark, ParkBlocks, AwaitReceived, SendUnparks,
         ReceiveUnparks, Acknowledge, TakeIn, TakeOut, TakeConnsSem, PostConnsSem

\* Returning from a call.
LEMMA ReturnStep ==
  ASSUME TypeInv, NEW t \in Threads, Return(t),
         data' \in [Threads -> Messages \cup {Junk}],
         connOp' \in Threads \cup {NULL},
         mutex' \in [Channels -> Threads \cup {NULL}],
         ready' = ready, buffer' = buffer,
         connections' \in [Channels -> ListsOver(Channels)],
         \A c \in Channels : ListOK(connections'[c]),
         connsSem' \in [Channels -> Semaphores(Threads)],
         blocked' \in [Channels -> Semaphores(Threads)],
         received' \in [Channels -> Semaphores(Threads)]
  PROVE  TypeInv'
<1>1. TypeOK'
  BY ReturnTypes DEF TypeInv, TypeOK
<1>2. \A u \in Threads \ {t} : ThreadOK(u)'
  BY ReturnTypes, ThreadFrame DEF TypeInv
<1>3. ThreadOK(t)'
  BY ReturnTypes DEF ThreadOK, Inside
<1> QED BY <1>1, <1>2, <1>3 DEF TypeInv

\* Giving back the two mutexes of a call.
LEMMA UnlockedType ==
  ASSUME TypeInv, NEW t \in Threads
  PROVE  Unlocked(mutex, t) \in [Channels -> Threads \cup {NULL}]
BY DEF TypeInv, TypeOK, Unlocked

\* A claim keeps the types of the fields and semaphores it changes.
LEMMA ClaimTypes ==
  ASSUME TypeInv, NEW t \in Threads, Claim(t)
  PROVE  /\ ready' \in [Channels -> BOOLEAN]
         /\ blocked' \in [Channels -> Semaphores(Threads)]
         /\ mutex' \in [Channels -> Threads \cup {NULL}]
<1>1. ready \in [Channels -> BOOLEAN] /\ blocked \in [Channels -> Semaphores(Threads)]
  BY DEF TypeInv, TypeOK
<1>2. ready' \in [Channels -> BOOLEAN]
  BY <1>1 DEF Claim
<1>3. blocked' \in [Channels -> Semaphores(Threads)]
  <2>1. PICK s \in MyPosts(blocked[match[t]]) : blocked' = [blocked EXCEPT ![match[t]] = s]
    BY DEF Claim
  <2>2. CASE match[t] \in Channels
    BY <1>1, <2>1, <2>2, PostTypes
  <2>3. CASE match[t] \notin Channels
    BY <1>1, <2>1, <2>3
  <2> QED BY <2>2, <2>3
<1> QED BY <1>2, <1>3, UnlockedType DEF Claim

\* A step of any thread preserves type correctness.
LEMMA TypeStep ==
  ASSUME TypeInv, NEW t \in Threads, Step(t)
  PROVE  TypeInv'
<1> DEFINE call == /\ Op(t) \in {"send", "receive", "bind", "unbind"}
                   /\ Id(t) \in Channels
                   /\ Op(t) = "bind" => Call(t).other \in Channels
<1>c. ~Finished(t) => call
  BY CallIsCall DEF TypeInv, TypeOK
<1>d. pc[t] # "call" => ~Finished(t) /\ call
  BY <1>c DEF TypeInv, ThreadOK
<1>s. ip' = ip => Finished(t)' = Finished(t) /\ Id(t)' = Id(t) /\ Op(t)' = Op(t)
  BY DEF Finished, Id, Op, Call
<1>o. ASSUME TypeOK', \A c \in Channels : ListOK(connections'[c]),
             \A u \in Threads \ {t} : ThreadOK(u)', ThreadOK(t)'
      PROVE  TypeInv'
  BY <1>o DEF TypeInv
<1>l. ASSUME connections' = connections PROVE \A c \in Channels : ListOK(connections'[c])
  BY <1>l DEF TypeInv
<1>1. CASE Start(t)
  <2>1. TypeOK'
    BY <1>1, <1>c DEF Start, FirstStep, TypeInv, TypeOK, Steps, locals, locks, fields, sems
  <2>2. ThreadOK(t)'
    BY <1>1, <1>c, <1>s DEF Start, FirstStep, TypeInv, TypeOK, ThreadOK, Inside, locals
  <2>3. \A u \in Threads \ {t} : ThreadOK(u)'
    BY <1>1, OthersFrame DEF Start, locals
  <2> QED BY <1>1, <1>o, <1>l, <2>1, <2>2, <2>3 DEF Start, fields
<1>2. CASE Enter(t)
  <2>1. TypeOK'
    BY <1>2, SemaphoreStep DEF Enter, TypeInv, TypeOK, Steps, locals, locks, fields
  <2>2. ThreadOK(t)'
    BY <1>2, <1>s DEF Enter, TypeInv, TypeOK, ThreadOK, Inside
  <2>3. \A u \in Threads \ {t} : ThreadOK(u)'
    BY <1>2, OthersFrame DEF Enter, locals
  <2> QED BY <1>2, <1>o, <1>l, <2>1, <2>2, <2>3 DEF Enter, fields
<1>3. CASE Arm(t)
  <2>1. TypeOK'
    BY <1>3 DEF Arm, TypeInv, TypeOK, Steps, locals, locks, fields, sems
  <2>2. ThreadOK(t)'
    BY <1>3, <1>s DEF Arm, TypeInv, TypeOK, ThreadOK, Inside
  <2>3. \A u \in Threads \ {t} : ThreadOK(u)'
    BY <1>3, OthersFrame DEF Arm, locals
  <2> QED BY <1>3, <1>o, <1>l, <2>1, <2>2, <2>3 DEF Arm
<1>4. CASE Count(t)
  <2>0. Length(connections[Id(t)]) \in Nat
    BY <1>4, <1>d DEF Count, TypeInv, TypeOK, ListsOver, Length
  <2>1. TypeOK'
    BY <1>4, <2>0 DEF Count, TypeInv, TypeOK, Steps, locks, fields, sems
  <2>2. ThreadOK(t)'
    BY <1>4, <1>s DEF Count, TypeInv, TypeOK, ThreadOK, Inside
  <2>3. \A u \in Threads \ {t} : ThreadOK(u)'
    BY <1>4, OthersFrame DEF Count
  <2> QED BY <1>4, <1>o, <1>l, <2>1, <2>2, <2>3 DEF Count, fields
<1>5. CASE ScanNext(t)
  <2>0. /\ connections[Id(t)].next \in Channels \cup {NULL}
        /\ Rotate(connections[Id(t)]) \in ListsOver(Channels)
        /\ ListOK(Rotate(connections[Id(t)]))
    <3>1. connections[Id(t)] \in ListsOver(Channels) /\ ListOK(connections[Id(t)])
      BY <1>5, <1>d DEF ScanNext, TypeInv, TypeOK
    <3>2. connections[Id(t)].next \in Channels \cup {NULL}
      BY <3>1 DEF ListsOver
    <3> QED BY <3>1, <3>2, RotateList
  <2>1. TypeOK'
    <3>1. match' \in [Threads -> Channels \cup {NULL}]
      BY <1>5, <2>0 DEF ScanNext, TypeInv, TypeOK
    <3>2. connections' \in [Channels -> ListsOver(Channels)]
      BY <1>5, <2>0 DEF ScanNext, TypeInv, TypeOK
    <3>3. pc' \in [Threads -> Steps] /\ i' \in [Threads -> Nat]
      BY <1>5 DEF ScanNext, TypeInv, TypeOK, Steps
    <3> QED BY <1>5, <3>1, <3>2, <3>3 DEF ScanNext, TypeInv, TypeOK, locks, sems
  <2>2. ThreadOK(t)'
    BY <1>5, <1>s DEF ScanNext, TypeInv, TypeOK, ThreadOK, Inside
  <2>3. \A u \in Threads \ {t} : ThreadOK(u)'
    BY <1>5, OthersFrame DEF ScanNext
  <2>4. \A c \in Channels : ListOK(connections'[c])
    BY <1>5, <2>0 DEF ScanNext, TypeInv, TypeOK
  <2> QED BY <1>o, <2>1, <2>2, <2>3, <2>4
<1>6. CASE ScanEnds(t)
  <2>1. TypeOK'
    BY <1>6 DEF ScanEnds, TypeInv, TypeOK, Steps, locals, locks, fields, sems
  <2>2. ThreadOK(t)'
    BY <1>6, <1>s DEF ScanEnds, TypeInv, TypeOK, ThreadOK, Inside
  <2>3. \A u \in Threads \ {t} : ThreadOK(u)'
    BY <1>6, OthersFrame DEF ScanEnds, locals
  <2> QED BY <1>6, <1>o, <1>l, <2>1, <2>2, <2>3 DEF ScanEnds, fields
<1>7. CASE Test(t)
  <2>1. TypeOK'
    BY <1>7, UnlockedType DEF Test, TypeInv, TypeOK, Steps, locals, fields, sems
  <2>2. ThreadOK(t)'
    BY <1>7, <1>s DEF Test, TypeInv, TypeOK, ThreadOK, Inside, locals
  <2>3. \A u \in Threads \ {t} : ThreadOK(u)'
    BY <1>7, OthersFrame DEF Test, locals
  <2> QED BY <1>7, <1>o, <1>l, <2>1, <2>2, <2>3 DEF Test, fields
<1>8. CASE Leave(t)
  <2> QED BY <1>8, ReturnStep, SemaphoreStep DEF Leave, TypeInv, TypeOK, DataReleased, locks, fields
<1>9. CASE LeaveAndPark(t)
  <2>1. TypeOK'
    BY <1>9, SemaphoreStep DEF LeaveAndPark, TypeInv, TypeOK, Steps, locals, locks, fields
  <2>2. ThreadOK(t)'
    BY <1>9, <1>s DEF LeaveAndPark, TypeInv, TypeOK, ThreadOK, Inside, locals
  <2>3. \A u \in Threads \ {t} : ThreadOK(u)'
    BY <1>9, OthersFrame DEF LeaveAndPark, locals
  <2> QED BY <1>9, <1>o, <1>l, <2>1, <2>2, <2>3 DEF LeaveAndPark, fields
<1>10. CASE ParkBlocks(t)
  <2>1. TypeOK'
    BY <1>10, SemaphoreStep DEF ParkBlocks, TypeInv, TypeOK, Steps, locals, locks, fields
  <2>2. ThreadOK(t)'
    BY <1>10, <1>s DEF ParkBlocks, TypeInv, TypeOK, ThreadOK, Inside, locals
  <2>3. \A u \in Threads \ {t} : ThreadOK(u)'
    BY <1>10, OthersFrame DEF ParkBlocks, locals
  <2> QED BY <1>10, <1>o, <1>l, <2>1, <2>2, <2>3 DEF ParkBlocks, fields
<1>11. CASE SendTransfer(t)
  <2>0. buffer' \in [Channels -> Threads \cup {NULL}]
    BY <1>11, <1>d DEF SendTransfer, TypeInv, TypeOK
  <2>1. TypeOK'
    BY <1>11, <2>0, ClaimTypes DEF SendTransfer, TypeInv, TypeOK, Steps, locals
  <2>2. ThreadOK(t)'
    BY <1>11, <1>s DEF SendTransfer, TypeInv, TypeOK, ThreadOK, Inside, locals
  <2>3. \A u \in Threads \ {t} : ThreadOK(u)'
    BY <1>11, OthersFrame DEF SendTransfer, locals
  <2> QED BY <1>11, <1>o, <1>l, <2>1, <2>2, <2>3 DEF SendTransfer, fields
<1>12. CASE AwaitReceived(t)
  <2>1. TypeOK'
    BY <1>12, SemaphoreStep DEF AwaitReceived, TypeInv, TypeOK, Steps, locals, locks, fields
  <2>2. ThreadOK(t)'
    BY <1>12, <1>s DEF AwaitReceived, TypeInv, TypeOK, ThreadOK, Inside, locals
  <2>3. \A u \in Threads \ {t} : ThreadOK(u)'
    BY <1>12, OthersFrame DEF AwaitReceived, locals
  <2> QED BY <1>12, <1>o, <1>l, <2>1, <2>2, <2>3 DEF AwaitReceived, fields
<1>13. CASE SendUnparks(t)
  <2> QED BY <1>13, ReturnStep, SemaphoreStep DEF SendUnparks, TypeInv, TypeOK, DataReleased, locks, fields
<1>14. CASE ReceiveTransfer(t)
  <2>0. /\ buffer[match[t]] \in Threads \cup {NULL}
        /\ buffer' \in [Channels -> Threads \cup {NULL}]
    BY <1>14, <1>d DEF ReceiveTransfer, TypeInv, TypeOK, ThreadOK, Inside
  <2>1. TypeOK'
    BY <1>14, <2>0, ClaimTypes DEF ReceiveTransfer, TypeInv, TypeOK, Steps, locals, Copied
  <2>2. ThreadOK(t)'
    BY <1>14, <1>s DEF ReceiveTransfer, TypeInv, TypeOK, ThreadOK, Inside, locals
  <2>3. \A u \in Threads \ {t} : ThreadOK(u)'
    BY <1>14, OthersFrame DEF ReceiveTransfer, locals
  <2> QED BY <1>14, <1>o, <1>l, <2>1, <2>2, <2>3 DEF ReceiveTransfer, fields
<1>15. CASE ReceiveUnparks(t)
  <2>1. TypeOK'
    BY <1>15, SemaphoreStep DEF ReceiveUnparks, TypeInv, TypeOK, Steps, locals, locks, fields
  <2>2. ThreadOK(t)'
    BY <1>15, <1>s DEF ReceiveUnparks, TypeInv, TypeOK, ThreadOK, Inside, locals
  <2>3. \A u \in Threads \ {t} : ThreadOK(u)'
    BY <1>15, OthersFrame DEF ReceiveUnparks, locals
  <2> QED BY <1>15, <1>o, <1>l, <2>1, <2>2, <2>3 DEF ReceiveUnparks, fields
<1>16. CASE Copy(t)
  <2>1. TypeOK'
    BY <1>16, <1>d DEF Copy, TypeInv, TypeOK, Steps, locals, locks, fields, sems, Copied
  <2>2. ThreadOK(t)'
    BY <1>16, <1>s DEF Copy, TypeInv, TypeOK, ThreadOK, Inside, locals
  <2>3. \A u \in Threads \ {t} : ThreadOK(u)'
    BY <1>16, OthersFrame DEF Copy, locals
  <2> QED BY <1>16, <1>o, <1>l, <2>1, <2>2, <2>3 DEF Copy, fields
<1>17. CASE Acknowledge(t)
  <2> QED BY <1>17, ReturnStep, SemaphoreStep DEF Acknowledge, TypeInv, TypeOK, locks, fields
<1>18. CASE LockIn(t)
  <2>1. TypeOK'
    BY <1>18 DEF LockIn, TypeInv, TypeOK, Steps, locals, fields, sems
  <2>2. ThreadOK(t)'
    BY <1>18, <1>s DEF LockIn, TypeInv, TypeOK, ThreadOK, Inside, locals, InEnd
  <2>3. \A u \in Threads \ {t} : ThreadOK(u)'
    BY <1>18, OthersFrame DEF LockIn, locals
  <2> QED BY <1>18, <1>o, <1>l, <2>1, <2>2, <2>3 DEF LockIn, fields
<1>19. CASE LockOut(t)
  <2>1. TypeOK'
    <3>1. AfterLocks[Op(t)] \in {"test", "insert", "remove"}
      BY <1>19, <1>d DEF LockOut, AfterLocks
    <3>2. pc' \in [Threads -> Steps]
      BY <1>19, <3>1 DEF LockOut, TypeInv, TypeOK, Steps
    <3>3. mutex' \in [Channels -> Threads \cup {NULL}]
      BY <1>19 DEF LockOut, TypeInv, TypeOK
    <3> QED BY <1>19, <3>2, <3>3 DEF LockOut, TypeInv, TypeOK, locals, fields, sems
  <2>2. ThreadOK(t)'
    <3>1. match[t] \in Channels
      BY <1>19 DEF LockOut, TypeInv, TypeOK, ThreadOK, InEnd, OutEnd
    <3>2. pc'[t] = AfterLocks[Op(t)] /\ match' = match /\ ip' = ip
      BY <1>19 DEF LockOut, TypeInv, TypeOK, locals
    <3>3. ~Finished(t) /\ Op(t) \in {"send", "receive", "bind", "unbind"}
      BY <1>19, <1>d DEF LockOut
    <3> QED BY <1>s, <3>1, <3>2, <3>3 DEF AfterLocks, ThreadOK, Inside
  <2>3. \A u \in Threads \ {t} : ThreadOK(u)'
    BY <1>19, OthersFrame DEF LockOut, locals
  <2> QED BY <1>19, <1>o, <1>l, <2>1, <2>2, <2>3 DEF LockOut, fields
<1>20. CASE Fault(t)
  <2>1. TypeOK'
    BY <1>20 DEF Fault, TypeInv, TypeOK, Steps, locals, locks, fields, sems
  <2>2. ThreadOK(t)'
    BY <1>20, <1>s DEF Fault, TypeInv, TypeOK, ThreadOK, Inside, locals
  <2>3. \A u \in Threads \ {t} : ThreadOK(u)'
    BY <1>20, OthersFrame DEF Fault, locals
  <2> QED BY <1>20, <1>o, <1>l, <2>1, <2>2, <2>3 DEF Fault, fields
<1>21. CASE BindRefused(t)
  <2> QED BY <1>21, ReturnStep DEF BindRefused, TypeInv, TypeOK, locks, fields, sems
<1>22. CASE BindStarts(t)
  <2>1. TypeOK'
    BY <1>22, <1>d DEF BindStarts, TypeInv, TypeOK, ThreadOK, Steps, fields, sems
  <2>2. ThreadOK(t)'
    BY <1>22, <1>s DEF BindStarts, TypeInv, TypeOK, ThreadOK, Inside
  <2>3. \A u \in Threads \ {t} : ThreadOK(u)'
    BY <1>22, OthersFrame DEF BindStarts
  <2> QED BY <1>22, <1>o, <1>l, <2>1, <2>2, <2>3 DEF BindStarts, fields
<1>23. CASE BindAgain(t)
  <2> QED BY <1>23, ReturnStep DEF BindAgain, TypeInv, TypeOK, fields, sems
<1>24. CASE InsertLink(t)
  <2>1. /\ Id(t) \in Channels /\ match[t] \in Channels
        /\ \A c \in Channels : connections[c] \in ListsOver(Channels) /\ ListOK(connections[c])
    BY <1>24, <1>d DEF InsertLink, TypeInv, TypeOK, ThreadOK, Inside
  <2>2. \A c, d \in Channels : /\ InsertElement(connections[c], d) \in ListsOver(Channels)
                              /\ ListOK(InsertElement(connections[c], d))
    BY <2>1, InsertList
  <2>3. \A c \in Channels :
          connections'[c] \in {connections[c], InsertElement(connections[c], match[t]),
                               InsertElement(connections[c], Id(t))}
    BY <1>24, <2>1 DEF InsertLink, TypeInv, TypeOK
  <2>4. DOMAIN connections' = Channels /\ connections' = [c \in Channels |-> connections'[c]]
    BY <1>24 DEF InsertLink, TypeInv, TypeOK
  <2>5. /\ connections' \in [Channels -> ListsOver(Channels)]
        /\ \A c \in Channels : ListOK(connections'[c])
    BY <2>1, <2>2, <2>3, <2>4
  <2>6. connsSem' \in [Channels -> Semaphores(Threads)]
    BY <1>24, <2>1, PostTypes DEF InsertLink, TypeInv, TypeOK
  <2> QED
    BY <1>24, <2>5, <2>6, ReturnStep, UnlockedType DEF InsertLink, TypeInv, TypeOK
<1>25. CASE UnbindStarts(t)
  <2>0. Length(connections[Id(t)]) \in Nat
    BY <1>25, <1>d DEF UnbindStarts, TypeInv, TypeOK, ListsOver, Length
  <2>1. TypeOK'
    BY <1>25, <2>0 DEF UnbindStarts, TypeInv, TypeOK, Steps, locks, fields, sems
  <2>2. ThreadOK(t)'
    BY <1>25, <1>s DEF UnbindStarts, TypeInv, TypeOK, ThreadOK, Inside
  <2>3. \A u \in Threads \ {t} : ThreadOK(u)'
    BY <1>25, OthersFrame DEF UnbindStarts
  <2> QED BY <1>25, <1>o, <1>l, <2>1, <2>2, <2>3 DEF UnbindStarts, fields
<1>26. CASE UnbindNext(t)
  <2>0. ElementN(connections[Id(t)], i[t]) \in Channels \cup {NULL}
    <3>1. connections[Id(t)].elements \in Seq(Channels) /\ i[t] \in Nat
      BY <1>26, <1>d DEF UnbindNext, TypeInv, TypeOK, ListsOver
    <3> QED BY <3>1 DEF ElementN
  <2>1. TypeOK'
    BY <1>26, <2>0 DEF UnbindNext, TypeInv, TypeOK, Steps, locks, fields, sems
  <2>2. ThreadOK(t)'
    BY <1>26, <1>s DEF UnbindNext, TypeInv, TypeOK, ThreadOK, Inside
  <2>3. \A u \in Threads \ {t} : ThreadOK(u)'
    BY <1>26, OthersFrame DEF UnbindNext
  <2> QED BY <1>26, <1>o, <1>l, <2>1, <2>2, <2>3 DEF UnbindNext, fields
<1>27. CASE TakeIn(t)
  <2>1. TypeOK'
    BY <1>27, SemaphoreStep DEF TakeIn, TypeInv, TypeOK, Steps, TakeConnsSem, locals, locks, fields
  <2>2. ThreadOK(t)'
    BY <1>27, <1>s DEF TakeIn, TypeInv, TypeOK, ThreadOK, Inside, TakeConnsSem, locals
  <2>3. \A u \in Threads \ {t} : ThreadOK(u)'
    BY <1>27, OthersFrame DEF TakeIn, TakeConnsSem, locals
  <2> QED BY <1>27, <1>o, <1>l, <2>1, <2>2, <2>3 DEF TakeIn, TakeConnsSem, fields
<1>28. CASE TakeOut(t)
  <2>1. TypeOK'
    BY <1>28, SemaphoreStep DEF TakeOut, TypeInv, TypeOK, Steps, TakeConnsSem, locals, locks, fields
  <2>2. ThreadOK(t)'
    BY <1>28, <1>s DEF TakeOut, TypeInv, TypeOK, ThreadOK, Inside, TakeConnsSem, locals
  <2>3. \A u \in Threads \ {t} : ThreadOK(u)'
    BY <1>28, OthersFrame DEF TakeOut, TakeConnsSem, locals
  <2> QED BY <1>28, <1>o, <1>l, <2>1, <2>2, <2>3 DEF TakeOut, TakeConnsSem, fields
<1>29. CASE RemoveLink(t)
  <2> DEFINE id == Id(t)
             opposite == match[t]
             rest == RemoveElement(connections[id], opposite)
             oppositeRest == RemoveElement(connections[opposite], id)
  <2>1. /\ id \in Channels /\ opposite \in Channels /\ NULL \notin Channels
        /\ \A c \in Channels : connections[c] \in ListsOver(Channels) /\ ListOK(connections[c])
        /\ \A c \in Channels : connsSem[c] \in Semaphores(Threads)
    BY <1>29, <1>d, ChannelAssumption DEF RemoveLink, TypeInv, TypeOK, ThreadOK, Inside
  <2>2. /\ rest \in ListsOver(Channels) /\ ListOK(rest)
        /\ oppositeRest \in ListsOver(Channels) /\ ListOK(oppositeRest)
    BY <2>1, RemoveList
  <2>3. Length(rest) \in Nat
    BY <2>2 DEF Length, ListsOver
  <2>4. /\ connections' = [connections EXCEPT ![id] = rest, ![opposite] = oppositeRest]
        /\ \E s1 \in PostUnlessEmpty(id, rest),
              s2 \in PostUnlessEmpty(opposite, oppositeRest) :
             connsSem' = [connsSem EXCEPT ![id] = s1, ![opposite] = s2]
        /\ length' = [length EXCEPT ![t] = Length(rest)]
    BY <1>29 DEF RemoveLink, OppositeRest
  <2>5. \A l : /\ \A s \in PostUnlessEmpty(id, l) : s \in Semaphores(Threads)
               /\ \A s \in PostUnlessEmpty(opposite, l) : s \in Semaphores(Threads)
    BY <2>1, PostTypes DEF PostUnlessEmpty
  <2> HIDE DEF id, opposite, rest, oppositeRest
  <2>6. /\ connections' \in [Channels -> ListsOver(Channels)]
        /\ \A c \in Channels : ListOK(connections'[c])
    <3>1. DOMAIN connections = Channels
      BY DEF TypeInv, TypeOK
    <3>2. \A c \in Channels : connections'[c] \in {connections[c], rest, oppositeRest}
      BY <2>1, <2>4, <3>1
    <3>3. connections' = [c \in Channels |-> connections'[c]]
      BY <2>4, <3>1
    <3> QED BY <2>1, <2>2, <3>2, <3>3
  <2>7. connsSem' \in [Channels -> Semaphores(Threads)]
    <3>1. PICK s1 \in PostUnlessEmpty(id, rest),
               s2 \in PostUnlessEmpty(opposite, oppositeRest) :
            connsSem' = [connsSem EXCEPT ![id] = s1, ![opposite] = s2]
      BY <2>4
    <3>2. s1 \in Semaphores(Threads) /\ s2 \in Semaphores(Threads)
      BY <2>5
    <3> QED BY <3>1, <3>2 DEF TypeInv, TypeOK
  <2>8. length' \in [Threads -> Nat]
    BY <2>3, <2>4 DEF TypeInv, TypeOK
  <2>9. TypeOK'
    <3>1. /\ pc' \in [Threads -> Steps] /\ i' \in [Threads -> Nat]
          /\ match' \in [Threads -> Channels \cup {NULL}]
          /\ mutex' \in [Channels -> Threads \cup {NULL}]
      BY <1>29, UnlockedType DEF RemoveLink, TypeInv, TypeOK, Steps
    <3> QED BY <1>29, <2>6, <2>7, <2>8, <3>1 DEF RemoveLink, TypeInv, TypeOK
  <2>10. ThreadOK(t)'
    BY <1>29, <1>s DEF RemoveLink, TypeInv, TypeOK, ThreadOK, Inside
  <2>11. \A u \in Threads \ {t} : ThreadOK(u)'
    BY <1>29, OthersFrame DEF RemoveLink
  <2> QED BY <1>o, <2>6, <2>9, <2>10, <2>11
<1>30. CASE UnbindEnds(t)
  <2> QED BY <1>30, ReturnStep DEF UnbindEnds, TypeInv, TypeOK, fields, sems
<1> QED
  BY <1>1, <1>2, <1>3, <1>4, <1>5, <1>6, <1>7, <1>8, <1>9, <1>10, <1>11, <1>12, <1>13, <1>14, <1>15, <1>16, <1>17, <1>18, <1>19, <1>20, <1>21, <1>22, <1>23, <1>24, <1>25, <1>26, <1>27, <1>28, <1>29, <1>30
     DEF Step, channel_scan, channel_send, channel_receive, channel_bind, channel_unbind

\* TypeInv is inductive.
LEMMA TypeNext == TypeInv /\ [Next]_vars => TypeInv'
<1> SUFFICES ASSUME TypeInv, [Next]_vars PROVE TypeInv'
  OBVIOUS
<1>1. CASE UNCHANGED vars
  BY <1>1 DEF vars, locals, locks, fields, sems, TypeInv, TypeOK, ThreadOK,
              Finished, InEnd, Id, Op, Call
<1>2. ASSUME NEW t \in Threads, Step(t) PROVE TypeInv'
  BY <1>2, TypeStep
<1> QED BY <1>1, <1>2 DEF Next, Stopped

(***************************************************************************)
(* Type correctness, for every program: no step of the channel functions   *)
(* leaves a variable with a value of another kind.                         *)
(***************************************************************************)
THEOREM TypeCorrect == Spec => []TypeOK
<1>1. TypeInv => TypeOK
  BY DEF TypeInv
<1> QED BY TypeInit, TypeNext, <1>1, PTL DEF Spec

-----------------------------------------------------------------------------
(***************************************************************************)
(* One token per operation.  The proof needs the mutexes: a thread that    *)
(* saw both channels ready holds them both, so they are still ready when   *)
(* it claims them, and nobody else claims either.                          *)
(***************************************************************************)
Held(t) ==
  /\ pc[t] \in Inside =>
       mutex[Id(t)] = t /\ mutex[match[t]] = t /\ Id(t) # match[t]
  /\ pc[t] = "lockOut" => mutex[InEnd(t)] = t

SeenReady(t) == pc[t] = "transfer" => ready[Id(t)] /\ ready[match[t]]

\* Only its owner waits for the token of a channel.
OwnerWaits(c, t) ==
  InWait(blocked[c], t) => Owner[c] = t /\ pc[t] = "park" /\ Id(t) = c

TokenInv ==
  /\ \A t \in Threads : Held(t) /\ SeenReady(t)
  /\ \A c \in Channels, t \in Threads : OwnerWaits(c, t)
  /\ OneToken

\* At first nothing is offered and there is no token.
LEMMA TokenInit == Init => TokenInv
<1> SUFFICES ASSUME Init PROVE TokenInv
  OBVIOUS
<1>1. \A t \in Threads : Held(t) /\ SeenReady(t)
  BY DEF Init, Held, SeenReady, Inside
<1>2. \A c \in Channels : ~Offering(Owner[c])
  BY ChannelAssumption DEF Init, Offering
<1>3. \A c \in Channels : ~ready[c] /\ blocked[c] = NewSemaphore(0)
  BY DEF Init
<1> QED
  BY <1>1, <1>2, <1>3
     DEF TokenInv, OwnerWaits, InWait, OneToken, HasOneToken, NewSemaphore

\* A step of t leaves the calls of the other threads alone, and every mutex
\* that one of them holds.
LEMMA OtherThreads ==
  ASSUME TypeInv, TokenInv, NEW t \in Threads, Step(t)
  PROVE  /\ \A u \in Threads \ {t} :
              pc'[u] = pc[u] /\ ip'[u] = ip[u] /\ match'[u] = match[u]
         /\ \A c \in Channels : mutex[c] \notin {t, NULL} => mutex'[c] = mutex[c]
<1>1. /\ pc \in [Threads -> Steps] /\ ip \in [Threads -> Nat \ {0}]
      /\ match \in [Threads -> Channels \cup {NULL}]
      /\ mutex \in [Channels -> Threads \cup {NULL}]
  BY DEF TypeInv, TypeOK
<1>2. pc[t] \in Inside => mutex[Id(t)] = t /\ mutex[match[t]] = t
  BY DEF TokenInv, Held
<1>3. \A c \in Channels : pc[t] \in Inside /\ mutex[c] \notin {t, NULL}
                            => Unlocked(mutex, t)[c] = mutex[c]
  BY <1>1, <1>2 DEF Unlocked
<1>4. Return(t) => \A u \in Threads \ {t} :
                     pc'[u] = pc[u] /\ ip'[u] = ip[u] /\ match'[u] = match[u]
  BY ReturnTypes
<1>5. CASE Start(t) \/ LockIn(t) \/ LockOut(t) \/ Fault(t)
  BY <1>1, <1>5 DEF Start, LockIn, LockOut, Fault, locals, locks
<1>6. CASE channel_scan(t)
  BY <1>1, <1>3, <1>4, <1>6
     DEF channel_scan, Enter, Arm, Count, ScanNext, ScanEnds, Test, Leave,
         LeaveAndPark, ParkBlocks, locals, locks, Inside
<1>7. CASE channel_send(t)
  BY <1>1, <1>3, <1>4, <1>7
     DEF channel_send, SendTransfer, AwaitReceived, SendUnparks, Claim,
         locals, locks, Inside
<1>8. CASE channel_receive(t)
  BY <1>1, <1>3, <1>4, <1>8
     DEF channel_receive, ReceiveTransfer, ReceiveUnparks, Copy, Acknowledge,
         Claim, locals, locks, Inside
<1>9. CASE channel_bind(t)
  BY <1>1, <1>3, <1>4, <1>9
     DEF channel_bind, BindRefused, BindStarts, BindAgain, InsertLink, locks, Inside
<1>10. CASE channel_unbind(t)
  BY <1>1, <1>3, <1>4, <1>10
     DEF channel_unbind, UnbindStarts, UnbindNext, TakeIn, TakeOut, TakeConnsSem,
         RemoveLink, UnbindEnds, locals, locks, Inside
<1> QED BY <1>5, <1>6, <1>7, <1>8, <1>9, <1>10 DEF Step

\* The call of a thread whose ip does not change is the same.
LEMMA SameCall ==
  ASSUME NEW u \in Threads, ip'[u] = ip[u]
  PROVE  Id(u)' = Id(u) /\ Op(u)' = Op(u)
BY DEF Id, Op, Call

\* A step of t takes no mutex away from another thread.
LEMMA HeldByOthers ==
  ASSUME TypeInv, TokenInv, NEW t \in Threads, Step(t),
         NEW u \in Threads \ {t}
  PROVE  Held(u)'
<1>1. /\ pc'[u] = pc[u] /\ ip'[u] = ip[u] /\ match'[u] = match[u]
      /\ Id(u)' = Id(u) /\ Op(u)' = Op(u)
  BY OtherThreads, SameCall
<1>2. InEnd(u)' = InEnd(u)
  BY <1>1 DEF InEnd
<1>3. \A c \in Channels : mutex[c] = u => mutex'[c] = u
  BY OtherThreads, ChannelAssumption
<1>4. /\ pc[u] \in Inside => Id(u) \in Channels /\ match[u] \in Channels
      /\ pc[u] = "lockOut" => InEnd(u) \in Channels
  <2>1. pc[u] # "call" => Id(u) \in Channels
    BY CallIsCall DEF TypeInv, TypeOK, ThreadOK
  <2> QED BY <2>1 DEF TypeInv, TypeOK, ThreadOK, Inside, InEnd
<1> QED BY <1>1, <1>2, <1>3, <1>4 DEF TokenInv, Held, Inside

\* What a step does to its own thread: it is inside both locks only after
\* LockOut, or because it was before.
LEMMA OwnStep ==
  ASSUME TypeInv, NEW t \in Threads, Step(t)
  PROVE  /\ pc'[t] = "transfer" => Test(t) /\ BothReady(t)
         /\ pc'[t] \in Inside => LockOut(t) \/ Test(t)
         /\ pc'[t] = "lockOut" => LockIn(t)
<1>1. pc \in [Threads -> Steps]
  BY DEF TypeInv, TypeOK
<1>2. Return(t) => pc'[t] = "call"
  BY ReturnTypes
<1>3. ~Finished(t) => Op(t) \in {"send", "receive", "bind", "unbind"}
  BY CallIsCall DEF TypeInv, TypeOK
<1>4. CASE Start(t)
  BY <1>1, <1>3, <1>4 DEF Start, FirstStep, Inside
<1>5. CASE LockIn(t) \/ LockOut(t) \/ Fault(t)
  <2>1. pc[t] # "call" => Op(t) \in {"send", "receive", "bind", "unbind"}
    BY <1>3 DEF TypeInv, ThreadOK
  <2> QED BY <1>1, <1>5, <2>1 DEF LockIn, LockOut, Fault, AfterLocks, Inside
<1>6. CASE channel_scan(t)
  BY <1>1, <1>2, <1>6
     DEF channel_scan, Enter, Arm, Count, ScanNext, ScanEnds, Test, Leave,
         LeaveAndPark, ParkBlocks, Inside
<1>7. CASE channel_send(t)
  BY <1>1, <1>2, <1>7 DEF channel_send, SendTransfer, AwaitReceived, SendUnparks, Inside
<1>8. CASE channel_receive(t)
  BY <1>1, <1>2, <1>8
     DEF channel_receive, ReceiveTransfer, ReceiveUnparks, Copy, Acknowledge, Inside
<1>9. CASE channel_bind(t)
  BY <1>1, <1>2, <1>9
     DEF channel_bind, BindRefused, BindStarts, BindAgain, InsertLink, Inside
<1>10. CASE channel_unbind(t)
  BY <1>1, <1>2, <1>10
     DEF channel_unbind, UnbindStarts, UnbindNext, TakeIn, TakeOut, TakeConnsSem,
         RemoveLink, UnbindEnds, Inside
<1> QED BY <1>4, <1>5, <1>6, <1>7, <1>8, <1>9, <1>10 DEF Step

\* A thread inside both locks of a connection holds both mutexes.
LEMMA HeldByItself ==
  ASSUME TypeInv, TokenInv, NEW t \in Threads, Step(t)
  PROVE  Held(t)'
<1>1. /\ pc \in [Threads -> Steps] /\ match \in [Threads -> Channels \cup {NULL}]
      /\ mutex \in [Channels -> Threads \cup {NULL}]
  BY DEF TypeInv, TypeOK
<1>2. pc[t] # "call" => Id(t) \in Channels
  BY CallIsCall DEF TypeInv, TypeOK, ThreadOK
<1>3. CASE LockIn(t)
  <2>1. pc'[t] = "lockOut" /\ InEnd(t) \in Channels
    BY <1>1, <1>2, <1>3 DEF LockIn, InEnd
  <2>2. InEnd(t)' = InEnd(t)
    BY <1>3, SameCall DEF LockIn, InEnd, locals
  <2> QED BY <1>1, <1>3, <2>1, <2>2 DEF LockIn, Held, Inside
<1>4. CASE LockOut(t)
  <2>1. /\ InEnd(t) \in Channels /\ OutEnd(t) \in Channels
        /\ mutex[InEnd(t)] = t /\ mutex[OutEnd(t)] = NULL
    BY <1>1, <1>2, <1>4 DEF LockOut, TokenInv, Held, TypeInv, ThreadOK, InEnd, OutEnd
  <2>2. InEnd(t) # OutEnd(t)
    BY <2>1, ChannelAssumption
  <2>3. mutex'[InEnd(t)] = t /\ mutex'[OutEnd(t)] = t
    BY <1>1, <1>4, <2>1, <2>2 DEF LockOut
  <2>4. {Id(t), match[t]} = {InEnd(t), OutEnd(t)}
    BY DEF InEnd, OutEnd
  <2>5. Id(t)' = Id(t) /\ match' = match /\ Op(t)' = Op(t)
    BY <1>4, SameCall DEF LockOut, locals
  <2>6. pc'[t] # "lockOut"
    BY <1>4, OwnStep DEF LockIn, LockOut
  <2> QED BY <2>2, <2>3, <2>4, <2>5, <2>6 DEF Held
<1>5. CASE Test(t)
  <2>1. Id(t)' = Id(t) /\ match' = match
    BY <1>5, SameCall DEF Test, locals
  <2>2. pc'[t] \in Inside => mutex' = mutex
    BY <1>1, <1>5 DEF Test, Inside
  <2>3. pc[t] \in Inside /\ pc'[t] # "lockOut"
    BY <1>1, <1>5 DEF Test, Inside
  <2> QED BY <2>1, <2>2, <2>3 DEF TokenInv, Held
<1>6. CASE ~LockIn(t) /\ ~LockOut(t) /\ ~Test(t)
  BY <1>6, OwnStep DEF Held
<1> QED BY <1>3, <1>4, <1>5, <1>6

-----------------------------------------------------------------------------
(***************************************************************************)
(* Most steps change neither ready nor blocked, nor what their thread has  *)
(* on offer.                                                               *)
(***************************************************************************)
Quiet(t) ==
  /\ ready' = ready
  /\ blocked' = blocked
  /\ pc[t] # "park"
  /\ Offering(t)' = Offering(t)
  /\ Offering(t) => Id(t)' = Id(t)

Loud(t) ==
  \/ Arm(t) \/ SendTransfer(t) \/ ReceiveTransfer(t)
  \/ ParkBlocks(t) \/ SendUnparks(t) \/ ReceiveUnparks(t)

\* The steps that are not loud change neither ready, blocked nor any offer.
LEMMA QuietStep ==
  ASSUME TypeInv, NEW t \in Threads, Step(t), ~Loud(t)
  PROVE  Quiet(t)
<1>1. pc \in [Threads -> Steps] /\ ThreadOK(t)
  BY DEF TypeInv, TypeOK
<1>2. Return(t) => pc'[t] = "call"
  BY ReturnTypes
<1>3. ~Finished(t) => Op(t) \in {"send", "receive", "bind", "unbind"}
  BY CallIsCall DEF TypeInv, TypeOK
<1>4. ip' = ip => Id(t)' = Id(t) /\ Op(t)' = Op(t)
  BY SameCall
<1>5. CASE Start(t)
  BY <1>1, <1>3, <1>4, <1>5 DEF Start, FirstStep, Quiet, Offering, fields, sems
<1>6. CASE LockIn(t) \/ Fault(t)
  BY <1>1, <1>4, <1>6 DEF LockIn, Fault, Quiet, Offering, fields, sems
<1>7. CASE LockOut(t)
  <2>1. Op(t) \in {"send", "receive", "bind", "unbind"}
    BY <1>1, <1>3, <1>7 DEF LockOut, ThreadOK
  <2> QED BY <1>1, <1>4, <1>7, <2>1
             DEF LockOut, AfterLocks, Quiet, Offering, fields, sems
<1>8. CASE channel_scan(t)
  <2>1. CASE Enter(t) \/ Count(t) \/ ScanEnds(t) \/ Test(t) \/ LeaveAndPark(t)
    BY <1>1, <1>4, <2>1
       DEF Enter, Count, ScanEnds, Test, LeaveAndPark, Quiet, Offering, fields, sems
  <2>2. CASE ScanNext(t)
    BY <1>1, <1>4, <2>2 DEF ScanNext, ThreadOK, Quiet, Offering, sems
  <2>3. CASE Leave(t)
    BY <1>1, <1>2, <2>3 DEF Leave, Quiet, Offering, fields
  <2> QED BY <1>8, <2>1, <2>2, <2>3 DEF channel_scan, Loud
<1>9. CASE AwaitReceived(t) \/ Copy(t) \/ Acknowledge(t)
  BY <1>1, <1>2, <1>4, <1>9
     DEF AwaitReceived, Copy, Acknowledge, Quiet, Offering, fields, sems
<1>10. CASE channel_bind(t)
  <2>1. CASE BindRefused(t) \/ BindAgain(t) \/ InsertLink(t)
    BY <1>1, <1>2, <2>1
       DEF BindRefused, BindAgain, InsertLink, Quiet, Offering, fields, sems
  <2>2. CASE BindStarts(t)
    BY <1>1, <1>4, <2>2 DEF BindStarts, ThreadOK, Quiet, Offering, fields, sems
  <2> QED BY <1>10, <2>1, <2>2 DEF channel_bind
<1>11. CASE channel_unbind(t)
  <2>1. CASE UnbindStarts(t) \/ UnbindNext(t) \/ RemoveLink(t)
    BY <1>1, <1>4, <2>1
       DEF UnbindStarts, UnbindNext, RemoveLink, Quiet, Offering, fields, sems
  <2>2. CASE TakeIn(t) \/ TakeOut(t)
    BY <1>1, <1>4, <2>2
       DEF TakeIn, TakeOut, TakeConnsSem, ThreadOK, Quiet, Offering, fields
  <2>3. CASE UnbindEnds(t)
    BY <1>1, <1>2, <2>3 DEF UnbindEnds, Quiet, Offering, fields, sems
  <2> QED BY <1>11, <2>1, <2>2, <2>3 DEF channel_unbind
<1> QED
  BY <1>5, <1>6, <1>7, <1>8, <1>9, <1>10, <1>11
     DEF Step, channel_send, channel_receive, Loud

\* A step of t neither begins nor ends the offer of another thread.
LEMMA OthersOffer ==
  ASSUME TypeInv, TokenInv, NEW t \in Threads, Step(t), NEW u \in Threads \ {t}
  PROVE  /\ pc'[u] = pc[u] /\ Id(u)' = Id(u)
         /\ Offering(u)' = Offering(u)
<1>1. pc'[u] = pc[u] /\ Id(u)' = Id(u) /\ Op(u)' = Op(u)
  BY OtherThreads, SameCall
<1> QED BY <1>1 DEF Offering

\* A channel stops being ready only in the hands of the thread that holds it.
LEMMA ClaimedByHolder ==
  ASSUME TypeInv, TokenInv, NEW t \in Threads, Step(t),
         NEW c \in Channels, ready[c], ~ready'[c]
  PROVE  mutex[c] = t
<1>1. ready \in [Channels -> BOOLEAN] /\ Held(t)
  BY DEF TypeInv, TypeOK, TokenInv
<1>2. CASE SendTransfer(t) \/ ReceiveTransfer(t)
  BY <1>1, <1>2 DEF SendTransfer, ReceiveTransfer, Claim, Held, Inside
<1>3. CASE Arm(t)
  BY <1>1, <1>3 DEF Arm
<1>4. CASE ParkBlocks(t) \/ SendUnparks(t) \/ ReceiveUnparks(t)
  BY <1>4 DEF ParkBlocks, SendUnparks, ReceiveUnparks, fields
<1>5. CASE ~Loud(t)
  BY <1>5, QuietStep DEF Quiet
<1> QED BY <1>2, <1>3, <1>4, <1>5 DEF Loud

\* A thread about to claim has seen both ready, and they are ready still.
LEMMA SeenReadyStep ==
  ASSUME TypeInv, TokenInv, NEW t \in Threads, Step(t), NEW u \in Threads
  PROVE  SeenReady(u)'
<1>1. CASE u = t
  <2>1. CASE Test(t) /\ BothReady(t)
    BY <1>1, <2>1, SameCall DEF Test, BothReady, SeenReady, locals, fields
  <2>2. CASE ~(Test(t) /\ BothReady(t))
    BY <1>1, <2>2, OwnStep DEF SeenReady
  <2> QED BY <2>1, <2>2
<1>2. CASE u # t /\ pc[u] = "transfer"
  <2>1. /\ Id(u) \in Channels /\ match[u] \in Channels
        /\ mutex[Id(u)] = u /\ mutex[match[u]] = u
        /\ ready[Id(u)] /\ ready[match[u]]
    BY <1>2, CallIsCall
       DEF TypeInv, TypeOK, ThreadOK, TokenInv, Held, SeenReady, Inside
  <2>2. ready'[Id(u)] /\ ready'[match[u]]
    BY <1>2, <2>1, ClaimedByHolder
  <2>3. Id(u)' = Id(u) /\ match'[u] = match[u]
    BY <1>2, OtherThreads, SameCall
  <2> QED BY <2>2, <2>3 DEF SeenReady
<1>3. CASE u # t /\ pc[u] # "transfer"
  BY <1>3, OtherThreads DEF SeenReady
<1> QED BY <1>1, <1>2, <1>3

\* Quiet steps leave every token where it is.
LEMMA QuietTokens ==
  ASSUME TypeInv, TokenInv, NEW t \in Threads, Step(t), ~Loud(t)
  PROVE  /\ \A c \in Channels, u \in Threads : OwnerWaits(c, u)'
         /\ OneToken'
<1>1. Quiet(t)
  BY QuietStep
<1>2. ASSUME NEW c \in Channels, NEW u \in Threads PROVE OwnerWaits(c, u)'
  <2>1. CASE u = t
    BY <1>1, <2>1 DEF Quiet, TokenInv, OwnerWaits, InWait
  <2>2. CASE u # t
    BY <1>1, <2>2, OthersOffer DEF Quiet, TokenInv, OwnerWaits, InWait
  <2> QED BY <2>1, <2>2
<1>3. ASSUME NEW c \in Channels PROVE HasOneToken(c)'
  <2>1. Owner[c] \in Threads /\ HasOneToken(c)
    BY ChannelAssumption DEF TokenInv, OneToken
  <2>2. /\ Offering(Owner[c])' = Offering(Owner[c])
        /\ Offering(Owner[c]) => Id(Owner[c])' = Id(Owner[c])
    BY <1>1, <2>1, OthersOffer DEF Quiet
  <2> QED BY <1>1, <2>1, <2>2 DEF Quiet, HasOneToken
<1> QED BY <1>2, <1>3 DEF OneToken

\* A thread that is sending or receiving owns its channel.
LEMMA OwnChannel ==
  ASSUME TypeInv, NEW t \in Threads,
         \/ pc[t] \in {"arm", "park", "transfer"}
         \/ Offering(t)
  PROVE  Id(t) \in Channels /\ Owner[Id(t)] = t /\ Op(t) \in {"send", "receive"}
<1>1. ~Finished(t) /\ Op(t) \in {"send", "receive"}
  BY DEF TypeInv, ThreadOK, Offering
<1> QED BY <1>1, CallIsCall DEF TypeInv, TypeOK

\* Arm: the channel becomes ready, and there is no token.
LEMMA ArmTokens ==
  ASSUME TypeInv, TokenInv, NEW t \in Threads, Step(t), Arm(t)
  PROVE  /\ \A c \in Channels, u \in Threads : OwnerWaits(c, u)'
         /\ OneToken'
<1> DEFINE own == Id(t)
<1>1. /\ own \in Channels /\ Owner[own] = t /\ own' = own /\ ~Offering(t) /\ Offering(t)'
      /\ blocked' = blocked /\ ready' = [ready EXCEPT ![own] = TRUE]
      /\ ready \in [Channels -> BOOLEAN]
  BY OwnChannel, SameCall DEF Arm, Offering, sems, TypeInv, TypeOK
<1>2. ASSUME NEW c \in Channels, NEW u \in Threads PROVE OwnerWaits(c, u)'
  <2>1. CASE u = t
    BY <1>1, <2>1 DEF Arm, TokenInv, OwnerWaits, InWait
  <2>2. CASE u # t
    BY <1>1, <2>2, OthersOffer DEF TokenInv, OwnerWaits, InWait
  <2> QED BY <2>1, <2>2
<1>3. ASSUME NEW c \in Channels PROVE HasOneToken(c)'
  <2>1. Owner[c] \in Threads /\ HasOneToken(c)
    BY ChannelAssumption DEF TokenInv, OneToken
  <2>2. CASE c = own
    <3>1. t \notin blocked[c].woken
      BY DEF TokenInv, OwnerWaits, InWait, Arm
    <3> QED BY <1>1, <2>1, <2>2, <3>1 DEF HasOneToken
  <2>3. CASE c # own /\ Owner[c] = t
    BY <1>1, <2>1, <2>3 DEF HasOneToken
  <2>4. CASE Owner[c] # t
    BY <1>1, <2>1, <2>4, OthersOffer DEF HasOneToken
  <2> QED BY <2>2, <2>3, <2>4
<1> QED BY <1>2, <1>3 DEF OneToken

\* Waiting for the token moves the owner into the condition variable only.
LEMMA ParkBlocksTokens ==
  ASSUME TypeInv, TokenInv, NEW t \in Threads, Step(t), ParkBlocks(t)
  PROVE  /\ \A c \in Channels, u \in Threads : OwnerWaits(c, u)'
         /\ OneToken'
<1> DEFINE own == Id(t)
<1>1. /\ own \in Channels /\ Owner[own] = t /\ own' = own /\ Offering(t) /\ Offering(t)'
      /\ pc' = pc /\ ready' = ready
      /\ blocked' = [blocked EXCEPT ![own] = Block(@, t)]
      /\ blocked \in [Channels -> Semaphores(Threads)]
  BY OwnChannel, SameCall DEF ParkBlocks, Offering, fields, TypeInv, TypeOK
<1>2. /\ blocked'[own].value = blocked[own].value
      /\ blocked'[own].woken = blocked[own].woken
      /\ blocked'[own].waiting = blocked[own].waiting \cup {t}
      /\ \A c \in Channels : c # own => blocked'[c] = blocked[c]
  BY <1>1 DEF Block, Semaphores
<1>3. ASSUME NEW c \in Channels, NEW u \in Threads PROVE OwnerWaits(c, u)'
  <2>1. CASE u = t
    BY <1>1, <1>2, <2>1 DEF ParkBlocks, TokenInv, OwnerWaits, InWait
  <2>2. CASE u # t
    BY <1>1, <1>2, <2>2, OthersOffer DEF TokenInv, OwnerWaits, InWait
  <2> QED BY <2>1, <2>2
<1>4. ASSUME NEW c \in Channels PROVE HasOneToken(c)'
  <2>1. Owner[c] \in Threads /\ HasOneToken(c)
    BY ChannelAssumption DEF TokenInv, OneToken
  <2>2. CASE Owner[c] = t
    BY <1>1, <1>2, <2>1, <2>2 DEF HasOneToken
  <2>3. CASE Owner[c] # t
    BY <1>1, <1>2, <2>1, <2>3, OthersOffer DEF HasOneToken
  <2> QED BY <2>2, <2>3
<1> QED BY <1>3, <1>4 DEF OneToken

(***************************************************************************)
(* The owner takes the token and its offer ends.  Here the proof needs     *)
(* that no thread wakes without a signal: it would take a token that is    *)
(* not there and leave the channel ready.                                  *)
(***************************************************************************)
LEMMA UnparkTokens ==
  ASSUME TypeInv, TokenInv, ~SpuriousWakeups, NEW t \in Threads, Step(t),
         SendUnparks(t) \/ ReceiveUnparks(t)
  PROVE  /\ \A c \in Channels, u \in Threads : OwnerWaits(c, u)'
         /\ OneToken'
<1> DEFINE own == Id(t)
<1>1. /\ own \in Channels /\ Owner[own] = t /\ Offering(t) /\ pc[t] = "park"
      /\ ready' = ready /\ blocked' = [blocked EXCEPT ![own] = MyTake(@, t)]
      /\ blocked \in [Channels -> Semaphores(Threads)]
      /\ MyMayTake(blocked[own], t)
  BY OwnChannel DEF SendUnparks, ReceiveUnparks, Offering, fields, TypeInv, TypeOK
<1>2. ~Offering(t)'
  <2>1. pc'[t] \in {"call", "copy"}
    BY ReturnTypes DEF SendUnparks, ReceiveUnparks, TypeInv, TypeOK
  <2> QED BY <2>1 DEF Offering
<1>3. /\ blocked[own].value = IF ready[own] THEN 0 ELSE 1
      /\ t \in blocked[own].woken => ~ready[own]
  BY <1>1 DEF TokenInv, OneToken, HasOneToken
<1>4. ~ready[own] /\ blocked[own].value = 1
  BY <1>1, <1>3 DEF MyMayTake, WakesUp
<1>5. /\ blocked'[own].value = 0
      /\ blocked'[own].woken = blocked[own].woken \ {t}
      /\ blocked'[own].waiting = blocked[own].waiting \ {t}
      /\ \A c \in Channels : c # own => blocked'[c] = blocked[c]
  <2>1. blocked[own] \in Semaphores(Threads)
    BY <1>1
  <2>2. /\ Awake(blocked[own], t).value = 1
        /\ Awake(blocked[own], t) \in Semaphores(Threads)
        /\ Awake(blocked[own], t).woken = blocked[own].woken \ {t}
        /\ Awake(blocked[own], t).waiting = blocked[own].waiting \ {t}
    BY <1>4, <2>1 DEF Awake, Semaphores
  <2>3. /\ MyTake(blocked[own], t).value = 0
        /\ MyTake(blocked[own], t).woken = blocked[own].woken \ {t}
        /\ MyTake(blocked[own], t).waiting = blocked[own].waiting \ {t}
    BY <2>2 DEF MyTake, Semaphores
  <2> QED BY <1>1, <2>3
<1>6. ASSUME NEW c \in Channels, NEW u \in Threads PROVE OwnerWaits(c, u)'
  <2>1. CASE u = t
    <3>1. CASE c = own
      BY <1>5, <2>1, <3>1 DEF OwnerWaits, InWait
    <3>2. CASE c # own
      BY <1>5, <2>1, <3>2 DEF TokenInv, OwnerWaits, InWait
    <3> QED BY <3>1, <3>2
  <2>2. CASE u # t
    BY <1>5, <2>2, OthersOffer DEF TokenInv, OwnerWaits, InWait
  <2> QED BY <2>1, <2>2
<1>7. ASSUME NEW c \in Channels PROVE HasOneToken(c)'
  <2>1. Owner[c] \in Threads /\ HasOneToken(c)
    BY ChannelAssumption DEF TokenInv, OneToken
  <2>2. CASE Owner[c] = t /\ c = own
    BY <1>1, <1>2, <1>4, <1>5, <2>2 DEF HasOneToken
  <2>3. CASE Owner[c] = t /\ c # own
    BY <1>1, <1>2, <1>5, <2>1, <2>3 DEF HasOneToken
  <2>4. CASE Owner[c] # t
    BY <1>1, <1>5, <2>1, <2>4, OthersOffer DEF HasOneToken
  <2> QED BY <2>2, <2>3, <2>4
<1> QED BY <1>6, <1>7 DEF OneToken

(***************************************************************************)
(* The claim: both channels are ready, so neither has a token.  The offer  *)
(* of the thread itself ends; the other owner gets the token for its own.  *)
(***************************************************************************)
LEMMA ClaimTokens ==
  ASSUME TypeInv, TokenInv, NEW t \in Threads, Step(t),
         SendTransfer(t) \/ ReceiveTransfer(t)
  PROVE  /\ \A c \in Channels, u \in Threads : OwnerWaits(c, u)'
         /\ OneToken'
<1> DEFINE own == Id(t)
           other == match[t]
<1>1. /\ pc[t] = "transfer" /\ Claim(t) /\ ~Offering(t)'
      /\ own \in Channels /\ Owner[own] = t /\ Offering(t)
      /\ blocked \in [Channels -> Semaphores(Threads)]
      /\ ready \in [Channels -> BOOLEAN]
  <2>1. pc'[t] \in {"awaitReceived", "leave"}
    BY DEF SendTransfer, ReceiveTransfer, TypeInv, TypeOK
  <2>2. pc[t] = "transfer" /\ Claim(t)
    BY DEF SendTransfer, ReceiveTransfer
  <2> QED BY <2>1, <2>2, OwnChannel DEF Offering, TypeInv, TypeOK
<1>2. other \in Channels /\ own # other /\ ready[own] /\ ready[other]
  BY <1>1 DEF TypeInv, ThreadOK, TokenInv, Held, SeenReady, Inside
<1>3. PICK s \in MyPosts(blocked[other]) : blocked' = [blocked EXCEPT ![other] = s]
  BY <1>1 DEF Claim
<1>4. ready' = [ready EXCEPT ![own] = FALSE, ![other] = FALSE]
  BY <1>1 DEF Claim
<1>5. /\ Offering(Owner[other]) /\ Id(Owner[other]) = other
      /\ blocked[other].value = 0
      /\ blocked[own].value = 0
  BY <1>1, <1>2 DEF TokenInv, OneToken, HasOneToken
<1>6. s.value = 1 /\ s.waiting \cup s.woken = blocked[other].waiting \cup blocked[other].woken
  BY <1>1, <1>2, <1>3, <1>5, PostOnZero
<1>7. /\ blocked'[other] = s
      /\ \A c \in Channels : c # other => blocked'[c] = blocked[c]
      /\ ~ready'[own] /\ ~ready'[other]
      /\ \A c \in Channels : c # own /\ c # other => ready'[c] = ready[c]
  BY <1>1, <1>2, <1>3, <1>4
<1>8. ASSUME NEW c \in Channels, NEW u \in Threads PROVE OwnerWaits(c, u)'
  <2>1. InWait(blocked'[c], u) => InWait(blocked[c], u)
    BY <1>6, <1>7 DEF InWait
  <2>2. CASE u = t
    BY <1>1, <2>1, <2>2 DEF TokenInv, OwnerWaits
  <2>3. CASE u # t
    BY <2>1, <2>3, OthersOffer DEF TokenInv, OwnerWaits
  <2> QED BY <2>2, <2>3
<1>9. ASSUME NEW c \in Channels PROVE HasOneToken(c)'
  <2>1. Owner[c] \in Threads /\ HasOneToken(c)
    BY ChannelAssumption DEF TokenInv, OneToken
  <2>2. CASE c = other
    <3>1. Owner[c] # t
      BY <1>2, <1>5, <2>2
    <3>2. Offering(Owner[c])' /\ Id(Owner[c])' = c
      BY <1>5, <2>1, <2>2, <3>1, OthersOffer
    <3> QED BY <1>6, <1>7, <2>2, <3>2 DEF HasOneToken
  <2>3. CASE c = own
    BY <1>1, <1>2, <1>5, <1>7, <2>3 DEF HasOneToken
  <2>4. CASE c # own /\ c # other /\ Owner[c] = t
    BY <1>1, <1>7, <2>1, <2>4 DEF HasOneToken
  <2>5. CASE c # other /\ Owner[c] # t
    BY <1>1, <1>7, <2>1, <2>5, OthersOffer DEF HasOneToken
  <2> QED BY <2>2, <2>3, <2>4, <2>5
<1> QED BY <1>8, <1>9 DEF OneToken

\* Every step of a thread keeps the tokens.
LEMMA TokenStep ==
  ASSUME TypeInv, TokenInv, ~SpuriousWakeups, NEW t \in Threads, Step(t)
  PROVE  TokenInv'
<1>1. /\ \A c \in Channels, u \in Threads : OwnerWaits(c, u)'
      /\ OneToken'
  BY ArmTokens, ParkBlocksTokens, UnparkTokens, ClaimTokens, QuietTokens DEF Loud
<1>2. \A u \in Threads : Held(u)' /\ SeenReady(u)'
  BY HeldByItself, HeldByOthers, SeenReadyStep
<1> QED BY <1>1, <1>2 DEF TokenInv

\* TokenInv is inductive, relative to TypeInv.
LEMMA TokenNext ==
  ASSUME TypeInv, TokenInv, ~SpuriousWakeups, [Next]_vars
  PROVE  TokenInv'
<1>1. CASE UNCHANGED vars
  BY <1>1 DEF vars, locals, locks, fields, sems, TokenInv, Held, SeenReady,
              OwnerWaits, OneToken, HasOneToken, Offering, InEnd, Id, Op, Call
<1>2. ASSUME NEW t \in Threads, Step(t) PROVE TokenInv'
  BY <1>2, TokenStep
<1> QED BY <1>1, <1>2 DEF Next, Stopped

(***************************************************************************)
(* For every set of components, channels and programs, with connections    *)
(* made and broken at any moment: an operation on a channel is taken by    *)
(* exactly one counterpart.  While it is on offer the channel is ready or  *)
(* has one token in blocked, never both and never two; afterwards neither  *)
(* is left to wake a later operation too early.                            *)
(***************************************************************************)
THEOREM OneTokenAlways == ~SpuriousWakeups => (Spec => []OneToken)
<1> SUFFICES ASSUME ~SpuriousWakeups PROVE Spec => []OneToken
  OBVIOUS
<1>1. Init => TypeInv /\ TokenInv
  BY TypeInit, TokenInit
<1>2. TypeInv /\ TokenInv /\ [Next]_vars => (TypeInv /\ TokenInv)'
  BY TypeNext, TokenNext
<1>3. TokenInv => OneToken
  BY DEF TokenInv
<1> QED BY <1>1, <1>2, <1>3, PTL DEF Spec

-----------------------------------------------------------------------------
(***************************************************************************)
(* The lists of the two ends of a connection agree.  The invariant adds    *)
(* that a list has no element twice (RemoveElement takes one away, the     *)
(* list must then be without it), that it only has channels the program    *)
(* connects, and that the counterpart a call has chosen is one of these:   *)
(* a channel is never its own counterpart, so the two lists are two.       *)
(***************************************************************************)
Connected(a, b) ==
  \E t \in Threads : \E k \in 1 .. Len(Program[t].calls) :
    LET call == Program[t].calls[k] IN
    /\ call.op = "bind"
    /\ \/ call.id = a /\ call.other = b
       \/ call.id = b /\ call.other = a
    /\ Bindable(call.id, call.other)

ListsAgree ==
  /\ \A a \in Channels : Distinct(connections[a])
  /\ \A a, b \in Channels : ContainsElement(connections[a], b) => Connected(a, b)
  /\ Symmetric

Counterpart(t) == match[t] # NULL => pc[t] # "call" /\ Connected(Id(t), match[t])

SymmetryInv == ListsAgree /\ \A t \in Threads : Counterpart(t)

\* A connection is between an input and an output.
LEMMA ConnectedOpposite ==
  ASSUME NEW a, NEW b, Connected(a, b)
  PROVE  Connected(b, a) /\ (a \in Ins) # (b \in Ins) /\ a # b
BY DEF Connected, Bindable

\* Only the two steps made under both mutexes change which elements a list has.
LEMMA ElementsKept ==
  ASSUME TypeInv, NEW t \in Threads, Step(t), ~InsertLink(t), ~RemoveLink(t)
  PROVE  \A c \in Channels : connections'[c].elements = connections[c].elements
<1>1. connections \in [Channels -> ListsOver(Channels)]
  BY DEF TypeInv, TypeOK
<1>2. CASE ScanNext(t)
  BY <1>1, <1>2, RotateElements DEF ScanNext
<1>3. CASE Start(t) \/ LockIn(t) \/ LockOut(t) \/ Fault(t)
  BY <1>3 DEF Start, LockIn, LockOut, Fault, fields
<1>4. CASE channel_scan(t) /\ ~ScanNext(t)
  BY <1>4 DEF channel_scan, Enter, Arm, Count, ScanEnds, Test, Leave,
              LeaveAndPark, ParkBlocks, fields
<1>5. CASE channel_send(t) \/ channel_receive(t)
  BY <1>5 DEF channel_send, SendTransfer, AwaitReceived, SendUnparks, channel_receive,
              ReceiveTransfer, ReceiveUnparks, Copy, Acknowledge, fields
<1>6. CASE channel_bind(t)
  BY <1>6 DEF channel_bind, BindRefused, BindStarts, BindAgain, fields
<1>7. CASE channel_unbind(t)
  BY <1>7 DEF channel_unbind, UnbindStarts, UnbindNext, TakeIn, TakeOut,
              TakeConnsSem, UnbindEnds, fields
<1> QED BY <1>2, <1>3, <1>4, <1>5, <1>6, <1>7 DEF Step

\* A bind adds the connection to both lists, an unbind takes it from both.
LEMMA AgreeStep ==
  ASSUME TypeInv, SymmetryInv, NEW t \in Threads, Step(t)
  PROVE  ListsAgree'
<1> DEFINE own == Id(t)
           other == match[t]
<1>1. /\ connections \in [Channels -> ListsOver(Channels)]
      /\ \A a \in Channels : connections[a] \in ListsOver(Channels) /\ Distinct(connections[a])
  BY DEF TypeInv, TypeOK, SymmetryInv, ListsAgree
<1>2. InsertLink(t) \/ RemoveLink(t)
        => /\ own \in Channels /\ other \in Channels
           /\ Connected(own, other) /\ Connected(other, own) /\ own # other
  <2>1. ASSUME InsertLink(t) \/ RemoveLink(t)
        PROVE  own \in Channels /\ other \in Channels
    BY <2>1, CallIsCall DEF InsertLink, RemoveLink, TypeInv, TypeOK, ThreadOK, Inside
  <2>2. ASSUME InsertLink(t) \/ RemoveLink(t)
        PROVE  Connected(own, other)
    BY <2>1, <2>2, ChannelAssumption DEF SymmetryInv, Counterpart
  <2> QED BY <2>1, <2>2, ConnectedOpposite
<1>3. CASE InsertLink(t)
  <2>1. /\ ~ContainsElement(connections[own], other)
        /\ ~ContainsElement(connections[other], own)
        /\ connections' = [connections EXCEPT ![own]   = InsertElement(@, other),
                                              ![other] = InsertElement(@, own)]
    BY <1>2, <1>3 DEF InsertLink, SymmetryInv, ListsAgree, Symmetric
  <2>2. /\ connections'[own] = InsertElement(connections[own], other)
        /\ connections'[other] = InsertElement(connections[other], own)
        /\ \A a \in Channels : a # own /\ a # other => connections'[a] = connections[a]
    BY <1>1, <1>2, <1>3, <2>1
  <2>3. \A a \in Channels : Distinct(connections'[a])
    BY <1>1, <1>2, <1>3, <2>1, <2>2, InsertElements
  <2>4. \A a, b \in Channels :
          ContainsElement(connections'[a], b)
            <=> \/ ContainsElement(connections[a], b)
                \/ a = own /\ b = other
                \/ a = other /\ b = own
    BY <1>1, <1>2, <1>3, <2>1, <2>2, InsertElements
  <2> QED BY <1>2, <1>3, <2>3, <2>4 DEF SymmetryInv, ListsAgree, Symmetric
<1>4. CASE RemoveLink(t)
  <2>1. connections' = [connections EXCEPT
                          ![own]   = RemoveElement(connections[own], other),
                          ![other] = RemoveElement(connections[other], own)]
    BY <1>4 DEF RemoveLink, OppositeRest
  <2>2. /\ connections'[own] = RemoveElement(connections[own], other)
        /\ connections'[other] = RemoveElement(connections[other], own)
        /\ \A a \in Channels : a # own /\ a # other => connections'[a] = connections[a]
    BY <1>1, <1>2, <1>4, <2>1
  <2>3. \A a \in Channels : Distinct(connections'[a])
    BY <1>1, <1>2, <1>4, <2>2, RemoveElements
  <2>4. \A a, b \in Channels :
          ContainsElement(connections'[a], b)
            <=> /\ ContainsElement(connections[a], b)
                /\ ~(a = own /\ b = other)
                /\ ~(a = other /\ b = own)
    BY <1>1, <1>2, <1>4, <2>2, RemoveElements
  <2> QED BY <2>3, <2>4 DEF SymmetryInv, ListsAgree, Symmetric
<1>5. CASE ~InsertLink(t) /\ ~RemoveLink(t)
  <2>1. \A c \in Channels : connections'[c].elements = connections[c].elements
    BY <1>5, ElementsKept
  <2> QED BY <2>1 DEF SymmetryInv, ListsAgree, Symmetric, Distinct, ContainsElement
<1> QED BY <1>3, <1>4, <1>5

\* A step of t leaves the calls of the other threads alone.
LEMMA OtherCalls ==
  ASSUME TypeInv, NEW t \in Threads, Step(t), NEW u \in Threads \ {t}
  PROVE  pc'[u] = pc[u] /\ ip'[u] = ip[u] /\ match'[u] = match[u]
<1>1. /\ pc \in [Threads -> Steps] /\ ip \in [Threads -> Nat \ {0}]
      /\ match \in [Threads -> Channels \cup {NULL}]
  BY DEF TypeInv, TypeOK
<1>2. Return(t) => pc'[u] = pc[u] /\ ip'[u] = ip[u] /\ match'[u] = match[u]
  BY ReturnTypes
<1>3. CASE Start(t) \/ LockIn(t) \/ LockOut(t) \/ Fault(t)
  BY <1>1, <1>3 DEF Start, LockIn, LockOut, Fault, locals
<1>4. CASE channel_scan(t)
  BY <1>1, <1>2, <1>4
     DEF channel_scan, Enter, Arm, Count, ScanNext, ScanEnds, Test, Leave,
         LeaveAndPark, ParkBlocks, locals
<1>5. CASE channel_send(t) \/ channel_receive(t)
  BY <1>1, <1>2, <1>5
     DEF channel_send, SendTransfer, AwaitReceived, SendUnparks, channel_receive,
         ReceiveTransfer, ReceiveUnparks, Copy, Acknowledge, locals
<1>6. CASE channel_bind(t)
  BY <1>1, <1>2, <1>6 DEF channel_bind, BindRefused, BindStarts, BindAgain, InsertLink
<1>7. CASE channel_unbind(t)
  BY <1>1, <1>2, <1>7
     DEF channel_unbind, UnbindStarts, UnbindNext, TakeIn, TakeOut, TakeConnsSem,
         RemoveLink, UnbindEnds, locals
<1> QED BY <1>3, <1>4, <1>5, <1>6, <1>7 DEF Step

\* Only three steps choose a counterpart.
LEMMA MatchStep ==
  ASSUME TypeInv, NEW t \in Threads, Step(t)
  PROVE  \/ ScanNext(t) \/ BindStarts(t) \/ UnbindNext(t)
         \/ match'[t] = NULL
         \/ /\ match'[t] = match[t] /\ ip'[t] = ip[t]
            /\ pc[t] # "call" => pc'[t] # "call"
<1>1. /\ pc \in [Threads -> Steps] /\ ip \in [Threads -> Nat \ {0}]
      /\ match \in [Threads -> Channels \cup {NULL}]
  BY DEF TypeInv, TypeOK
<1>2. Return(t) => match'[t] = NULL
  BY <1>1 DEF Return
<1>3. CASE Start(t) \/ LockIn(t) \/ LockOut(t) \/ Fault(t)
  <2>1. pc[t] # "call" => Op(t) \in {"send", "receive", "bind", "unbind"}
    BY CallIsCall DEF TypeInv, TypeOK, ThreadOK
  <2>2. pc[t] # "call" => AfterLocks[Op(t)] # "call"
    BY <2>1 DEF AfterLocks
  <2> QED BY <1>1, <1>3, <2>2 DEF Start, LockIn, LockOut, Fault, locals
<1>4. CASE channel_scan(t) /\ ~ScanNext(t)
  BY <1>1, <1>2, <1>4
     DEF channel_scan, Enter, Arm, Count, ScanEnds, Test, Leave,
         LeaveAndPark, ParkBlocks, locals
<1>5. CASE channel_send(t) \/ channel_receive(t)
  BY <1>1, <1>2, <1>5
     DEF channel_send, SendTransfer, AwaitReceived, SendUnparks, channel_receive,
         ReceiveTransfer, ReceiveUnparks, Copy, Acknowledge, locals
<1>6. CASE channel_bind(t) /\ ~BindStarts(t)
  BY <1>1, <1>2, <1>6 DEF channel_bind, BindRefused, BindAgain, InsertLink
<1>7. CASE channel_unbind(t) /\ ~UnbindNext(t)
  BY <1>1, <1>2, <1>7
     DEF channel_unbind, UnbindStarts, TakeIn, TakeOut, TakeConnsSem,
         RemoveLink, UnbindEnds, locals
<1> QED BY <1>3, <1>4, <1>5, <1>6, <1>7 DEF Step

(***************************************************************************)
(* The counterpart of a bind has passed Bindable; that of any other call   *)
(* was read from the list of its channel.                                  *)
(***************************************************************************)
LEMMA CounterpartStep ==
  ASSUME TypeInv, SymmetryInv, NEW t \in Threads, Step(t), NEW u \in Threads
  PROVE  Counterpart(u)'
<1>1. /\ pc \in [Threads -> Steps] /\ match \in [Threads -> Channels \cup {NULL}]
      /\ connections \in [Channels -> ListsOver(Channels)] /\ i \in [Threads -> Nat]
  BY DEF TypeInv, TypeOK
<1>2. pc[t] # "call" => ~Finished(t) /\ Id(t) \in Channels
  BY CallIsCall DEF TypeInv, TypeOK, ThreadOK
<1>3. CASE u # t
  BY <1>3, OtherCalls, SameCall DEF SymmetryInv, Counterpart, Connected
<1>4. CASE u = t /\ BindStarts(t)
  <2>1. Id(t)' = Id(t) /\ match'[t] = Call(t).other /\ pc'[t] = "lockIn"
    BY <1>1, <1>4, SameCall DEF BindStarts
  <2>2. ip[t] \in 1 .. Len(Program[t].calls)
    BY <1>2, <1>4, ProgramAssumption DEF BindStarts, TypeInv, TypeOK, Finished
  <2>3. Op(t) = "bind" /\ Bindable(Id(t), Call(t).other)
    BY <1>4 DEF BindStarts, TypeInv, ThreadOK
  <2>4. Connected(Id(t), Call(t).other)
    BY <2>2, <2>3 DEF Connected, Id, Op, Call
  <2> QED BY <1>4, <2>1, <2>4 DEF Counterpart, Connected
<1>5. CASE u = t /\ UnbindNext(t)
  <2>1. /\ Id(t)' = Id(t) /\ match'[t] = ElementN(connections[Id(t)], i[t])
        /\ pc'[t] = "takeIn" /\ Id(t) \in Channels
    BY <1>1, <1>2, <1>5, SameCall DEF UnbindNext
  <2>2. ASSUME match'[t] # NULL PROVE Connected(Id(t), match'[t])
    <3> DEFINE s == connections[Id(t)].elements
    <3>1. s \in Seq(Channels) /\ i[t] + 1 \in 1 .. Len(s) /\ match'[t] = s[i[t] + 1]
      BY <1>1, <2>1, <2>2 DEF ElementN, ListsOver
    <3>2. match'[t] \in Channels /\ ContainsElement(connections[Id(t)], match'[t])
      BY <3>1 DEF ContainsElement, ToSet
    <3> QED BY <2>1, <3>2 DEF SymmetryInv, ListsAgree
  <2> QED BY <1>5, <2>1, <2>2 DEF Counterpart, Connected
<1>6. CASE u = t /\ ScanNext(t)
  <2>1. /\ Id(t)' = Id(t) /\ match'[t] = connections[Id(t)].next
        /\ pc'[t] = "lockIn" /\ Id(t) \in Channels
    BY <1>1, <1>2, <1>6, SameCall DEF ScanNext
  <2>2. ASSUME match'[t] # NULL PROVE Connected(Id(t), match'[t])
    <3>1. match'[t] \in Channels /\ ContainsElement(connections[Id(t)], match'[t])
      BY <1>1, <2>1, <2>2 DEF TypeInv, ListsOver, ListOK
    <3> QED BY <2>1, <3>1 DEF SymmetryInv, ListsAgree
  <2> QED BY <1>6, <2>1, <2>2 DEF Counterpart, Connected
<1>7. CASE u = t /\ match'[t] = NULL
  BY <1>7 DEF Counterpart
<1>8. CASE /\ u = t /\ match'[t] = match[t] /\ ip'[t] = ip[t]
           /\ pc[t] # "call" => pc'[t] # "call"
  BY <1>8, SameCall DEF SymmetryInv, Counterpart, Connected
<1> QED BY <1>3, <1>4, <1>5, <1>6, <1>7, <1>8, MatchStep

\* SymmetryInv holds at first and is inductive, relative to TypeInv.
LEMMA SymmetryInit == Init => SymmetryInv
<1> SUFFICES ASSUME Init PROVE SymmetryInv
  OBVIOUS
<1>1. \A a \in Channels : connections[a].elements = << >>
  BY DEF Init, EmptyList
<1>2. /\ \A a \in Channels : Distinct(connections[a])
      /\ \A a, b \in Channels : ~ContainsElement(connections[a], b)
  BY <1>1 DEF Distinct, ContainsElement, ToSet
<1> QED BY <1>2 DEF Init, SymmetryInv, ListsAgree, Symmetric, Counterpart

LEMMA SymmetryNext == TypeInv /\ SymmetryInv /\ [Next]_vars => SymmetryInv'
<1> SUFFICES ASSUME TypeInv, SymmetryInv, [Next]_vars PROVE SymmetryInv'
  OBVIOUS
<1>1. CASE UNCHANGED vars
  BY <1>1 DEF vars, locals, fields, SymmetryInv, ListsAgree, Symmetric,
              Counterpart, Id, Op, Call, Connected, Distinct
<1>2. ASSUME NEW t \in Threads, Step(t) PROVE SymmetryInv'
  BY <1>2, AgreeStep, CounterpartStep DEF SymmetryInv
<1> QED BY <1>1, <1>2 DEF Next, Stopped

(***************************************************************************)
(* For every program: a connection is in the lists of both of its ends or  *)
(* in neither, whatever binds and unbinds it and whoever scans meanwhile.  *)
(***************************************************************************)
THEOREM SymmetricAlways == Spec => []Symmetric
<1>1. SymmetryInv => Symmetric
  BY DEF SymmetryInv, ListsAgree
<1> QED BY TypeInit, TypeNext, SymmetryInit, SymmetryNext, <1>1, PTL DEF Spec

-----------------------------------------------------------------------------
(***************************************************************************)
(* The data a receiver copies.  An input that is connected to the outputs  *)
(* of two components breaks DataStable (run fanin), so the theorem is      *)
(* about programs in which every input has one sending component.  Its     *)
(* sender waits for actually_received exactly while the receiver is still  *)
(* to be woken, copies, or has said that it is done, one of the three.     *)
(***************************************************************************)
OneSender ==
  \A c \in Ins : \A o1, o2 \in Outs :
    Connected(o1, c) /\ Connected(o2, c) => Owner[o1] = Owner[o2]

Delivers(t, c) == pc[t] = "awaitReceived" /\ match[t] = c

Wakes(c) == blocked[c].value = 1

Takes(c) == pc[Owner[c]] \in {"copy", "acknowledge"} /\ Id(Owner[c]) = c

Done(c) == received[c].value = 1

HandOver(c) ==
  /\ received[c].value \in {0, 1}
  /\ \A s \in Threads : InWait(received[c], s) => Delivers(s, c)
  /\ \A s \in received[c].woken : Done(c)
  /\ (\E s \in Threads : Delivers(s, c)) <=> Wakes(c) \/ Takes(c) \/ Done(c)
  /\ Done(c) => ~Wakes(c) /\ ~Takes(c)
  /\ Wakes(c) \/ Takes(c) => buffer[c] \in Threads /\ Delivers(buffer[c], c)

\* A sender has left its data in its channel.
Lends(t) ==
  pc[t] \notin {"call", "enter", "arm", "leave"} /\ Op(t) = "send" => buffer[Id(t)] = t

DataInv ==
  /\ \A c \in Ins : HandOver(c)
  /\ \A t \in Threads : Lends(t)

\* A call with a counterpart, and the directions of its two ends.
LEMMA TwoEnds ==
  ASSUME TypeInv, SymmetryInv, NEW t \in Threads, match[t] # NULL
  PROVE  /\ pc[t] # "call" /\ Id(t) \in Channels /\ match[t] \in Channels
         /\ Connected(Id(t), match[t])
         /\ Op(t) = "send" => Id(t) \in Outs /\ Owner[Id(t)] = t /\ match[t] \in Ins
         /\ Op(t) = "receive" => Id(t) \in Ins /\ Owner[Id(t)] = t /\ match[t] \in Outs
<1>1. pc[t] # "call" /\ Connected(Id(t), match[t]) /\ match[t] \in Channels
  BY DEF SymmetryInv, Counterpart, TypeInv, TypeOK
<1>2. ip[t] \in Nat \ {0} /\ ~Finished(t)
  BY <1>1 DEF TypeInv, TypeOK, ThreadOK
<1>3. (Id(t) \in Ins) # (match[t] \in Ins)
  BY <1>1, ConnectedOpposite
<1> QED BY <1>1, <1>2, <1>3, CallIsCall, ChannelAssumption DEF Channels

\* Two calls that send on the same input are one.
LEMMA OneDelivers ==
  ASSUME TypeInv, SymmetryInv, OneSender, NEW c \in Ins,
         NEW s1 \in Threads, match[s1] = c, Op(s1) = "send",
         NEW s2 \in Threads, match[s2] = c, Op(s2) = "send"
  PROVE  s1 = s2
<1>1. c # NULL
  BY ChannelAssumption DEF Channels
<1>2. /\ Id(s1) \in Outs /\ Connected(Id(s1), c) /\ Owner[Id(s1)] = s1
      /\ Id(s2) \in Outs /\ Connected(Id(s2), c) /\ Owner[Id(s2)] = s2
  BY <1>1, TwoEnds
<1> QED BY <1>2 DEF OneSender

\* Most steps have nothing to do with the data of a call.
Moves(t) == Loud(t) \/ AwaitReceived(t) \/ Copy(t) \/ Acknowledge(t)

LEMMA CalmStep ==
  ASSUME TypeInv, NEW t \in Threads, Step(t), ~Moves(t)
  PROVE  /\ blocked' = blocked /\ received' = received /\ buffer' = buffer
         /\ pc[t] \notin {"awaitReceived", "copy", "acknowledge"}
         /\ pc'[t] \notin {"awaitReceived", "copy", "acknowledge"}
<1>1. pc \in [Threads -> Steps]
  BY DEF TypeInv, TypeOK
<1>2. Return(t) => pc'[t] = "call"
  BY ReturnTypes
<1>3. blocked' = blocked
  BY QuietStep DEF Moves, Quiet
<1>4. CASE Start(t)
  <2>1. Op(t) \in {"send", "receive", "bind", "unbind"}
    BY <1>4, CallIsCall DEF Start, TypeInv, TypeOK
  <2> QED BY <1>1, <1>3, <1>4, <2>1 DEF Start, FirstStep, fields, sems
<1>5. CASE LockIn(t) \/ LockOut(t) \/ Fault(t)
  <2>1. pc[t] # "call" => Op(t) \in {"send", "receive", "bind", "unbind"}
    BY CallIsCall DEF TypeInv, TypeOK, ThreadOK
  <2> QED BY <1>1, <1>3, <1>5, <2>1 DEF LockIn, LockOut, Fault, AfterLocks, fields, sems
<1>6. CASE channel_scan(t)
  BY <1>1, <1>2, <1>3, <1>6
     DEF channel_scan, Moves, Loud, Enter, Count, ScanNext, ScanEnds, Test, Leave,
         LeaveAndPark, fields, sems
<1>7. CASE channel_bind(t)
  BY <1>1, <1>2, <1>3, <1>7
     DEF channel_bind, BindRefused, BindStarts, BindAgain, InsertLink, fields, sems
<1>8. CASE channel_unbind(t)
  BY <1>1, <1>2, <1>3, <1>8
     DEF channel_unbind, UnbindStarts, UnbindNext, TakeIn, TakeOut, TakeConnsSem,
         RemoveLink, UnbindEnds, fields, sems
<1> QED
  BY <1>4, <1>5, <1>6, <1>7, <1>8
     DEF Step, channel_send, channel_receive, Moves, Loud

\* What HandOver says depends on nothing else.
LEMMA HandOverFrame ==
  ASSUME NEW c \in Ins, HandOver(c),
         received'[c] = received[c], blocked'[c].value = blocked[c].value,
         buffer'[c] = buffer[c],
         \A u \in Threads : Delivers(u, c)' <=> Delivers(u, c),
         Takes(c)' <=> Takes(c)
  PROVE  HandOver(c)'
BY DEF HandOver, InWait, Wakes, Done

\* What other threads deliver and take is left alone.
LEMMA OthersHandOver ==
  ASSUME TypeInv, NEW t \in Threads, Step(t), NEW c \in Ins
  PROVE  /\ \A u \in Threads \ {t} : Delivers(u, c)' <=> Delivers(u, c)
         /\ Owner[c] # t => (Takes(c)' <=> Takes(c))
<1>1. Owner[c] \in Threads
  BY ChannelAssumption DEF Channels
<1> QED BY <1>1, OtherCalls, SameCall DEF Delivers, Takes

\* What is in the buffer of an output was left there by its owner.
LEMMA BufferStep ==
  ASSUME TypeInv, TokenInv, SymmetryInv, NEW t \in Threads, Step(t), NEW o \in Outs
  PROVE  \/ buffer'[o] = buffer[o]
         \/ Arm(t) /\ Op(t) = "send" /\ Id(t) = o /\ buffer'[o] = t
<1>1. buffer \in [Channels -> Threads \cup {NULL}] /\ o \in Channels /\ o \notin Ins
  BY ChannelAssumption DEF TypeInv, TypeOK, Channels
<1>2. CASE Arm(t)
  BY <1>1, <1>2 DEF Arm
<1>3. CASE SendTransfer(t) \/ ReceiveTransfer(t)
  <2>1. match[t] # NULL
    BY <1>3, ChannelAssumption DEF SendTransfer, ReceiveTransfer, TypeInv, ThreadOK, Inside
  <2> QED BY <1>1, <1>3, <2>1, TwoEnds DEF SendTransfer, ReceiveTransfer
<1>4. CASE ParkBlocks(t) \/ SendUnparks(t) \/ ReceiveUnparks(t) \/ AwaitReceived(t)
           \/ Copy(t) \/ Acknowledge(t)
  BY <1>4 DEF ParkBlocks, SendUnparks, ReceiveUnparks, AwaitReceived, Copy,
              Acknowledge, fields
<1> QED BY <1>2, <1>3, <1>4, CalmStep DEF Moves, Loud

LEMMA LendsStep ==
  ASSUME TypeInv, TokenInv, SymmetryInv, DataInv, NEW t \in Threads, Step(t),
         NEW u \in Threads
  PROVE  Lends(u)'
<1>1. /\ pc \in [Threads -> Steps] /\ buffer \in [Channels -> Threads \cup {NULL}]
      /\ Lends(u)
  BY DEF TypeInv, TypeOK, DataInv
<1>2. pc[u] # "call" /\ Op(u) = "send" => Id(u) \in Outs /\ Owner[Id(u)] = u
  BY CallIsCall DEF TypeInv, TypeOK, ThreadOK
<1>3. CASE u # t
  <2>1. pc'[u] = pc[u] /\ Id(u)' = Id(u) /\ Op(u)' = Op(u)
    BY <1>3, OtherCalls, SameCall
  <2>2. Arm(t) /\ Op(t) = "send" => Owner[Id(t)] = t
    BY OwnChannel DEF Arm
  <2> QED BY <1>1, <1>2, <1>3, <2>1, <2>2, BufferStep DEF Lends
<1>4. CASE u = t /\ Arm(t)
  <2>1. Id(t)' = Id(t) /\ Op(t)' = Op(t) /\ Id(t) \in Channels
    BY <1>4, SameCall, OwnChannel DEF Arm
  <2> QED BY <1>1, <1>4, <2>1 DEF Arm, Lends
<1>5. CASE u = t /\ ~Arm(t)
  <2>1. SUFFICES ASSUME pc'[t] \notin {"call", "enter", "arm", "leave"}, Op(t)' = "send"
                 PROVE  buffer'[Id(t)'] = t
    BY <1>5 DEF Lends
  <2>2. ip'[t] = ip[t] /\ pc[t] \notin {"call", "enter", "arm", "leave"}
    <3>1. Return(t) => pc'[t] = "call"
      BY ReturnTypes
    <3>2. CASE Start(t)
      BY <1>1, <2>1, <3>2, SameCall DEF Start, FirstStep
    <3>3. CASE LockIn(t) \/ LockOut(t) \/ Fault(t)
      BY <3>3 DEF LockIn, LockOut, Fault
    <3>4. CASE channel_scan(t)
      BY <1>1, <1>5, <2>1, <3>1, <3>4
         DEF channel_scan, Enter, Count, ScanNext, ScanEnds, Test, Leave,
             LeaveAndPark, ParkBlocks
    <3>5. CASE channel_send(t) \/ channel_receive(t)
      BY <2>1, <3>1, <3>5
         DEF channel_send, SendTransfer, AwaitReceived, SendUnparks, channel_receive,
             ReceiveTransfer, ReceiveUnparks, Copy, Acknowledge
    <3>6. CASE channel_bind(t)
      BY <2>1, <3>1, <3>6 DEF channel_bind, BindRefused, BindStarts, BindAgain, InsertLink
    <3>7. CASE channel_unbind(t)
      BY <1>1, <2>1, <3>1, <3>7
         DEF channel_unbind, UnbindStarts, UnbindNext, TakeIn, TakeOut, TakeConnsSem,
             RemoveLink, UnbindEnds
    <3> QED BY <3>2, <3>3, <3>4, <3>5, <3>6, <3>7 DEF Step
  <2>3. Id(t)' = Id(t) /\ Op(t) = "send"
    BY <2>1, <2>2, SameCall
  <2> QED BY <1>1, <1>2, <1>5, <2>2, <2>3, BufferStep DEF Lends
<1> QED BY <1>3, <1>4, <1>5

\* The receiver is woken: from here to its Acknowledge it takes the data.
LEMMA UnparkHandOver ==
  ASSUME TypeInv, TokenInv, SymmetryInv, DataInv, ~SpuriousWakeups,
         NEW t \in Threads, Step(t), ReceiveUnparks(t), NEW c \in Ins
  PROVE  HandOver(c)'
<1> DEFINE own == Id(t)
<1>1. /\ own \in Channels /\ Owner[own] = t /\ own' = own /\ Offering(t)
      /\ pc[t] = "park" /\ pc'[t] = "copy"
      /\ blocked' = [blocked EXCEPT ![own] = MyTake(@, t)]
      /\ blocked \in [Channels -> Semaphores(Threads)]
      /\ received' = received /\ buffer' = buffer
      /\ MyMayTake(blocked[own], t)
  BY OwnChannel, SameCall DEF ReceiveUnparks, Offering, fields, TypeInv, TypeOK
<1>2. HandOver(c) /\ c \in Channels /\ Owner[c] \in Threads
  BY ChannelAssumption DEF DataInv, Channels
<1>3. \A u \in Threads : Delivers(u, c)' <=> Delivers(u, c)
  BY <1>1, OthersHandOver DEF Delivers
<1>4. CASE c = own
  <2>1. blocked[own].value = 1
    <3>1. /\ blocked[own].value = IF ready[own] THEN 0 ELSE 1
          /\ t \in blocked[own].woken => ~ready[own]
      BY <1>1 DEF TokenInv, OneToken, HasOneToken
    <3> QED BY <1>1, <3>1 DEF MyMayTake, WakesUp
  <2>2. blocked'[own].value = 0
    <3>1. blocked[own] \in Semaphores(Threads)
      BY <1>1
    <3>2. /\ Awake(blocked[own], t).value = 1
          /\ Awake(blocked[own], t) \in Semaphores(Threads)
      BY <2>1, <3>1 DEF Awake, Semaphores
    <3>3. MyTake(blocked[own], t).value = 0
      BY <3>2 DEF MyTake, Semaphores
    <3> QED BY <1>1, <3>3
  <2>3. Takes(c)' /\ ~Wakes(c)' /\ Wakes(c) /\ ~Takes(c)
    BY <1>1, <1>4, <2>1, <2>2 DEF Takes, Wakes
  <2> QED BY <1>1, <1>2, <1>3, <2>3 DEF HandOver, Done, InWait
<1>5. CASE c # own
  <2>1. blocked'[c] = blocked[c]
    BY <1>1, <1>2, <1>5
  <2>2. Takes(c)' <=> Takes(c)
    BY <1>1, <1>5, OthersHandOver DEF Takes
  <2> QED BY <1>1, <1>2, <1>3, <2>1, <2>2, HandOverFrame
<1> QED BY <1>4, <1>5

\* The receiver has the data and says so to the sender that waits.
LEMMA AcknowledgeHandOver ==
  ASSUME TypeInv, TokenInv, SymmetryInv, DataInv,
         NEW t \in Threads, Step(t), Acknowledge(t), NEW c \in Ins
  PROVE  HandOver(c)'
<1> DEFINE own == Id(t)
<1>1. /\ pc[t] = "acknowledge" /\ pc'[t] = "call"
      /\ own \in Ins /\ Owner[own] = t
      /\ blocked' = blocked /\ buffer' = buffer
      /\ received \in [Channels -> Semaphores(Threads)]
  BY ReturnTypes, CallIsCall DEF Acknowledge, fields, TypeInv, TypeOK, ThreadOK
<1>2. PICK p \in MyPosts(received[own]) : received' = [received EXCEPT ![own] = p]
  BY DEF Acknowledge
<1>3. HandOver(c) /\ c \in Channels /\ Owner[c] \in Threads
  BY ChannelAssumption DEF DataInv, Channels
<1>4. \A u \in Threads : Delivers(u, c)' <=> Delivers(u, c)
  BY <1>1, OthersHandOver DEF Delivers
<1>5. CASE c = own
  <2>1. Takes(c) /\ ~Takes(c)'
    BY <1>1, <1>5 DEF Takes
  <2>2. received[c].value = 0 /\ ~Wakes(c)
    <3>1. ~Offering(t)
      BY <1>1 DEF Offering
    <3>2. blocked[c].value = 0
      BY <1>1, <1>3, <1>5, <3>1 DEF TokenInv, OneToken, HasOneToken
    <3> QED BY <1>3, <2>1, <3>2 DEF HandOver, Wakes, Done
  <2>3. /\ received'[c] = p /\ p.value = 1
        /\ p.waiting \cup p.woken = received[c].waiting \cup received[c].woken
    BY <1>1, <1>2, <1>3, <1>5, <2>2, PostOnZero
  <2> QED BY <1>1, <1>3, <1>4, <2>1, <2>2, <2>3 DEF HandOver, Done, Wakes, InWait
<1>6. CASE c # own
  <2>1. Takes(c)' <=> Takes(c)
    BY <1>1, <1>6, OthersHandOver DEF Takes
  <2> QED BY <1>1, <1>2, <1>3, <1>4, <1>6, <2>1, HandOverFrame
<1> QED BY <1>5, <1>6

\* The sender waits, or goes on because the receiver is done.
LEMMA AwaitHandOver ==
  ASSUME TypeInv, TokenInv, SymmetryInv, DataInv, OneSender, ~SpuriousWakeups,
         NEW t \in Threads, Step(t), AwaitReceived(t), NEW c \in Ins
  PROVE  HandOver(c)'
<1> DEFINE other == match[t]
<1>1. /\ pc[t] = "awaitReceived" /\ Op(t) = "send"
      /\ blocked' = blocked /\ buffer' = buffer /\ match' = match /\ ip' = ip
      /\ received \in [Channels -> Semaphores(Threads)]
      /\ pc \in [Threads -> Steps]
  BY DEF AwaitReceived, fields, locals, TypeInv, TypeOK, ThreadOK
<1>2. HandOver(c) /\ c \in Channels /\ Owner[c] \in Threads
  BY ChannelAssumption DEF DataInv, Channels
<1>3. Takes(c)' <=> Takes(c)
  <2>1. pc'[t] \in {"awaitReceived", "leave"}
    BY <1>1 DEF AwaitReceived
  <2> QED BY <1>1, <1>2, <2>1, OthersHandOver DEF Takes
<1>4. CASE other # c
  <2>1. received'[c] = received[c]
    BY <1>1, <1>2, <1>4 DEF AwaitReceived
  <2>2. \A u \in Threads : Delivers(u, c)' <=> Delivers(u, c)
    BY <1>1, <1>4, OthersHandOver DEF Delivers
  <2> QED BY <1>1, <1>2, <1>3, <2>1, <2>2, HandOverFrame
<1>5. CASE other = c /\ pc' = pc
  <2>1. received' = [received EXCEPT ![c] = Block(@, t)]
    BY <1>1, <1>5 DEF AwaitReceived
  <2>2. /\ received'[c].value = received[c].value
        /\ received'[c].woken = received[c].woken
        /\ received'[c].waiting = received[c].waiting \cup {t}
    BY <1>1, <1>2, <2>1 DEF Block, Semaphores
  <2>3. \A u \in Threads : Delivers(u, c)' <=> Delivers(u, c)
    BY <1>1, <1>5 DEF Delivers
  <2>4. Delivers(t, c)
    BY <1>1, <1>5 DEF Delivers
  <2> QED BY <1>1, <1>2, <1>3, <2>2, <2>3, <2>4 DEF HandOver, Done, Wakes, InWait
<1>6. CASE other = c /\ pc' # pc
  <2>1. /\ MyMayTake(received[c], t) /\ pc'[t] = "leave"
        /\ received' = [received EXCEPT ![c] = MyTake(@, t)]
    BY <1>1, <1>6 DEF AwaitReceived
  <2>2. received[c].value = 1
    BY <1>2, <2>1 DEF MyMayTake, WakesUp, HandOver, Done
  <2>3. /\ received'[c].value = 0
        /\ received'[c].woken = received[c].woken \ {t}
        /\ received'[c].waiting = received[c].waiting \ {t}
    <3>1. received[c] \in Semaphores(Threads)
      BY <1>1, <1>2
    <3>2. /\ Awake(received[c], t).value = 1
          /\ Awake(received[c], t) \in Semaphores(Threads)
          /\ Awake(received[c], t).woken = received[c].woken \ {t}
          /\ Awake(received[c], t).waiting = received[c].waiting \ {t}
      BY <2>2, <3>1 DEF Awake, Semaphores
    <3>3. /\ MyTake(received[c], t).value = 0
          /\ MyTake(received[c], t).woken = received[c].woken \ {t}
          /\ MyTake(received[c], t).waiting = received[c].waiting \ {t}
      BY <3>2 DEF MyTake, Semaphores
    <3> QED BY <1>1, <1>2, <2>1, <3>3
  <2>4. ASSUME NEW u \in Threads, u # t PROVE ~Delivers(u, c)
    <3>1. Delivers(u, c) => Op(u) = "send"
      BY DEF Delivers, TypeInv, ThreadOK
    <3> QED BY <1>1, <1>6, <2>4, <3>1, OneDelivers DEF Delivers
  <2>5. \A u \in Threads : ~Delivers(u, c)'
    BY <2>1, <2>4, OthersHandOver DEF Delivers
  <2>6. \A u \in Threads : ~InWait(received'[c], u)
    BY <1>2, <2>3, <2>4 DEF HandOver, InWait
  <2>7. ~Wakes(c)' /\ ~Takes(c)' /\ ~Done(c)'
    BY <1>1, <1>2, <1>3, <2>2, <2>3 DEF HandOver, Done, Wakes
  <2>8. received'[c].woken \subseteq Threads
    BY <1>1, <1>2, <2>3 DEF Semaphores
  <2> QED BY <2>3, <2>5, <2>6, <2>7, <2>8 DEF HandOver, InWait
<1> QED BY <1>1, <1>4, <1>5, <1>6

\* A sender that claims a receiver: nobody else has one for that channel.
LEMMA SendHandOver ==
  ASSUME TypeInv, TokenInv, SymmetryInv, DataInv, OneSender,
         NEW t \in Threads, Step(t), SendTransfer(t), NEW c \in Ins
  PROVE  HandOver(c)'
<1> DEFINE own == Id(t)
           other == match[t]
<1>1. /\ pc[t] = "transfer" /\ pc'[t] = "awaitReceived" /\ Op(t) = "send" /\ Claim(t)
      /\ received' = received /\ match' = match /\ own' = own
      /\ buffer' = [buffer EXCEPT ![other] = buffer[own]]
      /\ buffer \in [Channels -> Threads \cup {NULL}]
      /\ blocked \in [Channels -> Semaphores(Threads)]
      /\ pc \in [Threads -> Steps]
  BY SameCall DEF SendTransfer, locals, TypeInv, TypeOK
<1>2. other # NULL /\ ready[other]
  BY <1>1, ChannelAssumption DEF TypeInv, ThreadOK, Inside, TokenInv, SeenReady
<1>3. own \in Outs /\ own \in Channels /\ other \in Ins /\ other \in Channels
  BY <1>1, <1>2, TwoEnds
<1>4. HandOver(c) /\ c \in Channels /\ Owner[c] \in Threads
  BY ChannelAssumption DEF DataInv, Channels
<1>5. Takes(c)' <=> Takes(c)
  BY <1>1, OthersHandOver DEF Takes
<1>6. PICK p \in MyPosts(blocked[other]) : blocked' = [blocked EXCEPT ![other] = p]
  BY <1>1 DEF Claim
<1>7. CASE c # other
  <2>1. \A u \in Threads : Delivers(u, c)' <=> Delivers(u, c)
    BY <1>1, <1>7, OthersHandOver DEF Delivers
  <2>2. blocked'[c] = blocked[c] /\ buffer'[c] = buffer[c]
    BY <1>1, <1>4, <1>6, <1>7
  <2> QED BY <1>1, <1>4, <1>5, <2>1, <2>2, HandOverFrame
<1>8. CASE c = other
  <2>1. /\ Offering(Owner[c]) /\ Id(Owner[c]) = c /\ blocked[c].value = 0
    BY <1>2, <1>3, <1>8 DEF TokenInv, OneToken, HasOneToken
  <2>2. blocked'[c] = p /\ p.value = 1
    BY <1>1, <1>3, <1>6, <1>8, <2>1, PostOnZero
  <2>3. ~Takes(c) /\ ~Wakes(c)
    BY <2>1 DEF Offering, Takes, Wakes
  <2>4. \A u \in Threads : ~Delivers(u, c)
    <3> SUFFICES ASSUME NEW u \in Threads, Delivers(u, c) PROVE FALSE
      OBVIOUS
    <3>1. Op(u) = "send"
      BY DEF Delivers, TypeInv, ThreadOK
    <3>2. u = t
      BY <1>1, <1>8, <3>1, OneDelivers DEF Delivers
    <3> QED BY <1>1, <3>2 DEF Delivers
  <2>5. ~Done(c) /\ received[c].value = 0
    BY <1>4, <2>4 DEF HandOver, Done
  <2>6. Delivers(t, c)' /\ Wakes(c)'
    BY <1>1, <1>8, <2>2 DEF Delivers, Wakes
  <2>7. buffer'[c] = t
    BY <1>1, <1>3, <1>8 DEF DataInv, Lends
  <2>8. ~Takes(c)' /\ ~Done(c)' /\ received'[c] = received[c]
    BY <1>1, <1>5, <2>3, <2>5 DEF Done
  <2> QED
    BY <1>4, <2>4, <2>5, <2>6, <2>7, <2>8 DEF HandOver, InWait, Done
<1> QED BY <1>7, <1>8

\* A receiver that claims a sender copies at once and concerns no input.
LEMMA ReceiveHandOver ==
  ASSUME TypeInv, TokenInv, SymmetryInv, DataInv,
         NEW t \in Threads, Step(t), ReceiveTransfer(t), NEW c \in Ins
  PROVE  HandOver(c)'
<1> DEFINE own == Id(t)
           other == match[t]
<1>1. /\ pc[t] = "transfer" /\ pc'[t] = "leave" /\ Op(t) = "receive" /\ Claim(t)
      /\ received' = received /\ own' = own
      /\ buffer' = [buffer EXCEPT ![own] = buffer[other]]
      /\ buffer \in [Channels -> Threads \cup {NULL}]
      /\ blocked \in [Channels -> Semaphores(Threads)]
      /\ pc \in [Threads -> Steps]
  BY SameCall DEF ReceiveTransfer, locals, TypeInv, TypeOK
<1>2. other # NULL /\ ready[own]
  BY <1>1, ChannelAssumption DEF TypeInv, ThreadOK, Inside, TokenInv, SeenReady
<1>3. own \in Ins /\ own \in Channels /\ Owner[own] = t /\ other \in Outs /\ other \notin Ins
  BY <1>1, <1>2, TwoEnds, ChannelAssumption
<1>4. HandOver(c) /\ c \in Channels /\ Owner[c] \in Threads
  BY ChannelAssumption DEF DataInv, Channels
<1>5. Takes(c)' <=> Takes(c)
  BY <1>1, OthersHandOver DEF Takes
<1>6. \A u \in Threads : Delivers(u, c)' <=> Delivers(u, c)
  BY <1>1, OthersHandOver DEF Delivers
<1>7. blocked'[c] = blocked[c]
  BY <1>1, <1>3, <1>4 DEF Claim
<1>8. CASE c # own
  BY <1>1, <1>4, <1>5, <1>6, <1>7, <1>8, HandOverFrame
<1>9. CASE c = own
  <2>1. ~Wakes(c) /\ ~Takes(c)
    BY <1>1, <1>2, <1>3, <1>9 DEF TokenInv, OneToken, HasOneToken, Wakes, Takes
  <2> QED BY <1>1, <1>4, <1>5, <1>6, <1>7, <2>1 DEF HandOver, Wakes, Done, InWait
<1> QED BY <1>8, <1>9

\* The other steps leave all of it alone.
LEMMA QuietHandOver ==
  ASSUME TypeInv, TokenInv, SymmetryInv, DataInv, NEW t \in Threads, Step(t),
         ~ReceiveUnparks(t), ~Acknowledge(t), ~AwaitReceived(t),
         ~SendTransfer(t), ~ReceiveTransfer(t), NEW c \in Ins
  PROVE  HandOver(c)'
<1>1. HandOver(c) /\ c \in Channels /\ c \notin Outs /\ Owner[c] \in Threads
  BY ChannelAssumption DEF DataInv, Channels
<1>2. /\ pc \in [Threads -> Steps] /\ blocked \in [Channels -> Semaphores(Threads)]
      /\ buffer \in [Channels -> Threads \cup {NULL}]
  BY DEF TypeInv, TypeOK
<1>3. CASE Arm(t)
  <2>1. Op(t) = "send" => Id(t) # c
    BY <1>1, <1>3, CallIsCall DEF Arm, TypeInv, TypeOK, ThreadOK
  <2>2. buffer'[c] = buffer[c] /\ blocked' = blocked /\ received' = received
    BY <1>1, <1>2, <1>3, <2>1 DEF Arm, sems
  <2>3. pc[t] = "arm" /\ pc'[t] = "count"
    BY <1>2, <1>3 DEF Arm
  <2>4. Takes(c)' <=> Takes(c)
    BY <2>3, OthersHandOver DEF Takes
  <2>5. \A u \in Threads : Delivers(u, c)' <=> Delivers(u, c)
    BY <2>3, OthersHandOver DEF Delivers
  <2> QED BY <1>1, <2>2, <2>4, <2>5, HandOverFrame
<1>4. CASE ParkBlocks(t)
  <2>1. blocked'[c].value = blocked[c].value
    BY <1>1, <1>2, <1>4 DEF ParkBlocks, Block, Semaphores
  <2>2. buffer' = buffer /\ received' = received /\ pc' = pc /\ match' = match /\ ip' = ip
    BY <1>4 DEF ParkBlocks, fields, locals
  <2>3. Takes(c)' <=> Takes(c)
    BY <1>1, <2>2, SameCall DEF Takes
  <2>4. \A u \in Threads : Delivers(u, c)' <=> Delivers(u, c)
    BY <2>2 DEF Delivers
  <2> QED BY <1>1, <2>1, <2>2, <2>3, <2>4, HandOverFrame
<1>5. CASE SendUnparks(t)
  <2>1. Id(t) # c
    BY <1>1, <1>5, CallIsCall DEF SendUnparks, TypeInv, TypeOK, ThreadOK
  <2>2. blocked'[c] = blocked[c] /\ buffer' = buffer /\ received' = received
    BY <1>1, <1>2, <1>5, <2>1 DEF SendUnparks, fields
  <2>3. pc[t] = "park" /\ pc'[t] = "call"
    BY <1>5, ReturnTypes DEF SendUnparks
  <2>4. Takes(c)' <=> Takes(c)
    BY <2>3, OthersHandOver DEF Takes
  <2>5. \A u \in Threads : Delivers(u, c)' <=> Delivers(u, c)
    BY <2>3, OthersHandOver DEF Delivers
  <2> QED BY <1>1, <2>2, <2>4, <2>5, HandOverFrame
<1>6. CASE Copy(t)
  <2>1. /\ blocked' = blocked /\ buffer' = buffer /\ received' = received
        /\ pc[t] = "copy" /\ pc'[t] = "acknowledge" /\ Id(t)' = Id(t)
    BY <1>2, <1>6, SameCall DEF Copy, fields, sems
  <2>2. Takes(c)' <=> Takes(c)
    BY <2>1, OthersHandOver DEF Takes
  <2>3. \A u \in Threads : Delivers(u, c)' <=> Delivers(u, c)
    BY <2>1, OthersHandOver DEF Delivers
  <2> QED BY <1>1, <2>1, <2>2, <2>3, HandOverFrame
<1>7. CASE ~Moves(t)
  <2>1. Takes(c)' <=> Takes(c)
    BY <1>7, CalmStep, OthersHandOver DEF Takes
  <2>2. \A u \in Threads : Delivers(u, c)' <=> Delivers(u, c)
    BY <1>7, CalmStep, OthersHandOver DEF Delivers
  <2> QED BY <1>1, <1>7, <2>1, <2>2, CalmStep, HandOverFrame
<1> QED BY <1>3, <1>4, <1>5, <1>6, <1>7 DEF Moves, Loud

LEMMA DataStep ==
  ASSUME TypeInv, TokenInv, SymmetryInv, DataInv, OneSender, ~SpuriousWakeups,
         NEW t \in Threads, Step(t)
  PROVE  DataInv'
<1>1. \A c \in Ins : HandOver(c)'
  BY UnparkHandOver, AcknowledgeHandOver, AwaitHandOver, SendHandOver,
     ReceiveHandOver, QuietHandOver
<1> QED BY <1>1, LendsStep DEF DataInv

\* The three invariants the data rest on, and theirs, are inductive.
WholeInv == TypeInv /\ TokenInv /\ SymmetryInv /\ DataInv

LEMMA WholeInit == Init => WholeInv
<1> SUFFICES ASSUME Init PROVE WholeInv
  OBVIOUS
<1>1. \A c \in Ins : c \in Channels /\ Owner[c] \in Threads
  BY ChannelAssumption DEF Channels
<1>2. \A c \in Ins : HandOver(c)
  BY <1>1 DEF Init, HandOver, Delivers, Wakes, Takes, Done, InWait, NewSemaphore
<1>3. \A t \in Threads : Lends(t)
  BY DEF Init, Lends
<1> QED BY <1>2, <1>3, TypeInit, TokenInit, SymmetryInit DEF WholeInv, DataInv

LEMMA WholeNext ==
  OneSender /\ ~SpuriousWakeups => (WholeInv /\ [Next]_vars => WholeInv')
<1> SUFFICES ASSUME OneSender, ~SpuriousWakeups, WholeInv, [Next]_vars
             PROVE  WholeInv'
  OBVIOUS
<1>1. DataInv'
  <2>1. CASE UNCHANGED vars
    BY <2>1 DEF vars, locals, fields, sems, WholeInv, DataInv, HandOver, Lends,
                Delivers, Wakes, Takes, Done, InWait, Id, Op, Call
  <2>2. ASSUME NEW t \in Threads, Step(t) PROVE DataInv'
    BY <2>2, DataStep DEF WholeInv
  <2> QED BY <2>1, <2>2 DEF Next, Stopped
<1> QED BY <1>1, TypeNext, TokenNext, SymmetryNext DEF WholeInv

(***************************************************************************)
(* For every program in which an input has one sending component: the      *)
(* data a receiver is about to copy still belong to the send that offered  *)
(* them.  Without the assumption this is false: the second of two senders  *)
(* takes the acknowledgement meant for the first (run fanin).              *)
(***************************************************************************)
THEOREM DataStableFromOneSender ==
  OneSender /\ ~SpuriousWakeups => (Spec => []DataStable)
<1> SUFFICES ASSUME OneSender, ~SpuriousWakeups PROVE Spec => []DataStable
  OBVIOUS
<1>1. WholeInv /\ [Next]_vars => WholeInv'
  BY WholeNext
<1>2. WholeInv => DataStable
  <2> SUFFICES ASSUME WholeInv, NEW t \in Threads, pc[t] = "copy"
               PROVE  Delivers(buffer[Id(t)], Id(t))
    BY DEF DataStable, Delivers
  <2>1. Id(t) \in Ins /\ Owner[Id(t)] = t
    BY CallIsCall DEF WholeInv, TypeInv, TypeOK, ThreadOK
  <2>2. Takes(Id(t))
    BY <2>1 DEF Takes
  <2> QED BY <2>1, <2>2 DEF WholeInv, DataInv, HandOver
<1> QED BY WholeInit, <1>1, <1>2, PTL DEF Spec

-----------------------------------------------------------------------------
(***************************************************************************)
(* Programs that make connections and do not break them.                   *)
(***************************************************************************)
NeverUnbinds ==
  \A t \in Threads : \A k \in 1 .. Len(Program[t].calls) :
    Program[t].calls[k].op # "unbind"

\* Without unbind no list loses an element.
LEMMA NothingRemoved ==
  ASSUME TypeInv, SymmetryInv, NeverUnbinds, NEW t \in Threads, Step(t)
  PROVE  /\ ~RemoveLink(t)
         /\ \A a, b \in Channels :
              ContainsElement(connections[a], b) => ContainsElement(connections'[a], b)
<1>1. ~RemoveLink(t)
  <2> SUFFICES ASSUME RemoveLink(t) PROVE FALSE
    OBVIOUS
  <2>1. pc[t] = "remove"
    BY DEF RemoveLink
  <2>2. ~Finished(t) /\ Op(t) = "unbind" /\ ip[t] \in Nat \ {0}
    BY <2>1 DEF TypeInv, TypeOK, ThreadOK
  <2>3. ip[t] \in 1 .. Len(Program[t].calls)
    BY <2>2, ProgramAssumption DEF Finished
  <2> QED BY <2>2, <2>3 DEF NeverUnbinds, Op, Call
<1>2. CASE InsertLink(t)
  <2> DEFINE own == Id(t)
             other == match[t]
  <2>1. /\ own \in Channels /\ other \in Channels
        /\ connections \in [Channels -> ListsOver(Channels)]
        /\ \A a \in Channels : Distinct(connections[a])
    BY <1>2, CallIsCall
       DEF InsertLink, TypeInv, TypeOK, ThreadOK, Inside, SymmetryInv, ListsAgree
  <2>2. /\ Connected(own, other) /\ own # other
        /\ ~ContainsElement(connections[own], other)
        /\ ~ContainsElement(connections[other], own)
    BY <1>2, <2>1, ConnectedOpposite, ChannelAssumption
       DEF InsertLink, SymmetryInv, Counterpart, ListsAgree, Symmetric
  <2>3. /\ connections'[own] = InsertElement(connections[own], other)
        /\ connections'[other] = InsertElement(connections[other], own)
        /\ \A a \in Channels : a # own /\ a # other => connections'[a] = connections[a]
    BY <1>2, <2>1, <2>2 DEF InsertLink
  <2>4. /\ connections[own] \in ListsOver(Channels)
        /\ connections[other] \in ListsOver(Channels)
    BY <2>1
  <2>5. /\ \A b : ContainsElement(connections'[own], b)
                    <=> b = other \/ ContainsElement(connections[own], b)
        /\ \A b : ContainsElement(connections'[other], b)
                    <=> b = own \/ ContainsElement(connections[other], b)
    BY <2>1, <2>2, <2>3, <2>4, InsertElements
  <2> QED BY <1>1, <2>3, <2>5
<1>3. CASE ~InsertLink(t)
  <2>1. \A c \in Channels : connections'[c].elements = connections[c].elements
    BY <1>1, <1>3, ElementsKept
  <2> QED BY <1>1, <2>1 DEF ContainsElement
<1> QED BY <1>2, <1>3

\* A step goes on with the call, or ends it.
LEMMA SameCallOrNone ==
  ASSUME TypeInv, NEW t \in Threads, Step(t)
  PROVE  pc'[t] = "call" \/ (Id(t)' = Id(t) /\ Op(t)' = Op(t))
<1>1. Return(t) => pc'[t] = "call"
  BY ReturnTypes
<1>2. ip' = ip => Id(t)' = Id(t) /\ Op(t)' = Op(t)
  BY SameCall
<1>3. CASE Start(t) \/ LockIn(t) \/ LockOut(t) \/ Fault(t)
  BY <1>2, <1>3 DEF Start, LockIn, LockOut, Fault
<1>4. CASE channel_scan(t)
  BY <1>1, <1>2, <1>4
     DEF channel_scan, Enter, Arm, Count, ScanNext, ScanEnds, Test, Leave,
         LeaveAndPark, ParkBlocks
<1>5. CASE channel_send(t) \/ channel_receive(t)
  BY <1>1, <1>2, <1>5
     DEF channel_send, SendTransfer, AwaitReceived, SendUnparks, channel_receive,
         ReceiveTransfer, ReceiveUnparks, Copy, Acknowledge
<1>6. CASE channel_bind(t)
  BY <1>1, <1>2, <1>6 DEF channel_bind, BindRefused, BindStarts, BindAgain, InsertLink
<1>7. CASE channel_unbind(t)
  BY <1>1, <1>2, <1>7
     DEF channel_unbind, UnbindStarts, UnbindNext, TakeIn, TakeOut, TakeConnsSem,
         RemoveLink, UnbindEnds
<1> QED BY <1>3, <1>4, <1>5, <1>6, <1>7 DEF Step

-----------------------------------------------------------------------------
(***************************************************************************)
(* A channel without connections.  Its owner waits in conns_sem: nobody    *)
(* has posted it, and a call is past it only if the channel has had a      *)
(* connection, which it keeps when no program disconnects.                 *)
(***************************************************************************)
Engaged(t) == pc[t] \notin {"call", "enter"} /\ Op(t) \in {"send", "receive"}

WaitsToEnter(c) ==
  IsEmpty(connections[c]) =>
    /\ connsSem[c].value = 0 /\ connsSem[c].woken = {}
    /\ ~(Engaged(Owner[c]) /\ Id(Owner[c]) = c)

HasMatch(t) == pc[t] \in {"lockIn", "lockOut"} => match[t] # NULL

EntryInv ==
  /\ \A c \in Channels : WaitsToEnter(c)
  /\ \A t \in Threads : HasMatch(t)

LEMMA EntryInit == Init => EntryInv
<1> SUFFICES ASSUME Init PROVE EntryInv
  OBVIOUS
<1>1. \A c \in Channels : Owner[c] \in Threads
  BY ChannelAssumption
<1>2. \A t \in Threads : pc[t] = "call"
  BY DEF Init
<1>3. \A c \in Channels : connsSem[c].value = 0 /\ connsSem[c].woken = {}
  BY DEF Init, NewSemaphore
<1> QED BY <1>1, <1>2, <1>3 DEF EntryInv, WaitsToEnter, HasMatch, Engaged

\* Without unbind no thread is in channel_unbind.
LEMMA NoUnbindStep ==
  ASSUME TypeInv, NeverUnbinds, NEW t \in Threads
  PROVE  ~channel_unbind(t)
<1>1. ~Finished(t) => Op(t) # "unbind"
  <2> SUFFICES ASSUME ~Finished(t) PROVE Op(t) # "unbind"
    OBVIOUS
  <2>1. ip[t] \in 1 .. Len(Program[t].calls)
    BY ProgramAssumption DEF Finished, TypeInv, TypeOK
  <2> QED BY <2>1 DEF NeverUnbinds, Op, Call
<1>2. pc[t] \notin {"unbindStart", "unbindNext", "takeIn", "takeOut", "remove"}
  BY <1>1 DEF TypeInv, ThreadOK
<1> QED
  BY <1>2 DEF channel_unbind, UnbindStarts, UnbindNext, TakeIn, TakeOut,
              RemoveLink, UnbindEnds

\* A call gets past conns_sem in Enter only.
LEMMA EngagedStep ==
  ASSUME TypeInv, NEW t \in Threads, Step(t), Engaged(t)'
  PROVE  /\ Id(t)' = Id(t) /\ Op(t)' = Op(t) /\ Op(t) \in {"send", "receive"}
         /\ pc[t] # "call"
         /\ pc[t] = "enter" => Enter(t) /\ BinaryMayTake(connsSem[Id(t)], t)
<1>1. pc'[t] \notin {"call", "enter"} /\ Op(t)' \in {"send", "receive"}
  BY DEF Engaged
<1>2. Id(t)' = Id(t) /\ Op(t)' = Op(t)
  BY <1>1, SameCallOrNone
<1>3. pc \in [Threads -> Steps]
  BY DEF TypeInv, TypeOK
<1>4. pc[t] # "call"
  <2> SUFFICES ASSUME pc[t] = "call" PROVE FALSE
    OBVIOUS
  <2>1. Start(t)
    BY DEF Step, channel_scan, channel_send, channel_receive, channel_bind,
           channel_unbind, LockIn, LockOut, Fault, Enter, Arm, Count, ScanNext,
           ScanEnds, Test, Leave, LeaveAndPark, ParkBlocks, SendTransfer,
           AwaitReceived, SendUnparks, ReceiveTransfer, ReceiveUnparks, Copy,
           Acknowledge, BindRefused, BindStarts, BindAgain, InsertLink,
           UnbindStarts, UnbindNext, TakeIn, TakeOut, RemoveLink, UnbindEnds
  <2> QED BY <1>1, <1>2, <1>3, <2>1 DEF Start, FirstStep
<1>5. ASSUME pc[t] = "enter" PROVE Enter(t) /\ BinaryMayTake(connsSem[Id(t)], t)
  <2>1. Enter(t)
    BY <1>5
       DEF Step, channel_scan, channel_send, channel_receive, channel_bind,
           channel_unbind, LockIn, LockOut, Fault, Start, Arm, Count, ScanNext,
           ScanEnds, Test, Leave, LeaveAndPark, ParkBlocks, SendTransfer,
           AwaitReceived, SendUnparks, ReceiveTransfer, ReceiveUnparks, Copy,
           Acknowledge, BindRefused, BindStarts, BindAgain, InsertLink,
           UnbindStarts, UnbindNext, TakeIn, TakeOut, RemoveLink, UnbindEnds
  <2> QED BY <1>1, <1>5, <2>1 DEF Enter
<1> QED BY <1>1, <1>2, <1>4, <1>5

\* Only these steps touch conns_sem when no program disconnects.
LEMMA ConnsSemStep ==
  ASSUME TypeInv, NeverUnbinds, NEW t \in Threads, Step(t)
  PROVE  connsSem' = connsSem \/ Enter(t) \/ Leave(t) \/ LeaveAndPark(t) \/ InsertLink(t)
BY NoUnbindStep
   DEF Step, channel_scan, channel_send, channel_receive, channel_bind, Start, LockIn,
       LockOut, Fault, Arm, Count, ScanNext, ScanEnds, Test, ParkBlocks,
       SendTransfer, AwaitReceived, SendUnparks, ReceiveTransfer, ReceiveUnparks,
       Copy, Acknowledge, BindRefused, BindStarts, BindAgain, sems

\* A channel that is connected stays connected.
LEMMA StaysConnected ==
  ASSUME TypeInv, SymmetryInv, NeverUnbinds, NEW t \in Threads, Step(t),
         NEW c \in Channels, ~IsEmpty(connections[c])
  PROVE  ~IsEmpty(connections'[c])
<1>1. /\ connections \in [Channels -> ListsOver(Channels)]
      /\ connections' \in [Channels -> ListsOver(Channels)]
  BY TypeStep DEF TypeInv, TypeOK
<1>2. connections[c].elements \in Seq(Channels) /\ connections'[c].elements \in Seq(Channels)
  BY <1>1 DEF ListsOver
<1>3. ContainsElement(connections[c], connections[c].elements[1])
      /\ connections[c].elements[1] \in Channels
  BY <1>2 DEF IsEmpty, ContainsElement, ToSet
<1>4. ContainsElement(connections'[c], connections[c].elements[1])
  BY <1>3, NothingRemoved
<1> QED BY <1>2, <1>4 DEF IsEmpty, ContainsElement, ToSet

LEMMA WaitsToEnterStep ==
  ASSUME TypeInv, SymmetryInv, EntryInv, NeverUnbinds, ~SpuriousWakeups,
         NEW t \in Threads, Step(t), NEW c \in Channels
  PROVE  WaitsToEnter(c)'
<1> SUFFICES ASSUME IsEmpty(connections'[c])
             PROVE  /\ connsSem'[c].value = 0 /\ connsSem'[c].woken = {}
                    /\ ~(Engaged(Owner[c])' /\ Id(Owner[c])' = c)
  BY DEF WaitsToEnter
<1> DEFINE own == Id(t)
           other == match[t]
<1>1. /\ IsEmpty(connections[c]) /\ Owner[c] \in Threads
      /\ connsSem[c].value = 0 /\ connsSem[c].woken = {}
      /\ ~(Engaged(Owner[c]) /\ Id(Owner[c]) = c)
  BY StaysConnected, ChannelAssumption DEF EntryInv, WaitsToEnter
<1>2. /\ connsSem \in [Channels -> Semaphores(Threads)]
      /\ connections \in [Channels -> ListsOver(Channels)]
      /\ pc \in [Threads -> Steps]
  BY DEF TypeInv, TypeOK
<1>3. ~(Engaged(Owner[c])' /\ Id(Owner[c])' = c)
  <2>1. CASE Owner[c] = t
    <3> SUFFICES ASSUME Engaged(t)', own' = c PROVE FALSE
      BY <2>1
    <3>1. own = c /\ Op(t) \in {"send", "receive"} /\ pc[t] = "enter"
      BY <1>1, <2>1, EngagedStep DEF Engaged
    <3>2. BinaryMayTake(connsSem[c], t)
      BY <3>1, EngagedStep
    <3> QED BY <1>1, <3>2 DEF BinaryMayTake, WakesUp
  <2>2. CASE Owner[c] # t
    BY <1>1, <2>2, OtherCalls, SameCall DEF Engaged
  <2> QED BY <2>1, <2>2
<1>4. CASE connsSem' = connsSem
  BY <1>1, <1>3, <1>4
<1>5. CASE Enter(t)
  <2>1. CASE connsSem' = [connsSem EXCEPT ![own] = Block(@, t)]
    BY <1>1, <1>2, <1>3, <2>1 DEF Block, Semaphores
  <2>2. CASE connsSem' = [connsSem EXCEPT ![own] = BinaryTake(@, t)]
            /\ BinaryMayTake(connsSem[own], t)
    <3>1. own # c
      BY <1>1, <2>2 DEF BinaryMayTake, WakesUp
    <3> QED BY <1>1, <1>2, <1>3, <2>2, <3>1
  <2> QED BY <1>1, <1>3, <1>5, <2>1, <2>2 DEF Enter
<1>6. CASE Leave(t) \/ LeaveAndPark(t)
  <2>1. PICK s : connsSem' = [connsSem EXCEPT ![own] = s]
    BY <1>6 DEF Leave, LeaveAndPark, PostConnsSem
  <2>2. /\ pc[t] \in {"leave", "leaveAndPark"} /\ Op(t) \in {"send", "receive"}
        /\ Owner[own] = t
    BY <1>6, CallIsCall DEF Leave, LeaveAndPark, TypeInv, TypeOK, ThreadOK
  <2>3. own # c
    BY <1>1, <2>2 DEF Engaged
  <2> QED BY <1>1, <1>2, <1>3, <2>1, <2>3
<1>7. CASE InsertLink(t)
  <2>1. own \in Channels /\ other \in Channels
    BY <1>7, CallIsCall DEF InsertLink, TypeInv, TypeOK, ThreadOK, Inside
  <2>2. /\ ~IsEmpty(InsertElement(connections[own], other))
        /\ ~IsEmpty(InsertElement(connections[other], own))
    <3>1. ASSUME NEW l \in ListsOver(Channels), NEW e \in Channels
          PROVE  ~IsEmpty(InsertElement(l, e))
      <4>1. l.elements \in Seq(Channels)
        BY DEF ListsOver
      <4>2. Len(<<e>> \o l.elements) = Len(l.elements) + 1 /\ Len(l.elements) \in Nat
        BY <4>1
      <4> QED BY <4>2 DEF InsertElement, IsEmpty
    <3> QED BY <1>2, <2>1, <3>1
  <2>3. connections' = [connections EXCEPT ![own]   = InsertElement(@, other),
                                           ![other] = InsertElement(@, own)]
    BY <1>7 DEF InsertLink
  <2>4. own # other
    BY <1>7, <2>1, ConnectedOpposite, ChannelAssumption
       DEF InsertLink, SymmetryInv, Counterpart
  <2>5. own # c /\ other # c
    BY <1>2, <2>1, <2>2, <2>3, <2>4
  <2>6. PICK s1, s2 : connsSem' = [connsSem EXCEPT ![own] = s1, ![other] = s2]
    BY <1>7 DEF InsertLink
  <2> QED BY <1>1, <1>2, <1>3, <2>5, <2>6
<1> QED BY <1>4, <1>5, <1>6, <1>7, ConnsSemStep

\* A call that iterates meets a connection.
LEMMA HasMatchStep ==
  ASSUME TypeInv, SymmetryInv, EntryInv, NeverUnbinds,
         NEW t \in Threads, Step(t), NEW u \in Threads
  PROVE  HasMatch(u)'
<1>1. /\ pc \in [Threads -> Steps] /\ match \in [Threads -> Channels \cup {NULL}]
      /\ connections \in [Channels -> ListsOver(Channels)]
      /\ NULL \notin Channels
  BY ChannelAssumption DEF TypeInv, TypeOK
<1>2. CASE u # t
  BY <1>2, OtherCalls DEF EntryInv, HasMatch
<1>3. CASE u = t /\ ScanNext(t)
  <2>1. Id(t) \in Channels /\ Owner[Id(t)] = t /\ Engaged(t)
    BY <1>3, CallIsCall DEF ScanNext, TypeInv, TypeOK, ThreadOK, Engaged
  <2>2. ~IsEmpty(connections[Id(t)]) /\ ListOK(connections[Id(t)])
    BY <2>1 DEF EntryInv, WaitsToEnter, TypeInv
  <2>3. connections[Id(t)].next # NULL
    BY <1>1, <2>1, <2>2 DEF ListOK, ContainsElement, ToSet, ListsOver
  <2> QED BY <1>1, <1>3, <2>3 DEF ScanNext, HasMatch
<1>4. CASE u = t /\ BindStarts(t)
  <2>1. Call(t).other \in Channels
    BY <1>4, CallIsCall DEF BindStarts, TypeInv, TypeOK, ThreadOK
  <2> QED BY <1>1, <1>4, <2>1 DEF BindStarts, HasMatch
<1>5. CASE u = t /\ (LockIn(t) \/ LockOut(t) \/ Fault(t))
  <2>1. Op(t) \in {"send", "receive", "bind", "unbind"}
    BY <1>5, CallIsCall DEF LockIn, LockOut, Fault, TypeInv, TypeOK, ThreadOK
  <2> QED BY <1>1, <1>5, <2>1 DEF LockIn, LockOut, Fault, AfterLocks, locals, EntryInv, HasMatch
<1>6. CASE u = t /\ ~ScanNext(t) /\ ~BindStarts(t) /\ ~(LockIn(t) \/ LockOut(t) \/ Fault(t))
  <2>1. pc'[t] \notin {"lockIn", "lockOut"}
    <3>1. Return(t) => pc'[t] = "call"
      BY ReturnTypes
    <3>2. Start(t) => pc'[t] \notin {"lockIn", "lockOut"}
      BY <1>1, CallIsCall DEF Start, FirstStep, TypeInv, TypeOK
    <3> QED
      BY <1>1, <1>6, <3>1, <3>2, NoUnbindStep
         DEF Step, channel_scan, channel_send, channel_receive, channel_bind,
             Enter, Arm, Count, ScanEnds, Test, Leave, LeaveAndPark,
             ParkBlocks, SendTransfer, AwaitReceived, SendUnparks, ReceiveTransfer,
             ReceiveUnparks, Copy, Acknowledge, BindRefused, BindAgain, InsertLink
  <2> QED BY <1>6, <2>1 DEF HasMatch
<1> QED BY <1>2, <1>3, <1>4, <1>5, <1>6

LEMMA EntryNext ==
  ASSUME TypeInv, SymmetryInv, EntryInv, NeverUnbinds, ~SpuriousWakeups, [Next]_vars
  PROVE  EntryInv'
<1>1. CASE UNCHANGED vars
  BY <1>1 DEF vars, locals, fields, sems, EntryInv, WaitsToEnter, HasMatch,
              Engaged, Id, Op, Call
<1>2. ASSUME NEW t \in Threads, Step(t) PROVE EntryInv'
  BY <1>2, WaitsToEnterStep, HasMatchStep DEF EntryInv
<1> QED BY <1>1, <1>2 DEF Next, Stopped

\* So no step is a fault.
LEMMA FaultStep ==
  ASSUME TypeInv, EntryInv, NeverUnbinds, NEW t \in Threads, Step(t),
         NEW u \in Threads, pc[u] # "fault"
  PROVE  pc'[u] # "fault"
<1>1. pc \in [Threads -> Steps]
  BY DEF TypeInv, TypeOK
<1>2. ~Fault(t)
  <2>1. pc[t] \in {"lockIn", "lockOut"} => Id(t) \in Channels /\ match[t] # NULL
    BY CallIsCall DEF TypeInv, TypeOK, ThreadOK, EntryInv, HasMatch
  <2> QED BY <2>1, ChannelAssumption DEF Fault, InEnd, OutEnd
<1>3. CASE u = t
  <2>1. Return(t) => pc'[t] = "call"
    BY ReturnTypes
  <2>2. ~Finished(t) => Op(t) \in {"send", "receive", "bind", "unbind"}
    BY CallIsCall DEF TypeInv, TypeOK
  <2>3. Start(t) => pc'[t] # "fault"
    BY <1>1, <2>2 DEF Start, FirstStep
  <2>4. LockIn(t) \/ LockOut(t) => pc'[t] # "fault"
    BY <1>1, <2>2 DEF LockIn, LockOut, AfterLocks, TypeInv, ThreadOK
  <2> QED
    BY <1>1, <1>2, <1>3, <2>1, <2>3, <2>4, NoUnbindStep
       DEF Step, channel_scan, channel_send, channel_receive, channel_bind,
           Enter, Arm, Count, ScanNext, ScanEnds, Test, Leave, LeaveAndPark,
           ParkBlocks, SendTransfer, AwaitReceived, SendUnparks, ReceiveTransfer,
           ReceiveUnparks, Copy, Acknowledge, BindRefused, BindStarts, BindAgain, InsertLink
<1>4. CASE u # t
  BY <1>4, OtherCalls
<1> QED BY <1>3, <1>4

(***************************************************************************)
(* No program that never disconnects follows a NULL connection: a call     *)
(* iterates over a list only when it has an element.  With unbind it may   *)
(* (run connsem), and so it may if pthread_cond_wait returns unsignalled.  *)
(***************************************************************************)
THEOREM NoNullConnection ==
  NeverUnbinds /\ ~SpuriousWakeups => (Spec => []~Faulted)
<1> SUFFICES ASSUME NeverUnbinds, ~SpuriousWakeups PROVE Spec => []~Faulted
  OBVIOUS
<1> DEFINE I == TypeInv /\ SymmetryInv /\ EntryInv /\ ~Faulted
<1>1. Init => I
  BY TypeInit, SymmetryInit, EntryInit DEF Init, Faulted
<1>2. I /\ [Next]_vars => I'
  <2> SUFFICES ASSUME I, [Next]_vars PROVE I'
    OBVIOUS
  <2>1. TypeInv' /\ SymmetryInv' /\ EntryInv'
    BY TypeNext, SymmetryNext, EntryNext
  <2>2. ~Faulted'
    <3>1. CASE UNCHANGED vars
      BY <3>1 DEF vars, Faulted
    <3>2. ASSUME NEW t \in Threads, Step(t) PROVE ~Faulted'
      BY <3>2, FaultStep DEF Faulted
    <3> QED BY <3>1, <3>2 DEF Next, Stopped
  <2> QED BY <2>1, <2>2
<1> QED BY <1>1, <1>2, PTL DEF Spec

-----------------------------------------------------------------------------
(***************************************************************************)
(* No rendezvous is missed.  The programs are those whose connections      *)
(* never grow beyond small stars: one of the two ends of a connection is   *)
(* connected to nothing else, and no channel to three others.              *)
(***************************************************************************)
OnlyPartner(a, b) == \A z \in Channels : Connected(a, z) => z = b

SmallStars ==
  /\ \A a, b \in Channels : Connected(a, b) => OnlyPartner(a, b) \/ OnlyPartner(b, a)
  /\ \A a, x, y, z \in Channels :
       Connected(a, x) /\ Connected(a, y) /\ Connected(a, z) => x = y \/ y = z \/ x = z

Scans(t) ==
  /\ pc[t] \in {"scan", "lockIn", "lockOut", "test", "transfer"}
  /\ Op(t) \in {"send", "receive"}

\* The scan of t ends within the list.
ScanInside(t) ==
  Scans(t) => i[t] <= length[t] /\ length[t] <= Len(connections[Id(t)].elements)

\* The scan of t is still going to come to c.
Ahead(t, c) ==
  LET l == connections[Id(t)] IN
  /\ ContainsElement(l, c)
  /\ length[t] - i[t] >= 2 \/ (length[t] - i[t] = 1 /\ l.next = c)

Seeks(t, c) ==
  \/ pc[t] = "count"
  \/ Scans(t) /\ (Ahead(t, c) \/ (pc[t] # "scan" /\ match[t] = c))

\* Who waits for the token of a channel has not been claimed.
WaitsReady(c) == blocked[c].waiting # {} => blocked[c].value = 0

(***************************************************************************)
(* The invariant: of two connected channels that are both ready, one is    *)
(* owned by a thread that still has the other one before it.               *)
(***************************************************************************)
Meets(a, b) ==
  ContainsElement(connections[a], b) /\ ready[a] /\ ready[b]
    => Seeks(Owner[a], b) \/ Seeks(Owner[b], a)

MeetInv ==
  /\ \A c \in Channels : WaitsReady(c)
  /\ \A t \in Threads : ScanInside(t)
  /\ \A a, b \in Channels : Meets(a, b)

LEMMA MeetInit == Init => MeetInv
BY DEF Init, MeetInv, WaitsReady, NewSemaphore, ScanInside, Scans, Meets

\* The steps of channel_scan that follow each other.
LEMMA StepOfScan ==
  ASSUME TypeInv, EntryInv, NEW t \in Threads, Step(t)
  PROVE  /\ pc[t] = "count" => Count(t)
         /\ pc[t] = "scan" => ScanNext(t) \/ ScanEnds(t)
         /\ pc[t] = "lockIn" => LockIn(t)
         /\ pc[t] = "lockOut" => LockOut(t)
         /\ pc[t] = "test" => Test(t)
         /\ pc[t] = "transfer" => SendTransfer(t) \/ ReceiveTransfer(t)
<1>1. ~Fault(t)
  <2>1. pc[t] \in {"lockIn", "lockOut"} => Id(t) \in Channels /\ match[t] # NULL
    BY CallIsCall DEF TypeInv, TypeOK, ThreadOK, EntryInv, HasMatch
  <2> QED BY <2>1, ChannelAssumption DEF Fault, InEnd, OutEnd
<1> QED
  BY <1>1
     DEF Step, channel_scan, channel_send, channel_receive, channel_bind,
         channel_unbind, Start, LockIn, LockOut, Enter, Arm, Count, ScanNext,
         ScanEnds, Test, Leave, LeaveAndPark, ParkBlocks, SendTransfer,
         AwaitReceived, SendUnparks, ReceiveTransfer, ReceiveUnparks, Copy,
         Acknowledge, BindRefused, BindStarts, BindAgain, InsertLink,
         UnbindStarts, UnbindNext, TakeIn, TakeOut, RemoveLink, UnbindEnds

\* A scan begins in Count.
LEMMA ScansStep ==
  ASSUME TypeInv, NeverUnbinds, NEW t \in Threads, Step(t), Scans(t)'
  PROVE  \/ Count(t)
         \/ ScanNext(t)
         \/ /\ Scans(t) /\ i'[t] = i[t] /\ length'[t] = length[t]
            /\ Id(t)' = Id(t) /\ ~ScanNext(t)
<1>1. pc \in [Threads -> Steps] /\ ip \in [Threads -> Nat \ {0}]
  BY DEF TypeInv, TypeOK
<1>2. pc'[t] \in {"scan", "lockIn", "lockOut", "test", "transfer"} /\ Op(t)' \in {"send", "receive"}
  BY DEF Scans
<1>3. Id(t)' = Id(t) /\ Op(t)' = Op(t)
  BY <1>2, SameCallOrNone
<1>4. Return(t) => pc'[t] = "call"
  BY ReturnTypes
<1>5. CASE LockIn(t) \/ LockOut(t) \/ Test(t)
  BY <1>2, <1>3, <1>5 DEF LockIn, LockOut, Test, Scans, locals, ScanNext
<1>6. CASE ~(LockIn(t) \/ LockOut(t) \/ Test(t) \/ Count(t) \/ ScanNext(t))
  <2>1. Start(t) => FALSE
    BY <1>1, <1>2, <1>3 DEF Start, FirstStep
  <2>2. BindStarts(t) => FALSE
    BY <1>2, <1>3 DEF BindStarts, TypeInv, ThreadOK
  <2> QED
    BY <1>1, <1>2, <1>4, <1>6, <2>1, <2>2, NoUnbindStep
       DEF Step, channel_scan, channel_send, channel_receive, channel_bind,
           Fault, Enter, Arm, ScanEnds, Leave, LeaveAndPark,
           ParkBlocks, SendTransfer, AwaitReceived, SendUnparks, ReceiveTransfer,
           ReceiveUnparks, Copy, Acknowledge, BindRefused, BindAgain, InsertLink
<1> QED BY <1>5, <1>6

\* The scan of another thread is not disturbed.
LEMMA OtherScans ==
  ASSUME TypeInv, NEW t \in Threads, Step(t), NEW u \in Threads \ {t}
  PROVE  i'[u] = i[u] /\ length'[u] = length[u]
<1>1. i \in [Threads -> Nat] /\ length \in [Threads -> Nat]
  BY DEF TypeInv, TypeOK
<1>2. Return(t) => i'[u] = i[u] /\ length'[u] = length[u]
  BY <1>1 DEF Return
<1>3. CASE Start(t) \/ LockIn(t) \/ LockOut(t) \/ Fault(t) \/ channel_scan(t)
  BY <1>1, <1>2, <1>3
     DEF Start, LockIn, LockOut, Fault, channel_scan, Enter, Arm, Count, ScanNext,
         ScanEnds, Test, Leave, LeaveAndPark, ParkBlocks, locals
<1>4. CASE channel_send(t) \/ channel_receive(t)
  BY <1>2, <1>4
     DEF channel_send, SendTransfer, AwaitReceived, SendUnparks, channel_receive,
         ReceiveTransfer, ReceiveUnparks, Copy, Acknowledge, locals
<1>5. CASE channel_bind(t)
  BY <1>2, <1>5 DEF channel_bind, BindRefused, BindStarts, BindAgain, InsertLink
<1>6. CASE channel_unbind(t)
  BY <1>1, <1>2, <1>6
     DEF channel_unbind, UnbindStarts, UnbindNext, TakeIn, TakeOut, TakeConnsSem,
         RemoveLink, UnbindEnds, locals
<1> QED BY <1>3, <1>4, <1>5, <1>6 DEF Step

\* What a step does to a list: it rotates, grows at the head or stays.
LEMMA ListStep ==
  ASSUME TypeInv, SymmetryInv, NeverUnbinds, NEW t \in Threads, Step(t),
         NEW c \in Channels
  PROVE  \/ connections'[c] = connections[c]
         \/ ScanNext(t) /\ c = Id(t)
         \/ /\ InsertLink(t)
            /\ \E e \in Channels : connections'[c] = InsertElement(connections[c], e)
<1>1. connections \in [Channels -> ListsOver(Channels)]
  BY DEF TypeInv, TypeOK
<1>2. CASE ScanNext(t)
  BY <1>1, <1>2 DEF ScanNext
<1>3. CASE InsertLink(t)
  <2>1. /\ Id(t) \in Channels /\ match[t] \in Channels
        /\ connections' = [connections EXCEPT ![Id(t)]    = InsertElement(@, match[t]),
                                              ![match[t]] = InsertElement(@, Id(t))]
    BY <1>3, CallIsCall DEF InsertLink, TypeInv, TypeOK, ThreadOK, Inside
  <2>2. Id(t) # match[t]
    BY <1>3, <2>1, ConnectedOpposite, ChannelAssumption
       DEF InsertLink, SymmetryInv, Counterpart
  <2> QED BY <1>1, <1>3, <2>1, <2>2
<1>4. CASE ~ScanNext(t) /\ ~InsertLink(t)
  BY <1>4, NoUnbindStep
     DEF Step, channel_scan, channel_send, channel_receive, channel_bind, Start, LockIn,
         LockOut, Fault, Enter, Arm, Count, ScanEnds, Test, Leave, LeaveAndPark,
         ParkBlocks, SendTransfer, AwaitReceived, SendUnparks, ReceiveTransfer,
         ReceiveUnparks, Copy, Acknowledge, BindRefused, BindStarts, BindAgain, fields
<1> QED BY <1>2, <1>3, <1>4

\* A list grows only, and what InsertElement does to its iterator.
LEMMA InsertedList ==
  ASSUME NEW l \in ListsOver(Channels), NEW e \in Channels
  PROVE  /\ Len(InsertElement(l, e).elements) = Len(l.elements) + 1
         /\ ~IsEmpty(l) => InsertElement(l, e).next = l.next
<1>1. l.elements \in Seq(Channels)
  BY DEF ListsOver
<1>2. Len(<<e>> \o l.elements) = Len(l.elements) + 1
  BY <1>1
<1> QED BY <1>2 DEF InsertElement

LEMMA LengthGrows ==
  ASSUME TypeInv, SymmetryInv, NeverUnbinds, NEW t \in Threads, Step(t),
         NEW c \in Channels
  PROVE  /\ Len(connections[c].elements) \in Nat
         /\ Len(connections'[c].elements) \in Nat
         /\ Len(connections[c].elements) <= Len(connections'[c].elements)
<1>1. /\ connections[c] \in ListsOver(Channels)
      /\ connections[c].elements \in Seq(Channels)
  BY DEF TypeInv, TypeOK, ListsOver
<1>2. Len(connections[c].elements) \in Nat
  BY <1>1
<1>3. CASE connections'[c] = connections[c]
  BY <1>2, <1>3
<1>4. CASE ScanNext(t)
  <2>1. connections'[c].elements = connections[c].elements
    BY <1>4, ElementsKept DEF ScanNext, InsertLink, RemoveLink
  <2> QED BY <1>2, <2>1
<1>5. CASE \E e \in Channels : connections'[c] = InsertElement(connections[c], e)
  <2>1. Len(connections'[c].elements) = Len(connections[c].elements) + 1
    BY <1>1, <1>5, InsertedList
  <2> QED BY <1>2, <2>1
<1> QED BY <1>3, <1>4, <1>5, ListStep

\* The list that another thread iterates over keeps its iterator.
LEMMA NextKept ==
  ASSUME TypeInv, SymmetryInv, EntryInv, NeverUnbinds, NEW t \in Threads, Step(t),
         NEW u \in Threads \ {t}, Engaged(u)
  PROVE  /\ Id(u) \in Channels
         /\ connections'[Id(u)].next = connections[Id(u)].next
<1>1. Id(u) \in Channels /\ Owner[Id(u)] = u
  BY CallIsCall DEF Engaged, TypeInv, TypeOK, ThreadOK
<1>2. ~IsEmpty(connections[Id(u)]) /\ connections[Id(u)] \in ListsOver(Channels)
  BY <1>1 DEF EntryInv, WaitsToEnter, TypeInv, TypeOK
<1>3. ScanNext(t) => Id(t) # Id(u)
  BY <1>1, CallIsCall DEF ScanNext, TypeInv, TypeOK, ThreadOK
<1> QED BY <1>1, <1>2, <1>3, ListStep, InsertedList

\* In a small star no list has more than two elements.
LEMMA AtMostTwo ==
  ASSUME TypeInv, SymmetryInv, SmallStars, NEW c \in Channels
  PROVE  Len(connections[c].elements) <= 2
<1> DEFINE s == connections[c].elements
<1>1. s \in Seq(Channels) /\ connections[c] \in ListsOver(Channels) /\ Len(s) \in Nat
  BY DEF TypeInv, TypeOK, ListsOver
<1>2. \A k \in 1 .. Len(s) : s[k] \in Channels /\ Connected(c, s[k])
  BY <1>1, ElementHasPosition DEF SymmetryInv, ListsAgree
<1>3. \A j, k \in 1 .. Len(s) : s[j] = s[k] => j = k
  BY DEF SymmetryInv, ListsAgree, Distinct
<1> HIDE DEF s
<1> SUFFICES ASSUME Len(s) > 2 PROVE FALSE
  BY <1>1 DEF s
<1>4. 1 \in 1 .. Len(s) /\ 2 \in 1 .. Len(s) /\ 3 \in 1 .. Len(s)
  BY <1>1
<1>5. s[1] = s[2] \/ s[2] = s[3] \/ s[1] = s[3]
  BY <1>2, <1>4 DEF SmallStars
<1> QED BY <1>3, <1>4, <1>5

-----------------------------------------------------------------------------
\* A claim takes the owner of the claimed channel out of the wait.
LEMMA WaitsReadyStep ==
  ASSUME TypeInv, TokenInv, ~SpuriousWakeups, NEW t \in Threads, Step(t),
         NEW c \in Channels, WaitsReady(c)
  PROVE  WaitsReady(c)'
<1> DEFINE own == Id(t)
           other == match[t]
<1>1. blocked \in [Channels -> Semaphores(Threads)]
  BY DEF TypeInv, TypeOK
<1>2. \A u \in blocked[c].waiting : u = Owner[c]
  BY <1>1 DEF TokenInv, OwnerWaits, InWait, Semaphores
<1>3. CASE ParkBlocks(t)
  <2>1. /\ MyMustBlock(blocked[own], t)
        /\ blocked' = [blocked EXCEPT ![own] = Block(@, t)]
    BY <1>3 DEF ParkBlocks
  <2>2. CASE own = c
    <3>1. blocked[c].value \in {0, 1}
      BY DEF TokenInv, OneToken, HasOneToken
    <3>2. blocked[c].value = 0
      BY <2>1, <2>2, <3>1 DEF MyMustBlock
    <3>3. blocked'[c].value = blocked[c].value
      BY <1>1, <2>1, <2>2 DEF Block, Semaphores
    <3> QED BY <3>2, <3>3 DEF WaitsReady
  <2>3. CASE own # c
    BY <1>1, <2>1, <2>3 DEF WaitsReady
  <2> QED BY <2>2, <2>3
<1>4. CASE SendUnparks(t) \/ ReceiveUnparks(t)
  <2>1. /\ blocked' = [blocked EXCEPT ![own] = MyTake(@, t)]
        /\ own \in Channels /\ Owner[own] = t
    BY <1>4, OwnChannel DEF SendUnparks, ReceiveUnparks
  <2>2. CASE own = c
    <3>1. blocked'[c].waiting = blocked[c].waiting \ {t}
      <4>1. /\ Awake(blocked[c], t) \in Semaphores(Threads)
            /\ Awake(blocked[c], t).waiting = blocked[c].waiting \ {t}
        BY <1>1 DEF Awake, Semaphores
      <4>2. MyTake(blocked[c], t).waiting = blocked[c].waiting \ {t}
        BY <4>1 DEF MyTake, Semaphores
      <4> QED BY <1>1, <2>1, <2>2, <4>2
    <3> QED BY <1>2, <2>1, <2>2, <3>1 DEF WaitsReady
  <2>3. CASE own # c
    BY <1>1, <2>1, <2>3 DEF WaitsReady
  <2> QED BY <2>2, <2>3
<1>5. CASE SendTransfer(t) \/ ReceiveTransfer(t)
  <2>1. PICK p \in MyPosts(blocked[other]) : blocked' = [blocked EXCEPT ![other] = p]
    BY <1>5 DEF SendTransfer, ReceiveTransfer, Claim
  <2>2. CASE other = c
    <3>1. p.waiting = {}
      <4> DEFINE r == [blocked[c] EXCEPT !.value = @ + 1]
      <4>1. r.waiting = blocked[c].waiting /\ p \in Signalled(r) /\ r \in Semaphores(Threads)
        BY <1>1, <2>1, <2>2 DEF MyPosts, Semaphores
      <4> HIDE DEF r
      <4>2. CASE r.waiting = {}
        BY <4>1, <4>2 DEF Signalled
      <4>3. CASE r.waiting # {}
        <5>1. PICK u \in r.waiting :
                p = [r EXCEPT !.waiting = @ \ {u}, !.woken = @ \cup {u}]
          BY <4>1, <4>3 DEF Signalled
        <5>2. p.waiting = r.waiting \ {u}
          BY <4>1, <5>1 DEF Semaphores
        <5> QED BY <1>2, <4>1, <5>1, <5>2
      <4> QED BY <4>2, <4>3
    <3> QED BY <1>1, <2>1, <2>2, <3>1 DEF WaitsReady
  <2>3. CASE other # c
    BY <1>1, <2>1, <2>3 DEF WaitsReady
  <2> QED BY <2>2, <2>3
<1>6. CASE Arm(t)
  BY <1>6 DEF Arm, sems, WaitsReady
<1>7. CASE ~Loud(t)
  BY <1>7, QuietStep DEF Quiet, WaitsReady
<1> QED BY <1>3, <1>4, <1>5, <1>6, <1>7 DEF Loud

LEMMA ScanInsideStep ==
  ASSUME TypeInv, SymmetryInv, NeverUnbinds, NEW t \in Threads, Step(t),
         NEW u \in Threads, ScanInside(u)
  PROVE  ScanInside(u)'
<1>1. /\ i[u] \in Nat /\ length[u] \in Nat
      /\ i \in [Threads -> Nat] /\ length \in [Threads -> Nat]
      /\ connections \in [Channels -> ListsOver(Channels)]
  BY DEF TypeInv, TypeOK
<1>2. pc[u] # "call" => Id(u) \in Channels
  BY CallIsCall DEF TypeInv, TypeOK, ThreadOK
<1> SUFFICES ASSUME Scans(u)'
             PROVE  i'[u] <= length'[u] /\ length'[u] <= Len(connections'[Id(u)'].elements)
  BY DEF ScanInside
<1>3. CASE u # t
  <2>1. /\ i'[u] = i[u] /\ length'[u] = length[u] /\ Id(u)' = Id(u) /\ Scans(u)
        /\ pc[u] # "call"
    BY <1>3, OtherScans, OtherCalls, SameCall DEF Scans
  <2> QED BY <1>1, <1>2, <2>1, LengthGrows DEF ScanInside
<1>4. CASE u = t /\ Count(t)
  <2>1. /\ i'[t] = 0 /\ length'[t] = Len(connections[Id(t)].elements)
        /\ Id(t)' = Id(t) /\ connections' = connections /\ Id(t) \in Channels
    BY <1>1, <1>2, <1>4, SameCall DEF Count, Length, fields
  <2>2. Len(connections[Id(t)].elements) \in Nat
    BY <2>1, LengthGrows
  <2> QED BY <1>4, <2>1, <2>2
<1>5. CASE u = t /\ ScanNext(t)
  <2>1. /\ i'[t] = i[t] + 1 /\ length'[t] = length[t] /\ i[t] < length[t]
        /\ Id(t)' = Id(t) /\ Id(t) \in Channels /\ Scans(t)
    BY <1>1, <1>2, <1>5, SameCall DEF ScanNext, Scans, TypeInv, ThreadOK
  <2> QED BY <1>1, <1>5, <2>1, LengthGrows DEF ScanInside
<1>6. CASE u = t /\ Scans(t) /\ i'[t] = i[t] /\ length'[t] = length[t] /\ Id(t)' = Id(t)
  BY <1>1, <1>2, <1>6, LengthGrows DEF ScanInside, Scans
<1> QED BY <1>3, <1>4, <1>5, <1>6, ScansStep

\* A channel is ready only while a call on it is past conns_sem.
LEMMA ReadyEngaged ==
  ASSUME TypeInv, TokenInv, EntryInv, NEW c \in Channels, ready[c]
  PROVE  /\ Owner[c] \in Threads /\ Engaged(Owner[c]) /\ Id(Owner[c]) = c
         /\ ~IsEmpty(connections[c])
<1>1. /\ Owner[c] \in Threads /\ Offering(Owner[c]) /\ Id(Owner[c]) = c
  BY ChannelAssumption DEF TokenInv, OneToken, HasOneToken
<1>2. Engaged(Owner[c])
  BY <1>1, OwnChannel DEF Offering, Engaged
<1> QED BY <1>1, <1>2 DEF EntryInv, WaitsToEnter

\* Only Arm makes a channel ready.
LEMMA ReadyStep ==
  ASSUME TypeInv, NEW t \in Threads, Step(t), NEW c \in Channels, ready'[c]
  PROVE  ready[c] \/ (Arm(t) /\ Id(t) = c)
<1>1. ready \in [Channels -> BOOLEAN]
  BY DEF TypeInv, TypeOK
<1>2. CASE Arm(t)
  BY <1>1, <1>2 DEF Arm
<1>3. CASE SendTransfer(t) \/ ReceiveTransfer(t)
  BY <1>1, <1>3 DEF SendTransfer, ReceiveTransfer, Claim
<1>4. CASE ParkBlocks(t) \/ SendUnparks(t) \/ ReceiveUnparks(t)
  BY <1>4 DEF ParkBlocks, SendUnparks, ReceiveUnparks, fields
<1>5. CASE ~Loud(t)
  BY <1>5, QuietStep DEF Quiet
<1> QED BY <1>2, <1>3, <1>4, <1>5 DEF Loud

\* Of a list of one or two elements, what the next ones are.
LEMMA NextOfTwo ==
  ASSUME NEW l \in ListsOver(Channels), NULL \notin Channels, ListOK(l), Distinct(l),
         NEW c, ContainsElement(l, c), Len(l.elements) <= 2
  PROVE  /\ ~IsEmpty(l) /\ Len(l.elements) \in {1, 2}
         /\ Len(l.elements) = 1 => l.next = c
         /\ Len(l.elements) = 2 => l.next = c \/ Rotate(l).next = c
<1> DEFINE s == l.elements
<1>1. s \in Seq(Channels) /\ Len(s) \in Nat /\ DOMAIN s = 1 .. Len(s)
  BY DEF ListsOver
<1>2. PICK k \in 1 .. Len(s) : s[k] = c
  BY <1>1, ElementHasPosition
<1>3. ~IsEmpty(l) /\ Len(s) \in {1, 2}
  <2>1. Len(s) >= 1 /\ Len(s) <= 2
    BY <1>1, <1>2
  <2>2. s # << >>
    BY <2>1
  <2>3. Len(s) \in {1, 2}
    <3>1. \A n \in Nat : n >= 1 /\ n <= 2 => n = 1 \/ n = 2
      OBVIOUS
    <3> HIDE DEF s
    <3> QED BY <1>1, <2>1, <3>1
  <2>4. ~IsEmpty(l)
    BY <2>2 DEF IsEmpty
  <2> QED BY <2>3, <2>4
<1>4. ContainsElement(l, l.next)
  BY <1>3 DEF ListOK
<1> DEFINE p == PositionOf(l, l.next)
<1>5. p \in 1 .. Len(s) /\ s[p] = l.next
  BY <1>4, PositionIsThere
<1>6. Rotate(l).next = IF p < Len(s) THEN s[p + 1] ELSE s[1]
  BY <1>3 DEF Rotate, After, ListsOver
<1> HIDE DEF p, s
<1>7. CASE Len(s) = 1
  <2>1. k = 1 /\ p = 1
    BY <1>2, <1>5, <1>7
  <2> QED BY <1>2, <1>3, <1>5, <1>7, <2>1 DEF s
<1>8. CASE Len(s) = 2
  <2>1. k \in {1, 2} /\ p \in {1, 2}
    BY <1>2, <1>5, <1>8
  <2>2. CASE k = p
    BY <1>2, <1>3, <1>5, <1>8, <2>2 DEF s
  <2>3. CASE k = 1 /\ p = 2
    <3>1. Rotate(l).next = s[1]
      BY <1>6, <1>8, <2>3
    <3> QED BY <1>2, <1>3, <1>8, <2>3, <3>1 DEF s
  <2>4. CASE k = 2 /\ p = 1
    <3>1. Rotate(l).next = s[2]
      BY <1>6, <1>8, <2>4
    <3> QED BY <1>2, <1>3, <1>8, <2>4, <3>1 DEF s
  <2> QED BY <2>1, <2>2, <2>3, <2>4
<1> QED BY <1>3, <1>7, <1>8

(***************************************************************************)
(* A thread goes on seeking a channel until it has met it, and then one of *)
(* the two is not ready any more.  The list does not move under its scan.  *)
(***************************************************************************)
LEMMA SeeksByOthers ==
  ASSUME TypeInv, SymmetryInv, EntryInv, NeverUnbinds,
         NEW t \in Threads, Step(t), NEW u \in Threads \ {t},
         NEW c \in Channels, Seeks(u, c)
  PROVE  Seeks(u, c)'
<1>1. /\ pc'[u] = pc[u] /\ match'[u] = match[u] /\ Id(u)' = Id(u) /\ Op(u)' = Op(u)
      /\ i'[u] = i[u] /\ length'[u] = length[u]
  BY OtherCalls, OtherScans, SameCall
<1>2. Scans(u) => Engaged(u)
  BY DEF Scans, Engaged
<1>3. Scans(u) /\ Ahead(u, c) => Ahead(u, c)'
  BY <1>1, <1>2, NextKept, NothingRemoved DEF Ahead
<1> QED BY <1>1, <1>3 DEF Seeks, Scans

LEMMA SeeksByItself ==
  ASSUME TypeInv, TokenInv, SymmetryInv, EntryInv, NeverUnbinds, SmallStars,
         NEW t \in Threads, Step(t), ScanInside(t),
         NEW c \in Channels, Seeks(t, c), ContainsElement(connections[Id(t)], c)
  PROVE  Seeks(t, c)' \/ ~ready'[Id(t)] \/ ~ready'[c]
<1> DEFINE own == Id(t)
           l == connections[own]
<1>1. /\ pc \in [Threads -> Steps] /\ match \in [Threads -> Channels \cup {NULL}]
      /\ i \in [Threads -> Nat] /\ length \in [Threads -> Nat]
      /\ ready \in [Channels -> BOOLEAN]
      /\ connections \in [Channels -> ListsOver(Channels)]
      /\ i[t] \in Nat /\ length[t] \in Nat
  BY DEF TypeInv, TypeOK
<1>2. /\ own \in Channels /\ Owner[own] = t /\ Op(t) \in {"send", "receive"}
  BY CallIsCall DEF Seeks, Scans, TypeInv, TypeOK, ThreadOK
<1>3. /\ ~IsEmpty(l) /\ Len(l.elements) \in {1, 2}
      /\ Len(l.elements) = 1 => l.next = c
      /\ Len(l.elements) = 2 => l.next = c \/ Rotate(l).next = c
  BY <1>1, <1>2, AtMostTwo, NextOfTwo, ChannelAssumption
     DEF TypeInv, SymmetryInv, ListsAgree
<1> HIDE DEF l
<1>4. CASE pc[t] = "count"
  <2>1. /\ pc'[t] = "scan" /\ i'[t] = 0 /\ length'[t] = Len(l.elements)
        /\ connections' = connections /\ own' = own /\ Op(t)' = Op(t)
    BY <1>1, <1>4, StepOfScan, SameCall DEF Count, Length, fields, l
  <2>2. connections'[own'] = l
    BY <2>1 DEF l
  <2>3. \/ Len(l.elements) - 0 >= 2
        \/ Len(l.elements) - 0 = 1 /\ l.next = c
    BY <1>3
  <2>4. Ahead(t, c)'
    BY <2>1, <2>2, <2>3 DEF Ahead, l
  <2> QED BY <1>2, <2>1, <2>4 DEF Seeks, Scans
<1>5. CASE pc[t] = "scan"
  <2>1. Scans(t) /\ Ahead(t, c) /\ i[t] <= length[t] /\ length[t] <= Len(l.elements)
    BY <1>5 DEF Seeks, Scans, ScanInside, l
  <2>2. i[t] < length[t]
    BY <1>1, <2>1 DEF Ahead
  <2>3. ScanNext(t)
    BY <1>1, <1>5, <2>2, StepOfScan DEF ScanEnds
  <2>4. /\ pc'[t] = "lockIn" /\ match'[t] = l.next /\ i'[t] = i[t] + 1
        /\ length'[t] = length[t] /\ connections'[own] = Rotate(l)
        /\ own' = own /\ Op(t)' = Op(t)
    BY <1>1, <1>2, <2>3, SameCall DEF ScanNext, l
  <2>5. CASE l.next = c
    BY <1>2, <2>4, <2>5 DEF Seeks, Scans
  <2>6. CASE l.next # c
    <3>1. length[t] - i[t] >= 2
      BY <2>1, <2>6 DEF Ahead, l
    <3>2. length[t] = 2 /\ i[t] = 0 /\ Len(l.elements) = 2
      <4>1. \A j, n, m \in Int : j >= 0 /\ n - j >= 2 /\ n <= m /\ m \in {1, 2}
                                 => n = 2 /\ j = 0 /\ m = 2
        OBVIOUS
      <4>2. i[t] \in Int /\ i[t] >= 0 /\ length[t] \in Int /\ Len(l.elements) \in Int
        BY <1>1, <1>3
      <4> QED BY <1>3, <2>1, <3>1, <4>1, <4>2
    <3>3. Rotate(l).next = c
      BY <1>3, <2>6, <3>2
    <3>4. ContainsElement(Rotate(l), c)
      BY RotateElements DEF ContainsElement, l
    <3>5. Ahead(t, c)'
      BY <2>4, <3>2, <3>3, <3>4 DEF Ahead
    <3> QED BY <1>2, <2>4, <3>5 DEF Seeks, Scans
  <2> QED BY <2>5, <2>6
<1>6. CASE pc[t] \in {"lockIn", "lockOut"}
  <2>1. /\ pc'[t] \in {"lockOut", "test"} /\ match' = match /\ i' = i /\ length' = length
        /\ connections' = connections /\ own' = own /\ Op(t)' = Op(t)
    BY <1>1, <1>2, <1>6, StepOfScan, SameCall DEF LockIn, LockOut, AfterLocks, locals, fields
  <2> QED BY <1>2, <1>6, <2>1 DEF Seeks, Scans, Ahead
<1>7. CASE pc[t] = "test"
  <2>1. /\ pc'[t] = IF BothReady(t) THEN "transfer" ELSE "scan"
        /\ match' = match /\ i' = i /\ length' = length /\ ready' = ready
        /\ connections' = connections /\ own' = own /\ Op(t)' = Op(t)
    BY <1>1, <1>7, StepOfScan, SameCall DEF Test, locals, fields
  <2>2. CASE Ahead(t, c)
    BY <1>2, <2>1, <2>2 DEF Seeks, Scans, Ahead
  <2>3. CASE match[t] = c
    BY <1>2, <2>1, <2>3 DEF Seeks, Scans, BothReady
  <2> QED BY <1>7, <2>2, <2>3 DEF Seeks
<1>8. CASE pc[t] = "transfer"
  BY <1>1, <1>2, <1>8, StepOfScan DEF SendTransfer, ReceiveTransfer, Claim
<1> QED BY <1>4, <1>5, <1>6, <1>7, <1>8 DEF Seeks, Scans

LEMMA MeetsStep ==
  ASSUME TypeInv, TokenInv, SymmetryInv, EntryInv, MeetInv, NeverUnbinds, SmallStars,
         NEW t \in Threads, Step(t), SymmetryInv',
         NEW a \in Channels, NEW b \in Channels
  PROVE  Meets(a, b)'
<1> SUFFICES ASSUME ContainsElement(connections'[a], b), ready'[a], ready'[b]
             PROVE  Seeks(Owner[a], b)' \/ Seeks(Owner[b], a)'
  BY DEF Meets
<1>1. pc \in [Threads -> Steps] /\ connections \in [Channels -> ListsOver(Channels)]
  BY DEF TypeInv, TypeOK
<1>2. CASE Arm(t) /\ Id(t) \in {a, b}
  <2>1. pc'[t] = "count" /\ Owner[Id(t)] = t
    BY <1>1, <1>2, OwnChannel DEF Arm
  <2> QED BY <1>2, <2>1 DEF Seeks
<1>3. CASE ~(Arm(t) /\ Id(t) \in {a, b})
  <2>1. ready[a] /\ ready[b]
    BY <1>3, ReadyStep
  <2>2. /\ Owner[a] \in Threads /\ Id(Owner[a]) = a /\ ~IsEmpty(connections[a])
        /\ Owner[b] \in Threads /\ Id(Owner[b]) = b /\ ~IsEmpty(connections[b])
    BY <2>1, ReadyEngaged
  <2>3. ASSUME NEW x \in Channels, NEW y \in Channels, ~IsEmpty(connections[x]),
               OnlyPartner(x, y)
        PROVE  ContainsElement(connections[x], y)
    <3> DEFINE s == connections[x].elements
    <3>1. s \in Seq(Channels) /\ connections[x] \in ListsOver(Channels)
      BY <1>1 DEF ListsOver
    <3>2. s # << >>
      BY <2>3 DEF IsEmpty
    <3>3. s[1] \in Channels /\ 1 \in 1 .. Len(s)
      BY <3>1, <3>2
    <3>4. ContainsElement(connections[x], s[1])
      BY <3>1, <3>3, ElementHasPosition
    <3> QED BY <2>3, <3>3, <3>4 DEF SymmetryInv, ListsAgree, OnlyPartner
  <2>4. ContainsElement(connections[a], b) /\ ContainsElement(connections[b], a)
    <3>1. Connected(a, b)'
      BY DEF SymmetryInv, ListsAgree
    <3>2. Connected(a, b)
      BY <3>1 DEF Connected
    <3> QED BY <2>2, <2>3, <3>2 DEF SmallStars, SymmetryInv, ListsAgree, Symmetric
  <2>5. ASSUME NEW x \in Channels, NEW y \in Channels,
               Owner[x] \in Threads, Id(Owner[x]) = x,
               ContainsElement(connections[x], y), ready'[x], ready'[y],
               Seeks(Owner[x], y)
        PROVE  Seeks(Owner[x], y)'
    BY <2>5, SeeksByOthers, SeeksByItself DEF MeetInv
  <2>6. Seeks(Owner[a], b) \/ Seeks(Owner[b], a)
    BY <2>1, <2>4 DEF MeetInv, Meets
  <2> QED BY <2>2, <2>4, <2>5, <2>6
<1> QED BY <1>2, <1>3

LEMMA MeetNext ==
  ASSUME TypeInv, TokenInv, SymmetryInv, EntryInv, MeetInv, SymmetryInv',
         NeverUnbinds, ~SpuriousWakeups, SmallStars, [Next]_vars
  PROVE  MeetInv'
<1>1. CASE UNCHANGED vars
  <2>1. /\ pc' = pc /\ ip' = ip /\ match' = match /\ i' = i /\ length' = length
        /\ connections' = connections /\ ready' = ready /\ blocked' = blocked
    BY <1>1 DEF vars, locals, fields, sems
  <2>2. \A t \in Threads : Id(t)' = Id(t) /\ Op(t)' = Op(t)
    BY <2>1, SameCall
  <2>3. ASSUME NEW t \in Threads
        PROVE  /\ ScanInside(t)' <=> ScanInside(t)
               /\ \A c \in Channels : Seeks(t, c)' <=> Seeks(t, c)
    BY <2>1, <2>2 DEF ScanInside, Seeks, Scans, Ahead
  <2>4. \A c \in Channels : Owner[c] \in Threads
    BY ChannelAssumption
  <2> QED BY <2>1, <2>3, <2>4 DEF MeetInv, WaitsReady, Meets
<1>2. ASSUME NEW t \in Threads, Step(t) PROVE MeetInv'
  BY <1>2, WaitsReadyStep, ScanInsideStep, MeetsStep DEF MeetInv
<1> QED BY <1>1, <1>2 DEF Next, Stopped

\* Two owners that both wait have channels that are ready, and seek nothing.
LEMMA MeetImplies ==
  ASSUME TypeInv, TokenInv, MeetInv
  PROVE  NoMissedMatch
<1> SUFFICES ASSUME NEW o \in Outs, NEW c \in Ins, ContainsElement(connections[o], c),
                    Parked(Owner[o]), Id(Owner[o]) = o,
                    Parked(Owner[c]), Id(Owner[c]) = c
             PROVE  FALSE
  BY DEF NoMissedMatch
<1>1. o \in Channels /\ c \in Channels
  BY DEF Channels
<1>2. ASSUME NEW x \in Channels, Parked(Owner[x]), Id(Owner[x]) = x PROVE ready[x]
  <2>1. blocked[x].value = 0
    BY <1>2 DEF MeetInv, WaitsReady, Parked
  <2>2. Offering(Owner[x])
    BY <1>2 DEF Parked, Offering
  <2> QED BY <1>2, <2>1, <2>2 DEF TokenInv, OneToken, HasOneToken
<1>3. ready[o] /\ ready[c]
  BY <1>1, <1>2
<1>4. Seeks(Owner[o], c) \/ Seeks(Owner[c], o)
  BY <1>1, <1>3 DEF MeetInv, Meets
<1> QED BY <1>4 DEF Seeks, Scans, Parked

(***************************************************************************)
(* For every program that connects its channels in small stars and does    *)
(* not disconnect them, with binds, sends and receives at any moment: the  *)
(* two owners of a connection never both wait for the other one.  Beyond   *)
(* small stars they may: in a chain of four, whose middle is bound last,   *)
(* and around a channel that is connected to three.                        *)
(***************************************************************************)
THEOREM NoMissedMatchInSmallStars ==
  SmallStars /\ NeverUnbinds /\ ~SpuriousWakeups => (Spec => []NoMissedMatch)
<1> SUFFICES ASSUME SmallStars, NeverUnbinds, ~SpuriousWakeups
             PROVE  Spec => []NoMissedMatch
  OBVIOUS
<1> DEFINE I == TypeInv /\ TokenInv /\ SymmetryInv /\ EntryInv /\ MeetInv
<1>1. Init => I
  BY TypeInit, TokenInit, SymmetryInit, EntryInit, MeetInit
<1>2. I /\ [Next]_vars => I'
  <2> SUFFICES ASSUME I, [Next]_vars PROVE I'
    OBVIOUS
  <2>1. TypeInv' /\ TokenInv' /\ SymmetryInv' /\ EntryInv'
    BY TypeNext, TokenNext, SymmetryNext, EntryNext
  <2> QED BY <2>1, MeetNext
<1>3. I => NoMissedMatch
  BY MeetImplies
<1> QED BY <1>1, <1>2, <1>3, PTL DEF Spec

-----------------------------------------------------------------------------
(***************************************************************************)
(* The channels implement the rendezvous: the refinement of Rendezvous by  *)
(* ChannelRendezvous, step by step.                                        *)
(*                                                                         *)
(* It is proved for programs in which every input has one sending          *)
(* component and that never disconnect.  Without the first, a receiver may *)
(* copy what is no longer the message (run fanin); without the second, two *)
(* channels may meet after they were disconnected, because conns_sem is no *)
(* mutex (run connsem).                                                    *)
(***************************************************************************)

(***************************************************************************)
(* What the refinement adds to the invariants of the channels: the         *)
(* counterpart of a call is still connected, and a send has a message.     *)
(***************************************************************************)
StillConnected(t) ==
  match[t] # NULL /\ Op(t) \in {"send", "receive"}
    => ContainsElement(connections[Id(t)], match[t])

HasMessage(t) == pc[t] # "call" /\ Op(t) = "send" => data[t] \in Messages

RendezvousInv == \A t \in Threads : StillConnected(t) /\ HasMessage(t)

\* What a step does to the data of the threads.
LEMMA DataFrame ==
  ASSUME TypeInv, NEW t \in Threads, Step(t)
  PROVE  /\ \A u \in Threads \ {t} : data'[u] = data[u]
         /\ \/ data' = data
            \/ Start(t) \/ Leave(t) \/ SendUnparks(t) \/ ReceiveTransfer(t) \/ Copy(t)
<1>1. data \in [Threads -> Messages \cup {Junk}]
  BY DEF TypeInv, TypeOK
<1>2. CASE Start(t) \/ Leave(t) \/ SendUnparks(t) \/ ReceiveTransfer(t) \/ Copy(t)
  BY <1>1, <1>2 DEF Start, Leave, SendUnparks, ReceiveTransfer, Copy, DataReleased, Copied
<1>3. CASE LockIn(t) \/ LockOut(t) \/ Fault(t)
  BY <1>3 DEF LockIn, LockOut, Fault
<1>4. CASE channel_scan(t) /\ ~Leave(t)
  BY <1>4 DEF channel_scan, Enter, Arm, Count, ScanNext, ScanEnds, Test,
              LeaveAndPark, ParkBlocks
<1>5. CASE SendTransfer(t) \/ AwaitReceived(t) \/ ReceiveUnparks(t) \/ Acknowledge(t)
  BY <1>5 DEF SendTransfer, AwaitReceived, ReceiveUnparks, Acknowledge
<1>6. CASE channel_bind(t)
  BY <1>6 DEF channel_bind, BindRefused, BindStarts, BindAgain, InsertLink
<1>7. CASE channel_unbind(t)
  BY <1>7 DEF channel_unbind, UnbindStarts, UnbindNext, TakeIn, TakeOut,
              TakeConnsSem, RemoveLink, UnbindEnds
<1> QED
  BY <1>2, <1>3, <1>4, <1>5, <1>6, <1>7 DEF Step, channel_send, channel_receive

LEMMA RendezvousInvStep ==
  ASSUME TypeInv, SymmetryInv, RendezvousInv, NeverUnbinds,
         NEW t \in Threads, Step(t), NEW u \in Threads
  PROVE  StillConnected(u)' /\ HasMessage(u)'
<1>1. /\ data \in [Threads -> Messages \cup {Junk}] /\ match[u] \in Channels \cup {NULL}
      /\ pc \in [Threads -> Steps] /\ ip \in [Threads -> Nat \ {0}]
      /\ match \in [Threads -> Channels \cup {NULL}]
      /\ connections \in [Channels -> ListsOver(Channels)]
      /\ StillConnected(u) /\ HasMessage(u)
  BY DEF TypeInv, TypeOK, RendezvousInv
<1>2. pc[u] # "call" => Id(u) \in Channels
  BY CallIsCall DEF TypeInv, TypeOK, ThreadOK
<1>3. match[u] # NULL => Id(u) \in Channels
  BY <1>2 DEF SymmetryInv, Counterpart
<1>4. CASE u # t
  <2>1. /\ pc'[u] = pc[u] /\ match'[u] = match[u] /\ data'[u] = data[u]
        /\ Id(u)' = Id(u) /\ Op(u)' = Op(u)
    BY <1>4, OtherCalls, SameCall, DataFrame
  <2> QED BY <1>1, <1>3, <2>1, NothingRemoved DEF StillConnected, HasMessage
<1>5. CASE u = t
  <2>1. StillConnected(t)'
    <3>1. CASE ScanNext(t)
      <4>1. /\ Id(t)' = Id(t) /\ Id(t) \in Channels
            /\ match'[t] = connections[Id(t)].next
        BY <1>1, <1>2, <1>5, <3>1, SameCall DEF ScanNext
      <4>2. match'[t] # NULL
              => match'[t] \in Channels /\ ContainsElement(connections[Id(t)], match'[t])
        BY <1>1, <4>1 DEF TypeInv, ListsOver, ListOK
      <4> QED BY <4>1, <4>2, NothingRemoved DEF StillConnected
    <3>2. CASE BindStarts(t) \/ UnbindNext(t)
      <4>1. Op(t)' = Op(t) /\ Op(t) \in {"bind", "unbind"}
        BY <3>2, SameCall DEF BindStarts, UnbindNext, TypeInv, ThreadOK
      <4> QED BY <4>1 DEF StillConnected
    <3>3. CASE match'[t] = NULL
      BY <3>3 DEF StillConnected
    <3>4. CASE match'[t] = match[t] /\ ip'[t] = ip[t]
      BY <1>1, <1>3, <1>5, <3>4, SameCall, NothingRemoved DEF StillConnected
    <3> QED BY <3>1, <3>2, <3>3, <3>4, MatchStep
  <2>2. HasMessage(t)'
    <3>1. CASE Start(t)
      BY <1>1, <3>1, SameCall DEF Start, HasMessage
    <3>2. CASE Leave(t) \/ SendUnparks(t)
      BY <3>2, ReturnTypes DEF Leave, SendUnparks, HasMessage
    <3>3. CASE ReceiveTransfer(t) \/ Copy(t)
      <4>1. Op(t)' = Op(t) /\ Op(t) = "receive"
        BY <3>3, SameCall DEF ReceiveTransfer, Copy, TypeInv, ThreadOK
      <4> QED BY <4>1 DEF HasMessage
    <3>4. CASE data' = data /\ ~Start(t)
      <4>1. pc[t] # "call"
        BY <3>4 DEF Step, LockIn, LockOut, Fault, channel_scan, Enter, Arm, Count,
             ScanNext, ScanEnds, Test, Leave, LeaveAndPark, ParkBlocks, channel_send,
             SendTransfer, AwaitReceived, SendUnparks, channel_receive,
             ReceiveTransfer, ReceiveUnparks, Copy, Acknowledge, channel_bind,
             BindRefused, BindStarts, BindAgain, InsertLink, channel_unbind,
             UnbindStarts, UnbindNext, TakeIn, TakeOut, RemoveLink, UnbindEnds
      <4> QED BY <1>1, <1>5, <3>4, <4>1, SameCallOrNone DEF HasMessage
    <3> QED BY <3>1, <3>2, <3>3, <3>4, DataFrame
  <2> QED BY <1>5, <2>1, <2>2
<1> QED BY <1>4, <1>5

-----------------------------------------------------------------------------
(***************************************************************************)
(* What a step of t leaves alone in the abstract state.                    *)
(***************************************************************************)
\* A channel whose owner is not sending or receiving on it is idle.
LEMMA IdleChannel ==
  /\ \A o : ~Busy(o) => OutState(o) = [phase |-> "idle", msg |-> Junk]
  /\ \A c : ~Busy(c) => InState(c) = [phase |-> "idle", msg |-> Junk]
BY DEF OutState, InState, Offered, Claimed

LEMMA OwnIdle ==
  ASSUME TypeInv, NEW t \in Threads, Step(t), NEW x \in Channels, Owner[x] = t,
         ~(Id(t) = x /\ Op(t) \in {"send", "receive"})
  PROVE  ~Busy(x) /\ ~Busy(x)'
BY SameCallOrNone DEF Busy, At

\* Who is busy with a channel of another component, and in which phase.
LEMMA OtherPhase ==
  ASSUME TypeInv, TokenInv, NEW t \in Threads, Step(t), NEW x \in Channels,
         Owner[x] # t, ready'[x] = ready[x]
  PROVE  /\ At(x)' = At(x) /\ Busy(x)' = Busy(x)
         /\ Offered(x)' = Offered(x) /\ Claimed(x)' = Claimed(x)
         /\ data'[Owner[x]] = data[Owner[x]]
<1>1. Owner[x] \in Threads \ {t}
  BY ChannelAssumption
<1>2. /\ pc'[Owner[x]] = pc[Owner[x]] /\ Id(Owner[x])' = Id(Owner[x])
      /\ Op(Owner[x])' = Op(Owner[x]) /\ Offering(Owner[x])' = Offering(Owner[x])
      /\ data'[Owner[x]] = data[Owner[x]]
  BY <1>1, OtherCalls, SameCall, OthersOffer, DataFrame
<1>3. At(x)' = At(x) /\ Busy(x)' = Busy(x)
  BY <1>2 DEF At, Busy
<1> QED BY <1>2, <1>3 DEF Offered, Claimed

LEMMA OtherOut ==
  ASSUME TypeInv, TokenInv, NEW t \in Threads, Step(t), NEW o \in Outs,
         Owner[o] # t, ready'[o] = ready[o]
  PROVE  OutState(o)' = OutState(o)
<1>1. o \in Channels
  BY DEF Channels
<1> QED BY <1>1, OtherPhase DEF OutState

\* A claimed receiver that has not copied yet points at a sender that waits.
LEMMA GivenBySender ==
  ASSUME WholeInv, NEW c \in Ins, Claimed(c), At(c) \notin {"acknowledge", "leave"}
  PROVE  buffer[c] \in Threads /\ Delivers(buffer[c], c)
<1> DEFINE u == Owner[c]
<1>1. c \in Channels /\ u \in Threads /\ c \notin Outs
  BY ChannelAssumption DEF Channels
<1>2. pc[u] # "call" /\ Id(u) = c /\ Op(u) \in {"send", "receive"}
  BY DEF Claimed, Busy, At
<1>3. Op(u) = "receive" /\ pc[u] \in Steps
  BY <1>1, <1>2, CallIsCall DEF WholeInv, TypeInv, TypeOK, ThreadOK
<1>4. CASE Offering(u)
  <2>1. ~ready[c]
    BY <1>4 DEF Claimed, Offered
  <2>2. Wakes(c)
    BY <1>1, <1>2, <1>4, <2>1 DEF WholeInv, TokenInv, OneToken, HasOneToken, Wakes
  <2> QED BY <2>2 DEF WholeInv, DataInv, HandOver
<1>5. CASE ~Offering(u)
  <2>1. pc[u] \in {"copy"}
    BY <1>1, <1>2, <1>3, <1>5
       DEF Claimed, At, Offering, Steps, WholeInv, TypeInv, ThreadOK
  <2>2. Takes(c)
    BY <1>2, <2>1 DEF Takes
  <2> QED BY <2>2 DEF WholeInv, DataInv, HandOver
<1> QED BY <1>4, <1>5

LEMMA OtherIn ==
  ASSUME WholeInv, NEW t \in Threads, Step(t), NEW c \in Ins,
         Owner[c] # t, ready'[c] = ready[c]
  PROVE  InState(c)' = InState(c)
<1>1. c \in Channels /\ c \notin Outs
  BY ChannelAssumption DEF Channels
<1>2. /\ At(c)' = At(c) /\ Busy(c)' = Busy(c)
      /\ Offered(c)' = Offered(c) /\ Claimed(c)' = Claimed(c)
      /\ data'[Owner[c]] = data[Owner[c]]
  BY <1>1, OtherPhase DEF WholeInv
<1>3. CASE ~Claimed(c)
  BY <1>2, <1>3 DEF InState
<1>4. CASE Claimed(c) /\ At(c) \in {"acknowledge", "leave"}
  BY <1>2, <1>4 DEF InState, Given
<1>5. CASE Claimed(c) /\ At(c) \notin {"acknowledge", "leave"}
  <2>1. buffer[c] \in Threads /\ Delivers(buffer[c], c)
    BY <1>5, GivenBySender
  <2>2. buffer'[c] = buffer[c]
    <3>1. buffer \in [Channels -> Threads \cup {NULL}]
      BY DEF WholeInv, TypeInv, TypeOK
    <3>2. CASE Arm(t) \/ ReceiveTransfer(t)
      <4>1. Owner[Id(t)] = t
        BY <3>2, OwnChannel DEF WholeInv, Arm, ReceiveTransfer
      <4> QED BY <1>1, <3>1, <3>2, <4>1 DEF Arm, ReceiveTransfer
    <3>3. CASE SendTransfer(t)
      <4>1. ready[match[t]] /\ match[t] \in Channels /\ ready \in [Channels -> BOOLEAN]
        BY <3>3 DEF SendTransfer, WholeInv, TypeInv, TypeOK, ThreadOK, Inside,
                    TokenInv, SeenReady
      <4>2. ~ready'[match[t]]
        BY <3>3, <4>1 DEF SendTransfer, Claim
      <4>3. match[t] # c
        BY <4>1, <4>2
      <4> QED BY <1>1, <3>1, <3>3, <4>3 DEF SendTransfer
    <3>4. CASE ParkBlocks(t) \/ SendUnparks(t) \/ ReceiveUnparks(t) \/ AwaitReceived(t)
               \/ Copy(t) \/ Acknowledge(t)
      BY <3>4 DEF ParkBlocks, SendUnparks, ReceiveUnparks, AwaitReceived, Copy,
                  Acknowledge, fields
    <3> QED BY <3>2, <3>3, <3>4, CalmStep DEF Moves, Loud, WholeInv
  <2>3. data'[buffer[c]] = data[buffer[c]]
    <3>1. CASE buffer[c] # t
      BY <2>1, <3>1, DataFrame DEF WholeInv
    <3>2. CASE buffer[c] = t
      <4>1. pc[t] = "awaitReceived"
        BY <2>1, <3>2 DEF Delivers
      <4> QED BY <4>1, DataFrame
                 DEF Start, Leave, SendUnparks, ReceiveTransfer, Copy, WholeInv
    <3> QED BY <3>1, <3>2
  <2>4. buffer[c] # NULL
    BY <2>1, ChannelAssumption
  <2> QED BY <1>2, <1>5, <2>2, <2>3, <2>4 DEF InState, Given
<1> QED BY <1>3, <1>4, <1>5

\* The abstract state of a channel in each phase, before a step and after it.
LEMMA StateOf ==
  ASSUME NEW x
  PROVE  /\ Offered(x) =>
              /\ OutState(x) = [phase |-> "offered", msg |-> data[Owner[x]]]
              /\ InState(x) = [phase |-> "waiting", msg |-> Junk]
         /\ Offered(x)' =>
              /\ OutState(x)' = [phase |-> "offered", msg |-> data'[Owner[x]]]
              /\ InState(x)' = [phase |-> "waiting", msg |-> Junk]
         /\ Claimed(x)' /\ ~Offered(x)' =>
              /\ OutState(x)' = [phase |-> "taken", msg |-> data'[Owner[x]]]
              /\ InState(x)' = [phase |-> "given", msg |-> Given(x)']
<1>1. ASSUME Offered(x)
      PROVE  OutState(x) = [phase |-> "offered", msg |-> data[Owner[x]]]
  <2>1. ~Claimed(x)
    BY <1>1 DEF Claimed
  <2> QED BY <1>1, <2>1 DEF OutState
<1>2. ASSUME Offered(x)
      PROVE  InState(x) = [phase |-> "waiting", msg |-> Junk]
  <2>1. ~Claimed(x)
    BY <1>2 DEF Claimed
  <2> QED BY <1>2, <2>1 DEF InState
<1>3. ASSUME Offered(x)'
      PROVE  OutState(x)' = [phase |-> "offered", msg |-> data'[Owner[x]]]
  <2>1. ~Claimed(x)'
    BY <1>3 DEF Claimed
  <2> QED BY <1>3, <2>1 DEF OutState
<1>4. ASSUME Offered(x)'
      PROVE  InState(x)' = [phase |-> "waiting", msg |-> Junk]
  <2>1. ~Claimed(x)'
    BY <1>4 DEF Claimed
  <2> QED BY <1>4, <2>1 DEF InState
<1>5. ASSUME Claimed(x)', ~Offered(x)'
      PROVE  OutState(x)' = [phase |-> "taken", msg |-> data'[Owner[x]]]
  BY <1>5 DEF OutState
<1>6. ASSUME Claimed(x)', ~Offered(x)'
      PROVE  InState(x)' = [phase |-> "given", msg |-> Given(x)']
  BY <1>6 DEF InState
<1> QED BY <1>1, <1>2, <1>3, <1>4, <1>5, <1>6

\* Where t neither sends nor receives, and nothing is claimed, nothing happens.
LEMMA Elsewhere ==
  ASSUME WholeInv, NEW t \in Threads, Step(t), NEW x \in Channels,
         x # Id(t) \/ Op(t) \notin {"send", "receive"}, ready'[x] = ready[x]
  PROVE  /\ x \in Outs => OutState(x)' = OutState(x)
         /\ x \in Ins => InState(x)' = InState(x)
<1>1. CASE Owner[x] # t
  BY <1>1, OtherOut, OtherIn DEF WholeInv
<1>2. CASE Owner[x] = t
  <2>1. ~Busy(x) /\ ~Busy(x)'
    BY <1>2, OwnIdle DEF WholeInv
  <2> QED BY <2>1 DEF OutState, InState, Offered, Claimed
<1> QED BY <1>1, <1>2

-----------------------------------------------------------------------------
(***************************************************************************)
(* The channel of a call, in the steps that are none of the abstract ones. *)
(***************************************************************************)
Working == {"count", "scan", "lockIn", "lockOut", "test", "transfer",
            "leaveAndPark", "park"}

Silent(t) ==
  \/ Start(t) \/ Enter(t) \/ Count(t) \/ ScanNext(t) \/ ScanEnds(t) \/ Test(t)
  \/ LeaveAndPark(t) \/ ParkBlocks(t) \/ LockIn(t) \/ LockOut(t)
  \/ AwaitReceived(t) \/ ReceiveUnparks(t) \/ Copy(t)

\* A receiver that parks and is woken was claimed.
LEMMA WokenIsClaimed ==
  ASSUME WholeInv, ~SpuriousWakeups, NEW t \in Threads,
         SendUnparks(t) \/ ReceiveUnparks(t), Owner[Id(t)] = t, Id(t) \in Channels
  PROVE  ~ready[Id(t)] /\ Offering(t) /\ Claimed(Id(t)) /\ ~Offered(Id(t))
<1>1. /\ pc[t] = "park" /\ MyMayTake(blocked[Id(t)], t) /\ Offering(t)
      /\ Op(t) \in {"send", "receive"}
  BY DEF SendUnparks, ReceiveUnparks, Offering
<1>2. ~ready[Id(t)]
  BY <1>1 DEF WholeInv, TokenInv, OneToken, HasOneToken, MyMayTake, WakesUp
<1> QED BY <1>1, <1>2 DEF Claimed, Offered, Busy, At

LEMMA SilentOwn ==
  ASSUME WholeInv, ~SpuriousWakeups, NEW t \in Threads, Step(t), Silent(t),
         Op(t) \in {"send", "receive"},
         NEW own \in Channels, own = Id(t), Owner[own] = t
  PROVE  /\ own \in Outs => OutState(own)' = OutState(own)
         /\ own \in Ins => InState(own)' = InState(own)
<1>1. /\ pc \in [Threads -> Steps] /\ ready \in [Channels -> BOOLEAN]
      /\ buffer \in [Channels -> Threads \cup {NULL}]
      /\ data \in [Threads -> Messages \cup {Junk}]
  BY DEF WholeInv, TypeInv, TypeOK
<1>2. ready' = ready /\ ip' = ip /\ buffer' = buffer
  BY DEF Silent, Start, Enter, Count, ScanNext, ScanEnds, Test, LeaveAndPark,
         ParkBlocks, LockIn, LockOut, AwaitReceived, ReceiveUnparks, Copy, fields
<1>3. Id(t)' = own /\ Op(t)' = Op(t)
  BY <1>2, SameCall
<1>4. CASE Start(t) \/ Enter(t)
  <2>1. pc[t] \in {"call", "enter"} /\ pc'[t] \in {"enter", "arm"}
    BY <1>1, <1>4 DEF Start, Enter, FirstStep
  <2>2. ~Offered(own) /\ ~Claimed(own) /\ ~Offered(own)' /\ ~Claimed(own)'
    BY <1>3, <2>1 DEF Offered, Claimed, Busy, At, Offering
  <2> QED BY <1>2, <1>3, <2>2 DEF OutState, InState
<1>5. CASE \/ Count(t) \/ ScanNext(t) \/ ScanEnds(t) \/ Test(t) \/ LeaveAndPark(t)
           \/ ParkBlocks(t) \/ LockIn(t) \/ LockOut(t)
  <2>1. pc[t] \in Working /\ pc'[t] \in Working
    BY <1>1, <1>5 DEF Count, ScanNext, ScanEnds, Test, LeaveAndPark, ParkBlocks,
                      LockIn, LockOut, AfterLocks, Working
  <2>2. data' = data
    BY <1>5 DEF Count, ScanNext, ScanEnds, Test, LeaveAndPark, ParkBlocks, LockIn, LockOut
  <2>3. Busy(own) /\ Busy(own)' /\ Offering(t) /\ Offering(t)'
    BY <1>3, <2>1 DEF Busy, At, Offering, Working
  <2>4. Offered(own)' = Offered(own) /\ Claimed(own)' = Claimed(own)
    BY <1>2, <1>3, <2>1, <2>3 DEF Offered, Claimed, At, Working
  <2>5. Given(own)' = Given(own)
    BY <1>2, <1>3, <2>1, <2>2 DEF Given, At, Working
  <2> QED BY <1>2, <1>3, <2>2, <2>4, <2>5 DEF OutState, InState
<1>6. CASE AwaitReceived(t)
  <2>1. pc[t] = "awaitReceived" /\ pc'[t] \in {"awaitReceived", "leave"} /\ data' = data
    BY <1>1, <1>6 DEF AwaitReceived
  <2>2. own \notin Ins
    BY <2>1, CallIsCall, ChannelAssumption DEF WholeInv, TypeInv, TypeOK, ThreadOK
  <2>3. Claimed(own) /\ Claimed(own)' /\ ~Offered(own) /\ ~Offered(own)'
    BY <1>3, <2>1 DEF Offered, Claimed, Busy, At, Offering
  <2> QED BY <1>2, <1>3, <2>1, <2>2, <2>3 DEF OutState
<1>7. CASE ReceiveUnparks(t) \/ Copy(t)
  <2>1. /\ pc[t] \in {"park", "copy"} /\ pc'[t] \in {"copy", "acknowledge"}
        /\ Op(t) = "receive" /\ own \notin Outs
    BY <1>1, <1>7, CallIsCall, ChannelAssumption
       DEF ReceiveUnparks, Copy, WholeInv, TypeInv, TypeOK, ThreadOK
  <2>2. Claimed(own) /\ ~Offered(own)
    <3>1. CASE ReceiveUnparks(t)
      BY <3>1, WokenIsClaimed
    <3>2. CASE Copy(t)
      BY <3>2 DEF Copy, Offered, Claimed, Busy, At, Offering
    <3> QED BY <1>7, <3>1, <3>2
  <2>3. Claimed(own)' /\ ~Offered(own)'
    BY <1>3, <2>1 DEF Offered, Claimed, Busy, At, Offering
  <2>4. Given(own)' = Given(own)
    <3>1. CASE ReceiveUnparks(t)
      <4>1. data' = data /\ pc[t] = "park" /\ pc'[t] = "copy"
        BY <1>1, <3>1 DEF ReceiveUnparks
      <4> QED BY <1>2, <1>3, <4>1 DEF Given, At
    <3>2. CASE Copy(t)
      <4>1. pc[t] = "copy" /\ pc'[t] = "acknowledge"
        BY <1>1, <3>2 DEF Copy
      <4>2. data'[t] = IF buffer[own] = NULL THEN Junk ELSE data[buffer[own]]
        BY <1>1, <3>2 DEF Copy, Copied
      <4> QED BY <1>3, <4>1, <4>2 DEF Given, At
    <3> QED BY <1>7, <3>1, <3>2
  <2> QED BY <1>3, <2>1, <2>2, <2>3, <2>4 DEF InState
<1> QED BY <1>4, <1>5, <1>6, <1>7 DEF Silent

-----------------------------------------------------------------------------
(***************************************************************************)
(* The abstract steps.                                                     *)
(***************************************************************************)
OutUnless(x) == \A o \in Outs : o # x => OutState(o)' = OutState(o)
InUnless(x) == \A c \in Ins : c # x => InState(c)' = InState(c)

\* The steps that end a call.
Ends(t) == Leave(t) \/ SendUnparks(t) \/ Acknowledge(t)

\* A call that ends had met its counterpart, and its channel becomes idle.
LEMMA EndsOwn ==
  ASSUME WholeInv, ~SpuriousWakeups, NEW t \in Threads, Step(t), Ends(t)
  PROVE  \E own \in Channels :
           /\ own = Id(t)
           /\ ready' = ready /\ connections' = connections
           /\ OutState(own)' = [phase |-> "idle", msg |-> Junk]
           /\ InState(own)' = [phase |-> "idle", msg |-> Junk]
           /\ OutState(own).phase = "taken"
           /\ InState(own).phase = "given"
<1>1. /\ pc[t] \in {"leave", "park", "acknowledge"} /\ pc'[t] = "call"
      /\ ready' = ready /\ connections' = connections
  BY ReturnTypes DEF Ends, Leave, SendUnparks, Acknowledge, fields, WholeInv
<1>2. /\ Id(t) \in Channels /\ Op(t) \in {"send", "receive"} /\ Owner[Id(t)] = t
  BY <1>1, CallIsCall DEF WholeInv, TypeInv, TypeOK, ThreadOK
<1>3. Claimed(Id(t)) /\ ~Offered(Id(t))
  <2>1. CASE SendUnparks(t)
    BY <1>2, <2>1, WokenIsClaimed
  <2>2. CASE Leave(t) \/ Acknowledge(t)
    BY <1>2, <2>2 DEF Leave, Acknowledge, Claimed, Offered, Busy, At, Offering
  <2> QED BY <2>1, <2>2 DEF Ends
<1>4. ASSUME NEW own \in Channels, own = Id(t)
      PROVE  /\ OutState(own)' = [phase |-> "idle", msg |-> Junk]
             /\ InState(own)' = [phase |-> "idle", msg |-> Junk]
             /\ OutState(own).phase = "taken"
             /\ InState(own).phase = "given"
  <2>1. ~Offered(own)' /\ ~Claimed(own)'
    BY <1>1, <1>2, <1>4 DEF Offered, Claimed, Busy, At
  <2> QED BY <1>3, <1>4, <2>1 DEF OutState, InState
<1> QED BY <1>1, <1>2, <1>4

\* A thread that makes its channel ready has not offered it before.
LEMMA ArmOwn ==
  ASSUME WholeInv, RendezvousInv, NEW t \in Threads, Step(t), Arm(t)
  PROVE  \E own \in Channels :
           /\ own = Id(t)
           /\ connections' = connections
           /\ \A x \in Channels : x # own => ready'[x] = ready[x]
           /\ OutState(own).phase = "idle" /\ InState(own).phase = "idle"
           /\ own \in Outs => data[t] \in Messages
           /\ OutState(own)' = [phase |-> "offered", msg |-> data[t]]
           /\ InState(own)' = [phase |-> "waiting", msg |-> Junk]
<1>1. /\ pc[t] = "arm" /\ pc'[t] = "count" /\ data' = data /\ connections' = connections
      /\ ready \in [Channels -> BOOLEAN] /\ ready' = [ready EXCEPT ![Id(t)] = TRUE]
      /\ Id(t)' = Id(t) /\ Op(t)' = Op(t)
  BY SameCall DEF Arm, WholeInv, TypeInv, TypeOK
<1>2. /\ Id(t) \in Channels /\ Op(t) \in {"send", "receive"} /\ Owner[Id(t)] = t
      /\ Id(t) \in Outs => Op(t) = "send"
  BY <1>1, CallIsCall, ChannelAssumption DEF WholeInv, TypeInv, TypeOK, ThreadOK
<1>3. ASSUME NEW own \in Channels, own = Id(t)
      PROVE  /\ \A x \in Channels : x # own => ready'[x] = ready[x]
             /\ OutState(own).phase = "idle" /\ InState(own).phase = "idle"
             /\ own \in Outs => data[t] \in Messages
             /\ OutState(own)' = [phase |-> "offered", msg |-> data[t]]
             /\ InState(own)' = [phase |-> "waiting", msg |-> Junk]
  <2>1. ~Offered(own) /\ ~Claimed(own)
    BY <1>1, <1>2, <1>3 DEF Offered, Claimed, Busy, At, Offering
  <2>2. Offered(own)'
    BY <1>1, <1>2, <1>3 DEF Offered, Busy, At, Offering
  <2>3. own \in Outs => data[t] \in Messages
    BY <1>1, <1>2, <1>3 DEF RendezvousInv, HasMessage
  <2>4. OutState(own).phase = "idle" /\ InState(own).phase = "idle"
    BY <2>1 DEF OutState, InState
  <2>5. /\ OutState(own)' = [phase |-> "offered", msg |-> data[t]]
        /\ InState(own)' = [phase |-> "waiting", msg |-> Junk]
    <3>1. Owner[own] = t /\ data'[t] = data[t]
      BY <1>1, <1>2, <1>3
    <3> QED BY <2>2, <3>1, StateOf
  <2> QED BY <1>1, <1>2, <1>3, <2>3, <2>4, <2>5
<1> QED BY <1>1, <1>2, <1>3

(***************************************************************************)
(* The claim.  Both channels are ready, so both are on offer; afterwards   *)
(* neither is, and the two calls are past their meeting.                   *)
(***************************************************************************)
LEMMA ClaimEnds ==
  ASSUME WholeInv, RendezvousInv, ~Faulted, NEW t \in Threads, Step(t),
         SendTransfer(t) \/ ReceiveTransfer(t)
  PROVE  \E own, other \in Channels :
           /\ own = Id(t) /\ other = match[t] /\ own # other /\ Owner[own] = t
           /\ Owner[other] \in Threads /\ Owner[other] # t
           /\ Op(t) = "send" => own \in Outs /\ other \in Ins
           /\ Op(t) = "receive" => own \in Ins /\ other \in Outs
           /\ connections' = connections
           /\ ContainsElement(connections[own], other)
           /\ ContainsElement(connections[other], own)
           /\ \A x \in Channels : x # own /\ x # other => ready'[x] = ready[x]
           /\ Offered(own) /\ Offered(other)
           /\ ~Offered(own)' /\ ~Offered(other)'
           /\ Claimed(own)' /\ Claimed(other)'
           /\ At(other) \notin {"acknowledge", "leave"} /\ At(other)' = At(other)
           /\ Op(Owner[other]) = IF other \in Ins THEN "receive" ELSE "send"
<1> DEFINE own == Id(t)
           other == match[t]
<1>1. /\ pc[t] = "transfer" /\ pc'[t] \in {"awaitReceived", "leave"} /\ Claim(t)
      /\ Op(t) \in {"send", "receive"} /\ connections' = connections
      /\ ready \in [Channels -> BOOLEAN]
      /\ Id(t)' = own /\ Op(t)' = Op(t)
  BY SameCall DEF SendTransfer, ReceiveTransfer, WholeInv, TypeInv, TypeOK
<1>2. /\ other \in Channels /\ other # NULL /\ ready[own] /\ ready[other]
  BY <1>1, ChannelAssumption
     DEF WholeInv, TypeInv, ThreadOK, Inside, TokenInv, SeenReady
<1>3. /\ own \in Channels /\ Connected(own, other) /\ Owner[own] = t
      /\ Op(t) = "send" => own \in Outs /\ other \in Ins
      /\ Op(t) = "receive" => own \in Ins /\ other \in Outs
  BY <1>1, <1>2, TwoEnds DEF WholeInv
<1>4. own # other
  BY <1>3, ConnectedOpposite
<1>5. Offering(Owner[other]) /\ Id(Owner[other]) = other /\ Owner[other] \in Threads
  BY <1>2, ChannelAssumption DEF WholeInv, TokenInv, OneToken, HasOneToken
<1>6. Owner[other] # t
  BY <1>4, <1>5
<1>7. /\ Op(Owner[other]) \in {"send", "receive"}
      /\ Op(Owner[other]) = IF other \in Ins THEN "receive" ELSE "send"
      /\ pc[Owner[other]] \notin {"call", "enter", "arm", "acknowledge", "leave", "fault"}
  <2>1. Op(Owner[other]) \in {"send", "receive"}
    BY <1>5, OwnChannel DEF WholeInv
  <2>2. pc[Owner[other]] \notin {"call", "enter", "arm", "acknowledge", "leave", "fault"}
    BY <1>5 DEF Offering, Faulted
  <2>3. /\ Op(Owner[other]) = "send" => other \in Outs
        /\ Op(Owner[other]) = "receive" => other \in Ins
    BY <1>5, <2>2, CallIsCall DEF WholeInv, TypeInv, TypeOK, ThreadOK
  <2> QED BY <2>1, <2>2, <2>3, ChannelAssumption
<1>8. /\ ContainsElement(connections[own], other)
      /\ ContainsElement(connections[other], own)
  BY <1>1, <1>2, <1>3 DEF RendezvousInv, StillConnected, WholeInv, SymmetryInv,
                          ListsAgree, Symmetric
<1>9. /\ ~ready'[own] /\ ~ready'[other]
      /\ \A x \in Channels : x # own /\ x # other => ready'[x] = ready[x]
  BY <1>1, <1>2, <1>3 DEF Claim
<1>10. ASSUME NEW u \in Threads, u = Owner[other]
       PROVE  pc'[u] = pc[u] /\ Id(u)' = Id(u) /\ Op(u)' = Op(u)
  BY <1>6, <1>10, OtherCalls, SameCall DEF WholeInv
<1>11. ASSUME NEW o \in Channels, NEW c \in Channels, o = own, c = other
       PROVE  /\ Offered(o) /\ Offered(c) /\ ~Offered(o)' /\ ~Offered(c)'
              /\ Claimed(o)' /\ Claimed(c)'
              /\ At(c) \notin {"acknowledge", "leave"} /\ At(c)' = At(c)
  <2>1. Offered(o) /\ Offered(c)
    BY <1>1, <1>2, <1>3, <1>5, <1>7, <1>11 DEF Offered, Busy, At, Offering
  <2>2. ~Offered(o)' /\ ~Offered(c)'
    BY <1>9, <1>11 DEF Offered
  <2>3. Claimed(o)'
    BY <1>1, <1>3, <1>11, <2>2 DEF Claimed, Busy, At
  <2>4. Claimed(c)'
    <3>1. PICK u \in Threads : u = Owner[c]
      BY <1>5, <1>11
    <3>2. /\ pc'[u] = pc[u] /\ Id(u)' = c /\ Op(u)' \in {"send", "receive"}
          /\ pc[u] \notin {"call", "enter", "arm", "fault"}
      BY <1>5, <1>7, <1>10, <1>11, <3>1
    <3> QED BY <2>2, <3>1, <3>2 DEF Claimed, Busy, At
  <2>5. At(c) \notin {"acknowledge", "leave"} /\ At(c)' = At(c)
    BY <1>5, <1>7, <1>10, <1>11 DEF At
  <2> QED BY <2>1, <2>2, <2>3, <2>4, <2>5
<1> QED BY <1>1, <1>2, <1>3, <1>4, <1>5, <1>6, <1>7, <1>8, <1>9, <1>11

\* The claim is the meeting.
LEMMA ClaimMeets ==
  ASSUME WholeInv, RendezvousInv, ~Faulted, NEW t \in Threads, Step(t),
         SendTransfer(t) \/ ReceiveTransfer(t)
  PROVE  \E o \in Outs, c \in Ins :
           /\ connections' = connections
           /\ ContainsElement(connections[o], c)
           /\ OutState(o) = [phase |-> "offered", msg |-> data[Owner[o]]]
           /\ InState(c).phase = "waiting"
           /\ OutState(o)' = [phase |-> "taken", msg |-> data[Owner[o]]]
           /\ InState(c)' = [phase |-> "given", msg |-> data[Owner[o]]]
           /\ OutUnless(o) /\ InUnless(c)
<1>1. PICK own \in Channels, other \in Channels :
         /\ own = Id(t) /\ other = match[t] /\ own # other /\ Owner[own] = t
         /\ Owner[other] \in Threads /\ Owner[other] # t
         /\ Op(t) = "send" => own \in Outs /\ other \in Ins
         /\ Op(t) = "receive" => own \in Ins /\ other \in Outs
         /\ connections' = connections
         /\ ContainsElement(connections[own], other)
         /\ ContainsElement(connections[other], own)
         /\ \A x \in Channels : x # own /\ x # other => ready'[x] = ready[x]
         /\ Offered(own) /\ Offered(other)
         /\ ~Offered(own)' /\ ~Offered(other)'
         /\ Claimed(own)' /\ Claimed(other)'
         /\ At(other) \notin {"acknowledge", "leave"} /\ At(other)' = At(other)
         /\ Op(Owner[other]) = IF other \in Ins THEN "receive" ELSE "send"
  BY ClaimEnds
<1>2. /\ OutState(own) = [phase |-> "offered", msg |-> data[Owner[own]]]
      /\ OutState(other) = [phase |-> "offered", msg |-> data[Owner[other]]]
      /\ InState(own).phase = "waiting" /\ InState(other).phase = "waiting"
      /\ OutState(own)' = [phase |-> "taken", msg |-> data'[Owner[own]]]
      /\ OutState(other)' = [phase |-> "taken", msg |-> data'[Owner[other]]]
      /\ InState(own)' = [phase |-> "given", msg |-> Given(own)']
      /\ InState(other)' = [phase |-> "given", msg |-> Given(other)']
  BY <1>1, StateOf
<1>3. \A x \in Channels : x # own /\ x # other
        => /\ x \in Outs => OutState(x)' = OutState(x)
           /\ x \in Ins => InState(x)' = InState(x)
  BY <1>1, Elsewhere
<1>4. /\ data \in [Threads -> Messages \cup {Junk}]
      /\ buffer \in [Channels -> Threads \cup {NULL}] /\ pc \in [Threads -> Steps]
      /\ \A x \in Channels : x \in Ins => x \notin Outs
      /\ Outs \subseteq Channels /\ Ins \subseteq Channels
  BY ChannelAssumption DEF WholeInv, TypeInv, TypeOK, Channels
<1>5. CASE SendTransfer(t)
  <2>1. own \in Outs /\ other \in Ins /\ own \notin Ins /\ other \notin Outs
    BY <1>1, <1>4, <1>5 DEF SendTransfer
  <2>2. data' = data /\ buffer' = [buffer EXCEPT ![other] = buffer[own]]
    BY <1>1, <1>5 DEF SendTransfer
  <2>3. buffer[own] = t
    BY <1>1, <1>5 DEF SendTransfer, WholeInv, DataInv, Lends
  <2>4. buffer'[other] = t /\ t # NULL
    BY <1>4, <2>2, <2>3, ChannelAssumption
  <2>5. Given(other)' = data[t]
    BY <1>1, <2>2, <2>4 DEF Given
  <2>6. OutUnless(own) /\ InUnless(other)
    BY <1>3, <1>4, <2>1 DEF OutUnless, InUnless
  <2> QED BY <1>1, <1>2, <2>1, <2>2, <2>5, <2>6
<1>6. CASE ReceiveTransfer(t)
  <2>1. own \in Ins /\ other \in Outs /\ own \notin Outs /\ other \notin Ins
    BY <1>1, <1>4, <1>6 DEF ReceiveTransfer
  <2>2. data'[Owner[other]] = data[Owner[other]]
    BY <1>1, DataFrame DEF WholeInv
  <2>3. buffer[other] = Owner[other]
    <3>1. Offering(Owner[other]) /\ Id(Owner[other]) = other /\ Op(Owner[other]) = "send"
      BY <1>1, <2>1 DEF Offered, Busy
    <3>2. pc[Owner[other]] \notin {"call", "enter", "arm", "leave"}
      BY <3>1 DEF Offering
    <3> QED BY <1>1, <3>1, <3>2 DEF WholeInv, DataInv, Lends
  <2>4. data'[t] = data[Owner[other]] /\ pc'[t] = "leave"
    BY <1>1, <1>4, <1>6, <2>3, ChannelAssumption DEF ReceiveTransfer, Copied
  <2>5. Given(own)' = data[Owner[other]]
    BY <1>1, <2>4 DEF Given, At
  <2>6. OutUnless(other) /\ InUnless(own)
    BY <1>3, <1>4, <2>1 DEF OutUnless, InUnless
  <2> QED BY <1>1, <1>2, <2>1, <2>2, <2>5, <2>6
<1> QED BY <1>5, <1>6

-----------------------------------------------------------------------------
(***************************************************************************)
(* Every step of a thread is a step of the rendezvous, or none.            *)
(***************************************************************************)
\* The links change when a connection is made, and then by that one.
LEMMA LinksStep ==
  ASSUME WholeInv, NeverUnbinds, NEW t \in Threads, Step(t)
  PROVE  /\ ~InsertLink(t) => Links' = Links
         /\ InsertLink(t) => \E o \in Outs, c \in Ins : Links' = Links \cup {<<o, c>>}
<1>1. Outs \subseteq Channels /\ Ins \subseteq Channels
  BY DEF Channels
<1>2. CASE ~InsertLink(t)
  <2>1. \A c \in Channels : connections'[c].elements = connections[c].elements
    BY <1>2, NothingRemoved, ElementsKept DEF WholeInv
  <2> QED BY <1>1, <1>2, <2>1 DEF Links, ContainsElement
<1>3. CASE InsertLink(t)
  <2> DEFINE own == Id(t)
             other == match[t]
  <2>1. /\ own \in Channels /\ other \in Channels
        /\ connections \in [Channels -> ListsOver(Channels)]
        /\ \A a \in Channels : Distinct(connections[a])
    BY <1>3, CallIsCall
       DEF InsertLink, WholeInv, TypeInv, TypeOK, ThreadOK, Inside, SymmetryInv, ListsAgree
  <2>2. /\ Connected(own, other) /\ own # other /\ (own \in Ins) # (other \in Ins)
        /\ ~ContainsElement(connections[own], other)
        /\ ~ContainsElement(connections[other], own)
    BY <1>3, <2>1, ConnectedOpposite, ChannelAssumption
       DEF InsertLink, WholeInv, SymmetryInv, Counterpart, ListsAgree, Symmetric
  <2>3. /\ connections'[own] = InsertElement(connections[own], other)
        /\ connections'[other] = InsertElement(connections[other], own)
        /\ \A a \in Channels : a # own /\ a # other => connections'[a] = connections[a]
    BY <1>3, <2>1, <2>2 DEF InsertLink
  <2>4. /\ connections[own] \in ListsOver(Channels)
        /\ connections[other] \in ListsOver(Channels)
    BY <2>1
  <2>5. /\ \A b : ContainsElement(connections'[own], b)
                    <=> b = other \/ ContainsElement(connections[own], b)
        /\ \A b : ContainsElement(connections'[other], b)
                    <=> b = own \/ ContainsElement(connections[other], b)
    BY <2>1, <2>2, <2>3, <2>4, InsertElements
  <2>6. PICK o \in Outs, c \in Ins : {o, c} = {own, other}
    BY <2>1, <2>2, ChannelAssumption DEF Channels
  <2>7. \A x \in Outs, y \in Ins :
          ContainsElement(connections'[x], y)
            <=> ContainsElement(connections[x], y) \/ (x = o /\ y = c)
    BY <1>1, <2>2, <2>3, <2>5, <2>6, ChannelAssumption
  <2>8. Links' = Links \cup {<<o, c>>}
    BY <2>7 DEF Links
  <2> QED BY <1>3, <2>8
<1> QED BY <1>2, <1>3

\* The steps that make or break connections concern no send and no receive.
LEMMA OthersOutside ==
  ASSUME WholeInv, NEW t \in Threads, Step(t),
         Fault(t) \/ channel_bind(t) \/ channel_unbind(t)
         \/ (Silent(t) /\ Op(t) \notin {"send", "receive"}),
         ~(Fault(t) /\ Op(t) \in {"send", "receive"})
  PROVE  OutUnless(NULL) /\ InUnless(NULL)
<1>1. Op(t) \notin {"send", "receive"} /\ ready' = ready
  BY DEF Fault, channel_bind, channel_unbind, BindRefused, BindStarts, BindAgain,
         InsertLink, UnbindStarts, UnbindNext, TakeIn, TakeOut, TakeConnsSem,
         RemoveLink, UnbindEnds, Silent, Start, Enter, Count, ScanNext, ScanEnds,
         Test, LeaveAndPark, ParkBlocks, LockIn, LockOut, AwaitReceived,
         ReceiveUnparks, Copy, fields, WholeInv, TypeInv, ThreadOK
<1>2. Outs \subseteq Channels /\ Ins \subseteq Channels
  BY DEF Channels
<1> QED BY <1>1, <1>2, Elsewhere DEF OutUnless, InUnless

\* A call that meets a fault leaves its channel as it is, or ends.
LEMMA FaultOwn ==
  ASSUME WholeInv, NEW t \in Threads, Step(t), Fault(t), Op(t) \in {"send", "receive"},
         NEW own \in Channels, own = Id(t), Owner[own] = t
  PROVE  \/ OutState(own)' = OutState(own) /\ InState(own)' = InState(own)
         \/ /\ OutState(own).phase = "taken" /\ InState(own).phase = "given"
            /\ OutState(own)' = [phase |-> "idle", msg |-> Junk]
            /\ InState(own)' = [phase |-> "idle", msg |-> Junk]
<1>1. /\ pc[t] \in {"lockIn", "lockOut"} /\ pc'[t] = "fault" /\ ready' = ready
      /\ data' = data /\ Id(t)' = own /\ Op(t)' = Op(t)
  BY SameCall DEF Fault, fields, WholeInv, TypeInv, TypeOK
<1>2. Busy(own) /\ Busy(own)' /\ Offering(t) /\ Offering(t)'
  BY <1>1 DEF Busy, At, Offering
<1>3. CASE ready[own]
  <2>1. Offered(own) /\ Offered(own)'
    BY <1>1, <1>2, <1>3 DEF Offered
  <2>2. data'[Owner[own]] = data[Owner[own]]
    BY <1>1
  <2> QED BY <2>1, <2>2, StateOf
<1>4. CASE ~ready[own]
  <2>1. Claimed(own) /\ ~Offered(own) /\ ~Claimed(own)' /\ ~Offered(own)'
    BY <1>1, <1>2, <1>4 DEF Offered, Claimed, At
  <2> QED BY <2>1 DEF OutState, InState
<1> QED BY <1>3, <1>4

\* The abstract variables, and the steps that only concern one channel.
Out == [o \in Outs |-> OutState(o)]
In == [c \in Ins |-> InState(c)]

LEMMA OutInSame ==
  /\ OutUnless(NULL) /\ NULL \notin Outs => Out' = Out
  /\ InUnless(NULL) /\ NULL \notin Ins => In' = In
BY DEF Out, In, OutUnless, InUnless

\* Two steps of the rendezvous that end a call.
LEMMA EndMaps ==
  ASSUME WholeInv, NEW t \in Threads, NEW own \in Channels,
         OutState(own).phase = "taken", InState(own).phase = "given",
         OutState(own)' = [phase |-> "idle", msg |-> Junk],
         InState(own)' = [phase |-> "idle", msg |-> Junk],
         OutUnless(own), InUnless(own), Links' = Links
  PROVE  Abstract!RendezvousNext
<1>1. own \in Outs \/ own \in Ins
  BY DEF Channels
<1>2. CASE own \in Outs
  <2>1. own \notin Ins
    BY <1>2, ChannelAssumption
  <2>2. In' = In
    BY <2>1 DEF In, InUnless
  <2>3. Out' = [Out EXCEPT ![own] = [phase |-> "idle", msg |-> Junk]]
    BY <1>2 DEF Out, OutUnless
  <2>4. Abstract!SendReturns(own)
    BY <1>2, <2>2, <2>3 DEF Abstract!SendReturns, Abstract!Idle, Out, In
  <2> QED BY <1>2, <2>4 DEF Abstract!RendezvousNext
<1>3. CASE own \in Ins
  <2>1. own \notin Outs
    BY <1>3, ChannelAssumption
  <2>2. Out' = Out
    BY <2>1 DEF Out, OutUnless
  <2>3. In' = [In EXCEPT ![own] = [phase |-> "idle", msg |-> Junk]]
    BY <1>3 DEF In, InUnless
  <2>4. Abstract!ReceiveReturns(own)
    BY <1>3, <2>2, <2>3 DEF Abstract!ReceiveReturns, Abstract!Idle, Out, In
  <2> QED BY <1>3, <2>4 DEF Abstract!RendezvousNext
<1> QED BY <1>1, <1>2, <1>3

LEMMA StepImplements ==
  ASSUME WholeInv, RendezvousInv, NeverUnbinds, ~SpuriousWakeups, ~Faulted,
         NEW t \in Threads, Step(t)
  PROVE  Abstract!RendezvousNext \/ UNCHANGED <<Links, Out, In>>
<1>0. NULL \notin Channels /\ Outs \subseteq Channels /\ Ins \subseteq Channels
  BY ChannelAssumption DEF Channels
<1>1. CASE SendTransfer(t) \/ ReceiveTransfer(t)
  <2>1. PICK o \in Outs, c \in Ins :
           /\ connections' = connections
           /\ ContainsElement(connections[o], c)
           /\ OutState(o) = [phase |-> "offered", msg |-> data[Owner[o]]]
           /\ InState(c).phase = "waiting"
           /\ OutState(o)' = [phase |-> "taken", msg |-> data[Owner[o]]]
           /\ InState(c)' = [phase |-> "given", msg |-> data[Owner[o]]]
           /\ OutUnless(o) /\ InUnless(c)
    BY <1>1, ClaimMeets
  <2>2. Links' = Links /\ <<o, c>> \in Links
    BY <2>1 DEF Links
  <2>3. /\ Out[o] = [phase |-> "offered", msg |-> data[Owner[o]]]
        /\ Out' = [Out EXCEPT ![o] = [phase |-> "taken", msg |-> data[Owner[o]]]]
    BY <2>1 DEF Out, OutUnless
  <2>4. Out' = [Out EXCEPT ![o].phase = "taken"]
    <3>1. [Out[o] EXCEPT !.phase = "taken"]
            = [phase |-> "taken", msg |-> data[Owner[o]]]
      BY <2>3
    <3>2. [Out EXCEPT ![o].phase = "taken"]
            = [Out EXCEPT ![o] = [Out[o] EXCEPT !.phase = "taken"]]
      OBVIOUS
    <3> QED BY <2>3, <3>1, <3>2
  <2>5. /\ In[c].phase = "waiting"
        /\ In' = [In EXCEPT ![c] = [phase |-> "given", msg |-> Out[o].msg]]
    <3>1. In[c].phase = "waiting"
      BY <2>1 DEF In
    <3>2. Out[o].msg = data[Owner[o]]
      BY <2>3
    <3>3. In' = [In EXCEPT ![c] = [phase |-> "given", msg |-> data[Owner[o]]]]
      BY <2>1 DEF In, InUnless
    <3> QED BY <3>1, <3>2, <3>3
  <2>6. Abstract!Meet(o, c)
    BY <2>2, <2>3, <2>4, <2>5 DEF Abstract!Meet, Out, In
  <2> QED BY <2>6 DEF Abstract!RendezvousNext
<1>2. CASE Arm(t)
  <2>1. PICK own \in Channels :
           /\ own = Id(t)
           /\ connections' = connections
           /\ \A x \in Channels : x # own => ready'[x] = ready[x]
           /\ OutState(own).phase = "idle" /\ InState(own).phase = "idle"
           /\ own \in Outs => data[t] \in Messages
           /\ OutState(own)' = [phase |-> "offered", msg |-> data[t]]
           /\ InState(own)' = [phase |-> "waiting", msg |-> Junk]
    BY <1>2, ArmOwn
  <2>2. OutUnless(own) /\ InUnless(own) /\ Links' = Links
    BY <1>0, <2>1, Elsewhere DEF OutUnless, InUnless, Links
  <2>3. CASE own \in Outs
    <3>1. In' = In
      BY <2>2, <2>3, ChannelAssumption DEF In, InUnless
    <3>2. Out' = [Out EXCEPT ![own] = [phase |-> "offered", msg |-> data[t]]]
      BY <2>1, <2>2, <2>3 DEF Out, OutUnless
    <3>3. Abstract!Offer(own, data[t])
      BY <2>1, <2>2, <2>3, <3>1, <3>2 DEF Abstract!Offer, Out, In
    <3> QED BY <2>1, <2>3, <3>3 DEF Abstract!RendezvousNext
  <2>4. CASE own \in Ins
    <3>1. Out' = Out
      BY <2>2, <2>4, ChannelAssumption DEF Out, OutUnless
    <3>2. In' = [In EXCEPT ![own] = [phase |-> "waiting", msg |-> Junk]]
      BY <2>1, <2>2, <2>4 DEF In, InUnless
    <3>3. Abstract!Await(own)
      BY <2>1, <2>2, <2>4, <3>1, <3>2 DEF Abstract!Await, Out, In
    <3> QED BY <2>4, <3>3 DEF Abstract!RendezvousNext
  <2> QED BY <2>3, <2>4 DEF Channels
<1>3. CASE Ends(t)
  <2>1. PICK own \in Channels :
           /\ own = Id(t)
           /\ ready' = ready /\ connections' = connections
           /\ OutState(own)' = [phase |-> "idle", msg |-> Junk]
           /\ InState(own)' = [phase |-> "idle", msg |-> Junk]
           /\ OutState(own).phase = "taken"
           /\ InState(own).phase = "given"
    BY <1>3, EndsOwn
  <2>2. OutUnless(own) /\ InUnless(own) /\ Links' = Links
    BY <1>0, <2>1, Elsewhere DEF OutUnless, InUnless, Links
  <2> QED BY <2>1, <2>2, EndMaps
<1>4. CASE Fault(t) /\ Op(t) \in {"send", "receive"}
  <2>1. ready' = ready /\ connections' = connections
    BY <1>4 DEF Fault, fields
  <2>2. PICK own \in Channels : own = Id(t) /\ Owner[own] = t
    BY <1>4, CallIsCall DEF Fault, WholeInv, TypeInv, TypeOK, ThreadOK
  <2>3. OutUnless(own) /\ InUnless(own) /\ Links' = Links
    BY <1>0, <2>1, <2>2, Elsewhere DEF OutUnless, InUnless, Links
  <2>4. CASE OutState(own)' = OutState(own) /\ InState(own)' = InState(own)
    BY <2>3, <2>4 DEF Out, In, OutUnless, InUnless
  <2> QED BY <1>4, <2>2, <2>3, <2>4, FaultOwn, EndMaps
<1>5. CASE Silent(t) /\ Op(t) \in {"send", "receive"}
  <2>1. ready' = ready
    BY <1>5 DEF Silent, Start, Enter, Count, ScanNext, ScanEnds, Test, LeaveAndPark,
                ParkBlocks, LockIn, LockOut, AwaitReceived, ReceiveUnparks, Copy, fields
  <2>2. PICK own \in Channels : own = Id(t) /\ Owner[own] = t
    <3>1. ~Finished(t)
      BY <1>5 DEF Silent, Start, Enter, Count, ScanNext, ScanEnds, Test, LeaveAndPark,
                ParkBlocks, LockIn, LockOut, AwaitReceived, ReceiveUnparks, Copy,
                WholeInv, TypeInv, ThreadOK
    <3> QED BY <1>5, <3>1, CallIsCall DEF WholeInv, TypeInv, TypeOK
  <2>3. /\ own \in Outs => OutState(own)' = OutState(own)
        /\ own \in Ins => InState(own)' = InState(own)
    BY <1>5, <2>2, SilentOwn
  <2>4. OutUnless(NULL) /\ InUnless(NULL)
    BY <1>0, <2>1, <2>2, <2>3, Elsewhere DEF OutUnless, InUnless
  <2>5. ~InsertLink(t)
    BY <1>5 DEF InsertLink, WholeInv, TypeInv, ThreadOK
  <2> QED BY <1>0, <2>4, <2>5, OutInSame, LinksStep
<1>6. CASE InsertLink(t)
  <2>1. PICK o \in Outs, c \in Ins : Links' = Links \cup {<<o, c>>}
    BY <1>6, LinksStep
  <2>2. Out' = Out /\ In' = In
    <3>1. ~Fault(t)
      BY <1>6 DEF InsertLink, Fault
    <3> QED BY <1>0, <1>6, <3>1, OthersOutside, OutInSame DEF channel_bind
  <2>3. Abstract!Connect(o, c)
    BY <2>1, <2>2 DEF Abstract!Connect, Out, In
  <2> QED BY <2>3 DEF Abstract!RendezvousNext
<1>7. CASE /\ ~InsertLink(t)
           /\ \/ channel_bind(t) \/ channel_unbind(t)
              \/ (Fault(t) \/ Silent(t)) /\ Op(t) \notin {"send", "receive"}
  <2>1. ~(Fault(t) /\ Op(t) \in {"send", "receive"})
    BY <1>7 DEF Fault, channel_bind, channel_unbind, BindRefused, BindStarts, BindAgain,
                UnbindStarts, UnbindNext, TakeIn, TakeOut, RemoveLink, UnbindEnds
  <2>2. OutUnless(NULL) /\ InUnless(NULL)
    BY <1>7, <2>1, OthersOutside
  <2> QED BY <1>0, <1>7, <2>2, OutInSame, LinksStep
<1> QED
  BY <1>1, <1>2, <1>3, <1>4, <1>5, <1>6, <1>7
     DEF Step, channel_scan, channel_send, channel_receive, Silent, Ends

(***************************************************************************)
(* For every program that never disconnects and in which an input has one  *)
(* sending component: channel_send and channel_receive are a rendezvous.   *)
(* A send returns only after a receiver on a channel connected to its own  *)
(* has taken its message, each message is received once, and a receive     *)
(* returns the message of the send it met and no other, in whatever order  *)
(* senders, receivers and binds interleave.                                *)
(***************************************************************************)
THEOREM ChannelsImplementRendezvous ==
  OneSender /\ NeverUnbinds /\ ~SpuriousWakeups => (Spec => ImplementsRendezvous)
<1> SUFFICES ASSUME OneSender, NeverUnbinds, ~SpuriousWakeups
             PROVE  Spec => ImplementsRendezvous
  OBVIOUS
<1> DEFINE Inv == WholeInv /\ RendezvousInv
<1>1. Init => Inv
  <2>1. Init => RendezvousInv
    BY DEF Init, RendezvousInv, StillConnected, HasMessage
  <2> QED BY <2>1, WholeInit
<1>2. Inv /\ [Next]_vars => Inv'
  <2> SUFFICES ASSUME Inv, [Next]_vars PROVE Inv'
    OBVIOUS
  <2>1. WholeInv'
    BY WholeNext
  <2>2. RendezvousInv'
    <3>1. CASE UNCHANGED vars
      BY <3>1 DEF vars, locals, fields, RendezvousInv, StillConnected, HasMessage,
                  Id, Op, Call
    <3>2. ASSUME NEW t \in Threads, Step(t) PROVE RendezvousInv'
      BY <3>2, RendezvousInvStep DEF RendezvousInv, WholeInv
    <3> QED BY <3>1, <3>2 DEF Next, Stopped
  <2> QED BY <2>1, <2>2
<1>3. Init => Abstract!RendezvousInit
  <2> SUFFICES ASSUME Init PROVE Abstract!RendezvousInit
    OBVIOUS
  <2>1. \A x \in Channels : ~Busy(x) /\ ~ContainsElement(connections[x], NULL)
                            /\ connections[x].elements = << >>
    BY ChannelAssumption DEF Init, Busy, At, EmptyList, ContainsElement, ToSet
  <2>2. Links = {}
    BY <2>1 DEF Links, ContainsElement, ToSet, Channels
  <2>3. /\ Out = [o \in Outs |-> [phase |-> "idle", msg |-> Junk]]
        /\ In = [c \in Ins |-> [phase |-> "idle", msg |-> Junk]]
    BY <2>1, IdleChannel DEF Out, In, Channels
  <2> QED BY <2>2, <2>3 DEF Abstract!RendezvousInit, Abstract!Idle, Out, In
<1>4. Inv /\ [Next]_vars
        => [Abstract!RendezvousNext]_<<Links, [o \in Outs |-> OutState(o)],
                                       [c \in Ins |-> InState(c)]>>
  <2> SUFFICES ASSUME Inv, [Next]_vars
               PROVE  Abstract!RendezvousNext \/ UNCHANGED <<Links, Out, In>>
    BY DEF Out, In
  <2>1. CASE UNCHANGED vars
    BY <2>1 DEF vars, locals, fields, Links, Out, In, OutState, InState, Offered,
                Claimed, Busy, At, Offering, Given, Id, Op, Call
  <2>2. ASSUME ~Faulted, NEW t \in Threads, Step(t)
        PROVE  Abstract!RendezvousNext \/ UNCHANGED <<Links, Out, In>>
    BY <2>2, StepImplements
  <2> QED BY <2>1, <2>2 DEF Next, Stopped
<1> HIDE DEF Inv
<1> QED BY <1>1, <1>2, <1>3, <1>4, PTL
           DEF Spec, ImplementsRendezvous, Abstract!RendezvousSpec, Abstract!rendezvousVars
=============================================================================
