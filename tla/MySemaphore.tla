----------------------------- MODULE MySemaphore -----------------------------
(***************************************************************************)
(* The semaphores of Channels/my_semaphore.c as operators on their state.  *)
(*                                                                         *)
(* A my_sem_t is a counter, a mutex and a condition variable.  Every       *)
(* function of the file is one section under the mutex, or two with        *)
(* pthread_cond_wait between them; each section is one step here.  The     *)
(* state of a semaphore is                                                 *)
(*   value    the counter,                                                 *)
(*   waiting  the threads inside pthread_cond_wait,                        *)
(*   woken    the threads a signal has taken out of the condition variable *)
(*            that have not yet reacquired the mutex and gone on.          *)
(* The waits test the counter with "if", once: a woken thread takes the    *)
(* semaphore whatever the counter has become in the meantime.              *)
(***************************************************************************)
EXTENDS Integers

\* POSIX lets pthread_cond_wait return without a signal.
CONSTANT SpuriousWakeups

ASSUME SpuriousAssumption == SpuriousWakeups \in BOOLEAN

Semaphores(Threads) ==
  [value: Int, waiting: SUBSET Threads, woken: SUBSET Threads]

\* my_sem_init
NewSemaphore(v) == [value |-> v, waiting |-> {}, woken |-> {}]

InWait(s, t) == t \in s.waiting \cup s.woken
WakesUp(s, t) == t \in s.woken \/ (SpuriousWakeups /\ t \in s.waiting)

\* my_sem_wait: the section up to pthread_cond_wait ...
MyMustBlock(s, t) == ~InWait(s, t) /\ s.value <= 0
\* ... and the one that decrements, entered with a positive counter or from
\* pthread_cond_wait.
MyMayTake(s, t) == (~InWait(s, t) /\ s.value > 0) \/ WakesUp(s, t)

\* binary_sem_wait, likewise.
BinaryMustBlock(s, t) == ~InWait(s, t) /\ s.value = 0
BinaryMayTake(s, t) == (~InWait(s, t) /\ s.value # 0) \/ WakesUp(s, t)

Block(s, t) == [s EXCEPT !.waiting = @ \cup {t}]
Awake(s, t) == [s EXCEPT !.waiting = @ \ {t}, !.woken = @ \ {t}]
MyTake(s, t) == [Awake(s, t) EXCEPT !.value = @ - 1]
BinaryTake(s, t) == [Awake(s, t) EXCEPT !.value = 0]

\* pthread_cond_signal wakes one of the waiting threads, if there is one.
Signalled(s) ==
  IF s.waiting = {}
    THEN {s}
    ELSE {[s EXCEPT !.waiting = @ \ {t}, !.woken = @ \cup {t}] : t \in s.waiting}

\* The states my_sem_post and binary_sem_post can leave the semaphore in.
MyPosts(s) == Signalled([s EXCEPT !.value = @ + 1])
BinaryPosts(s) == Signalled([s EXCEPT !.value = 1])
=============================================================================
