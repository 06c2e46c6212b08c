------------------------------ MODULE MCChannel ------------------------------
(***************************************************************************)
(* Programs for model checking the channels.                               *)
(***************************************************************************)
EXTENDS ChannelRendezvous, TLC

CONSTANTS main, t1, t2, t3, o1, o2, c1, c2, m1, m2

Send(o) == [op |-> "send", id |-> o]
Receive(c) == [op |-> "receive", id |-> c]
Bind(a, b) == [op |-> "bind", id |-> a, other |-> b]
Unbind(a) == [op |-> "unbind", id |-> a]

Once(calls) == [calls |-> calls, repeats |-> FALSE]
Forever(calls) == [calls |-> calls, repeats |-> TRUE]

SameSize == [c \in Channels |-> 1]

(***************************************************************************)
(* One sender and two receivers that never stop, connected while they run. *)
(* The program also tries to connect two inputs.                           *)
(***************************************************************************)
FanoutOwner == o1 :> t1 @@ c1 :> t2 @@ c2 :> t3
FanoutProgram ==
  main :> Once(<<Bind(o1, c1), Bind(c1, c2), Bind(c2, o1)>>)
    @@ t1 :> Forever(<<Send(o1)>>)
    @@ t2 :> Forever(<<Receive(c1)>>)
    @@ t3 :> Forever(<<Receive(c2)>>)

(***************************************************************************)
(* A connection that is broken, made again, and made once more, around a   *)
(* single rendezvous.                                                      *)
(***************************************************************************)
PairOwner == o1 :> t1 @@ c1 :> t2
ReconnectProgram ==
  main :> Once(<<Bind(o1, c1), Unbind(o1), Bind(o1, c1), Bind(o1, c1)>>)
    @@ t1 :> Once(<<Send(o1)>>)
    @@ t2 :> Once(<<Receive(c1)>>)

\* Two senders, each of them once, and one receiver.
FaninOwner == o1 :> t1 @@ o2 :> t3 @@ c1 :> t2
FaninProgram ==
  main :> Once(<<Bind(o1, c1), Bind(o2, c1)>>)
    @@ t1 :> Once(<<Send(o1)>>)
    @@ t3 :> Once(<<Send(o2)>>)
    @@ t2 :> Forever(<<Receive(c1)>>)

(***************************************************************************)
(* A sender whose second connection is made, and whose connections are     *)
(* broken, while it is between its wait for conns_sem and its post.        *)
(***************************************************************************)
UnbindScannedProgram ==
  main :> Once(<<Bind(o1, c1), Bind(o1, c2), Unbind(o1)>>)
    @@ t1 :> Once(<<Send(o1)>>) @@ t2 :> Once(<< >>) @@ t3 :> Once(<< >>)

\* Two connections of one channel, and its disconnection.
UnbindProgram ==
  main :> Once(<<Bind(o1, c1), Bind(o1, c2), Unbind(o1)>>)
    @@ t1 :> Once(<< >>) @@ t2 :> Once(<< >>) @@ t3 :> Once(<< >>)
=============================================================================
