-------------------------- MODULE ChannelRendezvous --------------------------
(***************************************************************************)
(* The channels implement the rendezvous.  The meeting is the step in      *)
(* which one call claims the other; a receiver that was claimed has, from  *)
(* then on, the message its buffer points at, although it copies it later. *)
(***************************************************************************)
EXTENDS Channel

At(c) == pc[Owner[c]]
Busy(c) == At(c) # "call" /\ Id(Owner[c]) = c /\ Op(Owner[c]) \in {"send", "receive"}
Offered(c) == Busy(c) /\ Offering(Owner[c]) /\ ready[c]
Claimed(c) == Busy(c) /\ At(c) \notin {"enter", "arm", "fault"} /\ ~Offered(c)

OutState(o) ==
  LET msg == data[Owner[o]] IN
  CASE Offered(o) -> [phase |-> "offered", msg |-> msg]
    [] Claimed(o) -> [phase |-> "taken", msg |-> msg]
    [] OTHER      -> [phase |-> "idle", msg |-> Junk]

\* The message of a receiver: what it copied, or what it is about to copy.
Given(c) ==
  IF At(c) \in {"acknowledge", "leave"} THEN data[Owner[c]]
  ELSE IF buffer[c] = NULL               THEN Junk
  ELSE                                        data[buffer[c]]

InState(c) ==
  CASE Offered(c) -> [phase |-> "waiting", msg |-> Junk]
    [] Claimed(c) -> [phase |-> "given", msg |-> Given(c)]
    [] OTHER      -> [phase |-> "idle", msg |-> Junk]

Links == {l \in Outs \X Ins : ContainsElement(connections[l[1]], l[2])}

Abstract == INSTANCE Rendezvous
  WITH links <- Links,
       out <- [o \in Outs |-> OutState(o)],
       in <- [c \in Ins |-> InState(c)]

(***************************************************************************)
(* channel_send and channel_receive are a rendezvous: a send returns only  *)
(* when a receiver on a connected channel has its message, and that        *)
(* receiver returns this message and no other.                             *)
(***************************************************************************)
ImplementsRendezvous == Abstract!RendezvousSpec
=============================================================================
