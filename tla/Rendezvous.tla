------------------------------ MODULE Rendezvous ------------------------------
(***************************************************************************)
(* What the channels promise: synchronous communication.  A send and a     *)
(* receive on connected channels meet, the receiver has the message at     *)
(* that moment, and neither returns before.  Each message is received by   *)
(* exactly one receive.                                                    *)
(***************************************************************************)
CONSTANTS Ins, Outs, Messages, Junk

VARIABLES
  links,    \* the connections, pairs of an output and an input
  out,      \* the send on each output, if there is one, and its message
  in        \* the receive on each input, and the message once it has it

rendezvousVars == <<links, out, in>>

Idle == [phase |-> "idle", msg |-> Junk]

RendezvousInit ==
  /\ links = {}
  /\ out = [o \in Outs |-> Idle]
  /\ in = [c \in Ins |-> Idle]

Connect(o, c) == links' = links \cup {<<o, c>>} /\ UNCHANGED <<out, in>>

Disconnect(o, c) == links' = links \ {<<o, c>>} /\ UNCHANGED <<out, in>>

Offer(o, m) ==
  /\ out[o].phase = "idle"
  /\ out' = [out EXCEPT ![o] = [phase |-> "offered", msg |-> m]]
  /\ UNCHANGED <<links, in>>

Await(c) ==
  /\ in[c].phase = "idle"
  /\ in' = [in EXCEPT ![c] = [phase |-> "waiting", msg |-> Junk]]
  /\ UNCHANGED <<links, out>>

Meet(o, c) ==
  /\ <<o, c>> \in links
  /\ out[o].phase = "offered"
  /\ in[c].phase = "waiting"
  /\ out' = [out EXCEPT ![o].phase = "taken"]
  /\ in' = [in EXCEPT ![c] = [phase |-> "given", msg |-> out[o].msg]]
  /\ UNCHANGED links

SendReturns(o) ==
  /\ out[o].phase = "taken"
  /\ out' = [out EXCEPT ![o] = Idle]
  /\ UNCHANGED <<links, in>>

ReceiveReturns(c) ==
  /\ in[c].phase = "given"
  /\ in' = [in EXCEPT ![c] = Idle]
  /\ UNCHANGED <<links, out>>

RendezvousNext ==
  \/ \E o \in Outs, c \in Ins : Connect(o, c) \/ Disconnect(o, c) \/ Meet(o, c)
  \/ \E o \in Outs : SendReturns(o) \/ \E m \in Messages : Offer(o, m)
  \/ \E c \in Ins : Await(c) \/ ReceiveReturns(c)

RendezvousSpec == RendezvousInit /\ [][RendezvousNext]_rendezvousVars
=============================================================================
