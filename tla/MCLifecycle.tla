------------------------------ MODULE MCLifecycle ------------------------------
(***************************************************************************)
(* Programs for model checking the life of components.                     *)
(***************************************************************************)
EXTENDS Lifecycle, TLC

CONSTANTS main, a, b, c, d, x

Constr == [op |-> "constructor"]
Sends == [op |-> "send"]
Receives == [op |-> "receive"]
Fails == [op |-> "fatal"]
Calls(n) == [op |-> "call", name |-> n]
Stops(n) == [op |-> "stop", name |-> n]
Connects(n, o) == [op |-> "connect", name |-> n, other |-> o]
Jumps(i) == [op |-> "jump", target |-> i]

(***************************************************************************)
(* Four components: a receives from b and then fails, b sends, c works     *)
(* until a, which started it, stops it, and d calls a component that is    *)
(* not there.  None can end before main, or a, has its references.         *)
(***************************************************************************)
LifecycleProgram ==
  main :> <<Constr, Calls(a), Calls(b), Calls(d), Connects(b, a)>>
    @@ a :> <<Constr, Calls(c), Stops(c), Receives, Fails>>
    @@ b :> <<Constr, Sends>>
    @@ c :> <<Constr, Jumps(2)>>
    @@ d :> <<Constr, Calls(x)>>
    @@ x :> << >>

\* A component with nothing to do.
EarlyProgram == main :> <<Constr, Calls(a)>> @@ a :> <<Constr>>

\* A component that has started another one calls one that is not there.
MissingProgram ==
  main :> <<Constr, Calls(a)>>
    @@ a :> <<Constr, Calls(c), Calls(x)>>
    @@ c :> <<Constr, Jumps(2)>>
    @@ x :> << >>
=============================================================================
