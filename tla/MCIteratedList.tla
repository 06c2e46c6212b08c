---------------------------- MODULE MCIteratedList ----------------------------
(***************************************************************************)
(* Instances of IteratedList.                                              *)
(***************************************************************************)
EXTENDS IteratedList

MCUsages == {"connections", "stack", "parameters", "names", "map"}
=============================================================================
