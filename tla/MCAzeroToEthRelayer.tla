------------------------ MODULE MCAzeroToEthRelayer ------------------------
(***************************************************************************)
(* Instances of AzeroToEthRelayer for TLC: events in two blocks, one of    *)
(* them to skip, which the listener reads as one batch or as two that are  *)
(* under way together, and one or two faults.                              *)
(***************************************************************************)
EXTENDS AzeroToEthRelayer

CONSTANTS e1, e2, e3

Blocks == [e \in Events |-> IF e = e1 THEN 1 ELSE 2]
SameBlock == [e \in Events |-> 1]
=============================================================================
