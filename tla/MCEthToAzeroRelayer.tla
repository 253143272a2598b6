------------------------ MODULE MCEthToAzeroRelayer ------------------------
(***************************************************************************)
(* Instances of EthToAzeroRelayer for TLC: two events in the first batch,  *)
(* one of them to skip, an event in a later block, and empty blocks, which *)
(* the listener announces without waiting for anybody.                     *)
(***************************************************************************)
EXTENDS EthToAzeroRelayer

Blocks == [e \in Events |-> IF e = 3 THEN 3 ELSE 1]
=============================================================================
