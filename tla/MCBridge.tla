------------------------------ MODULE MCBridge ------------------------------
(***************************************************************************)
(* An instance of Bridge for TLC: three guardians of whom one is faulty,   *)
(* a quorum of two, and amounts that RATIO does not divide.                *)
(***************************************************************************)
EXTENDS Bridge

CONSTANTS g1, g2, g3, weth, wazEth, wethAz, wazero, user

\* A request that will be real if the first user sends it, and one that never will be.
SomeForged ==
    {[committeeId |-> 0, destToken |-> weth, amount |-> 3, receiver |-> user, nonce |-> 0],
     [committeeId |-> 0, destToken |-> wethAz, amount |-> 3, receiver |-> user, nonce |-> 0]}
=============================================================================
