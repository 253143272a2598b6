----------------------------- MODULE MCL2Bridge -----------------------------
(***************************************************************************)
(* An instance of L2Bridge for TLC: three guardians of whom one is faulty, *)
(* two committees to choose from, a local token and two bAZERO contracts,  *)
(* and a pool whose liquidity one swap may exhaust.                        *)
(***************************************************************************)
EXTENDS L2Bridge, TLC

CONSTANTS g1, g2, g3, local, wazAz, wrapped, bAzero1, bAzero2

SomeCommittees ==
    {[members |-> {g1, g2, g3}, threshold |-> 2], [members |-> {g1, g2}, threshold |-> 2]}
SomeNonces == [azero |-> 1, l2 |-> 2]
SomePartners ==
    local :> wrapped @@ wrapped :> local @@ wazAz :> bAzero1 @@ bAzero1 :> wazAz @@ bAzero2 :> wazAz
SomeFunds == local :> 2 @@ wazAz :> 2
SomeForged ==
    {[to |-> "l2", committeeId |-> 0, token |-> Zero, amount |-> 2, nonce |-> 0],
     [to |-> "azero", committeeId |-> 0, token |-> local, amount |-> 2, nonce |-> 0]}
\* The honest guardians sit in the same committees and are interchangeable.
HonestSymmetry == Permutations({g1, g2})
=============================================================================
