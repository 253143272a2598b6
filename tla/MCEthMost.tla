----------------------------- MODULE MCEthMost -----------------------------
(***************************************************************************)
(* An instance of EthMost for TLC: two guardians and two committees, a     *)
(* request of the first one for ether, and one token of each kind: WETH, a *)
(* local ERC20 that may call back, and a WrappedToken.                     *)
(***************************************************************************)
EXTENDS EthMost, TLC

CONSTANTS g1, g2, weth, local, wrapped, azToken, user

EtherRequest ==
    {[committeeId |-> 0, destToken |-> Zero, amount |-> 1, receiver |-> user, nonce |-> 0]}

\* Enough for a send within a send of the local token.
SomeFunds == [[t \in Tokens |-> 0] EXCEPT ![local] = 2, ![wrapped] = 1]

NoLimit == {[t \in Tokens |-> 0]}

Symmetry == Permutations(Guardians)
=============================================================================
