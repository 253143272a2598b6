---------------------------- MODULE MCAzeroMost ----------------------------
(***************************************************************************)
(* Instances of AzeroMost for TLC.  The voting instance has three          *)
(* guardians and two committees; the rewards instance has two guardians,   *)
(* two committees, and prices, fees and pocket money that do not divide    *)
(* evenly.                                                                 *)
(***************************************************************************)
EXTENDS AzeroMost, TLC

CONSTANTS g1, g2, g3, wazeroToken, wrapped, ethToken, user

Incoming1(c, t, a, n) ==
    [committeeId |-> c, destToken |-> t, amount |-> a, receiver |-> user, nonce |-> n]

VotingIncoming == {Incoming1(0, Zero, 3, 0), Incoming1(1, wrapped, 1, 1)}
RewardsIncoming == {Incoming1(0, Zero, 2, 0)}

NoFunds == [t \in Tokens |-> 0]

NoFee == {[relay_gas_usage |-> 0, min |-> 0, max |-> 0, default |-> 0, buffer |-> 0]}
\* A fee of 3 with the default price, of 1 with the oracle's: 150 percent of the price, rounded.
SomeFees == {[relay_gas_usage |-> 1, min |-> 1, max |-> 3, default |-> 2, buffer |-> 50]}
SomeAnswers == {[price |-> 1, stale |-> FALSE], [price |-> 1, stale |-> TRUE]}
NoAnswers == {}

Symmetry == Permutations(Guardians)
=============================================================================
