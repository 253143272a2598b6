------------------------- MODULE MCStableSwapTwoPool -------------------------
(***************************************************************************)
(* An instance of StableSwapTwoPool for TLC: small amounts, at which every *)
(* rounding shows, a bAZERO with fewer decimals, and fees of one half.    *)
(***************************************************************************)
EXTENDS StableSwapTwoPool, TLC

SomeMultipliers == 0 :> 2 @@ 1 :> 1
SomeFees == {<<0, 0>>, <<2, 2>>}
=============================================================================
