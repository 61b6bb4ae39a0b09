----------------------------- MODULE MCCovenant -----------------------------
(***************************************************************************)
(* Covenant with two traders.  Four plans make a market's life: a trade or *)
(* a settlement, the resolution, a payout, and one more to be rebuilt      *)
(* after a rejection, a failure or a restart.                              *)
(***************************************************************************)
EXTENDS Covenant, TLC

CONSTANTS alice, bob

MCTraders == {alice, bob}

Symmetric == Permutations(MCTraders)
=============================================================================
