----------------------------- MODULE MCProceeds -----------------------------
(***************************************************************************)
(* Proceeds with two markets that share a pot of two stakes, each large    *)
(* enough for two debts, and two consoles.                                 *)
(***************************************************************************)
EXTENDS Proceeds, TLC

CONSTANTS m1, m2, tab1, tab2

MCMarkets == {m1, m2}
MCTabs == {tab1, tab2}

Interchangeable == Permutations(MCMarkets) \cup Permutations(MCTabs)
=============================================================================
