------------------------------ MODULE MCClaims ------------------------------
(***************************************************************************)
(* Claims with one trader who sold twice and won.  Both sales are paid by  *)
(* one transaction, out of another trader's stake; the winnings by a       *)
(* payout whose parent is the resolution.                                  *)
(***************************************************************************)
EXTENDS Claims

CONSTANTS alice, bob, stake, sales, resolve, payout

MCTxs == {stake, sales, resolve, payout}
MCParents == [t \in MCTxs |-> CASE t = sales -> {stake} [] t = payout -> {resolve} [] OTHER -> {}]
MCPayer == [t \in MCTxs |-> IF t = stake THEN bob ELSE Operator]

MCPayments ==
  {[trader |-> alice, kind |-> "payout",   tx |-> payout, order |-> 0],
   [trader |-> alice, kind |-> "proceeds", tx |-> sales,  order |-> 1],
   [trader |-> alice, kind |-> "proceeds", tx |-> sales,  order |-> 2]}
=============================================================================
