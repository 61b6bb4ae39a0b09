---------------------------- MODULE MCExecution -----------------------------
(***************************************************************************)
(* Execution with two traders.  MCOrders holds what the interesting cases  *)
(* need: a buy and a sell of the same shares (replayable, because they may *)
(* be submitted more than once), a two-unit buy, another trader's buy and  *)
(* sell on the same side, and an order its trader never signed.            *)
(***************************************************************************)
EXTENDS ExecutionRefinement

CONSTANTS alice, bob

MCTraders == {alice, bob}
MCNonces == {1, 2}

O(t, a, s, n, k) == [trader |-> t, side |-> s, action |-> a, units |-> n, nonce |-> k,
                     authentic |-> TRUE]

MCOrders == {O(alice, "buy", "yes", 2, 1), O(alice, "sell", "yes", 1, 2),
             O(bob, "buy", "yes", 1, 1), O(bob, "sell", "yes", 2, 2)}

MCForged == {[O(bob, "buy", "no", 1, 2) EXCEPT !.authentic = FALSE]}

MCAllOrders == MCOrders \cup MCForged
=============================================================================
