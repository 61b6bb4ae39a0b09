-------------------------------- MODULE Sums --------------------------------
(***************************************************************************)
(* The one fold this project needs: the sum of a list of integers.  The    *)
(* program folds rows in a `for` loop (positionsOf and pendingBatch in     *)
(* packages/execution/src/engine.ts, netOf in audit.ts, winningPayouts in  *)
(* payout.ts); every such loop is a Total of signed amounts here.  It is a *)
(* recursive function, so that a theorem can say what it computes.         *)
(***************************************************************************)
EXTENDS Integers, Sequences

\* The sum of weight[1], ..., weight[n].
Total(n, weight) ==
  LET upTo[i \in 0..n] == IF i = 0 THEN 0 ELSE upTo[i - 1] + weight[i]
  IN  upTo[n]
=============================================================================
