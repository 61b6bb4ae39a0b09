------------------------ MODULE ExecutionRefinement -------------------------
(***************************************************************************)
(* The execution engine implements FillLedger.  The sequence number and    *)
(* the state a receipt carries are forgotten; a batch is the set of rows   *)
(* of exec_orders stamped with its id, which is what an auditor can see,   *)
(* not the rows its plan named.                                            *)
(***************************************************************************)
EXTENDS Execution

FillOf(r) == [trader |-> r.trader, side |-> r.side, action |-> r.action, units |-> r.units,
              nonce |-> r.nonce]

Book == [i \in LedgerIds |-> FillOf(ledger[i])]

Abstract == INSTANCE FillLedger WITH
              book <- Book,
              batches <- [b \in 1..Len(batches) |-> StampedBy(b)]

\* Every behaviour of the engine, its lock, the process and the settlement queue is a behaviour of
\* the book: concurrent submits, replays, restarts and dismissed settlements are invisible in it.
ImplementsFillLedger == Abstract!Spec
=============================================================================
