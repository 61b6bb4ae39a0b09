------------------------------ MODULE SignOff -------------------------------
(***************************************************************************)
(* The sign-off queue of one market on mainnet: plans are parked in the    *)
(* broadcasts table, a human authorizes or rejects them, and authorize     *)
(* awaits the network between reading the row and applying its effects.    *)
(*                                                                         *)
(*   rows      the market's broadcasts rows: status, plan, recorded txid   *)
(*   pools     its pool_utxos rows, version v at v + 1; the last one is    *)
(*             the unspent pool                                            *)
(*   fills     how many exec_orders rows there are; stamped: those with a  *)
(*             batch_id                                                    *)
(*   warm      the engine's live contract instance for the market, as the  *)
(*             transaction whose output it spends; 0: none                 *)
(*   calls     the authorize calls: the row, the output their transaction  *)
(*             spends, the accepted transaction (0: none yet), and whether *)
(*             the process still awaits the answer                         *)
(*   chain     the market's transactions the network accepted, in order    *)
(*   life      the market's circumstances, which no action changes         *)
(*                                                                         *)
(* Building a plan awaits nothing that does I/O, so enqueueing it is one   *)
(* step.  A transaction is its index in chain.  Every fill buys one unit   *)
(* of the same side, so a pool's state is one number q.  The network may   *)
(* accept a transaction and the answer be lost, and it may accept one long *)
(* after the call that sent it failed or died.                             *)
(***************************************************************************)
EXTENDS Integers, Sequences, FiniteSets

CONSTANTS
  Lives,      \* the circumstances: how many consoles are open (each waits for its own answer,
              \* Operator.tsx `busy`), the moves the operator makes on the pool directly (1 buys a
              \* share, -1 sells one), and as a bound how many fills there are
  MaxRows,    \* bound: plans enqueued
  MaxCalls    \* bound: authorize calls

ASSUME LivesAssumption  == Lives \subseteq [consoles : Nat, trades : SUBSET {1, -1}, fills : Nat]
ASSUME LimitsAssumption == MaxRows \in Nat /\ MaxCalls \in Nat

VARIABLES rows, pools, fills, stamped, warm, calls, chain, life

vars == <<rows, pools, fills, stamped, warm, calls, chain, life>>

-----------------------------------------------------------------------------
(* Data *)

Kind   == {"deploy", "trade", "settle", "resolve", "payout"}
Status == {"pending", "broadcast", "failed", "rejected"}

Effect == [q : Int, resolved : BOOLEAN]     \* the pool a plan expects to leave behind
Plan == [kind : Kind, ref : Nat, delta : Int, clears : SUBSET Nat, effect : Effect]
Row  == [status : Status, plan : Plan, tx : Nat]
PoolRow == [tx : Nat, kind : Kind, effect : Effect]
Call == [row : Nat, base : Nat, tx : Nat, live : BOOLEAN]
Tx   == [spends : Nat, root : Nat, kind : Kind, effect : Effect, paid : BOOLEAN,
         clears : SUBSET Nat]

FreshPool == [q |-> 0, resolved |-> FALSE]

CurrentPool == pools[Len(pools)]

\* paidRows: the payouts recorded.
PaidRows == {v \in 1..Len(pools) : pools[v].kind = "payout"}

\* Mutant: the batch is not restricted to rows without a batch_id.
UnsettledEver == 1..fills

\* pendingBatch: the fills without a batch_id.
Unsettled == (1..fills) \ stamped

\* The calls whose answer the process still awaits.
InFlight == {c \in 1..Len(calls) : calls[c].live}

\* Every console waits for an authorize call of its own.
Busy == Cardinality(InFlight) >= life.consoles

\* poolNotOnChain finds nothing to object to: some row records the pool's txid as broadcast.
KnownOnChain(p) == \E r \in 1..Len(rows) : rows[r].status = "broadcast" /\ rows[r].tx = p.tx

Init ==
  /\ life \in Lives
  /\ rows = <<>> /\ pools = <<>>
  /\ fills = 0 /\ stamped = {}
  /\ warm = 0 /\ calls = <<>>
  /\ chain = <<>>

-----------------------------------------------------------------------------
(* The operator parks a plan *)

\* Mutant: enqueue without its guard.
EnqueueMutant(plan) ==
  /\ ~Busy
  /\ Len(rows) < MaxRows
  /\ rows' = Append(rows, [status |-> "pending", plan |-> plan, tx |-> 0])

Awaiting == \E r \in 1..Len(rows) : rows[r].status = "pending"

\* enqueue: at most one row of a market is pending.
Enqueue(plan) ==
  /\ ~Busy
  /\ ~Awaiting
  /\ Len(rows) < MaxRows
  /\ rows' = Append(rows, [status |-> "pending", plan |-> plan, tx |-> 0])

\* A plan over the current pool: its effect is computed here, not when it is authorized.
PlanOver(kind, delta, clears, resolved) ==
  [kind |-> kind, ref |-> CurrentPool.tx, delta |-> delta, clears |-> clears,
   effect |-> [q |-> CurrentPool.effect.q + delta, resolved |-> resolved]]

\* tradablePool.
Tradable == pools # <<>> /\ ~CurrentPool.effect.resolved /\ KnownOnChain(CurrentPool)

EnqueueDeploy ==
  /\ pools = <<>>
  /\ Enqueue([kind |-> "deploy", ref |-> 0, delta |-> 0, clears |-> {}, effect |-> FreshPool])
  /\ UNCHANGED <<pools, fills, stamped, warm, calls, chain>>

\* enqueueBuy and enqueueSell.
EnqueueTrade(n) ==
  /\ Tradable
  /\ n = -1 => CurrentPool.effect.q >= 1
  /\ Enqueue(PlanOver("trade", n, {}, FALSE))
  /\ UNCHANGED <<pools, fills, stamped, warm, calls, chain>>

\* enqueueSettle.  The attestation it signs is module Covenant's.
EnqueueSettle ==
  /\ Tradable
  /\ Unsettled # {}
  /\ Enqueue(PlanOver("settle", Cardinality(Unsettled), Unsettled, FALSE))
  /\ UNCHANGED <<pools, fills, stamped, warm, calls, chain>>

EnqueueResolve ==
  /\ Tradable
  /\ Enqueue(PlanOver("resolve", 0, {}, TRUE))
  /\ UNCHANGED <<pools, fills, stamped, warm, calls, chain>>

EnqueuePayout ==
  /\ pools # <<>>
  /\ KnownOnChain(CurrentPool)
  /\ CurrentPool.effect.resolved
  /\ PaidRows = {}
  /\ fills > 0
  /\ Enqueue(PlanOver("payout", 0, {}, TRUE))
  /\ UNCHANGED <<pools, fills, stamped, warm, calls, chain>>

\* Between two plans traders go on trading (module Execution).
NewFill ==
  /\ pools # <<>>
  /\ fills < life.fills
  /\ fills' = fills + 1
  /\ UNCHANGED <<rows, pools, stamped, warm, calls, chain>>

-----------------------------------------------------------------------------
(* The operator decides *)

\* livePool: the warm instance, whatever pool the plan was built over, else the plan's own pool.
LivePool(plan) == IF warm # 0 THEN warm ELSE plan.ref

\* Mutant: the fills are stamped when the plan is authorized, not when its transaction is known.
AuthorizeMutant(r) ==
  /\ ~Busy
  /\ rows[r].status = "pending"
  /\ Len(calls) < MaxCalls
  /\ LET plan == rows[r].plan
         base == IF plan.kind = "deploy" THEN 0 ELSE LivePool(plan)
     IN  /\ calls' = Append(calls, [row |-> r, base |-> base, tx |-> 0, live |-> TRUE])
         /\ warm' = IF plan.kind = "deploy" THEN warm ELSE base
         /\ stamped' = stamped \cup plan.clears
  /\ UNCHANGED <<rows, pools, fills, chain>>

\* authorize up to the broadcast.  The row stays pending.
Authorize(r) ==
  /\ ~Busy
  /\ rows[r].status = "pending"
  /\ Len(calls) < MaxCalls
  /\ LET plan == rows[r].plan
         base == IF plan.kind = "deploy" THEN 0 ELSE LivePool(plan)
     IN  /\ calls' = Append(calls, [row |-> r, base |-> base, tx |-> 0, live |-> TRUE])
         /\ warm' = IF plan.kind = "deploy" THEN warm ELSE base
  /\ UNCHANGED <<rows, pools, fills, stamped, chain>>

Reject(r) ==
  /\ ~Busy
  /\ rows[r].status = "pending"
  /\ rows' = [rows EXCEPT ![r].status = "rejected"]
  /\ UNCHANGED <<pools, fills, stamped, warm, calls, chain>>

\* The output of transaction b is still there to be spent.
Unspent(b) == \A i \in 1..Len(chain) : chain[i].spends # b

\* Mutant: the covenant before MAINNET-005, without the `paid` flag.
CovenantAdmitsMutant(plan, b) ==
  CASE plan.kind = "deploy"             -> TRUE
    [] plan.kind \in {"trade", "settle"} -> /\ ~chain[b].effect.resolved
                                            /\ chain[b].effect.q + plan.delta >= 0
    [] plan.kind = "resolve"            -> ~chain[b].effect.resolved
    [] plan.kind = "payout"             -> chain[b].effect.resolved

\* The asserts of the covenant's methods, over the pool that is really spent.
CovenantAdmits(plan, b) ==
  CASE plan.kind = "deploy"             -> TRUE
    [] plan.kind \in {"trade", "settle"} -> /\ ~chain[b].effect.resolved
                                            /\ chain[b].effect.q + plan.delta >= 0
    [] plan.kind = "resolve"            -> ~chain[b].effect.resolved
    [] plan.kind = "payout"             -> chain[b].effect.resolved /\ ~chain[b].paid

\* The transaction that makes the plan's move from the pool b (b = 0: the deploy itself).
TxOf(plan, b) ==
  [spends |-> b, kind |-> plan.kind, clears |-> plan.clears,
   root |-> IF b = 0 THEN Len(chain) + 1 ELSE chain[b].root,
   paid |-> plan.kind = "payout" \/ (b # 0 /\ chain[b].paid),
   effect |-> IF b = 0 THEN plan.effect
              ELSE [q |-> chain[b].effect.q + plan.delta,
                    resolved |-> chain[b].effect.resolved \/ plan.kind = "resolve"]]

\* The network accepts a call's transaction, whether or not anybody still waits for it.
Accept(c) ==
  /\ calls[c].tx = 0
  /\ calls[c].base # 0 => Unspent(calls[c].base)
  /\ CovenantAdmits(rows[calls[c].row].plan, calls[c].base)
  /\ chain' = Append(chain, TxOf(rows[calls[c].row].plan, calls[c].base))
  /\ calls' = [calls EXCEPT ![c].tx = Len(chain')]
  /\ UNCHANGED <<rows, pools, fills, stamped, warm>>

\* Mutant: applyEffects records the transaction but leaves the row's status alone.
CompleteMutant(c) ==
  /\ calls[c].live /\ calls[c].tx # 0
  /\ LET r == calls[c].row
         plan == rows[r].plan
     IN  /\ plan.kind = "deploy" => pools = <<>>
         /\ pools' = Append(pools, [tx |-> calls[c].tx, kind |-> plan.kind, effect |-> plan.effect])
         /\ stamped' = stamped \cup plan.clears
         /\ rows' = [rows EXCEPT ![r].tx = calls[c].tx]
  /\ warm' = calls[c].tx
  /\ calls' = [calls EXCEPT ![c].live = FALSE]
  /\ UNCHANGED <<fills, chain>>

\* Mutant: applyEffects stamps every fill without a batch_id, not the plan's.
CompleteStampsAllMutant(c) ==
  /\ calls[c].live /\ calls[c].tx # 0
  /\ LET r == calls[c].row
         plan == rows[r].plan
     IN  /\ plan.kind = "deploy" => pools = <<>>
         /\ pools' = Append(pools, [tx |-> calls[c].tx, kind |-> plan.kind, effect |-> plan.effect])
         /\ stamped' = IF plan.kind = "settle" THEN 1..fills ELSE stamped
         /\ rows' = [rows EXCEPT ![r].status = "broadcast", ![r].tx = calls[c].tx]
  /\ warm' = calls[c].tx
  /\ calls' = [calls EXCEPT ![c].live = FALSE]
  /\ UNCHANGED <<fills, chain>>

\* The answer arrives: the engine keeps the new instance, applyEffects runs in one transaction and
\* looks at neither the row's status nor the pool the transaction spent.
Complete(c) ==
  /\ calls[c].live /\ calls[c].tx # 0
  /\ LET r == calls[c].row
         plan == rows[r].plan
     IN  /\ plan.kind = "deploy" => pools = <<>>
         /\ pools' = Append(pools, [tx |-> calls[c].tx, kind |-> plan.kind, effect |-> plan.effect])
         /\ stamped' = stamped \cup plan.clears
         /\ rows' = [rows EXCEPT ![r].status = "broadcast", ![r].tx = calls[c].tx]
  /\ warm' = calls[c].tx
  /\ calls' = [calls EXCEPT ![c].live = FALSE]
  /\ UNCHANGED <<fills, chain>>

\* A second deploy's answer: UNIQUE (market_id, version) rolls applyEffects back, but the engine's
\* instance is already the second pool.
CompleteColliding(c) ==
  /\ calls[c].live /\ calls[c].tx # 0
  /\ rows[calls[c].row].plan.kind = "deploy"
  /\ pools # <<>>
  /\ warm' = calls[c].tx
  /\ calls' = [calls EXCEPT ![c].live = FALSE]
  /\ UNCHANGED <<rows, pools, fills, stamped, chain>>

\* The call fails: refused, timed out, or accepted with the answer lost.  The row becomes 'failed'
\* whatever it was, and the engine drops its instances.
Fail(c) ==
  /\ calls[c].live
  /\ rows' = [rows EXCEPT ![calls[c].row].status = "failed"]
  /\ warm' = 0
  /\ calls' = [calls EXCEPT ![c].live = FALSE]
  /\ UNCHANGED <<pools, fills, stamped, chain>>

\* A call of another market fails: the engine drops the live instances of every market.
OtherMarketFails ==
  /\ warm' = 0
  /\ UNCHANGED <<rows, pools, fills, stamped, calls, chain>>

\* The process stops and starts again.
Restart ==
  /\ warm' = 0
  /\ calls' = [c \in 1..Len(calls) |-> [calls[c] EXCEPT !.live = FALSE]]
  /\ UNCHANGED <<rows, pools, fills, stamped, chain>>

Step ==
  \/ EnqueueDeploy
  \/ \E n \in life.trades : EnqueueTrade(n)
  \/ EnqueueSettle
  \/ EnqueueResolve
  \/ EnqueuePayout
  \/ NewFill
  \/ \E r \in 1..Len(rows) : Authorize(r) \/ Reject(r)
  \/ \E c \in 1..Len(calls) : Accept(c) \/ Complete(c) \/ CompleteColliding(c) \/ Fail(c)
  \/ OtherMarketFails
  \/ Restart

Next == Step /\ UNCHANGED life

Spec == Init /\ [][Next]_vars

-----------------------------------------------------------------------------
(* Properties *)

OneConsole == life.consoles = 1

TypeOK ==
  /\ life \in Lives
  /\ rows \in Seq(Row) /\ pools \in Seq(PoolRow)
  /\ fills \in Nat /\ stamped \in SUBSET (1..fills)
  /\ warm \in Nat /\ calls \in Seq(Call)
  /\ chain \in Seq(Tx)

\* With one console pool_utxos is the covenant's own history: every version is the output
\* the network made from the version before it, with the state the plan promised, across lost
\* answers, late acceptances and restarts (service.ts applyEffects, scryptEngine.ts livePool).
PoolsMirrorChain ==
  OneConsole => \A v \in 1..Len(pools) :
    /\ pools[v].tx \in 1..Len(chain)
    /\ chain[pools[v].tx].effect = pools[v].effect
    /\ chain[pools[v].tx].spends = IF v = 1 THEN 0 ELSE pools[v - 1].tx

\* With one console no fill is settled by two transactions: a plan rebuilt after a failure
\* competes for the same output as the transaction that may still land.
SettledOnce ==
  OneConsole =>
    \A i, j \in 1..Len(chain) : i # j => chain[i].clears \cap chain[j].clears = {}

\* With one console poolNotOnChain never refuses a pool the network really holds (service.ts:1232,
\* "the answer is already in the database"): the row that made the current pool stays 'broadcast'.
\* With two, the failure of an overlapping authorize call overwrites it.
PoolKnownOnChain == OneConsole /\ pools # <<>> => KnownOnChain(CurrentPool)

\* However many consoles are open, a fill the database calls settled was cleared on the chain.
StampedIsCleared ==
  \A i \in stamped : \E t \in 1..Len(chain) : i \in chain[t].clears

\* However many consoles are open, no pool pays its winners twice (test payout-once.test.ts): also
\* not when a payout was rejected while in flight, rebuilt, and applied to the pool already paid.
PoolPaysOnce ==
  \A i, j \in 1..Len(chain) :
    i # j /\ chain[i].kind = "payout" /\ chain[j].kind = "payout" => chain[i].root # chain[j].root

=============================================================================
