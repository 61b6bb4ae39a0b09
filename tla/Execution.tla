----------------------------- MODULE Execution ------------------------------
(***************************************************************************)
(* One deployed market: the off-chain execution engine that fills orders,  *)
(* the receipt ledger it persists, and the settlement boundary through     *)
(* which the covenant pool catches up with the fills.                      *)
(*                                                                         *)
(*   mem       the engine's runtime in process memory (lost by a restart)  *)
(*   ledger    the exec_orders table, one receipt per fill, row id = index *)
(*   batchOf   its batch_id column; 0 is NULL, "not settled yet"           *)
(*   pools     the pool_utxos table: pools[v + 1] is pool version v, the   *)
(*             last one is the unspent pool                                *)
(*   pending   the market's row of the broadcasts table awaiting sign-off  *)
(*   batches   the exec_batches table                                      *)
(*                                                                         *)
(* An order is handled in up to three steps, because the handler awaits    *)
(* twice: Submit (the checks at the top of submitOrder), AcceptPayment     *)
(* (the network round trip that verifies a buy's payment) and the fill     *)
(* proper, which runs behind the market's promise-chain lock.  Prices and  *)
(* satoshis are abstracted to whether the payment gate lets a buy through. *)
(* What acceptPayment does to the payment itself is module Funding's part, *)
(* and the awaits inside authorize are module SignOff's: here a plan       *)
(* awaiting sign-off is either applied whole or disappears.                *)
(***************************************************************************)
EXTENDS Sums, FiniteSets

CONSTANTS
  Traders,      \* identity keys
  Nonces,       \* the nonces traders put in their orders
  MaxUnits,     \* units per order are 1..MaxUnits
  Orders,       \* the orders that may be submitted, a set of Order records
  MaxNet,       \* LMSRMarket.MAX_NET, the largest net one settlement can advance a side by
  MaxTickets,   \* bound: orders submitted
  MaxPools      \* bound: pool versions

Side == {"yes", "no"}

\* A trader-signed order (`authentic`: the signature is the trader's own).
Order == [trader : Traders, side : Side, action : {"buy", "sell"},
          units : 1..MaxUnits, nonce : Nonces, authentic : BOOLEAN]

ASSUME OrdersAssumption  == Orders \subseteq Order
ASSUME BoundsAssumption  == /\ MaxUnits \in Nat /\ MaxNet \in Nat
                            /\ MaxTickets \in Nat /\ MaxPools \in Nat

VARIABLES
  mem, tickets, accepting, lockQueue, ledger, batchOf, pools, pending, batches

vars == <<mem, tickets, accepting, lockQueue, ledger, batchOf, pools, pending, batches>>

-----------------------------------------------------------------------------
(* Data *)

Shares == [Side -> Int]               \* qYes and qNo, in units
NoShares == [s \in Side |-> 0]
Outcome == Side \cup {"none"}         \* "none": not resolved

Runtime == [open : BOOLEAN, q : Shares, seq : Nat]
Ticket  == [id : Nat, order : Order]
Receipt == [seq : Nat, trader : Traders, side : Side, action : {"buy", "sell"},
            units : 1..MaxUnits, nonce : Nonces, q : Shares]
Pool    == [q : Shares, winner : Outcome]
Plan    == [kind : {"trade", "settle", "resolve"}, pool : Pool, rows : SUBSET Nat, net : Shares]
Batch   == [from : Nat, to : Nat, net : Shares, digest : SUBSET Nat]

SignedUnits(r) == IF r.action = "buy" THEN r.units ELSE 0 - r.units

Advance(q, s, n) == [q EXCEPT ![s] = @ + n]
Plus(q, d) == [s \in Side |-> q[s] + d[s]]

-----------------------------------------------------------------------------
(* What the code derives from the tables *)

LedgerIds == 1..Len(ledger)

\* The signed units of the receipts in ids, summed: the loop of positionsOf, pendingBatch and netOf.
UnitsOf(receipts, ids) ==
  Total(Len(receipts), [i \in 1..Len(receipts) |-> IF i \in ids THEN SignedUnits(receipts[i]) ELSE 0])

\* positionsOf: a trader's net units on a side, over every fill of the market.
PositionOf(t, s) ==
  UnitsOf(ledger, {i \in LedgerIds : ledger[i].trader = t /\ ledger[i].side = s})

\* netOf: the net units per side of a set of receipts.
NetOf(receipts, ids) == [s \in Side |-> UnitsOf(receipts, {i \in ids : receipts[i].side = s})]

\* Mutant: pendingBatch without `batch_id IS NULL`.
UnsettledMutant == LedgerIds

\* pendingBatch: the fills no settlement has stamped.
Unsettled == {i \in LedgerIds : batchOf[i] = 0}

\* The receipts auditMarket reads for a batch: those stamped with its id.
StampedBy(b) == {i \in LedgerIds : batchOf[i] = b}

\* currentPool, and the resolution recorded with it.
CurrentPool == pools[Len(pools)]
Resolved == CurrentPool.winner # "none"

Within(n, bound) == n <= bound /\ 0 - n <= bound

-----------------------------------------------------------------------------
(* The engine *)

Init ==
  /\ mem = [open |-> FALSE, q |-> NoShares, seq |-> 0]
  /\ tickets = 0
  /\ accepting = {}
  /\ lockQueue = <<>>
  /\ ledger = <<>>
  /\ batchOf = <<>>
  /\ pools = <<[q |-> NoShares, winner |-> "none"]>>
  /\ pending = {}
  /\ batches = <<>>

\* Mutant: the runtime re-seeded from the pool even when there are receipts.
OpenedMutant == IF mem.open THEN mem ELSE [open |-> TRUE, q |-> CurrentPool.q, seq |-> 0]

\* ensureExecOpen: the runtime, rebuilt from the last receipt, else from the pool, if this process
\* has not opened the market yet.
Opened ==
  IF mem.open THEN mem
  ELSE IF ledger # <<>>
       THEN [open |-> TRUE, q |-> ledger[Len(ledger)].q, seq |-> ledger[Len(ledger)].seq]
       ELSE [open |-> TRUE, q |-> CurrentPool.q, seq |-> 0]

\* createPaymentIntent prices against the engine's live state, so a quote opens the market.
Quote ==
  /\ ~Resolved
  /\ mem' = Opened
  /\ UNCHANGED <<tickets, accepting, lockQueue, ledger, batchOf, pools, pending, batches>>

\* submitOrder up to its first await: a buy goes to acceptPayment, a sell straight to the lock.
Submit(o) ==
  /\ ~Resolved
  /\ tickets < MaxTickets
  /\ mem' = Opened
  /\ tickets' = tickets + 1
  /\ LET t == [id |-> tickets', order |-> o]
     IN  IF o.action = "buy"
         THEN accepting' = accepting \cup {t} /\ UNCHANGED lockQueue
         ELSE lockQueue' = Append(lockQueue, t) /\ UNCHANGED accepting
  /\ UNCHANGED <<ledger, batchOf, pools, pending, batches>>

\* acceptPayment returned: the order joins the market's lock.
AcceptPayment(t) ==
  /\ t \in accepting
  /\ accepting' = accepting \ {t}
  /\ lockQueue' = Append(lockQueue, t)
  /\ UNCHANGED <<mem, tickets, ledger, batchOf, pools, pending, batches>>

\* acceptPayment threw: the order never reaches the engine.
RefusePayment(t) ==
  /\ t \in accepting
  /\ accepting' = accepting \ {t}
  /\ UNCHANGED <<mem, tickets, lockQueue, ledger, batchOf, pools, pending, batches>>

\* Mutant: fill before MAINNET-013, which asked the pool and not the trader.
FillableMutant(o) == o.authentic /\ (o.action = "sell" => mem.q[o.side] >= o.units)

\* fill's checks other than the payment gate: the signature, the trader's own position, the pool's
\* outstanding shares (applyUnitSell).
Fillable(o) ==
  /\ o.authentic
  /\ o.action = "sell" => /\ PositionOf(o.trader, o.side) >= o.units
                          /\ mem.q[o.side] >= o.units

Filled(o) == [mem EXCEPT !.q = Advance(@, o.side, SignedUnits(o)), !.seq = @ + 1]

\* Mutant: exec_orders without the index on (market, trader, nonce).
InsertableMutant(o) == \A i \in LedgerIds : ledger[i].seq # mem.seq + 1

\* The two UNIQUE indexes of exec_orders.
Insertable(o) ==
  \A i \in LedgerIds : /\ ledger[i].seq # mem.seq + 1
                       /\ <<ledger[i].trader, ledger[i].nonce>> # <<o.trader, o.nonce>>

\* Mutant: the receipt stores the signed units.
ReceiptForMutant(o) ==
  [seq |-> mem.seq + 1, trader |-> o.trader, side |-> o.side, action |-> o.action,
   units |-> SignedUnits(o), nonce |-> o.nonce, q |-> Filled(o).q]

\* The receipt of the fill that comes next.
ReceiptFor(o) ==
  [seq |-> mem.seq + 1, trader |-> o.trader, side |-> o.side, action |-> o.action,
   units |-> o.units, nonce |-> o.nonce, q |-> Filled(o).q]

\* fill, when every check passes and the receipt is persisted.
Fill ==
  /\ lockQueue # <<>>
  /\ LET o == Head(lockQueue).order
     IN  /\ Fillable(o)
         /\ Insertable(o)
         /\ mem' = Filled(o)
         /\ ledger' = Append(ledger, ReceiptFor(o))
         /\ batchOf' = Append(batchOf, 0)
  /\ lockQueue' = Tail(lockQueue)
  /\ UNCHANGED <<tickets, accepting, pools, pending, batches>>

\* fill, when the INSERT throws: the runtime has already been advanced.
FillNotPersisted ==
  /\ lockQueue # <<>>
  /\ LET o == Head(lockQueue).order
     IN  /\ Fillable(o)
         /\ ~Insertable(o)
         /\ mem' = Filled(o)
  /\ lockQueue' = Tail(lockQueue)
  /\ UNCHANGED <<tickets, accepting, ledger, batchOf, pools, pending, batches>>

\* Mutant: a lock whose chain a thrown fill leaves rejected.
RefuseOrderMutant ==
  /\ lockQueue # <<>>
  /\ LET o == Head(lockQueue).order
     IN  ~Fillable(o) \/ o.action = "buy"
  /\ UNCHANGED vars

\* fill, when a check throws.  The price of a buy may have moved past what was paid.
RefuseOrder ==
  /\ lockQueue # <<>>
  /\ LET o == Head(lockQueue).order
     IN  ~Fillable(o) \/ o.action = "buy"
  /\ lockQueue' = Tail(lockQueue)
  /\ UNCHANGED <<mem, tickets, accepting, ledger, batchOf, pools, pending, batches>>

\* The next link of the market's promise chain: it settles whether its fill succeeds or throws.
RunLock == Fill \/ FillNotPersisted \/ RefuseOrder

\* The process stops and starts again: everything in memory is gone, the database stays.
Restart ==
  /\ mem' = [open |-> FALSE, q |-> NoShares, seq |-> 0]
  /\ accepting' = {}
  /\ lockQueue' = <<>>
  /\ UNCHANGED <<tickets, ledger, batchOf, pools, pending, batches>>

-----------------------------------------------------------------------------
(* The settlement boundary *)

\* enqueue: at most one plan of a market awaits sign-off.
Enqueue(plan) ==
  /\ pending = {}
  /\ Len(pools) < MaxPools
  /\ pending' = {plan}

\* enqueueSettle over pendingBatch: every unsettled fill, netted; powFixed refuses a net past MaxNet.
EnqueueSettle ==
  /\ ~Resolved
  /\ Unsettled # {}
  /\ LET net == NetOf(ledger, Unsettled)
     IN  /\ \A s \in Side : Within(net[s], MaxNet)
         /\ Enqueue([kind |-> "settle", rows |-> Unsettled, net |-> net,
                     pool |-> [q |-> Plus(CurrentPool.q, net), winner |-> "none"]])
  /\ mem' = Opened
  /\ UNCHANGED <<tickets, accepting, lockQueue, ledger, batchOf, pools, batches>>

\* enqueueBuy and enqueueSell: one share bought from or sold to the pool itself.
EnqueueTrade(s, n) ==
  /\ ~Resolved
  /\ n = -1 => CurrentPool.q[s] >= 1
  /\ Enqueue([kind |-> "trade", rows |-> {}, net |-> NoShares,
              pool |-> [q |-> Advance(CurrentPool.q, s, n), winner |-> "none"]])
  /\ UNCHANGED <<mem, tickets, accepting, lockQueue, ledger, batchOf, pools, batches>>

\* enqueueResolve: nothing asks whether fills are still unsettled.
EnqueueResolve(w) ==
  /\ ~Resolved
  /\ Enqueue([kind |-> "resolve", rows |-> {}, net |-> NoShares,
              pool |-> [q |-> CurrentPool.q, winner |-> w]])
  /\ UNCHANGED <<mem, tickets, accepting, lockQueue, ledger, batchOf, pools, batches>>

\* reject, or authorize when the broadcast fails: the row is no longer pending.
Dismiss ==
  /\ pending # {}
  /\ pending' = {}
  /\ UNCHANGED <<mem, tickets, accepting, lockQueue, ledger, batchOf, pools, batches>>

\* resyncState: the settled pool's state becomes the engine's, if the market is open.
Resynced(q) == IF mem.open THEN [mem EXCEPT !.q = q] ELSE mem

\* Mutant: applyEffects stamps every fill of the market.
AuthorizeSettleMutant(plan) ==
  /\ plan \in pending
  /\ plan.kind = "settle"
  /\ \A s \in Side : plan.pool.q[s] >= 0
  /\ pools' = Append(pools, plan.pool)
  /\ batches' = Append(batches, [from |-> Len(pools) - 1, to |-> Len(pools),
                                 net |-> plan.net, digest |-> plan.rows])
  /\ batchOf' = [i \in LedgerIds |-> Len(batches) + 1]
  /\ mem' = Resynced(plan.pool.q)
  /\ pending' = {}
  /\ UNCHANGED <<tickets, accepting, lockQueue, ledger>>

\* applyEffects of a settle plan; the covenant lets no side go negative.
AuthorizeSettle(plan) ==
  /\ plan \in pending
  /\ plan.kind = "settle"
  /\ \A s \in Side : plan.pool.q[s] >= 0
  /\ pools' = Append(pools, plan.pool)
  /\ batches' = Append(batches, [from |-> Len(pools) - 1, to |-> Len(pools),
                                 net |-> plan.net, digest |-> plan.rows])
  /\ batchOf' = [i \in LedgerIds |-> IF i \in plan.rows /\ batchOf[i] = 0
                                     THEN Len(batches) + 1 ELSE batchOf[i]]
  /\ mem' = Resynced(plan.pool.q)
  /\ pending' = {}
  /\ UNCHANGED <<tickets, accepting, lockQueue, ledger>>

\* applyEffects of any other plan: the pool moves, the engine is not told.
AuthorizeOther(plan) ==
  /\ plan \in pending
  /\ plan.kind # "settle"
  /\ pools' = Append(pools, plan.pool)
  /\ pending' = {}
  /\ UNCHANGED <<mem, tickets, accepting, lockQueue, ledger, batchOf, batches>>

Next ==
  \/ Quote
  \/ \E o \in Orders : Submit(o)
  \/ \E t \in accepting : AcceptPayment(t) \/ RefusePayment(t)
  \/ RunLock
  \/ Restart
  \/ EnqueueSettle
  \/ \E s \in Side, n \in {1, -1} : EnqueueTrade(s, n)
  \/ \E w \in Side : EnqueueResolve(w)
  \/ Dismiss
  \/ \E plan \in pending : AuthorizeSettle(plan) \/ AuthorizeOther(plan)

Spec == Init /\ [][Next]_vars

\* The event loop runs a promise's continuation once it is ready; nothing else is taken as fair.
FairSpec == Spec /\ WF_vars(RunLock)

-----------------------------------------------------------------------------
(* The audit anyone can make of a settled batch *)

\* auditSettlement: the stamped receipts are the ones its digest commits to, they net to the
\* recorded net, and the pool moved by exactly that.  Signatures and cash are left out.
AuditPasses(b) ==
  /\ StampedBy(b) = batches[b].digest
  /\ NetOf(ledger, StampedBy(b)) = batches[b].net
  /\ pools[batches[b].to + 1].q = Plus(pools[batches[b].from + 1].q, batches[b].net)

\* auditMarket: every batch of the market.
AuditMarket == \A b \in 1..Len(batches) : AuditPasses(b)

-----------------------------------------------------------------------------
(* Properties *)

\* The types of the tables and of the runtime; one batch_id per receipt.
TypeOK ==
  /\ mem \in Runtime
  /\ tickets \in Nat
  /\ accepting \in SUBSET Ticket
  /\ lockQueue \in Seq(Ticket)
  /\ ledger \in Seq(Receipt)
  /\ batchOf \in Seq(Nat)
  /\ Len(batchOf) = Len(ledger)
  /\ pools \in Seq(Pool)
  /\ pools # <<>>
  /\ pending \in SUBSET Plan
  /\ batches \in Seq(Batch)

\* Nobody is ever net short: whatever a trader sold, that trader had bought before, in every order
\* of concurrent submits, after replays, restarts and settlements (engine.ts, MAINNET-013).
NoNakedShort ==
  \A t \in Traders, s \in Side : PositionOf(t, s) >= 0

\* The receipt chain has one total order, and the number the engine will give the next receipt is
\* past every number in the ledger, also after a restart re-seeded it: no fill is ever lost to a
\* sequence collision (engine.ts fill, service.ts ensureExecOpen).
LedgerInOrder ==
  /\ \A i, j \in LedgerIds : i < j => ledger[i].seq < ledger[j].seq
  /\ mem.open => \A i \in LedgerIds : ledger[i].seq <= mem.seq

\* auditSettlement finds nothing to report for any batch, whatever was filled, rejected or
\* restarted between building the settlement and applying it.
SettlementsAudit == AuditMarket

\* Whether a version of the pool was made by a direct trade: by no settlement, and not to resolve.
DirectlyTraded ==
  \E v \in 1..Len(pools) - 1 :
    pools[v + 1].winner = "none" /\ \A b \in 1..Len(batches) : batches[b].to # v

\* Until the operator trades on the pool itself, a settlement of what is unsettled is never oversold:
\* the covenant's "oversold" asserts cannot leave a market whose fills no transaction can settle.
SettlementCovered ==
  ~DirectlyTraded => \A s \in Side : CurrentPool.q[s] + NetOf(ledger, Unsettled)[s] >= 0

\* A receipt, once issued, never changes, and once a batch settled it no other batch does.
ReceiptsAreFinal ==
  [][ /\ Len(ledger') >= Len(ledger)
      /\ \A i \in LedgerIds : /\ ledger'[i] = ledger[i]
                              /\ batchOf[i] # 0 => batchOf'[i] = batchOf[i] ]_vars

\* A failed fill does not jam the market: every order that reached the lock is answered.
Queued(n) == \E k \in 1..Len(lockQueue) : lockQueue[k].id = n
EveryOrderAnswered ==
  \A n \in 1..MaxTickets : Queued(n) ~> ~Queued(n)

=============================================================================
