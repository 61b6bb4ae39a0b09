---------------------------- MODULE SignOffProofs ----------------------------
(***************************************************************************)
(* Theorems about the sign-off queue, for any number of rows and calls and *)
(* any interleaving of answers, lost answers, late acceptances, failures   *)
(* and restarts: some for any number of consoles, some for one console.    *)
(***************************************************************************)
EXTENDS SignOffRefinement, SequenceTheorems, FiniteSetTheorems, TLAPS

-----------------------------------------------------------------------------
(* The invariants *)

\* The transaction t makes the plan's move from the pool b.
Makes(t, plan, b) ==
  /\ chain[t].spends = b
  /\ chain[t].kind = plan.kind
  /\ chain[t].clears = plan.clears
  /\ chain[t].effect = IF b = 0 THEN plan.effect
                       ELSE [q |-> chain[b].effect.q + plan.delta,
                             resolved |-> chain[b].effect.resolved \/ plan.kind = "resolve"]

\* A plan only names things that exist; the deploy is the plan without a pool.
LinkedPlan(plan) ==
  /\ plan.clears \subseteq 1..fills
  /\ plan.ref \in 0..Len(chain)
  /\ plan.ref = 0 <=> plan.kind = "deploy"

\* A call spends an output of the chain, unless it deploys; once accepted, its transaction is
\* the one its plan makes from that output.
LinkedCall(c) ==
  /\ calls[c].row \in 1..Len(rows)
  /\ calls[c].base \in 0..Len(chain)
  /\ calls[c].base = 0 <=> rows[calls[c].row].plan.kind = "deploy"
  /\ calls[c].tx # 0 => /\ calls[c].tx \in 1..Len(chain)
                        /\ Makes(calls[c].tx, rows[calls[c].row].plan, calls[c].base)

\* What rows, calls, pools and the warm instance refer to is there.
Linked ==
  /\ \A r \in 1..Len(rows) : LinkedPlan(rows[r].plan)
  /\ \A c \in 1..Len(calls) : LinkedCall(c)
  /\ \A v \in 1..Len(pools) : pools[v].tx \in 1..Len(chain)
  /\ warm \in 0..Len(chain)

\* The transactions of one root form a line: an output is spent once, only the last one is
\* unspent, and what the line has paid it has paid for good.
Line ==
  /\ \A t \in 1..Len(chain) :
       /\ chain[t].spends \in 0..(t - 1)
       /\ chain[t].root \in 1..t
       /\ chain[t].kind = "payout" => chain[t].paid
  /\ \A i, j \in 1..Len(chain) : i # j /\ chain[i].spends = chain[j].spends => chain[i].spends = 0
  /\ \A i, j \in 1..Len(chain) : i < j /\ chain[i].root = chain[j].root =>
       /\ ~Unspent(i)
       /\ chain[i].paid => chain[j].paid

\* What the current pool is to a plan built over it.
OverCurrent(plan) ==
  IF pools = <<>>
  THEN plan.kind = "deploy" /\ plan.ref = 0 /\ plan.clears = {} /\ plan.effect = FreshPool
  ELSE /\ plan.kind # "deploy"
       /\ plan.ref = CurrentPool.tx
       /\ plan.clears \cap stamped = {}
       /\ plan.effect = [q |-> CurrentPool.effect.q + plan.delta,
                         resolved |-> CurrentPool.effect.resolved \/ plan.kind = "resolve"]

\* The output the current pool is; 0 before the deploy.
Tip == IF pools = <<>> THEN 0 ELSE CurrentPool.tx

\* One console: a single plan waits, over the current pool, and the call in flight is its own.
OneAtATime ==
  /\ \A r \in 1..Len(rows) : rows[r].status = "pending" => OverCurrent(rows[r].plan)
  /\ \A r, s \in 1..Len(rows) : rows[r].status = "pending" /\ rows[s].status = "pending" => r = s
  /\ \A c, d \in InFlight : c = d
  /\ \A c \in InFlight : rows[calls[c].row].status = "pending" /\ calls[c].base = Tip
  /\ warm \in {0, Tip}

\* One console: the versions of the pool are the covenant's own history, in chain order.
Mirror ==
  /\ \A v \in 1..Len(pools) :
       /\ pools[v].tx \in 1..Len(chain)
       /\ chain[pools[v].tx].effect = pools[v].effect
       /\ chain[pools[v].tx].spends = IF v = 1 THEN 0 ELSE pools[v - 1].tx
  /\ \A v, w \in 1..Len(pools) : v < w => pools[v].tx < pools[w].tx

\* One console: every call spends some version of the pool, and one that spends the current
\* version clears nothing that is settled; a transaction on an older version cleared only what
\* the database has stamped.
Behind ==
  /\ \A c \in 1..Len(calls) : calls[c].base # 0 =>
       \E v \in 1..Len(pools) :
         /\ calls[c].base = pools[v].tx
         /\ v = Len(pools) => rows[calls[c].row].plan.clears \cap stamped = {}
  /\ \A c \in 1..Len(calls) : calls[c].base = 0 => rows[calls[c].row].plan.clears = {}
  /\ \A t \in 1..Len(chain) : chain[t].clears # {} =>
       \E v \in 1..Len(pools) :
         /\ chain[t].spends = pools[v].tx
         /\ v < Len(pools) => chain[t].clears \subseteq stamped

ConsoleInv == OneConsole => OneAtATime /\ Mirror /\ Behind /\ SettledOnce /\ PoolKnownOnChain

SignOffInv == Linked /\ Line /\ StampedIsCleared /\ PoolPaysOnce /\ ConsoleInv

-----------------------------------------------------------------------------
(* Type correctness *)

\* What the types say of the elements of the sequences.
LEMMA Elements ==
  ASSUME TypeOK
  PROVE  /\ Len(rows) \in Nat  /\ \A r \in 1..Len(rows) : rows[r] \in Row
         /\ Len(pools) \in Nat /\ \A v \in 1..Len(pools) : pools[v] \in PoolRow
         /\ Len(calls) \in Nat /\ \A c \in 1..Len(calls) : calls[c] \in Call
         /\ Len(chain) \in Nat /\ \A t \in 1..Len(chain) : chain[t] \in Tx
         /\ pools = <<>> <=> Len(pools) = 0
         /\ pools # <<>> => Len(pools) \in 1..Len(pools) /\ CurrentPool \in PoolRow
<1>1. /\ rows \in Seq(Row) /\ pools \in Seq(PoolRow)
      /\ calls \in Seq(Call) /\ chain \in Seq(Tx)
  BY DEF TypeOK
<1>2. Len(rows) \in Nat /\ \A r \in 1..Len(rows) : rows[r] \in Row
  BY <1>1, LenProperties, ElementOfSeq
<1>3. Len(pools) \in Nat /\ \A v \in 1..Len(pools) : pools[v] \in PoolRow
  BY <1>1, LenProperties, ElementOfSeq
<1>4. Len(calls) \in Nat /\ \A c \in 1..Len(calls) : calls[c] \in Call
  BY <1>1, LenProperties, ElementOfSeq
<1>5. Len(chain) \in Nat /\ \A t \in 1..Len(chain) : chain[t] \in Tx
  BY <1>1, LenProperties, ElementOfSeq
<1>6. pools = <<>> <=> Len(pools) = 0
  BY <1>1, EmptySeq
<1>7. pools # <<>> => Len(pools) \in 1..Len(pools) /\ CurrentPool \in PoolRow
  BY <1>3, <1>6 DEF CurrentPool
<1> QED
  BY <1>2, <1>3, <1>4, <1>5, <1>6, <1>7

\* The operator parks a plan over the current pool.
Park(plan) ==
  /\ plan \in Plan
  /\ LinkedPlan(plan)
  /\ OverCurrent(plan)
  /\ Enqueue(plan)
  /\ UNCHANGED <<pools, fills, stamped, warm, calls, chain>>

\* Every enqueue handler parks a plan over the current pool.
LEMMA EnqueueParks ==
  ASSUME TypeOK, Linked,
         \/ EnqueueDeploy \/ EnqueueSettle \/ EnqueueResolve \/ EnqueuePayout
         \/ \E n \in life.trades : EnqueueTrade(n)
  PROVE  \E plan : Park(plan)
<1>1. CASE EnqueueDeploy
  <2> DEFINE plan == [kind |-> "deploy", ref |-> 0, delta |-> 0, clears |-> {}, effect |-> FreshPool]
  <2>1. plan \in Plan
    BY DEF Plan, Kind, FreshPool, Effect
  <2>2. LinkedPlan(plan)
    BY DEF LinkedPlan
  <2>3. OverCurrent(plan)
    BY <1>1 DEF OverCurrent, EnqueueDeploy
  <2> QED
    BY <1>1, <2>1, <2>2, <2>3 DEF Park, EnqueueDeploy
<1>2. ASSUME NEW kind \in Kind \ {"deploy"}, NEW delta \in Int, NEW clears \in SUBSET (1..fills),
             NEW resolved \in BOOLEAN,
             pools # <<>>, clears \cap stamped = {},
             resolved = (CurrentPool.effect.resolved \/ kind = "resolve")
      PROVE  /\ PlanOver(kind, delta, clears, resolved) \in Plan
             /\ LinkedPlan(PlanOver(kind, delta, clears, resolved))
             /\ OverCurrent(PlanOver(kind, delta, clears, resolved))
  <2> DEFINE plan == PlanOver(kind, delta, clears, resolved)
  <2>1. /\ CurrentPool.tx \in 1..Len(chain)
        /\ CurrentPool.effect.q \in Int
    BY <1>2, Elements DEF Linked, CurrentPool, PoolRow, Effect
  <2>2. clears \in SUBSET Nat
    BY DEF TypeOK
  <2>3. plan \in Plan
    BY <2>1, <2>2 DEF PlanOver, Plan, Effect
  <2>4. LinkedPlan(plan)
    BY <2>1 DEF PlanOver, LinkedPlan
  <2>5. OverCurrent(plan)
    BY <1>2 DEF PlanOver, OverCurrent
  <2> QED
    BY <2>3, <2>4, <2>5
<1>3. ASSUME NEW n \in life.trades, EnqueueTrade(n) PROVE \E plan : Park(plan)
  <2>1. n \in Int
    BY LivesAssumption DEF TypeOK
  <2>2. pools # <<>> /\ CurrentPool.effect.resolved = FALSE
    BY <1>3, Elements DEF EnqueueTrade, Tradable, PoolRow, Effect
  <2>3. Enqueue(PlanOver("trade", n, {}, FALSE))
    BY <1>3 DEF EnqueueTrade
  <2> QED
    BY <1>2, <1>3, <2>1, <2>2, <2>3 DEF Park, EnqueueTrade, Kind
<1>4. CASE EnqueueSettle
  <2>1. pools # <<>> /\ CurrentPool.effect.resolved = FALSE
    BY <1>4, Elements DEF EnqueueSettle, Tradable, PoolRow, Effect
  <2>2. Unsettled \in SUBSET (1..fills) /\ Unsettled \cap stamped = {}
    BY DEF Unsettled
  <2>3. Cardinality(Unsettled) \in Int
    <3>1. fills \in Int /\ 1 \in Int
      BY DEF TypeOK
    <3>2. IsFiniteSet(1..fills)
      BY <3>1, FS_Interval
    <3>3. IsFiniteSet(Unsettled)
      BY <2>2, <3>2, FS_Subset
    <3>4. Cardinality(Unsettled) \in Nat
      BY <3>3, FS_CardinalityType
    <3> QED
      BY <3>4
  <2>4. Enqueue(PlanOver("settle", Cardinality(Unsettled), Unsettled, FALSE))
    BY <1>4 DEF EnqueueSettle
  <2> QED
    BY <1>2, <1>4, <2>1, <2>2, <2>3, <2>4 DEF Park, EnqueueSettle, Kind
<1>5. CASE EnqueueResolve
  <2>1. pools # <<>>
    BY <1>5 DEF EnqueueResolve, Tradable
  <2>2. Enqueue(PlanOver("resolve", 0, {}, TRUE))
    BY <1>5 DEF EnqueueResolve
  <2>3. {} \in SUBSET (1..fills) /\ {} \cap stamped = {} /\ 0 \in Int
    OBVIOUS
  <2>4. Park(PlanOver("resolve", 0, {}, TRUE))
    BY <1>2, <1>5, <2>1, <2>2, <2>3 DEF Park, EnqueueResolve, Kind
  <2> QED
    BY <2>4
<1>6. CASE EnqueuePayout
  <2>1. pools # <<>> /\ CurrentPool.effect.resolved = TRUE
    BY <1>6, Elements DEF EnqueuePayout, PoolRow, Effect
  <2>2. Enqueue(PlanOver("payout", 0, {}, TRUE))
    BY <1>6 DEF EnqueuePayout
  <2>3. {} \in SUBSET (1..fills) /\ {} \cap stamped = {} /\ 0 \in Int
    OBVIOUS
  <2>4. Park(PlanOver("payout", 0, {}, TRUE))
    BY <1>2, <1>6, <2>1, <2>2, <2>3 DEF Park, EnqueuePayout, Kind
  <2> QED
    BY <2>4
<1> QED
  BY <1>1, <1>3, <1>4, <1>5, <1>6

\* Any step parks a plan or is one of the other actions.
LEMMA StepCases ==
  ASSUME TypeOK, Linked, [Next]_vars
  PROVE  /\ life' = life
         /\ \/ \E plan : Park(plan)
            \/ NewFill
            \/ \E r \in 1..Len(rows) : Authorize(r) \/ Reject(r)
            \/ \E c \in 1..Len(calls) : Accept(c) \/ Complete(c) \/ CompleteColliding(c) \/ Fail(c)
            \/ OtherMarketFails
            \/ Restart
            \/ UNCHANGED vars
  BY EnqueueParks DEF Next, Step, vars

\* Replacing one call by another.
LEMMA CallReplaced ==
  ASSUME calls \in Seq(Call), NEW c \in 1..Len(calls), NEW e \in Call
  PROVE  calls' = [calls EXCEPT ![c] = e] =>
           /\ calls' \in Seq(Call) /\ Len(calls') = Len(calls)
           /\ \A d \in 1..Len(calls) : calls'[d] = IF d = c THEN e ELSE calls[d]
  BY ExceptSeq

\* An answer ends one call and changes nothing else of any call.
LEMMA CallEnds ==
  ASSUME calls \in Seq(Call), NEW c \in 1..Len(calls)
  PROVE  calls' = [calls EXCEPT ![c].live = FALSE] =>
           /\ calls' \in Seq(Call) /\ Len(calls') = Len(calls)
           /\ \A d \in 1..Len(calls) : /\ calls'[d].row = calls[d].row
                                       /\ calls'[d].base = calls[d].base
                                       /\ calls'[d].tx = calls[d].tx
                                       /\ calls'[d].live = (d # c /\ calls[d].live)
<1> DEFINE e == [calls[c] EXCEPT !.live = FALSE]
<1>0. \A d \in 1..Len(calls) : calls[d] \in Call
  BY ElementOfSeq
<1>1. \A d \in 1..Len(calls) : calls[d] \in Call /\ calls[d].live \in BOOLEAN
  BY <1>0 DEF Call
<1>2. /\ e \in Call /\ e.row = calls[c].row /\ e.base = calls[c].base
      /\ e.tx = calls[c].tx /\ e.live = FALSE
  BY <1>1 DEF Call
<1>3. e \in Call
  BY <1>2
<1>4. calls' = [calls EXCEPT ![c] = e] =>
        /\ calls' \in Seq(Call) /\ Len(calls') = Len(calls)
        /\ \A d \in 1..Len(calls) : calls'[d] = IF d = c THEN e ELSE calls[d]
  <2> HIDE DEF e
  <2> QED
    BY <1>3, CallReplaced
<1>5. calls' = [calls EXCEPT ![c].live = FALSE] => calls' = [calls EXCEPT ![c] = e]
  OBVIOUS
<1> HIDE DEF e
<1> QED
  BY <1>1, <1>2, <1>4, <1>5

\* The network gives one call its transaction and changes nothing else of any call.
LEMMA CallAccepted ==
  ASSUME calls \in Seq(Call), NEW c \in 1..Len(calls), NEW t \in Nat,
         calls' = [calls EXCEPT ![c].tx = t]
  PROVE  /\ calls' \in Seq(Call) /\ Len(calls') = Len(calls)
         /\ \A d \in 1..Len(calls) : /\ calls'[d].row = calls[d].row
                                     /\ calls'[d].base = calls[d].base
                                     /\ calls'[d].tx = (IF d = c THEN t ELSE calls[d].tx)
                                     /\ calls'[d].live = calls[d].live
<1> DEFINE e == [calls[c] EXCEPT !.tx = t]
<1>1. \A d \in 1..Len(calls) : calls[d] \in Call
  BY ElementOfSeq
<1>2. /\ e \in Call /\ e.row = calls[c].row /\ e.base = calls[c].base
      /\ e.tx = t /\ e.live = calls[c].live
  BY <1>1 DEF Call
<1>3. calls' = [calls EXCEPT ![c] = e]
  OBVIOUS
<1> HIDE DEF e
<1>4. /\ calls' \in Seq(Call) /\ Len(calls') = Len(calls)
      /\ \A d \in 1..Len(calls) : calls'[d] = IF d = c THEN e ELSE calls[d]
  BY <1>2, <1>3, ExceptSeq
<1> QED
  BY <1>2, <1>4

\* A restart ends every call and changes nothing else of any call.
LEMMA CallsEnd ==
  ASSUME calls \in Seq(Call),
         calls' = [c \in 1..Len(calls) |-> [calls[c] EXCEPT !.live = FALSE]]
  PROVE  /\ calls' \in Seq(Call) /\ Len(calls') = Len(calls)
         /\ \A d \in 1..Len(calls) : /\ calls'[d].row = calls[d].row
                                     /\ calls'[d].base = calls[d].base
                                     /\ calls'[d].tx = calls[d].tx
                                     /\ ~calls'[d].live
<1>1. Len(calls) \in Nat /\ \A d \in 1..Len(calls) : calls[d] \in Call
  BY ElementOfSeq, LenProperties
<1>2. \A d \in 1..Len(calls) : /\ calls'[d] \in Call
                               /\ calls'[d].row = calls[d].row
                               /\ calls'[d].base = calls[d].base
                               /\ calls'[d].tx = calls[d].tx
                               /\ ~calls'[d].live
  BY <1>1 DEF Call
<1>3. calls' \in [1..Len(calls) -> Call]
  BY <1>1, <1>2
<1>4. calls' \in Seq(Call) /\ Len(calls') = Len(calls)
  BY <1>1, <1>3
<1> QED
  BY <1>2, <1>4

\* A decision gives one row its status, and the plan of no row changes.
LEMMA RowDecided ==
  ASSUME rows \in Seq(Row), NEW r \in 1..Len(rows), NEW status \in Status, NEW t \in Nat
  PROVE  (\/ rows' = [rows EXCEPT ![r].status = status] /\ t = rows[r].tx
          \/ rows' = [rows EXCEPT ![r].status = status, ![r].tx = t]) =>
         /\ rows' \in Seq(Row) /\ Len(rows') = Len(rows)
         /\ \A q \in 1..Len(rows) : /\ rows'[q].plan = rows[q].plan
                                    /\ q # r => rows'[q] = rows[q]
         /\ rows'[r].status = status /\ rows'[r].tx = t
<1> DEFINE e == [status |-> status, plan |-> rows[r].plan, tx |-> t]
<1>1. \A q \in 1..Len(rows) : rows[q] \in Row
  BY ElementOfSeq
<1>2. e \in Row
  BY <1>1 DEF Row
<1> DEFINE d == [status |-> status, plan |-> rows[r].plan, tx |-> rows[r].tx]
<1>3. [rows[r] EXCEPT !.status = status] = d
  BY <1>1 DEF Row
<1>4. [rows[r] EXCEPT !.status = status, !.tx = t] = e
  <2>1. [d EXCEPT !.tx = t] = e
    OBVIOUS
  <2>2. [rows[r] EXCEPT !.status = status, !.tx = t] = [[rows[r] EXCEPT !.status = status] EXCEPT !.tx = t]
    BY Zenon
  <2> HIDE DEF d, e
  <2> QED
    BY <1>3, <2>1, <2>2
<1>5. /\ t = rows[r].tx => [rows EXCEPT ![r].status = status] = [rows EXCEPT ![r] = e]
      /\ [rows EXCEPT ![r].status = status, ![r].tx = t] = [rows EXCEPT ![r] = e]
  <2>1. [rows EXCEPT ![r].status = status, ![r].tx = t]
          = [rows EXCEPT ![r] = [rows[r] EXCEPT !.status = status, !.tx = t]]
    BY Zenon
  <2>2. t = rows[r].tx => d = e
    OBVIOUS
  <2> HIDE DEF d, e
  <2> QED
    BY <1>3, <1>4, <2>1, <2>2, Zenon
<1>6. rows' = [rows EXCEPT ![r] = e] =>
        /\ rows' \in Seq(Row) /\ Len(rows') = Len(rows)
        /\ \A q \in 1..Len(rows) : rows'[q] = IF q = r THEN e ELSE rows[q]
  <2> HIDE DEF e
  <2> QED
    BY <1>2, ExceptSeq
<1>7. e.status = status /\ e.plan = rows[r].plan /\ e.tx = t
  OBVIOUS
<1> HIDE DEF e
<1> QED
  BY <1>5, <1>6, <1>7

\* What a step may do to each sequence: rows, calls and the chain only grow, a row keeps its
\* plan, a call its row and its output, and once it is accepted its transaction.
LEMMA NothingIsTakenBack ==
  ASSUME TypeOK, Linked, [Next]_vars
  PROVE  /\ Len(rows') \in Nat /\ Len(rows) <= Len(rows')
         /\ \A r \in 1..Len(rows) : rows'[r].plan = rows[r].plan
         /\ Len(calls') \in Nat /\ Len(calls) <= Len(calls')
         /\ \A c \in 1..Len(calls) : /\ calls'[c].row = calls[c].row
                                     /\ calls'[c].base = calls[c].base
                                     /\ calls[c].tx # 0 => calls'[c].tx = calls[c].tx
         /\ Len(chain') \in Nat /\ Len(chain) <= Len(chain')
         /\ \A t \in 1..Len(chain) : chain'[t] = chain[t]
         /\ fills' \in Nat /\ fills <= fills'
<1> DEFINE Goal == /\ Len(rows') \in Nat /\ Len(rows) <= Len(rows')
                   /\ \A r \in 1..Len(rows) : rows'[r].plan = rows[r].plan
                   /\ Len(calls') \in Nat /\ Len(calls) <= Len(calls')
                   /\ \A c \in 1..Len(calls) : /\ calls'[c].row = calls[c].row
                                               /\ calls'[c].base = calls[c].base
                                               /\ calls[c].tx # 0 => calls'[c].tx = calls[c].tx
                   /\ Len(chain') \in Nat /\ Len(chain) <= Len(chain')
                   /\ \A t \in 1..Len(chain) : chain'[t] = chain[t]
                   /\ fills' \in Nat /\ fills <= fills'
<1>0. /\ rows \in Seq(Row) /\ calls \in Seq(Call) /\ chain \in Seq(Tx) /\ fills \in Nat
      /\ Len(rows) \in Nat /\ Len(calls) \in Nat /\ Len(chain) \in Nat
      /\ \A r \in 1..Len(rows) : rows[r] \in Row
      /\ \A c \in 1..Len(calls) : calls[c] \in Call
  BY Elements DEF TypeOK
<1>1. ASSUME NEW plan, Park(plan) PROVE Goal
  <2>1. rows' = Append(rows, [status |-> "pending", plan |-> plan, tx |-> 0])
    BY <1>1 DEF Park, Enqueue
  <2>2. Len(rows') = Len(rows) + 1 /\ \A r \in 1..Len(rows) : rows'[r] = rows[r]
    BY <1>0, <2>1
  <2> QED
    BY <1>0, <1>1, <2>2 DEF Park
<1>2. CASE NewFill
  BY <1>0, <1>2 DEF NewFill
<1>3. ASSUME NEW r \in 1..Len(rows), Authorize(r) PROVE Goal
  <2>1. \E call : calls' = Append(calls, call)
    BY <1>3 DEF Authorize
  <2>2. Len(calls') = Len(calls) + 1 /\ \A c \in 1..Len(calls) : calls'[c] = calls[c]
    BY <1>0, <2>1
  <2> QED
    BY <1>0, <1>3, <2>2 DEF Authorize
<1>4. ASSUME NEW r \in 1..Len(rows), Reject(r) PROVE Goal
  BY <1>0, <1>4 DEF Reject, Row
<1>5. ASSUME NEW c \in 1..Len(calls), Accept(c) PROVE Goal
  <2>1. Len(chain') = Len(chain) + 1 /\ \A t \in 1..Len(chain) : chain'[t] = chain[t]
    BY <1>0, <1>5 DEF Accept
  <2>2. calls' = [calls EXCEPT ![c].tx = Len(chain')] /\ calls[c].tx = 0 /\ Len(chain') \in Nat
    BY <1>0, <1>5, <2>1 DEF Accept
  <2>3. /\ Len(calls') = Len(calls)
        /\ \A d \in 1..Len(calls) : /\ calls'[d].row = calls[d].row
                                    /\ calls'[d].base = calls[d].base
                                    /\ calls[d].tx # 0 => calls'[d].tx = calls[d].tx
    BY <1>0, <2>2, CallAccepted
  <2> QED
    BY <1>0, <1>5, <2>1, <2>3 DEF Accept
<1>6. ASSUME NEW c \in 1..Len(calls), Complete(c) PROVE Goal
  <2>1. calls' = [calls EXCEPT ![c].live = FALSE]
    BY <1>6 DEF Complete
  <2>2. rows' = [rows EXCEPT ![calls[c].row].status = "broadcast", ![calls[c].row].tx = calls[c].tx]
    BY <1>6 DEF Complete
  <2>3. calls[c].row \in 1..Len(rows)
    BY DEF Linked, LinkedCall
  <2>4. calls[c].tx \in Nat /\ "broadcast" \in Status
    BY <1>0 DEF Call, Status
  <2>5. Len(rows') = Len(rows) /\ \A r \in 1..Len(rows) : rows'[r].plan = rows[r].plan
    BY <1>0, <2>2, <2>3, <2>4, RowDecided
  <2> QED
    BY <1>0, <1>6, <2>1, <2>5, CallEnds DEF Complete
<1>7. ASSUME NEW c \in 1..Len(calls), CompleteColliding(c) PROVE Goal
  BY <1>0, <1>7, CallEnds DEF CompleteColliding
<1>8. ASSUME NEW c \in 1..Len(calls), Fail(c) PROVE Goal
  <2>1. calls[c].row \in 1..Len(rows)
    BY DEF Linked, LinkedCall
  <2>2. rows[calls[c].row].tx \in Nat /\ "failed" \in Status
    BY <1>0, <2>1 DEF Row, Status
  <2>3. rows' = [rows EXCEPT ![calls[c].row].status = "failed"]
    BY <1>8 DEF Fail
  <2>4. Len(rows') = Len(rows) /\ \A r \in 1..Len(rows) : rows'[r].plan = rows[r].plan
    BY <1>0, <2>1, <2>2, <2>3, RowDecided
  <2> QED
    BY <1>0, <1>8, <2>4, CallEnds DEF Fail
<1>9. CASE Restart
  BY <1>0, <1>9, CallsEnd DEF Restart
<1>10. CASE OtherMarketFails \/ UNCHANGED vars
  BY <1>0, <1>10 DEF OtherMarketFails, vars
<1>11. Goal
  BY <1>1, <1>2, <1>3, <1>4, <1>5, <1>6, <1>7, <1>8, <1>9, <1>10, StepCases
<1> QED
  BY <1>11

\* So what was linked stays linked.
LEMMA LinksKept ==
  ASSUME TypeOK, Linked, [Next]_vars
  PROVE  /\ \A r \in 1..Len(rows) : LinkedPlan(rows[r].plan)'
         /\ \A t \in 1..Len(chain), plan, b \in 0..Len(chain) : Makes(t, plan, b) => Makes(t, plan, b)'
         /\ \A c \in 1..Len(calls) : calls'[c].tx = calls[c].tx => LinkedCall(c)'
<1> USE Elements, NothingIsTakenBack
<1>1. ASSUME NEW r \in 1..Len(rows) PROVE LinkedPlan(rows[r].plan)'
  <2>1. LinkedPlan(rows[r].plan) /\ rows'[r].plan = rows[r].plan
    BY DEF Linked
  <2>2. fills \in Nat /\ fills' \in Nat /\ fills <= fills'
    BY DEF TypeOK
  <2>3. rows'[r].plan.clears \subseteq 1..fills'
    BY <2>1, <2>2 DEF LinkedPlan
  <2>4. rows'[r].plan.ref \in 0..Len(chain')
    BY <2>1 DEF LinkedPlan
  <2> QED
    BY <2>1, <2>3, <2>4 DEF LinkedPlan
<1>2. ASSUME NEW t \in 1..Len(chain), NEW plan, NEW b \in 0..Len(chain), Makes(t, plan, b)
      PROVE  Makes(t, plan, b)'
  <2>1. chain'[t] = chain[t] /\ (b # 0 => chain'[b] = chain[b])
    OBVIOUS
  <2> QED
    BY <1>2, <2>1 DEF Makes
<1>3. ASSUME NEW c \in 1..Len(calls), calls'[c].tx = calls[c].tx PROVE LinkedCall(c)'
  <2>1. LinkedCall(c)
    BY DEF Linked
  <2>2. /\ calls'[c].row = calls[c].row /\ calls'[c].base = calls[c].base
        /\ rows'[calls[c].row].plan = rows[calls[c].row].plan
    BY <2>1 DEF LinkedCall
  <2>3. /\ calls[c].row \in 1..Len(rows') /\ calls[c].base \in 0..Len(chain')
        /\ calls[c].tx # 0 => calls[c].tx \in 1..Len(chain')
    BY <2>1 DEF LinkedCall
  <2>4. calls[c].tx # 0 => Makes(calls[c].tx, rows[calls[c].row].plan, calls[c].base)'
    BY <1>2, <2>1 DEF LinkedCall
  <2> QED
    BY <1>3, <2>1, <2>2, <2>3, <2>4 DEF LinkedCall, Makes
<1> QED
  BY <1>1, <1>2, <1>3

\* Every step keeps the types and the links.
LEMMA LinkedStep ==
  ASSUME TypeOK, Linked, [Next]_vars
  PROVE  TypeOK' /\ Linked'
<1>0. /\ life \in Lives /\ rows \in Seq(Row) /\ pools \in Seq(PoolRow)
      /\ fills \in Nat /\ stamped \in SUBSET (1..fills)
      /\ warm \in Nat /\ calls \in Seq(Call) /\ chain \in Seq(Tx)
      /\ Len(rows) \in Nat /\ Len(pools) \in Nat /\ Len(calls) \in Nat /\ Len(chain) \in Nat
  BY Elements DEF TypeOK
<1>1. life' \in Lives
  BY <1>0, StepCases
<1>2. /\ \A v \in 1..Len(pools) : pools[v].tx \in 1..Len(chain')
      /\ warm \in 0..Len(chain')
      /\ \A r \in 1..Len(rows) : LinkedPlan(rows[r].plan)'
      /\ \A c \in 1..Len(calls) : calls'[c].tx = calls[c].tx => LinkedCall(c)'
  BY <1>0, NothingIsTakenBack, LinksKept DEF Linked
<1>3. ASSUME pools' = pools, warm' \in {0, warm}, rows' \in Seq(Row), Len(rows') = Len(rows),
             calls' \in Seq(Call), Len(calls') = Len(calls),
             \A c \in 1..Len(calls) : calls'[c].tx = calls[c].tx,
             stamped' = stamped, chain' = chain
      PROVE  TypeOK' /\ Linked'
  <2>1. \A r \in 1..Len(rows) : LinkedPlan(rows[r].plan)'
    BY <1>2, NothingIsTakenBack DEF LinkedPlan
  <2>2. TypeOK'
    BY <1>0, <1>1, <1>3, NothingIsTakenBack DEF TypeOK
  <2> QED
    BY <1>2, <1>3, <2>1, <2>2 DEF Linked
<1>4. ASSUME NEW plan, Park(plan) PROVE TypeOK' /\ Linked'
  <2> DEFINE row == [status |-> "pending", plan |-> plan, tx |-> 0]
  <2>1. row \in Row
    BY <1>4 DEF Park, Row, Status
  <2>2. rows' = Append(rows, row)
    BY <1>4 DEF Park, Enqueue
  <2>3. row.plan = plan
    OBVIOUS
  <2> HIDE DEF row
  <2>4. /\ rows' \in Seq(Row) /\ Len(rows') = Len(rows) + 1
        /\ \A r \in 1..Len(rows) : rows'[r] = rows[r]
        /\ rows'[Len(rows) + 1] = row
    BY <1>0, <2>1, <2>2, AppendProperties
  <2>5. UNCHANGED <<pools, fills, stamped, warm, calls, chain>> /\ LinkedPlan(plan)
    BY <1>4 DEF Park
  <2>6. TypeOK'
    BY <1>0, <1>1, <2>4, <2>5 DEF TypeOK
  <2>7. \A r \in {Len(rows) + 1} : LinkedPlan(rows[r].plan)'
    BY <2>3, <2>4, <2>5 DEF LinkedPlan
  <2>8. \A r \in 1..Len(rows') : LinkedPlan(rows[r].plan)'
    BY <1>0, <1>2, <2>4, <2>7 DEF LinkedPlan
  <2> QED
    BY <1>2, <2>5, <2>6, <2>8 DEF Linked
<1>5. CASE NewFill
  <2>1. fills' = fills + 1 /\ UNCHANGED <<rows, pools, stamped, warm, calls, chain>>
    BY <1>5 DEF NewFill
  <2>2. stamped' \in SUBSET (1..fills')
    BY <1>0, <2>1
  <2>3. TypeOK'
    BY <1>0, <1>1, <2>1, <2>2 DEF TypeOK
  <2> QED
    BY <1>2, <2>1, <2>3 DEF Linked
<1>6. ASSUME NEW r \in 1..Len(rows), Authorize(r) PROVE TypeOK' /\ Linked'
  <2> DEFINE plan == rows[r].plan
             base == IF plan.kind = "deploy" THEN 0 ELSE LivePool(plan)
             call == [row |-> r, base |-> base, tx |-> 0, live |-> TRUE]
  <2>1. LinkedPlan(plan)
    BY DEF Linked
  <2>2. base \in 0..Len(chain) /\ (base = 0 <=> plan.kind = "deploy")
    BY <1>0, <2>1 DEF Linked, LinkedPlan, LivePool
  <2>3. call \in Call
    BY <1>0, <2>2 DEF Call
  <2>4. /\ calls' = Append(calls, call)
        /\ warm' \in {warm, base}
        /\ UNCHANGED <<rows, pools, fills, stamped, chain>>
    BY <1>6 DEF Authorize
  <2>5. call.row = r /\ call.base = base /\ call.tx = 0
    OBVIOUS
  <2> HIDE DEF call
  <2>6. /\ calls' \in Seq(Call) /\ Len(calls') = Len(calls) + 1
        /\ \A c \in 1..Len(calls) : calls'[c] = calls[c]
        /\ calls'[Len(calls) + 1] = call
    BY <1>0, <2>3, <2>4, AppendProperties
  <2>7. warm' \in 0..Len(chain)
    BY <1>2, <2>2, <2>4 DEF Linked
  <2>8. TypeOK'
    BY <1>0, <1>1, <2>4, <2>6, <2>7 DEF TypeOK
  <2>9. \A c \in {Len(calls) + 1} : LinkedCall(c)'
    BY <2>2, <2>4, <2>5, <2>6 DEF LinkedCall
  <2>10. ASSUME NEW c \in 1..Len(calls') PROVE LinkedCall(c)'
    <3>1. CASE c \in 1..Len(calls)
      BY <1>2, <2>6, <3>1
    <3>2. CASE c = Len(calls) + 1
      BY <2>9, <3>2
    <3> QED
      BY <1>0, <2>6, <3>1, <3>2
  <2> QED
    BY <1>2, <2>4, <2>7, <2>8, <2>10 DEF Linked
<1>7. ASSUME NEW r \in 1..Len(rows), Reject(r) PROVE TypeOK' /\ Linked'
  <2>1. rows[r].tx \in Nat /\ "rejected" \in Status
    BY Elements DEF Row, Status
  <2>2. rows' \in Seq(Row) /\ Len(rows') = Len(rows)
    BY <1>0, <1>7, <2>1, RowDecided DEF Reject
  <2> QED
    BY <1>0, <1>3, <1>7, <2>2 DEF Reject
<1>8. ASSUME NEW c \in 1..Len(calls), Accept(c) PROVE TypeOK' /\ Linked'
  <2> DEFINE plan == rows[calls[c].row].plan
             b    == calls[c].base
             tx   == TxOf(plan, b)
  <2>1. LinkedCall(c) /\ plan \in Plan
    BY Elements DEF Linked, LinkedCall, Row
  <2>2. b \in 0..Len(chain) /\ (b # 0 => chain[b] \in Tx)
    BY <2>1, Elements DEF LinkedCall
  <2>3. tx \in Tx
    <3>1. /\ plan.kind \in Kind /\ plan.delta \in Int /\ plan.clears \in SUBSET Nat
          /\ plan.effect \in Effect
      BY <2>1 DEF Plan
    <3>2. b # 0 => chain[b].root \in Nat /\ chain[b].paid \in BOOLEAN /\ chain[b].effect \in Effect
      BY <2>2 DEF Tx
    <3>3. tx.effect \in Effect
      BY <3>1, <3>2 DEF TxOf, Effect
    <3>4. /\ tx.spends \in Nat /\ tx.root \in Nat /\ tx.kind \in Kind
          /\ tx.clears \in SUBSET Nat /\ tx.paid \in BOOLEAN
      BY <1>0, <2>2, <3>1, <3>2 DEF TxOf
    <3>5. tx = [spends |-> tx.spends, root |-> tx.root, kind |-> tx.kind, effect |-> tx.effect,
                paid |-> tx.paid, clears |-> tx.clears]
      BY DEF TxOf
    <3> HIDE DEF tx
    <3> QED
      BY <3>3, <3>4, <3>5 DEF Tx
  <2>4. /\ chain' = Append(chain, tx)
        /\ calls' = [calls EXCEPT ![c].tx = Len(chain')]
        /\ UNCHANGED <<rows, pools, fills, stamped, warm>>
    BY <1>8 DEF Accept
  <2>5. /\ chain' \in Seq(Tx) /\ Len(chain') = Len(chain) + 1
        /\ \A t \in 1..Len(chain) : chain'[t] = chain[t]
        /\ chain'[Len(chain) + 1] = tx
    BY <1>0, <2>3, <2>4, AppendProperties
  <2>6. /\ calls' \in Seq(Call) /\ Len(calls') = Len(calls)
        /\ \A d \in 1..Len(calls) :
             /\ calls'[d].row = calls[d].row /\ calls'[d].base = calls[d].base
             /\ calls'[d].tx = IF d = c THEN Len(chain) + 1 ELSE calls[d].tx
    <3>1. Len(chain') \in Nat
      BY <1>0, <2>5
    <3>2. calls' = [calls EXCEPT ![c].tx = Len(chain')]
      BY <2>4
    <3> DEFINE n == Len(chain')
    <3> HIDE DEF n
    <3>3. n \in Nat /\ calls' = [calls EXCEPT ![c].tx = n]
      BY <3>1, <3>2 DEF n
    <3>4. /\ calls' \in Seq(Call) /\ Len(calls') = Len(calls)
          /\ \A d \in 1..Len(calls) :
               /\ calls'[d].row = calls[d].row /\ calls'[d].base = calls[d].base
               /\ calls'[d].tx = IF d = c THEN n ELSE calls[d].tx
      <4>1. calls \in Seq(Call)
        BY <1>0
      <4> QED
        BY <3>3, <4>1, CallAccepted, Zenon
    <3> QED
      BY <2>5, <3>4 DEF n
  <2>7. TypeOK'
    BY <1>0, <1>1, <2>4, <2>5, <2>6 DEF TypeOK
  <2>8. Makes(calls[c].tx, rows[calls[c].row].plan, calls[c].base)'
    <3>1. /\ rows'[calls'[c].row].plan = plan /\ calls'[c].base = b
          /\ chain'[calls'[c].tx] = tx /\ (b # 0 => chain'[b] = chain[b])
      BY <2>2, <2>4, <2>5, <2>6
    <3>2. /\ tx.spends = b /\ tx.kind = plan.kind /\ tx.clears = plan.clears
          /\ tx.effect = IF b = 0 THEN plan.effect
                         ELSE [q |-> chain[b].effect.q + plan.delta,
                               resolved |-> chain[b].effect.resolved \/ plan.kind = "resolve"]
      BY DEF TxOf
    <3> HIDE DEF tx, plan, b
    <3> QED
      BY <3>1, <3>2 DEF Makes
  <2>9. LinkedCall(c)'
    <3>1. calls'[c].tx = Len(chain) + 1 /\ Len(chain) + 1 \in 1..Len(chain')
      BY <1>0, <2>5, <2>6
    <3>2. calls'[c].base \in 0..Len(chain')
      BY <1>0, <2>2, <2>5, <2>6
    <3> QED
      BY <2>1, <2>4, <2>6, <2>8, <3>1, <3>2 DEF LinkedCall
  <2>10. \A d \in 1..Len(calls') : LinkedCall(d)'
    BY <1>2, <2>6, <2>9
  <2> QED
    BY <1>2, <2>4, <2>7, <2>10 DEF Linked
<1>9. ASSUME NEW c \in 1..Len(calls), Complete(c) PROVE TypeOK' /\ Linked'
  <2> DEFINE r   == calls[c].row
             row == [tx |-> calls[c].tx, kind |-> rows[r].plan.kind, effect |-> rows[r].plan.effect]
  <2>1. LinkedCall(c) /\ calls[c].tx # 0 /\ calls[c].tx \in Nat
    BY <1>9, Elements DEF Linked, Complete, Call
  <2>2. r \in 1..Len(rows) /\ calls[c].tx \in 1..Len(chain)
    BY <2>1 DEF LinkedCall
  <2>3. rows[r] \in Row /\ rows[r].plan \in Plan /\ "broadcast" \in Status
    BY <2>2, Elements DEF Row, Status
  <2>4. row \in PoolRow
    BY <2>1, <2>3 DEF PoolRow, Plan
  <2>5. /\ pools' = Append(pools, row)
        /\ rows' = [rows EXCEPT ![r].status = "broadcast", ![r].tx = calls[c].tx]
        /\ stamped' = stamped \cup rows[r].plan.clears
        /\ warm' = calls[c].tx
        /\ calls' = [calls EXCEPT ![c].live = FALSE]
        /\ UNCHANGED <<fills, chain>>
    BY <1>9 DEF Complete
  <2>6. row.tx = calls[c].tx
    OBVIOUS
  <2> HIDE DEF row
  <2>7. /\ pools' \in Seq(PoolRow) /\ Len(pools') = Len(pools) + 1
        /\ \A v \in 1..Len(pools) : pools'[v] = pools[v]
        /\ pools'[Len(pools) + 1] = row
    BY <1>0, <2>4, <2>5, AppendProperties
  <2>8. /\ rows' \in Seq(Row) /\ Len(rows') = Len(rows)
        /\ \A q \in 1..Len(rows) : rows'[q].plan = rows[q].plan
    BY <1>0, <2>1, <2>2, <2>3, <2>5, RowDecided
  <2>9. /\ calls' \in Seq(Call) /\ Len(calls') = Len(calls)
        /\ \A d \in 1..Len(calls) : calls'[d].tx = calls[d].tx
    BY <1>0, <2>5, CallEnds
  <2>10. stamped' \in SUBSET (1..fills)
    BY <1>0, <2>2, <2>5 DEF Linked, LinkedPlan
  <2>11. TypeOK'
    BY <1>0, <1>1, <2>1, <2>5, <2>7, <2>8, <2>9, <2>10 DEF TypeOK
  <2>12. \A q \in 1..Len(rows') : LinkedPlan(rows[q].plan)'
    BY <1>2, <2>8 DEF LinkedPlan
  <2>13. \A v \in 1..Len(pools') : pools'[v].tx \in 1..Len(chain')
    BY <1>0, <1>2, <2>2, <2>5, <2>6, <2>7
  <2> QED
    BY <1>2, <2>2, <2>5, <2>9, <2>11, <2>12, <2>13 DEF Linked
<1>10. ASSUME NEW c \in 1..Len(calls), CompleteColliding(c) PROVE TypeOK' /\ Linked'
  <2>1. /\ calls' = [calls EXCEPT ![c].live = FALSE] /\ warm' = calls[c].tx /\ calls[c].tx # 0
        /\ UNCHANGED <<rows, pools, fills, stamped, chain>>
    BY <1>10 DEF CompleteColliding
  <2>2. calls[c].tx \in 1..Len(chain)
    BY <2>1 DEF Linked, LinkedCall
  <2>3. /\ calls' \in Seq(Call) /\ Len(calls') = Len(calls)
        /\ \A d \in 1..Len(calls) : calls'[d].tx = calls[d].tx
    BY <1>0, <2>1, CallEnds
  <2>4. TypeOK'
    BY <1>0, <1>1, <2>1, <2>2, <2>3 DEF TypeOK
  <2> QED
    BY <1>2, <2>1, <2>2, <2>3, <2>4 DEF Linked
<1>11. ASSUME NEW c \in 1..Len(calls), Fail(c) PROVE TypeOK' /\ Linked'
  <2>1. calls[c].row \in 1..Len(rows)
    BY DEF Linked, LinkedCall
  <2>2. rows[calls[c].row].tx \in Nat /\ "failed" \in Status
    BY <2>1, Elements DEF Row, Status
  <2>3. rows' = [rows EXCEPT ![calls[c].row].status = "failed"]
    BY <1>11 DEF Fail
  <2>4. rows' \in Seq(Row) /\ Len(rows') = Len(rows)
    BY <1>0, <2>1, <2>2, <2>3, RowDecided
  <2>5. /\ calls' \in Seq(Call) /\ Len(calls') = Len(calls)
        /\ \A d \in 1..Len(calls) : calls'[d].tx = calls[d].tx
    BY <1>0, <1>11, CallEnds DEF Fail
  <2> QED
    BY <1>3, <1>11, <2>4, <2>5 DEF Fail
<1>12. CASE Restart
  <2>1. /\ calls' \in Seq(Call) /\ Len(calls') = Len(calls)
        /\ \A d \in 1..Len(calls) : calls'[d].tx = calls[d].tx
    BY <1>0, <1>12, CallsEnd DEF Restart
  <2> QED
    BY <1>0, <1>3, <1>12, <2>1 DEF Restart
<1>13. CASE OtherMarketFails \/ UNCHANGED vars
  BY <1>0, <1>3, <1>13 DEF OtherMarketFails, vars
<1> QED
  BY <1>4, <1>5, <1>6, <1>7, <1>8, <1>9, <1>10, <1>11, <1>12, <1>13, StepCases

\* The types hold at the start, and nothing refers to anything.
LEMMA LinkedInit == Init => TypeOK /\ Linked
  BY DEF Init, TypeOK, Linked

\* Every state the sign-off queue reaches is of its declared type (all eight variables, for any
\* number of rows, calls and consoles).
THEOREM TypeCorrect == Spec => []TypeOK
<1>1. TypeOK /\ Linked /\ [Next]_vars => TypeOK' /\ Linked'
  BY LinkedStep
<1> QED
  BY <1>1, LinkedInit, PTL DEF Spec

-----------------------------------------------------------------------------
(* The chain, however many consoles are open *)

\* Only Complete stamps fills, and its call's transaction clears them.
LEMMA StampedStep ==
  ASSUME TypeOK, Linked, StampedIsCleared, [Next]_vars
  PROVE  StampedIsCleared'
<1>1. Len(chain') \in Nat /\ Len(chain) <= Len(chain') /\ \A t \in 1..Len(chain) : chain'[t] = chain[t]
  BY NothingIsTakenBack
<1>2. Len(chain) \in Nat
  BY Elements
<1>3. \A i \in stamped : \E t \in 1..Len(chain') : i \in chain'[t].clears
  BY <1>1, <1>2 DEF StampedIsCleared
<1>4. CASE stamped' = stamped
  BY <1>3, <1>4 DEF StampedIsCleared
<1>5. ASSUME NEW c \in 1..Len(calls), Complete(c) PROVE StampedIsCleared'
  <2>1. /\ stamped' = stamped \cup rows[calls[c].row].plan.clears
        /\ chain' = chain
        /\ calls[c].tx # 0
    BY <1>5 DEF Complete
  <2>2. calls[c].tx \in 1..Len(chain) /\ chain[calls[c].tx].clears = rows[calls[c].row].plan.clears
    BY <2>1 DEF Linked, LinkedCall, Makes
  <2> QED
    BY <1>3, <2>1, <2>2 DEF StampedIsCleared
<1>6. ASSUME NEW plan, Park(plan) PROVE stamped' = stamped
  BY <1>6 DEF Park
<1>7. ASSUME NEW c \in 1..Len(calls), Accept(c) \/ CompleteColliding(c) \/ Fail(c)
      PROVE  stamped' = stamped
  BY <1>7 DEF Accept, CompleteColliding, Fail
<1>8. ASSUME NEW r \in 1..Len(rows), Authorize(r) \/ Reject(r)
      PROVE  stamped' = stamped
  BY <1>8 DEF Authorize, Reject
<1>9. ASSUME NewFill \/ OtherMarketFails \/ Restart \/ UNCHANGED vars
      PROVE  stamped' = stamped
  BY <1>9 DEF NewFill, OtherMarketFails, Restart, vars
<1> QED
  BY <1>4, <1>5, <1>6, <1>7, <1>8, <1>9, StepCases

\* However many consoles are open, a fill the database calls settled was cleared on the chain.
THEOREM StampedAreCleared == Spec => []StampedIsCleared
<1>1. Init => TypeOK /\ Linked /\ StampedIsCleared
  BY LinkedInit DEF Init, StampedIsCleared
<1>2. TypeOK /\ Linked /\ StampedIsCleared /\ [Next]_vars => (TypeOK /\ Linked /\ StampedIsCleared)'
  BY LinkedStep, StampedStep
<1> QED
  BY <1>1, <1>2, PTL DEF Spec

\* The chain is left alone, or one call's transaction joins it.
LEMMA ChainStep ==
  ASSUME TypeOK, Linked, [Next]_vars
  PROVE  \/ chain' = chain
         \/ \E c \in 1..Len(calls) : Accept(c)
<1>1. ASSUME NEW plan, Park(plan) PROVE chain' = chain
  BY <1>1 DEF Park
<1>2. ASSUME NEW c \in 1..Len(calls), Complete(c) \/ CompleteColliding(c) \/ Fail(c)
      PROVE  chain' = chain
  BY <1>2 DEF Complete, CompleteColliding, Fail
<1>3. ASSUME NEW r \in 1..Len(rows), Authorize(r) \/ Reject(r)
      PROVE  chain' = chain
  BY <1>3 DEF Authorize, Reject
<1>4. ASSUME NewFill \/ OtherMarketFails \/ Restart \/ UNCHANGED vars
      PROVE  chain' = chain
  BY <1>4 DEF NewFill, OtherMarketFails, Restart, vars
<1> QED
  BY <1>1, <1>2, <1>3, <1>4, StepCases

\* What Accept appends: the next transaction of its base's line, or the first of a new one.  A
\* payout never starts a line and never continues one that has paid.
LEMMA AcceptAppends ==
  ASSUME TypeOK, Linked, [Next]_vars, NEW c \in 1..Len(calls), Accept(c)
  PROVE  \E b \in 0..Len(chain), tx \in Tx :
           /\ chain' = Append(chain, tx)
           /\ tx.spends = b
           /\ b = 0 => tx.root = Len(chain) + 1 /\ tx.kind = "deploy"
           /\ b # 0 => /\ Unspent(b)
                       /\ tx.root = chain[b].root
                       /\ chain[b].paid => tx.paid
           /\ tx.kind = "payout" => tx.paid /\ b # 0 /\ ~chain[b].paid
           /\ tx = TxOf(rows[calls[c].row].plan, b) /\ b = calls[c].base
<1> DEFINE plan == rows[calls[c].row].plan
           b    == calls[c].base
           tx   == TxOf(plan, b)
<1>1. /\ b \in 0..Len(chain)
      /\ b = 0 <=> plan.kind = "deploy"
  BY DEF Linked, LinkedCall
<1>2. /\ chain' = Append(chain, tx)
      /\ b # 0 => Unspent(b)
      /\ CovenantAdmits(plan, b)
  BY DEF Accept
<1>3. chain' \in Seq(Tx) /\ Len(chain) \in Nat
  BY LinkedStep, Elements DEF TypeOK
<1>4. tx \in Tx
  <2>1. Len(chain') = Len(chain) + 1 /\ chain'[Len(chain) + 1] = tx
    <3>1. chain \in Seq(Tx)
      BY DEF TypeOK
    <3> HIDE DEF tx
    <3> QED
      BY <1>2, <3>1
  <2>2. Len(chain) + 1 \in 1..Len(chain')
    BY <1>3, <2>1
  <2> HIDE DEF tx
  <2> QED
    BY <1>3, <2>1, <2>2, ElementOfSeq
<1>5. plan.kind = "payout" => b # 0 /\ ~chain[b].paid
  BY <1>1, <1>2 DEF CovenantAdmits
<1> QED
  BY <1>1, <1>2, <1>4, <1>5 DEF TxOf

\* Every transaction keeps the chain a set of lines, on each of which at most one payout stands.
LEMMA LineStep ==
  ASSUME TypeOK, Linked, Line, PoolPaysOnce, [Next]_vars
  PROVE  Line' /\ PoolPaysOnce'
<1>1. CASE chain' = chain
  BY <1>1 DEF Line, PoolPaysOnce, Unspent
<1>2. ASSUME NEW c \in 1..Len(calls), Accept(c) PROVE Line' /\ PoolPaysOnce'
  <2> DEFINE n == Len(chain)
  <2>1. PICK b \in 0..n, tx \in Tx :
           /\ chain' = Append(chain, tx)
           /\ tx.spends = b
           /\ b = 0 => tx.root = n + 1 /\ tx.kind = "deploy"
           /\ b # 0 => /\ Unspent(b)
                       /\ tx.root = chain[b].root
                       /\ chain[b].paid => tx.paid
           /\ tx.kind = "payout" => tx.paid /\ b # 0 /\ ~chain[b].paid
    BY <1>2, AcceptAppends
  <2>2. n \in Nat /\ chain \in Seq(Tx)
    BY Elements DEF TypeOK
  <2>3. /\ Len(chain') = n + 1
        /\ \A t \in 1..n : chain'[t] = chain[t]
        /\ chain'[n + 1] = tx
    BY <2>1, <2>2, AppendProperties
  <2> HIDE DEF n
  <2>4. \A t \in 1..n : chain[t].spends \in 0..(t - 1) /\ chain[t].root \in 1..t
                        /\ (chain[t].kind = "payout" => chain[t].paid)
    BY DEF Line, n
  <2>5. \A i, j \in 1..n : i # j /\ chain[i].spends = chain[j].spends => chain[i].spends = 0
    BY DEF Line, n
  <2>6. \A i \in 1..n : Unspent(i) <=> \A k \in 1..n : chain[k].spends # i
    BY DEF Unspent, n
  <2>7. \A i, j \in 1..n : i < j /\ chain[i].root = chain[j].root =>
          /\ \E k \in 1..n : chain[k].spends = i
          /\ chain[i].paid => chain[j].paid
    BY <2>6 DEF Line, n
  <2>8. \A i \in 1..n : chain[i].root = tx.root =>
          b # 0 /\ i <= b /\ (chain[i].paid => tx.paid /\ chain[b].paid)
    <3> SUFFICES ASSUME NEW i \in 1..n, chain[i].root = tx.root
                 PROVE  b # 0 /\ i <= b /\ (chain[i].paid => tx.paid /\ chain[b].paid)
      OBVIOUS
    <3>1. b # 0
      BY <2>1, <2>2, <2>4
    <3>2. b \in 1..n /\ chain[i].root = chain[b].root
      BY <2>1, <2>2, <3>1
    <3>3. i <= b
      BY <2>1, <2>2, <2>6, <2>7, <3>2
    <3>4. i < b => (chain[i].paid => chain[b].paid)
      BY <2>7, <3>2
    <3> QED
      BY <2>1, <2>2, <3>1, <3>3, <3>4
  <2>9. \A t \in 1..(n + 1) : /\ chain'[t].spends \in 0..(t - 1)
                              /\ chain'[t].root \in 1..t
                              /\ chain'[t].kind = "payout" => chain'[t].paid
    <3>1. tx.spends \in 0..n /\ tx.root \in 1..(n + 1)
      BY <2>1, <2>2, <2>4
    <3> QED
      BY <2>1, <2>2, <2>3, <2>4, <3>1
  <2>10. \A i, j \in 1..(n + 1) :
           i # j /\ chain'[i].spends = chain'[j].spends => chain'[i].spends = 0
    <3>1. b # 0 => \A k \in 1..n : chain[k].spends # b
      BY <2>1, <2>2, <2>6
    <3> QED
      BY <2>1, <2>2, <2>3, <2>5, <3>1
  <2>11. \A i \in 1..(n + 1) : Unspent(i)' <=> \A k \in 1..(n + 1) : chain'[k].spends # i
    BY <2>3 DEF Unspent
  <2>12. \A i, j \in 1..(n + 1) : i < j /\ chain'[i].root = chain'[j].root =>
           /\ \E k \in 1..(n + 1) : chain'[k].spends = i
           /\ chain'[i].paid => chain'[j].paid
    <3> SUFFICES ASSUME NEW i \in 1..(n + 1), NEW j \in 1..(n + 1), i < j,
                        chain'[i].root = chain'[j].root
                 PROVE  /\ \E k \in 1..(n + 1) : chain'[k].spends = i
                        /\ chain'[i].paid => chain'[j].paid
      OBVIOUS
    <3>1. CASE j \in 1..n
      <4>1. i \in 1..n /\ chain'[i] = chain[i] /\ chain'[j] = chain[j]
        BY <2>2, <2>3, <3>1
      <4>2. PICK k \in 1..n : chain[k].spends = i
        BY <2>7, <3>1, <4>1
      <4>3. k \in 1..(n + 1) /\ chain'[k].spends = i
        BY <2>2, <2>3, <4>2
      <4> QED
        BY <2>7, <3>1, <4>1, <4>3
    <3>2. CASE j = n + 1
      <4>1. i \in 1..n /\ chain'[i] = chain[i] /\ chain'[j] = tx
        BY <2>2, <2>3, <3>2
      <4>2. b # 0 /\ i <= b /\ (chain[i].paid => tx.paid)
        BY <2>8, <4>1
      <4>3. CASE i = b
        BY <2>1, <2>2, <2>3, <4>1, <4>2, <4>3
      <4>4. CASE i < b
        <5>1. b \in 1..n /\ chain[i].root = chain[b].root
          BY <2>1, <2>2, <4>1, <4>2
        <5>2. PICK k \in 1..n : chain[k].spends = i
          BY <2>7, <4>1, <4>4, <5>1
        <5>3. k \in 1..(n + 1) /\ chain'[k].spends = i
          BY <2>2, <2>3, <5>2
        <5> QED
          BY <4>1, <4>2, <5>3
      <4> QED
        BY <2>2, <4>1, <4>2, <4>3, <4>4
    <3> QED
      BY <2>2, <3>1, <3>2
  <2>13. Line'
    <3>1. \A i, j \in 1..(n + 1) : i < j /\ chain'[i].root = chain'[j].root =>
            /\ ~(Unspent(i)')
            /\ chain'[i].paid => chain'[j].paid
      BY <2>11, <2>12
    <3> QED
      BY <2>3, <2>9, <2>10, <3>1 DEF Line
  <2>14. \A i, j \in 1..n : i # j /\ chain[i].kind = "payout" /\ chain[j].kind = "payout"
                              => chain[i].root # chain[j].root
    BY DEF PoolPaysOnce, n
  <2>15. tx.kind = "payout" => \A i \in 1..n : chain[i].kind = "payout" => chain[i].root # tx.root
    BY <2>1, <2>4, <2>8
  <2>16. PoolPaysOnce'
    <3>1. \A i, j \in 1..(n + 1) :
            i # j /\ chain'[i].kind = "payout" /\ chain'[j].kind = "payout"
              => chain'[i].root # chain'[j].root
      BY <2>2, <2>3, <2>14, <2>15
    <3> QED
      BY <2>3, <3>1 DEF PoolPaysOnce
  <2> QED
    BY <2>13, <2>16
<1> QED
  BY <1>1, <1>2, ChainStep

\* However many consoles are open, no pool pays its winners twice: the transactions of one deploy
\* form a line, and once a payout is on it everything after inherits the covenant's `paid` flag.
THEOREM PoolsPayOnce == Spec => []PoolPaysOnce
<1>1. Init => TypeOK /\ Linked /\ Line /\ PoolPaysOnce
  BY LinkedInit DEF Init, Line, PoolPaysOnce
<1>2. TypeOK /\ Linked /\ Line /\ PoolPaysOnce /\ [Next]_vars
        => (TypeOK /\ Linked /\ Line /\ PoolPaysOnce)'
  BY LinkedStep, LineStep
<1> QED
  BY <1>1, <1>2, PTL DEF Spec

-----------------------------------------------------------------------------
(* One console *)

\* With one console, whoever may decide finds no call in flight.
LEMMA NobodyWaits ==
  ASSUME TypeOK, OneConsole, ~Busy
  PROVE  InFlight = {}
<1>1. Len(calls) \in Nat /\ life.consoles = 1
  BY Elements DEF OneConsole
<1>2. IsFiniteSet(1..Len(calls))
  BY <1>1, FS_Interval
<1>3. InFlight \subseteq 1..Len(calls)
  BY DEF InFlight
<1>4. IsFiniteSet(InFlight)
  BY <1>2, <1>3, FS_Subset
<1>5. Cardinality(InFlight) \in Nat /\ (Cardinality(InFlight) = 0 <=> InFlight = {})
  BY <1>4, FS_CardinalityType, FS_EmptySet
<1> QED
  BY <1>1, <1>5 DEF Busy

\* The output of the current version is an output of the chain; before the deploy there is none.
LEMMA TipFacts ==
  ASSUME TypeOK, Linked
  PROVE  /\ pools = <<>> => Tip = 0
         /\ pools # <<>> => /\ Tip = pools[Len(pools)].tx /\ Len(pools) \in 1..Len(pools)
                            /\ Tip \in 1..Len(chain)
  BY Elements DEF Tip, CurrentPool, Linked

\* With one console the call in flight carries the waiting plan.
LEMMA InFlightFacts ==
  ASSUME TypeOK, Linked, OneAtATime, NEW c \in 1..Len(calls), calls[c].live
  PROVE  /\ calls[c].row \in 1..Len(rows)
         /\ rows[calls[c].row].status = "pending"
         /\ OverCurrent(rows[calls[c].row].plan)
         /\ calls[c].base = Tip
         /\ \A d \in 1..Len(calls) : calls[d].live => d = c
         /\ \A r \in 1..Len(rows) : rows[r].status = "pending" => r = calls[c].row
<1>1. c \in InFlight /\ \A d \in 1..Len(calls) : calls[d].live => d \in InFlight
  BY DEF InFlight
<1>2. calls[c].row \in 1..Len(rows)
  BY DEF Linked, LinkedCall
<1> QED
  BY <1>1, <1>2 DEF OneAtATime

\* A second deploy never collides when there is one console.
LEMMA NoCollision ==
  ASSUME TypeOK, Linked, OneAtATime, NEW c \in 1..Len(calls)
  PROVE  ~CompleteColliding(c)
  BY InFlightFacts DEF CompleteColliding, OverCurrent

\* What Complete leaves when there is one console: the next version, which the plan promised and
\* the network made from the version before it, and nothing waiting.
LEMMA CompleteFacts ==
  ASSUME TypeOK, Linked, Line, OneAtATime, Mirror, NEW c \in 1..Len(calls), Complete(c)
  PROVE  LET r == calls[c].row
             t == calls[c].tx
             n == Len(pools)
         IN  /\ r \in 1..Len(rows)
             /\ t \in 1..Len(chain) /\ Tip < t
             /\ chain[t].spends = Tip
             /\ chain[t].effect = rows[r].plan.effect
             /\ chain[t].clears = rows[r].plan.clears
             /\ Len(pools') = n + 1 /\ \A v \in 1..n : pools'[v] = pools[v]
             /\ pools'[n + 1].tx = t /\ pools'[n + 1].effect = chain[t].effect
             /\ Len(rows') = Len(rows)
             /\ \A q \in 1..Len(rows) : /\ rows'[q].plan = rows[q].plan
                                        /\ rows'[q].status # "pending"
             /\ rows'[r].status = "broadcast" /\ rows'[r].tx = t
             /\ Len(calls') = Len(calls)
             /\ \A d \in 1..Len(calls) : /\ calls'[d].row = calls[d].row
                                         /\ calls'[d].base = calls[d].base
                                         /\ ~calls'[d].live
             /\ stamped' = stamped \cup rows[r].plan.clears
             /\ warm' = t /\ chain' = chain
<1> DEFINE r   == calls[c].row
           t   == calls[c].tx
           n   == Len(pools)
           new == [tx |-> t, kind |-> rows[r].plan.kind, effect |-> rows[r].plan.effect]
<1>1. /\ calls[c].live /\ t # 0
      /\ pools' = Append(pools, new)
      /\ rows' = [rows EXCEPT ![r].status = "broadcast", ![r].tx = t]
      /\ stamped' = stamped \cup rows[r].plan.clears
      /\ warm' = t /\ chain' = chain
      /\ calls' = [calls EXCEPT ![c].live = FALSE]
  BY DEF Complete
<1>2. /\ r \in 1..Len(rows)
      /\ rows[r].status = "pending"
      /\ OverCurrent(rows[r].plan)
      /\ calls[c].base = Tip
      /\ \A d \in 1..Len(calls) : calls[d].live => d = c
      /\ \A q \in 1..Len(rows) : rows[q].status = "pending" => q = r
  BY <1>1, InFlightFacts
<1>3. LinkedCall(c) /\ t \in 1..Len(chain) /\ Makes(t, rows[r].plan, Tip)
  BY <1>1, <1>2 DEF Linked, LinkedCall
<1>4. chain[t].spends = Tip /\ chain[t].clears = rows[r].plan.clears /\ Tip < t
  <2>1. chain[t].spends \in 0..(t - 1)
    BY <1>3 DEF Line
  <2>2. chain[t].spends = Tip /\ chain[t].clears = rows[r].plan.clears
    BY <1>3 DEF Makes
  <2>3. t \in Nat
    BY <1>3, Elements
  <2> QED
    BY <2>1, <2>2, <2>3
<1>5. chain[t].effect = rows[r].plan.effect
  <2>1. CASE pools = <<>>
    BY <1>3, <2>1, TipFacts DEF Makes
  <2>2. CASE pools # <<>>
    <3>1. Tip # 0 /\ chain[Tip].effect = CurrentPool.effect
      <4>1. Len(pools) \in 1..Len(pools) /\ Tip = pools[Len(pools)].tx /\ Tip \in 1..Len(chain)
        BY <2>2, TipFacts
      <4>2. chain[pools[Len(pools)].tx].effect = pools[Len(pools)].effect
        BY <4>1 DEF Mirror
      <4> QED
        BY <4>1, <4>2 DEF CurrentPool
    <3>2. rows[r].plan.effect = [q |-> CurrentPool.effect.q + rows[r].plan.delta,
                                 resolved |-> CurrentPool.effect.resolved \/ rows[r].plan.kind = "resolve"]
      BY <1>2, <2>2 DEF OverCurrent
    <3>3. chain[t].effect = [q |-> chain[Tip].effect.q + rows[r].plan.delta,
                             resolved |-> chain[Tip].effect.resolved \/ rows[r].plan.kind = "resolve"]
      BY <1>3, <3>1 DEF Makes
    <3> HIDE DEF r, t
    <3> QED
      BY <3>1, <3>2, <3>3
  <2> QED
    BY <2>1, <2>2
<1>6. /\ Len(pools') = n + 1 /\ \A v \in 1..n : pools'[v] = pools[v]
      /\ pools'[n + 1].tx = t /\ pools'[n + 1].effect = rows[r].plan.effect
  <2>1. pools \in Seq(PoolRow) /\ n \in Nat
    BY Elements DEF TypeOK
  <2>2. new.tx = t /\ new.effect = rows[r].plan.effect
    OBVIOUS
  <2> HIDE DEF new
  <2>3. pools' = Append(pools, new)
    BY <1>1
  <2> HIDE DEF r, t
  <2>4. Len(pools') = n + 1 /\ (\A v \in 1..n : pools'[v] = pools[v]) /\ pools'[n + 1] = new
    BY <2>1, <2>3
  <2> QED
    BY <2>2, <2>4
<1>7. /\ Len(rows') = Len(rows)
      /\ \A q \in 1..Len(rows) : rows'[q].plan = rows[q].plan /\ rows'[q].status # "pending"
      /\ rows'[r].status = "broadcast" /\ rows'[r].tx = t
  <2>1. rows \in Seq(Row) /\ "broadcast" \in Status /\ t \in Nat
    BY <1>3, Elements DEF TypeOK, Status
  <2>2. rows' = [rows EXCEPT ![r].status = "broadcast", ![r].tx = t]
    BY <1>1
  <2>3. /\ Len(rows') = Len(rows)
        /\ \A q \in 1..Len(rows) : /\ rows'[q].plan = rows[q].plan
                                   /\ q # r => rows'[q] = rows[q]
        /\ rows'[r].status = "broadcast" /\ rows'[r].tx = t
    <3> HIDE DEF r, t
    <3>1. r \in 1..Len(rows)
      BY <1>2
    <3> QED
      BY <2>1, <2>2, <3>1, RowDecided
  <2> QED
    BY <1>2, <2>3
<1>8. /\ Len(calls') = Len(calls)
      /\ \A d \in 1..Len(calls) : /\ calls'[d].row = calls[d].row
                                  /\ calls'[d].base = calls[d].base
                                  /\ ~calls'[d].live
  <2>1. calls \in Seq(Call) /\ calls' = [calls EXCEPT ![c].live = FALSE]
    BY <1>1 DEF TypeOK
  <2>2. /\ Len(calls') = Len(calls)
        /\ \A d \in 1..Len(calls) : /\ calls'[d].row = calls[d].row
                                    /\ calls'[d].base = calls[d].base
                                    /\ calls'[d].live = (d # c /\ calls[d].live)
    BY <2>1, CallEnds, Zenon
  <2> QED
    BY <1>2, <2>2
<1> QED
  BY <1>1, <1>2, <1>3, <1>4, <1>5, <1>6, <1>7, <1>8

\* A plan stays over the current pool while the pools and the stamps stay.
LEMMA OverCurrentKept ==
  ASSUME UNCHANGED <<pools, stamped>>
  PROVE  Tip' = Tip /\ \A plan : OverCurrent(plan)' <=> OverCurrent(plan)
  BY DEF OverCurrent, CurrentPool, Tip

\* Rows that keep their plans and only leave "pending", calls that keep what they spend and only
\* end: one plan at a time stays so.
LEMMA FewerAtATime ==
  ASSUME TypeOK, Linked, OneAtATime,
         UNCHANGED <<pools, stamped>>, warm' \in {0, warm},
         Len(rows') = Len(rows), Len(calls') = Len(calls),
         \A r \in 1..Len(rows) : /\ rows'[r].plan = rows[r].plan
                                 /\ rows'[r].status = "pending" => rows[r].status = "pending",
         \A c \in 1..Len(calls) : /\ calls'[c].row = calls[c].row
                                  /\ calls'[c].base = calls[c].base
                                  /\ calls'[c].live => /\ calls[c].live
                                                       /\ rows'[calls[c].row] = rows[calls[c].row]
  PROVE  OneAtATime'
<1>1. Tip' = Tip /\ \A plan : OverCurrent(plan)' <=> OverCurrent(plan)
  BY OverCurrentKept
<1>2. \A r \in 1..Len(rows') : rows'[r].status = "pending" => OverCurrent(rows[r].plan)'
  <2> SUFFICES ASSUME NEW r \in 1..Len(rows), rows'[r].status = "pending"
               PROVE  OverCurrent(rows[r].plan)'
    OBVIOUS
  <2>1. OverCurrent(rows[r].plan) /\ rows'[r].plan = rows[r].plan
    BY DEF OneAtATime
  <2> QED
    BY <2>1 DEF OverCurrent, CurrentPool
<1>3. \A r, s \in 1..Len(rows') : rows'[r].status = "pending" /\ rows'[s].status = "pending" => r = s
  BY DEF OneAtATime
<1>4. InFlight' \subseteq InFlight
  BY DEF InFlight
<1>5. \A c, d \in InFlight' : c = d
  BY <1>4 DEF OneAtATime
<1>6. \A c \in InFlight' : rows'[calls'[c].row].status = "pending" /\ calls'[c].base = Tip'
  <2> SUFFICES ASSUME NEW c \in InFlight'
               PROVE  rows'[calls'[c].row].status = "pending" /\ calls'[c].base = Tip'
    OBVIOUS
  <2>1. c \in 1..Len(calls) /\ calls'[c].live /\ c \in InFlight
    BY <1>4 DEF InFlight
  <2> QED
    BY <1>1, <2>1 DEF OneAtATime
<1>7. warm' \in {0, Tip'}
  BY <1>1 DEF OneAtATime
<1> QED
  BY <1>2, <1>3, <1>5, <1>6, <1>7 DEF OneAtATime

\* Every step keeps one plan at a time.
LEMMA OneAtATimeStep ==
  ASSUME TypeOK, Linked, Line, OneConsole, OneAtATime, Mirror, [Next]_vars
  PROVE  OneAtATime'
<1>0. /\ rows \in Seq(Row) /\ calls \in Seq(Call) /\ chain \in Seq(Tx)
      /\ Len(rows) \in Nat /\ Len(calls) \in Nat /\ Len(chain) \in Nat
  BY Elements DEF TypeOK
<1>1. ASSUME NEW plan, Park(plan) PROVE OneAtATime'
  <2> DEFINE row == [status |-> "pending", plan |-> plan, tx |-> 0]
  <2>1. /\ rows' = Append(rows, row) /\ ~Awaiting /\ ~Busy
        /\ UNCHANGED <<pools, fills, stamped, warm, calls, chain>>
        /\ OverCurrent(plan)
    BY <1>1 DEF Park, Enqueue
  <2>2. row.status = "pending" /\ row.plan = plan
    OBVIOUS
  <2> HIDE DEF row
  <2>3. /\ Len(rows') = Len(rows) + 1
        /\ \A r \in 1..Len(rows) : rows'[r] = rows[r] /\ rows'[r].status # "pending"
        /\ rows'[Len(rows) + 1] = row
    BY <1>0, <2>1 DEF Awaiting
  <2>4. InFlight' = {}
    BY <2>1, NobodyWaits DEF InFlight
  <2>5. Tip' = Tip /\ \A p : OverCurrent(p)' <=> OverCurrent(p)
    BY <2>1, OverCurrentKept
  <2>6. \A r \in 1..Len(rows') : rows'[r].status = "pending" => r = Len(rows) + 1
    BY <1>0, <2>3
  <2>7. \A r \in 1..Len(rows') : rows'[r].status = "pending" => OverCurrent(rows[r].plan)'
    <3> SUFFICES ASSUME NEW r \in 1..Len(rows'), rows'[r].status = "pending"
                 PROVE  OverCurrent(rows[r].plan)'
      OBVIOUS
    <3>1. rows'[r].plan = plan
      BY <2>2, <2>3, <2>6
    <3> QED
      BY <2>1, <3>1 DEF OverCurrent, CurrentPool
  <2>8. warm' \in {0, Tip'}
    BY <2>1, <2>5 DEF OneAtATime
  <2> QED
    BY <2>4, <2>6, <2>7, <2>8 DEF OneAtATime
<1>2. CASE NewFill
  BY <1>2, FewerAtATime DEF NewFill
<1>3. ASSUME NEW r \in 1..Len(rows), Authorize(r) PROVE OneAtATime'
  <2> DEFINE plan == rows[r].plan
             base == IF plan.kind = "deploy" THEN 0 ELSE LivePool(plan)
             call == [row |-> r, base |-> base, tx |-> 0, live |-> TRUE]
  <2>1. /\ ~Busy /\ rows[r].status = "pending"
        /\ calls' = Append(calls, call)
        /\ warm' \in {warm, base}
        /\ UNCHANGED <<rows, pools, fills, stamped, chain>>
    BY <1>3 DEF Authorize
  <2>2. OverCurrent(plan) /\ warm \in {0, Tip}
    BY <2>1 DEF OneAtATime
  <2>3. base = Tip
    BY <2>2, TipFacts DEF OverCurrent, LivePool, Tip
  <2>4. InFlight = {}
    BY <2>1, NobodyWaits
  <2>5. call.row = r /\ call.base = base /\ call.live
    OBVIOUS
  <2> HIDE DEF call
  <2>6. /\ Len(calls') = Len(calls) + 1
        /\ \A c \in 1..Len(calls) : calls'[c] = calls[c] /\ ~calls[c].live
        /\ calls'[Len(calls) + 1] = call
    BY <1>0, <2>1, <2>4 DEF InFlight
  <2>7. InFlight' \subseteq {Len(calls) + 1}
    BY <1>0, <2>6 DEF InFlight
  <2>8. Tip' = Tip /\ \A p : OverCurrent(p)' <=> OverCurrent(p)
    BY <2>1, OverCurrentKept
  <2>9. \A q \in 1..Len(rows') : rows'[q].status = "pending" => OverCurrent(rows[q].plan)'
    BY <2>1 DEF OneAtATime, OverCurrent, CurrentPool
  <2>10. \A c \in InFlight' : rows'[calls'[c].row].status = "pending" /\ calls'[c].base = Tip'
    BY <2>1, <2>3, <2>5, <2>6, <2>7, <2>8
  <2>11. warm' \in {0, Tip'}
    BY <2>1, <2>2, <2>3, <2>8
  <2>12. \A c, d \in InFlight' : c = d
    BY <2>7
  <2>13. \A p, q \in 1..Len(rows') : rows'[p].status = "pending" /\ rows'[q].status = "pending" => p = q
    BY <2>1 DEF OneAtATime
  <2> QED
    BY <2>9, <2>10, <2>11, <2>12, <2>13 DEF OneAtATime
<1>4. ASSUME NEW r \in 1..Len(rows), Reject(r) PROVE OneAtATime'
  <2>1. /\ ~Busy
        /\ rows' = [rows EXCEPT ![r].status = "rejected"]
        /\ UNCHANGED <<pools, fills, stamped, warm, calls, chain>>
    BY <1>4 DEF Reject
  <2>2. \A c \in 1..Len(calls) : ~calls'[c].live
    BY <2>1, NobodyWaits DEF InFlight
  <2>3. rows[r].tx \in Nat /\ "rejected" \in Status
    BY Elements DEF Row, Status
  <2>4. /\ Len(rows') = Len(rows)
        /\ \A q \in 1..Len(rows) : rows'[q].plan = rows[q].plan /\ (q # r => rows'[q] = rows[q])
        /\ rows'[r].status = "rejected"
    BY <1>0, <2>1, <2>3, RowDecided
  <2>5. \A q \in 1..Len(rows) : rows'[q].status = "pending" => rows[q].status = "pending"
    BY <2>4
  <2> QED
    BY <2>1, <2>2, <2>4, <2>5, FewerAtATime
<1>5. ASSUME NEW c \in 1..Len(calls), Accept(c) PROVE OneAtATime'
  <2> DEFINE n == Len(chain')
  <2>1. calls' = [calls EXCEPT ![c].tx = n] /\ UNCHANGED <<rows, pools, fills, stamped, warm>>
    BY <1>5 DEF Accept
  <2>2. n \in Nat
    BY NothingIsTakenBack
  <2> HIDE DEF n
  <2>3. /\ Len(calls') = Len(calls)
        /\ \A d \in 1..Len(calls) : /\ calls'[d].row = calls[d].row
                                    /\ calls'[d].base = calls[d].base
                                    /\ calls'[d].live = calls[d].live
    <3>1. calls \in Seq(Call) /\ calls' = [calls EXCEPT ![c].tx = n]
      BY <1>0, <2>1
    <3> QED
      BY <2>2, <3>1, CallAccepted
  <2> QED
    BY <2>1, <2>3, FewerAtATime
<1>6. ASSUME NEW c \in 1..Len(calls), Complete(c) PROVE OneAtATime'
  <2> DEFINE n == Len(pools)
  <2>1. /\ Len(rows') = Len(rows) /\ \A q \in 1..Len(rows) : rows'[q].status # "pending"
        /\ Len(calls') = Len(calls) /\ \A d \in 1..Len(calls) : ~calls'[d].live
        /\ warm' = calls[c].tx
        /\ Len(pools') = n + 1 /\ pools'[n + 1].tx = calls[c].tx
    BY <1>6, CompleteFacts
  <2>2. InFlight' = {}
    BY <2>1 DEF InFlight
  <2>3. Tip' = warm'
    <3>1. pools' # <<>>
      BY <2>1, LinkedStep, Elements, EmptySeq DEF TypeOK
    <3> QED
      BY <2>1, <3>1 DEF Tip, CurrentPool
  <2> QED
    BY <2>1, <2>2, <2>3 DEF OneAtATime
<1>7. ASSUME NEW c \in 1..Len(calls), Fail(c) PROVE OneAtATime'
  <2>1. /\ calls[c].live /\ warm' = 0
        /\ rows' = [rows EXCEPT ![calls[c].row].status = "failed"]
        /\ calls' = [calls EXCEPT ![c].live = FALSE]
        /\ UNCHANGED <<pools, fills, stamped, chain>>
    BY <1>7 DEF Fail
  <2>2. /\ calls[c].row \in 1..Len(rows)
        /\ \A d \in 1..Len(calls) : calls[d].live => d = c
    BY <2>1, InFlightFacts
  <2>3. rows[calls[c].row].tx \in Nat /\ "failed" \in Status
    BY <2>2, Elements DEF Row, Status
  <2>4. /\ Len(rows') = Len(rows)
        /\ \A q \in 1..Len(rows) : /\ rows'[q].plan = rows[q].plan
                                   /\ q # calls[c].row => rows'[q] = rows[q]
        /\ rows'[calls[c].row].status = "failed"
    BY <1>0, <2>1, <2>2, <2>3, RowDecided
  <2>5. /\ Len(calls') = Len(calls)
        /\ \A d \in 1..Len(calls) : /\ calls'[d].row = calls[d].row
                                    /\ calls'[d].base = calls[d].base
                                    /\ ~calls'[d].live
    BY <1>0, <2>1, <2>2, CallEnds
  <2>6. \A q \in 1..Len(rows) : rows'[q].status = "pending" => rows[q].status = "pending"
    BY <2>4
  <2> QED
    BY <2>1, <2>4, <2>5, <2>6, FewerAtATime
<1>8. CASE Restart
  <2>1. /\ Len(calls') = Len(calls)
        /\ \A d \in 1..Len(calls) : /\ calls'[d].row = calls[d].row
                                    /\ calls'[d].base = calls[d].base
                                    /\ ~calls'[d].live
    BY <1>0, <1>8, CallsEnd DEF Restart
  <2> QED
    BY <1>8, <2>1, FewerAtATime DEF Restart
<1>9. CASE OtherMarketFails \/ UNCHANGED vars
  BY <1>9, FewerAtATime DEF OtherMarketFails, vars
<1> QED
  BY <1>1, <1>2, <1>3, <1>4, <1>5, <1>6, <1>7, <1>8, <1>9, StepCases, NoCollision

\* Only Complete adds a version, and only Complete stamps fills.
LEMMA PoolsStep ==
  ASSUME TypeOK, Linked, [Next]_vars
  PROVE  \/ UNCHANGED <<pools, stamped>>
         \/ \E c \in 1..Len(calls) : Complete(c)
<1>1. ASSUME NEW plan, Park(plan) PROVE UNCHANGED <<pools, stamped>>
  BY <1>1 DEF Park
<1>2. ASSUME NEW c \in 1..Len(calls), Accept(c) \/ CompleteColliding(c) \/ Fail(c)
      PROVE  UNCHANGED <<pools, stamped>>
  BY <1>2 DEF Accept, CompleteColliding, Fail
<1>3. ASSUME NEW r \in 1..Len(rows), Authorize(r) \/ Reject(r)
      PROVE  UNCHANGED <<pools, stamped>>
  BY <1>3 DEF Authorize, Reject
<1>4. ASSUME NewFill \/ OtherMarketFails \/ Restart \/ UNCHANGED vars
      PROVE  UNCHANGED <<pools, stamped>>
  BY <1>4 DEF NewFill, OtherMarketFails, Restart, vars
<1> QED
  BY <1>1, <1>2, <1>3, <1>4, StepCases

\* Every step keeps the pools the covenant's history.
LEMMA MirrorStep ==
  ASSUME TypeOK, Linked, Line, OneAtATime, Mirror, [Next]_vars
  PROVE  Mirror'
<1>1. /\ Len(chain) \in Nat /\ Len(chain') \in Nat /\ Len(chain) <= Len(chain')
      /\ \A t \in 1..Len(chain) : chain'[t] = chain[t]
      /\ Len(pools) \in Nat
  BY NothingIsTakenBack, Elements
<1>2. \A v \in 1..Len(pools) :
        /\ pools[v].tx \in 1..Len(chain')
        /\ chain'[pools[v].tx].effect = pools[v].effect
        /\ chain'[pools[v].tx].spends = IF v = 1 THEN 0 ELSE pools[v - 1].tx
  BY <1>1 DEF Mirror
<1>3. \A v, w \in 1..Len(pools) : v < w => pools[v].tx < pools[w].tx
  BY DEF Mirror
<1>4. CASE pools' = pools
  BY <1>2, <1>3, <1>4 DEF Mirror
<1>5. ASSUME NEW c \in 1..Len(calls), Complete(c) PROVE Mirror'
  <2> DEFINE t == calls[c].tx
             n == Len(pools)
  <2>1. /\ t \in 1..Len(chain) /\ Tip < t
        /\ chain[t].spends = Tip
        /\ Len(pools') = n + 1 /\ \A v \in 1..n : pools'[v] = pools[v]
        /\ pools'[n + 1].tx = t /\ pools'[n + 1].effect = chain[t].effect
        /\ chain' = chain
    BY <1>5, CompleteFacts
  <2>2. n = 0 => Tip = 0
    BY TipFacts, Elements
  <2>3. n # 0 => Tip = pools[n].tx /\ n \in 1..n
    BY <1>1, TipFacts, Elements
  <2> HIDE DEF t, n
  <2>4. n \in Nat /\ \A v \in 1..(n + 1) : v \in 1..n \/ v = n + 1
    BY <1>1 DEF n
  <2>5. \A v \in 1..(n + 1) :
          /\ pools'[v].tx \in 1..Len(chain')
          /\ chain'[pools'[v].tx].effect = pools'[v].effect
          /\ chain'[pools'[v].tx].spends = IF v = 1 THEN 0 ELSE pools'[v - 1].tx
    <3> SUFFICES ASSUME NEW v \in 1..(n + 1)
                 PROVE  /\ pools'[v].tx \in 1..Len(chain')
                        /\ chain'[pools'[v].tx].effect = pools'[v].effect
                        /\ chain'[pools'[v].tx].spends = IF v = 1 THEN 0 ELSE pools'[v - 1].tx
      OBVIOUS
    <3>1. CASE v \in 1..n
      <4>1. pools'[v] = pools[v] /\ (v # 1 => pools'[v - 1] = pools[v - 1])
        BY <2>1, <2>4, <3>1
      <4> QED
        BY <1>2, <3>1, <4>1 DEF n
    <3>2. CASE v = n + 1
      <4>1. n # 0 => pools'[n] = pools[n]
        BY <2>1, <2>3
      <4> QED
        BY <2>1, <2>2, <2>3, <2>4, <3>2, <4>1
    <3> QED
      BY <2>4, <3>1, <3>2
  <2>6. \A v \in 1..n : pools[v].tx \in Nat /\ pools[v].tx <= Tip
    BY <1>1, <1>2, <1>3, <2>3, <2>4 DEF n
  <2>7. \A v, w \in 1..(n + 1) : v < w => pools'[v].tx < pools'[w].tx
    <3> SUFFICES ASSUME NEW v \in 1..(n + 1), NEW w \in 1..(n + 1), v < w
                 PROVE  pools'[v].tx < pools'[w].tx
      OBVIOUS
    <3>1. v \in 1..n /\ pools'[v] = pools[v]
      BY <2>1, <2>4
    <3>2. CASE w \in 1..n
      BY <1>3, <2>1, <3>1, <3>2 DEF n
    <3>3. CASE w = n + 1
      <4>1. Tip \in Nat /\ t \in Nat
        BY <1>1, <2>1, <2>2, <2>3, <2>6
      <4> QED
        BY <2>1, <2>6, <3>1, <3>3, <4>1
    <3> QED
      BY <2>4, <3>2, <3>3
  <2> QED
    BY <2>1, <2>5, <2>7 DEF Mirror, n
<1> QED
  BY <1>4, <1>5, PoolsStep

\* The output of an older version is spent, by the next version.
LEMMA OldIsSpent ==
  ASSUME TypeOK, Mirror, NEW v \in 1..Len(pools), v < Len(pools)
  PROVE  ~Unspent(pools[v].tx)
<1>1. v + 1 \in 1..Len(pools) /\ v + 1 # 1 /\ (v + 1) - 1 = v
  BY Elements
<1>2. pools[v + 1].tx \in 1..Len(chain) /\ chain[pools[v + 1].tx].spends = pools[v].tx
  BY <1>1 DEF Mirror
<1> QED
  BY <1>2 DEF Unspent

\* Every step keeps what was cleared behind the current version stamped, and what may still clear
\* fills on the current version away from the stamped ones.
LEMMA BehindStep ==
  ASSUME TypeOK, Linked, Line, OneConsole, OneAtATime, Mirror, Behind, [Next]_vars
  PROVE  Behind'
<1>0. /\ Len(calls) \in Nat /\ Len(calls') \in Nat /\ Len(calls) <= Len(calls')
      /\ \A r \in 1..Len(rows) : rows'[r].plan = rows[r].plan
      /\ \A c \in 1..Len(calls) : /\ calls'[c].row = calls[c].row
                                  /\ calls'[c].base = calls[c].base
                                  /\ rows'[calls'[c].row].plan = rows[calls[c].row].plan
      /\ Len(chain) \in Nat /\ Len(chain') \in Nat /\ Len(chain) <= Len(chain')
      /\ \A t \in 1..Len(chain) : chain'[t] = chain[t]
      /\ Len(pools) \in Nat
  BY NothingIsTakenBack, Elements DEF Linked, LinkedCall
<1>1. ASSUME NEW c \in 1..Len(calls), Complete(c) PROVE Behind'
  <2> DEFINE plan == rows[calls[c].row].plan
             t    == calls[c].tx
             n    == Len(pools)
  <2>1. /\ t \in 1..Len(chain) /\ chain[t].spends = Tip /\ chain[t].clears = plan.clears
        /\ Len(pools') = n + 1 /\ \A v \in 1..n : pools'[v] = pools[v]
        /\ Len(calls') = Len(calls)
        /\ stamped' = stamped \cup plan.clears
        /\ chain' = chain
    BY <1>1, CompleteFacts
  <2> HIDE DEF plan, t, n
  <2>2. n \in Nat /\ n = Len(pools)
    BY <1>0 DEF n
  <2>3. \A d \in 1..Len(calls') : calls'[d].base # 0 =>
          \E v \in 1..Len(pools') :
            /\ calls'[d].base = pools'[v].tx
            /\ v = Len(pools') => rows'[calls'[d].row].plan.clears \cap stamped' = {}
    <3> SUFFICES ASSUME NEW d \in 1..Len(calls), calls[d].base # 0
                 PROVE  \E v \in 1..Len(pools') : /\ calls'[d].base = pools'[v].tx
                                                  /\ v # Len(pools')
      BY <1>0, <2>1
    <3>1. PICK v \in 1..n : calls[d].base = pools[v].tx
      BY <2>2 DEF Behind
    <3>2. v \in 1..Len(pools') /\ v # Len(pools') /\ pools'[v] = pools[v]
      BY <2>1, <2>2
    <3> QED
      BY <1>0, <3>1, <3>2
  <2>4. \A d \in 1..Len(calls') : calls'[d].base = 0 => rows'[calls'[d].row].plan.clears = {}
    BY <1>0, <2>1 DEF Behind
  <2>5. \A s \in 1..Len(chain') : chain'[s].clears # {} =>
          \E v \in 1..Len(pools') :
            /\ chain'[s].spends = pools'[v].tx
            /\ v < Len(pools') => chain'[s].clears \subseteq stamped'
    <3> SUFFICES ASSUME NEW s \in 1..Len(chain), chain[s].clears # {}
                 PROVE  \E v \in 1..Len(pools') : /\ chain[s].spends = pools'[v].tx
                                                  /\ chain[s].clears \subseteq stamped'
      BY <2>1
    <3>1. PICK v \in 1..n : /\ chain[s].spends = pools[v].tx
                            /\ v < n => chain[s].clears \subseteq stamped
      BY <2>2 DEF Behind
    <3>2. v \in 1..Len(pools') /\ chain[s].spends = pools'[v].tx
      BY <2>1, <2>2, <3>1
    <3>3. CASE v < n
      BY <2>1, <3>1, <3>2, <3>3
    <3>4. CASE v = n
      <4>1. Tip = pools[n].tx /\ Tip # 0
        BY <2>2, <3>4, TipFacts, Elements
      <4>2. s = t
        BY <2>1, <3>1, <3>4, <4>1 DEF Line
      <4> QED
        BY <2>1, <3>2, <4>2
    <3> QED
      BY <2>2, <3>3, <3>4
  <2> QED
    BY <2>3, <2>4, <2>5 DEF Behind
<1>2. ASSUME UNCHANGED <<pools, stamped>>
      PROVE  /\ \A c \in 1..Len(calls) : calls'[c].base # 0 =>
                  \E v \in 1..Len(pools') :
                    /\ calls'[c].base = pools'[v].tx
                    /\ v = Len(pools') => rows'[calls'[c].row].plan.clears \cap stamped' = {}
             /\ \A c \in 1..Len(calls) : calls'[c].base = 0 => rows'[calls'[c].row].plan.clears = {}
             /\ \A t \in 1..Len(chain) : chain'[t].clears # {} =>
                  \E v \in 1..Len(pools') :
                    /\ chain'[t].spends = pools'[v].tx
                    /\ v < Len(pools') => chain'[t].clears \subseteq stamped'
  <2>1. \A c \in 1..Len(calls) : calls'[c].base # 0 =>
          \E v \in 1..Len(pools') :
            /\ calls'[c].base = pools'[v].tx
            /\ v = Len(pools') => rows'[calls'[c].row].plan.clears \cap stamped' = {}
    <3> SUFFICES ASSUME NEW c \in 1..Len(calls), calls[c].base # 0
                 PROVE  \E v \in 1..Len(pools') :
                          /\ calls'[c].base = pools'[v].tx
                          /\ v = Len(pools') => rows'[calls'[c].row].plan.clears \cap stamped' = {}
      BY <1>0
    <3>1. PICK v \in 1..Len(pools) :
            /\ calls[c].base = pools[v].tx
            /\ v = Len(pools) => rows[calls[c].row].plan.clears \cap stamped = {}
      BY DEF Behind
    <3> QED
      BY <1>0, <1>2, <3>1
  <2>2. \A c \in 1..Len(calls) : calls'[c].base = 0 => rows'[calls'[c].row].plan.clears = {}
    BY <1>0 DEF Behind
  <2>3. \A t \in 1..Len(chain) : chain'[t].clears # {} =>
          \E v \in 1..Len(pools') :
            /\ chain'[t].spends = pools'[v].tx
            /\ v < Len(pools') => chain'[t].clears \subseteq stamped'
    BY <1>0, <1>2 DEF Behind
  <2> QED
    BY <2>1, <2>2, <2>3
<1>3. ASSUME UNCHANGED <<pools, stamped>>, Len(calls') = Len(calls), chain' = chain PROVE Behind'
  BY <1>2, <1>3 DEF Behind
<1>4. ASSUME NEW plan, Park(plan) PROVE Behind'
  BY <1>3, <1>4 DEF Park
<1>5. ASSUME NEW r \in 1..Len(rows), Authorize(r) PROVE Behind'
  <2> DEFINE plan == rows[r].plan
             base == IF plan.kind = "deploy" THEN 0 ELSE LivePool(plan)
             call == [row |-> r, base |-> base, tx |-> 0, live |-> TRUE]
  <2>1. /\ rows[r].status = "pending"
        /\ calls' = Append(calls, call)
        /\ UNCHANGED <<rows, pools, fills, stamped, chain>>
    BY <1>5 DEF Authorize
  <2>2. OverCurrent(plan) /\ warm \in {0, Tip}
    BY <2>1 DEF OneAtATime
  <2>3. base = Tip
    BY <2>2, TipFacts DEF OverCurrent, LivePool, Tip
  <2>4. call.row = r /\ call.base = base
    OBVIOUS
  <2> HIDE DEF call, base
  <2>5. /\ Len(calls') = Len(calls) + 1
        /\ calls'[Len(calls) + 1] = call
        /\ calls \in Seq(Call)
    BY <2>1 DEF TypeOK
  <2>6. \A c \in 1..Len(calls') : c \in 1..Len(calls) \/ c = Len(calls) + 1
    BY <1>0, <2>5
  <2>7. base # 0 => \E v \in 1..Len(pools') :
                      /\ base = pools'[v].tx
                      /\ v = Len(pools') => plan.clears \cap stamped' = {}
    <3> SUFFICES ASSUME base # 0
                 PROVE  \E v \in 1..Len(pools) : base = pools[v].tx /\ plan.clears \cap stamped = {}
      BY <2>1
    <3>1. pools # <<>>
      BY <2>3, TipFacts
    <3>2. Tip = pools[Len(pools)].tx /\ Len(pools) \in 1..Len(pools)
      BY <3>1, TipFacts
    <3>3. plan.clears \cap stamped = {}
      BY <2>2, <3>1 DEF OverCurrent
    <3> QED
      BY <2>3, <3>2, <3>3
  <2>8. base = 0 => plan.clears = {}
    <3>1. base = 0 => pools = <<>>
      BY <2>3, TipFacts
    <3> QED
      BY <2>2, <3>1 DEF OverCurrent
  <2>9. calls'[Len(calls) + 1].base = base /\ rows'[calls'[Len(calls) + 1].row].plan = plan
    BY <2>1, <2>4, <2>5
  <2>10. \A c \in 1..Len(calls') : calls'[c].base # 0 =>
           \E v \in 1..Len(pools') :
             /\ calls'[c].base = pools'[v].tx
             /\ v = Len(pools') => rows'[calls'[c].row].plan.clears \cap stamped' = {}
    BY <1>2, <2>1, <2>6, <2>7, <2>9
  <2>11. \A c \in 1..Len(calls') : calls'[c].base = 0 => rows'[calls'[c].row].plan.clears = {}
    BY <1>2, <2>1, <2>6, <2>8, <2>9
  <2> QED
    BY <1>2, <2>1, <2>10, <2>11 DEF Behind
<1>6. ASSUME NEW r \in 1..Len(rows), Reject(r) PROVE Behind'
  BY <1>3, <1>6 DEF Reject
<1>7. ASSUME NEW c \in 1..Len(calls), Accept(c) PROVE Behind'
  <2> DEFINE plan == rows[calls[c].row].plan
             n    == Len(chain)
  <2>1. PICK b \in 0..n, tx \in Tx :
          /\ chain' = Append(chain, tx)
          /\ tx.spends = b
          /\ b # 0 => Unspent(b)
          /\ tx = TxOf(plan, b) /\ b = calls[c].base
    BY <1>7, AcceptAppends
  <2>2. chain \in Seq(Tx) /\ n \in Nat
    BY Elements DEF TypeOK
  <2>3. tx.clears = plan.clears
    BY <2>1 DEF TxOf
  <2>4. Len(chain') = n + 1 /\ chain'[n + 1] = tx
    BY <2>1, <2>2
  <2>5. UNCHANGED <<pools, stamped>> /\ Len(calls') = Len(calls)
    <3>1. calls' = [calls EXCEPT ![c].tx = Len(chain')] /\ UNCHANGED <<pools, stamped>>
      BY <1>7 DEF Accept
    <3>2. calls \in Seq(Call) /\ Len(chain') \in Nat
      BY <1>0 DEF TypeOK
    <3>3. \A m \in Nat : calls' = [calls EXCEPT ![c].tx = m] => Len(calls') = Len(calls)
      BY <3>2, CallAccepted
    <3> QED
      BY <3>1, <3>2, <3>3
  <2>6. tx.clears # {} => \E v \in 1..Len(pools) : tx.spends = pools[v].tx /\ ~(v < Len(pools))
    <3> SUFFICES ASSUME tx.clears # {}
                 PROVE  \E v \in 1..Len(pools) : tx.spends = pools[v].tx /\ ~(v < Len(pools))
      OBVIOUS
    <3>1. b # 0
      BY <2>1, <2>3 DEF Behind
    <3>2. PICK v \in 1..Len(pools) : b = pools[v].tx
      BY <2>1, <3>1 DEF Behind
    <3>3. ~(v < Len(pools))
      BY <2>1, <3>1, <3>2, OldIsSpent
    <3> QED
      BY <2>1, <3>2, <3>3
  <2>7. \A t \in 1..Len(chain') : chain'[t].clears # {} =>
          \E v \in 1..Len(pools') : /\ chain'[t].spends = pools'[v].tx
                                    /\ v < Len(pools') => chain'[t].clears \subseteq stamped'
    <3> SUFFICES ASSUME NEW t \in 1..(n + 1), chain'[t].clears # {}
                 PROVE  \E v \in 1..Len(pools') :
                          /\ chain'[t].spends = pools'[v].tx
                          /\ v < Len(pools') => chain'[t].clears \subseteq stamped'
      BY <2>4
    <3>1. CASE t \in 1..n
      BY <1>2, <2>5, <3>1
    <3>2. CASE t = n + 1
      BY <2>4, <2>5, <2>6, <3>2
    <3> QED
      BY <2>2, <3>1, <3>2
  <2> QED
    BY <1>2, <2>5, <2>7 DEF Behind
<1>8. ASSUME NEW c \in 1..Len(calls), Fail(c) PROVE Behind'
  <2>1. calls' = [calls EXCEPT ![c].live = FALSE] /\ UNCHANGED <<pools, stamped, chain>>
    BY <1>8 DEF Fail
  <2>2. Len(calls') = Len(calls)
    BY <2>1, CallEnds DEF TypeOK
  <2> QED
    BY <1>3, <2>1, <2>2
<1>9. CASE Restart
  BY <1>3, <1>9, CallsEnd DEF Restart, TypeOK
<1>10. CASE NewFill \/ OtherMarketFails \/ UNCHANGED vars
  BY <1>3, <1>10 DEF NewFill, OtherMarketFails, vars
<1> QED
  BY <1>1, <1>4, <1>5, <1>6, <1>7, <1>8, <1>9, <1>10, StepCases, NoCollision

\* A new transaction clears nothing that another has: it spends the current version, and what the
\* others cleared is stamped, because the versions they spent are not current.
LEMMA SettledOnceStep ==
  ASSUME TypeOK, Linked, Line, OneConsole, OneAtATime, Mirror, Behind, SettledOnce, [Next]_vars
  PROVE  SettledOnce'
<1>1. \A i, j \in 1..Len(chain) : i # j => chain[i].clears \cap chain[j].clears = {}
  BY DEF SettledOnce
<1>2. CASE chain' = chain
  BY <1>1, <1>2 DEF SettledOnce
<1>3. ASSUME NEW c \in 1..Len(calls), Accept(c) PROVE SettledOnce'
  <2> DEFINE plan == rows[calls[c].row].plan
             n    == Len(chain)
  <2>1. PICK b \in 0..n, tx \in Tx :
          /\ chain' = Append(chain, tx)
          /\ tx.spends = b
          /\ b # 0 => Unspent(b)
          /\ tx = TxOf(plan, b) /\ b = calls[c].base
    BY <1>3, AcceptAppends
  <2>2. chain \in Seq(Tx) /\ n \in Nat
    BY Elements DEF TypeOK
  <2>3. tx.clears = plan.clears
    BY <2>1 DEF TxOf
  <2>4. /\ Len(chain') = n + 1 /\ chain'[n + 1] = tx
        /\ \A t \in 1..n : chain'[t] = chain[t]
    BY <2>1, <2>2
  <2>5. \A t \in 1..n : tx.clears # {} => chain[t].clears \cap tx.clears = {}
    <3> SUFFICES ASSUME NEW t \in 1..n, tx.clears # {}, chain[t].clears # {}
                 PROVE  chain[t].clears \cap tx.clears = {}
      OBVIOUS
    <3>1. b # 0
      BY <2>1, <2>3 DEF Behind
    <3>2. PICK v \in 1..Len(pools) : /\ b = pools[v].tx
                                     /\ v = Len(pools) => plan.clears \cap stamped = {}
      BY <2>1, <3>1 DEF Behind
    <3>3. v = Len(pools)
      BY <2>1, <3>1, <3>2, OldIsSpent, Elements
    <3>4. PICK w \in 1..Len(pools) : /\ chain[t].spends = pools[w].tx
                                     /\ w < Len(pools) => chain[t].clears \subseteq stamped
      BY DEF Behind
    <3>5. chain[t].spends # b
      BY <2>1, <3>1 DEF Unspent
    <3>6. w < Len(pools)
      BY <3>2, <3>3, <3>4, <3>5, Elements
    <3> QED
      BY <2>3, <3>2, <3>3, <3>4, <3>6
  <2>6. \A t \in 1..n : chain[t].clears \cap tx.clears = {}
    BY <2>5
  <2>7. \A i, j \in 1..(n + 1) : i # j => chain'[i].clears \cap chain'[j].clears = {}
    <3> SUFFICES ASSUME NEW i \in 1..(n + 1), NEW j \in 1..(n + 1), i # j
                 PROVE  chain'[i].clears \cap chain'[j].clears = {}
      OBVIOUS
    <3>1. CASE i \in 1..n /\ j \in 1..n
      BY <1>1, <2>4, <3>1
    <3>2. CASE i = n + 1
      <4>1. j \in 1..n /\ chain'[i] = tx /\ chain'[j] = chain[j]
        BY <2>2, <2>4, <3>2
      <4> QED
        BY <2>6, <4>1
    <3>3. CASE j = n + 1
      <4>1. i \in 1..n /\ chain'[j] = tx /\ chain'[i] = chain[i]
        BY <2>2, <2>4, <3>3
      <4> QED
        BY <2>6, <4>1
    <3> QED
      BY <2>2, <3>1, <3>2, <3>3
  <2> QED
    BY <2>4, <2>7 DEF SettledOnce
<1> QED
  BY <1>2, <1>3, ChainStep

\* The row that made the current pool is left alone: only a waiting row is decided.
LEMMA PoolKnownStep ==
  ASSUME TypeOK, Linked, Line, OneConsole, OneAtATime, Mirror, PoolKnownOnChain, [Next]_vars
  PROVE  PoolKnownOnChain'
<1>0. /\ rows \in Seq(Row) /\ Len(rows) \in Nat /\ Len(rows') \in Nat /\ Len(rows) <= Len(rows')
  BY NothingIsTakenBack, Elements DEF TypeOK
<1>1. ASSUME NEW c \in 1..Len(calls), Complete(c) PROVE PoolKnownOnChain'
  <2>1. /\ calls[c].row \in 1..Len(rows)
        /\ Len(pools') = Len(pools) + 1 /\ pools'[Len(pools) + 1].tx = calls[c].tx
        /\ Len(rows') = Len(rows)
        /\ rows'[calls[c].row].status = "broadcast" /\ rows'[calls[c].row].tx = calls[c].tx
    BY <1>1, CompleteFacts
  <2>2. CurrentPool'.tx = calls[c].tx
    BY <2>1 DEF CurrentPool
  <2> QED
    BY <2>1, <2>2 DEF PoolKnownOnChain, KnownOnChain
<1>2. ASSUME pools' = pools,
             \A r \in 1..Len(rows) : rows[r].status = "broadcast" => rows'[r] = rows[r]
      PROVE  PoolKnownOnChain'
  <2> SUFFICES ASSUME pools # <<>>
               PROVE  \E r \in 1..Len(rows') : rows'[r].status = "broadcast" /\ rows'[r].tx = CurrentPool.tx
    BY <1>2 DEF PoolKnownOnChain, KnownOnChain, CurrentPool
  <2>1. PICK r \in 1..Len(rows) : rows[r].status = "broadcast" /\ rows[r].tx = CurrentPool.tx
    BY DEF PoolKnownOnChain, KnownOnChain
  <2>2. r \in 1..Len(rows') /\ rows'[r] = rows[r]
    BY <1>0, <1>2, <2>1
  <2> QED
    BY <2>1, <2>2
<1>3. ASSUME NEW plan, Park(plan) PROVE PoolKnownOnChain'
  <2> DEFINE row == [status |-> "pending", plan |-> plan, tx |-> 0]
  <2>1. rows' = Append(rows, row) /\ pools' = pools
    BY <1>3 DEF Park, Enqueue
  <2> HIDE DEF row
  <2>2. \A r \in 1..Len(rows) : rows'[r] = rows[r]
    BY <1>0, <2>1
  <2> QED
    BY <1>2, <2>1, <2>2
<1>4. ASSUME NEW r \in 1..Len(rows), Reject(r) PROVE PoolKnownOnChain'
  <2>1. /\ rows[r].status = "pending" /\ pools' = pools
        /\ rows' = [rows EXCEPT ![r].status = "rejected"]
    BY <1>4 DEF Reject
  <2>2. rows[r].tx \in Nat /\ "rejected" \in Status
    BY Elements DEF Row, Status
  <2>3. \A q \in 1..Len(rows) : q # r => rows'[q] = rows[q]
    BY <1>0, <2>1, <2>2, RowDecided
  <2> QED
    BY <1>2, <2>1, <2>3
<1>5. ASSUME NEW c \in 1..Len(calls), Fail(c) PROVE PoolKnownOnChain'
  <2>1. /\ calls[c].live /\ pools' = pools
        /\ rows' = [rows EXCEPT ![calls[c].row].status = "failed"]
    BY <1>5 DEF Fail
  <2>2. calls[c].row \in 1..Len(rows) /\ rows[calls[c].row].status = "pending"
    BY <2>1, InFlightFacts
  <2>3. rows[calls[c].row].tx \in Nat /\ "failed" \in Status
    BY <2>2, Elements DEF Row, Status
  <2>4. \A q \in 1..Len(rows) : q # calls[c].row => rows'[q] = rows[q]
    BY <1>0, <2>1, <2>2, <2>3, RowDecided
  <2> QED
    BY <1>2, <2>1, <2>2, <2>4
<1>6. ASSUME NEW r \in 1..Len(rows), Authorize(r) PROVE PoolKnownOnChain'
  BY <1>2, <1>6 DEF Authorize
<1>7. ASSUME NEW c \in 1..Len(calls), Accept(c) PROVE PoolKnownOnChain'
  BY <1>2, <1>7 DEF Accept
<1>8. CASE NewFill \/ OtherMarketFails \/ Restart \/ UNCHANGED vars
  BY <1>2, <1>8 DEF NewFill, OtherMarketFails, Restart, vars
<1> QED
  BY <1>1, <1>3, <1>4, <1>5, <1>6, <1>7, <1>8, StepCases, NoCollision

\* The inductive invariant holds at the start.
LEMMA ConsoleInvInit == Init => Line /\ ConsoleInv
  BY DEF Init, Line, ConsoleInv, OneAtATime, Mirror, Behind, SettledOnce, PoolKnownOnChain, InFlight, Tip

\* The number of consoles never changes, and with one console every step keeps the invariant.
LEMMA ConsoleInvStep ==
  ASSUME TypeOK, Linked, Line, ConsoleInv, [Next]_vars
  PROVE  ConsoleInv'
<1>1. OneConsole' <=> OneConsole
  BY StepCases DEF OneConsole
<1>2. ASSUME OneConsole PROVE OneAtATime' /\ Mirror' /\ Behind' /\ SettledOnce' /\ PoolKnownOnChain'
  BY <1>2, OneAtATimeStep, MirrorStep, BehindStep, SettledOnceStep, PoolKnownStep DEF ConsoleInv
<1> QED
  BY <1>1, <1>2 DEF ConsoleInv

\* The inductive invariant holds in every reachable state.
THEOREM SignOffSound == Spec => [](TypeOK /\ SignOffInv)
<1>1. Init => TypeOK /\ SignOffInv
  BY LinkedInit, ConsoleInvInit DEF Init, SignOffInv, StampedIsCleared, PoolPaysOnce
<1>2. TypeOK /\ SignOffInv /\ [Next]_vars => (TypeOK /\ SignOffInv)'
  BY LinkedStep, StampedStep, LineStep, ConsoleInvStep DEF SignOffInv
<1> QED
  BY <1>1, <1>2, PTL DEF Spec

\* With one console pool_utxos is the covenant's own history, across lost answers, late
\* acceptances and restarts (service.ts applyEffects, scryptEngine.ts livePool).
THEOREM PoolsAreHistory == Spec => []PoolsMirrorChain
<1>1. TypeOK /\ SignOffInv => PoolsMirrorChain
  BY DEF SignOffInv, ConsoleInv, Mirror, PoolsMirrorChain
<1> QED
  BY <1>1, SignOffSound, PTL

\* With one console no fill is settled by two transactions, also when a plan is rebuilt while the
\* transaction of the one before it may still land.
THEOREM FillsSettleOnce == Spec => []SettledOnce
<1>1. TypeOK /\ SignOffInv => SettledOnce
  BY DEF SignOffInv, ConsoleInv, SettledOnce
<1> QED
  BY <1>1, SignOffSound, PTL

\* With one console poolNotOnChain never refuses a pool the network holds: no later decision
\* overwrites the row that made it (service.ts fail and applyEffects).
THEOREM PoolsStayKnown == Spec => []PoolKnownOnChain
<1>1. TypeOK /\ SignOffInv => PoolKnownOnChain
  BY DEF SignOffInv, ConsoleInv, PoolKnownOnChain
<1> QED
  BY <1>1, SignOffSound, PTL

-----------------------------------------------------------------------------
(* The history *)

\* What a plan of each kind asks for.
Shape(plan) ==
  /\ plan.kind = "settle" => plan.clears # {} /\ plan.delta = Cardinality(plan.clears)
  /\ plan.kind # "settle" => plan.clears = {}
  /\ plan.kind = "trade" => plan.delta \in {1, -1}
  /\ plan.kind \in {"resolve", "payout"} => plan.delta = 0

Planned == \A r \in 1..Len(rows) : Shape(rows[r].plan)

\* A transaction is of the root of what it spends.
Rooted == \A t \in 1..Len(chain) : chain[t].spends # 0 => chain[t].root = chain[chain[t].spends].root

\* One console: every transaction but a deploy spends some version of the pool, and the versions are
\* of one root.
OnVersions ==
  \A t \in 1..Len(chain) : chain[t].spends # 0 => \E v \in 1..Len(pools) : chain[t].spends = pools[v].tx

OneRoot == \A v \in 1..Len(pools) : chain[pools[v].tx].root = chain[pools[1].tx].root

HistoryInv == Planned /\ Rooted /\ (OneConsole => OnVersions /\ OneRoot)

\* Every plan is parked in the shape of its kind.
LEMMA ParksShaped ==
  ASSUME TypeOK,
         \/ EnqueueDeploy \/ EnqueueSettle \/ EnqueueResolve \/ EnqueuePayout
         \/ \E n \in life.trades : EnqueueTrade(n)
  PROVE  \E plan : /\ Shape(plan)
                   /\ rows' = Append(rows, [status |-> "pending", plan |-> plan, tx |-> 0])
<1>1. CASE EnqueueDeploy
  <2> DEFINE plan == [kind |-> "deploy", ref |-> 0, delta |-> 0, clears |-> {}, effect |-> FreshPool]
  <2>1. Shape(plan)
    BY DEF Shape
  <2>2. Enqueue(plan)
    BY <1>1 DEF EnqueueDeploy
  <2> HIDE DEF plan
  <2> QED
    BY <2>1, <2>2 DEF Enqueue
<1>2. ASSUME NEW kind, NEW delta, NEW clears, NEW resolved,
             Enqueue(PlanOver(kind, delta, clears, resolved)),
             \/ kind = "trade" /\ delta \in {1, -1} /\ clears = {}
             \/ kind = "settle" /\ clears # {} /\ delta = Cardinality(clears)
             \/ kind \in {"resolve", "payout"} /\ delta = 0 /\ clears = {}
      PROVE  \E plan : /\ Shape(plan)
                       /\ rows' = Append(rows, [status |-> "pending", plan |-> plan, tx |-> 0])
  <2> DEFINE plan == PlanOver(kind, delta, clears, resolved)
  <2>1. plan.kind = kind /\ plan.delta = delta /\ plan.clears = clears
    BY DEF PlanOver
  <2>2. Enqueue(plan)
    BY <1>2
  <2> HIDE DEF plan
  <2>3. Shape(plan)
    BY <1>2, <2>1 DEF Shape
  <2> QED
    BY <2>2, <2>3 DEF Enqueue
<1>3. ASSUME NEW n \in life.trades, EnqueueTrade(n)
      PROVE  \E resolved : n \in {1, -1} /\ Enqueue(PlanOver("trade", n, {}, resolved))
  <2>1. life.trades \subseteq {1, -1}
    BY LivesAssumption DEF TypeOK
  <2>2. \E resolved : Enqueue(PlanOver("trade", n, {}, resolved))
    BY <1>3, Zenon DEF EnqueueTrade
  <2> QED
    BY <2>1, <2>2
<1>4. EnqueueSettle => Unsettled # {} /\ \E resolved :
        Enqueue(PlanOver("settle", Cardinality(Unsettled), Unsettled, resolved))
  BY Zenon DEF EnqueueSettle
<1>5. EnqueueResolve => \E resolved : Enqueue(PlanOver("resolve", 0, {}, resolved))
  BY Zenon DEF EnqueueResolve
<1>6. EnqueuePayout => \E resolved : Enqueue(PlanOver("payout", 0, {}, resolved))
  BY Zenon DEF EnqueuePayout
<1> QED
  BY <1>1, <1>2, <1>3, <1>4, <1>5, <1>6

\* Plans keep their shape.
LEMMA PlannedStep ==
  ASSUME TypeOK, Linked, Planned, [Next]_vars
  PROVE  Planned'
<1>0. /\ rows \in Seq(Row) /\ Len(rows) \in Nat /\ calls \in Seq(Call) /\ Len(calls) \in Nat
      /\ \A r \in 1..Len(rows) : rows'[r].plan = rows[r].plan
  BY Elements, NothingIsTakenBack DEF TypeOK
<1>1. ASSUME NEW plan, Shape(plan), rows' = Append(rows, [status |-> "pending", plan |-> plan, tx |-> 0])
      PROVE  Planned'
  <2>1. PICK row : row = [status |-> "pending", plan |-> plan, tx |-> 0]
    OBVIOUS
  <2>2. row.plan = plan
    BY <2>1
  <2>3. /\ Len(rows') = Len(rows) + 1 /\ rows'[Len(rows) + 1] = row
        /\ \A r \in 1..Len(rows) : rows'[r] = rows[r]
    BY <1>0, <1>1, <2>1
  <2> QED
    BY <1>0, <1>1, <2>2, <2>3 DEF Planned
<1>2. ASSUME Len(rows') = Len(rows) PROVE Planned'
  BY <1>0, <1>2 DEF Planned
<1>3. ASSUME NEW r \in 1..Len(rows), NEW status \in Status, NEW t \in Nat,
             \/ rows' = [rows EXCEPT ![r].status = status] /\ t = rows[r].tx
             \/ rows' = [rows EXCEPT ![r].status = status, ![r].tx = t]
      PROVE  Planned'
  BY <1>0, <1>2, <1>3, RowDecided
<1>4. \A r \in 1..Len(rows) : rows[r].tx \in Nat
  BY Elements DEF Row
<1>5. ASSUME NEW r \in 1..Len(rows), Reject(r) PROVE Planned'
  <2>1. rows' = [rows EXCEPT ![r].status = "rejected"] /\ "rejected" \in Status
    BY <1>5 DEF Reject, Status
  <2> QED
    BY <1>3, <1>4, <2>1
<1>6. ASSUME NEW c \in 1..Len(calls), Complete(c) \/ Fail(c) PROVE Planned'
  <2>1. calls[c].row \in 1..Len(rows) /\ calls[c].tx \in Nat
    BY Elements DEF Linked, LinkedCall, Call
  <2>2. CASE Complete(c)
    <3>1. rows' = [rows EXCEPT ![calls[c].row].status = "broadcast", ![calls[c].row].tx = calls[c].tx]
      BY <2>2 DEF Complete
    <3>2. "broadcast" \in Status
      BY DEF Status
    <3> QED
      BY <1>3, <2>1, <3>1, <3>2
  <2>3. CASE Fail(c)
    <3>1. rows' = [rows EXCEPT ![calls[c].row].status = "failed"] /\ "failed" \in Status
      BY <2>3 DEF Fail, Status
    <3> QED
      BY <1>3, <1>4, <2>1, <3>1
  <2> QED
    BY <1>6, <2>2, <2>3
<1>7. CASE NewFill \/ OtherMarketFails \/ Restart \/ UNCHANGED vars
  BY <1>2, <1>7 DEF NewFill, OtherMarketFails, Restart, vars
<1>8. ASSUME NEW r \in 1..Len(rows), Authorize(r) PROVE Planned'
  BY <1>2, <1>8 DEF Authorize
<1>9. ASSUME NEW c \in 1..Len(calls), Accept(c) \/ CompleteColliding(c) PROVE Planned'
  BY <1>2, <1>9 DEF Accept, CompleteColliding
<1> QED
  BY <1>1, <1>5, <1>6, <1>7, <1>8, <1>9, ParksShaped DEF Next, Step

\* What Accept leaves: one more transaction, which spends an output that was there.
LEMMA AcceptedLast ==
  ASSUME TypeOK, Linked, [Next]_vars, NEW c \in 1..Len(calls), Accept(c)
  PROVE  LET n == Len(chain)
             b == calls[c].base
         IN  /\ n \in Nat /\ Len(chain') = n + 1 /\ \A t \in 1..n : chain'[t] = chain[t]
             /\ b \in 0..n /\ chain'[n + 1].spends = b
             /\ b # 0 => Unspent(b) /\ chain'[n + 1].root = chain[b].root
             /\ chain'[n + 1] = TxOf(rows[calls[c].row].plan, b)
             /\ UNCHANGED <<pools, stamped, fills>>
<1>1. PICK b \in 0..Len(chain), tx \in Tx :
        /\ chain' = Append(chain, tx)
        /\ tx.spends = b
        /\ b # 0 => Unspent(b) /\ tx.root = chain[b].root
        /\ tx = TxOf(rows[calls[c].row].plan, b) /\ b = calls[c].base
  BY AcceptAppends
<1>2. chain \in Seq(Tx) /\ Len(chain) \in Nat
  BY Elements DEF TypeOK
<1>3. /\ Len(chain') = Len(chain) + 1 /\ chain'[Len(chain) + 1] = tx
      /\ \A t \in 1..Len(chain) : chain'[t] = chain[t]
  BY <1>1, <1>2
<1>4. UNCHANGED <<pools, stamped, fills>>
  BY DEF Accept
<1> QED
  BY <1>1, <1>2, <1>3, <1>4

\* Lines keep their roots.
LEMMA RootedStep ==
  ASSUME TypeOK, Linked, Line, Rooted, [Next]_vars
  PROVE  Rooted'
<1>1. CASE chain' = chain
  BY <1>1 DEF Rooted
<1>2. ASSUME NEW c \in 1..Len(calls), Accept(c) PROVE Rooted'
  <2>1. PICK n, b :
          /\ n = Len(chain)
          /\ n \in Nat /\ Len(chain') = n + 1 /\ \A t \in 1..n : chain'[t] = chain[t]
          /\ b \in 0..n /\ chain'[n + 1].spends = b
          /\ b # 0 => chain'[n + 1].root = chain[b].root
    BY <1>2, AcceptedLast
  <2>2. \A t \in 1..n : chain[t].spends \in 0..(t - 1)
    BY <2>1 DEF Line
  <2>3. ASSUME NEW t \in 1..(n + 1), chain'[t].spends # 0
        PROVE  chain'[t].root = chain'[chain'[t].spends].root
    <3>1. CASE t \in 1..n
      <4>1. chain'[t] = chain[t] /\ chain[t].spends \in 1..n
        BY <2>1, <2>2, <2>3, <3>1
      <4> QED
        BY <2>1, <2>3, <3>1, <4>1 DEF Rooted
    <3>2. CASE t = n + 1
      BY <2>1, <2>3, <3>2
    <3> QED
      BY <2>1, <3>1, <3>2
  <2> QED
    BY <2>1, <2>3 DEF Rooted
<1> QED
  BY <1>1, <1>2, ChainStep

\* With one console the versions stay one line.
LEMMA OneLineStep ==
  ASSUME TypeOK, SignOffInv, HistoryInv, OneConsole, [Next]_vars
  PROVE  OnVersions' /\ OneRoot'
<1>0. /\ Linked /\ Line /\ OneAtATime /\ Mirror /\ Behind /\ Rooted /\ OnVersions /\ OneRoot
      /\ Len(pools) \in Nat /\ Len(chain) \in Nat
      /\ \A v \in 1..Len(pools) : pools[v].tx \in 1..Len(chain)
  BY Elements DEF SignOffInv, ConsoleInv, HistoryInv, Linked
<1>1. CASE UNCHANGED <<chain, pools>>
  BY <1>0, <1>1 DEF OnVersions, OneRoot
<1>2. ASSUME NEW c \in 1..Len(calls), Accept(c) PROVE OnVersions' /\ OneRoot'
  <2>1. PICK n, b :
          /\ n = Len(chain) /\ b = calls[c].base
          /\ n \in Nat /\ Len(chain') = n + 1 /\ \A t \in 1..n : chain'[t] = chain[t]
          /\ chain'[n + 1].spends = b
          /\ pools' = pools
    BY <1>0, <1>2, AcceptedLast
  <2>2. OneRoot'
    BY <1>0, <2>1 DEF OneRoot
  <2>3. b # 0 => \E v \in 1..Len(pools) : b = pools[v].tx
    BY <1>0, <2>1 DEF Behind
  <2>4. ASSUME NEW t \in 1..(n + 1), chain'[t].spends # 0
        PROVE  \E v \in 1..Len(pools') : chain'[t].spends = pools'[v].tx
    <3>1. CASE t \in 1..n
      BY <1>0, <2>1, <2>4, <3>1 DEF OnVersions
    <3>2. CASE t = n + 1
      BY <2>1, <2>3, <2>4, <3>2
    <3> QED
      BY <2>1, <3>1, <3>2
  <2>5. OnVersions'
    BY <2>1, <2>4 DEF OnVersions
  <2> QED
    BY <2>2, <2>5
<1>3. ASSUME NEW c \in 1..Len(calls), Complete(c) PROVE OnVersions' /\ OneRoot'
  <2>1. PICK n, t :
          /\ n = Len(pools) /\ t \in 1..Len(chain)
          /\ chain[t].spends = Tip
          /\ Len(pools') = n + 1 /\ \A v \in 1..n : pools'[v] = pools[v]
          /\ pools'[n + 1].tx = t /\ chain' = chain
    BY <1>0, <1>3, CompleteFacts
  <2>2. OnVersions'
    <3>1. ASSUME NEW u \in 1..Len(chain), chain[u].spends # 0
          PROVE  \E v \in 1..(n + 1) : chain[u].spends = pools'[v].tx
      <4>1. PICK v \in 1..n : chain[u].spends = pools[v].tx
        BY <1>0, <2>1, <3>1 DEF OnVersions
      <4> QED
        BY <1>0, <2>1, <4>1
    <3> QED
      BY <2>1, <3>1 DEF OnVersions
  <2>3. \A v \in 1..(n + 1) : v \in 1..n \/ v = n + 1
    BY <1>0, <2>1
  <2>4. CASE n = 0
    <3>1. \A v \in 1..Len(pools') : v = 1
      BY <2>1, <2>4
    <3>2. OneRoot'
      BY <3>1 DEF OneRoot
    <3> QED
      BY <2>2, <3>2
  <2>5. CASE n # 0
    <3>1. Tip = pools[n].tx /\ n \in 1..n /\ 1 \in 1..n /\ Tip \in 1..Len(chain)
      BY <1>0, <2>1, <2>5, TipFacts, Elements
    <3>2. chain[t].root = chain[pools[n].tx].root
      BY <1>0, <2>1, <3>1 DEF Rooted
    <3>3. \A v \in 1..(n + 1) : chain[pools'[v].tx].root = chain[pools[1].tx].root
      BY <1>0, <2>1, <2>3, <3>1, <3>2 DEF OneRoot
    <3>4. pools'[1] = pools[1]
      BY <2>1, <3>1
    <3>5. OneRoot'
      BY <2>1, <3>3, <3>4 DEF OneRoot
    <3> QED
      BY <2>2, <3>5
  <2> QED
    BY <2>4, <2>5
<1>4. \/ UNCHANGED <<chain, pools>>
      \/ \E c \in 1..Len(calls) : Accept(c) \/ Complete(c)
  <2>1. chain' = chain \/ \E c \in 1..Len(calls) : Accept(c)
    BY <1>0, ChainStep
  <2>2. UNCHANGED pools \/ \E c \in 1..Len(calls) : Complete(c)
    BY <1>0, PoolsStep
  <2> QED
    BY <2>1, <2>2
<1> QED
  BY <1>1, <1>2, <1>3, <1>4

\* So every step keeps the history.
LEMMA HistoryStep ==
  ASSUME TypeOK, SignOffInv, HistoryInv, [Next]_vars
  PROVE  HistoryInv'
<1>1. OneConsole' <=> OneConsole
  BY StepCases DEF OneConsole, SignOffInv
<1> QED
  BY <1>1, PlannedStep, RootedStep, OneLineStep DEF HistoryInv, SignOffInv

-----------------------------------------------------------------------------
(* The queue implements MarketHistory *)

\* A sequence is an append when it is one index by index.
LEMMA AppendByIndex ==
  ASSUME NEW S, NEW seq \in Seq(S), NEW elt \in S, NEW n \in Nat, n = Len(seq),
         NEW more \in Seq(S), Len(more) = n + 1,
         \A i \in 1..n : more[i] = seq[i], more[n + 1] = elt
  PROVE  more = Append(seq, elt)
<1>1. /\ Append(seq, elt) \in Seq(S) /\ Len(Append(seq, elt)) = n + 1
      /\ \A i \in 1..n : Append(seq, elt)[i] = seq[i]
      /\ Append(seq, elt)[n + 1] = elt
  BY AppendProperties
<1>2. \A i \in 1..n + 1 : i \in 1..n \/ i = n + 1
  OBVIOUS
<1>3. \A i \in 1..n + 1 : more[i] = Append(seq, elt)[i]
  BY <1>1, <1>2
<1> QED
  BY <1>1, <1>3, SeqEqual

\* A move of the history.
Move == [kind : Kind, clears : SUBSET Nat, effect : Effect]

\* Moves are made of what transactions are.
LEMMA MovesTyped ==
  ASSUME TypeOK, NEW t \in 1..Len(chain)
  PROVE  MoveOf(chain[t]) \in Move
BY Elements DEF MoveOf, Move, Tx

\* What the history shows of a state: the recorded moves, and the one the network is ahead by.
LEMMA MadeFacts ==
  ASSUME TypeOK, Linked, Line
  PROVE  /\ Versions \in Seq(Move) /\ Len(Versions) = Len(pools)
         /\ \A v \in 1..Len(pools) : Versions[v] = MoveOf(chain[pools[v].tx])
         /\ Recorded \in Seq(Effect) /\ Len(Recorded) = Len(pools)
         /\ \A v \in 1..Len(pools) : Recorded[v] = pools[v].effect
         /\ Ahead = {} => Made = Versions
         /\ \A t \in Ahead : Ahead = {t} /\ Made = Append(Versions, MoveOf(chain[t]))
<1> DEFINE n == Len(pools)
<1>1. /\ n \in Nat
      /\ \A v \in 1..n : pools[v].effect \in Effect
      /\ \A v \in 1..n : pools[v].tx \in 1..Len(chain)
  BY Elements DEF Linked, PoolRow
<1>2. \A v \in 1..n : MoveOf(chain[pools[v].tx]) \in Move
  BY <1>1, MovesTyped
<1>3. Versions \in [1..n -> Move] /\ Recorded \in [1..n -> Effect]
  BY <1>1, <1>2 DEF Versions, Recorded
<1>4. Versions \in Seq(Move) /\ Recorded \in Seq(Effect)
  BY <1>1, <1>3, SeqDef
<1>5. Len(Versions) = n /\ Len(Recorded) = n
  BY <1>1, <1>3, <1>4, LenProperties
<1>6. ASSUME NEW t \in Ahead PROVE Ahead = {t}
  <2>1. /\ t \in 1..Len(chain) /\ chain[t].spends = CurrentPool.tx /\ pools # <<>>
        /\ \A u \in Ahead : u \in 1..Len(chain) /\ chain[u].spends = CurrentPool.tx
    BY DEF Ahead
  <2>2. CurrentPool.tx # 0
    BY <1>1, <2>1, Elements DEF CurrentPool
  <2>3. \A u \in Ahead : u = t
    BY <2>1, <2>2 DEF Line
  <2> QED
    BY <2>3
<1>7. ASSUME NEW t \in Ahead PROVE Made = Append(Versions, MoveOf(chain[t]))
  <2>1. Ahead = {t} /\ (CHOOSE u \in Ahead : TRUE) = t
    BY <1>6
  <2> QED
    BY <2>1, Zenon DEF Made
<1>8. Ahead = {} => Made = Versions
  BY Zenon DEF Made
<1> QED
  BY <1>4, <1>5, <1>6, <1>7, <1>8 DEF Versions, Recorded

\* The history's two sequences, by index.
MadeSeqs ==
  /\ Versions \in Seq(Move) /\ Len(Versions) = Len(pools)
  /\ \A v \in 1..Len(pools) : Versions[v] = MoveOf(chain[pools[v].tx])
  /\ Recorded \in Seq(Effect) /\ Len(Recorded) = Len(pools)
  /\ \A v \in 1..Len(pools) : Recorded[v] = pools[v].effect

LEMMA MadeTyped == TypeOK /\ Linked /\ Line => MadeSeqs
BY MadeFacts DEF MadeSeqs

\* The network's move is the last one made.
AheadIsMade == \A t \in Ahead : Made = Append(Versions, MoveOf(chain[t]))

LEMMA MadeAhead == TypeOK /\ Linked /\ Line => AheadIsMade
BY MadeFacts DEF AheadIsMade

\* A step that shows nothing.
LEMMA Stutters ==
  ASSUME OneConsole, OneConsole', Made' = Made, Recorded' = Recorded, UNCHANGED <<stamped, fills>>
  PROVE  UNCHANGED Abstract!vars
BY DEF Abstract!vars

\* A move the network makes.
LEMMA ShowsMove ==
  ASSUME OneConsole, OneConsole', Recorded' = Recorded, UNCHANGED <<stamped, fills>>,
         Len(Recorded) = Len(Made),
         NEW kind, NEW clears, NEW q, NEW resolved,
         Made' = Append(Made, [kind |-> kind, clears |-> clears,
                               effect |-> [q |-> q, resolved |-> resolved]])
  PROVE  Abstract!Make(kind, clears, q, resolved)
BY DEF Abstract!Make

\* The last move, to the history, is the current pool while the network is not ahead.
LEMMA LastIs ==
  ASSUME TypeOK, Linked, Line, Mirror, OneConsole, pools # <<>>, Ahead = {}
  PROVE  /\ Abstract!Last = CurrentPool.effect
         /\ Abstract!Trading <=> ~CurrentPool.effect.resolved
         /\ Abstract!Resolved <=> CurrentPool.effect.resolved
<1>1. Made = Versions /\ Len(Made) = Len(pools) /\ Len(pools) \in 1..Len(pools) /\ Made \in Seq(Move)
  BY MadeFacts, Elements
<1>2. Made # <<>>
  BY <1>1, EmptySeq
<1>3. Made[Len(Made)].effect = chain[pools[Len(pools)].tx].effect
  <2>1. Made[Len(Made)] = MoveOf(chain[pools[Len(pools)].tx])
    BY <1>1, MadeFacts
  <2> QED
    BY <2>1 DEF MoveOf
<1>4. chain[pools[Len(pools)].tx].effect = CurrentPool.effect
  BY <1>1 DEF Mirror, CurrentPool
<1>5. Abstract!Last = CurrentPool.effect
  BY <1>3, <1>4 DEF Abstract!Last
<1> QED
  BY <1>2, <1>5 DEF Abstract!Trading, Abstract!Resolved

\* A transaction on the current pool is the move it makes; any other shows nothing.
LEMMA AcceptMoves ==
  ASSUME TypeOK, SignOffInv, HistoryInv, OneConsole, OneConsole', [Next]_vars,
         TypeOK', SignOffInv',
         NEW c \in 1..Len(calls), Accept(c)
  PROVE  \/ UNCHANGED Abstract!vars
         \/ LET plan == rows[calls[c].row].plan
                b    == calls[c].base
            IN  /\ pools # <<>> /\ b = CurrentPool.tx /\ b # 0 /\ Ahead = {}
                /\ Len(Made) = Len(pools)
                /\ \A v \in 1..Len(pools) : Made[v] = MoveOf(chain[pools[v].tx])
                /\ CovenantAdmits(plan, b)
                /\ Len(chain) \in Nat /\ chain'[Len(chain) + 1] = TxOf(plan, b)
                /\ Abstract!Make(plan.kind, plan.clears, CurrentPool.effect.q + plan.delta,
                                 CurrentPool.effect.resolved \/ plan.kind = "resolve")
<1>0. /\ Linked /\ Line /\ Mirror /\ Behind /\ Linked' /\ Line'
      /\ Len(pools) \in Nat
      /\ \A v \in 1..Len(pools) : pools[v].tx \in 1..Len(chain)
  BY Elements DEF SignOffInv, ConsoleInv, Linked
<1>1. PICK n, b, plan, tx :
        /\ n = Len(chain) /\ b = calls[c].base /\ plan = rows[calls[c].row].plan
        /\ n \in Nat /\ Len(chain') = n + 1 /\ \A t \in 1..n : chain'[t] = chain[t]
        /\ b \in 0..n /\ chain'[n + 1].spends = b
        /\ b # 0 => Unspent(b)
        /\ tx = TxOf(plan, b) /\ chain'[n + 1] = tx
        /\ UNCHANGED <<pools, stamped, fills>>
  BY <1>0, AcceptedLast
<1>2. Versions' = Versions /\ Recorded' = Recorded /\ Tip' = Tip /\ CurrentPool' = CurrentPool
  BY <1>0, <1>1 DEF Versions, Recorded, Tip, CurrentPool
<1>3. ASSUME pools = <<>> PROVE UNCHANGED Abstract!vars
  <2>1. Ahead = {} /\ Ahead' = {}
    BY <1>1, <1>3 DEF Ahead
  <2>2. Made' = Made
    BY <1>2, <2>1 DEF Made
  <2> QED
    BY <1>1, <1>2, <2>2, Stutters
<1>4. ASSUME pools # <<>>, b = 0 PROVE UNCHANGED Abstract!vars
  <2>1. CurrentPool.tx \in 1..n
    BY <1>0, <1>1, <1>4, Elements DEF CurrentPool
  <2>2. \A t : t \in Ahead' <=> t \in Ahead
    <3>1. \A t \in 1..(n + 1) : t \in 1..n \/ t = n + 1
      BY <1>1
    <3>2. 1..n \subseteq 1..(n + 1)
      BY <1>1
    <3> QED
      BY <1>1, <1>2, <1>4, <2>1, <3>1, <3>2 DEF Ahead
  <2>3. Ahead' = Ahead
    BY <2>2
  <2>4. CASE Ahead = {}
    <3>1. Made' = Made
      BY <1>2, <2>3, <2>4 DEF Made
    <3> QED
      BY <1>1, <1>2, <3>1, Stutters
  <2>5. ASSUME NEW t \in Ahead PROVE UNCHANGED Abstract!vars
    <3>1. t \in 1..n
      BY <1>1, <2>5 DEF Ahead
    <3>2. Made = Append(Versions, MoveOf(chain[t]))
      BY <1>0, <2>5, MadeFacts
    <3>3. AheadIsMade'
      BY <1>0, MadeAhead, PTL
    <3>4. Made' = Append(Versions, MoveOf(chain'[t]))
      BY <1>2, <2>3, <2>5, <3>3 DEF AheadIsMade
    <3>5. Made' = Made
      BY <1>1, <3>1, <3>2, <3>4
    <3> QED
      BY <1>1, <1>2, <3>5, Stutters
  <2> QED
    BY <2>4, <2>5
<1>5. ASSUME pools # <<>>, b # 0
      PROVE  /\ b = CurrentPool.tx /\ Ahead = {}
             /\ Abstract!Make(plan.kind, plan.clears, CurrentPool.effect.q + plan.delta,
                              CurrentPool.effect.resolved \/ plan.kind = "resolve")
  <2>1. PICK v \in 1..Len(pools) : b = pools[v].tx
    BY <1>0, <1>1, <1>5 DEF Behind
  <2>2. v = Len(pools)
    <3>1. ASSUME v < Len(pools) PROVE FALSE
      BY <1>0, <1>1, <1>5, <2>1, <3>1, OldIsSpent
    <3> QED
      BY <1>0, <3>1
  <2>3. b = CurrentPool.tx
    BY <2>1, <2>2 DEF CurrentPool
  <2>4. Ahead = {}
    BY <1>1, <1>5, <2>3 DEF Ahead, Unspent
  <2>5. n + 1 \in Ahead'
    <3>1. n + 1 \in 1..(n + 1)
      BY <1>1
    <3>2. pools' # <<>> /\ chain'[n + 1].spends = CurrentPool'.tx
      BY <1>1, <1>2, <1>5, <2>3
    <3> QED
      BY <1>1, <3>1, <3>2 DEF Ahead
  <2>6. AheadIsMade'
    BY <1>0, MadeAhead, PTL
  <2>7. Made' = Append(Versions, MoveOf(tx))
    BY <1>1, <1>2, <2>5, <2>6 DEF AheadIsMade
  <2>8. Made = Versions /\ Len(Recorded) = Len(Made)
    BY <1>0, <2>4, MadeFacts
  <2>9. Made' = Append(Made, MoveOf(tx))
    BY <2>7, <2>8
  <2>10. chain[b].effect = CurrentPool.effect
    BY <1>0, <2>1, <2>2 DEF Mirror, CurrentPool
  <2>11. MoveOf(tx) = [kind |-> plan.kind, clears |-> plan.clears,
                       effect |-> [q |-> CurrentPool.effect.q + plan.delta,
                                   resolved |-> CurrentPool.effect.resolved \/ plan.kind = "resolve"]]
    BY <1>1, <1>5, <2>10 DEF MoveOf, TxOf
  <2>12. Made' = Append(Made, [kind |-> plan.kind, clears |-> plan.clears,
                       effect |-> [q |-> CurrentPool.effect.q + plan.delta,
                                   resolved |-> CurrentPool.effect.resolved \/ plan.kind = "resolve"]])
    BY <2>9, <2>11
  <2>13. Abstract!Make(plan.kind, plan.clears, CurrentPool.effect.q + plan.delta,
                       CurrentPool.effect.resolved \/ plan.kind = "resolve")
    BY <1>1, <1>2, <2>8, <2>12, ShowsMove, Zenon
  <2> QED
    BY <2>3, <2>4, <2>13
<1>6. CovenantAdmits(plan, b)
  BY <1>1 DEF Accept
<1>7. Ahead = {} => /\ Len(Made) = Len(pools)
                    /\ \A v \in 1..Len(pools) : Made[v] = MoveOf(chain[pools[v].tx])
  BY <1>0, MadeFacts
<1> QED
  BY <1>1, <1>3, <1>4, <1>5, <1>6, <1>7, Zenon

\* The fields of a move, and of a transaction on a pool.
LEMMA MoveFields ==
  \A t : MoveOf(t).kind = t.kind /\ MoveOf(t).clears = t.clears /\ MoveOf(t).effect = t.effect
BY DEF MoveOf

LEMMA TxFields ==
  ASSUME NEW plan, NEW b, b # 0
  PROVE  /\ TxOf(plan, b).kind = plan.kind /\ TxOf(plan, b).clears = plan.clears
         /\ TxOf(plan, b).root = chain[b].root
BY DEF TxOf

\* Whatever the network accepts is a legal move of the history, or shows nothing.
LEMMA AcceptShows ==
  ASSUME TypeOK, SignOffInv, HistoryInv, OneConsole, OneConsole', [Next]_vars,
         TypeOK', SignOffInv',
         NEW c \in 1..Len(calls), Accept(c)
  PROVE  Abstract!Next \/ UNCHANGED Abstract!vars
<1>0. /\ Linked /\ Line /\ Mirror /\ OneRoot /\ Planned /\ SettledOnce' /\ PoolPaysOnce'
      /\ Len(pools) \in Nat
      /\ \A v \in 1..Len(pools) : pools[v].tx \in 1..Len(chain)
      /\ calls[c].row \in 1..Len(rows)
  BY Elements DEF SignOffInv, ConsoleInv, HistoryInv, Linked, LinkedCall
<1> SUFFICES ASSUME ~UNCHANGED Abstract!vars PROVE Abstract!Next
  OBVIOUS
<1>1. PICK plan, b, e, r, n, tx :
        /\ plan = rows[calls[c].row].plan /\ b = calls[c].base
        /\ e = CurrentPool.effect /\ r = (e.resolved \/ plan.kind = "resolve")
        /\ pools # <<>> /\ b = CurrentPool.tx /\ b # 0 /\ Ahead = {}
        /\ Len(Made) = Len(pools)
        /\ \A v \in 1..Len(pools) : Made[v] = MoveOf(chain[pools[v].tx])
        /\ CovenantAdmits(plan, b)
        /\ n = Len(chain) /\ n \in Nat /\ chain'[n + 1] = tx /\ tx = TxOf(plan, b)
        /\ Abstract!Make(plan.kind, plan.clears, e.q + plan.delta, r)
  BY AcceptMoves
<1>2. /\ plan.kind \in Kind \ {"deploy"} /\ plan.clears \subseteq 1..fills /\ Shape(plan)
      /\ plan \in Plan
  <2>1. rows[calls[c].row] \in Row
    BY <1>0, Elements
  <2>2. plan \in Plan
    BY <1>1, <2>1 DEF Row
  <2>3. plan.kind # "deploy" /\ LinkedPlan(plan)
    BY <1>0, <1>1 DEF Linked, LinkedCall
  <2>4. Shape(plan)
    BY <1>0, <1>1 DEF Planned
  <2> QED
    BY <2>2, <2>3, <2>4 DEF Plan, LinkedPlan
<1>3. /\ Abstract!Last = e
      /\ Abstract!Trading <=> ~e.resolved
      /\ Abstract!Resolved <=> e.resolved
  BY <1>0, <1>1, LastIs
<1>4. chain[b].effect = e
  BY <1>0, <1>1, Elements DEF Mirror, CurrentPool
<1>5. e \in Effect /\ r \in BOOLEAN
  BY <1>1, Elements DEF PoolRow
<1>6. /\ tx.kind = plan.kind /\ tx.clears = plan.clears /\ tx.root = chain[b].root
      /\ Len(chain') = n + 1 /\ \A t \in 1..n : chain'[t] = chain[t]
  <2>1. tx = TxOf(plan, b) /\ b # 0
    BY <1>1
  <2>2. tx.kind = plan.kind /\ tx.clears = plan.clears /\ tx.root = chain[b].root
    BY <2>1, TxFields, Zenon
  <2> QED
    BY <1>0, <1>1, <2>2, AcceptedLast
<1> HIDE DEF Abstract!Make, Abstract!Last, Abstract!Trading, Abstract!Resolved
<1>7. CASE plan.kind = "trade"
  <2>1. /\ ~e.resolved /\ e.q + plan.delta >= 0
        /\ plan.delta \in {1, -1} /\ plan.clears = {}
    BY <1>1, <1>2, <1>4, <1>7 DEF CovenantAdmits, Shape
  <2>2. r = FALSE
    BY <1>1, <1>7, <2>1
  <2>3. Abstract!Make("trade", {}, e.q + plan.delta, FALSE)
    BY <1>1, <1>7, <2>1, <2>2, Zenon
  <2>4. Abstract!Trade(plan.delta)
    BY <1>3, <2>1, <2>3, Zenon DEF Abstract!Trade
  <2> QED
    BY <2>1, <2>4, Zenon DEF Abstract!Next
<1>8. CASE plan.kind = "settle"
  <2>1. /\ ~e.resolved
        /\ plan.delta = Cardinality(plan.clears) /\ plan.clears # {}
    BY <1>1, <1>2, <1>4, <1>8 DEF CovenantAdmits, Shape
  <2>2. r = FALSE
    BY <1>1, <1>8, <2>1
  <2>3. \A i \in 1..Len(Made) : Made[i].clears \cap plan.clears = {}
    <3>1. \A i \in 1..Len(Made) : Made[i].clears = chain[pools[i].tx].clears /\ pools[i].tx \in 1..n
      <4>1. \A i \in 1..Len(Made) : Made[i] = MoveOf(chain[pools[i].tx]) /\ pools[i].tx \in 1..n
        BY <1>0, <1>1
      <4> QED
        BY <4>1, MoveFields
    <3>2. \A t \in 1..n : t \in 1..(n + 1) /\ t # n + 1
      BY <1>1
    <3>3. n + 1 \in 1..(n + 1)
      BY <1>1
    <3>4. \A t \in 1..n : chain[t].clears \cap plan.clears = {}
      BY <1>0, <1>1, <1>6, <3>2, <3>3 DEF SettledOnce
    <3> QED
      BY <3>1, <3>4
  <2>4. Abstract!Make("settle", plan.clears, e.q + Cardinality(plan.clears), FALSE)
    BY <1>1, <1>8, <2>1, <2>2, Zenon
  <2>5. Abstract!Cardinality(plan.clears) = Cardinality(plan.clears)
    BY DEF Abstract!Cardinality, Cardinality
  <2>6. \A i \in 1..Len(IF OneConsole THEN Made ELSE <<>>) :
          (IF OneConsole THEN Made ELSE <<>>)[i].clears \cap plan.clears = {}
    BY <2>3
  <2>7. Abstract!Settle(plan.clears)
    BY <1>3, <2>1, <2>4, <2>5, <2>6, Zenon DEF Abstract!Settle
  <2> QED
    BY <1>2, <2>7 DEF Abstract!Next
<1>9. CASE plan.kind = "resolve"
  <2>1. ~e.resolved /\ plan.delta = 0 /\ plan.clears = {}
    BY <1>1, <1>2, <1>4, <1>9 DEF CovenantAdmits, Shape
  <2>2. r = TRUE
    BY <1>1, <1>9
  <2>3. e.q + plan.delta = e.q
    BY <1>5, <2>1 DEF Effect
  <2>4. Abstract!Make("resolve", {}, e.q, TRUE)
    BY <1>1, <1>9, <2>1, <2>2, <2>3, Zenon
  <2>5. Abstract!Resolve
    BY <1>3, <2>1, <2>4, Zenon DEF Abstract!Resolve
  <2> QED
    BY <2>5, Zenon DEF Abstract!Next
<1>10. CASE plan.kind = "payout"
  <2>1. e.resolved /\ plan.delta = 0 /\ plan.clears = {}
    BY <1>1, <1>2, <1>4, <1>10 DEF CovenantAdmits, Shape
  <2>2. r = TRUE /\ e.q + plan.delta = e.q
    BY <1>1, <1>5, <2>1 DEF Effect
  <2>3. Abstract!Make("payout", {}, e.q, TRUE)
    BY <1>1, <1>10, <2>1, <2>2, Zenon
  <2>4. \A i \in 1..Len(Made) : Made[i].kind # "payout"
    <3>1. \A i \in 1..Len(pools) : /\ Made[i].kind = chain[pools[i].tx].kind
                                   /\ pools[i].tx \in 1..n
                                   /\ chain[pools[i].tx].root = chain[b].root
      <4>1. \A i \in 1..Len(pools) : Made[i] = MoveOf(chain[pools[i].tx]) /\ pools[i].tx \in 1..n
        BY <1>0, <1>1
      <4>2. \A i \in 1..Len(pools) : Made[i].kind = chain[pools[i].tx].kind
        BY <4>1, MoveFields
      <4>3. Len(pools) \in 1..Len(pools) /\ b = pools[Len(pools)].tx
        BY <1>1, Elements DEF CurrentPool
      <4> QED
        BY <1>0, <4>1, <4>2, <4>3 DEF OneRoot
    <3>2. \A t \in 1..n : t \in 1..(n + 1) /\ t # n + 1
      BY <1>1
    <3>3. n + 1 \in 1..(n + 1)
      BY <1>1
    <3>4. \A t \in 1..n : chain[t].kind = "payout" => chain[t].root # chain[b].root
      BY <1>0, <1>1, <1>6, <1>10, <3>2, <3>3 DEF PoolPaysOnce
    <3> QED
      BY <1>1, <3>1, <3>4
  <2>5. \A i \in 1..Len(IF OneConsole THEN Made ELSE <<>>) :
          (IF OneConsole THEN Made ELSE <<>>)[i].kind # "payout"
    BY <2>4
  <2>6. Abstract!PayOut
    BY <1>3, <2>1, <2>3, <2>5, Zenon DEF Abstract!PayOut
  <2> QED
    BY <2>6, Zenon DEF Abstract!Next
<1> QED
  BY <1>2, <1>7, <1>8, <1>9, <1>10 DEF Kind

\* The answer that is applied is the market's opening or the record of what the network made.
LEMMA CompleteShows ==
  ASSUME TypeOK, SignOffInv, HistoryInv, OneConsole, OneConsole', [Next]_vars,
         TypeOK', SignOffInv',
         NEW c \in 1..Len(calls), Complete(c)
  PROVE  Abstract!Open \/ Abstract!Record
<1>0. /\ Linked /\ Line /\ Mirror /\ OneAtATime /\ OnVersions /\ Linked' /\ Line' /\ Mirror'
      /\ Len(pools) \in Nat /\ Len(chain) \in Nat
      /\ \A v \in 1..Len(pools) : pools[v].tx \in 1..Len(chain)
  BY Elements DEF SignOffInv, ConsoleInv, HistoryInv, Linked
<1>1. PICK n, t, plan :
        /\ n = Len(pools) /\ t = calls[c].tx /\ plan = rows[calls[c].row].plan
        /\ t \in 1..Len(chain) /\ Tip < t
        /\ chain[t].spends = Tip
        /\ chain[t].effect = plan.effect /\ chain[t].clears = plan.clears
        /\ Len(pools') = n + 1 /\ \A v \in 1..n : pools'[v] = pools[v]
        /\ pools'[n + 1].tx = t /\ pools'[n + 1].effect = chain[t].effect
        /\ stamped' = stamped \cup plan.clears
        /\ chain' = chain
  BY <1>0, CompleteFacts
<1>2. fills' = fills /\ calls[c].live
  BY DEF Complete
<1>3. chain[t].kind = plan.kind /\ OverCurrent(plan)
  <2>1. t # 0 /\ LinkedCall(c)
    BY <1>0, <1>1 DEF Linked
  <2> QED
    BY <1>0, <1>1, <1>2, <2>1, InFlightFacts DEF LinkedCall, Makes
<1>4. MadeSeqs /\ MadeSeqs'
  BY <1>0, MadeTyped, PTL
<1>5. /\ Versions \in Seq(Move) /\ Len(Versions) = n
      /\ \A v \in 1..n : Versions[v] = MoveOf(chain[pools[v].tx])
      /\ Recorded \in Seq(Effect) /\ Len(Recorded) = n
      /\ \A v \in 1..n : Recorded[v] = pools[v].effect
  BY <1>1, <1>4 DEF MadeSeqs
<1>6. /\ Versions' \in Seq(Move) /\ Len(Versions') = n + 1
      /\ Recorded' \in Seq(Effect) /\ Len(Recorded') = n + 1
      /\ \A v \in 1..(n + 1) : /\ Versions'[v] = MoveOf(chain[pools'[v].tx])
                               /\ Recorded'[v] = pools'[v].effect
  BY <1>1, <1>4 DEF MadeSeqs
<1>7. n + 1 \in 1..(n + 1) /\ 1..n \subseteq 1..(n + 1)
  BY <1>0, <1>1
<1>8. MoveOf(chain[t]) \in Move /\ chain[t].effect \in Effect
  BY <1>1, MovesTyped, Elements DEF Tx
<1>9. Versions' = Append(Versions, MoveOf(chain[t]))
  <2>1. \A v \in 1..n : Versions'[v] = Versions[v]
    BY <1>1, <1>5, <1>6, <1>7
  <2>2. Versions'[n + 1] = MoveOf(chain[t])
    BY <1>1, <1>6, <1>7
  <2>3. /\ n \in Nat /\ Versions \in Seq(Move) /\ n = Len(Versions)
        /\ Versions' \in Seq(Move) /\ Len(Versions') = n + 1 /\ MoveOf(chain[t]) \in Move
    BY <1>0, <1>1, <1>5, <1>6, <1>8
  <2> QED
    BY <2>1, <2>2, <2>3, AppendByIndex, Zenon
<1>10. Recorded' = Append(Recorded, chain[t].effect)
  <2>1. \A v \in 1..n : Recorded'[v] = Recorded[v]
    BY <1>1, <1>5, <1>6, <1>7
  <2>2. Recorded'[n + 1] = chain[t].effect
    BY <1>1, <1>6, <1>7
  <2>3. /\ n \in Nat /\ Recorded \in Seq(Effect) /\ n = Len(Recorded)
        /\ Recorded' \in Seq(Effect) /\ Len(Recorded') = n + 1 /\ chain[t].effect \in Effect
    BY <1>0, <1>1, <1>5, <1>6, <1>8
  <2> QED
    BY <2>1, <2>2, <2>3, AppendByIndex, Zenon
<1>11. Ahead' = {}
  <2> SUFFICES ASSUME NEW u \in 1..Len(chain), chain[u].spends = t PROVE FALSE
    <3>1. CurrentPool'.tx = t
      BY <1>1 DEF CurrentPool
    <3> QED
      BY <1>1, <3>1 DEF Ahead
  <2>1. PICK v \in 1..n : t = pools[v].tx
    BY <1>0, <1>1 DEF OnVersions
  <2>2. n \in 1..n /\ Tip = pools[n].tx
    BY <1>0, <1>1, <2>1, Elements, TipFacts
  <2>3. v = n \/ v < n
    BY <1>0, <1>1
  <2> QED
    BY <1>0, <1>1, <2>1, <2>2, <2>3 DEF Mirror
<1>12. Made' = Versions'
  BY <1>11 DEF Made
<1>13. CASE n = 0
  <2>1. pools = <<>> /\ Tip = 0 /\ Ahead = {}
    BY <1>1, <1>13, Elements DEF Tip, Ahead
  <2>2. Versions = <<>> /\ Recorded = <<>> /\ Made = <<>>
    BY <1>5, <1>13, <2>1, EmptySeq DEF Made
  <2>3. plan.kind = "deploy" /\ plan.clears = {} /\ plan.effect = FreshPool
    BY <1>3, <2>1 DEF OverCurrent
  <2>4. stamped' = stamped
    BY <1>1, <2>3
  <2>5. MoveOf(chain[t]) = [kind |-> "deploy", clears |-> {}, effect |-> FreshPool]
    BY <1>1, <1>3, <2>3 DEF MoveOf
  <2>6. Made' = <<[kind |-> "deploy", clears |-> {}, effect |-> FreshPool]>>
    <3>1. Made' = Append(<<>>, MoveOf(chain[t]))
      BY <1>9, <1>12, <2>2
    <3> QED
      BY <2>5, <3>1
  <2>7. Recorded' = <<FreshPool>>
    BY <1>1, <1>10, <2>2, <2>3
  <2>8. Abstract!Open
    BY <1>2, <2>2, <2>4, <2>6, <2>7, Zenon DEF Abstract!Open, FreshPool
  <2> QED
    BY <2>8
<1>14. CASE n # 0
  <2>1. t \in Ahead
    BY <1>1, <1>14, Elements DEF Ahead, Tip
  <2>2. Made = Append(Versions, MoveOf(chain[t])) /\ Made' = Made
    BY <1>0, <1>9, <1>12, <2>1, MadeFacts
  <2>3. Len(Made) = n + 1 /\ Made[n + 1] = MoveOf(chain[t])
    BY <1>5, <1>8, <2>2, AppendProperties
  <2>4. /\ Len(Recorded) < Len(Made)
        /\ Recorded' = Append(Recorded, Made[Len(Recorded) + 1].effect)
        /\ stamped' = stamped \cup Made[Len(Recorded) + 1].clears
    <3>1. Len(Recorded) < Len(Made)
      BY <1>0, <1>1, <1>5, <2>3
    <3>2. Made[Len(Recorded) + 1] = MoveOf(chain[t])
      BY <1>5, <2>3
    <3>3. /\ Made[Len(Recorded) + 1].effect = chain[t].effect
          /\ Made[Len(Recorded) + 1].clears = plan.clears
      BY <1>1, <3>2, MoveFields
    <3> QED
      BY <1>1, <1>10, <3>1, <3>3
  <2>5. Abstract!Record
    BY <1>2, <2>2, <2>4 DEF Abstract!Record
  <2> QED
    BY <2>5
<1> QED
  BY <1>13, <1>14

\* Fills come one at a time, and the tables' side and the network's are left alone.
LEMMA FillsStep ==
  ASSUME TypeOK, Linked, [Next]_vars
  PROVE  fills' = fills \/ (fills' = fills + 1 /\ UNCHANGED <<chain, pools, stamped>>)
<1>1. ASSUME NEW plan, Park(plan) PROVE fills' = fills
  BY <1>1 DEF Park
<1>2. ASSUME NEW c \in 1..Len(calls), Accept(c) \/ Complete(c) \/ CompleteColliding(c) \/ Fail(c)
      PROVE  fills' = fills
  BY <1>2 DEF Accept, Complete, CompleteColliding, Fail
<1>3. ASSUME NEW r \in 1..Len(rows), Authorize(r) \/ Reject(r) PROVE fills' = fills
  BY <1>3 DEF Authorize, Reject
<1>4. ASSUME OtherMarketFails \/ Restart \/ UNCHANGED vars PROVE fills' = fills
  BY <1>4 DEF OtherMarketFails, Restart, vars
<1>5. ASSUME NewFill PROVE fills' = fills + 1 /\ UNCHANGED <<chain, pools, stamped>>
  BY <1>5 DEF NewFill
<1> QED
  BY <1>1, <1>2, <1>3, <1>4, <1>5, StepCases

\* Every step is a step of the history, or shows nothing.
LEMMA RefinesStep ==
  TypeOK /\ SignOffInv /\ HistoryInv /\ TypeOK' /\ SignOffInv' /\ [Next]_vars
    => [Abstract!Next]_(Abstract!vars)
<1> SUFFICES ASSUME TypeOK, SignOffInv, HistoryInv, TypeOK', SignOffInv', [Next]_vars
             PROVE  Abstract!Next \/ UNCHANGED Abstract!vars
  OBVIOUS
<1>0. Linked /\ (OneConsole' <=> OneConsole)
  BY StepCases DEF OneConsole, SignOffInv
<1>1. CASE ~OneConsole
  <2>1. fills' = fills => UNCHANGED Abstract!vars
    BY <1>0, <1>1, Zenon DEF Abstract!vars
  <2>2. fills' = fills + 1 => Abstract!NewFill
    BY <1>0, <1>1, Zenon DEF Abstract!NewFill
  <2> QED
    BY <1>0, <2>1, <2>2, FillsStep DEF Abstract!Next
<1>2. ASSUME OneConsole, UNCHANGED <<chain, pools, stamped>>
      PROVE  Abstract!Next \/ UNCHANGED Abstract!vars
  <2>1. Made' = Made /\ Recorded' = Recorded
    BY <1>2 DEF Made, Recorded, Ahead, Versions, CurrentPool
  <2>2. fills' = fills => UNCHANGED Abstract!vars
    BY <1>0, <1>2, <2>1, Stutters
  <2>3. fills' = fills + 1 => Abstract!NewFill
    BY <1>0, <1>2, <2>1 DEF Abstract!NewFill
  <2> QED
    BY <1>0, <2>2, <2>3, FillsStep DEF Abstract!Next
<1>3. ASSUME OneConsole, NEW c \in 1..Len(calls), Accept(c)
      PROVE  Abstract!Next \/ UNCHANGED Abstract!vars
  BY <1>0, <1>3, AcceptShows
<1>4. ASSUME OneConsole, NEW c \in 1..Len(calls), Complete(c) PROVE Abstract!Next
  BY <1>0, <1>4, CompleteShows DEF Abstract!Next
<1> QED
  BY <1>0, <1>1, <1>2, <1>3, <1>4, ChainStep, PoolsStep

\* Whatever answers are lost, whatever lands late and however often plans are rebuilt or the daemon
\* restarts, one operator sees one line of legal moves, which the tables record in order and are
\* never more than one behind (service.ts authorize and applyEffects, scryptEngine.ts livePool).
THEOREM QueueImplementsHistory == Spec => ImplementsHistory
<1>1. Init => Abstract!Init
  <2> SUFFICES ASSUME Init PROVE Abstract!Init
    OBVIOUS
  <2>1. pools = <<>> /\ stamped = {} /\ fills = 0
    BY DEF Init
  <2>2. TypeOK /\ Linked /\ Line
    BY LinkedInit, ConsoleInvInit
  <2>3. Ahead = {}
    BY <2>1 DEF Ahead
  <2>4. Made = Versions /\ Len(Versions) = 0 /\ Versions \in Seq(Move)
        /\ Len(Recorded) = 0 /\ Recorded \in Seq(Effect)
    BY <2>1, <2>2, <2>3, MadeFacts
  <2>5. Made = <<>> /\ Recorded = <<>>
    BY <2>4, EmptySeq
  <2> QED
    BY <2>1, <2>5 DEF Abstract!Init
<1>2. Init => HistoryInv
  BY DEF Init, HistoryInv, Planned, Rooted, OnVersions, OneRoot
<1>3. TypeOK /\ SignOffInv /\ HistoryInv /\ [Next]_vars => HistoryInv'
  BY HistoryStep
<1> QED
  BY <1>1, <1>2, <1>3, RefinesStep, SignOffSound, PTL
     DEF Spec, ImplementsHistory, Abstract!Spec

=============================================================================
