------------------------------ MODULE Covenant ------------------------------
(***************************************************************************)
(* One deployed market in three places: the covenant on the chain, the     *)
(* engine's warm copies of it, and the service's tables.  Module SignOff   *)
(* has the queue and its races; here one console drives it, and the moves  *)
(* carry what they move: shares of both sides, collateral, position        *)
(* tokens, winners and the attestations a bond stands behind.              *)
(*                                                                         *)
(*   chain   the market's transactions, in order, with the state of the    *)
(*           pool each leaves; the first is the deploy                     *)
(*   air     transactions sent and not accepted yet, or ever               *)
(*   warm, token   the engine's live instance and the token it remembers,  *)
(*           each as the transaction that made it; 0: none                 *)
(*   tokens  the tokens rows, as the transactions that minted them         *)
(*   plan    the pending plan; call: the authorize call in flight          *)
(*   pools, payouts   the pool_utxos and payouts rows                      *)
(*   trades  how many trades rows there are of each side and action        *)
(*   fills   the exec_orders rows, with the batch that settled each        *)
(*   attested, bond   the settlements signed with the sequencer's Rabin    *)
(*           key, and the bond that key answers for                        *)
(*                                                                         *)
(* mult is taken as 2, so that the stored exponential of q shares is 2^q.  *)
(* A fill's price is module Execution's affair: every fill costs FillCost. *)
(* A redeem that names a token cannot be queued (EnqueueRedeem) and one    *)
(* that names none is refused when it is made, so the covenant's redeem    *)
(* method and the burning of a token are never reached and not modelled.   *)
(* poolNotOnChain is left to SignOff: with one console it never objects.   *)
(***************************************************************************)
EXTENDS Integers, Sequences, FiniteSets, FiniteSetsExt, Functions

CONSTANTS
  Traders,
  Seed,          \* COLLATERAL, what a fresh pool starts with
  PayoutUnit,    \* satoshis a winning share is worth
  FillCost,      \* satoshis of an off-chain fill
  MaxNet,        \* the covenant's cap on a settlement's net per side
  MaxPayouts,    \* the slots of its payout method
  DirectSides,   \* the sides the operator trades directly
  MatureAt,      \* when the bond's challenge window is over, as a count of plans built
  MaxPlans,      \* bound: plans built
  MaxFills       \* bound: fills

ASSUME AmountsAssumption == Seed \in Nat /\ PayoutUnit \in Nat \ {0} /\ FillCost \in Nat
ASSUME SidesAssumption   == DirectSides \subseteq {"yes", "no"}
ASSUME CapsAssumption    == MaxNet \in Nat /\ MaxPayouts \in Nat \ {0}
ASSUME LimitsAssumption  == MatureAt \in Nat /\ MaxPlans \in Nat /\ MaxFills \in Nat

VARIABLES chain, air, warm, token, plan, call, pools, tokens, payouts, trades, fills, attested, bond, built

onChain == <<chain, air>>
engine  == <<warm, token>>
tables  == <<pools, tokens, payouts, trades>>
vars == <<chain, air, warm, token, plan, call, pools, tokens, payouts, trades, fills, attested, bond,
          built>>

-----------------------------------------------------------------------------
(* Data *)

Side  == {"yes", "no"}
Action == {"buy", "sell"}

\* The pool: what its locking script encodes.  The tables keep all of it but `paid`.
State == [q : [Side -> Int], collateral : Int, resolved : BOOLEAN, winner : Side, paid : BOOLEAN]

Row(s) == [s EXCEPT !.paid = FALSE]

FreshPool == [q |-> [s \in Side |-> 0], collateral |-> Seed, resolved |-> FALSE, winner |-> "no",
              paid |-> FALSE]

Kind == {"deploy", "buy", "sell", "settle", "resolve", "redeem", "payout"}

\* A row of payouts.
PayoutRow == [trader : Traders, sats : Nat]
None == [kind |-> "none"]

CurrentPool == pools[Len(pools)]

\* ceil and floor of the price of side s at the holdings q, in satoshis.
Sum2(q) == 2^q.yes + 2^q.no

Charge(q, s) == (2^q[s] * PayoutUnit + Sum2(q) - 1) \div Sum2(q)

Proceeds(q, s) == (2^q[s] * PayoutUnit) \div Sum2(q)

\* How many fills of a set are of one side and action.  A fill is one unit.
Count(ids, s, a) == Cardinality({i \in ids : fills[i].side = s /\ fills[i].action = a})

\* The net units of side s in a set of fills, and the cash they brought in.
NetUnits(ids, s) == Count(ids, s, "buy") - Count(ids, s, "sell")

NetCash(ids) == FillCost * (NetUnits(ids, "yes") + NetUnits(ids, "no"))

\* Mutant: the batch is not restricted to rows without a batch_id.
UnsettledMutant == 1..Len(fills)

\* pendingBatch: the fills with no batch_id.
Unsettled == {i \in 1..Len(fills) : fills[i].batch = 0}

\* A trader's net position.
Holds(t, s) == NetUnits({i \in 1..Len(fills) : fills[i].trader = t}, s)

\* Mutant: only fills already settled on chain are paid.
WinningPayoutsMutant(w) ==
  LET won(t) == NetUnits({i \in 1..Len(fills) : fills[i].trader = t /\ fills[i].batch # 0}, w)
  IN  {[trader |-> t, sats |-> PayoutUnit * won(t)] : t \in {u \in Traders : won(u) > 0}}

\* winningPayouts: every trader net long on the winning side, settled or not.
WinningPayouts(w) ==
  {[trader |-> t, sats |-> PayoutUnit * Holds(t, w)] : t \in {u \in Traders : Holds(u, w) > 0}}

Total(winners) == LET sats(w) == w.sats IN MapThenSumSet(sats, winners)

\* payoutPreview: the winners nobody has paid yet, whatever they were paid.
Outstanding ==
  {w \in WinningPayouts(CurrentPool.state.winner) : \A p \in payouts : p.trader # w.trader}

-----------------------------------------------------------------------------
(* What a move makes of the pool (the exec* functions compute it, from the *)
(* live instance) and what the covenant's method asserts of it.  A move    *)
(* has the fields kind, side, sats, ids and winners.                       *)

Bought(s, m) == [s EXCEPT !.q[m.side] = @ + 1, !.collateral = @ + m.sats]

Sold(s, m) ==
  LET q == [s.q EXCEPT ![m.side] = @ - 1]
  IN  [s EXCEPT !.q = q, !.collateral = @ - Proceeds(q, m.side)]

Settled(s, m) ==
  [s EXCEPT !.q = [x \in Side |-> @[x] + NetUnits(m.ids, x)], !.collateral = @ + NetCash(m.ids)]

ResolvedTo(s, m) == [s EXCEPT !.resolved = TRUE, !.winner = m.side]

Redeemed(s, m) == [s EXCEPT !.collateral = @ - m.sats]

PaidOut(s, m) == [s EXCEPT !.collateral = @ - Total(m.winners), !.paid = TRUE]

\* The pool a move leaves behind.
After(s, m) ==
  CASE m.kind = "buy"     -> Bought(s, m)
    [] m.kind = "sell"    -> Sold(s, m)
    [] m.kind = "settle"  -> Settled(s, m)
    [] m.kind = "resolve" -> ResolvedTo(s, m)
    [] m.kind = "redeem"  -> Redeemed(s, m)
    [] m.kind = "payout"  -> PaidOut(s, m)

\* "underpaid"
MayBuy(s, m) == ~s.resolved /\ m.sats >= Charge(Bought(s, m).q, m.side)

\* "outstanding", "insolvent"
MaySell(s, m) == ~s.resolved /\ s.q[m.side] >= 1 /\ Sold(s, m).collateral >= 0

\* "batch out of range", "oversold", "insolvent"
MaySettle(s, m) ==
  /\ ~s.resolved
  /\ \A x \in Side : NetUnits(m.ids, x) \in -MaxNet..MaxNet /\ Settled(s, m).q[x] >= 0
  /\ Settled(s, m).collateral >= 0

MayResolve(s, m) == ~s.resolved

\* "already paid", "payout count out of range", "insolvent"
MayPayOut(s, m) ==
  /\ s.resolved /\ ~s.paid
  /\ Cardinality(m.winners) \in 1..MaxPayouts
  /\ PaidOut(s, m).collateral >= 0

\* No redeem among them: execRedeem finds no token and refuses.
Admits(s, m) ==
  \/ m.kind = "buy"     /\ MayBuy(s, m)
  \/ m.kind = "sell"    /\ MaySell(s, m)
  \/ m.kind = "settle"  /\ MaySettle(s, m)
  \/ m.kind = "resolve" /\ MayResolve(s, m)
  \/ m.kind = "payout"  /\ MayPayOut(s, m)

\* powFixed refuses an exponent beyond MAX_NET: such a batch cannot be planned, nor is it signed.
Raisable(ids) == \A x \in Side : NetUnits(ids, x) \in -MaxNet..MaxNet

Move(kind, side, sats, ids, winners) ==
  [kind |-> kind, side |-> side, sats |-> sats, ids |-> ids, winners |-> winners]

Init ==
  /\ chain = <<[move |-> Move("deploy", "no", 0, {}, {}), spends |-> 0,
                state |-> FreshPool]>>
  /\ air = {} /\ warm = 1 /\ token = 0
  /\ plan = None /\ call = None
  /\ pools = <<[tx |-> 1, state |-> Row(FreshPool)]>>
  /\ tokens = <<>> /\ payouts = {}
  /\ trades = [s \in Side |-> [a \in Action |-> 0]]
  /\ fills = <<>>
  /\ attested = {} /\ bond = "locked"
  /\ built = 0

-----------------------------------------------------------------------------
(* The operator parks a plan over the pool the tables hold *)

Idle == call = None

\* Mutant: buildSell does not take the proceeds out of the pool.
ExpectedMutant(s, m) ==
  IF m.kind = "sell" THEN [s EXCEPT !.q = Sold(s, m).q] ELSE Row(After(s, m))

\* The effect a build* method computes, from the recorded pool and what the caller asked for.
Expected(s, m) == Row(After(s, m))

\* A plan names the pool it spends, so that it can be made after a restart; its effect is computed
\* now, from the recorded pool.
PlanOf(move) ==
  [kind |-> "plan", move |-> move, pool |-> CurrentPool.tx,
   effect |-> Expected(CurrentPool.state, move)]

\* enqueue.
Park(move) ==
  /\ Idle /\ plan = None
  /\ built < MaxPlans
  /\ built' = built + 1
  /\ plan' = PlanOf(move)

Tradable == ~CurrentPool.state.resolved

EnqueueBuy(s) ==
  /\ Tradable
  /\ LET priced == Move("buy", s, 0, {}, {})
     IN  Park([priced EXCEPT !.sats = Charge(Bought(CurrentPool.state, priced).q, s)])
  /\ UNCHANGED <<onChain, engine, tables, call, fills, attested, bond>>

EnqueueSell(s) ==
  /\ Tradable
  /\ CurrentPool.state.q[s] >= 1
  /\ Park(Move("sell", s, 0, {}, {}))
  /\ UNCHANGED <<onChain, engine, tables, call, fills, attested, bond>>

EnqueueResolve(s) ==
  /\ Tradable
  /\ Park(Move("resolve", s, 0, {}, {}))
  /\ UNCHANGED <<onChain, engine, tables, call, fills, attested, bond>>

\* Mutant: the key names the market alone.
SettlementKeyMutant(toVersion) == 0

\* settlementKey: the market and the version the settlement makes.
SettlementKey(toVersion) == toVersion

\* rabinAttest.
Attest(ids) ==
  attested' = attested \cup {[key |-> SettlementKey(Len(pools)), digest |-> ids, at |-> Len(pools)]}

\* enqueueSettle signs before enqueue may refuse.
EnqueueSettle ==
  /\ Tradable
  /\ Unsettled # {}
  /\ Raisable(Unsettled)
  /\ Idle
  /\ Attest(Unsettled)
  /\ \/ Park(Move("settle", "no", 0, Unsettled, {}))
     \/ plan # None /\ UNCHANGED <<plan, built>>
  /\ UNCHANGED <<onChain, engine, tables, call, fills, bond>>

\* The latest token row.
PersistedToken == IF tokens = <<>> THEN 0 ELSE tokens[Len(tokens)]

\* The token a redeem plan names: the one the engine remembers, else the persisted one.
NamedToken == IF token # 0 THEN token ELSE PersistedToken

\* enqueueRedeem and buildRedeem.  A plan that names a token carries its supply as a BigInt, which
\* enqueue's JSON.stringify refuses with a TypeError: only a redeem of no known token is parked.
\* The shares asked for are taken as one: what such a plan expects is never recorded.
EnqueueRedeem(s) ==
  /\ CurrentPool.state.resolved
  /\ NamedToken = 0
  /\ Park(Move("redeem", s, PayoutUnit, {}, {}))
  /\ UNCHANGED <<onChain, engine, tables, call, fills, attested, bond>>

EnqueuePayout ==
  /\ CurrentPool.state.resolved
  /\ payouts = {}
  /\ LET winners == WinningPayouts(CurrentPool.state.winner)
     IN  /\ Cardinality(winners) \in 1..MaxPayouts
         /\ Total(winners) <= CurrentPool.state.collateral
         /\ Park(Move("payout", "no", 0, {}, winners))
  /\ UNCHANGED <<onChain, engine, tables, call, fills, attested, bond>>

\* Traders go on trading off-chain while the recorded pool is open.
Fill(t, s, a) ==
  /\ Tradable
  /\ Len(fills) < MaxFills
  /\ a = "sell" => Holds(t, s) >= 1
  /\ fills' = Append(fills, [trader |-> t, side |-> s, action |-> a, batch |-> 0])
  /\ UNCHANGED <<onChain, engine, tables, plan, call, attested, bond, built>>

Reject ==
  /\ Idle /\ plan # None
  /\ plan' = None
  /\ UNCHANGED <<onChain, engine, tables, call, fills, attested, bond, built>>

-----------------------------------------------------------------------------
(* authorize *)

\* livePool: the engine's own instance, else one rebuilt from the plan's pool.
LivePool == IF warm # 0 THEN warm ELSE plan.pool

\* The transaction is built over the live pool and sent.
Authorize ==
  /\ Idle /\ plan # None
  /\ Admits(chain[LivePool].state, plan.move)
  /\ LET sent == [move |-> plan.move, spends |-> LivePool,
                  state |-> After(chain[LivePool].state, plan.move)]
     IN  /\ air' = air \cup {sent}
         /\ call' = [kind |-> "call", sent |-> sent, tx |-> 0]
  /\ warm' = LivePool
  /\ UNCHANGED <<chain, token, tables, plan, fills, attested, bond, built>>

\* The engine or the covenant refuses the plan before anything is sent: the row fails and the
\* engine drops its instances, but not the token it remembers.
Refuse ==
  /\ Idle /\ plan # None
  /\ ~Admits(chain[LivePool].state, plan.move)
  /\ plan' = None
  /\ warm' = 0
  /\ UNCHANGED <<onChain, token, tables, call, fills, attested, bond, built>>

\* The network takes a transaction, whether or not anybody waits for it.  What competes with it
\* for the same output can never follow.
Accept(t) ==
  /\ \A i \in 1..Len(chain) : chain[i].spends # t.spends
  /\ chain' = Append(chain, t)
  /\ air' = {u \in air : u.spends # t.spends}
  /\ call' = IF call # None /\ call.sent = t THEN [call EXCEPT !.tx = Len(chain')] ELSE call
  /\ UNCHANGED <<engine, tables, plan, fills, attested, bond, built>>

\* Mutant: the minted token is remembered and not persisted.
TokenRowsMutant(tx) == tokens

\* applyEffects on the tokens table: a buy adds a row.
TokenRows(tx) == IF plan.move.kind = "buy" THEN Append(tokens, tx) ELSE tokens

\* applyEffects on the trades table: a row for a direct trade, one per fill for a settlement.
TradeRows ==
  [s \in Side |-> [a \in Action |->
     trades[s][a] + (IF plan.move.kind = a /\ plan.move.side = s THEN 1 ELSE 0)
                  + Count(plan.move.ids, s, a)]]

\* positions: a side's buys less its sells, out of the trades rows.
Position(s) == trades[s]["buy"] - trades[s]["sell"]

\* The answer: the engine keeps the new instance, and applyEffects records what the plan expected.
Complete ==
  /\ call # None /\ call.tx # 0
  /\ warm' = call.tx
  /\ token' = IF plan.move.kind = "buy" THEN call.tx ELSE token
  /\ pools' = Append(pools, [tx |-> call.tx, state |-> plan.effect])
  /\ tokens' = TokenRows(call.tx)
  /\ payouts' = payouts \cup plan.move.winners
  /\ trades' = TradeRows
  /\ fills' = [i \in 1..Len(fills) |->
                 IF i \in plan.move.ids /\ fills[i].batch = 0
                 THEN [fills[i] EXCEPT !.batch = Len(pools)] ELSE fills[i]]
  /\ plan' = None /\ call' = None
  /\ UNCHANGED <<onChain, attested, bond, built>>

\* The call fails, though the network may have taken its transaction or take it later.
Fail ==
  /\ call # None
  /\ warm' = 0
  /\ plan' = None /\ call' = None
  /\ UNCHANGED <<onChain, token, tables, fills, attested, bond, built>>

\* Another market's broadcast failed: the engine drops the live instances of every market.
OtherMarketFails ==
  /\ warm' = 0
  /\ UNCHANGED <<onChain, token, tables, plan, call, fills, attested, bond, built>>

\* The daemon restarts; a plan that was in flight is still 'pending'.
Restart ==
  /\ warm' = 0 /\ token' = 0
  /\ call' = None
  /\ UNCHANGED <<onChain, tables, plan, fills, attested, bond, built>>

-----------------------------------------------------------------------------
(* The bond *)

\* slash: two signatures over one key and two digests, from anyone.
Slash ==
  /\ bond = "locked"
  /\ \E a, b \in attested : a.key = b.key /\ a.digest # b.digest
  /\ bond' = "slashed"
  /\ UNCHANGED <<onChain, engine, tables, plan, call, fills, attested, built>>

\* withdraw: the operator, once the challenge window is over.
Withdraw ==
  /\ bond = "locked"
  /\ built >= MatureAt
  /\ bond' = "withdrawn"
  /\ UNCHANGED <<onChain, engine, tables, plan, call, fills, attested, built>>

Next ==
  \/ \E s \in DirectSides : EnqueueBuy(s) \/ EnqueueSell(s)
  \/ \E s \in Side : EnqueueResolve(s) \/ EnqueueRedeem(s)
  \/ EnqueueSettle
  \/ EnqueuePayout
  \/ \E t \in Traders, s \in Side, a \in Action : Fill(t, s, a)
  \/ Reject \/ Authorize \/ Refuse
  \/ \E t \in air : Accept(t)
  \/ Complete \/ Fail \/ OtherMarketFails \/ Restart
  \/ Slash \/ Withdraw

Spec == Init /\ [][Next]_vars

-----------------------------------------------------------------------------
(* Properties *)

TypeOK ==
  /\ \A i \in 1..Len(chain) : chain[i].state \in State /\ chain[i].move.kind \in Kind
  /\ \A t \in air : t.spends \in 1..Len(chain)
  /\ warm \in 0..Len(chain) /\ token \in 0..Len(chain)
  /\ \A v \in 1..Len(pools) : pools[v].state \in State
  /\ tokens \in Seq(Nat) /\ payouts \subseteq PayoutRow
  /\ \A i \in 1..Len(fills) : fills[i].batch \in 0..(Len(pools) - 1)
  /\ bond \in {"locked", "slashed", "withdrawn"} /\ built \in 0..MaxPlans

\* The recorded transaction of pool version v.
Recorded(v) == chain[pools[v].tx]

\* What the tables say a pool holds is what its covenant holds, although the effect was computed
\* when the plan was parked and the move is made later, from the engine's own copy (build* and exec*).
RecordMatchesCovenant ==
  \A v \in 1..Len(pools) : pools[v].state = Row(Recorded(v).state)

\* Every share the recorded pool counts was settled from a fill or traded by the operator, no fill is
\* counted twice, across rejected, failed and repeated settlements, and the book that positions()
\* adds up from the trades rows is the recorded pool's (applyEffects).
HoldingsAccounted ==
  \A s \in Side :
    LET moved(k) == Cardinality({v \in 1..Len(pools) : /\ Recorded(v).move.kind = k
                                                      /\ Recorded(v).move.side = s})
    IN  /\ CurrentPool.state.q[s] = NetUnits((1..Len(fills)) \ Unsettled, s) + moved("buy") - moved("sell")
        /\ CurrentPool.state.q[s] = Position(s)

\* Once winners are recorded as paid, everybody net long on the winning side was paid their whole
\* position, settled or not, nobody is shown as outstanding, and the transaction the row names paid
\* just that (payout.ts, service.ts payoutPreview, execPayout).
WinnersPaidInFull ==
  payouts # {} =>
    /\ Outstanding = {}
    /\ \A t \in Traders :
         LET owed == PayoutUnit * Holds(t, CurrentPool.state.winner)
         IN  owed > 0 => [trader |-> t, sats |-> owed] \in payouts
    /\ \E v \in 1..Len(pools) : Recorded(v).move.winners = payouts

\* The token a redeem would name is the one the latest recorded buy minted, whatever failed since:
\* the engine remembers it through a failure and the tables through a restart (scryptEngine.ts
\* buildRedeem, service.ts enqueueRedeem and applyEffects).
LatestTokenNamed ==
  LET mints == {v \in 1..Len(pools) : Recorded(v).move.kind = "buy"}
  IN  NamedToken = IF mints = {} THEN 0 ELSE pools[Max(mints)].tx

\* An operator who never built two different batches for one version keeps the bond: settlements
\* of different versions are no evidence against each other (attestation.ts, bond.ts slash).
SlashNeedsRebuild ==
  bond = "slashed" => \E a, b \in attested : a.at = b.at /\ a.digest # b.digest
=============================================================================
