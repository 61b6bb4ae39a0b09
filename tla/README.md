# Verification of predictions_market

A TLA+ development kept beside the code: modules that model the running system, TLC configurations that check
them on small instances, and TLAPS proofs of what holds for every value of the constants. `PROJECT.json` maps
every definition to the source lines it translates; all paths below are relative to `src/`.

Contents: [the system](#1-the-system) · [what is hard](#2-what-is-hard) · [the modules](#3-the-modules) ·
[the runs](#4-the-runs) · [the proofs](#5-the-proofs) · [what the code does not
keep](#6-what-the-code-does-not-keep) · [not modelled](#7-what-is-not-modelled) · [the plan](#8-the-plan)

## 1. The system

A prediction market whose money sits in one covenant UTXO per market, and whose trading happens off chain.

| component | state | operations | interacts with |
|---|---|---|---|
| execution engine (`packages/execution/src/engine.ts`) | one runtime per market in memory: LMSR state `q`, `e`, the receipt number `seq`, a promise-chain lock | `openMarket`, `submit` → `fill` → `persist`, `positionsOf`, `pendingBatch`, `resyncState` | writes `exec_orders`; called by the market service |
| settlement audit (`audit.ts`), payout list (`payout.ts`) | none | `auditMarket`, `auditSettlement`; `winningPayouts` | reads `exec_orders`, `exec_batches`, `pool_utxos` |
| market service (`apps/daemon/src/service.ts`) | the SQLite tables, two caches | orders: `createPaymentIntent`, `submitOrder`, `acceptPayment`; queue: `enqueue*`, `authorize`, `reject`, `applyEffects`; pot: `sellDebts`, `potStakes`, `enqueueProceeds`, `authorizeProceeds`; claims: `payoutClaims`, `payoutClaim`, `minedHeight` | everything |
| covenant engine (`packages/contracts-scrypt/src/scryptEngine.ts`) | the live contract instance and token of each market, a fee wallet, what it spent | `build*` (plans), `authorizeAndBroadcast` (`exec*`), `livePool`, `liveToken`, `rabinAttest` | the network |
| covenant (`contracts/lmsrMarket.ts`) | `@prop`s: `q`, `e`, collateral, resolved, winner, paid | `buy`, `sell`, `settle`, `resolve`, `redeem`, `payout` | spent by the covenant engine |
| bond (`contracts/bond.ts`), share token | deadline, keys; holder | `slash`, `withdraw`; `transfer`, `burn` | attestations |
| Rúnar engine (`packages/engine/src/runar.ts`) and its contract (`LMSRMarket.runar.ts`) | an overlay of the transactions it sent; the contract's fields | `buildBuy`, `buildSell`, `execDeploy`, `execChain` | the network; an alternative to the covenant engine, without settlement |
| LMSR arithmetic (`packages/lmsr`) | none | fixed point `exp`, `ln`, `powFixed`, unit steps, charges, quotes | both engines, the covenants, the service |
| wallet package | the BEEF cache | `verifyPayment`, `fundedAt`, `publish`, `minedAt`, `atomicBeef`, `buildProceedsPayment`, BRC-29 derivation | chain service, service |
| persistence | tables, UNIQUE indexes | migrations | everything |
| HTTP router (`http.ts`) | the operator token | routes, `assertOperator` | web client, service |
| web client | the stake sheet, the operator console, the claim button | quote → wallet → order; acknowledge and slide; claim | HTTP router, the trader's wallet |

What makes each of them correct:

* **execution engine**: nobody is ever short; a signed order is filled at most once; receipts have one total
  order that survives restarts; a refused order changes nothing; the lock never jams.
* **settlement**: every fill is settled at most once, and each settlement is exactly the fills it stamps; an
  unsettled fill can always be settled.
* **sign-off queue**: the database follows the covenant's own history across lost answers and restarts; a move
  is made once; a pool pays once; the daemon never signs two digests for one version.
* **funding**: no fill without a payment the network holds; one fill per payment; nobody pays twice; a paid
  quote is never lost.
* **proceeds**: a seller is paid once whatever answers are lost, from stakes that exist; a payment's debts and
  stakes are booked together.
* **covenant and tables**: what a plan promised when it was parked is what the covenant holds when it was made;
  every share is accounted for; winners are paid all they hold, once; a minted token stays known; only a
  second batch for one version endangers the bond.
* **LMSR**: nobody gains by going in a circle; the seed covers every outcome; quotes and shown prices bound the
  cost function from the right sides; the two ways of computing an exponential stay close; the Rúnar contract and
  its planner agree to the satoshi.
* **engines' funding**: no output is offered that the process could know to be spent; the recorded pool can be
  spent.
* **claims**: caches hold only what is final; whoever is paid can collect.
* **console**: what is authorized was acknowledged; a row is decided once; the page catches up with the queue.

## 2. What is hard

Node is single threaded, so the races are between *awaits*: `submitOrder` checks the market, awaits the payment's
verification, awaits the market's lock; `authorize` reads a row, awaits the network and then writes;
`createPaymentIntent` awaits a chain lookup. Memory (the engine's runtime, the live contract instances) is lost
in a restart, the tables are not. The network accepts a transaction and the answer is lost, or accepts it long
after the call that sent it failed. The chain explorer lists spent outputs and answers late or not at all. Clients
time out, reload, and press again; answers overtake each other on the way to a page. The arithmetic truncates, in
two engines and two contracts that must agree. The hazards, each at its line, are listed in `PROJECT.json` with the
properties that cover them.

## 3. The modules

| module | what it is |
|---|---|
| `Sums` | `Total(n, f)`, the sum of a sequence as a recursive function; `ExecutionProofs` proves what the proofs need of it |
| `Execution` | engine, ledger and settlement boundary of one market |
| `FillLedger` | the abstract specification of what the execution layer promises |
| `ExecutionRefinement` | the refinement mapping from `Execution` to `FillLedger` |
| `SignOff` | the sign-off queue of one market on mainnet, the engine's instance and the network |
| `MarketHistory` | the abstract specification of what one operator is promised of a market: one line of moves and the tables that record it |
| `SignOffRefinement` | the refinement mapping from `SignOff` to `MarketHistory` |
| `Covenant` | one market with its money: the covenant's methods, the engine's memory, the tables, tokens, winners, bond |
| `Funding` | one trader's order: intent, payment, fill |
| `Proceeds` | what the markets owe sellers, and the pot they are paid from |
| `Claims` | how a payee's wallet gets the money, with the one-time keys and the two caches |
| `Lmsr` | the fixed-point arithmetic, and a market priced unit by unit and by settlement |
| `RunarMarket` | on top of `Lmsr`: the Rúnar contract and the plans its engine makes |
| `Wallet` | which funding outputs each engine offers, and the chain of unit trades |
| `Console` | the operator's pages between the queue and the daemon |
| `MC*` | instances for TLC |
| `ExecutionProofs` | lemmas about sums; types, no naked short, receipt order and finality; settlements audit and are covered; `Execution` implements `FillLedger` |
| `SignOffProofs` | the theorems about `SignOff`, with the refinement of `MarketHistory` |
| `CovenantProofs`, `ProceedsProofs`, `FundingProofs`, `ClaimsProofs`, `WalletProofs`, `ConsoleProofs` | the theorems about the module each is named after |

The components share tables, and each module takes the others' part as an environment: `Execution` treats the
payment gate and the broadcast as one choice each, `Funding` treats the fill as "fills or throws", `SignOff` and
`Covenant` add fills at any time, `Proceeds` adds stakes and sells, `Claims` lets payments be broadcast, `Console`
lets the service queue a row or refuse. `SignOff` has the races of the queue and no money; `Covenant` has the money
and one console that waits for every answer.

### Execution

| variable | code |
|---|---|
| `mem` | `ExecutionEngine.markets.get(id)`: `open`, `q`, `seq`; a restart forgets it |
| `accepting` | `submitOrder` calls suspended in `acceptPayment` |
| `lockQueue` | `submit`'s promise chain, in order |
| `ledger`, `batchOf` | `exec_orders` and its column `batch_id` (0 is NULL) |
| `pools` | `pool_utxos`, version `v` at `v + 1` |
| `pending` | the market's pending row of `broadcasts`, as the plan in it |
| `batches` | `exec_batches`: versions, nets, and the row ids its digest commits to |

`Quote` is `createPaymentIntent` (it opens the market), `Submit` is `submitOrder` up to its first await,
`AcceptPayment`/`RefusePayment` the end of that await. `Fill`, `FillNotPersisted` and `RefuseOrder` are the three
ways `fill` can end: receipt inserted, INSERT refused *after* the runtime moved, a check that threw. The checks
are the code's: signature, the trader's own position, the pool's shares; the payment gate is a free choice on
buys, because prices are not modelled. `EnqueueSettle`, `EnqueueTrade`, `EnqueueResolve` park a plan over the
current pool, `Dismiss` is a rejection or failed broadcast, `AuthorizeSettle`/`AuthorizeOther` are `applyEffects`
with the covenant's own oversold assert as guard. `Restart` may happen anywhere. `EnqueueTrade` is the
operator's own trade on the pool (the covenant's `buy`/`sell`).

### SignOff

`rows` is `broadcasts`, `pools` is `pool_utxos`, `warm` the contract instance the engine keeps, `calls` the
`authorize` calls, `chain` the transactions the network accepted. Authorizing
is three steps: `Authorize` (read the row, choose the output to spend, broadcast), `Accept` (the network takes it,
at any later time, also after the call failed or the process died, provided the output is unspent and the
covenant's asserts hold), and `Complete` or `Fail` (the answer, or its absence). `Complete` applies the effects
computed when the plan was *built*; it does not look at the row, and neither does the code.
A run considers several `Lives`: with one console, whose buttons are disabled while its own request is out
(`Operator.tsx`, `busy`), the operator waits for every answer; the second console is a second operator, a second tab, or the
page mounted anew while its predecessor's request is still out (`Console` shows that one). Enqueueing is one step although
the handlers are `async`: the covenant engine's `build*` functions do no I/O, so no other request runs in between.
Fills are one-unit buys of one side, so a pool's state is one number. Money, tokens and the attestations are `Covenant`'s.

`MarketHistory` keeps what is left of this for one operator: `made`, the moves of the recorded pool's line, `recorded`, the
pools the tables hold, `settled` and the number of fills; it is the lineage of which `001_init.sql` says "v0 -> v1 -> v2 ...". A move
is made only while the tables are up to date (`Make`), so they are never more than one behind, and it must be legal after the last one: no trade after the resolution, no fill
settled twice, one payout. The mapping reads the recorded moves off `pools` and adds what the network made of the current pool since
(`Ahead`). Plans, rows, calls, the warm instance, and whatever a lost deploy started are forgotten.

### Covenant

`chain` is the market's transactions with the state each leaves, `air` what was sent and not accepted (yet),
`warm` and `token` the engine's instance and token, `plan` and `call` the pending row and the authorize call,
`pools`, `tokens`, `payouts`, `trades`, `fills` the tables. The point of the module is that a move is computed three
times: `Expected` is the effect a `build*` method computes from the *recorded* pool and what the caller asked for;
`After` is what the `exec*` method makes of the engine's *live* instance when the plan is authorized; `Admits` is
what the covenant's method asserts of that. `applyEffects` (`Complete`) writes the first while the chain has the
second. `Refuse`, `Fail` and `Restart` lose the instance but not always the token, as the code does; so does a failed
broadcast of any other market (`OtherMarketFails`, here and in `SignOff`), because the engine then clears every market's instance.
`EnqueueSettle` signs before `enqueue` may refuse.
A trade's exponential is exact here (`mult` is 2); truncation is `Lmsr`'s.

A redeem is never made. A plan that names a token carries the token's supply as a `BigInt` (`scryptEngine.ts:573-576`), and
`enqueue` serialises plans with `JSON.stringify` (`service.ts:1207`), which throws on one; nothing in the repository teaches
`BigInt` a JSON form. So `EnqueueRedeem` is guarded by there being no known token (`NamedToken = 0`), and a plan queued then
is refused by `execRedeem`, which finds none. The covenant's `redeem` method and the burning of tokens lie behind this and are not modelled.

### Proceeds

`stakes` is the paid `payment_intents` with their column `spent`, `sells` the sell fills with their `sell_proceeds`
row, `rows` the broadcasts of kind `proceeds`. `StartPayment` reads debts and stakes, `ParkPayment` ends the await in
which the stakes' transactions are fetched (any of them may be missing: `unfetched`); `Send` starts `publish`,
`Record`, `RefuseToRecord` and `NotSent` are its three ends; `Accept` happens whenever the network likes once a
payment left the daemon. Every payment takes the whole pot, which is what makes two payments of one debt compete.
`SellThenStop` is the process stopping between the fill and the booking of its debt.

### Claims

`Poll` and `LookUp` are the two callers of `minedHeight`, `Answer` its await (`lookups`), `Lapse` the 15 seconds of an
empty answer. `Press` is the button of one box, `Choose` the sort in `payoutClaim`, `Prove` and `NoProof`
`atomicBeef` with its one level of parents, `Internalize` the wallet. A key is its owner, the two identities it was
derived between and the nonces' scope: enough to say who can spend an output, which is how both addresses nobody
could spend from came about (ADR-041, MAINNET-011).

### Lmsr and RunarMarket

The operators are the functions of `fixed.ts` and `lmsr.ts` with their truncations, over a small `Wad`; series are
recursive functions, cut at `Terms` where the code stops at a zero term. The market moves a `book` one unit at a
time, as the execution engine does, and a `pool` by the power of a settlement's `net`, as the covenant does; at a
settlement the book adopts the pool (`resyncState`). `RunarMarket` adds no behaviour: it writes the Rúnar
contract's methods as operators from a state to the set of states they admit, the engine's plans as functions, and
asks in every state of `Lmsr` whether they agree.

### Wallet

Two engines, two strategies against an explorer that omits outputs and lists spent ones. The sCrypt engine asks the
chain about each output the explorer lists (`ListUnspent`; `silent` got no answer), keeps the answers in `held`, and
remembers what it spent in a set that outlives the wallet a failure drops. The Rúnar engine lays `created` and `spent` over the
list, because a trade of `n` units is `n` transactions; `FundStep` is `prepareCall` and the second look the re-signing takes.
`Answered` goes on to the next unit or returns the pool; `Fail` and `Restart` may strike between any two units.

### Console

A page shows the last list it heard; `polls` are answers on their way, each the rows as they were. `Act` makes the
page busy until its own answer, and after a success until the awaited refresh, is heard. `Reopen` is a change of
tabs: the page's successor knows nothing of the request in flight. `Slide` needs the acknowledgement, which belongs to
the row's key (`Kept`). At the daemon `authorize` checks the row before its await and not after (`Finish`);
`crossed` records the rows about which calls of two pages met.

### Funding

`intents` is `payment_intents` for one (market, trader, side, units), `payments` what the wallet made and whether
the network has it, `work` the daemon's suspended handlers, `client` the stake sheet. The wallet is honest: it
pays the quoted amount to the quoted script. The trader may decline in the wallet or, having paid, leave before the order
reaches the daemon (`Leave`). Five things can go wrong, and `faults` remembers which did:
a client stops waiting for its order and leaves its handler running (`"abandoned"`), or for its quote (`"requoted"`;
`GiveUp` is both: a reload, a dropped connection); a quote expires between the payment and the order (`"lapsed"`,
`SubmitExpired`); the chain service lags or fails (`fundedAt` finds nothing, `exists`
throws, three looks are too few); the daemon restarts. A handler that awaits `fundedAt` keeps the row it read before:
`late` says that the quote in it has expired, which is what `fresh` is computed from afterwards, whatever another
handler did to the row meanwhile.
The properties say which of them they tolerate. `ListReceipts` is the join
`listReceipts` shows, which names the payment on the intent, not the one that bought the fill.

## 4. The runs

| run | shows | bounds | states |
|---|---|---|---|
| `MCExecution` | types, no naked short, receipt order, settlements audit and are covered, receipts are final; `Execution` implements `FillLedger`; every order behind the lock is answered | 2 traders, 2 nonces, 5 orders (a replayable sell, a 2-unit sell by a 1-unit holder, a forged buy), 3 submits, 3 pool versions, direct trades | 0.1 M |
| `MCSignOff` | database = covenant history, settled once, pool known on chain; stamped is cleared, a pool pays once; with one console `SignOff` implements `MarketHistory` | one console with 2 fills and direct trades, or two with 1 fill; 4 plans, 4 calls | 1.7 M |
| `MCCovenant` | record = covenant, holdings accounted, winners paid in full, the latest token named, the bond | 2 traders, 2 fills, net at most 1 a side, 4 plans | 2.4 M |
| `MCFunding` | every fill is paid; one fill per intent, refunds bought nothing, never pays twice, paid intents bought | 4 presses, any number of faults | 3.2 M |
| `MCProceeds` | a debt is paid once, books move as a whole | 2 markets, 2 consoles, 2 stakes, 2 sells, 3 payments | 1.5 M |
| `MCClaims` | caches hold what is final; whoever is paid collects | 1 payee, two sales in one transaction and a payout | 43 k |
| `MCLmsr` | round trips, solvency, price bounds, plans admitted, settlements move little | 8 fills, depths 2 and 4, three decimal digits, quotes up to 3 | 43 k |
| `MCWallet` | offered outputs are free, the recorded pool is the tip | both engines, 2 deposits, 3 more transactions, trades of up to 2 units, 1 restart | 0.8 M |
| `MCConsole` | authorize was meant, decided once, the queue catches up | 1 page opened twice, 2 rows, 1 poll in flight besides the awaited one, 1 restart | 0.5 M |

Why the bounds are enough. Three submits admit a buy, its sell and the sell's replay, two buys and a sell that one of the
traders does not cover, and a fill on both sides of a settlement in flight; three pool versions admit two settlements after the
deploy, or one around a direct trade. In `SignOff` a whole life takes four plans and four calls (deploy, settle, resolve, payout), and a
shorter one with the plan rebuilt after a rejection, a failure or a restart fits as well; the double payout
needs deploy, resolve, payout, payout. `Covenant` starts deployed, so four plans are a trade or settlement, the
resolution, a payout, and one to be rebuilt; with two fills a net of 1 can be exceeded. In `Funding` four presses are two requests for a quote that
meet over a third, stale one, and a retry of the order that follows. In `Proceeds` two payments of one debt need two rows and a third is the other market's; a stake that comes
in between two payments is what could pull them apart. In `Wallet` three transactions are the deploy and a trade of two units, or a failed
trade and its retry. In `Lmsr` eight fills cross a settlement of every size up to the cap and back; a larger
`Wad` makes every error smaller, and TLC's integers end at 2^31. In `Console` the page and its successor are two actors already.

All bounds are guards. `CHECK_DEADLOCK` is off in `MCLmsr`, whose only actions are fills up to the bound and settlements; everywhere else a restart is always possible or, in `Wallet` and `Console`
with their one restart, polling or a new call is.

Fairness. `Execution`: weak fairness of `RunLock` alone: the continuation of a settled promise runs, and
`m.lock = run.then(() => undefined, () => undefined)` settles whichever way the fill ends. `Claims`: miners mine, an awaited
lookup is answered (fetch ends one way or the other), the daemon's handler and the wallet run on; the payee presses
every button again and again, and the proof of a payment that can be had is not missed for ever (strong fairness, because presses and
proofs are enabled only between the attempts before them). `Console`: the interval ticks and GET requests are answered; nothing is
assumed of the operator or of the engine, as `api.ts` has no timeout.

The restrictions are part of what the passing runs say: `PoolsMirrorChain`, `SettledOnce` and
`PoolKnownOnChain` hold with one console; `IntentBuysOnce` and `RefundBoughtNothing` as long as no client stopped
waiting for its order, `NeverPaysTwice` as long as the chain service did not lag, no client stopped waiting for its quote and no quote
expired once it was paid, and, when an order was abandoned or the daemon restarted, only of payments that were not accepted yet; `AcceptedBoughtFill` as long as the daemon did not
restart in between; `DebtPaidOnce` and `RecordedWhole` as long as no stake was skipped because it could not be fetched;
`OverlayIsFresh` and `PoolIsTip` short of a lost answer, a broken chain or (the overlay) a restart;
`MinedIsKept` when no second lookup is under way; `DecidedOnce` for rows about which no two pages' calls met;
`SomeIsCollected` for one payment of each kind. `SettlementCovered` is claimed until the first direct trade. `SettlementsAudit` and
`ImplementsFillLedger` (and their theorems `SettlementsAlwaysAudit` and `Refinement`) speak for one console: the await of the broadcast (`service.ts:1053`) is
one step in `Execution`, so an authorize overlapping a reject or another authorize of the same row is only in `SignOff`. `WinnersPaidInFull`
is about the fills made while the recorded pool was open: the late fill of `Execution` is not in `Covenant`.
`FillsArePaid`, `StampedIsCleared`, `PoolPaysOnce`, `RecordMatchesCovenant`, `HoldingsAccounted`, `LatestTokenNamed`, `PaidIsFinal`,
`CachesHoldMined`, `HeldIsFree`, `AuthorizeWasMeant`, `QueueCatchesUp` and the arithmetic need no such restriction.

Some of these stop short of a hazard on purpose. `MinedIsKept` excludes the second look-up, which does overwrite a height, and `PoolIsTip`
the broken chain, which does strand a market: they say that nothing else does. `SettlementsAudit` is indifferent to an order filled after the
resolution, and `RecordedWhole` to the change of a proceeds payment, which no table records. `FillsArePaid` says that a filled intent
is none that a new request would find; a request that found it before its fill may still answer with it, because
`createPaymentIntent` does not read it again after its await, and `acceptPayment` then refuses the order.

`TypeOK` of `SignOff`, `Funding`, `Covenant`, `Proceeds`, `Claims`, `Wallet` and `Console` is in no cfg; all but `Covenant`'s
are theorems (of `Covenant`, the shape of its lists is part of `PlanInv`; what the collateral is, is not: a payout takes a sum
over a set out of it), and each holds under the runs' bounds when added to a cfg. So do the inductive invariants of section 5.

## 5. The proofs

All with TLAPS, for every value of the constants that satisfies the named assumptions, which only say what kind of
value each constant is: bounds are naturals (`BoundsAssumption`, `LimitsAssumption`), submitted orders are well-formed
orders (`OrdersAssumption`), lives are consoles, trades and fills (`LivesAssumption`), amounts are positive
(`MoneyAssumption`, `AmountsAssumption`), engines are the two there are (`EnginesAssumption`), payments are of transactions
(`PaymentsAssumption`, `TxsAssumption`). TLC evaluates each on the runs.

| module | theorem | statement |
|---|---|---|
| `ExecutionProofs` | `TypeCorrect` | `Spec => []TypeOK` |
| | `NoNakedShorts` | `Spec => []NoNakedShort` |
| | `LedgerOrdered` | `Spec => []LedgerInOrder` |
| | `ReceiptsFinal` | `Spec => ReceiptsAreFinal` |
| | `SettlementsAlwaysAudit` | `Spec => []SettlementsAudit` |
| | `SettlementsCovered` | `Spec => []SettlementCovered` |
| | `Refinement` | `Spec => ImplementsFillLedger` |
| `SignOffProofs` | `TypeCorrect`, `SignOffSound` | `Spec => [](TypeOK /\ SignOffInv)` |
| | `StampedAreCleared`, `PoolsPayOnce` | `Spec => []StampedIsCleared`, `[]PoolPaysOnce` |
| | `PoolsAreHistory`, `FillsSettleOnce`, `PoolsStayKnown` | `Spec => []PoolsMirrorChain`, `[]SettledOnce`, `[]PoolKnownOnChain` |
| | `QueueImplementsHistory` | `Spec => ImplementsHistory` |
| `CovenantProofs` | `PlansStayCurrent` | `Spec => []PlanInv` |
| | `RecordsMatch`, `HoldingsAreAccounted` | `Spec => []RecordMatchesCovenant`, `[]HoldingsAccounted` |
| | `WinnersArePaid`, `TokenStaysNamed`, `BondIsSafe` | `Spec => []WinnersPaidInFull`, `[]LatestTokenNamed`, `[]SlashNeedsRebuild` |
| `ProceedsProofs` | `TypeCorrect`, `PotSound` | `Spec => [](TypeOK /\ PotInv)` |
| | `PaidStaysPaid` | `Spec => PaidIsFinal` |
| | `DebtsPaidOnce`, `PaymentsAreWhole` | `Spec => []DebtPaidOnce`, `[]RecordedWhole` |
| `FundingProofs` | `TypeCorrect`, `FundingSound` | `Spec => [](TypeOK /\ FundInv)` |
| | `FillsStayPaid`, `IntentsBuyOnce` | `Spec => []FillsArePaid`, `[]IntentBuysOnce` |
| | `RefundsBoughtNothing`, `AcceptedIntentsFill` | `Spec => []RefundBoughtNothing`, `[]AcceptedBoughtFill` |
| | `NobodyPaysTwice` | `Spec => NeverPaysTwice` |
| `ConsoleProofs` | `GateSound` | `Spec => [](TypeOK /\ GateInv)` |
| | `AuthorizesWereMeant`, `RowsAreDecidedOnce` | `Spec => []AuthorizeWasMeant`, `DecidedOnce` |
| `WalletProofs` | `WalletSound` | `Spec => [](TypeOK /\ NoWallet /\ WalletInv)` |
| | `CacheIsFree`, `OverlayOffersFree`, `RecordedPoolIsTip` | `Spec => []HeldIsFree`, `[]OverlayIsFresh`, `[]PoolIsTip` |
| `ClaimsProofs` | `TypeCorrect` | `Spec => []TypeOK` |
| | `CachesAreFinal`, `HeightsAreKept` | `Spec => []CachesHoldMined`, `MinedIsKept` |

*No naked shorts.* A fill adds one receipt, so a position changes by that receipt's signed units
(appending to a sequence adds one term to its `Total`); a sell is guarded by the position itself. Everything else
leaves the ledger alone. The lock is why the guard and the append are one step.

*Ledger order.* `LedgerInOrder` is strengthened by `OpenWhenBusy`: while an order is in a handler or behind the
lock, the runtime is open, so the number a fill takes is one that the ledger's numbers are known to lie below.
A restart empties the lock and closes the runtime together; reopening re-seeds it from the last receipt. The number
the engine holds may run ahead of the ledger (a refused INSERT), never behind.

*Settlements.* `SettlementsAudit` is not inductive: it says nothing of the plan that is waiting. The inductive
invariant adds that a pending settle plan names unsettled rows of the ledger, that its net is their net and its pool is the
current pool plus that net (`PlanCurrent`), and that a stamped row's batch exists (`BatchIds`). It survives because
at most one plan is pending, so no other plan can move the pool or stamp a row before it is applied. `SettlementCovered` is proved from `PoolIsSettledNet`: until the first
direct trade is applied, which shows as a pool version that no batch and no resolution made (`DirectlyTraded`), the current pool is
the net of the settled fills, so with the unsettled ones it is the net of all
fills of a side, which is the sum of the traders' positions, none of them negative (`NoShortNet`).

*Refinement.* A batch is the set of rows stamped with its id; a fill maps to `Issue`, an applied settlement to
`Settle`, every other action to a stutter. The step needs the nonce index and the inductive invariant above.

*Sign-off queue.* Two parts of `SignOffInv` need no assumption on the consoles. `Linked`: whatever a row, a call, a pool
or the warm instance refers to exists, and an accepted call's transaction is the one its plan makes from the output the
call chose. `Line`: the transactions of one deploy form a line and `paid`, once set, is inherited, because an
output is spent once. From them follow `StampedIsCleared` (a stamp is written only by the answer to a transaction that cleared it)
and `PoolPaysOnce` (the covenant's payout asserts `!paid`). The rest is guarded by `OneConsole`. `OneAtATime`: at most
one row is pending, it is a plan over the current pool that clears nothing stamped, the call in flight is that row's and
spends the current pool, and the engine's warm instance, if any, is the current pool. `Mirror`: each version of the pool is the
transaction that spends its predecessor. `Behind` is what late acceptances need: *every* call ever
sent, given up or not, spends some version of the pool, so a transaction that lands late either is on the current one,
and then clears nothing that is stamped, or comes too late. That is why rebuilding a plan while its first transaction may
still land settles nothing twice: both spend the same output.

*The queue implements its history.* The invariants above are not enough. `HistoryInv` adds that every plan has the shape of its kind
(`Planned`: a trade moves one share, a settlement moves as many as it clears, nothing else clears), that a transaction has the root of what it
spends (`Rooted`), and with one console that every transaction but a deploy spends some version of the pool (`OnVersions`) and all
versions have one root (`OneRoot`). `Accept` is then a move or nothing: a call whose base is an old version is refused, because that is
spent; a deploy that lands late starts a line the history does not show; and a transaction on the current pool finds the tables up to date and is legal by the covenant's asserts,
by `SettledOnce` and by `PoolPaysOnce` on the versions' one root. `Complete` is `Open` for the first version and `Record` for every
other, where `OnVersions` says that nothing can already spend the pool it records. Every other step is a `NewFill` or a stutter.

*Covenant.* The run's properties are about what is recorded; none is inductive, because `Complete` writes effects computed when the plan was parked.
`PlanInv` is what makes them current: the plan waiting is the one that would be built now over the recorded pool (`PlanCurrent`: same effect,
unsettled fills, today's winners), the call in flight makes that plan's move from the recorded pool's transaction (`CallCurrent`), and the engine's copy is of that
pool or is gone (`Copies`). It survives because one plan is pending at a time, nothing but its own answer moves the recorded pool, and a
failure drops the copy. `RecordsMatch` follows by showing that `Expected` and `After` agree when they start from the same pool. `HoldingsAreAccounted` counts settled fills and trades through
cardinalities, one side and action at a time. `WinnersArePaid` needs that recorded winners are those of the resolved pool
(`WinnersStand`), `TokenStaysNamed` that the engine remembers the last token row or nothing (`TokensFollow`), `BondIsSafe` that a signature's key is
the version's it is for (`Keyed`).

*Proceeds pot.* `PaidIsFinal` follows from types alone, since a debt is stamped only while it is owed; it is proved and in no cfg. For the others, `PotInv` says
that two accepted payments share no stake, that a payment names sells of its market that were owed when they were read,
and that whatever is booked was booked by a payment of the chain as a whole (`BookedByChain`). Until a stake is skipped, any two payments that
pay one debt, parked or still being built, compete for a stake, or one of them has already lost its stake to an accepted payment
(`Compete`), and an accepted payment is booked as a whole or not at all. `Compete` carries `DebtPaidOnce`: it survives a new payment because that takes every stake of the
pot, and a payment of the same debt that could still be accepted spends stakes which are still in it.

*Funding.* `Known` ties each suspended handler and the client to a payment of their own intent; with `LockedIsPaid`
it gives `FillsArePaid` whatever goes wrong. The others each need the history they are guarded by: `OneOrder` (no client
stopped waiting for its order: one order is under way, its intent is pending until verified, bought nothing yet and names its
payment afterwards), `PaidIsServed` (no restart: a paid intent has its fill or its handler), `OneQuote` (a prompt chain
service and clients that wait for quotes: only the last pending intent is ever offered or paid for, and not again once it is
paid for), `OnePayment` (the same: no intent is paid twice, so a fill or an accepted intent speaks for its one payment), and
`ExpiredHasLapsed` (an intent is marked expired by a lapsed quote only). `Turns` numbers the attempts, so that an answer reaches only the client that asked. The attempt to prove
`NeverPaysTwice` without `"requoted"` in its guard failed, and the failure is the behaviour of the run `RetryPaysTwice`;
it takes four presses. Without `"lapsed"` it is that of `ExpiredMeansUnpaid`, with one more press.

*Console.* `AuthorizeWasMeant` needs that acknowledgements kept for a row were ticked for that row (`AcksAreTicked`); `DecidedOnce`
that a page has one call out for each time it was opened (`OneCall`), awaits one answer (`OneRefresh`), and that the row
the engine works on is still pending unless calls of two pages met (`ServedIsPending`): `authorize` does not look again after
its await, so only this keeps a decided row decided.

*Wallets.* `HeldIsFree` holds because an output leaves the cache when it is given to a transaction (`GivenAway`) and
what an accepted transaction spent is remembered beyond the cache's life (`Remembered`). `OverlayIsFresh` needs that everything spent is remembered
but for the call in flight (`Overlaid`), `PoolIsTip` that whoever spent a recorded pool is the call in flight or left its mark (`Marked`);
both need that nothing, accepted or to be accepted, spends the transaction whose answer is awaited (`Untouched`), and that a
pool is spent by its own market's transactions (`Owned`, `Numbered`).

*Claims.* Both caches are written only from answers about a mined transaction, and nothing is mined twice; a height is
overwritten only by another look-up's empty answer.

Only model-checked: the liveness properties (`EveryOrderAnswered`, `SomeIsCollected`, `QueueCatchesUp`) are out of the
prover's reach; so is what the series and powers of `Lmsr` compute for every input (`NobodyBeatsTheMaker`, `Solvent`, `MakerSafe`,
`PlansAreAdmitted`, `SettleBarelyMoves`), which would take induction over recursive functions with the library's
operator-parameterised theorems.

## 6. What the code does not keep

Three runs end in a counterexample. Each checks one sentence of a comment or a test; `PROJECT.json` quotes it with its line
under `findings`.

| run | property | in short |
|---|---|---|
| `StakeBurned` | `GoodPaymentKeepsIntent` | an unreachable chain service is treated as a bad payment |
| `RetryPaysTwice` | `RetryIsNoSecondPayment` | two requests for one quote both mint; the retry is offered the one that was not paid |
| `ExpiredMeansUnpaid` | `ExpiredMeansUnpaid` | a quote that runs out while the wallet pays it is marked expired unseen; the retry pays again |

The modules contain more behaviours a maintainer will want to know. They are the reasons for the restrictions above,
and can be seen by removing one of them from its property:

* a replayed nonce is refused by the INSERT after the engine's `q` and `seq` advanced (`engine.ts:254`; `:209-210` says a
  refused order leaves the market exactly as it was);
* fills made while a settlement waits vanish from the engine's `q` when it is applied (`engine.ts:161`; `:158-159`
  says `q` is unaffected);
* an order that passed the resolved check before its awaits is filled after the resolution (`service.ts:487`);
* an abandoned request and its retry both pass `acceptPayment`: one intent buys two fills, the intent then names only the
  second payment, and the first stake is in no table (`service.ts:473`);
* of two overlapping authorize calls the loser overwrites the winner's row, and the daemon then refuses a pool the network
  holds (`service.ts:1055`); leaving the operator's tab and coming back is enough to overlap (`App.tsx:170`);
* a settlement rebuilt with one more fill is attested again under the same version: an honest operator's bond can be
  slashed (`service.ts:616`, `bond.ts:22-24`);
* the change of a proceeds payment is in no table, so the pot known to the database is empty after it (`service.ts:963`);
* an answer lost after the network took a transaction leaves the market stuck on a spent pool (`service.ts:1060`); so does a chain
  of Rúnar unit trades that stops half-way (`runar.ts:242`);
* a redeem that names a token cannot be queued at all, because its plan holds a `BigInt` (`service.ts:1207`); it is `EnqueueRedeem`'s guard,
  read off the code;
* of two payments of one kind only the first listed is ever handed to the wallet (`service.ts:773`);
* a late empty answer overwrites a cached height (`service.ts:705`), which costs one more lookup.

## 7. What is not modelled

* *The mock engine and the `local` network*: nothing is broadcast there, so nothing can be lost.
* *The share token's `transfer`, the Rúnar ShareToken and Counter contracts*: nothing in the daemon or the client
  calls them. The covenant's own minting of tokens is in `Covenant`.
* *The covenant's `redeem` method, `execRedeem` beyond its refusal and the burning of tokens*: no plan that reaches them can be queued (`service.ts:1207`).
* *Scripts, hashes, signatures*: sighash preimages, output hashes, Rabin and ECDSA arithmetic, digests, BRC-42, BEEF and transaction
  bytes. The modules keep what these decide: who can spend, which plan was signed, what was paid.
* *Fees*: one output pays for one transaction in `Wallet`, a fixed fee per part in `Proceeds`.
* *`poolSpendable`*: whether the running build can unlock a pool deployed by an older one; its verdict is cached per pool.
* *Several markets*, other than in `Proceeds`: `Funding` follows one order of one market, so an intent used in
  another market (`service.ts:439`) is a listed hazard without a property.
* *The console before the first answer of `/health`*: the network is not known yet (`App.tsx:170`), so a plain authorize button is drawn where
  the slider will be (`Operator.tsx:184`); `AuthorizeWasMeant` is about the slider. *A connection dropped while the daemon goes on* is
  modelled in `Console` only as the daemon's restart.
* *The operator's choice of the market* a lifecycle button acts on (`Operator.tsx:41`).
* *Migrations, configuration, rendering, charts, the one-shot scripts and spikes.*

In `Execution` the plan's broadcast is one step; its interleavings are `SignOff`'s subject. `Covenant` leaves
`poolNotOnChain` to `SignOff`. Oracle signatures are taken as given: the operator resolves to either side.

## 8. The plan

Done: every module of section 3, model-checked; theorems for every safety and action property that a passing run checks, but for the
arithmetic of `Lmsr` and `RunarMarket`; the refinements of `FillLedger` and `MarketHistory`, model-checked and proved.

Left, in this order:

1. The collateral in `CovenantProofs`: that it covers what the winners hold needs sums over sets of holders, so holders would be
   numbered and summed as `Sums` does.
2. `RunarMarket` by proof: plan and contract are the same expressions but for their order, without induction.
3. A second market in `Funding`, with the order's market compared or not, as the code does not.
4. What a restart could do about a pool the network has spent and the tables have not recorded: today nothing, so there is nothing to model until
   the code reconciles.
