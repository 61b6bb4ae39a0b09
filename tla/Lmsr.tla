-------------------------------- MODULE Lmsr --------------------------------
(***************************************************************************)
(* The market maker's arithmetic in fixed point, and a market priced with  *)
(* it twice: the execution engine moves its book one unit at a time, and   *)
(* the covenant moves the pool by a settlement's net, raised to a power.   *)
(* Every division truncates, so the two need not agree; at a settlement    *)
(* the book adopts the pool.                                               *)
(*                                                                         *)
(*   book   the engine's state: net shares q and stored exponentials e     *)
(*   pool   the pool's state as of the last settlement                     *)
(*   net    the units of each side filled since                            *)
(*   cash   satoshis traders have paid less what they were paid            *)
(*   trades how many fills there were; b: the market's liquidity, in shares *)
(*                                                                         *)
(* Shares are counted in units of one share.  Wad is 10^18 in the code and *)
(* must be small here: the errors are larger, the claims the same.         *)
(***************************************************************************)
EXTENDS Integers

CONSTANTS
  Wad,         \* one, in fixed point
  LN2,         \* ln 2, in fixed point
  Depths,      \* the liquidities a market may have
  Terms,       \* terms of a series: the code stops when the next one is 0
  PayoutUnit,  \* satoshis a winning share is worth
  Bits,        \* bits of a settlement's net (MAX_NET_BITS)
  MaxQuote,    \* the units a quote may be asked for (MAX_QUOTE_SHARES)
  MaxTrades    \* bound: fills

ASSUME ScaleAssumption  == Wad \in Nat \ {0} /\ LN2 \in 1..Wad
ASSUME MarketAssumption == Depths \subseteq Nat \ {0} /\ PayoutUnit \in Nat \ {0}
ASSUME BoundAssumption  == Terms \in Nat /\ Bits \in Nat \ {0} /\ MaxQuote \in Nat /\ MaxTrades \in Nat

VARIABLES book, pool, net, cash, trades, b

vars == <<book, pool, net, cash, trades, b>>

-----------------------------------------------------------------------------
(* fixed.ts *)

Side == {"yes", "no"}
Abs(n) == IF n < 0 THEN -n ELSE n
CeilDiv(a, d) == (a + d - 1) \div d

\* Division of BigInts truncates towards zero.
Quot(a, d) == IF a >= 0 THEN a \div d ELSE -((-a) \div d)

Mul(x, y) == Quot(x * y, Wad)

MaxNet == 2^Bits - 1

\* Mutant: the base is squared before the bit is multiplied in.
PowFixedMutant(base, exp) ==
  LET sq[i \in 0..Bits] == IF i = 0 THEN base ELSE (sq[i - 1] * sq[i - 1]) \div Wad
      factor[i \in 0..Bits] ==
        IF i = 0 THEN Wad
        ELSE IF (exp \div 2^(i - 1)) % 2 = 1 THEN (factor[i - 1] * sq[i]) \div Wad
        ELSE factor[i - 1]
  IN  factor[Bits]

\* powFixed, square and multiply: sq[i] and factor[i] are the loop's variables after i rounds.
PowFixed(base, exp) ==
  LET sq[i \in 0..Bits] == IF i = 0 THEN base ELSE (sq[i - 1] * sq[i - 1]) \div Wad
      factor[i \in 0..Bits] ==
        IF i = 0 THEN Wad
        ELSE IF (exp \div 2^(i - 1)) % 2 = 1 THEN (factor[i - 1] * sq[i - 1]) \div Wad
        ELSE factor[i - 1]
  IN  factor[Bits]

\* expFixed of x >= 0: 2^k times the Taylor series of the rest.
ExpPos(x) ==
  LET k == x \div LN2
      f == x - k * LN2
      term[n \in 0..Terms] == IF n = 0 THEN Wad ELSE ((term[n - 1] * f) \div Wad) \div n
      sum[n \in 0..Terms] == IF n = 0 THEN Wad ELSE sum[n - 1] + term[n]
  IN  sum[Terms] * 2^k

ExpFixed(x) == IF x < 0 THEN (Wad * Wad) \div ExpPos(-x) ELSE ExpPos(x)

\* lnFixed of x >= Wad (every sum of exponentials is): x is 2^k * m with m in [1, 2).
LnFixed(x) ==
  LET m[k \in 0..30] == IF k = 0 THEN x ELSE m[k - 1] \div 2
      k == CHOOSE j \in 0..30 : m[j] < 2 * Wad /\ \A i \in 0..(j - 1) : m[i] >= 2 * Wad
      y == ((m[k] - Wad) * Wad) \div (m[k] + Wad)
      term[n \in 0..Terms] == IF n = 0 THEN y ELSE Mul(term[n - 1], Mul(y, y))
      sum[n \in 0..Terms] == IF n = 0 THEN y ELSE sum[n - 1] + (term[n] \div (2 * n + 1))
  IN  k * LN2 + 2 * sum[Terms]

-----------------------------------------------------------------------------
(* lmsr.ts *)

ExpQoverB(q) == ExpFixed((q * Wad) \div b)

InitState == [q |-> [s \in Side |-> 0], e |-> [s \in Side |-> ExpQoverB(0)]]

\* unitMultiplier and unitInverseMultiplier, fixed when a market is made.
Multipliers == [d \in Depths |-> ExpFixed(Wad \div d)]
Inverses    == [d \in Depths |-> ExpFixed(-(Wad \div d))]

UnitMultiplier == Multipliers[b]

UnitInverse == Inverses[b]

Sum2(st) == st.e["yes"] + st.e["no"]

CostFnUnits(st) == Mul(b * Wad, LnFixed(Sum2(st)))

MaxLossSats == (b * LN2 * PayoutUnit) \div Wad

\* applyUnitBuy.
ApplyUnitBuy(st, s) ==
  [q |-> [st.q EXCEPT ![s] = @ + 1], e |-> [st.e EXCEPT ![s] = Mul(@, UnitMultiplier)]]

\* Mutant: a sale gives the share back and leaves the exponential.
ApplyUnitSellMutant(st, s) == [st EXCEPT !.q[s] = @ - 1]

\* applyUnitSell.
ApplyUnitSell(st, s) ==
  [q |-> [st.q EXCEPT ![s] = @ - 1], e |-> [st.e EXCEPT ![s] = Mul(@, UnitInverse)]]

\* Mutant: the charge is rounded down.
BuyChargeMutant(to, s) == (to.e[s] * PayoutUnit) \div Sum2(to)

\* buyChargeApproxSats of one unit: the price after the trade, rounded up.
BuyCharge(to, s) == CeilDiv(to.e[s] * PayoutUnit, Sum2(to))

\* Mutant: the proceeds are rounded up.
SellPayoutMutant(to, s) == CeilDiv(to.e[s] * PayoutUnit, Sum2(to))

\* sellPayoutApproxSats of one unit: the price after the trade, rounded down.
SellPayout(to, s) == (to.e[s] * PayoutUnit) \div Sum2(to)

\* poolSats: what a pool in state st holds, says the cost function.
PoolSats(st) == (CostFnUnits(st) * PayoutUnit) \div Wad

\* applyBuyExact and applySellExact: the exponential recomputed from the shares.
ApplyBuyExact(st, s, n) ==
  [q |-> [st.q EXCEPT ![s] = @ + n], e |-> [st.e EXCEPT ![s] = ExpQoverB(st.q[s] + n)]]

ApplySellExact(st, s, n) ==
  [q |-> [st.q EXCEPT ![s] = @ - n], e |-> [st.e EXCEPT ![s] = ExpQoverB(st.q[s] - n)]]

\* costSats and proceedsSats: what the cost function says the trade is worth.
CostSats(from, to) ==
  LET c == CostFnUnits(to) - CostFnUnits(from)
  IN  IF c <= 0 THEN 0 ELSE CeilDiv(c * PayoutUnit, Wad)

ProceedsSats(from, to) ==
  LET c == CostFnUnits(from) - CostFnUnits(to)
  IN  IF c <= 0 THEN 0 ELSE (c * PayoutUnit) \div Wad

\* priceYesSats and priceNoSats: NO's price is what YES's leaves of a share.
PriceYes(st) == (st.e["yes"] * PayoutUnit) \div Sum2(st)

Price(st, s) == IF s = "yes" THEN PriceYes(st) ELSE PayoutUnit - PriceYes(st)

\* The states that n sequential purchases, or sales, of side s lead through.
Buying(st, s, n) == LET to[i \in 0..n] == IF i = 0 THEN st ELSE ApplyUnitBuy(to[i - 1], s) IN to

Selling(st, s, n) == LET to[i \in 0..n] == IF i = 0 THEN st ELSE ApplyUnitSell(to[i - 1], s) IN to

\* quote: what n purchases cost one after the other, and what n sales bring in, from state st.
QuoteBuy(st, s, n) ==
  LET to == Buying(st, s, n)
      sum[i \in 0..n] == IF i = 0 THEN 0 ELSE sum[i - 1] + BuyCharge(to[i], s)
  IN  sum[n]

QuoteSell(st, s, n) ==
  LET to == Selling(st, s, n)
      sum[i \in 0..n] == IF i = 0 THEN 0 ELSE sum[i - 1] + SellPayout(to[i], s)
  IN  sum[n]

\* What a market's page shows: the price of the engine's book, and the price of the settled pool.
Shown(s) == [now |-> Price(book, s), settled |-> Price(pool, s)]

Init ==
  /\ b \in Depths
  /\ book = InitState /\ pool = InitState
  /\ net = [s \in Side |-> 0]
  /\ cash = 0 /\ trades = 0

Buy(s) ==
  /\ trades < MaxTrades
  /\ book' = ApplyUnitBuy(book, s)
  /\ cash' = cash + BuyCharge(book', s)
  /\ net' = [net EXCEPT ![s] = @ + 1]
  /\ trades' = trades + 1
  /\ UNCHANGED <<pool, b>>

Sell(s) ==
  /\ trades < MaxTrades
  /\ book.q[s] >= 1
  /\ book' = ApplyUnitSell(book, s)
  /\ cash' = cash - SellPayout(book', s)
  /\ net' = [net EXCEPT ![s] = @ - 1]
  /\ trades' = trades + 1
  /\ UNCHANGED <<pool, b>>

\* One side of settle: the pool's exponential by the net's power of mult or of its inverse.
Raise(st, s) ==
  (st.e[s] * PowFixed(IF net[s] >= 0 THEN UnitMultiplier ELSE UnitInverse, Abs(net[s]))) \div Wad

Settle ==
  /\ \E s \in Side : net[s] # 0
  /\ \A s \in Side : Abs(net[s]) <= MaxNet
  /\ pool' = [q |-> [s \in Side |-> pool.q[s] + net[s]], e |-> [s \in Side |-> Raise(pool, s)]]
  /\ book' = pool'
  /\ net' = [s \in Side |-> 0]
  /\ UNCHANGED <<cash, trades, b>>

Next == (\E s \in Side : Buy(s) \/ Sell(s)) \/ Settle

Spec == Init /\ [][Next]_vars

-----------------------------------------------------------------------------

\* Traders who end where they began never leave with the market maker's money, across drift,
\* both sides and settlements (lmsr.ts buyChargeApproxSats, sellPayoutApproxSats).
NobodyBeatsTheMaker == (\A s \in Side : book.q[s] = 0) => cash >= 0

\* The book without any of the errors it has gathered.
Exact == ApplyBuyExact(ApplyBuyExact(InitState, "yes", book.q["yes"]), "no", book.q["no"])

\* Seeded with its maximum loss, the pool holds what the cost function says it must, and that is enough
\* to pay whichever side wins (lmsr.ts poolSats, "The pool holds exactly this many units"; lmsr.test.ts:148).
Solvent ==
  /\ MaxLossSats + cash >= PoolSats(book)
  /\ \A s \in Side : PoolSats(book) >= book.q[s] * PayoutUnit

\* The price after each trade bounds what the cost function says the trades are worth, from above for
\* purchases and from below for sales, although neither is exact, and the price shown lies between
\* what a share costs and what it sells for; the bounds hold of the exact exponentials as well as of
\* the stepped ones (lmsr.ts, "Always >= exact costSats"; service.ts quote).
MakerSafe ==
  \A s \in Side :
    /\ \A n \in 1..MaxQuote : QuoteBuy(book, s, n) >= CostSats(book, Buying(book, s, n)[n])
    /\ \A n \in 1..(IF book.q[s] < MaxQuote THEN book.q[s] ELSE MaxQuote) :
         QuoteSell(book, s, n) <= ProceedsSats(book, Selling(book, s, n)[n])
    /\ Shown(s).now <= QuoteBuy(book, s, 1)
    /\ book.q[s] >= 1 => QuoteSell(book, s, 1) <= Shown(s).now
    /\ LET to == ApplyBuyExact(Exact, s, 1) IN BuyCharge(to, s) >= CostSats(Exact, to)
    /\ book.q[s] >= 1 =>
         LET to == ApplySellExact(Exact, s, 1) IN SellPayout(to, s) <= ProceedsSats(Exact, to)

\* A settlement moves the book by no more than the fills it clears were truncated: the power of
\* the net and the unit steps stay that close (fixed.ts powFixed, engine.ts resyncState).
SettleBarelyMoves ==
  [][Settle => \A s \in Side :
       Abs(book'.e[s] - book.e[s]) * Wad <= 2 * trades * Wad + trades * book.e[s]]_vars
=============================================================================
