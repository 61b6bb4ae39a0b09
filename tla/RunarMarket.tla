---------------------------- MODULE RunarMarket -----------------------------
(***************************************************************************)
(* The Runar engine's market: a contract which trades one unit per         *)
(* transaction and does the arithmetic of module Lmsr itself, in Script,   *)
(* and the plans the engine builds for it from the library's.  Each plan   *)
(* states beforehand what the contract must compute; if the two differ in  *)
(* a single satoshi the transaction is refused.  The contract here is what *)
(* the trades of Lmsr would have made of it, each a transaction.           *)
(***************************************************************************)
EXTENDS Lmsr

\* The contract's mutable state.
ContractState == [q : [Side -> Int], e : [Side -> Nat], collateral : Nat, resolved : BOOLEAN, winner : Side]

\* A method's result: the state it continues in, or none if one of its assertions fails.
Checked(assertions, to) == IF assertions THEN {to} ELSE {}

ContractSum(c) == c.e["yes"] + c.e["no"]

\* Mutant: NO's purchase is priced by what YES weighs.
ChargeMutant(to, s) == (to.e["yes"] * PayoutUnit + ContractSum(to) - 1) \div ContractSum(to)

\* What a purchase of side s must pay at least, in the state it leads to.
Charge(to, s) == (to.e[s] * PayoutUnit + ContractSum(to) - 1) \div ContractSum(to)

\* buyYes, buyNo and their Plain variants, which mint no token.
BuyUnit(c, s, payment) ==
  LET to == [c EXCEPT !.q[s] = @ + 1, !.e[s] = (@ * UnitMultiplier) \div Wad, !.collateral = @ + payment]
  IN  Checked(~c.resolved /\ payment >= Charge(to, s), to)

\* sellYes, sellNo: the contract itself says what the sale brings in.
SellUnit(c, s) ==
  LET moved == [c EXCEPT !.q[s] = @ - 1, !.e[s] = (@ * UnitInverse) \div Wad]
      proceeds == (moved.e[s] * PayoutUnit) \div ContractSum(moved)
  IN  Checked(~c.resolved /\ c.q[s] >= 1 /\ c.collateral >= proceeds,
              [moved EXCEPT !.collateral = @ - proceeds])

\* resolve; that the oracle signed the outcome is left out.
Resolve(c, outcome) == Checked(~c.resolved, [c EXCEPT !.resolved = TRUE, !.winner = outcome])

\* redeem: the contract takes the caller's word for the supply; the engine cannot build it.
Redeem(c, s, supply) ==
  LET payout == supply * PayoutUnit
  IN  Checked(c.resolved /\ s = c.winner /\ supply > 0 /\ c.collateral >= payout,
              [c EXCEPT !.collateral = @ - payout])

\* marketSetup, with the collateral all trades since have left in it.
OnChain ==
  [q |-> book.q, e |-> book.e, collateral |-> MaxLossSats + cash, resolved |-> FALSE, winner |-> "no"]

\* The contract's state as the engine writes it down: the library's state and a running collateral.
NewState(st, collateral) ==
  [q |-> st.q, e |-> st.e, collateral |-> collateral, resolved |-> FALSE, winner |-> "no"]

\* buildBuy: each of n purchases pays the price after it, and names the state it leads to.
BuyPlan(c, s, n) ==
  LET step[i \in 0..n] ==
        IF i = 0 THEN [payment |-> 0, newState |-> c]
        ELSE LET from == step[i - 1].newState
                 to == ApplyUnitBuy(from, s)
                 charge == BuyCharge(to, s)
             IN  [payment |-> charge, newState |-> NewState(to, from.collateral + charge)]
  IN  step

\* buildSell, for no more than is outstanding.
SellPlan(c, s, n) ==
  LET step[i \in 0..n] ==
        IF i = 0 THEN c
        ELSE LET to == ApplyUnitSell(step[i - 1], s)
             IN  NewState(to, step[i - 1].collateral - SellPayout(to, s))
  IN  step

-----------------------------------------------------------------------------

\* Every step of a plan is what the contract computes, to the satoshi and never more than it must pay,
\* and it can always pay a sale; once resolved, it can pay every winning share (LMSRMarket.runar.ts,
\* "Mirrors the @pm/lmsr reference in Runar Script"; runar.ts buildBuy, buildSell).
PlansAreAdmitted ==
  /\ OnChain \in ContractState
  /\ \A s \in Side :
       /\ LET plan == BuyPlan(OnChain, s, MaxQuote)
          IN  \A i \in 1..MaxQuote :
                /\ BuyUnit(plan[i - 1].newState, s, plan[i].payment) = {plan[i].newState}
                /\ BuyUnit(plan[i - 1].newState, s, plan[i].payment - 1) = {}
       /\ LET n == IF book.q[s] < MaxQuote THEN book.q[s] ELSE MaxQuote
              plan == SellPlan(OnChain, s, n)
          IN  \A i \in 1..n : SellUnit(plan[i - 1], s) = {plan[i]}
       /\ \A resolved \in Resolve(OnChain, s) : book.q[s] > 0 => Redeem(resolved, s, book.q[s]) # {}
=============================================================================
