------------------------------ MODULE Proceeds ------------------------------
(***************************************************************************)
(* What the markets owe their sellers, and the pot it is paid from: every  *)
(* stake a trader paid, shared by all markets.                             *)
(*                                                                         *)
(*   stakes  the paid payment_intents rows of this network: the column     *)
(*           spent                                                         *)
(*   sells   the sell fills, with their sell_proceeds row: the market,     *)
(*           "owed" or "paid" and by which payment ("none": never booked)  *)
(*   rows    the broadcasts rows of kind 'proceeds'                        *)
(*   work    the daemon's handlers that await something: "fetching", an    *)
(*           enqueueProceeds inside potStakes; "sending", an               *)
(*           authorizeProceeds inside publish                              *)
(*   sent    the rows whose payment has left the daemon at least once      *)
(*   chain   the proceeds payments the network accepted                    *)
(*   faults  "lost", an answer of publish did not arrive; "unfetched", a   *)
(*           stake's transaction could not be fetched and was skipped      *)
(*                                                                         *)
(* A payment is what it spends and what it pays: building is deterministic *)
(* (scoped nonces, deterministic signatures), so building it again gives   *)
(* the same transaction.  Every stake and every debt has the same size.    *)
(* In the covenant's queue nothing else is pending (module SignOff).       *)
(***************************************************************************)
EXTENDS Integers, Sequences, FiniteSets

CONSTANTS
  Markets,      \* the markets that share the pot
  Tabs,         \* the operator's consoles, each waiting for its own answer
  StakeSats,    \* what a buyer pays
  DebtSats,     \* what a seller is owed
  FeePerPart,   \* the fee each input and output adds
  MaxStakes,    \* bound: stakes
  MaxSells,     \* bound: sells
  MaxRows       \* bound: payments parked

ASSUME MoneyAssumption  == /\ StakeSats \in Nat \ {0} /\ DebtSats \in Nat \ {0}
                           /\ FeePerPart \in Nat \ {0}
ASSUME LimitsAssumption == MaxStakes \in Nat /\ MaxSells \in Nat /\ MaxRows \in Nat

VARIABLES stakes, sells, rows, work, sent, chain, faults

vars == <<stakes, sells, rows, work, sent, chain, faults>>

Payment == [market : Markets, spends : SUBSET (1..Len(stakes)), pays : SUBSET (1..Len(sells))]

Sell == [market : Markets, status : {"none", "owed", "paid"}, by : SUBSET Payment]
Row  == [status : {"pending", "broadcast", "failed", "rejected"}, payment : Payment]
Handler == [stage : {"fetching"}, tab : Tabs, market : Markets, pays : SUBSET (1..Len(sells)),
            spends : SUBSET (1..Len(stakes))]
             \cup [stage : {"sending"}, tab : Tabs, row : 1..Len(rows)]

\* sellDebts: the sells of a market that are owed.
Owed(m) == {s \in 1..Len(sells) : sells[s].market = m /\ sells[s].status = "owed"}

\* The stakes potStakes selects and potBalance counts.
Pot == {s \in 1..Len(stakes) : ~stakes[s].spent}

\* A console is free when it awaits no answer.
Free(tab) == \A w \in work : w.tab # tab

\* The faults once the process has stopped: answers it waited for are lost.
AfterStop == IF \E w \in work : w.stage = "sending" THEN faults \cup {"lost"} ELSE faults

Init ==
  /\ stakes = <<>> /\ sells = <<>> /\ rows = <<>>
  /\ work = {} /\ sent = {} /\ chain = {} /\ faults = {}

-----------------------------------------------------------------------------
(* Traders *)

\* A buy was paid for and filled (module Funding).
StakePaid ==
  /\ Len(stakes) < MaxStakes
  /\ stakes' = Append(stakes, [spent |-> FALSE])
  /\ UNCHANGED <<sells, rows, work, sent, chain, faults>>

\* submitOrder books the debt in the same turn as the fill's answer.
SellFilled(m) ==
  /\ Len(sells) < MaxSells
  /\ sells' = Append(sells, [market |-> m, status |-> "owed", by |-> {}])
  /\ UNCHANGED <<stakes, rows, work, sent, chain, faults>>

\* The process stops between the fill and the INSERT into sell_proceeds.
SellThenStop(m) ==
  /\ Len(sells) < MaxSells
  /\ sells' = Append(sells, [market |-> m, status |-> "none", by |-> {}])
  /\ work' = {}
  /\ faults' = AfterStop
  /\ UNCHANGED <<stakes, rows, sent, chain>>

-----------------------------------------------------------------------------
(* enqueueProceeds *)

\* The satoshis of the inputs beyond what is owed and the fee of `outputs` outputs.
Left(spends, pays, outputs) ==
  StakeSats * Cardinality(spends) - DebtSats * Cardinality(pays)
    - FeePerPart * (Cardinality(spends) + outputs)

\* The debts and the stakes are read before the first await.
StartPayment(m, tab) ==
  /\ Free(tab)
  /\ Owed(m) # {}
  /\ work' = work \cup {[stage |-> "fetching", tab |-> tab, market |-> m, pays |-> Owed(m),
                         spends |-> Pot]}
  /\ UNCHANGED <<stakes, sells, rows, sent, chain, faults>>

\* Mutant: coin selection, a payment takes one stake when one is enough.
InputsMutant(w, fetched) ==
  {i \in SUBSET fetched : Cardinality(i) = 1}

\* buildProceedsPayment: every stake it was given is an input.
Inputs(w, fetched) == {fetched}

\* enqueue: at most one row of a market is pending.
ParkPayment(w) ==
  /\ w \in work /\ w.stage = "fetching"
  /\ Len(rows) < MaxRows
  /\ ~ \E r \in 1..Len(rows) : rows[r].status = "pending" /\ rows[r].payment.market = w.market
  /\ \E fetched \in SUBSET w.spends : \E spends \in Inputs(w, fetched) :
       /\ Left(spends, w.pays, Cardinality(w.pays)) >= 0
       /\ rows' = Append(rows, [status |-> "pending",
                                payment |-> [market |-> w.market, spends |-> spends,
                                             pays |-> w.pays]])
       /\ faults' = IF fetched = w.spends THEN faults ELSE faults \cup {"unfetched"}
  /\ work' = work \ {w}
  /\ UNCHANGED <<stakes, sells, sent, chain>>

\* The pot does not cover what is owed, or another row is pending: the handler throws.
RefusePayment(w) ==
  /\ w \in work /\ w.stage = "fetching"
  /\ work' = work \ {w}
  /\ UNCHANGED <<stakes, sells, rows, sent, chain, faults>>

-----------------------------------------------------------------------------
(* authorizeProceeds *)

\* authorize reads the row, and publish is awaited.  The row stays pending.
Send(r, tab) ==
  /\ Free(tab)
  /\ rows[r].status = "pending"
  /\ work' = work \cup {[stage |-> "sending", tab |-> tab, row |-> r]}
  /\ sent' = sent \cup {r}
  /\ UNCHANGED <<stakes, sells, rows, chain, faults>>

\* No other payment spends an input of p.
Acceptable(p) == \A q \in chain : q.spends \cap p.spends = {}

\* The network accepts a payment, whether or not anybody still waits for it.
Accept(r) ==
  /\ r \in sent
  /\ Acceptable(rows[r].payment)
  /\ chain' = chain \cup {rows[r].payment}
  /\ UNCHANGED <<stakes, sells, rows, work, sent, faults>>

\* The UPDATE of every debt changes a row: each is still owed.
Stampable(p) == \A s \in p.pays : sells[s].status = "owed"

\* Mutant: the stakes stay in the pot.
SpendMutant(p) == stakes

\* The stakes the payment consumed.
Spend(p) == [s \in 1..Len(stakes) |-> [spent |-> stakes[s].spent \/ s \in p.spends]]

\* publish says yes: accepted now, or known already.
Published(p) == p \in chain

\* The debts are stamped and the stakes consumed in one transaction.
Record(w) ==
  /\ w \in work /\ w.stage = "sending"
  /\ LET p == rows[w.row].payment
     IN  /\ Published(p)
         /\ Stampable(p)
         /\ sells' = [s \in 1..Len(sells) |->
                        IF s \in p.pays THEN [sells[s] EXCEPT !.status = "paid", !.by = {p}]
                        ELSE sells[s]]
         /\ stakes' = Spend(p)
  /\ rows' = [rows EXCEPT ![w.row].status = "broadcast"]
  /\ work' = work \ {w}
  /\ UNCHANGED <<sent, chain, faults>>

\* A debt was not owed any more: everything rolls back and the row keeps its status.
RefuseToRecord(w) ==
  /\ w \in work /\ w.stage = "sending"
  /\ Published(rows[w.row].payment)
  /\ ~Stampable(rows[w.row].payment)
  /\ work' = work \ {w}
  /\ UNCHANGED <<stakes, sells, rows, sent, chain, faults>>

\* publish says no: the inputs are spent, or the service did not answer.
NotSent(w) ==
  /\ w \in work /\ w.stage = "sending"
  /\ rows' = [rows EXCEPT ![w.row].status = "failed"]
  /\ work' = work \ {w}
  /\ faults' = IF Acceptable(rows[w.row].payment) \/ Published(rows[w.row].payment)
               THEN faults \cup {"lost"} ELSE faults
  /\ UNCHANGED <<stakes, sells, sent, chain>>

Reject(r, tab) ==
  /\ Free(tab)
  /\ rows[r].status = "pending"
  /\ rows' = [rows EXCEPT ![r].status = "rejected"]
  /\ UNCHANGED <<stakes, sells, work, sent, chain, faults>>

\* The process stops and starts again.
Restart ==
  /\ work' = {}
  /\ faults' = AfterStop
  /\ UNCHANGED <<stakes, sells, rows, sent, chain>>

Next ==
  \/ StakePaid
  \/ \E m \in Markets : SellFilled(m) \/ SellThenStop(m)
  \/ \E m \in Markets, tab \in Tabs : StartPayment(m, tab)
  \/ \E w \in work : ParkPayment(w) \/ RefusePayment(w) \/ Record(w) \/ RefuseToRecord(w) \/ NotSent(w)
  \/ \E r \in 1..Len(rows), tab \in Tabs : Send(r, tab) \/ Reject(r, tab)
  \/ \E r \in 1..Len(rows) : Accept(r)
  \/ Restart

Spec == Init /\ [][Next]_vars

-----------------------------------------------------------------------------
(* Properties *)

TypeOK ==
  /\ stakes \in Seq([spent : BOOLEAN]) /\ sells \in Seq(Sell) /\ rows \in Seq(Row)
  /\ work \subseteq Handler /\ sent \subseteq 1..Len(rows) /\ chain \subseteq Payment
  /\ faults \subseteq {"lost", "unfetched"}

\* A seller is never sent the same proceeds twice, whatever answers were lost, rows rejected in
\* flight and handlers restarted (service.ts:956, migration 015 "paying exactly once"): every
\* payment spends the whole pot, so two payments of one debt compete for an input.  A stake that
\* was skipped because its transaction could not be fetched breaks that.
DebtPaidOnce ==
  "unfetched" \notin faults =>
    \A p, q \in chain : p # q => p.pays \cap q.pays = {}

\* A payment is recorded as a whole or not at all: while one of its debts is owed, or one of its
\* stakes in the pot, all are, so that building it again gives the same transaction (as long as
\* no other payment of these debts got through).
RecordedWhole ==
  "unfetched" \notin faults =>
    \A p \in chain : \/ p.pays \subseteq Owed(p.market) /\ p.spends \subseteq Pot
                     \/ p.pays \cap Owed(p.market) = {} /\ p.spends \cap Pot = {}

\* A debt recorded as paid is never paid by a second payment's record (service.ts:956).
PaidIsFinal ==
  [][\A s \in 1..Len(sells) : sells[s].status = "paid" => sells'[s] = sells[s]]_vars
=============================================================================
