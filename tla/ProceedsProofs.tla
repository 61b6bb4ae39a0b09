--------------------------- MODULE ProceedsProofs ---------------------------
(***************************************************************************)
(* Theorems about the proceeds pot, for any markets, consoles, amounts and *)
(* numbers of stakes, sells and payments, whatever answers are lost,       *)
(* payments rejected in flight and handlers restarted.                     *)
(***************************************************************************)
EXTENDS Proceeds, SequenceTheorems, FiniteSetTheorems, TLAPS

-----------------------------------------------------------------------------
(* The invariants *)

\* The payment a handler is about to park when every stake it was given can be fetched.
Intended(w) == [market |-> w.market, spends |-> w.spends, pays |-> w.pays]

\* The payments parked, and those still being built.
Parked == {rows[r].payment : r \in 1..Len(rows)}
Building == {Intended(w) : w \in {v \in work : v.stage = "fetching"}}

\* A payment is for debts of its market that were owed when they were read.
Grounded(p) ==
  /\ p.pays # {}
  /\ \A s \in p.pays : sells[s].market = p.market /\ sells[s].status # "none"

\* Its debts are stamped and its stakes consumed.
Recorded(p) ==
  /\ \A s \in p.pays : sells[s].status = "paid"
  /\ \A s \in p.spends : stakes[s].spent

\* Its debts are owed and its stakes in the pot.
Open(p) ==
  /\ \A s \in p.pays : sells[s].status = "owed"
  /\ \A s \in p.spends : ~stakes[s].spent

\* Another payment spent one of its inputs: the network will never accept it.
Beaten(p) == \E q \in chain : q # p /\ q.spends \cap p.spends # {}

\* Of two payments of one debt one is beaten, or they compete for an input.
Compete(p, q) ==
  p.pays \cap q.pays # {} =>
    \/ p.spends = {} \/ q.spends = {}
    \/ Beaten(p) \/ Beaten(q)
    \/ p.spends \cap q.spends # {}

\* What is recorded as paid or spent is so by a payment of the chain.
BookedByChain ==
  /\ \A s \in 1..Len(stakes) : stakes[s].spent => \E q \in chain : s \in q.spends /\ Recorded(q)
  /\ \A s \in 1..Len(sells) : sells[s].status = "paid" => \E q \in chain : s \in q.pays /\ Recorded(q)

PotInv ==
  /\ chain \subseteq Parked
  /\ \A p, q \in chain : p # q => p.spends \cap q.spends = {}
  /\ \A p \in Parked \cup Building : Grounded(p)
  /\ \A p \in Parked : p.spends # {}
  /\ BookedByChain
  /\ "unfetched" \notin faults =>
       /\ \A p, q \in Parked \cup Building : Compete(p, q)
       /\ \A p \in chain : Recorded(p) \/ Open(p)

-----------------------------------------------------------------------------
(* Type correctness *)

\* A function over 1..n is a sequence of length n.
LEMMA FunctionIsSeq ==
  ASSUME NEW S, NEW n \in Nat, NEW f \in [1..n -> S]
  PROVE  f \in Seq(S) /\ Len(f) = n
  OBVIOUS

\* What the types say of the elements.
LEMMA Elements ==
  ASSUME TypeOK
  PROVE  /\ Len(stakes) \in Nat /\ \A s \in 1..Len(stakes) : stakes[s] \in [spent : BOOLEAN]
         /\ Len(sells) \in Nat  /\ \A s \in 1..Len(sells) : sells[s] \in Sell
         /\ Len(rows) \in Nat   /\ \A r \in 1..Len(rows) : rows[r] \in Row
         /\ \A w \in work : w.stage = "fetching" =>
              /\ w \in [stage : {"fetching"}, tab : Tabs, market : Markets,
                        pays : SUBSET (1..Len(sells)), spends : SUBSET (1..Len(stakes))]
              /\ Intended(w) \in Payment
         /\ \A w \in work : w.stage = "sending" =>
              /\ w \in [stage : {"sending"}, tab : Tabs, row : 1..Len(rows)]
              /\ w.row \in 1..Len(rows) /\ rows[w.row] \in Row /\ rows[w.row].payment \in Payment
<1>1. Len(stakes) \in Nat /\ \A s \in 1..Len(stakes) : stakes[s] \in [spent : BOOLEAN]
  BY LenProperties, ElementOfSeq DEF TypeOK
<1>2. Len(sells) \in Nat /\ \A s \in 1..Len(sells) : sells[s] \in Sell
  BY LenProperties, ElementOfSeq DEF TypeOK
<1>3. Len(rows) \in Nat /\ \A r \in 1..Len(rows) : rows[r] \in Row
  BY LenProperties, ElementOfSeq DEF TypeOK
<1>4. \A w \in work : w.stage = "fetching" =>
        w \in [stage : {"fetching"}, tab : Tabs, market : Markets,
               pays : SUBSET (1..Len(sells)), spends : SUBSET (1..Len(stakes))]
  BY DEF TypeOK, Handler
<1>5. \A w \in work : w.stage = "fetching" => Intended(w) \in Payment
  BY <1>4 DEF Intended, Payment
<1>6. \A w \in work : w.stage = "sending" => w \in [stage : {"sending"}, tab : Tabs, row : 1..Len(rows)]
  BY DEF TypeOK, Handler
<1>7. \A w \in work : w.stage = "sending" => w.row \in 1..Len(rows)
  BY <1>6
<1>8. \A r \in 1..Len(rows) : rows[r].payment \in Payment
  BY <1>3 DEF Row
<1> QED
  BY <1>1, <1>2, <1>3, <1>4, <1>5, <1>6, <1>7, <1>8

\* Longer tables only make the types larger.
LEMMA TypesGrow ==
  ASSUME TypeOK,
         Len(stakes') \in Nat, Len(stakes) <= Len(stakes'),
         Len(sells') \in Nat, Len(sells) <= Len(sells')
  PROVE  /\ Payment \subseteq Payment'
         /\ Sell \subseteq Sell'
         /\ Row \subseteq Row'
         /\ Len(rows') \in Nat /\ Len(rows) <= Len(rows') => Handler \subseteq Handler'
<1>1. /\ SUBSET (1..Len(stakes)) \subseteq SUBSET (1..Len(stakes'))
      /\ SUBSET (1..Len(sells)) \subseteq SUBSET (1..Len(sells'))
  <2>1. 1..Len(stakes) \subseteq 1..Len(stakes') /\ 1..Len(sells) \subseteq 1..Len(sells')
    BY Elements
  <2> QED
    BY <2>1
<1>2. Payment \subseteq Payment'
  BY <1>1 DEF Payment
<1>3. Sell \subseteq Sell'
  <2>1. SUBSET Payment \subseteq SUBSET Payment'
    BY <1>2
  <2> QED
    BY <2>1 DEF Sell
<1>4. Row \subseteq Row'
  BY <1>2 DEF Row
<1>5. ASSUME Len(rows') \in Nat, Len(rows) <= Len(rows') PROVE Handler \subseteq Handler'
  <2>1. 1..Len(rows) \subseteq 1..Len(rows')
    BY <1>5, Elements
  <2>2. [stage : {"fetching"}, tab : Tabs, market : Markets, pays : SUBSET (1..Len(sells)),
         spends : SUBSET (1..Len(stakes))]
        \subseteq [stage : {"fetching"}, tab : Tabs, market : Markets, pays : SUBSET (1..Len(sells')),
                   spends : SUBSET (1..Len(stakes'))]
    BY <1>1
  <2>3. [stage : {"sending"}, tab : Tabs, row : 1..Len(rows)]
        \subseteq [stage : {"sending"}, tab : Tabs, row : 1..Len(rows')]
    BY <2>1
  <2> QED
    BY <2>2, <2>3 DEF Handler
<1> QED
  BY <1>2, <1>3, <1>4, <1>5

\* A step that leaves the three tables alone keeps their types.
LEMMA TypeTables ==
  ASSUME TypeOK, UNCHANGED <<stakes, sells, rows>>
  PROVE  /\ Payment' = Payment /\ Row' = Row /\ Sell' = Sell /\ Handler' = Handler
         /\ stakes' \in Seq([spent : BOOLEAN]) /\ sells' \in Seq(Sell') /\ rows' \in Seq(Row')
  BY DEF TypeOK, Payment, Row, Sell, Handler

\* Giving a row its status: rows stay typed, and keep their payments.
LEMMA RowDecided ==
  ASSUME rows \in Seq(Row), NEW r \in 1..Len(rows),
         NEW status \in {"pending", "broadcast", "failed", "rejected"}
  PROVE  rows' = [rows EXCEPT ![r].status = status] =>
           /\ rows' \in Seq(Row) /\ Len(rows') = Len(rows)
           /\ \A q \in 1..Len(rows) : rows'[q].payment = rows[q].payment
<1> DEFINE e == [status |-> status, payment |-> rows[r].payment]
<1>1. \A q \in 1..Len(rows) : rows[q] \in Row
  BY ElementOfSeq
<1>2. e \in Row
  BY <1>1 DEF Row
<1>3. [rows[r] EXCEPT !.status = status] = e
  BY <1>1 DEF Row
<1>4. rows' = [rows EXCEPT ![r].status = status] => rows' = [rows EXCEPT ![r] = e]
  <2> HIDE DEF e
  <2> QED
    BY <1>3
<1>5. e.payment = rows[r].payment
  OBVIOUS
<1>6. rows' = [rows EXCEPT ![r] = e] =>
        /\ rows' \in Seq(Row) /\ Len(rows') = Len(rows)
        /\ \A q \in 1..Len(rows) : rows'[q] = IF q = r THEN e ELSE rows[q]
  <2> HIDE DEF e
  <2> QED
    BY <1>2, ExceptSeq
<1> HIDE DEF e
<1> QED
  BY <1>4, <1>5, <1>6

\* Recording a payment stamps its debts, consumes its stakes and touches nothing else.
LEMMA RecordFacts ==
  ASSUME TypeOK, NEW w \in work, Record(w)
  PROVE  LET p == rows[w.row].payment
         IN  /\ w.stage = "sending" /\ w.row \in 1..Len(rows) /\ p \in Payment
             /\ p \in chain
             /\ \A s \in p.pays : sells[s].status = "owed"
             /\ sells' \in Seq(Sell) /\ Len(sells') = Len(sells)
             /\ \A s \in 1..Len(sells) :
                  /\ sells'[s].market = sells[s].market
                  /\ s \in p.pays => sells'[s].status = "paid"
                  /\ s \notin p.pays => sells'[s] = sells[s]
             /\ stakes' \in Seq([spent : BOOLEAN]) /\ Len(stakes') = Len(stakes)
             /\ \A s \in 1..Len(stakes) : stakes'[s].spent = (stakes[s].spent \/ s \in p.spends)
             /\ rows' \in Seq(Row) /\ Len(rows') = Len(rows)
             /\ \A r \in 1..Len(rows) : rows'[r].payment = rows[r].payment
             /\ work' = work \ {w}
             /\ UNCHANGED <<sent, chain, faults>>
<1> DEFINE p == rows[w.row].payment
<1>1. /\ w.stage = "sending"
      /\ p \in chain
      /\ \A s \in p.pays : sells[s].status = "owed"
      /\ sells' = [s \in 1..Len(sells) |->
                     IF s \in p.pays THEN [sells[s] EXCEPT !.status = "paid", !.by = {p}] ELSE sells[s]]
      /\ stakes' = [s \in 1..Len(stakes) |-> [spent |-> stakes[s].spent \/ s \in p.spends]]
      /\ rows' = [rows EXCEPT ![w.row].status = "broadcast"]
      /\ work' = work \ {w}
      /\ UNCHANGED <<sent, chain, faults>>
  BY DEF Record, Published, Stampable, Spend
<1>2. w.row \in 1..Len(rows) /\ p \in Payment
  BY <1>1, Elements
<1> HIDE DEF p
<1>3. /\ Len(sells) \in Nat /\ \A s \in 1..Len(sells) : sells[s] \in Sell
      /\ Len(stakes) \in Nat /\ \A s \in 1..Len(stakes) : stakes[s] \in [spent : BOOLEAN]
  BY Elements
<1>4. \A x \in Sell : /\ [x EXCEPT !.status = "paid", !.by = {p}] \in Sell
                      /\ [x EXCEPT !.status = "paid", !.by = {p}].status = "paid"
                      /\ [x EXCEPT !.status = "paid", !.by = {p}].market = x.market
  <2> SUFFICES ASSUME NEW x \in Sell
               PROVE  /\ [x EXCEPT !.status = "paid", !.by = {p}] \in Sell
                      /\ [x EXCEPT !.status = "paid", !.by = {p}].status = "paid"
                      /\ [x EXCEPT !.status = "paid", !.by = {p}].market = x.market
    OBVIOUS
  <2> DEFINE y == [market |-> x.market, status |-> "paid", by |-> x.by]
             z == [market |-> x.market, status |-> "paid", by |-> {p}]
  <2>1. [x EXCEPT !.status = "paid"] = y
    BY DEF Sell
  <2>2. [y EXCEPT !.by = {p}] = z
    OBVIOUS
  <2>3. [x EXCEPT !.status = "paid", !.by = {p}] = [[x EXCEPT !.status = "paid"] EXCEPT !.by = {p}]
    BY Zenon
  <2>4. z \in Sell
    BY <1>2 DEF Sell
  <2>5. z.status = "paid" /\ z.market = x.market
    OBVIOUS
  <2> HIDE DEF y, z
  <2> QED
    BY <2>1, <2>2, <2>3, <2>4, <2>5
<1>5. \A s \in 1..Len(sells) : /\ sells'[s] \in Sell
                               /\ sells'[s].market = sells[s].market
                               /\ s \in p.pays => sells'[s].status = "paid"
                               /\ s \notin p.pays => sells'[s] = sells[s]
  BY <1>1, <1>3, <1>4
<1>6. sells' \in [1..Len(sells) -> Sell]
  BY <1>1, <1>5
<1>7. sells' \in Seq(Sell) /\ Len(sells') = Len(sells)
  BY <1>3, <1>6
<1>8. \A s \in 1..Len(stakes) : /\ stakes'[s] \in [spent : BOOLEAN]
                                /\ stakes'[s].spent = (stakes[s].spent \/ s \in p.spends)
  BY <1>1, <1>3
<1>9. stakes' \in [1..Len(stakes) -> [spent : BOOLEAN]]
  BY <1>1, <1>8
<1>10. stakes' \in Seq([spent : BOOLEAN]) /\ Len(stakes') = Len(stakes)
  BY <1>3, <1>9, FunctionIsSeq
<1>11. rows' \in Seq(Row) /\ Len(rows') = Len(rows) /\ \A r \in 1..Len(rows) : rows'[r].payment = rows[r].payment
  <2>1. rows \in Seq(Row) /\ "broadcast" \in {"pending", "broadcast", "failed", "rejected"}
    BY DEF TypeOK
  <2>2. rows' = [rows EXCEPT ![w.row].status = "broadcast"]
    BY <1>1
  <2> QED
    BY <1>2, <2>1, <2>2, RowDecided
<1> QED
  BY <1>1, <1>2, <1>5, <1>7, <1>8, <1>10, <1>11 DEF p

\* Stopping only ever adds the fault of a lost answer.
LEMMA AfterStopFacts == AfterStop \in {faults, faults \cup {"lost"}}
  BY DEF AfterStop

\* Every step keeps the types.
LEMMA TypeStep == TypeOK /\ [Next]_vars => TypeOK'
<1> SUFFICES ASSUME TypeOK, [Next]_vars PROVE TypeOK'
  OBVIOUS
<1>0. /\ stakes \in Seq([spent : BOOLEAN]) /\ sells \in Seq(Sell) /\ rows \in Seq(Row)
      /\ work \subseteq Handler /\ sent \subseteq 1..Len(rows) /\ chain \subseteq Payment
      /\ faults \subseteq {"lost", "unfetched"}
      /\ Len(stakes) \in Nat /\ Len(sells) \in Nat /\ Len(rows) \in Nat
  BY Elements DEF TypeOK
<1>1. CASE StakePaid
  <2> DEFINE stake == [spent |-> FALSE]
  <2>1. stakes' = Append(stakes, stake) /\ UNCHANGED <<sells, rows, work, sent, chain, faults>>
    BY <1>1 DEF StakePaid
  <2>2. stake \in [spent : BOOLEAN]
    OBVIOUS
  <2> HIDE DEF stake
  <2>3. stakes' \in Seq([spent : BOOLEAN]) /\ Len(stakes') = Len(stakes) + 1
    BY <1>0, <2>1, <2>2, AppendProperties
  <2>4. Payment \subseteq Payment' /\ Sell \subseteq Sell' /\ Row \subseteq Row' /\ Handler \subseteq Handler'
    BY <1>0, <2>1, <2>3, TypesGrow
  <2>5. sells \in Seq(Sell') /\ rows \in Seq(Row')
    BY <1>0, <2>4, SeqMonotonic
  <2> QED
    BY <1>0, <2>1, <2>3, <2>4, <2>5 DEF TypeOK
<1>2. ASSUME NEW m \in Markets, NEW status \in {"none", "owed"},
             sells' = Append(sells, [market |-> m, status |-> status, by |-> {}]),
             UNCHANGED <<stakes, rows, sent, chain>>,
             work' \subseteq work, faults' \in {faults, faults \cup {"lost"}}
      PROVE  TypeOK'
  <2> DEFINE sell == [market |-> m, status |-> status, by |-> {}]
  <2>1. sell \in Sell
    BY DEF Sell
  <2>2. sells' = Append(sells, sell)
    BY <1>2
  <2> HIDE DEF sell
  <2>3. sells' \in Seq(Sell) /\ Len(sells') = Len(sells) + 1
    BY <1>0, <2>1, <2>2, AppendProperties
  <2>4. Payment \subseteq Payment' /\ Sell \subseteq Sell' /\ Row \subseteq Row' /\ Handler \subseteq Handler'
    BY <1>0, <1>2, <2>3, TypesGrow
  <2>5. sells' \in Seq(Sell') /\ rows \in Seq(Row')
    BY <1>0, <2>3, <2>4, SeqMonotonic
  <2> QED
    BY <1>0, <1>2, <2>4, <2>5 DEF TypeOK
<1>3. ASSUME NEW m \in Markets, SellFilled(m) \/ SellThenStop(m) PROVE TypeOK'
  <2>1. CASE SellFilled(m)
    BY <1>2, <2>1 DEF SellFilled
  <2>2. CASE SellThenStop(m)
    <3>1. /\ sells' = Append(sells, [market |-> m, status |-> "none", by |-> {}])
          /\ UNCHANGED <<stakes, rows, sent, chain>>
          /\ work' \subseteq work /\ faults' \in {faults, faults \cup {"lost"}}
      BY <2>2, AfterStopFacts DEF SellThenStop
    <3> QED
      BY <1>2, <3>1
  <2> QED
    BY <1>3, <2>1, <2>2
<1>4. ASSUME NEW m \in Markets, NEW tab \in Tabs, StartPayment(m, tab) PROVE TypeOK'
  <2> DEFINE w == [stage |-> "fetching", tab |-> tab, market |-> m, pays |-> Owed(m), spends |-> Pot]
  <2>1. w \in Handler
    BY DEF Handler, Owed, Pot
  <2>2. work' = work \cup {w} /\ UNCHANGED <<stakes, sells, rows, sent, chain, faults>>
    BY <1>4 DEF StartPayment
  <2> HIDE DEF w
  <2> QED
    BY <1>0, <2>1, <2>2, TypeTables DEF TypeOK
<1>5. ASSUME NEW w \in work, ParkPayment(w) PROVE TypeOK'
  <2>1. PICK fetched \in SUBSET w.spends :
          /\ rows' = Append(rows, [status |-> "pending",
                                   payment |-> [market |-> w.market, spends |-> fetched, pays |-> w.pays]])
          /\ faults' = IF fetched = w.spends THEN faults ELSE faults \cup {"unfetched"}
    BY <1>5 DEF ParkPayment, Inputs
  <2> DEFINE row == [status |-> "pending",
                     payment |-> [market |-> w.market, spends |-> fetched, pays |-> w.pays]]
  <2>2. /\ w.stage = "fetching" /\ work' = work \ {w}
        /\ UNCHANGED <<stakes, sells, sent, chain>>
    BY <1>5 DEF ParkPayment
  <2>3. /\ w.market \in Markets /\ w.pays \in SUBSET (1..Len(sells))
        /\ fetched \in SUBSET (1..Len(stakes))
    BY <2>2, Elements
  <2>4. row \in Row
    BY <2>3 DEF Row, Payment
  <2>5. rows' = Append(rows, row)
    BY <2>1
  <2> HIDE DEF row
  <2>6. rows' \in Seq(Row) /\ Len(rows') = Len(rows) + 1
    BY <1>0, <2>4, <2>5, AppendProperties
  <2>7. Payment' = Payment /\ Sell' = Sell /\ Row' = Row
    BY <2>2 DEF Payment, Sell, Row
  <2>8. Handler \subseteq Handler'
    BY <1>0, <2>2, <2>6, TypesGrow
  <2>9. sent' \subseteq 1..Len(rows')
    BY <1>0, <2>2, <2>6
  <2> QED
    BY <1>0, <2>1, <2>2, <2>6, <2>7, <2>8, <2>9 DEF TypeOK
<1>6. ASSUME UNCHANGED <<stakes, sells, rows, chain>>, work' \subseteq work, sent' \subseteq 1..Len(rows),
             faults' \in {faults, faults \cup {"lost"}}
      PROVE  TypeOK'
  BY <1>0, <1>6, TypeTables DEF TypeOK
<1>7. ASSUME NEW w \in work, RefusePayment(w) \/ RefuseToRecord(w) PROVE TypeOK'
  BY <1>0, <1>6, <1>7 DEF RefusePayment, RefuseToRecord
<1>8. ASSUME NEW w \in work, Record(w) PROVE TypeOK'
  <2>1. /\ sells' \in Seq(Sell) /\ Len(sells') = Len(sells)
        /\ stakes' \in Seq([spent : BOOLEAN]) /\ Len(stakes') = Len(stakes)
        /\ rows' \in Seq(Row) /\ Len(rows') = Len(rows)
        /\ work' = work \ {w}
        /\ UNCHANGED <<sent, chain, faults>>
    BY <1>8, RecordFacts
  <2>2. Payment' = Payment
    BY <2>1 DEF Payment
  <2>3. Sell' = Sell /\ Row' = Row /\ Handler' = Handler
    BY <2>1, <2>2 DEF Sell, Row, Handler
  <2> QED
    BY <1>0, <2>1, <2>2, <2>3 DEF TypeOK
<1>9. ASSUME rows' \in Seq(Row), Len(rows') = Len(rows), UNCHANGED <<stakes, sells, sent, chain>>,
             work' \subseteq work, faults' \in {faults, faults \cup {"lost"}}
      PROVE  TypeOK'
  <2>1. Payment' = Payment
    BY <1>9 DEF Payment
  <2>2. Sell' = Sell /\ Row' = Row /\ Handler' = Handler
    BY <1>9, <2>1 DEF Sell, Row, Handler
  <2> QED
    BY <1>0, <1>9, <2>1, <2>2 DEF TypeOK
<1>10. ASSUME NEW w \in work, NotSent(w) PROVE TypeOK'
  <2>1. w.row \in 1..Len(rows)
    BY <1>10, Elements DEF NotSent
  <2>2. rows' = [rows EXCEPT ![w.row].status = "failed"]
    BY <1>10 DEF NotSent
  <2>3. rows' \in Seq(Row) /\ Len(rows') = Len(rows)
    BY <1>0, <2>1, <2>2, RowDecided
  <2>4. /\ UNCHANGED <<stakes, sells, sent, chain>> /\ work' \subseteq work
        /\ faults' \in {faults, faults \cup {"lost"}}
    BY <1>10 DEF NotSent
  <2> QED
    BY <1>9, <2>3, <2>4
<1>11. ASSUME NEW r \in 1..Len(rows), NEW tab \in Tabs, Send(r, tab) PROVE TypeOK'
  <2> DEFINE w == [stage |-> "sending", tab |-> tab, row |-> r]
  <2>1. w \in Handler
    BY DEF Handler
  <2>2. /\ work' = work \cup {w} /\ sent' = sent \cup {r}
        /\ UNCHANGED <<stakes, sells, rows, chain, faults>>
    BY <1>11 DEF Send
  <2> HIDE DEF w
  <2> QED
    BY <1>0, <2>1, <2>2, TypeTables DEF TypeOK
<1>12. ASSUME NEW r \in 1..Len(rows), NEW tab \in Tabs, Reject(r, tab) PROVE TypeOK'
  <2>1. rows' = [rows EXCEPT ![r].status = "rejected"] /\ UNCHANGED <<stakes, sells, work, sent, chain, faults>>
    BY <1>12 DEF Reject
  <2>2. rows' \in Seq(Row) /\ Len(rows') = Len(rows)
    BY <1>0, <2>1, RowDecided
  <2> QED
    BY <1>9, <2>1, <2>2
<1>13. ASSUME NEW r \in 1..Len(rows), Accept(r) PROVE TypeOK'
  <2>1. rows[r].payment \in Payment
    BY Elements DEF Row
  <2> QED
    BY <1>0, <1>13, <2>1, TypeTables DEF Accept, TypeOK
<1>14. CASE Restart
  BY <1>0, <1>6, <1>14, AfterStopFacts DEF Restart
<1>15. CASE UNCHANGED vars
  BY <1>0, <1>6, <1>15 DEF vars
<1> QED
  BY <1>1, <1>3, <1>4, <1>5, <1>7, <1>8, <1>10, <1>11, <1>12, <1>13, <1>14, <1>15 DEF Next

\* Every state the pot reaches is of its declared type.
THEOREM TypeCorrect == Spec => []TypeOK
<1>1. Init => TypeOK
  BY DEF Init, TypeOK
<1> QED
  BY <1>1, TypeStep, PTL DEF Spec

-----------------------------------------------------------------------------
(* What a step may do *)

\* The payments parked or being built are payments.
LEMMA CandidatesType ==
  ASSUME TypeOK
  PROVE  Parked \cup Building \subseteq Payment
  BY Elements DEF Parked, Building, Row

\* A sell's status and market are what its type says.
LEMMA SellType ==
  ASSUME TypeOK, NEW s \in 1..Len(sells)
  PROVE  sells[s].status \in {"none", "owed", "paid"} /\ sells[s].market \in Markets
  BY Elements DEF Sell

\* The two tables are left alone but for new rows, unspent and unpaid, or a payment is recorded.
LEMMA TablesStep ==
  ASSUME TypeOK, [Next]_vars
  PROVE  /\ Len(stakes') \in Nat /\ Len(stakes) <= Len(stakes')
         /\ Len(sells') \in Nat /\ Len(sells) <= Len(sells')
         /\ \A s \in 1..Len(stakes') : s \notin 1..Len(stakes) => ~stakes'[s].spent
         /\ \A s \in 1..Len(sells') : s \notin 1..Len(sells) => sells'[s].status # "paid"
         /\ \/ /\ \A s \in 1..Len(stakes) : stakes'[s] = stakes[s]
               /\ \A s \in 1..Len(sells) : sells'[s] = sells[s]
            \/ \E w \in work : Record(w)
<1> DEFINE Lengths == /\ Len(stakes') \in Nat /\ Len(stakes) <= Len(stakes')
                      /\ Len(sells') \in Nat /\ Len(sells) <= Len(sells')
           Fresh == /\ \A s \in 1..Len(stakes') : s \notin 1..Len(stakes) => ~stakes'[s].spent
                    /\ \A s \in 1..Len(sells') : s \notin 1..Len(sells) => sells'[s].status # "paid"
           Same == /\ \A s \in 1..Len(stakes) : stakes'[s] = stakes[s]
                   /\ \A s \in 1..Len(sells) : sells'[s] = sells[s]
<1>0. /\ stakes \in Seq([spent : BOOLEAN]) /\ sells \in Seq(Sell)
      /\ Len(stakes) \in Nat /\ Len(sells) \in Nat
  BY Elements DEF TypeOK
<1>1. CASE StakePaid
  <2> DEFINE stake == [spent |-> FALSE]
  <2>1. stakes' = Append(stakes, stake) /\ sells' = sells
    BY <1>1 DEF StakePaid
  <2>2. stake \in [spent : BOOLEAN] /\ ~stake.spent
    OBVIOUS
  <2> HIDE DEF stake
  <2>3. /\ Len(stakes') = Len(stakes) + 1 /\ stakes'[Len(stakes) + 1] = stake
        /\ \A s \in 1..Len(stakes) : stakes'[s] = stakes[s]
    BY <1>0, <2>1, <2>2, AppendProperties
  <2>4. \A s \in 1..Len(stakes') : s \notin 1..Len(stakes) => s = Len(stakes) + 1
    BY <1>0, <2>3
  <2> QED
    BY <1>0, <2>1, <2>2, <2>3, <2>4
<1>2. ASSUME NEW m \in Markets, SellFilled(m) \/ SellThenStop(m) PROVE Lengths /\ Fresh /\ Same
  <2>1. PICK status \in {"owed", "none"} : sells' = Append(sells, [market |-> m, status |-> status, by |-> {}])
    BY <1>2 DEF SellFilled, SellThenStop
  <2> DEFINE sell == [market |-> m, status |-> status, by |-> {}]
  <2>2. sell \in Sell /\ sell.status # "paid"
    BY DEF Sell
  <2>3. sells' = Append(sells, sell)
    BY <2>1
  <2> HIDE DEF sell
  <2>4. /\ Len(sells') = Len(sells) + 1 /\ sells'[Len(sells) + 1] = sell
        /\ \A s \in 1..Len(sells) : sells'[s] = sells[s]
    BY <1>0, <2>2, <2>3, AppendProperties
  <2>5. \A s \in 1..Len(sells') : s \notin 1..Len(sells) => s = Len(sells) + 1
    BY <1>0, <2>4
  <2>6. stakes' = stakes
    BY <1>2 DEF SellFilled, SellThenStop
  <2> QED
    BY <1>0, <2>2, <2>4, <2>5, <2>6
<1>3. ASSUME NEW w \in work, Record(w) PROVE Lengths /\ Fresh
  BY <1>0, <1>3, RecordFacts
<1>4. ASSUME UNCHANGED <<stakes, sells>> PROVE Lengths /\ Fresh /\ Same
  BY <1>0, <1>4
<1>5. ASSUME NEW m \in Markets, NEW tab \in Tabs, StartPayment(m, tab) PROVE UNCHANGED <<stakes, sells>>
  BY <1>5 DEF StartPayment
<1>6. ASSUME NEW w \in work, ParkPayment(w) \/ RefusePayment(w) \/ RefuseToRecord(w) \/ NotSent(w)
      PROVE  UNCHANGED <<stakes, sells>>
  BY <1>6 DEF ParkPayment, RefusePayment, RefuseToRecord, NotSent
<1>7. ASSUME NEW r \in 1..Len(rows), NEW tab \in Tabs, Send(r, tab) \/ Reject(r, tab)
      PROVE  UNCHANGED <<stakes, sells>>
  BY <1>7 DEF Send, Reject
<1>8. ASSUME NEW r \in 1..Len(rows), Accept(r) PROVE UNCHANGED <<stakes, sells>>
  BY <1>8 DEF Accept
<1>9. ASSUME Restart \/ UNCHANGED vars PROVE UNCHANGED <<stakes, sells>>
  BY <1>9 DEF Restart, vars
<1> QED
  BY <1>1, <1>2, <1>3, <1>4, <1>5, <1>6, <1>7, <1>8, <1>9 DEF Next

\* The chain is left alone, or the network accepts a payment that was sent.
LEMMA ChainStep ==
  ASSUME TypeOK, [Next]_vars
  PROVE  \/ chain' = chain
         \/ \E r \in 1..Len(rows) : Accept(r)
<1>1. ASSUME NEW w \in work, ParkPayment(w) \/ RefusePayment(w) \/ Record(w) \/ RefuseToRecord(w) \/ NotSent(w)
      PROVE  chain' = chain
  BY <1>1 DEF ParkPayment, RefusePayment, Record, RefuseToRecord, NotSent
<1>2. ASSUME NEW r \in 1..Len(rows), NEW tab \in Tabs, Send(r, tab) \/ Reject(r, tab)
      PROVE  chain' = chain
  BY <1>2 DEF Send, Reject
<1>3. ASSUME NEW m \in Markets, \/ SellFilled(m) \/ SellThenStop(m)
                                \/ \E tab \in Tabs : StartPayment(m, tab)
      PROVE  chain' = chain
  BY <1>3 DEF SellFilled, SellThenStop, StartPayment
<1>4. ASSUME StakePaid \/ Restart \/ UNCHANGED vars PROVE chain' = chain
  BY <1>4 DEF StakePaid, Restart, vars
<1> QED
  BY <1>1, <1>2, <1>3, <1>4 DEF Next

\* A recorded fault stays recorded.
LEMMA FaultsStay ==
  ASSUME TypeOK, [Next]_vars
  PROVE  faults \subseteq faults'
<1>1. ASSUME NEW w \in work, ParkPayment(w) \/ RefusePayment(w) \/ Record(w) \/ RefuseToRecord(w) \/ NotSent(w)
      PROVE  faults \subseteq faults'
  BY <1>1 DEF ParkPayment, RefusePayment, Record, RefuseToRecord, NotSent
<1>2. ASSUME NEW r \in 1..Len(rows),
             Accept(r) \/ \E tab \in Tabs : Send(r, tab) \/ Reject(r, tab)
      PROVE  faults \subseteq faults'
  BY <1>2 DEF Accept, Send, Reject
<1>3. ASSUME NEW m \in Markets, \/ SellFilled(m) \/ SellThenStop(m)
                                \/ \E tab \in Tabs : StartPayment(m, tab)
      PROVE  faults \subseteq faults'
  BY <1>3, AfterStopFacts DEF SellFilled, SellThenStop, StartPayment
<1>4. ASSUME StakePaid \/ Restart \/ UNCHANGED vars PROVE faults \subseteq faults'
  BY <1>4, AfterStopFacts DEF StakePaid, Restart, vars
<1> QED
  BY <1>1, <1>2, <1>3, <1>4 DEF Next

\* Parked payments stay parked.
LEMMA ParkedStay ==
  ASSUME TypeOK, [Next]_vars
  PROVE  Parked \subseteq Parked'
<1>0. rows \in Seq(Row) /\ Len(rows) \in Nat
  BY Elements DEF TypeOK
<1>1. ASSUME Len(rows') \in Nat, Len(rows) <= Len(rows'),
             \A r \in 1..Len(rows) : rows'[r].payment = rows[r].payment
      PROVE  Parked \subseteq Parked'
  <2> SUFFICES ASSUME NEW r \in 1..Len(rows) PROVE rows[r].payment \in Parked'
    BY DEF Parked
  <2>1. r \in 1..Len(rows') /\ rows'[r].payment = rows[r].payment
    BY <1>0, <1>1
  <2> QED
    BY <2>1 DEF Parked
<1>2. ASSUME NEW w \in work, ParkPayment(w) PROVE Parked \subseteq Parked'
  <2>1. \E row : rows' = Append(rows, row)
    BY <1>2 DEF ParkPayment
  <2>2. Len(rows') = Len(rows) + 1 /\ \A r \in 1..Len(rows) : rows'[r] = rows[r]
    BY <1>0, <2>1
  <2> QED
    BY <1>0, <1>1, <2>2
<1>3. ASSUME NEW w \in work, Record(w) PROVE Parked \subseteq Parked'
  BY <1>0, <1>1, <1>3, RecordFacts
<1>4. ASSUME NEW w \in work, NotSent(w) PROVE Parked \subseteq Parked'
  <2>1. rows' = [rows EXCEPT ![w.row].status = "failed"] /\ w.row \in 1..Len(rows)
    BY <1>4, Elements DEF NotSent
  <2>2. Len(rows') = Len(rows) /\ \A r \in 1..Len(rows) : rows'[r].payment = rows[r].payment
    BY <1>0, <2>1, RowDecided
  <2> QED
    BY <1>0, <1>1, <2>2
<1>5. ASSUME NEW r \in 1..Len(rows), NEW tab \in Tabs, Reject(r, tab) PROVE Parked \subseteq Parked'
  <2>1. rows' = [rows EXCEPT ![r].status = "rejected"]
    BY <1>5 DEF Reject
  <2>2. Len(rows') = Len(rows) /\ \A q \in 1..Len(rows) : rows'[q].payment = rows[q].payment
    BY <1>0, <2>1, RowDecided
  <2> QED
    BY <1>0, <1>1, <2>2
<1>6. ASSUME rows' = rows PROVE Parked \subseteq Parked'
  BY <1>0, <1>1, <1>6
<1>7. ASSUME NEW w \in work, RefusePayment(w) \/ RefuseToRecord(w) PROVE rows' = rows
  BY <1>7 DEF RefusePayment, RefuseToRecord
<1>8. ASSUME NEW r \in 1..Len(rows), Accept(r) \/ \E tab \in Tabs : Send(r, tab) PROVE rows' = rows
  BY <1>8 DEF Accept, Send
<1>9. ASSUME NEW m \in Markets, \/ SellFilled(m) \/ SellThenStop(m)
                                \/ \E tab \in Tabs : StartPayment(m, tab)
      PROVE  rows' = rows
  BY <1>9 DEF SellFilled, SellThenStop, StartPayment
<1>10. ASSUME StakePaid \/ Restart \/ UNCHANGED vars PROVE rows' = rows
  BY <1>10 DEF StakePaid, Restart, vars
<1> QED
  BY <1>2, <1>3, <1>4, <1>5, <1>6, <1>7, <1>8, <1>9, <1>10 DEF Next

\* A debt recorded as paid is never paid by a second payment's record: authorizeProceeds stamps a
\* debt only while it is owed, and stamps all of a payment's debts or none.
THEOREM PaidStaysPaid == Spec => PaidIsFinal
<1>1. TypeOK /\ [Next]_vars =>
        [\A s \in 1..Len(sells) : sells[s].status = "paid" => sells'[s] = sells[s]]_vars
  <2> SUFFICES ASSUME TypeOK, [Next]_vars, NEW s \in 1..Len(sells), sells[s].status = "paid"
               PROVE  sells'[s] = sells[s]
    OBVIOUS
  <2>1. ASSUME NEW w \in work, Record(w) PROVE sells'[s] = sells[s]
    BY <2>1, RecordFacts
  <2> QED
    BY <2>1, TablesStep
<1> QED
  BY <1>1, TypeCorrect, PTL DEF Spec, PaidIsFinal

\* A payment is only ever started over the whole pot and all a market owes, and only parked over
\* stakes it was started with; all of them unless one could not be fetched.
LEMMA CandidatesStep ==
  ASSUME TypeOK, [Next]_vars
  PROVE  \/ Parked' \subseteq Parked /\ Building' \subseteq Building
         \/ \E m \in Markets :
              /\ Owed(m) # {}
              /\ UNCHANGED <<stakes, sells, chain>>
              /\ Parked' \subseteq Parked
              /\ Building' \subseteq Building \cup {[market |-> m, spends |-> Pot, pays |-> Owed(m)]}
         \/ \E w \in work : \E spends \in SUBSET w.spends :
              /\ w.stage = "fetching"
              /\ Left(spends, w.pays, Cardinality(w.pays)) >= 0
              /\ "unfetched" \notin faults' => spends = w.spends
              /\ UNCHANGED <<stakes, sells, chain>>
              /\ Parked' \subseteq Parked \cup {[market |-> w.market, spends |-> spends, pays |-> w.pays]}
              /\ Building' \subseteq Building
<1> DEFINE Fewer == Parked' \subseteq Parked /\ Building' \subseteq Building
<1>0. rows \in Seq(Row) /\ Len(rows) \in Nat
  BY Elements DEF TypeOK
<1>1. ASSUME work' \subseteq work PROVE Building' \subseteq Building
  BY <1>1 DEF Building, Intended
<1>2. ASSUME Len(rows') = Len(rows), \A r \in 1..Len(rows) : rows'[r].payment = rows[r].payment
      PROVE  Parked' \subseteq Parked
  BY <1>2 DEF Parked
<1>3. ASSUME work' \subseteq work, rows' = rows PROVE Fewer
  BY <1>1, <1>2, <1>3
<1>4. CASE StakePaid \/ Restart \/ UNCHANGED vars
  BY <1>3, <1>4 DEF StakePaid, Restart, vars
<1>5. ASSUME NEW m \in Markets, SellFilled(m) \/ SellThenStop(m) PROVE Fewer
  BY <1>3, <1>5 DEF SellFilled, SellThenStop
<1>6. ASSUME NEW m \in Markets, NEW tab \in Tabs, StartPayment(m, tab)
      PROVE  /\ Owed(m) # {}
             /\ UNCHANGED <<stakes, sells, chain>>
             /\ Parked' \subseteq Parked
             /\ Building' \subseteq Building \cup {[market |-> m, spends |-> Pot, pays |-> Owed(m)]}
  <2> DEFINE w == [stage |-> "fetching", tab |-> tab, market |-> m, pays |-> Owed(m), spends |-> Pot]
  <2>1. /\ Owed(m) # {} /\ work' = work \cup {w} /\ rows' = rows
        /\ UNCHANGED <<stakes, sells, chain>>
    BY <1>6 DEF StartPayment
  <2>2. Intended(w) = [market |-> m, spends |-> Pot, pays |-> Owed(m)]
    BY DEF Intended
  <2> HIDE DEF w
  <2>3. Building' \subseteq Building \cup {Intended(w)}
    BY <2>1 DEF Building, Intended
  <2>4. Parked' \subseteq Parked
    BY <2>1 DEF Parked
  <2> QED
    BY <2>1, <2>2, <2>3, <2>4
<1>7. ASSUME NEW w \in work, ParkPayment(w)
      PROVE  \E spends \in SUBSET w.spends :
              /\ w.stage = "fetching"
              /\ Left(spends, w.pays, Cardinality(w.pays)) >= 0
              /\ "unfetched" \notin faults' => spends = w.spends
              /\ UNCHANGED <<stakes, sells, chain>>
              /\ Parked' \subseteq Parked \cup {[market |-> w.market, spends |-> spends, pays |-> w.pays]}
              /\ Building' \subseteq Building
  <2>1. PICK spends \in SUBSET w.spends :
          /\ Left(spends, w.pays, Cardinality(w.pays)) >= 0
          /\ rows' = Append(rows, [status |-> "pending",
                                   payment |-> [market |-> w.market, spends |-> spends, pays |-> w.pays]])
          /\ faults' = IF spends = w.spends THEN faults ELSE faults \cup {"unfetched"}
    BY <1>7 DEF ParkPayment, Inputs
  <2> DEFINE p   == [market |-> w.market, spends |-> spends, pays |-> w.pays]
             row == [status |-> "pending", payment |-> p]
  <2>2. w.stage = "fetching" /\ work' \subseteq work /\ UNCHANGED <<stakes, sells, chain>>
    BY <1>7 DEF ParkPayment
  <2>3. rows' = Append(rows, row) /\ row.payment = p
    BY <2>1
  <2> HIDE DEF row
  <2>4. /\ Len(rows') = Len(rows) + 1 /\ \A r \in 1..Len(rows) : rows'[r] = rows[r]
        /\ rows'[Len(rows) + 1] = row
    BY <1>0, <2>3
  <2>5. \A r \in 1..Len(rows') : r \in 1..Len(rows) \/ r = Len(rows) + 1
    BY <1>0, <2>4
  <2> HIDE DEF p
  <2>6. Parked' \subseteq Parked \cup {p}
    BY <2>3, <2>4, <2>5 DEF Parked
  <2>7. "unfetched" \notin faults' => spends = w.spends
    BY <2>1
  <2> QED
    BY <1>1, <2>1, <2>2, <2>6, <2>7 DEF p
<1>8. ASSUME NEW w \in work, RefusePayment(w) \/ RefuseToRecord(w) PROVE Fewer
  BY <1>3, <1>8 DEF RefusePayment, RefuseToRecord
<1>9. ASSUME NEW w \in work, Record(w) PROVE Fewer
  <2>1. /\ Len(rows') = Len(rows) /\ \A r \in 1..Len(rows) : rows'[r].payment = rows[r].payment
        /\ work' \subseteq work
    BY <1>9, RecordFacts
  <2> QED
    BY <1>1, <1>2, <2>1
<1>10. ASSUME NEW w \in work, NotSent(w) PROVE Fewer
  <2>1. /\ rows' = [rows EXCEPT ![w.row].status = "failed"] /\ w.row \in 1..Len(rows)
        /\ work' \subseteq work
    BY <1>10, Elements DEF NotSent
  <2>2. Len(rows') = Len(rows) /\ \A r \in 1..Len(rows) : rows'[r].payment = rows[r].payment
    BY <1>0, <2>1, RowDecided
  <2> QED
    BY <1>1, <1>2, <2>1, <2>2
<1>11. ASSUME NEW r \in 1..Len(rows), NEW tab \in Tabs, Reject(r, tab) PROVE Fewer
  <2>1. rows' = [rows EXCEPT ![r].status = "rejected"] /\ work' \subseteq work
    BY <1>11 DEF Reject
  <2>2. Len(rows') = Len(rows) /\ \A q \in 1..Len(rows) : rows'[q].payment = rows[q].payment
    BY <1>0, <2>1, RowDecided
  <2> QED
    BY <1>1, <1>2, <2>1, <2>2
<1>12. ASSUME NEW r \in 1..Len(rows), NEW tab \in Tabs, Send(r, tab) PROVE Fewer
  <2> DEFINE w == [stage |-> "sending", tab |-> tab, row |-> r]
  <2>1. work' = work \cup {w} /\ rows' = rows /\ w.stage # "fetching"
    BY <1>12 DEF Send
  <2> HIDE DEF w
  <2>2. Building' \subseteq Building
    BY <2>1 DEF Building, Intended
  <2> QED
    BY <1>2, <2>1, <2>2
<1>13. ASSUME NEW r \in 1..Len(rows), Accept(r) PROVE Fewer
  BY <1>3, <1>13 DEF Accept
<1> QED
  BY <1>4, <1>5, <1>6, <1>7, <1>8, <1>9, <1>10, <1>11, <1>12, <1>13 DEF Next

-----------------------------------------------------------------------------
(* The inductive invariant *)

\* What is said of a payment is not taken back by a step.
LEMMA SaidOfPayments ==
  ASSUME TypeOK, [Next]_vars
  PROVE  /\ \A p \in Payment : Grounded(p) => Grounded(p)'
         /\ \A p \in Payment : Recorded(p) => Recorded(p)'
         /\ \A p : Beaten(p) => Beaten(p)'
         /\ \A p, q : Compete(p, q) => Compete(p, q)'
<1>0. chain \subseteq chain'
  BY ChainStep DEF Accept
<1>1. \A s \in 1..Len(sells) : /\ sells'[s].market = sells[s].market
                               /\ sells[s].status # "none" => sells'[s].status # "none"
                               /\ sells[s].status = "paid" => sells'[s].status = "paid"
  <2>1. ASSUME NEW w \in work, Record(w)
        PROVE  \A s \in 1..Len(sells) : /\ sells'[s].market = sells[s].market
                                        /\ sells[s].status # "none" => sells'[s].status # "none"
                                        /\ sells[s].status = "paid" => sells'[s].status = "paid"
    BY <2>1, RecordFacts
  <2> QED
    BY <2>1, TablesStep
<1>2. \A s \in 1..Len(stakes) : stakes[s].spent => stakes'[s].spent
  <2>1. ASSUME NEW w \in work, Record(w) PROVE \A s \in 1..Len(stakes) : stakes[s].spent => stakes'[s].spent
    BY <2>1, RecordFacts
  <2> QED
    BY <2>1, TablesStep
<1>3. \A p \in Payment : p.pays \subseteq 1..Len(sells) /\ p.spends \subseteq 1..Len(stakes)
  BY DEF Payment
<1>4. \A p \in Payment : Grounded(p) => Grounded(p)'
  BY <1>1, <1>3 DEF Grounded
<1>5. \A p \in Payment : Recorded(p) => Recorded(p)'
  BY <1>1, <1>2, <1>3 DEF Recorded
<1>6. \A p : Beaten(p) => Beaten(p)'
  BY <1>0 DEF Beaten
<1>7. \A p, q : Compete(p, q) => Compete(p, q)'
  BY <1>6 DEF Compete
<1> QED
  BY <1>4, <1>5, <1>6, <1>7

\* The network accepts only what was parked, and no input twice.
LEMMA ChainInvStep ==
  ASSUME TypeOK, PotInv, [Next]_vars
  PROVE  /\ chain' \subseteq Parked'
         /\ \A p, q \in chain' : p # q => p.spends \cap q.spends = {}
<1>1. chain \subseteq Parked' /\ \A p, q \in chain : p # q => p.spends \cap q.spends = {}
  BY ParkedStay DEF PotInv
<1>2. ASSUME NEW r \in 1..Len(rows), Accept(r)
      PROVE  /\ chain' \subseteq Parked'
             /\ \A p, q \in chain' : p # q => p.spends \cap q.spends = {}
  <2>1. /\ chain' = chain \cup {rows[r].payment}
        /\ \A q \in chain : q.spends \cap rows[r].payment.spends = {}
    BY <1>2 DEF Accept, Acceptable
  <2>2. rows[r].payment \in Parked'
    BY ParkedStay DEF Parked
  <2> QED
    BY <1>1, <2>1, <2>2
<1> QED
  BY <1>1, <1>2, ChainStep

\* A payment the pot covers has an input.
LEMMA CoveredHasInput ==
  ASSUME TypeOK, NEW pays \in SUBSET (1..Len(sells)), pays # {}, NEW spends,
         Left(spends, pays, Cardinality(pays)) >= 0
  PROVE  spends # {}
<1> SUFFICES ASSUME spends = {} PROVE FALSE
  OBVIOUS
<1>1. IsFiniteSet(pays)
  <2>1. Len(sells) \in Int /\ 1 \in Int
    BY Elements
  <2>2. IsFiniteSet(1..Len(sells))
    BY <2>1, FS_Interval
  <2> QED
    BY <2>2, FS_Subset
<1>2. Cardinality(pays) \in Nat /\ Cardinality(pays) # 0
  BY <1>1, FS_CardinalityType, FS_EmptySet
<1>3. Cardinality(spends) = 0
  BY FS_EmptySet
<1> DEFINE n == Cardinality(pays)
<1>4. n \in Nat /\ n # 0 /\ StakeSats * 0 - DebtSats * n - FeePerPart * (0 + n) >= 0
  BY <1>2, <1>3 DEF Left
<1> HIDE DEF n
<1>5. StakeSats \in Nat /\ DebtSats \in Nat \ {0} /\ FeePerPart \in Nat \ {0}
  BY MoneyAssumption
<1>6. DebtSats * n > 0 /\ FeePerPart * n > 0
  BY <1>4, <1>5
<1>7. StakeSats * 0 = 0 /\ FeePerPart * (0 + n) = FeePerPart * n /\ DebtSats * n \in Int /\ FeePerPart * n \in Int
  BY <1>4, <1>5
<1> QED
  BY <1>4, <1>6, <1>7

\* Every payment is grounded, and those parked have an input.
LEMMA GroundedStep ==
  ASSUME TypeOK, PotInv, [Next]_vars
  PROVE  /\ \A p \in Parked' \cup Building' : Grounded(p)'
         /\ \A p \in Parked' : p.spends # {}
<1>1. \A p \in Parked \cup Building : Grounded(p)'
  BY CandidatesType, SaidOfPayments DEF PotInv
<1>2. \A p \in Parked : p.spends # {}
  BY DEF PotInv
<1>3. ASSUME NEW m \in Markets, Owed(m) # {}, UNCHANGED <<stakes, sells, chain>>
      PROVE  \A p \in {[market |-> m, spends |-> Pot, pays |-> Owed(m)]} : Grounded(p)'
  BY <1>3 DEF Grounded, Owed
<1>4. ASSUME NEW w \in work, NEW spends \in SUBSET w.spends, w.stage = "fetching",
             Left(spends, w.pays, Cardinality(w.pays)) >= 0, UNCHANGED <<stakes, sells, chain>>
      PROVE  /\ spends # {}
             /\ \A p \in {[market |-> w.market, spends |-> spends, pays |-> w.pays]} : Grounded(p)'
  <2>1. Intended(w) \in Building /\ w.pays \in SUBSET (1..Len(sells))
    BY <1>4, Elements DEF Building
  <2>2. Grounded(Intended(w))
    BY <2>1 DEF PotInv
  <2>3. /\ w.pays # {}
        /\ \A s \in w.pays : sells[s].market = w.market /\ sells[s].status # "none"
    BY <2>2 DEF Grounded, Intended
  <2>4. spends # {}
    BY <1>4, <2>1, <2>3, CoveredHasInput
  <2> QED
    BY <1>4, <2>3, <2>4 DEF Grounded
<1>5. ASSUME NEW m \in Markets, Owed(m) # {}, UNCHANGED <<stakes, sells, chain>>,
             Parked' \subseteq Parked,
             Building' \subseteq Building \cup {[market |-> m, spends |-> Pot, pays |-> Owed(m)]}
      PROVE  /\ \A p \in Parked' \cup Building' : Grounded(p)'
             /\ \A p \in Parked' : p.spends # {}
  BY <1>1, <1>2, <1>3, <1>5
<1>6. ASSUME NEW w \in work, NEW spends \in SUBSET w.spends, w.stage = "fetching",
             Left(spends, w.pays, Cardinality(w.pays)) >= 0, UNCHANGED <<stakes, sells, chain>>,
             Parked' \subseteq Parked \cup {[market |-> w.market, spends |-> spends, pays |-> w.pays]},
             Building' \subseteq Building
      PROVE  /\ \A p \in Parked' \cup Building' : Grounded(p)'
             /\ \A p \in Parked' : p.spends # {}
  BY <1>1, <1>2, <1>4, <1>6
<1> QED
  BY <1>1, <1>2, <1>5, <1>6, CandidatesStep

\* What is recorded as paid or spent stays so by a payment of the chain: only Record books, and it
\* books a payment the network accepted.
LEMMA BookedStep ==
  ASSUME TypeOK, PotInv, [Next]_vars
  PROVE  BookedByChain'
<1>1. \A q \in chain : q \in chain' /\ (Recorded(q) => Recorded(q)')
  <2>1. chain \subseteq Payment /\ chain \subseteq chain'
    BY ChainStep DEF TypeOK, Accept
  <2> QED
    BY <2>1, SaidOfPayments
<1>2. ASSUME NEW w \in work, Record(w)
      PROVE  \E q \in chain :
               /\ q \in chain' /\ Recorded(q)'
               /\ \A s \in 1..Len(stakes) : stakes'[s].spent => stakes[s].spent \/ s \in q.spends
               /\ \A s \in 1..Len(sells) : sells'[s].status = "paid" =>
                                             sells[s].status = "paid" \/ s \in q.pays
  <2>1. PICK q \in {rows[w.row].payment} :
        /\ q \in Payment /\ q \in chain /\ chain' = chain
        /\ \A s \in 1..Len(sells) : /\ s \in q.pays => sells'[s].status = "paid"
                                    /\ s \notin q.pays => sells'[s] = sells[s]
        /\ \A s \in 1..Len(stakes) : stakes'[s].spent = (stakes[s].spent \/ s \in q.spends)
    BY <1>2, RecordFacts
  <2>2. q.pays \subseteq 1..Len(sells) /\ q.spends \subseteq 1..Len(stakes)
    BY <2>1 DEF Payment
  <2>3. Recorded(q)'
    BY <2>1, <2>2 DEF Recorded
  <2> QED
    BY <2>1, <2>3
<1>3. ASSUME NEW s \in 1..Len(stakes'), stakes'[s].spent
      PROVE  \E q \in chain' : s \in q.spends /\ Recorded(q)'
  <2>1. s \in 1..Len(stakes)
    BY <1>3, TablesStep
  <2>2. CASE stakes[s].spent
    <3>1. \E q \in chain : s \in q.spends /\ Recorded(q)
      BY <2>1, <2>2 DEF PotInv, BookedByChain
    <3> QED
      BY <1>1, <3>1
  <2>3. CASE ~stakes[s].spent
    <3>1. \E w \in work : Record(w)
      BY <1>3, <2>1, <2>3, TablesStep
    <3> QED
      BY <1>2, <1>3, <2>1, <2>3, <3>1
  <2> QED
    BY <2>2, <2>3
<1>4. ASSUME NEW s \in 1..Len(sells'), sells'[s].status = "paid"
      PROVE  \E q \in chain' : s \in q.pays /\ Recorded(q)'
  <2>1. s \in 1..Len(sells)
    BY <1>4, TablesStep
  <2>2. CASE sells[s].status = "paid"
    <3>1. \E q \in chain : s \in q.pays /\ Recorded(q)
      BY <2>1, <2>2 DEF PotInv, BookedByChain
    <3> QED
      BY <1>1, <3>1
  <2>3. CASE sells[s].status # "paid"
    <3>1. \E w \in work : Record(w)
      BY <1>4, <2>1, <2>3, TablesStep
    <3> QED
      BY <1>2, <1>4, <2>1, <2>3, <3>1
  <2> QED
    BY <2>2, <2>3
<1> QED
  BY <1>3, <1>4 DEF BookedByChain

\* Until a stake is skipped, every payment competes with every other payment of one of its debts:
\* it is started over the whole pot, and what is no longer in the pot was spent by a payment that
\* beats whoever counted on it.
LEMMA CompeteStep ==
  ASSUME TypeOK, PotInv, [Next]_vars, "unfetched" \notin faults'
  PROVE  \A p, q \in Parked' \cup Building' : Compete(p, q)'
<1>1. \A p, q \in Parked \cup Building : Compete(p, q)
  BY FaultsStay DEF PotInv
<1>2. \A p, q \in Parked \cup Building : Compete(p, q)'
  BY <1>1, SaidOfPayments
<1>3. ASSUME Parked' \subseteq Parked \cup Building, Building' \subseteq Building
      PROVE  \A p, q \in Parked' \cup Building' : Compete(p, q)'
  BY <1>2, <1>3
<1>4. ASSUME NEW m \in Markets, UNCHANGED <<stakes, sells, chain>>,
             Parked' \subseteq Parked,
             Building' \subseteq Building \cup {[market |-> m, spends |-> Pot, pays |-> Owed(m)]}
      PROVE  \A p, q \in Parked' \cup Building' : Compete(p, q)'
  <2> DEFINE c == [market |-> m, spends |-> Pot, pays |-> Owed(m)]
  <2>1. c.spends = Pot /\ c.pays = Owed(m)
    OBVIOUS
  <2>2. c \in Payment
    BY DEF Payment, Pot, Owed
  <2> HIDE DEF c
  <2>3. ASSUME NEW a \in Payment PROVE Compete(a, c) /\ Compete(c, a)
    <3> SUFFICES ASSUME a.pays \cap c.pays # {}, a.spends # {}, a.spends \cap Pot = {}
                 PROVE  Beaten(a)
      BY <2>1 DEF Compete
    <3>1. PICK s \in a.pays : s \in Owed(m)
      BY <2>1
    <3>2. PICK x \in a.spends : x \in 1..Len(stakes) /\ stakes[x].spent
      BY DEF Payment, Pot
    <3>3. PICK q \in chain : x \in q.spends /\ Recorded(q)
      BY <3>2 DEF PotInv, BookedByChain
    <3>4. q # a
      BY <3>1, <3>3 DEF Recorded, Owed
    <3> QED
      BY <3>2, <3>3, <3>4 DEF Beaten
  <2>4. Parked \cup Building \subseteq Payment
    BY CandidatesType
  <2>5. \A p, q \in Parked \cup Building \cup {c} : Compete(p, q)
    BY <1>1, <2>2, <2>3, <2>4
  <2>6. \A p, q \in Parked \cup Building \cup {c} : Compete(p, q)'
    BY <2>5, SaidOfPayments
  <2> QED
    BY <1>4, <2>6 DEF c
<1>5. ASSUME NEW w \in work, NEW spends \in SUBSET w.spends, w.stage = "fetching", spends = w.spends,
             Parked' \subseteq Parked \cup {[market |-> w.market, spends |-> spends, pays |-> w.pays]},
             Building' \subseteq Building
      PROVE  \A p, q \in Parked' \cup Building' : Compete(p, q)'
  <2>1. [market |-> w.market, spends |-> spends, pays |-> w.pays] \in Building
    BY <1>5 DEF Building, Intended
  <2> QED
    BY <1>3, <1>5, <2>1
<1> QED
  BY <1>3, <1>4, <1>5, CandidatesStep

\* Until a stake is skipped, a payment of the chain is recorded as a whole or not at all.
LEMMA WholeStep ==
  ASSUME TypeOK, PotInv, [Next]_vars, "unfetched" \notin faults'
  PROVE  \A p \in chain' : Recorded(p)' \/ Open(p)'
<1>0. /\ \A p, q \in Parked : Compete(p, q)
      /\ \A p \in chain : Recorded(p) \/ Open(p)
      /\ \A p \in Parked : p.spends # {} /\ Grounded(p)
      /\ chain \subseteq Parked /\ Parked \subseteq Payment
      /\ \A p, q \in chain : p # q => p.spends \cap q.spends = {}
  BY FaultsStay, CandidatesType DEF PotInv
<1>1. ASSUME NEW p \in chain PROVE p \in Payment /\ p.pays \subseteq 1..Len(sells) /\ p.spends \subseteq 1..Len(stakes)
  BY <1>0 DEF Payment
<1>2. ASSUME NEW p \in chain, Recorded(p) PROVE Recorded(p)'
  BY <1>1, <1>2, SaidOfPayments
<1>3. ASSUME NEW p \in chain, Open(p) PROVE Recorded(p)' \/ Open(p)'
  <2>1. CASE /\ \A s \in 1..Len(stakes) : stakes'[s] = stakes[s]
             /\ \A s \in 1..Len(sells) : sells'[s] = sells[s]
    BY <1>1, <1>3, <2>1 DEF Open
  <2>2. ASSUME NEW w \in work, Record(w) PROVE Recorded(p)' \/ Open(p)'
    <3> DEFINE q == rows[w.row].payment
    <3>1. /\ q \in chain
          /\ \A s \in q.pays : sells[s].status = "owed"
          /\ \A s \in 1..Len(sells) : /\ s \in q.pays => sells'[s].status = "paid"
                                      /\ s \notin q.pays => sells'[s] = sells[s]
          /\ \A s \in 1..Len(stakes) : /\ stakes'[s].spent = (stakes[s].spent \/ s \in q.spends)
          /\ chain' = chain
      BY <2>2, RecordFacts
    <3> HIDE DEF q
    <3>2. CASE p = q
      BY <1>1, <3>1, <3>2 DEF Recorded
    <3>3. CASE p # q
      <4>1. p.spends \cap q.spends = {} /\ p.spends # {} /\ q.spends # {}
        BY <1>0, <3>1, <3>3
      <4>2. ~Beaten(p) /\ ~Beaten(q)
        BY <1>0, <3>1, <3>3 DEF Beaten
      <4>3. p.pays \cap q.pays = {}
        BY <1>0, <3>1, <4>1, <4>2 DEF Compete
      <4> QED
        BY <1>1, <1>3, <3>1, <4>1, <4>3 DEF Open
    <3> QED
      BY <3>2, <3>3
  <2> QED
    BY <2>1, <2>2, TablesStep
<1>4. ASSUME NEW r \in 1..Len(rows), Accept(r) PROVE \A p \in {rows[r].payment} : Recorded(p)' \/ Open(p)'
  <2> SUFFICES ASSUME NEW p \in {rows[r].payment} PROVE Open(p)'
    OBVIOUS
  <2>1. /\ \A q \in chain : q.spends \cap p.spends = {}
        /\ UNCHANGED <<stakes, sells>>
    BY <1>4 DEF Accept, Acceptable
  <2>2. p \in Parked
    BY DEF Parked
  <2>3. p \in Payment /\ p.spends # {} /\ Grounded(p)
    BY <1>0, <2>2
  <2>4. p.pays \subseteq 1..Len(sells) /\ p.spends \subseteq 1..Len(stakes)
    BY <2>3 DEF Payment
  <2>5. ~Beaten(p)
    BY <2>1 DEF Beaten
  <2>6. \A s \in p.spends : ~stakes[s].spent
    BY <2>1, <2>4 DEF PotInv, BookedByChain
  <2>7. ASSUME NEW s \in p.pays, sells[s].status = "paid" PROVE FALSE
    <3>1. PICK q \in chain : s \in q.pays
      BY <2>4, <2>7 DEF PotInv, BookedByChain
    <3>2. q.spends \cap p.spends = {} /\ q.spends # {} /\ p # q
      BY <1>0, <2>1, <2>3, <3>1
    <3>3. ~Beaten(q)
      BY <1>0, <3>1 DEF Beaten
    <3> QED
      BY <1>0, <2>2, <2>3, <2>5, <3>1, <3>2, <3>3 DEF Compete
  <2>8. \A s \in p.pays : sells[s].status = "owed"
    BY <2>3, <2>4, <2>7, SellType DEF Grounded
  <2>9. Open(p)
    BY <2>6, <2>8 DEF Open
  <2> QED
    BY <2>1, <2>9 DEF Open
<1>5. ASSUME NEW r \in 1..Len(rows), Accept(r) PROVE \A p \in chain' : Recorded(p)' \/ Open(p)'
  <2>1. chain' = chain \cup {rows[r].payment}
    BY <1>5 DEF Accept
  <2> QED
    BY <1>0, <1>2, <1>3, <1>4, <1>5, <2>1
<1> QED
  BY <1>0, <1>2, <1>3, <1>5, ChainStep

\* The pot is sound: what pays the same debt competes for the same stakes, and what is booked is on
\* the chain.
THEOREM PotSound == Spec => [](TypeOK /\ PotInv)
<1>1. Init => TypeOK /\ PotInv
  <2> SUFFICES ASSUME Init PROVE TypeOK /\ PotInv
    OBVIOUS
  <2>1. stakes = <<>> /\ sells = <<>> /\ rows = <<>> /\ work = {} /\ sent = {} /\ chain = {} /\ faults = {}
    BY DEF Init
  <2>2. TypeOK
    BY <2>1 DEF TypeOK
  <2>3. Parked = {} /\ Building = {}
    BY <2>1 DEF Parked, Building
  <2>4. BookedByChain
    BY <2>1 DEF BookedByChain
  <2> QED
    BY <2>1, <2>2, <2>3, <2>4 DEF PotInv
<1>2. TypeOK /\ PotInv /\ [Next]_vars => (TypeOK /\ PotInv)'
  BY TypeStep, ChainInvStep, GroundedStep, BookedStep, CompeteStep, WholeStep DEF PotInv
<1> QED
  BY <1>1, <1>2, PTL DEF Spec

\* A seller is never sent the same proceeds twice, whatever answers were lost, rows rejected in
\* flight and handlers restarted (service.ts:956), as long as no stake was skipped.
THEOREM DebtsPaidOnce == Spec => []DebtPaidOnce
<1>1. TypeOK /\ PotInv => DebtPaidOnce
  <2> SUFFICES ASSUME PotInv, "unfetched" \notin faults,
                      NEW p \in chain, NEW q \in chain, p # q
               PROVE  p.pays \cap q.pays = {}
    BY DEF DebtPaidOnce
  <2>1. Compete(p, q) /\ p.spends # {} /\ q.spends # {} /\ p.spends \cap q.spends = {}
    BY DEF PotInv
  <2>2. ~Beaten(p) /\ ~Beaten(q)
    BY DEF PotInv, Beaten
  <2> QED
    BY <2>1, <2>2 DEF Compete
<1> QED
  BY <1>1, PotSound, PTL

\* A payment on the chain is recorded as a whole or not at all (service.ts authorizeProceeds: the
\* debts and the stakes change in one transaction), as long as no stake was skipped.
THEOREM PaymentsAreWhole == Spec => []RecordedWhole
<1>1. TypeOK /\ PotInv => RecordedWhole
  <2> SUFFICES ASSUME TypeOK, PotInv, "unfetched" \notin faults, NEW p \in chain
               PROVE  \/ p.pays \subseteq Owed(p.market) /\ p.spends \subseteq Pot
                      \/ p.pays \cap Owed(p.market) = {} /\ p.spends \cap Pot = {}
    BY DEF RecordedWhole
  <2>1. Grounded(p) /\ (Recorded(p) \/ Open(p))
    BY DEF PotInv
  <2>2. p.pays \subseteq 1..Len(sells) /\ p.spends \subseteq 1..Len(stakes)
    BY DEF TypeOK, Payment
  <2>3. CASE Open(p)
    BY <2>1, <2>2, <2>3 DEF Open, Grounded, Owed, Pot
  <2>4. CASE Recorded(p)
    BY <2>4 DEF Recorded, Owed, Pot
  <2> QED
    BY <2>1, <2>3, <2>4
<1> QED
  BY <1>1, PotSound, PTL

=============================================================================
