-------------------------- MODULE ExecutionProofs ---------------------------
(***************************************************************************)
(* Theorems about the execution engine of one market, for every set of     *)
(* traders and orders, any number of fills and any interleaving.  The      *)
(* second half is about the settlement boundary: every batch audits, what  *)
(* is unsettled can be settled, and the engine implements FillLedger.  It  *)
(* rests on what a settlement awaiting sign-off still says when it is      *)
(* applied: the fills it nets are unsettled and the pool it was built on   *)
(* is the current one.                                                     *)
(***************************************************************************)
EXTENDS ExecutionRefinement, SequenceTheorems, WellFoundedInduction, TLAPS

-----------------------------------------------------------------------------
(* Sums: what Total computes, for lists of any length.  The induction      *)
(* theorems of the library take a predicate as a parameter;                *)
(* NatSetInduction states the same principle about a set, from the         *)
(* least-element property of a well-founded relation, so that a            *)
(* first-order prover can apply it.                                        *)

Less == {p \in Nat \X Nat : p[1] < p[2]}

\* The order of the naturals is well founded.
LEMMA LessWellFounded == IsWellFoundedOn(Less, Nat)
  BY NatLessThanWellFounded DEF OpToRel, Less

\* Induction: a set with 0 that is closed under successor holds every natural number.
LEMMA NatSetInduction ==
  ASSUME NEW T, 0 \in T, \A n \in Nat : n \in T => n + 1 \in T
  PROVE  Nat \subseteq T
<1> DEFINE U == Nat \ T
<1>1. SUFFICES ASSUME U # {} PROVE FALSE
  BY DEF U
<1>2. U \subseteq Nat
  BY DEF U
<1> HIDE DEF U
<1>3. PICK x \in U : \A y \in U : <<y, x>> \notin Less
  BY <1>1, <1>2, LessWellFounded, WFMin
<1>4. x \in Nat /\ x \notin T /\ x # 0
  BY <1>3 DEF U
<1>5. x - 1 \in Nat /\ x - 1 \notin T
  BY <1>4
<1>6. x - 1 \in U /\ <<x - 1, x>> \in Less
  BY <1>4, <1>5 DEF U, Less
<1> QED
  BY <1>3, <1>6

-----------------------------------------------------------------------------

\* f holds the partial sums of weight up to n.
PartialSums(f, n, weight) ==
  f = [i \in 0..n |-> IF i = 0 THEN 0 ELSE f[i - 1] + weight[i]]

\* Partial sums exist.
LEMMA PartialSumsExist ==
  ASSUME NEW n \in Nat, NEW weight, \A i \in 1..n : weight[i] \in Int
  PROVE  \E f \in [0..n -> Int] : PartialSums(f, n, weight)
<1> DEFINE T == {m \in Nat : m <= n => \E f \in [0..m -> Int] : PartialSums(f, m, weight)}
<1>1. 0 \in T
  <2>1. [i \in 0..0 |-> 0] \in [0..0 -> Int]
    OBVIOUS
  <2>2. PartialSums([i \in 0..0 |-> 0], 0, weight)
    BY DEF PartialSums
  <2> QED
    BY <2>1, <2>2
<1>2. ASSUME NEW m \in Nat, m \in T, m + 1 <= n
      PROVE  \E g \in [0..m + 1 -> Int] : PartialSums(g, m + 1, weight)
  <2>1. PICK f \in [0..m -> Int] : PartialSums(f, m, weight)
    BY <1>2
  <2> DEFINE g == [i \in 0..m + 1 |-> IF i = m + 1 THEN f[m] + weight[m + 1] ELSE f[i]]
  <2>2. g \in [0..m + 1 -> Int]
    BY <1>2
  <2>3. \A i \in 0..m : f[i] = IF i = 0 THEN 0 ELSE f[i - 1] + weight[i]
    BY <2>1 DEF PartialSums
  <2>4. \A i \in 0..m + 1 : g[i] = IF i = 0 THEN 0 ELSE g[i - 1] + weight[i]
    BY <2>3
  <2>5. PartialSums(g, m + 1, weight)
    BY <2>4 DEF PartialSums
  <2> QED
    BY <2>2, <2>5
<1>3. \A m \in Nat : m \in T => m + 1 \in T
  BY <1>2
<1> HIDE DEF T
<1>4. n \in T
  BY <1>1, <1>3, NatSetInduction
<1> QED
  BY <1>4 DEF T

\* Partial sums of lists that agree up to k agree up to k.
LEMMA PartialSumsAgree ==
  ASSUME NEW n \in Nat, NEW m \in Nat, NEW k \in Nat, k <= n, k <= m,
         NEW weight, NEW other, \A i \in 1..k : weight[i] = other[i],
         NEW f, NEW g, PartialSums(f, n, weight), PartialSums(g, m, other)
  PROVE  f[k] = g[k]
<1> DEFINE T == {i \in Nat : i <= k => f[i] = g[i]}
<1>1. /\ \A i \in 0..n : f[i] = IF i = 0 THEN 0 ELSE f[i - 1] + weight[i]
      /\ \A i \in 0..m : g[i] = IF i = 0 THEN 0 ELSE g[i - 1] + other[i]
  BY DEF PartialSums
<1>2. 0 \in T
  BY <1>1
<1>3. ASSUME NEW i \in Nat, i \in T, i + 1 <= k
      PROVE  f[i + 1] = g[i + 1]
  <2>1. f[i + 1] = f[i] + weight[i + 1] /\ g[i + 1] = g[i] + other[i + 1]
    BY <1>1, <1>3
  <2> QED
    BY <2>1, <1>3
<1>4. \A i \in Nat : i \in T => i + 1 \in T
  BY <1>3
<1> HIDE DEF T
<1>5. k \in T
  BY <1>2, <1>4, NatSetInduction
<1> QED
  BY <1>5 DEF T

\* Total reads the last of the partial sums.
LEMMA TotalIsLast ==
  ASSUME NEW n \in Nat, NEW weight, \A i \in 1..n : weight[i] \in Int
  PROVE  \E f \in [0..n -> Int] : PartialSums(f, n, weight) /\ Total(n, weight) = f[n]
<1> DEFINE c == CHOOSE f : PartialSums(f, n, weight)
<1>1. PartialSums(c, n, weight)
  BY PartialSumsExist
<1>2. Total(n, weight) = c[n]
  BY DEF Total, PartialSums
<1> HIDE DEF c
<1>3. PICK f \in [0..n -> Int] : PartialSums(f, n, weight)
  BY PartialSumsExist
<1>4. c[n] = f[n]
  BY <1>1, <1>3, PartialSumsAgree
<1> QED
  BY <1>2, <1>3, <1>4

-----------------------------------------------------------------------------

\* The sum of an empty list.
LEMMA TotalEmpty == ASSUME NEW weight PROVE Total(0, weight) = 0
<1>1. \A i \in 1..0 : weight[i] \in Int
  OBVIOUS
<1>2. PICK f \in [0..0 -> Int] : PartialSums(f, 0, weight) /\ Total(0, weight) = f[0]
  BY <1>1, TotalIsLast
<1> QED
  BY <1>2 DEF PartialSums

\* A sum of integers is an integer.
LEMMA TotalType ==
  ASSUME NEW n \in Nat, NEW weight, \A i \in 1..n : weight[i] \in Int
  PROVE  Total(n, weight) \in Int
  BY TotalIsLast

\* Lists that agree up to n have the same sum up to n.
LEMMA TotalAgree ==
  ASSUME NEW n \in Nat, NEW weight, NEW other,
         \A i \in 1..n : weight[i] \in Int /\ weight[i] = other[i]
  PROVE  Total(n, weight) = Total(n, other)
<1>1. PICK f \in [0..n -> Int] : PartialSums(f, n, weight) /\ Total(n, weight) = f[n]
  BY TotalIsLast
<1>2. PICK g \in [0..n -> Int] : PartialSums(g, n, other) /\ Total(n, other) = g[n]
  BY TotalIsLast
<1>3. f[n] = g[n]
  BY <1>1, <1>2, PartialSumsAgree
<1> QED
  BY <1>1, <1>2, <1>3

\* One more element adds itself.
LEMMA TotalStep ==
  ASSUME NEW n \in Nat, NEW weight, \A i \in 1..n + 1 : weight[i] \in Int
  PROVE  Total(n + 1, weight) = Total(n, weight) + weight[n + 1]
<1>1. PICK f \in [0..n + 1 -> Int] :
        PartialSums(f, n + 1, weight) /\ Total(n + 1, weight) = f[n + 1]
  BY TotalIsLast
<1>2. PICK g \in [0..n -> Int] : PartialSums(g, n, weight) /\ Total(n, weight) = g[n]
  <2>1. \A i \in 1..n : weight[i] \in Int
    OBVIOUS
  <2> QED
    BY <2>1, TotalIsLast
<1>3. f[n + 1] = f[n] + weight[n + 1]
  BY <1>1 DEF PartialSums
<1>4. f[n] = g[n]
  BY <1>1, <1>2, PartialSumsAgree
<1> QED
  BY <1>1, <1>2, <1>3, <1>4

\* The sum of two lists, term by term, is the sum of their sums.
LEMMA TotalAdd ==
  ASSUME NEW n \in Nat, NEW u, NEW v, NEW w,
         \A i \in 1..n : u[i] \in Int /\ v[i] \in Int /\ w[i] = u[i] + v[i]
  PROVE  Total(n, w) = Total(n, u) + Total(n, v)
<1> DEFINE T == {m \in Nat : m <= n => Total(m, w) = Total(m, u) + Total(m, v)}
<1>1. 0 \in T
  BY TotalEmpty
<1>2. ASSUME NEW m \in Nat, m \in T
      PROVE  m + 1 \in T
  <2>1. CASE m + 1 <= n
    <3>1. \A i \in 1..m + 1 : u[i] \in Int /\ v[i] \in Int /\ w[i] \in Int
      BY <2>1
    <3>2. Total(m + 1, u) = Total(m, u) + u[m + 1]
      BY <3>1, TotalStep
    <3>3. Total(m + 1, v) = Total(m, v) + v[m + 1]
      BY <3>1, TotalStep
    <3>4. Total(m + 1, w) = Total(m, w) + w[m + 1]
      BY <3>1, TotalStep
    <3>5. Total(m, u) \in Int /\ Total(m, v) \in Int
      BY <3>1, TotalType
    <3>6. Total(m, w) = Total(m, u) + Total(m, v)
      BY <1>2, <2>1
    <3>7. w[m + 1] = u[m + 1] + v[m + 1] /\ u[m + 1] \in Int /\ v[m + 1] \in Int
      BY <2>1
    <3> QED
      BY <3>2, <3>3, <3>4, <3>5, <3>6, <3>7
  <2>2. CASE ~(m + 1 <= n)
    BY <2>2
  <2> QED
    BY <2>1, <2>2
<1> HIDE DEF T
<1>3. Nat \subseteq T
  BY <1>1, <1>2, NatSetInduction
<1> QED
  BY <1>3 DEF T

-----------------------------------------------------------------------------
(* The data *)

\* The signed units of a receipt are an integer.
LEMMA SignedUnitsType ==
  ASSUME NEW r \in Receipt
  PROVE  SignedUnits(r) \in Int
  BY BoundsAssumption DEF SignedUnits, Receipt

\* Sums of receipts are integers.
LEMMA UnitsType ==
  ASSUME NEW receipts \in Seq(Receipt), NEW ids
  PROVE  UnitsOf(receipts, ids) \in Int
<1> DEFINE w == [i \in 1..Len(receipts) |-> IF i \in ids THEN SignedUnits(receipts[i]) ELSE 0]
<1>1. Len(receipts) \in Nat /\ \A i \in 1..Len(receipts) : receipts[i] \in Receipt
  BY LenProperties, ElementOfSeq
<1>2. \A i \in 1..Len(receipts) : w[i] \in Int
  BY <1>1, SignedUnitsType
<1> HIDE DEF w
<1>3. Total(Len(receipts), w) \in Int
  BY <1>1, <1>2, TotalType
<1> QED
  BY <1>3 DEF w, UnitsOf

\* A sum only depends on which of the receipts are in ids.
LEMMA UnitsSame ==
  ASSUME NEW receipts \in Seq(Receipt), NEW ids, NEW others,
         \A i \in 1..Len(receipts) : i \in ids <=> i \in others
  PROVE  UnitsOf(receipts, ids) = UnitsOf(receipts, others)
<1>1. [i \in 1..Len(receipts) |-> IF i \in ids THEN SignedUnits(receipts[i]) ELSE 0]
        = [i \in 1..Len(receipts) |-> IF i \in others THEN SignedUnits(receipts[i]) ELSE 0]
  OBVIOUS
<1> QED
  BY <1>1 DEF UnitsOf

\* A new receipt adds its signed units to the sums it belongs to.
LEMMA UnitsAfterAppend ==
  ASSUME NEW receipts \in Seq(Receipt), NEW r \in Receipt, NEW ids
  PROVE  UnitsOf(Append(receipts, r), ids) =
           UnitsOf(receipts, ids) + (IF Len(receipts) + 1 \in ids THEN SignedUnits(r) ELSE 0)
<1> DEFINE n    == Len(receipts)
           more == Append(receipts, r)
           w == [i \in 1..n |-> IF i \in ids THEN SignedUnits(receipts[i]) ELSE 0]
           v == [i \in 1..Len(more) |-> IF i \in ids THEN SignedUnits(more[i]) ELSE 0]
<1>1. /\ n \in Nat
      /\ Len(more) = n + 1
      /\ \A i \in 1..n : more[i] = receipts[i] /\ receipts[i] \in Receipt
      /\ more[n + 1] = r
  BY AppendProperties, LenProperties, ElementOfSeq
<1>2. \A i \in 1..n : w[i] \in Int /\ w[i] = v[i]
  BY <1>1, SignedUnitsType
<1>3. v[n + 1] = IF n + 1 \in ids THEN SignedUnits(r) ELSE 0
  BY <1>1
<1>4. SignedUnits(r) \in Int
  BY SignedUnitsType
<1>5. UnitsOf(receipts, ids) = Total(n, w) /\ UnitsOf(more, ids) = Total(n + 1, v)
  BY <1>1 DEF UnitsOf
<1> HIDE DEF n, more, w, v
<1>6. \A i \in 1..n + 1 : v[i] \in Int
  <2>1. v[n + 1] \in Int
    BY <1>3, <1>4
  <2>2. \A i \in 1..n : v[i] \in Int
    BY <1>2
  <2>3. \A i \in 1..n + 1 : i \in 1..n \/ i = n + 1
    BY <1>1
  <2> QED
    BY <2>1, <2>2, <2>3
<1>7. Total(n + 1, v) = Total(n, v) + v[n + 1]
  BY <1>1, <1>6, TotalStep
<1>8. Total(n, w) = Total(n, v)
  BY <1>1, <1>2, TotalAgree
<1> QED
  BY <1>3, <1>5, <1>7, <1>8 DEF n, more

\* Positions are integers.
LEMMA PositionType ==
  ASSUME ledger \in Seq(Receipt), NEW t, NEW s
  PROVE  PositionOf(t, s) \in Int
  BY UnitsType DEF PositionOf

\* Nets are integers.
LEMMA NetType ==
  ASSUME NEW receipts \in Seq(Receipt), NEW ids
  PROVE  NetOf(receipts, ids) \in Shares
  BY UnitsType DEF NetOf, Shares

\* A new receipt changes its own trader's position on its own side, by its signed units.
LEMMA PositionAfterFill ==
  ASSUME ledger \in Seq(Receipt), NEW r \in Receipt, ledger' = Append(ledger, r),
         NEW t, NEW s
  PROVE  PositionOf(t, s)' = PositionOf(t, s)
           + (IF r.trader = t /\ r.side = s THEN SignedUnits(r) ELSE 0)
<1> DEFINE n   == Len(ledger)
           own == {i \in LedgerIds : ledger[i].trader = t /\ ledger[i].side = s}
           now == {i \in 1..Len(ledger') : ledger'[i].trader = t /\ ledger'[i].side = s}
<1>1. /\ n \in Nat
      /\ Len(ledger') = n + 1
      /\ \A i \in 1..n : ledger'[i] = ledger[i]
      /\ ledger'[n + 1] = r
  BY AppendProperties, LenProperties
<1>2. PositionOf(t, s) = UnitsOf(ledger, own)
  BY DEF PositionOf
<1>3. PositionOf(t, s)' = UnitsOf(ledger', now)
  BY DEF PositionOf, LedgerIds, UnitsOf
<1>4. \A i \in 1..n : i \in own <=> i \in now
  BY <1>1 DEF LedgerIds
<1>5. n + 1 \in now <=> r.trader = t /\ r.side = s
  BY <1>1
<1> HIDE DEF n, own, now
<1>6. UnitsOf(ledger', now) = UnitsOf(ledger, now) + (IF n + 1 \in now THEN SignedUnits(r) ELSE 0)
  BY UnitsAfterAppend DEF n
<1>7. UnitsOf(ledger, now) = UnitsOf(ledger, own)
  BY <1>4, UnitsSame DEF n
<1> QED
  BY <1>2, <1>3, <1>5, <1>6, <1>7

-----------------------------------------------------------------------------
(* Type correctness *)

\* Adding units to a side, or one net to another, gives integer shares.
LEMMA SharesType ==
  ASSUME NEW q \in Shares
  PROVE  /\ \A s \in Side, n \in Int : Advance(q, s, n) \in Shares
         /\ \A d \in Shares : Plus(q, d) \in Shares
  BY DEF Shares, Advance, Plus

\* Opening or resynchronising the engine gives a runtime.
LEMMA RuntimeType ==
  ASSUME TypeOK
  PROVE  /\ Opened \in Runtime
         /\ \A q \in Shares : Resynced(q) \in Runtime
         /\ CurrentPool \in Pool
<1>1. CurrentPool \in Pool
  <2>1. Len(pools) \in 1..Len(pools)
    BY EmptySeq, LenProperties DEF TypeOK
  <2> QED
    BY <2>1, ElementOfSeq DEF TypeOK, CurrentPool
<1>2. CASE mem.open
  BY <1>1, <1>2 DEF TypeOK, Opened, Resynced, Runtime
<1>3. CASE ~mem.open /\ ledger # <<>>
  <2>1. Len(ledger) \in 1..Len(ledger)
    BY <1>3, EmptySeq, LenProperties DEF TypeOK
  <2>2. ledger[Len(ledger)] \in Receipt
    BY <2>1, ElementOfSeq DEF TypeOK
  <2> QED
    BY <1>1, <1>3, <2>2 DEF TypeOK, Opened, Resynced, Runtime, Receipt
<1>4. CASE ~mem.open /\ ledger = <<>>
  BY <1>1, <1>4 DEF TypeOK, Opened, Resynced, Runtime, Pool
<1> QED
  BY <1>1, <1>2, <1>3, <1>4

\* The order at the head of the lock and what filling it writes have their types.
LEMMA HeadType ==
  ASSUME TypeOK, lockQueue # <<>>
  PROVE  LET o == Head(lockQueue).order
         IN  /\ o \in Order
             /\ Tail(lockQueue) \in Seq(Ticket)
             /\ Filled(o) \in Runtime
             /\ ReceiptFor(o) \in Receipt
<1> DEFINE o == Head(lockQueue).order
<1>1. Head(lockQueue) \in Ticket /\ Tail(lockQueue) \in Seq(Ticket)
  BY HeadTailProperties DEF TypeOK
<1>2. o \in Order
  BY <1>1 DEF Ticket
<1>3. SignedUnits(o) \in Int /\ o.side \in Side
  BY <1>2, BoundsAssumption DEF Order, SignedUnits
<1>4. mem.q \in Shares /\ mem.seq \in Nat /\ mem.open \in BOOLEAN
  BY DEF TypeOK, Runtime
<1> HIDE DEF o
<1>5. Advance(mem.q, o.side, SignedUnits(o)) \in Shares
  BY <1>3, <1>4, SharesType
<1>6. Filled(o) \in Runtime /\ Filled(o).q \in Shares
  <2> DEFINE q == Advance(mem.q, o.side, SignedUnits(o))
  <2>1. q \in Shares
    BY <1>5
  <2>2. Filled(o) = [mem EXCEPT !.q = q, !.seq = mem.seq + 1]
    BY DEF Filled
  <2> HIDE DEF q
  <2>3. mem \in Runtime /\ mem.seq + 1 \in Nat
    BY <1>4 DEF TypeOK
  <2>4. \A m \in Runtime, n \in Nat : [m EXCEPT !.q = q, !.seq = n] \in Runtime
    BY <2>1, Zenon DEF Runtime
  <2>5. \A m \in Runtime, n \in Nat : [m EXCEPT !.q = q, !.seq = n].q = q
    BY <2>1 DEF Runtime
  <2> QED
    BY <2>1, <2>2, <2>3, <2>4, <2>5
<1>7. ReceiptFor(o) \in Receipt
  BY <1>2, <1>4, <1>6 DEF ReceiptFor, Receipt, Order
<1> QED
  BY <1>1, <1>2, <1>6, <1>7 DEF o

\* A plan built from the current pool is a plan.
LEMMA PlanType ==
  ASSUME NEW kind \in {"trade", "settle", "resolve"}, NEW rows \in SUBSET Nat,
         NEW net \in Shares, NEW q \in Shares, NEW w \in Outcome
  PROVE  [kind |-> kind, rows |-> rows, net |-> net, pool |-> [q |-> q, winner |-> w]] \in Plan
  BY DEF Plan, Pool

\* Every step keeps the types.
LEMMA TypeStep == TypeOK /\ [Next]_vars => TypeOK'
<1> SUFFICES ASSUME TypeOK, [Next]_vars
             PROVE  TypeOK'
  OBVIOUS
<1>0. /\ NoShares \in Shares
      /\ LedgerIds \in SUBSET Nat
      /\ Len(pools) \in Nat /\ Len(batches) \in Nat /\ Len(ledger) \in Nat
  BY LenProperties DEF NoShares, Shares, LedgerIds, TypeOK
<1>1. CASE Quote
  BY <1>1, RuntimeType DEF Quote, TypeOK
<1>2. ASSUME NEW o \in Orders, Submit(o)
      PROVE  TypeOK'
  <2>1. [id |-> tickets', order |-> o] \in Ticket
    BY <1>2, OrdersAssumption DEF Submit, TypeOK, Ticket
  <2>2. CASE o.action = "buy"
    BY <1>2, <2>1, <2>2, RuntimeType DEF Submit, TypeOK
  <2>3. CASE o.action # "buy"
    <3>1. lockQueue' = Append(lockQueue, [id |-> tickets', order |-> o])
      BY <1>2, <2>3 DEF Submit
    <3>2. lockQueue' \in Seq(Ticket)
      BY <2>1, <3>1, AppendProperties DEF TypeOK
    <3> QED
      BY <1>2, <2>1, <2>3, <3>2, RuntimeType DEF Submit, TypeOK
  <2> QED
    BY <2>2, <2>3
<1>3. ASSUME NEW t \in accepting, AcceptPayment(t)
      PROVE  TypeOK'
  <2>1. lockQueue' \in Seq(Ticket)
    BY <1>3, AppendProperties DEF AcceptPayment, TypeOK
  <2> QED
    BY <1>3, <2>1 DEF AcceptPayment, TypeOK
<1>4. ASSUME NEW t \in accepting, RefusePayment(t)
      PROVE  TypeOK'
  BY <1>4 DEF RefusePayment, TypeOK
<1>5. CASE Fill
  <2>1. lockQueue' \in Seq(Ticket) /\ mem' \in Runtime
    BY <1>5, HeadType DEF Fill
  <2>2. ledger' \in Seq(Receipt) /\ Len(ledger') = Len(ledger) + 1
    BY <1>5, HeadType, AppendProperties DEF Fill, TypeOK
  <2>3. batchOf' \in Seq(Nat) /\ Len(batchOf') = Len(batchOf) + 1
    BY <1>5, AppendProperties DEF Fill, TypeOK
  <2> QED
    BY <1>5, <2>1, <2>2, <2>3 DEF Fill, TypeOK
<1>6. CASE FillNotPersisted
  <2>1. lockQueue' \in Seq(Ticket) /\ mem' \in Runtime
    BY <1>6, HeadType DEF FillNotPersisted
  <2> QED
    BY <1>6, <2>1 DEF FillNotPersisted, TypeOK
<1>7. CASE RefuseOrder
  BY <1>7, HeadType DEF RefuseOrder, TypeOK
<1>8. CASE Restart
  BY <1>0, <1>8, EmptySeq DEF Restart, TypeOK, Runtime
<1>9. CASE EnqueueSettle
  <2> DEFINE net == NetOf(ledger, Unsettled)
  <2>1. net \in Shares /\ Plus(CurrentPool.q, net) \in Shares /\ Unsettled \in SUBSET Nat
    BY <1>0, NetType, RuntimeType, SharesType DEF TypeOK, Pool, Unsettled
  <2>2. pending' \in SUBSET Plan
    BY <1>9, <2>1, PlanType DEF EnqueueSettle, Enqueue, Outcome
  <2> QED
    BY <1>9, <2>2, RuntimeType DEF EnqueueSettle, TypeOK
<1>10. ASSUME NEW s \in Side, NEW n \in {1, -1}, EnqueueTrade(s, n)
       PROVE  TypeOK'
  <2>1. Advance(CurrentPool.q, s, n) \in Shares
    BY RuntimeType, SharesType DEF Pool
  <2>2. pending' \in SUBSET Plan
    BY <1>0, <1>10, <2>1, PlanType DEF EnqueueTrade, Enqueue, Outcome
  <2> QED
    BY <1>10, <2>2 DEF EnqueueTrade, TypeOK
<1>11. ASSUME NEW w \in Side, EnqueueResolve(w)
       PROVE  TypeOK'
  <2>1. pending' \in SUBSET Plan
    BY <1>0, <1>11, PlanType, RuntimeType DEF EnqueueResolve, Enqueue, Outcome, Pool
  <2> QED
    BY <1>11, <2>1 DEF EnqueueResolve, TypeOK
<1>12. CASE Dismiss
  BY <1>12 DEF Dismiss, TypeOK
<1>13. ASSUME NEW plan \in pending, AuthorizeSettle(plan)
       PROVE  TypeOK'
  <2>1. plan \in Plan /\ plan.pool \in Pool /\ plan.pool.q \in Shares
    BY DEF TypeOK, Plan, Pool
  <2>2. pools' \in Seq(Pool) /\ pools' # <<>>
    BY <1>13, <2>1, AppendProperties DEF AuthorizeSettle, TypeOK
  <2>3. pools # <<>> => Len(pools) - 1 \in Nat
    BY EmptySeq, LenProperties DEF TypeOK
  <2>4. batches' \in Seq(Batch)
    BY <1>0, <1>13, <2>1, <2>3, AppendProperties DEF AuthorizeSettle, TypeOK, Batch, Plan
  <2>5. batchOf' \in Seq(Nat) /\ Len(batchOf') = Len(ledger')
    <3>1. \A i \in LedgerIds : batchOf[i] \in Nat
      BY ElementOfSeq DEF TypeOK, LedgerIds
    <3>2. batchOf' \in [1..Len(ledger) -> Nat]
      BY <1>0, <1>13, <3>1 DEF AuthorizeSettle, LedgerIds
    <3>3. Len(ledger) \in Nat /\ ledger' = ledger
      BY <1>0, <1>13 DEF AuthorizeSettle
    <3> HIDE DEF AuthorizeSettle
    <3>4. batchOf' \in Seq(Nat)
      BY <3>2, <3>3, SeqDef
    <3>5. DOMAIN batchOf' = 1..Len(batchOf') /\ Len(batchOf') \in Nat
      BY <3>4, LenProperties
    <3> QED
      BY <3>2, <3>3, <3>4, <3>5
  <2>6. mem' \in Runtime
    BY <1>13, <2>1, RuntimeType DEF AuthorizeSettle
  <2> QED
    BY <1>13, <2>2, <2>4, <2>5, <2>6 DEF AuthorizeSettle, TypeOK
<1>14. ASSUME NEW plan \in pending, AuthorizeOther(plan)
       PROVE  TypeOK'
  <2>1. plan.pool \in Pool
    BY DEF TypeOK, Plan
  <2>2. pools' \in Seq(Pool) /\ pools' # <<>>
    BY <1>14, <2>1, AppendProperties DEF AuthorizeOther, TypeOK
  <2> QED
    BY <1>14, <2>2 DEF AuthorizeOther, TypeOK
<1>15. CASE UNCHANGED vars
  BY <1>15 DEF vars, TypeOK
<1> QED
  BY <1>1, <1>2, <1>3, <1>4, <1>5, <1>6, <1>7, <1>8, <1>9, <1>10, <1>11, <1>12, <1>13, <1>14,
     <1>15 DEF Next, RunLock

\* The tables and the runtime keep their types in every behaviour.
THEOREM TypeCorrect == Spec => []TypeOK
<1>1. Init => TypeOK
  BY EmptySeq, LenProperties DEF Init, TypeOK, Runtime, Pool, Shares, NoShares, Outcome
<1> QED
  BY <1>1, TypeStep, PTL DEF Spec

-----------------------------------------------------------------------------
(* No naked shorts *)

\* Only a fill changes the ledger, and what it appends is a receipt its check allowed.
LEMMA LedgerStep ==
  ASSUME TypeOK, [Next]_vars
  PROVE  \/ ledger' = ledger
         \/ /\ Fill
            /\ lockQueue # <<>>
            /\ Head(lockQueue).order \in Order
            /\ ReceiptFor(Head(lockQueue).order) \in Receipt
            /\ Fillable(Head(lockQueue).order)
            /\ ledger' = Append(ledger, ReceiptFor(Head(lockQueue).order))
<1>1. CASE Fill
  BY <1>1, HeadType DEF Fill
<1>2. CASE ~Fill
  BY <1>2 DEF Next, RunLock, Quote, Submit, AcceptPayment, RefusePayment, FillNotPersisted,
     RefuseOrder, Restart, EnqueueSettle, EnqueueTrade, EnqueueResolve, Dismiss,
     AuthorizeSettle, AuthorizeOther, vars
<1> QED
  BY <1>1, <1>2

\* A fill leaves every position at zero or above: a sell is at most the position it is taken from.
LEMMA NoNakedShortStep == TypeOK /\ NoNakedShort /\ [Next]_vars => NoNakedShort'
<1> SUFFICES ASSUME TypeOK, NoNakedShort, [Next]_vars,
                    NEW t \in Traders, NEW s \in Side
             PROVE  (PositionOf(t, s) >= 0)'
  BY DEF NoNakedShort
<1>1. PositionOf(t, s) \in Int /\ PositionOf(t, s) >= 0
  BY PositionType DEF NoNakedShort, TypeOK
<1>2. CASE ledger' = ledger
  BY <1>1, <1>2 DEF PositionOf, LedgerIds, UnitsOf
<1>3. CASE Fill
  <2> DEFINE o == Head(lockQueue).order
             r == ReceiptFor(o)
  <2>1. /\ o \in Order /\ r \in Receipt
        /\ Fillable(o)
        /\ ledger' = Append(ledger, r)
    BY <1>3, HeadType DEF Fill
  <2>2. r.trader = o.trader /\ r.side = o.side /\ SignedUnits(r) = SignedUnits(o)
    BY DEF ReceiptFor, SignedUnits
  <2>3. PositionOf(t, s)' = PositionOf(t, s)
          + (IF o.trader = t /\ o.side = s THEN SignedUnits(o) ELSE 0)
    BY <2>1, <2>2, PositionAfterFill DEF TypeOK
  <2>4. o.units \in Nat /\ o.action \in {"buy", "sell"}
    BY <2>1, BoundsAssumption DEF Order
  <2>5. o.action = "sell" => PositionOf(o.trader, o.side) >= o.units
    BY <2>1 DEF Fillable
  <2> HIDE DEF o
  <2>6. CASE o.action = "buy"
    BY <1>1, <2>3, <2>4, <2>6 DEF SignedUnits
  <2>7. CASE o.action = "sell"
    BY <1>1, <2>3, <2>4, <2>5, <2>7 DEF SignedUnits
  <2> QED
    BY <2>4, <2>6, <2>7
<1> QED
  BY <1>2, <1>3, LedgerStep

\* No trader is ever net short on a side.
THEOREM NoNakedShorts == Spec => []NoNakedShort
<1>1. Init => NoNakedShort
  <2> SUFFICES ASSUME Init, NEW t \in Traders, NEW s \in Side
               PROVE  PositionOf(t, s) >= 0
    BY DEF NoNakedShort
  <2>1. Len(ledger) = 0
    BY EmptySeq DEF Init
  <2> QED
    BY <2>1, TotalEmpty DEF PositionOf, UnitsOf
<1> QED
  BY <1>1, TypeCorrect, NoNakedShortStep, PTL DEF Spec

-----------------------------------------------------------------------------
(* The order of the ledger *)

\* An order waits behind the lock, or for its payment, only in a process that opened the market.
OpenWhenBusy == accepting # {} \/ lockQueue # <<>> => mem.open

\* What makes the order of the ledger inductive: a fill numbers its receipt from mem, so mem must
\* be the runtime of an open market.
LedgerInv == LedgerInOrder /\ OpenWhenBusy

\* The ids of the ledger's rows, and what is in them.
LEMMA RowsType ==
  ASSUME TypeOK
  PROVE  /\ Len(ledger) \in Nat
         /\ \A i \in LedgerIds : ledger[i] \in Receipt /\ ledger[i].seq \in Nat
<1>1. \A i \in LedgerIds : ledger[i] \in Receipt
  BY ElementOfSeq DEF TypeOK, LedgerIds
<1>2. \A r \in Receipt : r.seq \in Nat
  BY DEF Receipt
<1> QED
  BY <1>1, <1>2, LenProperties DEF TypeOK

\* Opening the market, from the last receipt or from the pool, gives a number past every receipt.
LEMMA OpenedInOrder ==
  ASSUME TypeOK, LedgerInOrder
  PROVE  Opened.open /\ \A i \in LedgerIds : ledger[i].seq <= Opened.seq
<1>0. Len(ledger) \in Nat /\ \A i \in LedgerIds : ledger[i].seq \in Nat
  BY RowsType
<1>1. CASE mem.open
  BY <1>1 DEF Opened, LedgerInOrder
<1>2. CASE ~mem.open /\ ledger # <<>>
  <2>1. Len(ledger) \in LedgerIds
    BY <1>0, <1>2, EmptySeq DEF LedgerIds, TypeOK
  <2>2. Opened.open /\ Opened.seq = ledger[Len(ledger)].seq
    BY <1>2 DEF Opened
  <2>3. \A i \in LedgerIds : i = Len(ledger) \/ i < Len(ledger)
    BY <1>0 DEF LedgerIds
  <2> QED
    BY <1>0, <2>1, <2>2, <2>3 DEF LedgerInOrder
<1>3. CASE ~mem.open /\ ledger = <<>>
  <2>1. LedgerIds = {}
    BY <1>3, EmptySeq DEF LedgerIds
  <2> QED
    BY <1>3, <2>1 DEF Opened
<1> QED
  BY <1>1, <1>2, <1>3

\* Every step keeps the order.
LEMMA LedgerInvStep == TypeOK /\ LedgerInv /\ [Next]_vars => LedgerInv'
<1> SUFFICES ASSUME TypeOK, LedgerInv, [Next]_vars
             PROVE  LedgerInv'
  OBVIOUS
<1> USE DEF LedgerInv
<1>1. CASE Quote
  BY <1>1, OpenedInOrder DEF Quote, LedgerInOrder, LedgerIds, OpenWhenBusy
<1>2. ASSUME NEW o \in Orders, Submit(o)
      PROVE  LedgerInv'
  BY <1>2, OpenedInOrder DEF Submit, LedgerInOrder, LedgerIds, OpenWhenBusy
<1>3. ASSUME NEW t \in accepting, AcceptPayment(t)
      PROVE  LedgerInv'
  BY <1>3 DEF AcceptPayment, LedgerInOrder, LedgerIds, OpenWhenBusy
<1>4. ASSUME NEW t \in accepting, RefusePayment(t)
      PROVE  LedgerInv'
  BY <1>4 DEF RefusePayment, LedgerInOrder, LedgerIds, OpenWhenBusy
<1>5. CASE Fill
  <2> DEFINE n == Len(ledger)
             r == ReceiptFor(Head(lockQueue).order)
  <2>1. /\ n \in Nat
        /\ Len(ledger') = n + 1
        /\ \A i \in 1..n : ledger'[i] = ledger[i]
        /\ ledger'[n + 1] = r
    BY <1>5, HeadType, AppendProperties, LenProperties DEF Fill, TypeOK
  <2>2. mem.open /\ mem.seq \in Nat /\ mem' = Filled(Head(lockQueue).order)
    BY <1>5 DEF Fill, OpenWhenBusy, TypeOK, Runtime
  <2>3. mem'.open = mem.open /\ mem'.seq = mem.seq + 1
    BY <2>2 DEF Filled, TypeOK, Runtime
  <2>4. r.seq = mem.seq + 1
    BY DEF ReceiptFor
  <2>5. \A i \in 1..n : ledger[i].seq \in Nat /\ ledger[i].seq <= mem.seq
    BY <2>2, RowsType DEF LedgerInOrder, LedgerIds
  <2>6. \A i, j \in 1..n : i < j => ledger[i].seq < ledger[j].seq
    BY DEF LedgerInOrder, LedgerIds
  <2> HIDE DEF n, r
  <2>7. \A i \in 1..n + 1 : i \in 1..n \/ i = n + 1
    BY <2>1
  <2>8. \A i, j \in 1..n + 1 : i < j => ledger'[i].seq < ledger'[j].seq
    <3> SUFFICES ASSUME NEW i \in 1..n + 1, NEW j \in 1..n + 1, i < j
                 PROVE  ledger'[i].seq < ledger'[j].seq
      OBVIOUS
    <3>1. i \in 1..n
      BY <2>1
    <3>2. CASE j \in 1..n
      BY <2>1, <2>6, <3>1, <3>2
    <3>3. CASE j = n + 1
      BY <2>1, <2>2, <2>4, <2>5, <3>1, <3>3
    <3> QED
      BY <2>7, <3>2, <3>3
  <2>9. \A i \in 1..n + 1 : ledger'[i].seq <= mem'.seq
    BY <2>1, <2>2, <2>3, <2>4, <2>5, <2>7
  <2>10. LedgerInOrder'
    BY <2>1, <2>8, <2>9 DEF LedgerInOrder, LedgerIds
  <2> QED
    BY <2>2, <2>3, <2>10 DEF OpenWhenBusy
<1>6. CASE FillNotPersisted
  <2>1. mem.open /\ mem.seq \in Nat
    BY <1>6 DEF FillNotPersisted, OpenWhenBusy, TypeOK, Runtime
  <2>2. mem'.open = mem.open /\ mem'.seq = mem.seq + 1
    BY <1>6 DEF FillNotPersisted, Filled, TypeOK, Runtime
  <2>3. \A i \in LedgerIds : ledger[i].seq \in Nat /\ ledger[i].seq <= mem.seq
    BY <2>1, RowsType DEF LedgerInOrder
  <2>4. LedgerInOrder'
    BY <1>6, <2>1, <2>2, <2>3 DEF FillNotPersisted, LedgerInOrder, LedgerIds
  <2> QED
    BY <2>1, <2>2, <2>4 DEF OpenWhenBusy
<1>7. CASE RefuseOrder
  BY <1>7 DEF RefuseOrder, LedgerInOrder, LedgerIds, OpenWhenBusy
<1>8. CASE Restart
  BY <1>8 DEF Restart, LedgerInOrder, LedgerIds, OpenWhenBusy
<1>9. CASE EnqueueSettle
  BY <1>9, OpenedInOrder DEF EnqueueSettle, LedgerInOrder, LedgerIds, OpenWhenBusy
<1>10. ASSUME NEW s \in Side, NEW n \in {1, -1}, EnqueueTrade(s, n)
       PROVE  LedgerInv'
  BY <1>10 DEF EnqueueTrade, LedgerInOrder, LedgerIds, OpenWhenBusy
<1>11. ASSUME NEW w \in Side, EnqueueResolve(w)
       PROVE  LedgerInv'
  BY <1>11 DEF EnqueueResolve, LedgerInOrder, LedgerIds, OpenWhenBusy
<1>12. CASE Dismiss
  BY <1>12 DEF Dismiss, LedgerInOrder, LedgerIds, OpenWhenBusy
<1>13. ASSUME NEW plan \in pending, AuthorizeSettle(plan)
       PROVE  LedgerInv'
  <2>1. mem'.open = mem.open /\ mem'.seq = mem.seq
    BY <1>13 DEF AuthorizeSettle, Resynced, TypeOK, Runtime
  <2> QED
    BY <1>13, <2>1 DEF AuthorizeSettle, LedgerInOrder, LedgerIds, OpenWhenBusy
<1>14. ASSUME NEW plan \in pending, AuthorizeOther(plan)
       PROVE  LedgerInv'
  BY <1>14 DEF AuthorizeOther, LedgerInOrder, LedgerIds, OpenWhenBusy
<1>15. CASE UNCHANGED vars
  BY <1>15 DEF vars, LedgerInOrder, LedgerIds, OpenWhenBusy
<1> QED
  BY <1>1, <1>2, <1>3, <1>4, <1>5, <1>6, <1>7, <1>8, <1>9, <1>10, <1>11, <1>12, <1>13, <1>14,
     <1>15 DEF Next, RunLock

\* Receipts are totally ordered by their sequence number, and the engine never reuses one.
THEOREM LedgerOrdered == Spec => []LedgerInOrder
<1>1. Init => LedgerInv
  BY EmptySeq DEF Init, LedgerInv, LedgerInOrder, LedgerIds, OpenWhenBusy
<1> QED
  BY <1>1, TypeCorrect, LedgerInvStep, PTL DEF Spec, LedgerInv

\* A receipt never changes once issued, nor the batch that settled it.
THEOREM ReceiptsFinal == Spec => ReceiptsAreFinal
<1>1. TypeOK /\ [Next]_vars =>
        [ /\ Len(ledger') >= Len(ledger)
          /\ \A i \in LedgerIds : /\ ledger'[i] = ledger[i]
                                  /\ batchOf[i] # 0 => batchOf'[i] = batchOf[i] ]_vars
  <2> SUFFICES ASSUME TypeOK, [Next]_vars
               PROVE  /\ Len(ledger') >= Len(ledger)
                      /\ \A i \in LedgerIds : /\ ledger'[i] = ledger[i]
                                              /\ batchOf[i] # 0 => batchOf'[i] = batchOf[i]
    OBVIOUS
  <2>0. Len(ledger) \in Nat
    BY LenProperties DEF TypeOK
  <2>1. CASE Fill
    <3> DEFINE r == ReceiptFor(Head(lockQueue).order)
    <3>1. r \in Receipt /\ ledger' = Append(ledger, r) /\ batchOf' = Append(batchOf, 0)
      BY <2>1, HeadType DEF Fill
    <3>2. Len(ledger') = Len(ledger) + 1 /\ \A i \in 1..Len(ledger) : ledger'[i] = ledger[i]
      BY <3>1, AppendProperties DEF TypeOK
    <3>3. \A i \in 1..Len(batchOf) : batchOf'[i] = batchOf[i]
      BY <3>1, AppendProperties DEF TypeOK
    <3> QED
      BY <2>0, <3>2, <3>3 DEF TypeOK, LedgerIds
  <2>2. ASSUME NEW plan \in pending, AuthorizeSettle(plan)
        PROVE  ledger' = ledger /\ \A i \in LedgerIds : batchOf[i] # 0 => batchOf'[i] = batchOf[i]
    BY <2>2 DEF AuthorizeSettle
  <2>3. CASE ~Fill /\ ~\E plan \in pending : AuthorizeSettle(plan)
    <3>1. ledger' = ledger /\ batchOf' = batchOf
      BY <2>3 DEF Next, RunLock, Quote, Submit, AcceptPayment, RefusePayment,
         FillNotPersisted, RefuseOrder, Restart, EnqueueSettle, EnqueueTrade, EnqueueResolve,
         Dismiss, AuthorizeOther, vars
    <3> QED
      BY <2>0, <3>1
  <2> QED
    BY <2>0, <2>1, <2>2, <2>3
<1> QED
  BY <1>1, TypeCorrect, PTL DEF Spec, ReceiptsAreFinal

-----------------------------------------------------------------------------
(* Nets *)

\* A new receipt does not change the net of the receipts before it.
LEMMA NetAfterAppend ==
  ASSUME NEW receipts \in Seq(Receipt), NEW r \in Receipt, NEW ids,
         ids \subseteq 1..Len(receipts)
  PROVE  NetOf(Append(receipts, r), ids) = NetOf(receipts, ids)
<1>1. /\ Len(receipts) \in Nat
      /\ \A i \in ids : Append(receipts, r)[i] = receipts[i]
      /\ Len(receipts) + 1 \notin ids
  BY AppendProperties, LenProperties
<1> SUFFICES ASSUME NEW s \in Side
             PROVE  UnitsOf(Append(receipts, r), {i \in ids : Append(receipts, r)[i].side = s})
                      = UnitsOf(receipts, {i \in ids : receipts[i].side = s})
  BY DEF NetOf
<1> DEFINE own == {i \in ids : receipts[i].side = s}
<1>2. {i \in ids : Append(receipts, r)[i].side = s} = own
  BY <1>1
<1>3. Len(receipts) + 1 \notin own
  BY <1>1
<1> HIDE DEF own
<1>4. UnitsOf(Append(receipts, r), own) = UnitsOf(receipts, own) + 0
  BY <1>3, UnitsAfterAppend
<1>5. UnitsOf(receipts, own) \in Int
  BY UnitsType
<1>6. {i \in ids : receipts[i].side = s} = own
  BY DEF own
<1>7. UnitsOf(Append(receipts, r), own) = UnitsOf(receipts, own)
  BY <1>4, <1>5
<1> QED
  BY <1>2, <1>6, <1>7, Zenon

\* The units of disjoint sets of receipts add up.
LEMMA UnitsOfUnion ==
  ASSUME NEW receipts \in Seq(Receipt), NEW A, NEW B, A \cap B = {}
  PROVE  UnitsOf(receipts, A \cup B) = UnitsOf(receipts, A) + UnitsOf(receipts, B)
<1> DEFINE n == Len(receipts)
           u == [i \in 1..n |-> IF i \in A THEN SignedUnits(receipts[i]) ELSE 0]
           v == [i \in 1..n |-> IF i \in B THEN SignedUnits(receipts[i]) ELSE 0]
           w == [i \in 1..n |-> IF i \in A \cup B THEN SignedUnits(receipts[i]) ELSE 0]
<1>1. n \in Nat /\ \A i \in 1..n : receipts[i] \in Receipt
  BY LenProperties, ElementOfSeq
<1>2. \A i \in 1..n : u[i] \in Int /\ v[i] \in Int /\ w[i] = u[i] + v[i]
  <2> TAKE i \in 1..n
  <2>1. SignedUnits(receipts[i]) \in Int
    BY <1>1, SignedUnitsType
  <2> QED
    BY <2>1
<1>3. /\ UnitsOf(receipts, A) = Total(n, u)
      /\ UnitsOf(receipts, B) = Total(n, v)
      /\ UnitsOf(receipts, A \cup B) = Total(n, w)
  BY DEF UnitsOf
<1> HIDE DEF n, u, v, w
<1> QED
  BY <1>1, <1>2, <1>3, TotalAdd

\* So do their nets.
LEMMA NetOfUnion ==
  ASSUME NEW receipts \in Seq(Receipt), NEW A, NEW B, A \cap B = {}
  PROVE  NetOf(receipts, A \cup B) = Plus(NetOf(receipts, A), NetOf(receipts, B))
<1> SUFFICES ASSUME NEW s \in Side
             PROVE  UnitsOf(receipts, {i \in A \cup B : receipts[i].side = s})
                      = UnitsOf(receipts, {i \in A : receipts[i].side = s})
                        + UnitsOf(receipts, {i \in B : receipts[i].side = s})
  BY DEF NetOf, Plus
<1> DEFINE a == {i \in A : receipts[i].side = s}
           b == {i \in B : receipts[i].side = s}
<1>1. {i \in A \cup B : receipts[i].side = s} = a \cup b
  OBVIOUS
<1>2. a \cap b = {}
  OBVIOUS
<1> HIDE DEF a, b
<1>3. UnitsOf(receipts, a \cup b) = UnitsOf(receipts, a) + UnitsOf(receipts, b)
  BY <1>2, UnitsOfUnion
<1> QED
  BY <1>1, <1>3 DEF a, b

-----------------------------------------------------------------------------
(* Every settlement audits *)

\* What a settlement awaiting sign-off says of the tables as they are now.
PlanCurrent ==
  \A plan \in pending : plan.kind = "settle" =>
    /\ plan.rows # {} /\ plan.rows \subseteq Unsettled
    /\ plan.net = NetOf(ledger, plan.rows)
    /\ plan.pool.q = Plus(CurrentPool.q, plan.net)

\* The batch ids on receipts are those of batches, the pool versions of batches are versions.
BatchIds ==
  /\ \A i \in LedgerIds : batchOf[i] <= Len(batches)
  /\ \A b \in 1..Len(batches) : batches[b].from + 1 \in 1..Len(pools)
                             /\ batches[b].to + 1 \in 1..Len(pools)

SettlementInv == PlanCurrent /\ BatchIds /\ SettlementsAudit

\* A step that leaves the ledger, the batches and the pools alone, and brings in no plan.
LEMMA SettlementInvQuiet ==
  ASSUME SettlementInv, pending' \subseteq pending,
         UNCHANGED <<ledger, batchOf, batches, pools>>
  PROVE  SettlementInv'
  BY DEF SettlementInv, PlanCurrent, BatchIds, SettlementsAudit, AuditMarket, AuditPasses, LedgerIds, Unsettled, StampedBy,
         CurrentPool

\* A fill is stamped by no batch.
LEMMA StampedAfterFill ==
  ASSUME TypeOK, Fill
  PROVE  \A b \in 1..Len(batches) : StampedBy(b)' = StampedBy(b)
<1> DEFINE r == ReceiptFor(Head(lockQueue).order)
<1>1. r \in Receipt /\ ledger' = Append(ledger, r) /\ batchOf' = Append(batchOf, 0)
  BY HeadType DEF Fill
<1>2. PICK n \in Nat : n = Len(ledger)
  BY LenProperties DEF TypeOK
<1>3. LedgerIds = 1..n /\ LedgerIds' = 1..n + 1
  BY <1>1, <1>2, AppendProperties DEF LedgerIds, TypeOK
<1>4. (\A i \in 1..n : batchOf'[i] = batchOf[i]) /\ batchOf'[n + 1] = 0
  BY <1>1, <1>2, AppendProperties DEF TypeOK
<1>5. Len(batches) \in Nat
  BY LenProperties DEF TypeOK
<1> TAKE b \in 1..Len(batches)
<1>6. b # 0
  BY <1>5
<1>7. StampedBy(b)' = {i \in 1..n + 1 : batchOf'[i] = b}
  BY <1>3 DEF StampedBy
<1>8. StampedBy(b) = {i \in 1..n : batchOf[i] = b}
  BY <1>3 DEF StampedBy
<1>9. \A i \in 1..n + 1 : i \in 1..n \/ i = n + 1
  BY <1>2
<1> QED
  BY <1>4, <1>6, <1>7, <1>8, <1>9

\* A settlement stamps its rows with its own id, and no other.
LEMMA StampedAfterSettle ==
  ASSUME TypeOK, NEW plan \in pending, AuthorizeSettle(plan), plan.rows \subseteq Unsettled,
         \A i \in LedgerIds : batchOf[i] <= Len(batches)
  PROVE  /\ \A b \in 1..Len(batches) : StampedBy(b)' = StampedBy(b)
         /\ \A n : n = Len(batches) + 1 => StampedBy(n)' = plan.rows
<1>1. PICK n \in Nat : n = Len(batches)
  BY LenProperties DEF TypeOK
<1>2. LedgerIds' = LedgerIds /\ plan.rows \subseteq LedgerIds
  BY DEF AuthorizeSettle, LedgerIds, Unsettled
<1>3. \A i \in LedgerIds : batchOf'[i] = IF i \in plan.rows THEN n + 1 ELSE batchOf[i]
  BY <1>1 DEF AuthorizeSettle, Unsettled
<1>4. \A i \in LedgerIds : batchOf[i] \in Nat /\ batchOf[i] <= n
  BY <1>1, ElementOfSeq DEF TypeOK, LedgerIds
<1>5. ASSUME NEW b \in 1..n
      PROVE  StampedBy(b)' = StampedBy(b)
  <2>1. b # n + 1 /\ b # 0
    BY <1>1
  <2>2. \A i \in LedgerIds : batchOf'[i] = b <=> batchOf[i] = b
    BY <1>3, <2>1 DEF Unsettled
  <2> QED
    BY <1>2, <2>2 DEF StampedBy
<1>6. StampedBy(n + 1)' = plan.rows
  <2>1. \A i \in LedgerIds : batchOf'[i] = n + 1 <=> i \in plan.rows
    BY <1>1, <1>3, <1>4
  <2>2. StampedBy(n + 1)' = {i \in LedgerIds : batchOf'[i] = n + 1}
    BY <1>2 DEF StampedBy
  <2> QED
    BY <1>2, <2>1, <2>2
<1> QED
  BY <1>1, <1>5, <1>6

\* A fill is not settled: it disturbs no batch and no plan.
LEMMA SettlementInvFill == TypeOK /\ SettlementInv /\ Fill => SettlementInv'
<1> SUFFICES ASSUME TypeOK, SettlementInv, Fill
             PROVE  SettlementInv'
  OBVIOUS
<1> DEFINE n == Len(ledger)
           r == ReceiptFor(Head(lockQueue).order)
<1>1. r \in Receipt /\ ledger \in Seq(Receipt) /\ ledger' = Append(ledger, r)
  BY HeadType DEF Fill, TypeOK
<1>2. UNCHANGED <<batches, pools, pending>> /\ batchOf' = Append(batchOf, 0)
  BY DEF Fill
<1>3. n \in Nat /\ LedgerIds = 1..n /\ LedgerIds' = 1..n + 1
  BY <1>1, AppendProperties, LenProperties DEF LedgerIds
<1>4. (\A i \in 1..n : batchOf'[i] = batchOf[i]) /\ batchOf'[n + 1] = 0
  BY <1>2, <1>3, AppendProperties DEF TypeOK
<1>5. Len(batches) \in Nat
  BY LenProperties DEF TypeOK
<1> HIDE DEF n, r
<1>6. \A i \in 1..n + 1 : i \in 1..n \/ i = n + 1
  BY <1>3
<1>7. \A ids : ids \subseteq LedgerIds => NetOf(ledger', ids) = NetOf(ledger, ids)
  BY <1>1, NetAfterAppend DEF LedgerIds
<1>8. \A b \in 1..Len(batches) : StampedBy(b)' = StampedBy(b) /\ StampedBy(b) \subseteq LedgerIds
  BY StampedAfterFill DEF StampedBy
<1>9. Unsettled \subseteq Unsettled' /\ Unsettled \subseteq LedgerIds
  BY <1>3, <1>4 DEF Unsettled
<1>10. CurrentPool' = CurrentPool
  BY <1>2 DEF CurrentPool
<1>11. PlanCurrent'
  BY <1>2, <1>7, <1>9, <1>10 DEF PlanCurrent, SettlementInv
<1>12. BatchIds'
  <2>1. ASSUME NEW i \in 1..n + 1
        PROVE  batchOf'[i] <= Len(batches)
    <3>1. CASE i \in 1..n
      BY <1>3, <1>4, <3>1 DEF BatchIds, SettlementInv
    <3>2. CASE i = n + 1
      BY <1>4, <1>5, <3>2
    <3> QED
      BY <1>6, <3>1, <3>2
  <2> QED
    BY <1>2, <1>3, <2>1 DEF BatchIds, SettlementInv
<1>13. SettlementsAudit'
  <2> SUFFICES ASSUME NEW b \in 1..Len(batches)
               PROVE  /\ StampedBy(b)' = batches[b].digest
                      /\ NetOf(ledger', StampedBy(b)') = batches[b].net
                      /\ pools[batches[b].to + 1].q = Plus(pools[batches[b].from + 1].q, batches[b].net)
    BY <1>2 DEF SettlementsAudit, AuditMarket, AuditPasses
  <2> QED
    BY <1>7, <1>8 DEF SettlementsAudit, AuditMarket, AuditPasses, SettlementInv
<1> QED
  BY <1>11, <1>12, <1>13 DEF SettlementInv

\* Building a settlement nets what is unsettled on top of the current pool.
LEMMA SettlementInvEnqueue ==
  ASSUME SettlementInv, UNCHANGED <<ledger, batchOf, batches, pools>>,
         \A plan \in pending' : plan.kind = "settle" =>
           /\ plan.rows = Unsettled /\ Unsettled # {}
           /\ plan.net = NetOf(ledger, Unsettled)
           /\ plan.pool.q = Plus(CurrentPool.q, plan.net)
  PROVE  SettlementInv'
<1>1. PlanCurrent'
  BY DEF PlanCurrent, LedgerIds, Unsettled, CurrentPool
<1>2. BatchIds'
  BY DEF SettlementInv, BatchIds, LedgerIds
<1>3. SettlementsAudit'
  BY DEF SettlementInv, SettlementsAudit, AuditMarket, AuditPasses, LedgerIds, StampedBy
<1> QED
  BY <1>1, <1>2, <1>3 DEF SettlementInv

\* Applying a plan moves the pool to its end; the versions batches name stay what they were.
LEMMA PoolsGrow ==
  ASSUME TypeOK, NEW plan \in pending, pools' = Append(pools, plan.pool)
  PROVE  /\ Len(pools) \in Nat \ {0} /\ Len(pools') = Len(pools) + 1
         /\ \A v \in 1..Len(pools) : pools'[v] = pools[v]
         /\ pools'[Len(pools) + 1] = plan.pool
<1>1. plan.pool \in Pool
  BY DEF TypeOK, Plan
<1>2. Len(pools) \in Nat /\ Len(pools) # 0
  BY EmptySeq, LenProperties DEF TypeOK
<1> QED
  BY <1>1, <1>2, AppendProperties DEF TypeOK

\* Applying a settlement stamps exactly its rows, and they net to what the pool moved by.
LEMMA SettlementInvAuthorize ==
  ASSUME TypeOK, SettlementInv, NEW plan \in pending, AuthorizeSettle(plan)
  PROVE  SettlementInv'
<1>0. PICK n : n = Len(batches)
  OBVIOUS
<1> DEFINE new == [from |-> Len(pools) - 1, to |-> Len(pools), net |-> plan.net,
                  digest |-> plan.rows]
<1>1. /\ pools' = Append(pools, plan.pool)
      /\ batches' = Append(batches, new)
      /\ batchOf' = [i \in LedgerIds |-> IF i \in plan.rows /\ batchOf[i] = 0
                                         THEN n + 1 ELSE batchOf[i]]
      /\ pending' = {} /\ ledger' = ledger /\ LedgerIds' = LedgerIds
  BY <1>0 DEF AuthorizeSettle, LedgerIds
<1>2. /\ plan.rows \subseteq Unsettled
      /\ plan.net = NetOf(ledger, plan.rows)
      /\ plan.pool.q = Plus(CurrentPool.q, plan.net)
  BY DEF AuthorizeSettle, SettlementInv, PlanCurrent
<1>3. /\ Len(pools) \in Nat \ {0} /\ Len(pools') = Len(pools) + 1
      /\ \A v \in 1..Len(pools) : pools'[v] = pools[v]
      /\ pools'[Len(pools) + 1] = plan.pool
  BY <1>1, PoolsGrow
<1>4. new \in Batch
  <2>1. plan \in Plan
    BY DEF TypeOK
  <2> QED
    BY <1>3, <2>1 DEF Batch, Plan
<1>5. /\ n \in Nat /\ Len(batches') = n + 1
      /\ \A b \in 1..n : batches'[b] = batches[b]
      /\ batches'[n + 1] = new
  BY <1>0, <1>1, <1>4, AppendProperties, LenProperties DEF TypeOK
<1>6. \A i \in LedgerIds : batchOf[i] \in Nat /\ batchOf[i] <= n
  <2>1. \A i \in LedgerIds : batchOf[i] \in Nat
    BY ElementOfSeq DEF TypeOK, LedgerIds
  <2> QED
    BY <1>0, <2>1 DEF BatchIds, SettlementInv
<1>7. new.from = Len(pools) - 1 /\ new.to = Len(pools) /\ new.net = plan.net /\ new.digest = plan.rows
  OBVIOUS
<1>8. \A i \in LedgerIds : batchOf'[i] = IF i \in plan.rows THEN n + 1 ELSE batchOf[i]
  BY <1>1, <1>2 DEF Unsettled
<1> HIDE DEF new
<1>9. \A b \in 1..n + 1 : b \in 1..n \/ b = n + 1
  BY <1>5
<1>10. (\A b \in 1..n : StampedBy(b)' = StampedBy(b)) /\ StampedBy(n + 1)' = plan.rows
  BY <1>0, <1>2, <1>6, StampedAfterSettle
<1>12. PlanCurrent'
  BY <1>1 DEF PlanCurrent
<1>13. BatchIds'
  <2>1. \A i \in LedgerIds' : batchOf'[i] <= Len(batches')
    BY <1>1, <1>5, <1>6, <1>8
  <2>2. ASSUME NEW b \in 1..n + 1
        PROVE  batches'[b].from + 1 \in 1..Len(pools') /\ batches'[b].to + 1 \in 1..Len(pools')
    <3>1. CASE b \in 1..n
      <4>1. batches'[b] = batches[b]
        BY <1>5, <3>1
      <4>2. batches[b].from + 1 \in 1..Len(pools) /\ batches[b].to + 1 \in 1..Len(pools)
        BY <1>0, <3>1 DEF BatchIds, SettlementInv
      <4> QED
        BY <1>3, <4>1, <4>2
    <3>2. CASE b = n + 1
      BY <1>3, <1>5, <1>7, <3>2
    <3> QED
      BY <1>9, <3>1, <3>2
  <2> QED
    BY <1>5, <2>1, <2>2 DEF BatchIds
<1>14. SettlementsAudit'
  <2>1. ASSUME NEW b \in 1..n + 1
        PROVE  /\ StampedBy(b)' = batches'[b].digest
               /\ NetOf(ledger, StampedBy(b)') = batches'[b].net
               /\ pools'[batches'[b].to + 1].q
                    = Plus(pools'[batches'[b].from + 1].q, batches'[b].net)
    <3>1. CASE b \in 1..n
      <4>1. batches'[b] = batches[b] /\ StampedBy(b)' = StampedBy(b)
        BY <1>5, <1>10, <3>1
      <4>2. batches[b].from + 1 \in 1..Len(pools) /\ batches[b].to + 1 \in 1..Len(pools)
        BY <1>0, <3>1 DEF BatchIds, SettlementInv
      <4>3. /\ StampedBy(b) = batches[b].digest
            /\ NetOf(ledger, StampedBy(b)) = batches[b].net
            /\ pools[batches[b].to + 1].q
                 = Plus(pools[batches[b].from + 1].q, batches[b].net)
        BY <1>0, <3>1 DEF SettlementsAudit, AuditMarket, AuditPasses, SettlementInv
      <4> QED
        BY <1>3, <4>1, <4>2, <4>3
    <3>2. CASE b = n + 1
      <4>1. pools'[new.to + 1] = plan.pool /\ pools'[new.from + 1] = CurrentPool
        BY <1>3, <1>7 DEF CurrentPool
      <4>2. batches'[b].to = new.to /\ batches'[b].from = new.from
            /\ batches'[b].net = plan.net /\ batches'[b].digest = plan.rows
        BY <1>5, <1>7, <3>2
      <4>3. StampedBy(b)' = plan.rows
        BY <1>10, <3>2
      <4> QED
        BY <1>2, <4>1, <4>2, <4>3
    <3> QED
      BY <1>9, <3>1, <3>2
  <2> QED
    BY <1>1, <1>5, <2>1 DEF SettlementsAudit, AuditMarket, AuditPasses
<1> QED
  BY <1>12, <1>13, <1>14 DEF SettlementInv

\* Applying another plan moves the pool and touches neither receipts nor batches.
LEMMA SettlementInvOther ==
  ASSUME TypeOK, SettlementInv, NEW plan \in pending, AuthorizeOther(plan)
  PROVE  SettlementInv'
<1>1. /\ pools' = Append(pools, plan.pool) /\ pending' = {}
      /\ UNCHANGED <<ledger, batchOf, batches>>
  BY DEF AuthorizeOther
<1>2. /\ Len(pools) \in Nat \ {0} /\ Len(pools') = Len(pools) + 1
      /\ \A v \in 1..Len(pools) : pools'[v] = pools[v]
  BY <1>1, PoolsGrow
<1>3. PlanCurrent'
  BY <1>1 DEF PlanCurrent
<1>4. BatchIds'
  BY <1>1, <1>2 DEF BatchIds, LedgerIds, SettlementInv
<1>5. SettlementsAudit'
  <2> SUFFICES ASSUME NEW b \in 1..Len(batches)
               PROVE  /\ StampedBy(b) = batches[b].digest
                      /\ NetOf(ledger, StampedBy(b)) = batches[b].net
                      /\ pools'[batches[b].to + 1].q
                           = Plus(pools'[batches[b].from + 1].q, batches[b].net)
    BY <1>1 DEF SettlementsAudit, AuditMarket, AuditPasses, StampedBy, LedgerIds
  <2>1. batches[b].from + 1 \in 1..Len(pools) /\ batches[b].to + 1 \in 1..Len(pools)
    BY DEF BatchIds, SettlementInv
  <2> QED
    BY <1>2, <2>1 DEF SettlementsAudit, AuditMarket, AuditPasses, SettlementInv
<1> QED
  BY <1>3, <1>4, <1>5 DEF SettlementInv

\* Every step keeps the batches audited and the plan awaiting sign-off current.
LEMMA SettlementInvStep == TypeOK /\ SettlementInv /\ [Next]_vars => SettlementInv'
<1> SUFFICES ASSUME TypeOK, SettlementInv, [Next]_vars
             PROVE  SettlementInv'
  OBVIOUS
<1>1. CASE Fill
  BY <1>1, SettlementInvFill
<1>2. CASE EnqueueSettle
  BY <1>2, SettlementInvEnqueue DEF EnqueueSettle, Enqueue
<1>3. ASSUME NEW s \in Side, NEW n \in {1, -1}, EnqueueTrade(s, n)
      PROVE  SettlementInv'
  BY <1>3, SettlementInvEnqueue DEF EnqueueTrade, Enqueue
<1>4. ASSUME NEW w \in Side, EnqueueResolve(w)
      PROVE  SettlementInv'
  BY <1>4, SettlementInvEnqueue DEF EnqueueResolve, Enqueue
<1>5. ASSUME NEW plan \in pending, AuthorizeSettle(plan)
      PROVE  SettlementInv'
  BY <1>5, SettlementInvAuthorize
<1>6. ASSUME NEW plan \in pending, AuthorizeOther(plan)
      PROVE  SettlementInv'
  BY <1>6, SettlementInvOther
<1>7. CASE pending' \subseteq pending /\ UNCHANGED <<ledger, batchOf, batches, pools>>
  BY <1>7, SettlementInvQuiet
<1> QED
  BY <1>1, <1>2, <1>3, <1>4, <1>5, <1>6, <1>7 DEF Next, RunLock, Quote, Submit, AcceptPayment,
     RefusePayment, FillNotPersisted, RefuseOrder, Restart, Dismiss, vars

\* auditSettlement passes on every batch of every market.
THEOREM SettlementsAlwaysAudit == Spec => []SettlementsAudit
<1>1. Init => SettlementInv
  BY EmptySeq DEF Init, SettlementInv, PlanCurrent, BatchIds, SettlementsAudit, AuditMarket, AuditPasses, LedgerIds
<1> QED
  BY <1>1, TypeCorrect, SettlementInvStep, PTL DEF Spec, SettlementInv

-----------------------------------------------------------------------------
(* What is unsettled can be settled *)

\* The units of no receipts.
LEMMA UnitsOfNone == ASSUME NEW receipts \in Seq(Receipt) PROVE UnitsOf(receipts, {}) = 0
<1>1. UnitsOf(receipts, {} \cup {}) = UnitsOf(receipts, {}) + UnitsOf(receipts, {})
  BY UnitsOfUnion
<1>2. UnitsOf(receipts, {}) \in Int
  BY UnitsType
<1>3. {} \cup {} = {}
  OBVIOUS
<1> QED
  BY <1>1, <1>2, <1>3

\* If no trader is short, the fills as a whole are not: the positions of the traders of the first
\* n receipts add up to zero or more, for every n.
LEMMA NoShortNet ==
  ASSUME TypeOK, NoNakedShort, NEW s \in Side
  PROVE  NetOf(ledger, LedgerIds)[s] >= 0
<1>0. PICK receipts \in Seq(Receipt) : receipts = ledger
  BY DEF TypeOK
<1>1. PICK n \in Nat : n = Len(receipts)
  BY <1>0, LenProperties
<1> DEFINE UpTo(m) == {i \in 1..n : /\ receipts[i].side = s
                                    /\ \E j \in 1..m : receipts[j].trader = receipts[i].trader}
           Own(t) == {i \in 1..n : receipts[i].trader = t /\ receipts[i].side = s}
           T == {m \in Nat : m <= n => UnitsOf(receipts, UpTo(m)) >= 0}
<1>2. 0 \in T
  <2>1. UpTo(0) = {}
    OBVIOUS
  <2>2. UnitsOf(receipts, UpTo(0)) = 0
    BY <2>1, UnitsOfNone, Zenon
  <2> HIDE DEF UpTo
  <2> QED
    BY <2>2
<1>3. ASSUME NEW m \in Nat, m \in T
      PROVE  m + 1 \in T
  <2> SUFFICES ASSUME m + 1 <= n
               PROVE  UnitsOf(receipts, UpTo(m + 1)) >= 0
    OBVIOUS
  <2>1. PICK t : t = receipts[m + 1].trader
    OBVIOUS
  <2>2. t \in Traders
    <3>1. receipts[m + 1] \in Receipt
      BY <1>1, ElementOfSeq
    <3> QED
      BY <2>1, <3>1 DEF Receipt
  <2>3. UnitsOf(receipts, UpTo(m)) >= 0 /\ UnitsOf(receipts, UpTo(m)) \in Int
    BY <1>3, UnitsType
  <2>4. CASE \E j \in 1..m : receipts[j].trader = t
    <3>1. UpTo(m + 1) = UpTo(m)
      BY <2>1, <2>4
    <3> QED
      BY <2>3, <3>1
  <2>5. CASE ~\E j \in 1..m : receipts[j].trader = t
    <3>1. UpTo(m + 1) = UpTo(m) \cup Own(t)
      BY <2>1
    <3>2. UpTo(m) \cap Own(t) = {}
      BY <2>5
    <3>3. UnitsOf(receipts, Own(t)) >= 0 /\ UnitsOf(receipts, Own(t)) \in Int
      <4>1. PositionOf(t, s) = UnitsOf(receipts, Own(t))
        BY <1>0, <1>1 DEF PositionOf, LedgerIds
      <4>2. PositionOf(t, s) >= 0
        BY <2>2 DEF NoNakedShort
      <4> QED
        BY <4>1, <4>2, UnitsType
    <3>4. UnitsOf(receipts, UpTo(m) \cup Own(t))
            = UnitsOf(receipts, UpTo(m)) + UnitsOf(receipts, Own(t))
      BY <3>2, UnitsOfUnion
    <3>5. UnitsOf(receipts, UpTo(m + 1)) = UnitsOf(receipts, UpTo(m)) + UnitsOf(receipts, Own(t))
      BY <3>1, <3>4, Zenon
    <3> HIDE DEF UpTo, Own
    <3> QED
      BY <2>3, <3>3, <3>5
  <2> QED
    BY <2>4, <2>5
<1>4. n \in T
  <2> HIDE DEF T
  <2>1. Nat \subseteq T
    BY <1>2, <1>3, NatSetInduction
  <2> QED
    BY <2>1
<1>5. UpTo(n) = {i \in 1..n : receipts[i].side = s}
  OBVIOUS
<1>6. NetOf(ledger, LedgerIds)[s] = UnitsOf(receipts, UpTo(n))
  BY <1>0, <1>1, <1>5 DEF NetOf, LedgerIds
<1> HIDE DEF UpTo
<1> QED
  BY <1>4, <1>6

\* The fills a settlement cleared.
Settled == {i \in LedgerIds : batchOf[i] # 0}

\* Until the first direct trade the pool's shares are the net of the settled fills; a resolution
\* leaves them alone, and a direct trade, once applied, can be told from the others.
PoolIsSettledNet ==
  /\ \A plan \in pending : /\ plan.kind = "trade" => plan.pool.winner = "none"
                           /\ plan.kind = "resolve" => plan.pool.q = CurrentPool.q
  /\ ~DirectlyTraded => CurrentPool.q = NetOf(ledger, Settled)

\* What was traded directly stays so.
LEMMA DirectlyTradedStays ==
  ASSUME TypeOK, BatchIds, NEW plan \in pending, pools' = Append(pools, plan.pool),
         \/ UNCHANGED batches
         \/ \E new \in Batch : new.to = Len(pools) /\ batches' = Append(batches, new)
  PROVE  /\ DirectlyTraded => DirectlyTraded'
         /\ UNCHANGED batches /\ plan.pool.winner = "none" => DirectlyTraded'
<1>1. /\ Len(pools) \in Nat \ {0} /\ Len(pools') = Len(pools) + 1
      /\ \A v \in 1..Len(pools) : pools'[v] = pools[v]
      /\ pools'[Len(pools) + 1] = plan.pool
  BY PoolsGrow
<1>2. ASSUME NEW v \in 1..Len(pools) - 1, pools[v + 1].winner = "none",
             \A b \in 1..Len(batches) : batches[b].to # v
      PROVE  DirectlyTraded'
  <2>1. v \in 1..Len(pools') - 1 /\ pools'[v + 1].winner = "none" /\ v # Len(pools)
    BY <1>1, <1>2
  <2>2. \A b \in 1..Len(batches') : batches'[b].to # v
    <3>1. CASE UNCHANGED batches
      BY <1>2, <3>1
    <3>2. ASSUME NEW new \in Batch, new.to = Len(pools), batches' = Append(batches, new)
          PROVE  \A b \in 1..Len(batches') : batches'[b].to # v
      <4>1. /\ Len(batches) \in Nat /\ Len(batches') = Len(batches) + 1
            /\ \A b \in 1..Len(batches) : batches'[b] = batches[b]
            /\ batches'[Len(batches) + 1] = new
        BY <3>2, AppendProperties, LenProperties DEF TypeOK
      <4>2. \A b \in 1..Len(batches') : b \in 1..Len(batches) \/ b = Len(batches) + 1
        BY <4>1
      <4> QED
        BY <1>2, <2>1, <3>2, <4>1, <4>2
    <3> QED
      BY <3>1, <3>2
  <2> QED
    BY <2>1, <2>2 DEF DirectlyTraded
<1>3. ASSUME UNCHANGED batches, plan.pool.winner = "none"
      PROVE  DirectlyTraded'
  <2>1. Len(pools) \in 1..Len(pools') - 1 /\ pools'[Len(pools) + 1].winner = "none"
    BY <1>1, <1>3
  <2>2. \A b \in 1..Len(batches) : batches[b].to # Len(pools)
    BY <1>1 DEF BatchIds
  <2> QED
    BY <1>3, <2>1, <2>2 DEF DirectlyTraded
<1> QED
  BY <1>2, <1>3 DEF DirectlyTraded

\* Every step keeps the pool at the net of the settled fills.
LEMMA PoolIsSettledNetStep ==
  TypeOK /\ SettlementInv /\ PoolIsSettledNet /\ [Next]_vars => PoolIsSettledNet'
<1> SUFFICES ASSUME TypeOK, SettlementInv, PoolIsSettledNet, [Next]_vars
             PROVE  PoolIsSettledNet'
  OBVIOUS
<1> DEFINE Quiet == UNCHANGED <<ledger, batchOf, pools, batches>>
<1>1. CASE Fill
  <2> DEFINE r == ReceiptFor(Head(lockQueue).order)
  <2>1. r \in Receipt /\ ledger \in Seq(Receipt) /\ ledger' = Append(ledger, r)
    BY <1>1, HeadType DEF Fill, TypeOK
  <2>2. UNCHANGED <<pools, pending, batches>> /\ batchOf' = Append(batchOf, 0)
    BY <1>1 DEF Fill
  <2>3. PICK n \in Nat : n = Len(ledger)
    BY LenProperties DEF TypeOK
  <2>4. LedgerIds = 1..n /\ LedgerIds' = 1..n + 1
    BY <2>1, <2>3, AppendProperties DEF LedgerIds
  <2>5. (\A i \in 1..n : batchOf'[i] = batchOf[i]) /\ batchOf'[n + 1] = 0
    BY <2>2, <2>3, AppendProperties DEF TypeOK
  <2> HIDE DEF r
  <2>6. Settled' = Settled /\ Settled \subseteq LedgerIds
    <3>1. \A i \in 1..n + 1 : i \in 1..n \/ i = n + 1
      OBVIOUS
    <3>2. Settled' = {i \in 1..n + 1 : batchOf'[i] # 0} /\ Settled = {i \in 1..n : batchOf[i] # 0}
      BY <2>4 DEF Settled
    <3> QED
      BY <2>4, <2>5, <3>1, <3>2
  <2>7. NetOf(ledger', Settled') = NetOf(ledger, Settled)
    BY <2>1, <2>6, NetAfterAppend DEF LedgerIds
  <2> QED
    BY <2>2, <2>7 DEF PoolIsSettledNet, CurrentPool, DirectlyTraded
<1>2. CASE EnqueueSettle
  BY <1>2 DEF EnqueueSettle, Enqueue, PoolIsSettledNet, CurrentPool, DirectlyTraded, Settled, LedgerIds
<1>3. ASSUME NEW w \in Side, EnqueueResolve(w)
      PROVE  PoolIsSettledNet'
  BY <1>3 DEF EnqueueResolve, Enqueue, PoolIsSettledNet, CurrentPool, DirectlyTraded, Settled, LedgerIds
<1>4. ASSUME NEW plan \in pending, AuthorizeSettle(plan)
      PROVE  PoolIsSettledNet'
  <2>1. /\ pools' = Append(pools, plan.pool)
        /\ batchOf' = [i \in LedgerIds |-> IF i \in plan.rows /\ batchOf[i] = 0
                                           THEN Len(batches) + 1 ELSE batchOf[i]]
        /\ pending' = {} /\ ledger' = ledger /\ LedgerIds' = LedgerIds
    BY <1>4 DEF AuthorizeSettle, LedgerIds
  <2>2. /\ plan.rows \subseteq Unsettled
        /\ plan.net = NetOf(ledger, plan.rows)
        /\ plan.pool.q = Plus(CurrentPool.q, plan.net)
    BY <1>4 DEF AuthorizeSettle, SettlementInv, PlanCurrent
  <2>3. CurrentPool' = plan.pool
    BY <2>1, PoolsGrow DEF CurrentPool
  <2>4. Settled \cap plan.rows = {}
    BY <2>2 DEF Settled, Unsettled
  <2>5. Settled' = Settled \cup plan.rows
    <3>1. Len(batches) + 1 # 0
      BY LenProperties DEF TypeOK
    <3>2. \A i \in LedgerIds : batchOf'[i] # 0 <=> (batchOf[i] # 0 \/ i \in plan.rows)
      BY <2>1, <2>2, <3>1 DEF Unsettled
    <3>3. Settled' = {i \in LedgerIds : batchOf'[i] # 0}
      BY <2>1 DEF Settled
    <3> QED
      BY <2>2, <3>2, <3>3 DEF Settled, Unsettled
  <2>6. NetOf(ledger, Settled \cup plan.rows) = Plus(NetOf(ledger, Settled), NetOf(ledger, plan.rows))
    BY <2>4, NetOfUnion DEF TypeOK
  <2>7. DirectlyTraded => DirectlyTraded'
    <3> DEFINE new == [from |-> Len(pools) - 1, to |-> Len(pools), net |-> plan.net,
                       digest |-> plan.rows]
    <3>1. new \in Batch /\ new.to = Len(pools) /\ batches' = Append(batches, new)
      BY <1>4, PoolsGrow, <2>1 DEF AuthorizeSettle, TypeOK, Plan, Batch
    <3> QED
      BY <2>1, <3>1, DirectlyTradedStays DEF SettlementInv
  <2>8. ~DirectlyTraded => CurrentPool.q = NetOf(ledger, Settled)
    BY DEF PoolIsSettledNet
  <2> QED
    BY <2>1, <2>2, <2>3, <2>5, <2>6, <2>7, <2>8 DEF PoolIsSettledNet
<1>5. ASSUME NEW plan \in pending, AuthorizeOther(plan)
      PROVE  PoolIsSettledNet'
  <2>1. /\ pools' = Append(pools, plan.pool) /\ pending' = {}
        /\ UNCHANGED <<ledger, batchOf, batches>> /\ plan.kind \in {"trade", "resolve"}
    BY <1>5 DEF AuthorizeOther, TypeOK, Plan
  <2>2. CurrentPool' = plan.pool
    BY <2>1, PoolsGrow DEF CurrentPool
  <2>3. /\ DirectlyTraded => DirectlyTraded'
        /\ plan.kind = "trade" => DirectlyTraded'
    BY <2>1, DirectlyTradedStays DEF SettlementInv, PoolIsSettledNet
  <2> QED
    BY <2>1, <2>2, <2>3 DEF PoolIsSettledNet, Settled, LedgerIds
<1>6. CASE pending' \subseteq pending /\ Quiet
  BY <1>6 DEF PoolIsSettledNet, CurrentPool, DirectlyTraded, Settled, LedgerIds
<1>7. ASSUME NEW s \in Side, NEW n \in {1, -1}, EnqueueTrade(s, n)
      PROVE  PoolIsSettledNet'
  BY <1>7 DEF EnqueueTrade, Enqueue, PoolIsSettledNet, CurrentPool, DirectlyTraded, Settled, LedgerIds
<1> QED
  BY <1>1, <1>2, <1>3, <1>4, <1>5, <1>6, <1>7 DEF Next, RunLock, Quote, Submit, AcceptPayment,
     RefusePayment, FillNotPersisted, RefuseOrder, Restart, Dismiss, vars

\* Until somebody trades on the pool itself, a settlement of what is unsettled never oversells it.
THEOREM SettlementsCovered == Spec => []SettlementCovered
<1>1. Init => PoolIsSettledNet
  <2> SUFFICES ASSUME Init PROVE CurrentPool.q = NetOf(ledger, Settled)
    BY DEF PoolIsSettledNet, Init
  <2>1. ledger = <<>> /\ ledger \in Seq(Receipt) /\ Len(ledger) = 0
    BY EmptySeq DEF Init
  <2>2. CurrentPool.q = NoShares
    BY DEF Init, CurrentPool
  <2>3. \A ids : UnitsOf(ledger, ids) = 0
    BY <2>1, TotalEmpty DEF UnitsOf
  <2>4. \A s \in Side : NetOf(ledger, Settled)[s] = 0
    BY <2>3 DEF NetOf
  <2> QED
    BY <2>2, <2>3 DEF NetOf, NoShares
<1>2. TypeOK /\ NoNakedShort /\ PoolIsSettledNet => SettlementCovered
  <2> SUFFICES ASSUME TypeOK, NoNakedShort, PoolIsSettledNet, ~DirectlyTraded, NEW s \in Side
               PROVE  CurrentPool.q[s] + NetOf(ledger, Unsettled)[s] >= 0
    BY DEF SettlementCovered
  <2>1. Settled \cap Unsettled = {} /\ Settled \cup Unsettled = LedgerIds
    BY DEF Settled, Unsettled
  <2>2. NetOf(ledger, LedgerIds) = Plus(NetOf(ledger, Settled), NetOf(ledger, Unsettled))
    BY <2>1, NetOfUnion DEF TypeOK
  <2>3. NetOf(ledger, LedgerIds)[s] >= 0
    BY NoShortNet
  <2> QED
    BY <2>2, <2>3 DEF Plus, PoolIsSettledNet
<1>3. Init => SettlementInv
  BY EmptySeq DEF Init, SettlementInv, PlanCurrent, BatchIds, SettlementsAudit, AuditMarket, AuditPasses, LedgerIds
<1> QED
  BY <1>1, <1>2, <1>3, TypeCorrect, NoNakedShorts, SettlementInvStep, PoolIsSettledNetStep, PTL
     DEF Spec

-----------------------------------------------------------------------------
(* The refinement *)

\* The batches as the book sees them.
StampedSets == [b \in 1..Len(batches) |-> StampedBy(b)]

\* A list with one more element at its end is the list appended to.
LEMMA AppendByIndex ==
  ASSUME NEW S, NEW seq \in Seq(S), NEW elt \in S, NEW n \in Nat, n = Len(seq),
         NEW more \in [1..n + 1 -> S],
         \A i \in 1..n : more[i] = seq[i], more[n + 1] = elt
  PROVE  more = Append(seq, elt)
<1>1. more \in Seq(S) /\ Len(more) = n + 1
  <2>1. more \in Seq(S)
    BY SeqDef
  <2> QED
    BY <2>1, LenProperties
<1>2. /\ Append(seq, elt) \in Seq(S) /\ Len(Append(seq, elt)) = n + 1
      /\ \A i \in 1..n : Append(seq, elt)[i] = seq[i]
      /\ Append(seq, elt)[n + 1] = elt
  BY AppendProperties
<1>3. \A i \in 1..n + 1 : more[i] = Append(seq, elt)[i]
  <2>1. \A i \in 1..n + 1 : i \in 1..n \/ i = n + 1
    OBVIOUS
  <2> QED
    BY <1>2, <2>1
<1> QED
  BY <1>1, <1>2, <1>3, SeqEqual

\* Forgetting what a receipt carries forgets no fill.
LEMMA BookFacts ==
  ASSUME TypeOK
  PROVE  /\ Len(ledger) \in Nat
         /\ Book \in Seq(Abstract!Fills) /\ Len(Book) = Len(ledger)
         /\ \A i \in LedgerIds : Book[i] = FillOf(ledger[i])
         /\ \A r \in Receipt : FillOf(r) \in Abstract!Fills
<1>1. \A r \in Receipt : FillOf(r) \in Abstract!Fills
  BY DEF FillOf, Receipt, Abstract!Fills, Side
<1>2. PICK n \in Nat : n = Len(ledger)
  BY LenProperties DEF TypeOK
<1>3. \A i \in 1..n : ledger[i] \in Receipt
  BY <1>2, ElementOfSeq DEF TypeOK
<1>4. Book \in [1..n -> Abstract!Fills]
  BY <1>1, <1>2, <1>3 DEF Book, LedgerIds
<1>5. Book \in Seq(Abstract!Fills)
  BY <1>4, SeqDef
<1>6. Len(Book) = n
  BY <1>2, <1>4, <1>5, LenProperties
<1> QED
  BY <1>1, <1>2, <1>5, <1>6 DEF Book

\* What the book says a trader holds is the trader's position.
LEMMA HeldIsPosition ==
  ASSUME TypeOK, NEW t, NEW s
  PROVE  Abstract!Held(t, s) = PositionOf(t, s)
<1>0. PICK n \in Nat : n = Len(ledger) /\ n = Len(Book)
  BY BookFacts
<1> DEFINE own == {i \in LedgerIds : ledger[i].trader = t /\ ledger[i].side = s}
           w == [i \in 1..n |-> IF i \in own THEN SignedUnits(ledger[i]) ELSE 0]
           v == [i \in 1..Len(Book) |-> IF Book[i].trader = t /\ Book[i].side = s
                                        THEN IF Book[i].action = "buy"
                                             THEN Book[i].units ELSE 0 - Book[i].units
                                        ELSE 0]
<1>1. PositionOf(t, s) = Total(n, w)
  BY <1>0 DEF PositionOf, UnitsOf
<1>2. Abstract!Held(t, s) = Total(Len(Book), v)
  BY DEF Abstract!Held, Abstract!Total, Total
<1>3. \A i \in 1..n : w[i] = v[i]
  <2> TAKE i \in 1..n
  <2>1. /\ Book[i].trader = ledger[i].trader /\ Book[i].side = ledger[i].side
        /\ Book[i].action = ledger[i].action /\ Book[i].units = ledger[i].units
    <3>1. i \in LedgerIds
      BY <1>0 DEF LedgerIds
    <3>2. Book[i] = FillOf(ledger[i])
      BY <3>1, BookFacts
    <3> QED
      BY <3>2 DEF FillOf
  <2> QED
    BY <1>0, <2>1 DEF LedgerIds, SignedUnits
<1>4. w = v
  BY <1>0, <1>3
<1> HIDE DEF w, v
<1> QED
  BY <1>0, <1>1, <1>2, <1>4

\* A fill issues the order's fill to the book.
LEMMA FillIssues ==
  ASSUME TypeOK, Fill
  PROVE  \E f \in Abstract!Fills : Abstract!Issue(f)
<1> DEFINE o == Head(lockQueue).order
           r == ReceiptFor(o)
<1>1. /\ o \in Order /\ r \in Receipt
      /\ Fillable(o) /\ Insertable(o)
      /\ ledger' = Append(ledger, r)
  BY HeadType DEF Fill
<1>2. /\ FillOf(r).trader = o.trader /\ FillOf(r).side = o.side /\ FillOf(r).action = o.action
      /\ FillOf(r).units = o.units /\ FillOf(r).nonce = o.nonce
  BY DEF ReceiptFor, FillOf
<1>3. PICK n \in Nat : n = Len(ledger)
  BY LenProperties DEF TypeOK
<1> HIDE DEF o, r
<1> PICK f : f = FillOf(r)
  OBVIOUS
<1>4. f \in Abstract!Fills
  BY <1>1, BookFacts
<1>5. \A i \in 1..Len(Book) : <<Book[i].trader, Book[i].nonce>> # <<f.trader, f.nonce>>
  <2> TAKE i \in 1..Len(Book)
  <2>1. i \in LedgerIds /\ Book[i] = FillOf(ledger[i])
    BY BookFacts DEF LedgerIds
  <2>2. <<ledger[i].trader, ledger[i].nonce>> # <<o.trader, o.nonce>>
    BY <1>1, <2>1 DEF Insertable
  <2> QED
    BY <1>2, <2>1, <2>2 DEF FillOf
<1>6. f.action = "sell" => Abstract!Held(f.trader, f.side) >= f.units
  BY <1>1, <1>2, HeldIsPosition DEF Fillable
<1>7. Book' = Append(Book, f)
  <2>1. /\ Len(ledger') = n + 1
        /\ \A i \in 1..n : ledger'[i] = ledger[i]
        /\ ledger'[n + 1] = r
    BY <1>1, <1>3, AppendProperties DEF TypeOK
  <2>2. Book' = [i \in 1..n + 1 |-> FillOf(ledger'[i])]
    BY <2>1 DEF Book, LedgerIds, FillOf
  <2>3. Book'[n + 1] = f
    BY <2>1, <2>2
  <2>4. \A i \in 1..n : Book'[i] = Book[i]
    BY <1>3, <2>1, <2>2, BookFacts DEF LedgerIds
  <2>5. \A i \in 1..n : Book[i] \in Abstract!Fills
    BY <1>3, BookFacts, ElementOfSeq
  <2>6. Book' \in [1..n + 1 -> Abstract!Fills]
    <3>1. \A i \in 1..n + 1 : i \in 1..n \/ i = n + 1
      OBVIOUS
    <3>2. \A i \in 1..n + 1 : FillOf(ledger'[i]) \in Abstract!Fills
      BY <1>4, <2>2, <2>3, <2>4, <2>5, <3>1
    <3> QED
      BY <2>2, <3>2
  <2> QED
    BY <1>3, <1>4, <2>3, <2>4, <2>6, BookFacts, AppendByIndex
<1>8. StampedSets' = StampedSets
  BY StampedAfterFill DEF Fill, StampedSets
<1> QED
  BY <1>4, <1>5, <1>6, <1>7, <1>8 DEF Abstract!Issue, StampedSets

\* Applying a settlement settles the rows of its plan.
LEMMA AuthorizeSettles ==
  ASSUME TypeOK, SettlementInv, NEW plan \in pending, AuthorizeSettle(plan)
  PROVE  \E ids \in SUBSET (1..Len(Book)) : Abstract!Settle(ids)
<1>1. /\ plan.rows # {} /\ plan.rows \subseteq Unsettled
      /\ \A i \in LedgerIds : batchOf[i] <= Len(batches)
  BY DEF AuthorizeSettle, SettlementInv, PlanCurrent, BatchIds
<1>2. plan.rows \in SUBSET (1..Len(Book))
  BY <1>1, BookFacts DEF Unsettled, LedgerIds
<1>3. PICK n \in Nat : n = Len(batches)
  BY LenProperties DEF TypeOK
<1>4. Len(batches') = n + 1
  <2>1. plan \in Plan /\ Len(pools) - 1 \in Nat /\ Len(pools) \in Nat
    BY EmptySeq, LenProperties DEF TypeOK
  <2>2. [from |-> Len(pools) - 1, to |-> Len(pools), net |-> plan.net, digest |-> plan.rows] \in Batch
    BY <2>1 DEF Batch, Plan
  <2> QED
    BY <1>3, <2>2, AppendProperties DEF AuthorizeSettle, TypeOK
<1>5. /\ \A b \in 1..n : StampedBy(b)' = StampedBy(b)
      /\ StampedBy(n + 1)' = plan.rows
  BY <1>1, <1>3, StampedAfterSettle
<1>6. StampedSets' = Append(StampedSets, plan.rows)
  <2>1. StampedSets = [b \in 1..n |-> StampedBy(b)]
    BY <1>3 DEF StampedSets
  <2>2. StampedSets' = [b \in 1..n + 1 |-> StampedBy(b)']
    BY <1>4 DEF StampedSets
  <2>3. StampedSets \in Seq(SUBSET LedgerIds) /\ Len(StampedSets) = n
    <3>1. StampedSets \in [1..n -> SUBSET LedgerIds]
      BY <2>1 DEF StampedBy
    <3>2. StampedSets \in Seq(SUBSET LedgerIds)
      BY <3>1, SeqDef
    <3> QED
      BY <3>1, <3>2, LenProperties
  <2>4. \A b \in 1..n : StampedSets'[b] = StampedSets[b]
    BY <1>5, <2>1, <2>2
  <2>5. StampedSets'[n + 1] = plan.rows
    BY <1>5, <2>2
  <2>6. plan.rows \in SUBSET LedgerIds
    BY <1>1 DEF Unsettled
  <2>7. StampedSets' \in [1..n + 1 -> SUBSET LedgerIds]
    <3>1. \A b \in 1..n + 1 : b \in 1..n \/ b = n + 1
      OBVIOUS
    <3>2. \A b \in 1..n + 1 : StampedBy(b)' \in SUBSET LedgerIds
      BY <1>5, <2>6, <3>1 DEF StampedBy
    <3> QED
      BY <2>2, <3>2
  <2> QED
    BY <2>3, <2>4, <2>5, <2>6, <2>7, AppendByIndex
<1>7. \A i \in plan.rows : ~Abstract!Cleared(i)
  <2>1. \A i \in plan.rows, b \in 1..n : i \notin StampedBy(b)
    BY <1>1 DEF Unsettled, StampedBy
  <2>2. Len(StampedSets) = n /\ \A b \in 1..n : StampedSets[b] = StampedBy(b)
    BY <1>3 DEF StampedSets
  <2> QED
    BY <2>1, <2>2 DEF Abstract!Cleared, StampedSets
<1>8. Book' = Book
  BY DEF AuthorizeSettle, Book, LedgerIds, FillOf
<1> QED
  BY <1>1, <1>2, <1>6, <1>7, <1>8 DEF Abstract!Settle, StampedSets

\* Every step of the engine is a step of the book, or none.
LEMMA RefinesStep == TypeOK /\ SettlementInv /\ [Next]_vars => [Abstract!Next]_(Abstract!vars)
<1> SUFFICES ASSUME TypeOK, SettlementInv, [Next]_vars
             PROVE  Abstract!Next \/ UNCHANGED Abstract!vars
  OBVIOUS
<1>1. CASE Fill
  BY <1>1, FillIssues DEF Abstract!Next
<1>2. ASSUME NEW plan \in pending, AuthorizeSettle(plan)
      PROVE  Abstract!Next
  BY <1>2, AuthorizeSettles DEF Abstract!Next
<1>3. CASE UNCHANGED <<ledger, batchOf, batches>>
  BY <1>3 DEF Abstract!vars, Book, LedgerIds, FillOf, StampedBy
<1> QED
  BY <1>1, <1>2, <1>3 DEF Next, RunLock, Quote, Submit, AcceptPayment, RefusePayment,
     FillNotPersisted, RefuseOrder, Restart, EnqueueSettle, EnqueueTrade, EnqueueResolve, Dismiss,
     AuthorizeOther, vars

\* The engine implements the book of fills.
THEOREM Refinement == Spec => ImplementsFillLedger
<1>1. Init => Abstract!Init
  <2> SUFFICES ASSUME Init PROVE Abstract!Init
    OBVIOUS
  <2>1. Len(ledger) = 0 /\ Len(batches) = 0
    BY EmptySeq DEF Init
  <2>2. Book = <<>>
    BY <2>1 DEF Book, LedgerIds
  <2>3. [b \in 1..Len(batches) |-> StampedBy(b)] = <<>>
    BY <2>1
  <2> QED
    BY <2>2, <2>3 DEF Abstract!Init
<1>2. Init => SettlementInv
  BY EmptySeq DEF Init, SettlementInv, PlanCurrent, BatchIds, SettlementsAudit, AuditMarket, AuditPasses, LedgerIds
<1> QED
  BY <1>1, <1>2, TypeCorrect, SettlementInvStep, RefinesStep, PTL
     DEF Spec, ImplementsFillLedger, Abstract!Spec
=============================================================================
