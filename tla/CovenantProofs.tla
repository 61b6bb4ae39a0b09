--------------------------- MODULE CovenantProofs ---------------------------
(***************************************************************************)
(* Theorems about one deployed market: its covenant, the engine's copies   *)
(* and the service's tables, for any traders, amounts, caps and bounds,    *)
(* and any interleaving of plans, fills, failures and restarts.            *)
(*                                                                         *)
(* What a payout takes out of the pool is a sum over a set, about which    *)
(* nothing is known here; no theorem says what the collateral is, only     *)
(* that two places agree on it.                                            *)
(***************************************************************************)
EXTENDS Covenant, SequenceTheorems, FiniteSetTheorems, TLAPS

-----------------------------------------------------------------------------
(* The invariants *)

\* A list, of whatever.
IsList(s) == \E S : s \in Seq(S)

\* A pool has the fields of one.  What its collateral is does not matter here.
IsPool(s) ==
  /\ s = [q |-> s.q, collateral |-> s.collateral, resolved |-> s.resolved, winner |-> s.winner,
          paid |-> s.paid]
  /\ s.q \in [Side -> Int] /\ s.resolved \in BOOLEAN /\ s.winner \in Side /\ s.paid \in BOOLEAN

\* So has a move, and it names fills that are there.
IsMove(m) ==
  /\ m = Move(m.kind, m.side, m.sats, m.ids, m.winners)
  /\ m.kind \in Kind \ {"deploy"} /\ m.side \in Side
  /\ m.ids \subseteq 1..Len(fills)

FillRow == [trader : Traders, side : Side, action : Action, batch : Nat]

\* The lists and what is in them.
Lists ==
  /\ IsList(chain) /\ IsList(pools) /\ fills \in Seq(FillRow)
  /\ Len(pools) \in Nat \ {0}
  /\ \A i \in 1..Len(chain) : IsPool(chain[i].state)
  /\ \A t \in air : IsPool(t.state)
  /\ \A v \in 1..Len(pools) : pools[v].tx \in 1..Len(chain) /\ IsPool(pools[v].state)
  /\ trades \in [Side -> [Action -> Int]]

\* The engine's copy, when it has one, is of the recorded pool.
Copies == warm \in {0, CurrentPool.tx}

\* A plan is over the recorded pool: its effect, its batch and its winners are those of a plan
\* built now.  A parked redeem finds no token when it is made, as it found none when it was built.
PlanCurrent ==
  plan # None =>
    /\ IsMove(plan.move)
    /\ plan.pool = CurrentPool.tx
    /\ plan.effect = Expected(CurrentPool.state, plan.move)
    /\ plan.move.kind \in {"redeem", "payout"} <=> CurrentPool.state.resolved
    /\ plan.move.kind # "settle" => plan.move.ids = {}
    /\ plan.move.ids \subseteq Unsettled
    /\ plan.move.kind # "payout" => plan.move.winners = {}
    /\ plan.move.kind = "payout" =>
         payouts = {} /\ plan.move.winners = WinningPayouts(CurrentPool.state.winner)
    /\ plan.move.kind = "redeem" => token = 0

\* The call in flight makes the plan from the recorded pool.
CallCurrent ==
  call # None =>
    /\ plan # None
    /\ call = [kind |-> "call", sent |-> call.sent, tx |-> call.tx]
    /\ call.sent.move = plan.move
    /\ call.sent.state = After(chain[CurrentPool.tx].state, plan.move)
    /\ call.tx \in 0..Len(chain)
    /\ call.tx # 0 => chain[call.tx] = call.sent

\* Winners are only recorded for a resolved pool, all of them.
WinnersStand ==
  payouts # {} => CurrentPool.state.resolved /\ payouts = WinningPayouts(CurrentPool.state.winner)

\* The versions that record a buy, and so the mint of a token.
Mints == {v \in 1..Len(pools) : Recorded(v).move.kind = "buy"}

\* The last row of tokens is the latest recorded mint, and the engine remembers that or nothing.
TokensFollow ==
  /\ IsList(tokens)
  /\ token \in {0, PersistedToken}
  /\ \/ Mints = {} /\ PersistedToken = 0
     \/ \E m \in Mints : (\A v \in Mints : v <= m) /\ PersistedToken = pools[m].tx

\* A signature names the version it is for.
Keyed == \A a \in attested : a.key = a.at

-----------------------------------------------------------------------------
(* Lists *)

\* Appending to a list of whatever.
LEMMA AppendList ==
  ASSUME NEW s, IsList(s), NEW e
  PROVE  /\ Len(s) \in Nat
         /\ IsList(Append(s, e))
         /\ Len(Append(s, e)) = Len(s) + 1
         /\ \A i \in 1..Len(s) : Append(s, e)[i] = s[i]
         /\ Append(s, e)[Len(s) + 1] = e
<1>1. PICK S : s \in Seq(S)
  BY DEF IsList
<1> DEFINE T == S \cup {e}
<1>2. s \in Seq(T) /\ e \in T
  BY <1>1, SeqMonotonic
<1> HIDE DEF T
<1>3. /\ Append(s, e) \in Seq(T)
      /\ Len(Append(s, e)) = Len(s) + 1
      /\ \A i \in 1..Len(s) : Append(s, e)[i] = s[i]
      /\ Append(s, e)[Len(s) + 1] = e
  BY <1>2, AppendProperties
<1> QED
  BY <1>2, <1>3, LenProperties DEF IsList

\* What there is before and after a fill, or a step that is none.
FillsKept == fills' = fills \/ \E f \in FillRow : fills' = Append(fills, f)

\* Fills that are there stay as they are.
LEMMA FillsStay ==
  ASSUME fills \in Seq(FillRow), FillsKept
  PROVE  /\ fills' \in Seq(FillRow)
         /\ Len(fills) \in Nat /\ Len(fills') \in Nat /\ Len(fills) <= Len(fills')
         /\ \A i \in 1..Len(fills) : fills'[i] = fills[i]
<1>1. Len(fills) \in Nat
  BY LenProperties
<1>2. CASE fills' = fills
  BY <1>1, <1>2
<1>3. ASSUME NEW f \in FillRow, fills' = Append(fills, f)
      PROVE  /\ fills' \in Seq(FillRow) /\ Len(fills') = Len(fills) + 1
             /\ \A i \in 1..Len(fills) : fills'[i] = fills[i]
  BY <1>3, AppendProperties
<1> QED
  BY <1>1, <1>2, <1>3 DEF FillsKept

-----------------------------------------------------------------------------
(* Counting fills *)

\* A count is a number.
LEMMA CountType ==
  ASSUME fills \in Seq(FillRow), NEW ids \in SUBSET (1..Len(fills)), NEW s, NEW a
  PROVE  /\ IsFiniteSet(ids)
         /\ Count(ids, s, a) \in Nat
<1> DEFINE own == {i \in ids : fills[i].side = s /\ fills[i].action = a}
<1>1. Len(fills) \in Int /\ 1 \in Int
  BY LenProperties
<1>2. IsFiniteSet(1..Len(fills))
  BY <1>1, FS_Interval
<1>3. IsFiniteSet(ids)
  BY <1>2, FS_Subset
<1>4. own \in SUBSET ids
  OBVIOUS
<1> HIDE DEF own
<1>5. IsFiniteSet(own)
  BY <1>3, <1>4, FS_Subset
<1>6. Cardinality(own) \in Nat
  BY <1>5, FS_CardinalityType
<1> QED
  BY <1>3, <1>6 DEF Count, own

\* So a net is an integer.
LEMMA NetType ==
  ASSUME fills \in Seq(FillRow), NEW ids \in SUBSET (1..Len(fills)), NEW s
  PROVE  NetUnits(ids, s) \in Int
<1>1. Count(ids, s, "buy") \in Nat /\ Count(ids, s, "sell") \in Nat
  BY CountType
<1> QED
  BY <1>1 DEF NetUnits

\* There is nothing to count in no fills.
LEMMA CountEmpty ==
  ASSUME NEW s
  PROVE  NetUnits({}, s) = 0 /\ \A a : Count({}, s, a) = 0
<1>1. \A a : {i \in {} : fills[i].side = s /\ fills[i].action = a} = {}
  OBVIOUS
<1>2. \A a : Count({}, s, a) = 0
  BY <1>1, FS_EmptySet DEF Count
<1> QED
  BY <1>2 DEF NetUnits

\* Disjoint sets of fills count apart.
LEMMA CountUnion ==
  ASSUME fills \in Seq(FillRow), NEW A \in SUBSET (1..Len(fills)), NEW B \in SUBSET (1..Len(fills)),
         A \cap B = {}, NEW s, NEW a
  PROVE  Count(A \cup B, s, a) = Count(A, s, a) + Count(B, s, a)
<1> DEFINE own(S) == {i \in S : fills[i].side = s /\ fills[i].action = a}
           x == own(A)
           y == own(B)
<1>1. own(A \cup B) = x \cup y /\ x \cap y = {} /\ x \subseteq A /\ y \subseteq B
  OBVIOUS
<1>2. IsFiniteSet(A) /\ IsFiniteSet(B)
  BY CountType
<1>3. /\ Count(A \cup B, s, a) = Cardinality(x \cup y)
      /\ Count(A, s, a) = Cardinality(x) /\ Count(B, s, a) = Cardinality(y)
  BY <1>1 DEF Count
<1> HIDE DEF own, x, y
<1>4. IsFiniteSet(x) /\ IsFiniteSet(y)
  BY <1>1, <1>2, FS_Subset
<1>5. Cardinality(x \cup y) = Cardinality(x) + Cardinality(y) - Cardinality(x \cap y)
  BY <1>4, FS_Union
<1>6. Cardinality(x \cap y) = 0
  BY <1>1, FS_EmptySet
<1>7. Cardinality(x) \in Nat /\ Cardinality(y) \in Nat
  BY <1>4, FS_CardinalityType
<1> QED
  BY <1>3, <1>5, <1>6, <1>7

\* And net apart.
LEMMA NetUnion ==
  ASSUME fills \in Seq(FillRow), NEW A \in SUBSET (1..Len(fills)), NEW B \in SUBSET (1..Len(fills)),
         A \cap B = {}, NEW s
  PROVE  NetUnits(A \cup B, s) = NetUnits(A, s) + NetUnits(B, s)
<1>1. /\ Count(A \cup B, s, "buy") = Count(A, s, "buy") + Count(B, s, "buy")
      /\ Count(A \cup B, s, "sell") = Count(A, s, "sell") + Count(B, s, "sell")
  BY CountUnion
<1>2. /\ Count(A, s, "buy") \in Nat /\ Count(A, s, "sell") \in Nat
      /\ Count(B, s, "buy") \in Nat /\ Count(B, s, "sell") \in Nat
  BY CountType
<1> QED
  BY <1>1, <1>2 DEF NetUnits

\* Counts do not depend on the batches.
LEMMA CountStays ==
  ASSUME NEW ids, \A i \in ids : fills'[i].side = fills[i].side /\ fills'[i].action = fills[i].action
  PROVE  /\ \A s, a : Count(ids, s, a)' = Count(ids, s, a)
         /\ \A s : NetUnits(ids, s)' = NetUnits(ids, s)
         /\ NetCash(ids)' = NetCash(ids)
<1>1. \A s, a : Count(ids, s, a)' = Count(ids, s, a)
  <2> TAKE s, a
  <2>1. {i \in ids : fills'[i].side = s /\ fills'[i].action = a}
          = {i \in ids : fills[i].side = s /\ fills[i].action = a}
    OBVIOUS
  <2> QED
    BY <2>1 DEF Count
<1>2. \A s : NetUnits(ids, s)' = NetUnits(ids, s)
  BY <1>1 DEF NetUnits
<1>3. NetCash(ids)' = NetCash(ids)
  BY <1>2 DEF NetCash
<1> QED
  BY <1>1, <1>2, <1>3

-----------------------------------------------------------------------------
(* Moves *)

\* What a move adds to side x of the pool.
Delta(m, x) ==
  (IF m.kind = "buy" /\ m.side = x THEN 1 ELSE 0) - (IF m.kind = "sell" /\ m.side = x THEN 1 ELSE 0)
    + NetUnits(m.ids, x)

\* A move only settles when it is a settlement.
IsSoundMove(m) == IsMove(m) /\ (m.kind # "settle" => m.ids = {})

\* A pool by its fields.
Pool(q, collateral, resolved, winner, paid) ==
  [q |-> q, collateral |-> collateral, resolved |-> resolved, winner |-> winner, paid |-> paid]

\* What the tables keep of it.
Kept(q, collateral, resolved, winner) == Pool(q, collateral, resolved, winner, FALSE)

\* The pool a move leaves, by its fields.
LEMMA AfterFields ==
  ASSUME NEW s, IsPool(s), NEW m, IsSoundMove(m)
  PROVE  /\ m.kind = "buy" =>
              After(s, m) = Pool([s.q EXCEPT ![m.side] = @ + 1], s.collateral + m.sats, s.resolved,
                                 s.winner, s.paid)
         /\ m.kind = "sell" =>
              After(s, m) = Pool([s.q EXCEPT ![m.side] = @ - 1],
                                 s.collateral - Proceeds([s.q EXCEPT ![m.side] = @ - 1], m.side),
                                 s.resolved, s.winner, s.paid)
         /\ m.kind = "settle" =>
              After(s, m) = Pool([x \in Side |-> s.q[x] + NetUnits(m.ids, x)],
                                 s.collateral + NetCash(m.ids), s.resolved, s.winner, s.paid)
         /\ m.kind = "resolve" => After(s, m) = Pool(s.q, s.collateral, TRUE, m.side, s.paid)
         /\ m.kind = "redeem" =>
              After(s, m) = Pool(s.q, s.collateral - m.sats, s.resolved, s.winner, s.paid)
         /\ m.kind = "payout" =>
              After(s, m) = Pool(s.q, s.collateral - Total(m.winners), s.resolved, s.winner, TRUE)
<1> DEFINE q == s.q
           collateral == s.collateral
           resolved == s.resolved
           winner == s.winner
           paid == s.paid
<1>1. s = [q |-> q, collateral |-> collateral, resolved |-> resolved, winner |-> winner, paid |-> paid]
  BY DEF IsPool
<1>2. CASE m.kind = "buy"
  BY <1>1, <1>2 DEF After, Bought, Pool
<1>3. CASE m.kind = "sell"
  BY <1>1, <1>3 DEF After, Sold, Pool
<1>4. CASE m.kind = "settle"
  BY <1>1, <1>4 DEF After, Settled, Pool
<1>5. CASE m.kind = "resolve"
  BY <1>1, <1>5 DEF After, ResolvedTo, Pool
<1>6. CASE m.kind = "redeem"
  BY <1>1, <1>6 DEF After, Redeemed, Pool
<1>7. CASE m.kind = "payout"
  BY <1>1, <1>7 DEF After, PaidOut, Pool
<1> QED
  BY <1>2, <1>3, <1>4, <1>5, <1>6, <1>7

\* It is one of the six kinds.
LEMMA MoveKinds ==
  ASSUME NEW m, IsSoundMove(m)
  PROVE  /\ \/ m.kind = "buy" \/ m.kind = "sell" \/ m.kind = "settle"
            \/ m.kind = "resolve" \/ m.kind = "redeem" \/ m.kind = "payout"
         /\ m.side \in Side
         /\ m.ids \in SUBSET (1..Len(fills))
         /\ m.kind # "settle" => m.ids = {}
  BY DEF IsSoundMove, IsMove, Kind

\* A pool with its payout flag set.
LEMMA PaidFlag ==
  ASSUME NEW p, NEW q, NEW c, NEW r, NEW w, NEW e,
         p = [q |-> q, collateral |-> c, resolved |-> r, winner |-> w, paid |-> p.paid]
  PROVE  [p EXCEPT !.paid = e] = Pool(q, c, r, w, e)
  BY DEF Pool

\* What the tables keep of a pool.
LEMMA RowOfPool ==
  ASSUME NEW p, NEW q, NEW c, NEW r, NEW w, NEW d, p = Pool(q, c, r, w, d)
  PROVE  Row(p) = Kept(q, c, r, w)
<1>1. p = [q |-> q, collateral |-> c, resolved |-> r, winner |-> w, paid |-> p.paid]
  BY DEF Pool
<1>2. \A e : [p EXCEPT !.paid = e] = Pool(q, c, r, w, e)
  BY <1>1, PaidFlag
<1>3. [p EXCEPT !.paid = FALSE] = Pool(q, c, r, w, FALSE)
  BY <1>2, Zenon
<1> QED
  BY <1>3 DEF Row, Kept

\* A move leaves a pool, with the shares it adds and the resolution it makes.
LEMMA AfterFacts ==
  ASSUME fills \in Seq(FillRow), NEW s, IsPool(s), NEW m, IsSoundMove(m)
  PROVE  /\ IsPool(After(s, m))
         /\ \A x \in Side : After(s, m).q[x] = s.q[x] + Delta(m, x)
         /\ After(s, m).resolved = (s.resolved \/ m.kind = "resolve")
         /\ After(s, m).winner = IF m.kind = "resolve" THEN m.side ELSE s.winner
<1> DEFINE Fact(t) ==
             /\ IsPool(t)
             /\ \A x \in Side : t.q[x] = s.q[x] + Delta(m, x)
             /\ t.resolved = (s.resolved \/ m.kind = "resolve")
             /\ t.winner = IF m.kind = "resolve" THEN m.side ELSE s.winner
<1>1. s.q \in [Side -> Int] /\ s.resolved \in BOOLEAN /\ s.winner \in Side /\ s.paid \in BOOLEAN
  BY DEF IsPool
<1>2. \A x \in Side : NetUnits(m.ids, x) \in Int
  BY MoveKinds, NetType
<1>3. m.kind # "settle" => \A x \in Side : NetUnits(m.ids, x) = 0
  BY MoveKinds, CountEmpty
<1>4. CASE m.kind = "buy"
  <2> DEFINE q == [s.q EXCEPT ![m.side] = @ + 1]
  <2>1. q \in [Side -> Int]
    BY <1>1, MoveKinds
  <2>2. \A x \in Side : q[x] = s.q[x] + Delta(m, x)
    BY <1>1, <1>3, <1>4, MoveKinds DEF Delta
  <2>3. After(s, m) = Pool(q, s.collateral + m.sats, s.resolved, s.winner, s.paid)
    BY <1>4, AfterFields
  <2> HIDE DEF q
  <2> QED
    BY <1>1, <1>4, <2>1, <2>2, <2>3 DEF Pool, IsPool
<1>5. CASE m.kind = "sell"
  <2> DEFINE q == [s.q EXCEPT ![m.side] = @ - 1]
  <2>1. q \in [Side -> Int]
    BY <1>1, MoveKinds
  <2>2. \A x \in Side : q[x] = s.q[x] + Delta(m, x)
    BY <1>1, <1>3, <1>5, MoveKinds DEF Delta
  <2>3. After(s, m) = Pool(q, s.collateral - Proceeds(q, m.side), s.resolved, s.winner, s.paid)
    BY <1>5, AfterFields
  <2> HIDE DEF q
  <2> QED
    BY <1>1, <1>5, <2>1, <2>2, <2>3 DEF Pool, IsPool
<1>6. CASE m.kind = "settle"
  <2> DEFINE q == [x \in Side |-> s.q[x] + NetUnits(m.ids, x)]
  <2>1. q \in [Side -> Int]
    BY <1>1, <1>2
  <2>2. \A x \in Side : q[x] = s.q[x] + Delta(m, x)
    BY <1>1, <1>2, <1>6 DEF Delta
  <2>3. After(s, m) = Pool(q, s.collateral + NetCash(m.ids), s.resolved, s.winner, s.paid)
    BY <1>6, AfterFields
  <2> HIDE DEF q
  <2> QED
    BY <1>1, <1>6, <2>1, <2>2, <2>3 DEF Pool, IsPool
<1>7. m.kind \in {"resolve", "redeem", "payout"} => \A x \in Side : s.q[x] = s.q[x] + Delta(m, x)
  BY <1>1, <1>3 DEF Delta
<1>8. CASE m.kind = "resolve"
  <2>1. After(s, m) = Pool(s.q, s.collateral, TRUE, m.side, s.paid)
    BY <1>8, AfterFields
  <2>2. m.side \in Side
    BY MoveKinds
  <2>3. \A x \in Side : s.q[x] = s.q[x] + Delta(m, x)
    BY <1>7, <1>8
  <2>4. /\ IsPool(After(s, m)) /\ After(s, m).q = s.q
        /\ After(s, m).resolved = TRUE /\ After(s, m).winner = m.side
    BY <1>1, <2>1, <2>2 DEF Pool, IsPool
  <2> QED
    BY <1>1, <1>8, <2>3, <2>4
<1>9. CASE m.kind = "redeem"
  <2>1. After(s, m) = Pool(s.q, s.collateral - m.sats, s.resolved, s.winner, s.paid)
    BY <1>9, AfterFields
  <2> QED
    BY <1>1, <1>7, <1>9, <2>1, MoveKinds DEF Pool, IsPool
<1>10. CASE m.kind = "payout"
  <2>1. After(s, m) = Pool(s.q, s.collateral - Total(m.winners), s.resolved, s.winner, TRUE)
    BY <1>10, AfterFields
  <2> QED
    BY <1>1, <1>7, <1>10, <2>1, MoveKinds DEF Pool, IsPool
<1> QED
  BY <1>4, <1>5, <1>6, <1>8, <1>9, <1>10, MoveKinds

\* What the tables keep of a move's pool depends on what they keep of the pool before it.
LEMMA RowAfter ==
  ASSUME NEW s, IsPool(s), NEW m, IsSoundMove(m)
  PROVE  Row(After(Row(s), m)) = Row(After(s, m))
<1>1. s = Pool(s.q, s.collateral, s.resolved, s.winner, s.paid)
  BY DEF IsPool, Pool
<1>2. s.q \in [Side -> Int] /\ s.resolved \in BOOLEAN /\ s.winner \in Side /\ s.paid \in BOOLEAN
  BY DEF IsPool
<1>3. Row(s) = Kept(s.q, s.collateral, s.resolved, s.winner)
  BY <1>1, RowOfPool
<1> DEFINE r == Row(s)
<1>4. /\ r = Kept(s.q, s.collateral, s.resolved, s.winner)
      /\ IsPool(r) /\ r.q = s.q /\ r.collateral = s.collateral
      /\ r.resolved = s.resolved /\ r.winner = s.winner /\ r.paid = FALSE
  BY <1>2, <1>3 DEF Pool, Kept, IsPool
<1> HIDE DEF r
<1>5. CASE m.kind = "buy"
  <2> DEFINE q == [s.q EXCEPT ![m.side] = @ + 1]
             c == s.collateral + m.sats
  <2>1. After(s, m) = Pool(q, c, s.resolved, s.winner, s.paid)
    BY <1>5, AfterFields
  <2>2. After(r, m) = Pool(q, c, s.resolved, s.winner, r.paid)
    BY <1>4, <1>5, AfterFields
  <2> HIDE DEF q, c
  <2>3. Row(After(s, m)) = Kept(q, c, s.resolved, s.winner)
    BY <2>1, RowOfPool
  <2>4. Row(After(r, m)) = Kept(q, c, s.resolved, s.winner)
    BY <2>2, RowOfPool
  <2> QED
    BY <2>3, <2>4 DEF r
<1>6. CASE m.kind = "sell"
  <2> DEFINE q == [s.q EXCEPT ![m.side] = @ - 1]
             c == s.collateral - Proceeds([s.q EXCEPT ![m.side] = @ - 1], m.side)
  <2>1. After(s, m) = Pool(q, c, s.resolved, s.winner, s.paid)
    BY <1>6, AfterFields
  <2>2. After(r, m) = Pool(q, c, s.resolved, s.winner, r.paid)
    BY <1>4, <1>6, AfterFields
  <2> HIDE DEF q, c
  <2>3. Row(After(s, m)) = Kept(q, c, s.resolved, s.winner)
    BY <2>1, RowOfPool
  <2>4. Row(After(r, m)) = Kept(q, c, s.resolved, s.winner)
    BY <2>2, RowOfPool
  <2> QED
    BY <2>3, <2>4 DEF r
<1>7. CASE m.kind = "settle"
  <2> DEFINE q == [x \in Side |-> s.q[x] + NetUnits(m.ids, x)]
             c == s.collateral + NetCash(m.ids)
  <2>1. After(s, m) = Pool(q, c, s.resolved, s.winner, s.paid)
    BY <1>7, AfterFields
  <2>2. After(r, m) = Pool(q, c, s.resolved, s.winner, r.paid)
    BY <1>4, <1>7, AfterFields
  <2> HIDE DEF q, c
  <2>3. Row(After(s, m)) = Kept(q, c, s.resolved, s.winner)
    BY <2>1, RowOfPool
  <2>4. Row(After(r, m)) = Kept(q, c, s.resolved, s.winner)
    BY <2>2, RowOfPool
  <2> QED
    BY <2>3, <2>4 DEF r
<1>8. CASE m.kind = "resolve"
  <2> DEFINE q == s.q
             c == s.collateral
             true == TRUE
  <2>1. After(s, m) = Pool(q, c, true, m.side, s.paid)
    BY <1>8, AfterFields
  <2>2. After(r, m) = Pool(q, c, true, m.side, r.paid)
    BY <1>4, <1>8, AfterFields
  <2> HIDE DEF q, c, true
  <2>3. Row(After(s, m)) = Kept(q, c, true, m.side)
    BY <2>1, RowOfPool
  <2>4. Row(After(r, m)) = Kept(q, c, true, m.side)
    BY <2>2, RowOfPool
  <2> QED
    BY <2>3, <2>4 DEF r
<1>9. CASE m.kind = "redeem"
  <2> DEFINE q == s.q
             c == s.collateral - m.sats
  <2>1. After(s, m) = Pool(q, c, s.resolved, s.winner, s.paid)
    BY <1>9, AfterFields
  <2>2. After(r, m) = Pool(q, c, s.resolved, s.winner, r.paid)
    BY <1>4, <1>9, AfterFields
  <2> HIDE DEF q, c
  <2>3. Row(After(s, m)) = Kept(q, c, s.resolved, s.winner)
    BY <2>1, RowOfPool
  <2>4. Row(After(r, m)) = Kept(q, c, s.resolved, s.winner)
    BY <2>2, RowOfPool
  <2> QED
    BY <2>3, <2>4 DEF r
<1>10. CASE m.kind = "payout"
  <2> DEFINE q == s.q
             c == s.collateral - Total(m.winners)
             true == TRUE
  <2>1. After(s, m) = Pool(q, c, s.resolved, s.winner, true)
    BY <1>10, AfterFields
  <2>2. After(r, m) = Pool(q, c, s.resolved, s.winner, true)
    BY <1>4, <1>10, AfterFields
  <2> HIDE DEF q, c, true
  <2>3. Row(After(s, m)) = Kept(q, c, s.resolved, s.winner)
    BY <2>1, RowOfPool
  <2>4. Row(After(r, m)) = Kept(q, c, s.resolved, s.winner)
    BY <2>2, RowOfPool
  <2> QED
    BY <2>3, <2>4 DEF r
<1> QED
  BY <1>5, <1>6, <1>7, <1>8, <1>9, <1>10, MoveKinds

\* New fills change no move that is already planned.
LEMMA AfterStays ==
  ASSUME fills \in Seq(FillRow), FillsKept
  PROVE  \A s, m : m.ids \subseteq 1..Len(fills) => After(s, m)' = After(s, m)
<1> SUFFICES ASSUME NEW s, NEW m, m.ids \subseteq 1..Len(fills)
             PROVE  After(s, m)' = After(s, m)
  OBVIOUS
<1>1. \A i \in m.ids : fills'[i] = fills[i]
  BY FillsStay
<1>2. (\A x : NetUnits(m.ids, x)' = NetUnits(m.ids, x)) /\ NetCash(m.ids)' = NetCash(m.ids)
  <2>1. \A i \in m.ids : fills'[i].side = fills[i].side /\ fills'[i].action = fills[i].action
    BY <1>1
  <2> QED
    BY <2>1, CountStays
<1>3. Settled(s, m)' = Settled(s, m)
  BY <1>2 DEF Settled
<1> QED
  BY <1>3 DEF After, Bought, Sold, ResolvedTo, Redeemed, PaidOut

-----------------------------------------------------------------------------
(* What a step is *)

\* The operator parks a plan over the recorded pool.
Parks(move) ==
  /\ call = None /\ plan = None
  /\ plan' = PlanOf(move)
  /\ IsSoundMove(move) /\ move.ids \subseteq Unsettled
  /\ move.kind \in {"redeem", "payout"} <=> CurrentPool.state.resolved
  /\ move.kind # "payout" => move.winners = {}
  /\ move.kind = "payout" =>
       payouts = {} /\ move.winners = WinningPayouts(CurrentPool.state.winner)
  /\ move.kind = "redeem" => token = 0
  /\ UNCHANGED <<onChain, engine, tables, call, fills>>

\* A step that concerns the bond and the signatures alone.
Aside == UNCHANGED <<onChain, engine, tables, plan, call, fills>>

\* The recorded pool is one, and its transaction is on the chain.
LEMMA Current ==
  ASSUME Lists
  PROVE  /\ Len(pools) \in 1..Len(pools) /\ Len(pools) \in Nat /\ Len(chain) \in Nat
         /\ IsPool(CurrentPool.state)
         /\ CurrentPool.tx \in 1..Len(chain)
         /\ IsPool(chain[CurrentPool.tx].state)
         /\ CurrentPool.state.resolved \in BOOLEAN /\ CurrentPool.state.winner \in Side
<1>1. Len(pools) \in 1..Len(pools) /\ Len(pools) \in Nat
  BY DEF Lists
<1>2. IsPool(CurrentPool.state) /\ CurrentPool.tx \in 1..Len(chain)
  BY <1>1 DEF Lists, CurrentPool
<1>3. IsPool(chain[CurrentPool.tx].state)
  BY <1>2 DEF Lists
<1>4. Len(chain) \in Nat
  BY AppendList DEF Lists
<1> QED
  BY <1>1, <1>2, <1>3, <1>4 DEF IsPool

\* Every enqueue handler parks a plan of its own kind.
LEMMA EnqueueParks ==
  ASSUME Lists,
         \/ \E s \in DirectSides : EnqueueBuy(s) \/ EnqueueSell(s)
         \/ \E s \in Side : EnqueueResolve(s) \/ EnqueueRedeem(s)
         \/ EnqueueSettle
         \/ EnqueuePayout
  PROVE  Aside \/ \E move : Parks(move)
<1>1. CurrentPool.state.resolved \in BOOLEAN
  BY Current
<1>2. Unsettled \subseteq 1..Len(fills)
  BY DEF Unsettled
<1>3. ASSUME NEW s \in DirectSides, EnqueueBuy(s)
      PROVE  \E move : Parks(move)
  <2> DEFINE sats == Charge(Bought(CurrentPool.state, Move("buy", s, 0, {}, {})).q, s)
  <2>1. s \in Side
    BY SidesAssumption DEF Side
  <2>2. [Move("buy", s, 0, {}, {}) EXCEPT !.sats = sats] = Move("buy", s, sats, {}, {})
    BY DEF Move
  <2>3. /\ Park(Move("buy", s, sats, {}, {}))
        /\ ~CurrentPool.state.resolved
        /\ UNCHANGED <<onChain, engine, tables, call, fills>>
    BY <1>3, <2>2 DEF EnqueueBuy, Tradable
  <2> HIDE DEF sats
  <2>4. Parks(Move("buy", s, sats, {}, {}))
    BY <2>1, <2>3 DEF Parks, Park, Idle, IsSoundMove, IsMove, Move, Kind
  <2> QED
    BY <2>4
<1>4. ASSUME NEW s \in DirectSides, EnqueueSell(s)
      PROVE  \E move : Parks(move)
  <2>1. s \in Side
    BY SidesAssumption DEF Side
  <2>2. Parks(Move("sell", s, 0, {}, {}))
    BY <1>4, <2>1 DEF EnqueueSell, Tradable, Parks, Park, Idle, IsSoundMove, IsMove, Move, Kind
  <2> QED
    BY <2>2
<1>5. ASSUME NEW s \in Side, EnqueueResolve(s)
      PROVE  \E move : Parks(move)
  <2>1. Parks(Move("resolve", s, 0, {}, {}))
    BY <1>5 DEF EnqueueResolve, Tradable, Parks, Park, Idle, IsSoundMove, IsMove, Move, Kind
  <2> QED
    BY <2>1
<1>6. CASE EnqueueSettle
  <2>1. CASE Park(Move("settle", "no", 0, Unsettled, {}))
    <3>1. Parks(Move("settle", "no", 0, Unsettled, {}))
      BY <1>2, <1>6, <2>1
         DEF EnqueueSettle, Tradable, Parks, Park, Idle, IsSoundMove, IsMove, Move, Kind, Side
    <3> QED
      BY <3>1
  <2>2. CASE plan # None /\ UNCHANGED <<plan, built>>
    BY <1>6, <2>2 DEF EnqueueSettle, Aside
  <2> QED
    BY <1>6, <2>1, <2>2 DEF EnqueueSettle
<1>7. ASSUME NEW s \in Side, EnqueueRedeem(s)
      PROVE  \E move : Parks(move)
  <2>1. token = 0
    BY <1>7 DEF EnqueueRedeem, NamedToken
  <2>2. Parks(Move("redeem", s, PayoutUnit, {}, {}))
    BY <1>7, <2>1 DEF EnqueueRedeem, Parks, Park, Idle, IsSoundMove, IsMove, Move, Kind
  <2> QED
    BY <2>2
<1>8. CASE EnqueuePayout
  <2> DEFINE winners == WinningPayouts(CurrentPool.state.winner)
  <2>1. /\ Park(Move("payout", "no", 0, {}, winners))
        /\ CurrentPool.state.resolved /\ payouts = {}
        /\ UNCHANGED <<onChain, engine, tables, call, fills>>
    BY <1>8 DEF EnqueuePayout
  <2>2. winners = WinningPayouts(CurrentPool.state.winner)
    OBVIOUS
  <2> HIDE DEF winners
  <2>3. Parks(Move("payout", "no", 0, {}, winners))
    BY <2>1, <2>2 DEF Parks, Park, Idle, IsSoundMove, IsMove, Move, Kind, Side
  <2> QED
    BY <2>3
<1> QED
  BY <1>3, <1>4, <1>5, <1>6, <1>7, <1>8

\* Any step parks a plan, concerns the bond alone, or is one of the other actions.
LEMMA StepCases ==
  ASSUME Lists, [Next]_vars
  PROVE  \/ \E move : Parks(move)
         \/ Aside
         \/ \E t \in Traders, s \in Side, a \in Action : Fill(t, s, a)
         \/ Reject \/ Authorize \/ Refuse
         \/ \E t \in air : Accept(t)
         \/ Complete \/ Fail \/ OtherMarketFails \/ Restart
<1>1. Slash => Aside
  BY DEF Slash, Aside
<1>2. Withdraw => Aside
  BY DEF Withdraw, Aside
<1>3. UNCHANGED vars => Aside
  BY DEF vars, onChain, engine, tables, Aside
<1> QED
  BY <1>1, <1>2, <1>3, EnqueueParks DEF Next

-----------------------------------------------------------------------------
(* What the steps do *)

\* The plan, as it is.
LEMMA PlanFacts ==
  ASSUME Lists, PlanCurrent, plan # None
  PROVE  /\ IsSoundMove(plan.move)
         /\ plan.effect = Row(After(CurrentPool.state, plan.move))
         /\ IsPool(plan.effect)
         /\ \A x \in Side : plan.effect.q[x] = CurrentPool.state.q[x] + Delta(plan.move, x)
         /\ plan.effect.resolved = (CurrentPool.state.resolved \/ plan.move.kind = "resolve")
         /\ plan.effect.winner =
              IF plan.move.kind = "resolve" THEN plan.move.side ELSE CurrentPool.state.winner
<1>1. IsSoundMove(plan.move)
  BY DEF PlanCurrent, IsSoundMove
<1>2. plan.effect = Row(After(CurrentPool.state, plan.move))
  BY DEF PlanCurrent, Expected
<1> DEFINE s == After(CurrentPool.state, plan.move)
<1>3. /\ IsPool(s)
      /\ \A x \in Side : s.q[x] = CurrentPool.state.q[x] + Delta(plan.move, x)
      /\ s.resolved = (CurrentPool.state.resolved \/ plan.move.kind = "resolve")
      /\ s.winner = IF plan.move.kind = "resolve" THEN plan.move.side ELSE CurrentPool.state.winner
  <2>1. fills \in Seq(FillRow) /\ IsPool(CurrentPool.state)
    BY Current DEF Lists
  <2> QED
    BY <1>1, <2>1, AfterFacts
<1>4. plan.effect = Row(s)
  BY <1>2
<1> HIDE DEF s
<1>5. /\ s = Pool(s.q, s.collateral, s.resolved, s.winner, s.paid)
      /\ s.q \in [Side -> Int] /\ s.resolved \in BOOLEAN /\ s.winner \in Side
  BY <1>3 DEF IsPool, Pool
<1>6. plan.effect = Kept(s.q, s.collateral, s.resolved, s.winner)
  BY <1>4, <1>5, RowOfPool
<1>7. /\ IsPool(plan.effect) /\ plan.effect.q = s.q
      /\ plan.effect.resolved = s.resolved /\ plan.effect.winner = s.winner
  BY <1>5, <1>6 DEF Kept, Pool, IsPool
<1> QED
  BY <1>1, <1>2, <1>3, <1>7

\* A fill adds a row, of the open pool.
LEMMA FillFacts ==
  ASSUME Lists, NEW t \in Traders, NEW s \in Side, NEW a \in Action, Fill(t, s, a)
  PROVE  /\ FillsKept
         /\ ~CurrentPool.state.resolved
         /\ Len(fills') = Len(fills) + 1 /\ fills'[Len(fills) + 1].batch = 0
         /\ UNCHANGED <<onChain, engine, tables, plan, call, attested>>
<1> DEFINE f == [trader |-> t, side |-> s, action |-> a, batch |-> 0]
<1>1. f \in FillRow /\ f.batch = 0
  BY DEF FillRow
<1>2. fills' = Append(fills, f)
  BY DEF Fill
<1> HIDE DEF f
<1>3. Len(fills') = Len(fills) + 1 /\ fills'[Len(fills) + 1] = f
  BY <1>1, <1>2, AppendProperties DEF Lists
<1> QED
  BY <1>1, <1>2, <1>3 DEF FillsKept, Fill, Tradable

\* The call spends the recorded pool.
LEMMA AuthorizeFacts ==
  ASSUME Lists, Copies, PlanCurrent, Authorize
  PROVE  /\ plan # None /\ LivePool = CurrentPool.tx /\ warm' = CurrentPool.tx
         /\ call' = [kind |-> "call", sent |-> call'.sent, tx |-> 0]
         /\ air' = air \cup {call'.sent}
         /\ call'.sent.move = plan.move
         /\ call'.sent.state = After(chain[CurrentPool.tx].state, plan.move)
         /\ IsPool(call'.sent.state)
         /\ UNCHANGED <<chain, token, tables, plan, fills, attested>>
<1>1. plan # None
  BY DEF Authorize
<1>2. LivePool = CurrentPool.tx
  BY <1>1 DEF LivePool, Copies, PlanCurrent
<1> DEFINE sent == [move |-> plan.move, spends |-> LivePool,
                    state |-> After(chain[LivePool].state, plan.move)]
<1>3. /\ air' = air \cup {sent}
      /\ call' = [kind |-> "call", sent |-> sent, tx |-> 0]
      /\ warm' = LivePool
      /\ UNCHANGED <<chain, token, tables, plan, fills, attested>>
  BY DEF Authorize
<1>4. /\ sent.move = plan.move
      /\ sent.state = After(chain[CurrentPool.tx].state, plan.move)
  BY <1>2
<1>5. IsPool(After(chain[CurrentPool.tx].state, plan.move))
  <2>1. fills \in Seq(FillRow) /\ IsPool(chain[CurrentPool.tx].state)
    BY Current DEF Lists
  <2>2. IsSoundMove(plan.move)
    BY <1>1, PlanFacts
  <2> QED
    BY <2>1, <2>2, AfterFacts
<1> HIDE DEF sent
<1>6. call'.sent = sent
  BY <1>3
<1> QED
  BY <1>1, <1>2, <1>3, <1>4, <1>5, <1>6

\* The chain grows by what was in the air.
LEMMA AcceptFacts ==
  ASSUME Lists, NEW t \in air, Accept(t)
  PROVE  /\ IsList(chain') /\ Len(chain) \in Nat /\ Len(chain') = Len(chain) + 1
         /\ \A i \in 1..Len(chain) : i \in 1..Len(chain') /\ chain'[i] = chain[i]
         /\ chain'[Len(chain) + 1] = t
         /\ IsPool(t.state)
         /\ air' \subseteq air
         /\ UNCHANGED <<engine, tables, plan, fills, attested>>
<1>1. /\ chain' = Append(chain, t)
      /\ air' \subseteq air
      /\ UNCHANGED <<engine, tables, plan, fills, attested>>
  BY DEF Accept
<1>2. /\ IsList(Append(chain, t)) /\ Len(chain) \in Nat /\ Len(Append(chain, t)) = Len(chain) + 1
      /\ \A i \in 1..Len(chain) : Append(chain, t)[i] = chain[i]
      /\ Append(chain, t)[Len(chain) + 1] = t
  BY AppendList DEF Lists
<1>3. IsPool(t.state)
  BY DEF Lists
<1> QED
  BY <1>1, <1>2, <1>3

\* The answer records a new version, and stamps the batch.
LEMMA CompleteFacts ==
  ASSUME Lists, PlanCurrent, CallCurrent, Complete
  PROVE  /\ plan # None /\ plan' = None /\ call' = None
         /\ call.tx \in 1..Len(chain) /\ chain[call.tx] = call.sent
         /\ warm' = call.tx
         /\ IsList(pools') /\ Len(pools') = Len(pools) + 1
         /\ \A v \in 1..Len(pools) : v \in 1..Len(pools') /\ pools'[v] = pools[v]
         /\ pools'[Len(pools) + 1].tx = call.tx /\ pools'[Len(pools) + 1].state = plan.effect
         /\ CurrentPool'.tx = call.tx /\ CurrentPool'.state = plan.effect
         /\ fills' \in Seq(FillRow) /\ Len(fills') = Len(fills)
         /\ \A i \in 1..Len(fills) :
              /\ fills'[i].trader = fills[i].trader
              /\ fills'[i].side = fills[i].side /\ fills'[i].action = fills[i].action
              /\ fills'[i].batch = IF i \in plan.move.ids THEN Len(pools) ELSE fills[i].batch
         /\ UNCHANGED <<onChain, attested>>
<1>1. /\ plan # None /\ call # None /\ call.tx # 0 /\ plan' = None /\ call' = None
      /\ warm' = call.tx /\ UNCHANGED <<onChain, attested>>
      /\ pools' = Append(pools, [tx |-> call.tx, state |-> plan.effect])
  BY DEF Complete, CallCurrent
<1>2. call.tx \in 1..Len(chain) /\ chain[call.tx] = call.sent
  <2>1. call.tx \in 0..Len(chain) /\ call.tx # 0 /\ chain[call.tx] = call.sent
    BY <1>1 DEF CallCurrent
  <2>2. Len(chain) \in Nat
    BY Current
  <2> QED
    BY <2>1, <2>2
<1> DEFINE r == [tx |-> call.tx, state |-> plan.effect]
<1>3. r.tx = call.tx /\ r.state = plan.effect /\ pools' = Append(pools, r)
  BY <1>1
<1> HIDE DEF r
<1>4. /\ Len(pools) \in Nat /\ IsList(pools') /\ Len(pools') = Len(pools) + 1
      /\ \A v \in 1..Len(pools) : pools'[v] = pools[v]
      /\ pools'[Len(pools) + 1] = r
  BY <1>3, AppendList DEF Lists
<1>5. \A v \in 1..Len(pools) : v \in 1..Len(pools')
  BY <1>4
<1>6. CurrentPool' = r
  BY <1>4 DEF CurrentPool
<1>7. /\ fills' \in Seq(FillRow) /\ Len(fills') = Len(fills)
      /\ \A i \in 1..Len(fills) :
           /\ fills'[i].trader = fills[i].trader
           /\ fills'[i].side = fills[i].side /\ fills'[i].action = fills[i].action
           /\ fills'[i].batch = IF i \in plan.move.ids THEN Len(pools) ELSE fills[i].batch
  <2>1. Len(fills) \in Nat /\ \A i \in 1..Len(fills) : fills[i] \in FillRow
    BY LenProperties, ElementOfSeq DEF Lists
  <2>2. \A i \in plan.move.ids : i \in 1..Len(fills) /\ fills[i].batch = 0
    BY <1>1 DEF PlanCurrent, Unsettled
  <2>3. fills' = [i \in 1..Len(fills) |->
                    IF i \in plan.move.ids /\ fills[i].batch = 0
                    THEN [fills[i] EXCEPT !.batch = Len(pools)] ELSE fills[i]]
    BY DEF Complete
  <2>4. \A f \in FillRow :
          LET g == [f EXCEPT !.batch = Len(pools)]
          IN  g \in FillRow /\ g.trader = f.trader /\ g.side = f.side /\ g.action = f.action
              /\ g.batch = Len(pools)
    BY <1>4 DEF FillRow
  <2>5. \A i \in 1..Len(fills) :
           /\ fills'[i] \in FillRow
           /\ fills'[i].trader = fills[i].trader
           /\ fills'[i].side = fills[i].side /\ fills'[i].action = fills[i].action
           /\ fills'[i].batch = IF i \in plan.move.ids THEN Len(pools) ELSE fills[i].batch
    BY <2>1, <2>2, <2>3, <2>4
  <2>6. fills' \in [1..Len(fills) -> FillRow]
    BY <2>3, <2>5
  <2>7. fills' \in Seq(FillRow) /\ Len(fills') = Len(fills)
    BY <2>1, <2>6
  <2> QED
    BY <2>5, <2>7
<1> QED
  BY <1>1, <1>2, <1>3, <1>4, <1>5, <1>6, <1>7

\* The trades rows stay counts.
LEMMA TradesType ==
  ASSUME Lists, PlanCurrent, CallCurrent, Complete
  PROVE  /\ trades' \in [Side -> [Action -> Int]]
         /\ \A x \in Side, a \in Action :
              trades'[x][a] = trades[x][a] + (IF plan.move.kind = a /\ plan.move.side = x THEN 1 ELSE 0)
                                           + Count(plan.move.ids, x, a)
<1>1. plan # None /\ plan.move.ids \in SUBSET (1..Len(fills)) /\ fills \in Seq(FillRow)
  BY CompleteFacts DEF PlanCurrent, IsMove, Lists
<1>2. \A x \in Side, a \in Action : Count(plan.move.ids, x, a) \in Int
  <2> TAKE x \in Side, a \in Action
  <2>1. Count(plan.move.ids, x, a) \in Nat
    BY <1>1, CountType, Zenon
  <2> QED
    BY <2>1
<1>3. \A x \in Side, a \in Action : trades[x][a] \in Int
  BY DEF Lists
<1>4. trades' = [x \in Side |-> [a \in Action |->
                   trades[x][a] + (IF plan.move.kind = a /\ plan.move.side = x THEN 1 ELSE 0)
                                + Count(plan.move.ids, x, a)]]
  BY DEF Complete, TradeRows
<1> QED
  BY <1>2, <1>3, <1>4

-----------------------------------------------------------------------------
(* The invariant of the plans *)

\* Every step keeps lists lists.
LEMMA ListsStep == Lists /\ Copies /\ PlanCurrent /\ CallCurrent /\ [Next]_vars => Lists'
<1> SUFFICES ASSUME Lists, Copies, PlanCurrent, CallCurrent, [Next]_vars
             PROVE  Lists'
  OBVIOUS
<1>1. ASSUME NEW move, Parks(move)
      PROVE  Lists'
  BY <1>1 DEF Parks, Lists, onChain, engine, tables, IsList, IsPool
<1>2. CASE Aside
  BY <1>2 DEF Aside, Lists, onChain, engine, tables, IsList, IsPool
<1>3. ASSUME NEW t \in Traders, NEW s \in Side, NEW a \in Action, Fill(t, s, a)
      PROVE  Lists'
  <2>1. FillsKept /\ UNCHANGED <<onChain, engine, tables>>
    BY <1>3, FillFacts
  <2>2. fills' \in Seq(FillRow)
    BY <2>1, FillsStay DEF Lists
  <2> QED
    BY <2>1, <2>2 DEF Lists, onChain, engine, tables, IsList, IsPool
<1>4. CASE Reject
  BY <1>4 DEF Reject, Lists, onChain, engine, tables, IsList, IsPool
<1>5. CASE Authorize
  <2>1. /\ air' = air \cup {call'.sent} /\ IsPool(call'.sent.state)
        /\ UNCHANGED <<chain, tables, fills>>
    BY <1>5, AuthorizeFacts
  <2> QED
    BY <2>1 DEF Lists, tables, IsList, IsPool
<1>6. CASE Refuse
  BY <1>6 DEF Refuse, Lists, onChain, tables, IsList, IsPool
<1>7. ASSUME NEW t \in air, Accept(t)
      PROVE  Lists'
  <2>1. /\ IsList(chain') /\ Len(chain) \in Nat /\ Len(chain') = Len(chain) + 1
        /\ \A i \in 1..Len(chain) : i \in 1..Len(chain') /\ chain'[i] = chain[i]
        /\ chain'[Len(chain) + 1] = t /\ IsPool(t.state)
        /\ air' \subseteq air
        /\ UNCHANGED <<tables, fills>>
    BY <1>7, AcceptFacts
  <2>2. \A i \in 1..Len(chain') : i \in 1..Len(chain) \/ i = Len(chain) + 1
    BY <2>1
  <2>3. \A i \in 1..Len(chain') : IsPool(chain'[i].state)
    BY <2>1, <2>2 DEF Lists
  <2> QED
    BY <2>1, <2>3 DEF Lists, tables, IsList, IsPool
<1>8. CASE Complete
  <2>1. /\ UNCHANGED onChain /\ fills' \in Seq(FillRow) /\ plan # None
        /\ IsList(pools') /\ Len(pools') = Len(pools) + 1
        /\ \A v \in 1..Len(pools) : pools'[v] = pools[v]
        /\ pools'[Len(pools) + 1].tx = call.tx /\ pools'[Len(pools) + 1].state = plan.effect
        /\ call.tx \in 1..Len(chain)
    BY <1>8, CompleteFacts
  <2>2. IsPool(plan.effect) /\ Len(pools) \in Nat
    BY <2>1, PlanFacts, Current
  <2>3. \A v \in 1..Len(pools') : v \in 1..Len(pools) \/ v = Len(pools) + 1
    BY <2>1, <2>2
  <2>4. \A v \in 1..Len(pools') : pools'[v].tx \in 1..Len(chain) /\ IsPool(pools'[v].state)
    BY <2>1, <2>2, <2>3 DEF Lists
  <2>5. trades' \in [Side -> [Action -> Int]]
    BY <1>8, TradesType
  <2>6. Len(pools') \in Nat \ {0}
    BY <2>1, <2>2
  <2> QED
    BY <2>1, <2>4, <2>5, <2>6 DEF Lists, onChain, IsList, IsPool
<1>9. CASE Fail
  BY <1>9 DEF Fail, Lists, onChain, engine, tables, IsList, IsPool
<1>10. CASE OtherMarketFails
  BY <1>10 DEF OtherMarketFails, Lists, onChain, tables, IsList, IsPool
<1>11. CASE Restart
  BY <1>11 DEF Restart, Lists, onChain, tables, IsList, IsPool
<1> QED
  BY <1>1, <1>2, <1>3, <1>4, <1>5, <1>6, <1>7, <1>8, <1>9, <1>10, <1>11, StepCases

\* A copy is of the recorded pool, through every step.
LEMMA CopiesStep == Lists /\ Copies /\ PlanCurrent /\ CallCurrent /\ [Next]_vars => Copies'
<1> SUFFICES ASSUME Lists, Copies, PlanCurrent, CallCurrent, [Next]_vars
             PROVE  Copies'
  OBVIOUS
<1>1. ASSUME NEW move, Parks(move)
      PROVE  Copies'
  BY <1>1 DEF Parks, Copies, CurrentPool, engine, tables
<1>2. CASE Aside
  BY <1>2 DEF Aside, Copies, CurrentPool, engine, tables
<1>3. ASSUME NEW t \in Traders, NEW s \in Side, NEW a \in Action, Fill(t, s, a)
      PROVE  Copies'
  BY <1>3 DEF Fill, Copies, CurrentPool, engine, tables
<1>4. CASE Reject
  BY <1>4 DEF Reject, Copies, CurrentPool, engine, tables
<1>5. CASE Authorize
  <2>1. warm' = CurrentPool.tx /\ UNCHANGED <<token, tables>>
    BY <1>5, AuthorizeFacts
  <2> QED
    BY <2>1 DEF Copies, CurrentPool, tables
<1>6. CASE Refuse
  BY <1>6 DEF Refuse, Copies, CurrentPool, tables
<1>7. ASSUME NEW t \in air, Accept(t)
      PROVE  Copies'
  BY <1>7 DEF Accept, Copies, CurrentPool, engine, tables
<1>8. CASE Complete
  <2>1. warm' = call.tx /\ CurrentPool'.tx = call.tx
    BY <1>8, CompleteFacts
  <2> QED
    BY <2>1 DEF Copies
<1>9. CASE Fail
  BY <1>9 DEF Fail, Copies, CurrentPool, tables
<1>10. CASE OtherMarketFails
  BY <1>10 DEF OtherMarketFails, Copies, CurrentPool, tables
<1>11. CASE Restart
  BY <1>11 DEF Restart, Copies, CurrentPool, tables
<1> QED
  BY <1>1, <1>2, <1>3, <1>4, <1>5, <1>6, <1>7, <1>8, <1>9, <1>10, <1>11, StepCases

\* A plan stays current while the recorded pool does, whatever is filled.
LEMMA PlanKept ==
  ASSUME Lists, PlanCurrent, FillsKept,
         plan' = plan, pools' = pools, payouts' = payouts, token' = token \/ token' = 0,
         fills' = fills \/ ~CurrentPool.state.resolved
  PROVE  PlanCurrent'
<1> SUFFICES ASSUME plan # None
             PROVE  PlanCurrent'
  BY DEF PlanCurrent
<1>1. IsMove(plan.move)' /\ (plan.move.ids \subseteq Unsettled)'
  <2>1. Len(fills) \in Nat /\ Len(fills') \in Nat /\ Len(fills) <= Len(fills')
        /\ \A i \in 1..Len(fills) : fills'[i] = fills[i]
    BY FillsStay DEF Lists
  <2>2. IsMove(plan.move) /\ plan.move.ids \subseteq Unsettled
    BY DEF PlanCurrent
  <2>3. \A i \in plan.move.ids : i \in 1..Len(fills') /\ fills'[i].batch = 0
    BY <2>1, <2>2 DEF Unsettled
  <2>4. plan.move.ids \subseteq 1..Len(fills')
    BY <2>3
  <2>5. IsMove(plan.move)'
    BY <2>2, <2>4 DEF IsMove
  <2>6. (plan.move.ids \subseteq Unsettled)'
    BY <2>3 DEF Unsettled
  <2> QED
    BY <2>5, <2>6
<1>2. (plan.effect = Expected(CurrentPool.state, plan.move))'
  <2>1. \A s, m : m.ids \subseteq 1..Len(fills) => After(s, m)' = After(s, m)
    BY AfterStays DEF Lists
  <2>2. \A s, m : m.ids \subseteq 1..Len(fills) => Expected(s, m)' = Expected(s, m)
    BY <2>1 DEF Expected, Row
  <2>3. plan.effect = Expected(CurrentPool.state, plan.move) /\ plan.move.ids \subseteq 1..Len(fills)
    BY DEF PlanCurrent, IsMove
  <2>4. CurrentPool' = CurrentPool
    BY DEF CurrentPool
  <2> QED
    BY <2>2, <2>3, <2>4
<1>3. /\ plan.pool = CurrentPool.tx
      /\ plan.move.kind \in {"redeem", "payout"} <=> CurrentPool.state.resolved
      /\ plan.move.kind # "settle" => plan.move.ids = {}
      /\ plan.move.kind # "payout" => plan.move.winners = {}
      /\ plan.move.kind = "redeem" => token = 0
  BY DEF PlanCurrent
<1>4. plan.move.kind = "payout" =>
        payouts = {} /\ (plan.move.winners = WinningPayouts(CurrentPool.state.winner))'
  <2> SUFFICES ASSUME plan.move.kind = "payout"
               PROVE  payouts = {} /\ (plan.move.winners = WinningPayouts(CurrentPool.state.winner))'
    OBVIOUS
  <2>1. fills' = fills
    BY <1>3
  <2>2. payouts = {} /\ plan.move.winners = WinningPayouts(CurrentPool.state.winner)
    BY DEF PlanCurrent
  <2> QED
    BY <2>1, <2>2 DEF WinningPayouts, Holds, NetUnits, Count, CurrentPool
<1> QED
  BY <1>1, <1>2, <1>3, <1>4 DEF PlanCurrent, CurrentPool

\* The plan is current after every step.
LEMMA PlanStep == Lists /\ Copies /\ PlanCurrent /\ CallCurrent /\ [Next]_vars => PlanCurrent'
<1> SUFFICES ASSUME Lists, Copies, PlanCurrent, CallCurrent, [Next]_vars
             PROVE  PlanCurrent'
  OBVIOUS
<1>1. ASSUME NEW move, Parks(move)
      PROVE  PlanCurrent'
  <2>1. /\ UNCHANGED <<fills, pools, payouts, token>>
        /\ plan' = PlanOf(move)
    BY <1>1 DEF Parks, engine, tables
  <2>2. /\ plan'.move = move /\ plan'.pool = CurrentPool.tx
        /\ plan'.effect = Expected(CurrentPool.state, move)
    BY <2>1 DEF PlanOf
  <2>3. \A s, m : m.ids \subseteq 1..Len(fills) => Expected(s, m)' = Expected(s, m)
    <3>1. \A s, m : m.ids \subseteq 1..Len(fills) => After(s, m)' = After(s, m)
      BY <2>1, AfterStays DEF Lists, FillsKept
    <3> QED
      BY <3>1 DEF Expected, Row
  <2>4. move.ids \subseteq 1..Len(fills) /\ move.ids \subseteq Unsettled /\ IsSoundMove(move)
    BY <1>1 DEF Parks, IsSoundMove, IsMove
  <2>5. CurrentPool' = CurrentPool /\ Unsettled' = Unsettled
    BY <2>1 DEF CurrentPool, Unsettled
  <2>6. (plan.effect = Expected(CurrentPool.state, plan.move))'
    BY <2>2, <2>3, <2>4, <2>5
  <2>7. IsMove(plan.move)' /\ (plan.move.kind # "settle" => plan.move.ids = {})'
    BY <2>1, <2>2, <2>4 DEF IsSoundMove, IsMove
  <2>8. WinningPayouts(CurrentPool.state.winner)' = WinningPayouts(CurrentPool.state.winner)
    BY <2>1 DEF WinningPayouts, Holds, NetUnits, Count, CurrentPool
  <2> QED
    BY <1>1, <2>1, <2>2, <2>4, <2>5, <2>6, <2>7, <2>8 DEF PlanCurrent, Parks
<1>2. CASE Aside
  BY <1>2, PlanKept DEF Aside, FillsKept, engine, tables
<1>3. ASSUME NEW t \in Traders, NEW s \in Side, NEW a \in Action, Fill(t, s, a)
      PROVE  PlanCurrent'
  BY <1>3, FillFacts, PlanKept DEF engine, tables
<1>4. CASE Reject
  BY <1>4 DEF Reject, PlanCurrent
<1>5. CASE Authorize
  BY <1>5, AuthorizeFacts, PlanKept DEF FillsKept, tables
<1>6. CASE Refuse
  BY <1>6 DEF Refuse, PlanCurrent
<1>7. ASSUME NEW t \in air, Accept(t)
      PROVE  PlanCurrent'
  BY <1>7, AcceptFacts, PlanKept DEF FillsKept, engine, tables
<1>8. CASE Complete
  BY <1>8 DEF Complete, PlanCurrent
<1>9. CASE Fail
  BY <1>9 DEF Fail, PlanCurrent
<1>10. CASE OtherMarketFails
  BY <1>10, PlanKept DEF OtherMarketFails, FillsKept, tables
<1>11. CASE Restart
  BY <1>11, PlanKept DEF Restart, FillsKept, tables
<1> QED
  BY <1>1, <1>2, <1>3, <1>4, <1>5, <1>6, <1>7, <1>8, <1>9, <1>10, <1>11, StepCases

\* The call in flight stays the plan's own while there is one, whatever the chain accepts.
LEMMA CallKept ==
  ASSUME Lists, PlanCurrent, CallCurrent, FillsKept,
         call' = call, plan' = plan, pools' = pools, token' = token,
         Len(chain') \in Nat, Len(chain) <= Len(chain'),
         \A i \in 1..Len(chain) : chain'[i] = chain[i]
  PROVE  CallCurrent'
<1> SUFFICES ASSUME call # None
             PROVE  CallCurrent'
  BY DEF CallCurrent
<1>1. plan # None /\ plan.move.ids \subseteq 1..Len(fills)
  BY DEF CallCurrent, PlanCurrent, IsMove
<1>2. CurrentPool' = CurrentPool /\ chain'[CurrentPool.tx] = chain[CurrentPool.tx]
  BY Current DEF CurrentPool
<1>3. \A s, m : m.ids \subseteq 1..Len(fills) => After(s, m)' = After(s, m)
  BY AfterStays DEF Lists
<1>4. (call.sent.state = After(chain[CurrentPool.tx].state, plan.move))'
  <2>1. call.sent.state = After(chain[CurrentPool.tx].state, plan.move)
    BY DEF CallCurrent
  <2> QED
    BY <1>1, <1>2, <1>3, <2>1
<1>5. call.tx \in 0..Len(chain') /\ (call.tx # 0 => chain'[call.tx] = call.sent)
  <2>1. call.tx \in 0..Len(chain) /\ (call.tx # 0 => chain[call.tx] = call.sent) /\ Len(chain) \in Nat
    BY Current DEF CallCurrent
  <2> QED
    BY <2>1
<1> QED
  BY <1>1, <1>2, <1>4, <1>5 DEF CallCurrent

\* The call in flight is the plan's own after every step.
LEMMA CallStep == Lists /\ Copies /\ PlanCurrent /\ CallCurrent /\ [Next]_vars => CallCurrent'
<1> SUFFICES ASSUME Lists, Copies, PlanCurrent, CallCurrent, [Next]_vars
             PROVE  CallCurrent'
  OBVIOUS
<1>0. Len(chain) \in Nat
  BY Current
<1>1. ASSUME NEW move, Parks(move)
      PROVE  CallCurrent'
  BY <1>1 DEF Parks, CallCurrent
<1>2. CASE Aside
  BY <1>0, <1>2, CallKept DEF Aside, FillsKept, onChain, engine, tables
<1>3. ASSUME NEW t \in Traders, NEW s \in Side, NEW a \in Action, Fill(t, s, a)
      PROVE  CallCurrent'
  BY <1>0, <1>3, FillFacts, CallKept DEF onChain, engine, tables
<1>4. CASE Reject
  BY <1>4 DEF Reject, Idle, CallCurrent
<1>5. CASE Authorize
  <2>1. /\ plan # None
        /\ call' = [kind |-> "call", sent |-> call'.sent, tx |-> 0]
        /\ call'.sent.move = plan.move
        /\ call'.sent.state = After(chain[CurrentPool.tx].state, plan.move)
        /\ UNCHANGED <<chain, token, pools, plan, fills>>
    BY <1>5, AuthorizeFacts DEF tables
  <2>2. call'.tx = 0 /\ call' = [kind |-> "call", sent |-> call'.sent, tx |-> call'.tx]
    BY <2>1
  <2>3. CurrentPool' = CurrentPool
    BY <2>1 DEF CurrentPool
  <2>4. plan.move.ids \subseteq 1..Len(fills)
    BY <2>1, PlanFacts DEF IsSoundMove, IsMove
  <2>5. \A s, m : m.ids \subseteq 1..Len(fills) => After(s, m)' = After(s, m)
    BY <2>1, AfterStays DEF Lists, FillsKept
  <2>6. (call.sent.state = After(chain[CurrentPool.tx].state, plan.move))'
    BY <2>1, <2>3, <2>4, <2>5
  <2> QED
    BY <1>0, <2>1, <2>2, <2>3, <2>6 DEF CallCurrent
<1>6. CASE Refuse
  BY <1>6 DEF Refuse, Idle, CallCurrent
<1>7. ASSUME NEW t \in air, Accept(t)
      PROVE  CallCurrent'
  <2>1. /\ Len(chain') = Len(chain) + 1
        /\ \A i \in 1..Len(chain) : i \in 1..Len(chain') /\ chain'[i] = chain[i]
        /\ chain'[Len(chain) + 1] = t
        /\ UNCHANGED <<token, pools, plan, fills>>
    BY <1>7, AcceptFacts DEF engine, tables
  <2>2. call' = IF call # None /\ call.sent = t THEN [call EXCEPT !.tx = Len(chain')] ELSE call
    BY <1>7 DEF Accept
  <2>3. CASE ~(call # None /\ call.sent = t)
    <3>1. call' = call
      BY <2>2, <2>3
    <3> QED
      BY <1>0, <2>1, <3>1, CallKept DEF FillsKept
  <2>4. CASE call # None /\ call.sent = t
    <3>1. /\ call' = [kind |-> "call", sent |-> call.sent, tx |-> Len(chain')]
          /\ call'.sent = call.sent /\ call'.tx = Len(chain')
          /\ call' = [kind |-> "call", sent |-> call'.sent, tx |-> call'.tx]
      BY <2>2, <2>4 DEF CallCurrent
    <3>2. /\ plan # None /\ call.sent.move = plan.move
          /\ call.sent.state = After(chain[CurrentPool.tx].state, plan.move)
      BY <2>4 DEF CallCurrent
    <3>3. CurrentPool' = CurrentPool /\ chain'[CurrentPool.tx] = chain[CurrentPool.tx]
      BY <2>1, Current DEF CurrentPool
    <3>4. plan.move.ids \subseteq 1..Len(fills)
      BY <3>2, PlanFacts DEF IsSoundMove, IsMove
    <3>5. \A s, m : m.ids \subseteq 1..Len(fills) => After(s, m)' = After(s, m)
      BY <2>1, AfterStays DEF Lists, FillsKept
    <3>6. (call.sent.state = After(chain[CurrentPool.tx].state, plan.move))'
      BY <2>1, <3>1, <3>2, <3>3, <3>4, <3>5
    <3>7. call'.tx \in 0..Len(chain') /\ chain'[call'.tx] = call'.sent
      BY <1>0, <2>1, <2>4, <3>1
    <3> QED
      BY <2>1, <3>1, <3>2, <3>3, <3>6, <3>7 DEF CallCurrent
  <2> QED
    BY <2>3, <2>4
<1>8. CASE Complete
  BY <1>8 DEF Complete, CallCurrent
<1>9. CASE Fail
  BY <1>9 DEF Fail, CallCurrent
<1>10. CASE OtherMarketFails
  BY <1>0, <1>10, CallKept DEF OtherMarketFails, FillsKept, onChain, tables
<1>11. CASE Restart
  BY <1>11 DEF Restart, CallCurrent
<1> QED
  BY <1>1, <1>2, <1>3, <1>4, <1>5, <1>6, <1>7, <1>8, <1>9, <1>10, <1>11, StepCases

-----------------------------------------------------------------------------
(* The recorded history *)

\* Plans and calls are those of the recorded pool: what every other invariant rests on.
PlanInv == Lists /\ Copies /\ PlanCurrent /\ CallCurrent

\* A step that records nothing.
Quiet ==
  /\ UNCHANGED tables
  /\ fills' = fills \/ (~CurrentPool.state.resolved /\ Len(fills') = Len(fills) + 1
                        /\ fills'[Len(fills) + 1].batch = 0)
  /\ FillsKept
  /\ \A v \in 1..Len(pools) : Recorded(v)' = Recorded(v)

\* Only an answer records.
LEMMA QuietOrComplete ==
  ASSUME PlanInv, [Next]_vars
  PROVE  Quiet \/ Complete
<1> USE DEF PlanInv
<1>1. ASSUME UNCHANGED tables, UNCHANGED fills, UNCHANGED chain
      PROVE  Quiet
  BY <1>1 DEF Quiet, FillsKept, Recorded, tables
<1>2. ASSUME NEW move, Parks(move)
      PROVE  Quiet
  BY <1>1, <1>2 DEF Parks, onChain
<1>3. CASE Aside
  BY <1>1, <1>3 DEF Aside, onChain
<1>4. ASSUME NEW t \in Traders, NEW s \in Side, NEW a \in Action, Fill(t, s, a)
      PROVE  Quiet
  BY <1>4, FillFacts DEF Quiet, Recorded, onChain, tables
<1>5. CASE Reject
  BY <1>1, <1>5 DEF Reject, onChain
<1>6. CASE Authorize
  BY <1>1, <1>6 DEF Authorize
<1>7. CASE Refuse
  BY <1>1, <1>7 DEF Refuse, onChain
<1>8. ASSUME NEW t \in air, Accept(t)
      PROVE  Quiet
  <2>1. /\ \A i \in 1..Len(chain) : chain'[i] = chain[i]
        /\ UNCHANGED <<tables, fills>>
    BY <1>8, AcceptFacts
  <2>2. \A v \in 1..Len(pools) : pools[v].tx \in 1..Len(chain)
    BY DEF Lists
  <2> QED
    BY <2>1, <2>2 DEF Quiet, FillsKept, Recorded, tables
<1>9. CASE Fail
  BY <1>1, <1>9 DEF Fail, onChain
<1>10. CASE OtherMarketFails
  BY <1>1, <1>10 DEF OtherMarketFails, onChain
<1>11. CASE Restart
  BY <1>1, <1>11 DEF Restart, onChain
<1> QED
  BY <1>2, <1>3, <1>4, <1>5, <1>6, <1>7, <1>8, <1>9, <1>10, <1>11, StepCases

\* An answer records the transaction of its call, after the others.
LEMMA CompleteRecords ==
  ASSUME PlanInv, Complete
  PROVE  \E n \in Nat :
           /\ n = Len(pools) + 1 /\ Len(pools) \in Nat \ {0} /\ Len(pools') = n
           /\ \A v \in 1..n : v \in 1..Len(pools) \/ v = n
           /\ \A v \in 1..Len(pools) : v \in 1..n /\ v # n /\ pools'[v] = pools[v] /\ Recorded(v)' = Recorded(v)
           /\ pools'[n].tx = call.tx /\ pools'[n].state = plan.effect
           /\ Recorded(n)' = call.sent
<1> USE DEF PlanInv
<1>1. PICK n \in Nat : n = Len(pools) + 1 /\ Len(pools) \in Nat \ {0}
  BY DEF Lists
<1>2. /\ Len(pools') = n
      /\ \A v \in 1..Len(pools) : pools'[v] = pools[v]
      /\ pools'[n].tx = call.tx /\ pools'[n].state = plan.effect
      /\ chain' = chain /\ chain[call.tx] = call.sent
  BY <1>1, CompleteFacts DEF onChain
<1>3. \A v \in 1..Len(pools) : v \in 1..n /\ v # n
  BY <1>1
<1>4. \A v \in 1..n : v \in 1..Len(pools) \/ v = n
  BY <1>1
<1> QED
  BY <1>1, <1>2, <1>3, <1>4 DEF Recorded

\* The record keeps matching the covenant.
LEMMA RecordStep == PlanInv /\ RecordMatchesCovenant /\ [Next]_vars => RecordMatchesCovenant'
<1> SUFFICES ASSUME PlanInv, RecordMatchesCovenant, [Next]_vars
             PROVE  RecordMatchesCovenant'
  OBVIOUS
<1>1. CASE Quiet
  <2>1. pools' = pools /\ \A v \in 1..Len(pools) : Recorded(v)' = Recorded(v)
    BY <1>1 DEF Quiet, tables
  <2> QED
    BY <2>1 DEF RecordMatchesCovenant, Row
<1>2. CASE Complete
  <2>1. PICK n \in Nat :
           /\ n = Len(pools) + 1 /\ Len(pools) \in Nat \ {0} /\ Len(pools') = n
           /\ \A v \in 1..n : v \in 1..Len(pools) \/ v = n
           /\ \A v \in 1..Len(pools) : v \in 1..n /\ v # n /\ pools'[v] = pools[v] /\ Recorded(v)' = Recorded(v)
           /\ pools'[n].tx = call.tx /\ pools'[n].state = plan.effect
           /\ Recorded(n)' = call.sent
    BY <1>2, CompleteRecords
  <2> SUFFICES ASSUME NEW v \in 1..n
               PROVE  pools'[v].state = Row(Recorded(v)'.state)
    BY <2>1 DEF RecordMatchesCovenant, Row
  <2>2. CASE v \in 1..Len(pools)
    BY <2>1, <2>2 DEF RecordMatchesCovenant
  <2>3. CASE v = n
    <3> DEFINE s == chain[CurrentPool.tx].state
               m == plan.move
    <3>1. CurrentPool.state = Row(s)
      <4>1. Len(pools) \in 1..Len(pools)
        BY <2>1
      <4> QED
        BY <4>1 DEF RecordMatchesCovenant, Recorded, CurrentPool
    <3>2. plan # None /\ call # None
      BY <1>2, CompleteFacts DEF PlanInv, Complete
    <3>3. /\ IsSoundMove(m) /\ plan.effect = Row(After(CurrentPool.state, m))
          /\ call.sent.state = After(s, m)
      BY <3>2, PlanFacts DEF PlanInv, CallCurrent
    <3>4. IsPool(s)
      BY Current DEF PlanInv
    <3> HIDE DEF s, m
    <3>5. Row(After(Row(s), m)) = Row(After(s, m))
      BY <3>3, <3>4, RowAfter
    <3> QED
      BY <2>1, <2>3, <3>1, <3>3, <3>5
  <2> QED
    BY <2>1, <2>2, <2>3
<1> QED
  BY <1>1, <1>2, QuietOrComplete

-----------------------------------------------------------------------------
(* Winners *)

\* What a trader holds does not depend on the batches.
LEMMA HoldsStay ==
  ASSUME Lists, Len(fills') = Len(fills),
         \A i \in 1..Len(fills) : /\ fills'[i].trader = fills[i].trader
                                  /\ fills'[i].side = fills[i].side /\ fills'[i].action = fills[i].action
  PROVE  /\ \A t, s : Holds(t, s)' = Holds(t, s)
         /\ \A w : WinningPayouts(w)' = WinningPayouts(w)
<1>1. \A t, s : Holds(t, s)' = Holds(t, s)
  <2> TAKE t, s
  <2> DEFINE own == {i \in 1..Len(fills) : fills[i].trader = t}
  <2>1. {i \in 1..Len(fills') : fills'[i].trader = t} = own
    OBVIOUS
  <2>2. PICK ids : ids = own
    OBVIOUS
  <2>3. \A i \in ids : fills'[i].side = fills[i].side /\ fills'[i].action = fills[i].action
    BY <2>2
  <2>4. NetUnits(ids, s)' = NetUnits(ids, s)
    BY <2>3, CountStays
  <2>5. Holds(t, s) = NetUnits(ids, s)
    BY <2>2 DEF Holds
  <2>6. Holds(t, s)' = NetUnits(ids, s)'
    BY <2>1, <2>2 DEF Holds
  <2> QED
    BY <2>4, <2>5, <2>6
<1>2. \A w : WinningPayouts(w)' = WinningPayouts(w)
  BY <1>1 DEF WinningPayouts
<1> QED
  BY <1>1, <1>2

\* A position is an integer.
LEMMA HoldsType ==
  ASSUME Lists
  PROVE  \A t, s : Holds(t, s) \in Int
<1> TAKE t, s
<1>1. PICK ids \in SUBSET (1..Len(fills)) : ids = {i \in 1..Len(fills) : fills[i].trader = t}
  OBVIOUS
<1>2. NetUnits(ids, s) \in Int
  BY NetType DEF Lists
<1> QED
  BY <1>1, <1>2 DEF Holds

\* Who is owed something is long.
LEMMA OwedIsLong ==
  ASSUME NEW n \in Int, PayoutUnit * n > 0
  PROVE  n > 0
  BY AmountsAssumption

\* Winners are recorded once, in full, and what they are owed does not change any more.
LEMMA WinnersStep ==
  PlanInv /\ WinnersStand /\ WinnersPaidInFull /\ [Next]_vars => WinnersStand' /\ WinnersPaidInFull'
<1> SUFFICES ASSUME PlanInv, WinnersStand, WinnersPaidInFull, [Next]_vars
             PROVE  WinnersStand' /\ WinnersPaidInFull'
  OBVIOUS
<1>0. \A t, s : Holds(t, s) \in Int
  BY HoldsType DEF PlanInv
<1>1. ASSUME WinnersStand', payouts' # {} => \A t, s : Holds(t, s)' = Holds(t, s),
             payouts' # {} => \E v \in 1..Len(pools') : Recorded(v)'.move.winners = payouts'
      PROVE  WinnersPaidInFull'
  <2> SUFFICES ASSUME payouts' # {}
               PROVE  /\ Outstanding' = {}
                      /\ \A t \in Traders :
                           PayoutUnit * Holds(t, CurrentPool.state.winner)' > 0 =>
                             [trader |-> t, sats |-> PayoutUnit * Holds(t, CurrentPool.state.winner)']
                               \in payouts'
    BY <1>1 DEF WinnersPaidInFull
  <2>1. payouts' = WinningPayouts(CurrentPool.state.winner)'
    BY <1>1 DEF WinnersStand
  <2>2. Outstanding' = {}
    BY <2>1 DEF Outstanding
  <2>3. ASSUME NEW t \in Traders, PayoutUnit * Holds(t, CurrentPool.state.winner)' > 0
        PROVE  [trader |-> t, sats |-> PayoutUnit * Holds(t, CurrentPool.state.winner)'] \in payouts'
    <3>1. Holds(t, CurrentPool.state.winner)' > 0
      <4>1. PICK w : w = CurrentPool'.state.winner
        OBVIOUS
      <4>2. Holds(t, CurrentPool.state.winner)' = Holds(t, w)'
        BY <4>1
      <4>3. Holds(t, w)' \in Int
        BY <1>0, <1>1
      <4> QED
        BY <2>3, <4>2, <4>3, OwedIsLong
    <3> QED
      BY <2>1, <3>1 DEF WinningPayouts
  <2> QED
    BY <2>2, <2>3
<1>2. CASE Quiet
  <2>1. /\ pools' = pools /\ payouts' = payouts
        /\ \A v \in 1..Len(pools) : Recorded(v)' = Recorded(v)
        /\ payouts # {} => fills' = fills
    BY <1>2 DEF Quiet, tables, WinnersStand
  <2>2. payouts # {} => WinningPayouts(CurrentPool.state.winner)' = WinningPayouts(CurrentPool.state.winner)
    BY <2>1 DEF WinningPayouts, Holds, NetUnits, Count, CurrentPool
  <2>3. WinnersStand'
    BY <2>1, <2>2 DEF WinnersStand, CurrentPool
  <2>5. payouts' # {} => \A t, s : Holds(t, s)' = Holds(t, s)
    BY <2>1 DEF Holds, NetUnits, Count
  <2>4. payouts' # {} => \E v \in 1..Len(pools') : Recorded(v)'.move.winners = payouts'
    BY <2>1 DEF WinnersPaidInFull
  <2> QED
    BY <1>1, <2>3, <2>4, <2>5
<1>3. CASE Complete
  <2>1. PICK n \in Nat :
           /\ n = Len(pools) + 1 /\ Len(pools) \in Nat \ {0} /\ Len(pools') = n
           /\ \A v \in 1..n : v \in 1..Len(pools) \/ v = n
           /\ \A v \in 1..Len(pools) : v \in 1..n /\ v # n /\ pools'[v] = pools[v] /\ Recorded(v)' = Recorded(v)
           /\ pools'[n].tx = call.tx /\ pools'[n].state = plan.effect
           /\ Recorded(n)' = call.sent
    BY <1>3, CompleteRecords
  <2>2. /\ plan # None /\ call # None /\ CurrentPool'.state = plan.effect
        /\ Len(fills') = Len(fills)
        /\ \A i \in 1..Len(fills) : /\ fills'[i].trader = fills[i].trader
                                    /\ fills'[i].side = fills[i].side /\ fills'[i].action = fills[i].action
        /\ payouts' = payouts \cup plan.move.winners
    BY <1>3, CompleteFacts DEF PlanInv, Complete
  <2>3. /\ \A t, s : Holds(t, s)' = Holds(t, s)
        /\ \A w : WinningPayouts(w)' = WinningPayouts(w)
    BY <2>2, HoldsStay DEF PlanInv
  <2>4. /\ plan.effect.resolved = (CurrentPool.state.resolved \/ plan.move.kind = "resolve")
        /\ plan.effect.winner = (IF plan.move.kind = "resolve" THEN plan.move.side ELSE CurrentPool.state.winner)
        /\ IsSoundMove(plan.move)
    BY <2>2, PlanFacts DEF PlanInv
  <2>5. /\ plan.move.kind \in {"redeem", "payout"} <=> CurrentPool.state.resolved
        /\ plan.move.kind # "payout" => plan.move.winners = {}
        /\ plan.move.kind = "payout" =>
             payouts = {} /\ plan.move.winners = WinningPayouts(CurrentPool.state.winner)
    BY <2>2 DEF PlanInv, PlanCurrent
  <2>6. call.sent.move.winners = plan.move.winners
    BY <2>2 DEF PlanInv, CallCurrent
  <2>7. CASE plan.move.kind = "payout"
    <3>1. payouts' = plan.move.winners /\ plan.effect.resolved
          /\ plan.effect.winner = CurrentPool.state.winner
      BY <2>2, <2>4, <2>5, <2>7
    <3>2. payouts' = WinningPayouts(CurrentPool'.state.winner)
      BY <2>2, <2>5, <2>7, <3>1
    <3>3. WinningPayouts(CurrentPool.state.winner)' = WinningPayouts(CurrentPool'.state.winner)
      BY <2>3
    <3>4. WinnersStand'
      BY <2>2, <3>1, <3>2, <3>3 DEF WinnersStand
    <3>5. \E v \in 1..Len(pools') : Recorded(v)'.move.winners = payouts'
      BY <2>1, <2>6, <3>1
    <3> QED
      BY <1>1, <2>3, <3>4, <3>5
  <2>8. CASE plan.move.kind # "payout"
    <3>1. payouts' = payouts
      BY <2>2, <2>5, <2>8
    <3>2. payouts # {} => plan.effect.resolved /\ plan.effect.winner = CurrentPool.state.winner
      BY <2>4, <2>5 DEF WinnersStand
    <3>3. WinningPayouts(CurrentPool.state.winner)' = WinningPayouts(CurrentPool'.state.winner)
      BY <2>3
    <3>4. WinnersStand'
      BY <2>2, <3>1, <3>2, <3>3 DEF WinnersStand
    <3>5. payouts' # {} => \E v \in 1..Len(pools') : Recorded(v)'.move.winners = payouts'
      <4> SUFFICES ASSUME payouts # {}
                   PROVE  \E v \in 1..n : Recorded(v)'.move.winners = payouts
        BY <2>1, <3>1
      <4>1. PICK v \in 1..Len(pools) : Recorded(v).move.winners = payouts
        BY DEF WinnersPaidInFull
      <4> QED
        BY <2>1, <4>1
    <3> QED
      BY <1>1, <2>3, <3>4, <3>5
  <2> QED
    BY <2>7, <2>8
<1> QED
  BY <1>2, <1>3, QuietOrComplete

-----------------------------------------------------------------------------
(* Tokens *)

\* But for an answer, the engine keeps its token or forgets it.
LEMMA TokenForgotten ==
  ASSUME [Next]_vars
  PROVE  token' \in {0, token} \/ Complete
BY DEF Next, vars, engine, EnqueueBuy, EnqueueSell, EnqueueResolve, EnqueueRedeem, EnqueueSettle,
       EnqueuePayout, Fill, Reject, Authorize, Refuse, Accept, Fail, OtherMarketFails, Restart,
       Slash, Withdraw

\* The last of a list is what was appended.
LEMMA LastPersisted ==
  ASSUME IsList(tokens), NEW tx, tokens' = Append(tokens, tx)
  PROVE  IsList(tokens') /\ PersistedToken' = tx
<1>1. /\ IsList(tokens') /\ Len(tokens) \in Nat /\ Len(tokens') = Len(tokens) + 1
      /\ tokens'[Len(tokens) + 1] = tx
  BY AppendList
<1>2. tokens' # <<>>
  <2>1. Len(tokens') # 0
    BY <1>1
  <2>2. Len(<<>>) = 0
    OBVIOUS
  <2> QED
    BY <2>1, <2>2
<1> QED
  BY <1>1, <1>2 DEF PersistedToken

\* Tokens keep following the recorded mints.
LEMMA TokensStep == PlanInv /\ TokensFollow /\ [Next]_vars => TokensFollow'
<1> SUFFICES ASSUME PlanInv, TokensFollow, [Next]_vars
             PROVE  TokensFollow'
  OBVIOUS
<1>1. CASE Quiet /\ ~Complete
  <2>1. pools' = pools /\ tokens' = tokens /\ \A v \in 1..Len(pools) : Recorded(v)' = Recorded(v)
    BY <1>1 DEF Quiet, tables
  <2>2. Mints' = Mints /\ PersistedToken' = PersistedToken
    BY <2>1 DEF Mints, PersistedToken
  <2>3. token' \in {0, token}
    BY <1>1, TokenForgotten
  <2> QED
    BY <2>1, <2>2, <2>3 DEF TokensFollow
<1>2. CASE Complete
  <2>1. PICK n \in Nat :
           /\ n = Len(pools) + 1 /\ Len(pools) \in Nat \ {0} /\ Len(pools') = n
           /\ \A v \in 1..n : v \in 1..Len(pools) \/ v = n
           /\ \A v \in 1..Len(pools) : v \in 1..n /\ v # n /\ pools'[v] = pools[v] /\ Recorded(v)' = Recorded(v)
           /\ pools'[n].tx = call.tx /\ pools'[n].state = plan.effect
           /\ Recorded(n)' = call.sent
    BY <1>2, CompleteRecords
  <2>2. call.sent.move.kind = plan.move.kind
    <3>1. plan # None /\ call # None
      BY <1>2, CompleteFacts DEF PlanInv, Complete
    <3> QED
      BY <3>1 DEF PlanInv, CallCurrent
  <2>3. Mints' = {v \in 1..n : Recorded(v)'.move.kind = "buy"}
    BY <2>1 DEF Mints
  <2>4. CASE plan.move.kind = "buy"
    <3>1. tokens' = Append(tokens, call.tx) /\ token' = call.tx
      BY <1>2, <2>4 DEF Complete, TokenRows
    <3>2. IsList(tokens') /\ PersistedToken' = call.tx
      BY <3>1, LastPersisted DEF TokensFollow
    <3>3. n \in Mints' /\ \A v \in Mints' : v <= n
      BY <2>1, <2>2, <2>3, <2>4
    <3> QED
      BY <2>1, <3>1, <3>2, <3>3 DEF TokensFollow
  <2>5. CASE plan.move.kind # "buy"
    <3>1. tokens' = tokens /\ token' = token
      BY <1>2, <2>5 DEF Complete, TokenRows
    <3>2. PersistedToken' = PersistedToken
      BY <3>1 DEF PersistedToken
    <3>3. \A v : v \in Mints' <=> v \in Mints
      BY <2>1, <2>2, <2>3, <2>5 DEF Mints
    <3>4. Mints' = Mints
      BY <3>3
    <3>5. \A m \in Mints : pools'[m] = pools[m]
      BY <2>1 DEF Mints
    <3> QED
      BY <3>1, <3>2, <3>4, <3>5 DEF TokensFollow
  <2> QED
    BY <2>4, <2>5
<1> QED
  BY <1>1, <1>2, QuietOrComplete

\* So the token a redeem would name is the latest mint's.
LEMMA TokensNamed == Lists /\ TokensFollow => LatestTokenNamed
<1> SUFFICES ASSUME Lists, TokensFollow
             PROVE  NamedToken = IF Mints = {} THEN 0 ELSE pools[Max(Mints)].tx
  BY DEF LatestTokenNamed, Mints
<1>1. NamedToken = PersistedToken
  BY DEF NamedToken, TokensFollow
<1>2. CASE Mints = {}
  BY <1>1, <1>2 DEF TokensFollow
<1>3. CASE Mints # {}
  <2>1. PICK m \in Mints : (\A v \in Mints : v <= m) /\ PersistedToken = pools[m].tx
    BY <1>3 DEF TokensFollow
  <2>2. \A v \in Mints : v \in Nat
    BY DEF Mints, Lists
  <2>3. Max(Mints) = m
    BY <2>1, <2>2 DEF Max
  <2> QED
    BY <1>1, <1>3, <2>1, <2>3
<1> QED
  BY <1>2, <1>3

-----------------------------------------------------------------------------
(* Holdings *)

\* The versions that record moves of one kind and side.
Versions(k, s) ==
  {v \in 1..Len(pools) : Recorded(v).move.kind = k /\ Recorded(v).move.side = s}

SettledIds == (1..Len(fills)) \ Unsettled

\* The property, by these names.
LEMMA HoldingsByName ==
  HoldingsAccounted <=>
    \A s \in Side :
      /\ CurrentPool.state.q[s] = NetUnits(SettledIds, s) + Cardinality(Versions("buy", s))
                                                          - Cardinality(Versions("sell", s))
      /\ CurrentPool.state.q[s] = Position(s)
  BY DEF HoldingsAccounted, Versions, SettledIds

\* Versions are numbered.
LEMMA VersionsType ==
  ASSUME Lists, NEW k, NEW s
  PROVE  IsFiniteSet(Versions(k, s)) /\ Cardinality(Versions(k, s)) \in Nat
<1>1. Len(pools) \in Int /\ 1 \in Int
  BY Current
<1>2. IsFiniteSet(1..Len(pools))
  BY <1>1, FS_Interval
<1> DEFINE own == Versions(k, s)
<1>3. own \in SUBSET (1..Len(pools))
  BY DEF Versions
<1> HIDE DEF own
<1>4. IsFiniteSet(own)
  BY <1>2, <1>3, FS_Subset
<1>5. Cardinality(own) \in Nat
  BY <1>4, FS_CardinalityType
<1> QED
  BY <1>4, <1>5 DEF own

\* An answer adds its version to those of its kind and side.
LEMMA VersionsGrow ==
  ASSUME PlanInv, Complete, NEW k, NEW s
  PROVE  Cardinality(Versions(k, s))' =
           Cardinality(Versions(k, s)) + (IF plan.move.kind = k /\ plan.move.side = s THEN 1 ELSE 0)
<1>1. PICK n \in Nat :
         /\ n = Len(pools) + 1 /\ Len(pools) \in Nat \ {0} /\ Len(pools') = n
         /\ \A v \in 1..n : v \in 1..Len(pools) \/ v = n
         /\ \A v \in 1..Len(pools) : v \in 1..n /\ v # n /\ pools'[v] = pools[v] /\ Recorded(v)' = Recorded(v)
         /\ pools'[n].tx = call.tx /\ pools'[n].state = plan.effect
         /\ Recorded(n)' = call.sent
  BY CompleteRecords
<1>2. call.sent.move.kind = plan.move.kind /\ call.sent.move.side = plan.move.side
  <2>1. plan # None /\ call # None
    BY CompleteFacts DEF PlanInv, Complete
  <2> QED
    BY <2>1 DEF PlanInv, CallCurrent
<1> DEFINE own == Versions(k, s)
           now == {v \in 1..n : Recorded(v)'.move.kind = k /\ Recorded(v)'.move.side = s}
<1>3. Versions(k, s)' = now
  BY <1>1 DEF Versions
<1>4. n \in 1..n /\ n \notin own
  BY <1>1 DEF Versions
<1>5. IsFiniteSet(own) /\ Cardinality(own) \in Nat
  BY VersionsType DEF PlanInv
<1>6. CASE plan.move.kind = k /\ plan.move.side = s
  <2>1. \A v : v \in now <=> v \in own \cup {n}
    BY <1>1, <1>2, <1>4, <1>6 DEF Versions
  <2>2. now = own \cup {n}
    BY <2>1
  <2> HIDE DEF own, now
  <2>3. Cardinality(own \cup {n}) = Cardinality(own) + 1
    BY <1>4, <1>5, FS_AddElement
  <2> QED
    BY <1>3, <1>6, <2>2, <2>3 DEF own
<1>7. CASE ~(plan.move.kind = k /\ plan.move.side = s)
  <2>1. \A v : v \in now <=> v \in own
    BY <1>1, <1>2, <1>4, <1>7 DEF Versions
  <2>2. now = own
    BY <2>1
  <2> HIDE DEF own, now
  <2> QED
    BY <1>3, <1>5, <1>7, <2>2 DEF own
<1> QED
  BY <1>6, <1>7

\* The recorded pool's shares stay accounted for.
LEMMA HoldingsStep == PlanInv /\ HoldingsAccounted /\ [Next]_vars => HoldingsAccounted'
<1> SUFFICES ASSUME PlanInv, HoldingsAccounted, [Next]_vars
             PROVE  HoldingsAccounted'
  OBVIOUS
<1>0. Len(fills) \in Nat /\ fills \in Seq(FillRow)
  BY LenProperties DEF PlanInv, Lists
<1>1. CASE Quiet
  <2>1. /\ UNCHANGED <<pools, trades>>
        /\ \A v \in 1..Len(pools) : Recorded(v)' = Recorded(v)
    BY <1>1 DEF Quiet, tables
  <2>2. SettledIds' = SettledIds
    <3>1. CASE fills' = fills
      BY <3>1 DEF SettledIds, Unsettled
    <3>2. CASE Len(fills') = Len(fills) + 1 /\ fills'[Len(fills) + 1].batch = 0
      <4>1. \A i \in 1..Len(fills) : i \in 1..Len(fills') /\ fills'[i] = fills[i]
        BY <1>0, <1>1, <3>2, FillsStay DEF Quiet
      <4>2. \A i \in 1..Len(fills') : i \in 1..Len(fills) \/ i = Len(fills) + 1
        BY <1>0, <3>2
      <4>3. \A i : i \in SettledIds' <=> i \in SettledIds
        BY <3>2, <4>1, <4>2 DEF SettledIds, Unsettled
      <4> QED
        BY <4>3
    <3> QED
      BY <1>1, <3>1, <3>2 DEF Quiet
  <2>3. \A s : NetUnits(SettledIds, s)' = NetUnits(SettledIds, s)
    <3>1. PICK ids : ids = SettledIds
      OBVIOUS
    <3>2. \A i \in ids : fills'[i] = fills[i]
      BY <1>0, <1>1, <3>1, FillsStay DEF Quiet, SettledIds
    <3>3. \A s : NetUnits(ids, s)' = NetUnits(ids, s)
      BY <3>2, CountStays
    <3> QED
      BY <2>2, <3>1, <3>3
  <2>4. \A k, s : Versions(k, s)' = Versions(k, s)
    <3> TAKE k, s
    <3>1. Versions(k, s)' = {v \in 1..Len(pools) : Recorded(v)'.move.kind = k /\ Recorded(v)'.move.side = s}
      BY <2>1 DEF Versions
    <3> QED
      BY <2>1, <3>1 DEF Versions
  <2>5. \A s \in Side :
          /\ CurrentPool'.state.q[s] = NetUnits(SettledIds, s)' + Cardinality(Versions("buy", s))'
                                                                - Cardinality(Versions("sell", s))'
          /\ CurrentPool'.state.q[s] = Position(s)'
    <3> TAKE s \in Side
    <3>1. /\ CurrentPool.state.q[s] = NetUnits(SettledIds, s) + Cardinality(Versions("buy", s))
                                                              - Cardinality(Versions("sell", s))
          /\ CurrentPool.state.q[s] = Position(s)
      BY HoldingsByName
    <3>2. CurrentPool' = CurrentPool /\ Position(s)' = Position(s)
      BY <2>1 DEF CurrentPool, Position
    <3>3. /\ Cardinality(Versions("buy", s))' = Cardinality(Versions("buy", s))
          /\ Cardinality(Versions("sell", s))' = Cardinality(Versions("sell", s))
      BY <2>4
    <3> QED
      BY <2>3, <3>1, <3>2, <3>3
  <2> QED
    BY <2>5 DEF HoldingsAccounted, Versions, SettledIds
<1>2. CASE Complete
  <2>1. /\ plan # None /\ CurrentPool'.state = plan.effect
        /\ Len(fills') = Len(fills)
        /\ \A i \in 1..Len(fills) :
             /\ fills'[i].side = fills[i].side /\ fills'[i].action = fills[i].action
             /\ fills'[i].batch = IF i \in plan.move.ids THEN Len(pools) ELSE fills[i].batch
    BY <1>2, CompleteFacts DEF PlanInv
  <2>2. plan.move.ids \subseteq Unsettled /\ plan.move.ids \in SUBSET (1..Len(fills))
    BY <2>1 DEF PlanInv, PlanCurrent, IsMove
  <2>3. SettledIds' = SettledIds \cup plan.move.ids /\ SettledIds \cap plan.move.ids = {}
    <3>1. Len(pools) # 0
      BY DEF PlanInv, Lists
    <3>2. \A i : i \in SettledIds' <=> i \in SettledIds \cup plan.move.ids
      BY <2>1, <2>2, <3>1 DEF SettledIds, Unsettled
    <3>3. SettledIds \cap plan.move.ids = {}
      BY <2>2 DEF SettledIds
    <3> QED
      BY <3>2, <3>3
  <2>4. SettledIds \in SUBSET (1..Len(fills))
    BY DEF SettledIds
  <2>5. \A s : /\ NetUnits(SettledIds, s)' = NetUnits(SettledIds, s) + NetUnits(plan.move.ids, s)
               /\ NetUnits(SettledIds, s) \in Int /\ NetUnits(plan.move.ids, s) \in Int
    <3> TAKE s
    <3>1. PICK ids : ids = SettledIds \cup plan.move.ids
      OBVIOUS
    <3>2. \A i \in ids : fills'[i].side = fills[i].side /\ fills'[i].action = fills[i].action
      BY <2>1, <2>2, <2>4, <3>1
    <3>3. NetUnits(ids, s)' = NetUnits(ids, s)
      BY <3>2, CountStays
    <3>4. NetUnits(SettledIds, s)' = NetUnits(ids, s)'
      BY <2>3, <3>1
    <3>5. NetUnits(ids, s) = NetUnits(SettledIds, s) + NetUnits(plan.move.ids, s)
      BY <1>0, <2>2, <2>3, <2>4, <3>1, NetUnion
    <3>6. NetUnits(SettledIds, s) \in Int /\ NetUnits(plan.move.ids, s) \in Int
      BY <1>0, <2>2, <2>4, NetType
    <3> QED
      BY <3>3, <3>4, <3>5, <3>6
  <2>6. \A s \in Side :
          /\ CurrentPool'.state.q[s] = NetUnits(SettledIds, s)' + Cardinality(Versions("buy", s))'
                                                                - Cardinality(Versions("sell", s))'
          /\ CurrentPool'.state.q[s] = Position(s)'
    <3> TAKE s \in Side
    <3> DEFINE bought == IF plan.move.kind = "buy" /\ plan.move.side = s THEN 1 ELSE 0
               sold   == IF plan.move.kind = "sell" /\ plan.move.side = s THEN 1 ELSE 0
    <3>1. /\ CurrentPool.state.q[s] = NetUnits(SettledIds, s) + Cardinality(Versions("buy", s))
                                                              - Cardinality(Versions("sell", s))
          /\ CurrentPool.state.q[s] = Position(s)
      BY HoldingsByName
    <3>2. plan.effect.q[s] = CurrentPool.state.q[s] + Delta(plan.move, s)
      BY <2>1, PlanFacts DEF PlanInv
    <3>3. Delta(plan.move, s) = bought - sold + NetUnits(plan.move.ids, s)
      BY DEF Delta
    <3>4. /\ Cardinality(Versions("buy", s))' = Cardinality(Versions("buy", s)) + bought
          /\ Cardinality(Versions("sell", s))' = Cardinality(Versions("sell", s)) + sold
      BY <1>2, VersionsGrow
    <3>5. Cardinality(Versions("buy", s)) \in Nat /\ Cardinality(Versions("sell", s)) \in Nat
      BY VersionsType DEF PlanInv
    <3>6. /\ trades'[s]["buy"] = trades[s]["buy"] + bought + Count(plan.move.ids, s, "buy")
          /\ trades'[s]["sell"] = trades[s]["sell"] + sold + Count(plan.move.ids, s, "sell")
      BY <1>2, TradesType DEF PlanInv, Action
    <3>7. /\ Count(plan.move.ids, s, "buy") \in Nat /\ Count(plan.move.ids, s, "sell") \in Nat
          /\ trades[s]["buy"] \in Int /\ trades[s]["sell"] \in Int
      <4>1. Count(plan.move.ids, s, "buy") \in Nat /\ Count(plan.move.ids, s, "sell") \in Nat
        BY <1>0, <2>2, CountType
      <4> QED
        BY <4>1 DEF PlanInv, Lists, Action
    <3>8. bought \in Int /\ sold \in Int
      OBVIOUS
    <3> HIDE DEF bought, sold
    <3>9. Position(s)' = Position(s) + bought - sold + NetUnits(plan.move.ids, s)
      BY <3>6, <3>7, <3>8 DEF Position, NetUnits
    <3>10. plan.effect.q[s] = NetUnits(SettledIds, s)' + Cardinality(Versions("buy", s))'
                                                       - Cardinality(Versions("sell", s))'
      BY <2>5, <3>1, <3>2, <3>3, <3>4, <3>5, <3>8
    <3>11. Position(s) \in Int
      BY <3>7 DEF Position
    <3>12. plan.effect.q[s] = Position(s)'
      BY <2>5, <3>1, <3>2, <3>3, <3>8, <3>9, <3>11
    <3> QED
      BY <2>1, <3>10, <3>12
  <2> QED
    BY <2>6 DEF HoldingsAccounted, Versions, SettledIds
<1> QED
  BY <1>1, <1>2, QuietOrComplete

-----------------------------------------------------------------------------
(* Attestations and the bond *)

\* A signature is only added by enqueueSettle, which keys it by the version it is for.
LEMMA AttestedStep ==
  ASSUME [Next]_vars
  PROVE  attested \subseteq attested' /\ (Keyed => Keyed')
<1>1. CASE EnqueueSettle
  <2>1. attested' = attested \cup {[key |-> Len(pools), digest |-> Unsettled, at |-> Len(pools)]}
    BY <1>1 DEF EnqueueSettle, Attest, SettlementKey
  <2> QED
    BY <2>1 DEF Keyed
<1>2. CASE ~EnqueueSettle
  <2>1. attested' = attested
    <3>1. CASE UNCHANGED vars
      BY <3>1 DEF vars
    <3>2. CASE Next
      BY <1>2, <3>2, Zenon DEF Next, EnqueueBuy, EnqueueSell, EnqueueResolve, EnqueueRedeem, EnqueuePayout,
         Fill, Reject, Authorize, Refuse, Accept, Complete, Fail, OtherMarketFails, Restart, Slash, Withdraw
    <3> QED
      BY <3>1, <3>2
  <2> QED
    BY <2>1 DEF Keyed
<1> QED
  BY <1>1, <1>2

\* Only Slash takes the bond, and what it shows is two batches for one version.
LEMMA SlashStep ==
  Keyed /\ SlashNeedsRebuild /\ [Next]_vars => SlashNeedsRebuild'
<1> SUFFICES ASSUME Keyed, SlashNeedsRebuild, [Next]_vars, bond' = "slashed"
             PROVE  \E a, b \in attested' : a.at = b.at /\ a.digest # b.digest
  BY DEF SlashNeedsRebuild
<1>1. attested \subseteq attested'
  BY AttestedStep
<1>2. bond = "slashed" \/ Slash
  <2>1. CASE UNCHANGED vars
    BY <2>1 DEF vars
  <2>2. CASE Withdraw
    BY <2>2 DEF Withdraw
  <2>3. CASE Next /\ ~Withdraw /\ ~Slash
    <3>1. bond' = bond
      BY <2>3, Zenon DEF Next, EnqueueBuy, EnqueueSell, EnqueueResolve, EnqueueSettle, EnqueueRedeem,
         EnqueuePayout, Fill, Reject, Authorize, Refuse, Accept, Complete, Fail, OtherMarketFails, Restart
    <3> QED
      BY <3>1
  <2> QED
    BY <2>1, <2>2, <2>3
<1>3. CASE bond = "slashed"
  BY <1>1, <1>3 DEF SlashNeedsRebuild
<1>4. CASE Slash
  <2>1. PICK a \in attested, b \in attested : a.key = b.key /\ a.digest # b.digest
    BY <1>4 DEF Slash
  <2>2. a.at = b.at
    BY <2>1 DEF Keyed
  <2> QED
    BY <1>1, <2>1, <2>2
<1> QED
  BY <1>2, <1>3, <1>4

-----------------------------------------------------------------------------
(* The initial state *)

\* A fresh pool is one, and the tables keep it as it is.
LEMMA FreshPoolFacts ==
  /\ IsPool(FreshPool) /\ Row(FreshPool) = FreshPool
  /\ FreshPool.q = [s \in Side |-> 0] /\ ~FreshPool.resolved
<1> DEFINE q == [s \in Side |-> 0]
<1>1. FreshPool = Pool(q, Seed, FALSE, "no", FALSE)
  BY Zenon DEF FreshPool, Pool
<1>2. q \in [Side -> Int] /\ "no" \in Side
  BY DEF Side
<1> HIDE DEF q
<1>3. FreshPool.q = q /\ ~FreshPool.resolved
  BY <1>1 DEF Pool
<1>4. IsPool(FreshPool)
  <2>1. \A r \in BOOLEAN : IsPool(Pool(q, Seed, r, "no", r))
    BY <1>2 DEF IsPool, Pool
  <2>2. FALSE \in BOOLEAN
    OBVIOUS
  <2>3. IsPool(Pool(q, Seed, FALSE, "no", FALSE))
    BY <2>1, <2>2, Zenon
  <2> QED
    BY <1>1, <2>3, Zenon
<1>5. Row(FreshPool) = Kept(q, Seed, FALSE, "no")
  <2>1. \A r : Row(Pool(q, Seed, r, "no", r)) = Kept(q, Seed, r, "no")
    BY RowOfPool
  <2> QED
    BY <1>1, <2>1, Zenon
<1>6. Row(FreshPool) = FreshPool
  BY <1>1, <1>5, Zenon DEF Kept
<1> QED
  BY <1>3, <1>4, <1>6, Zenon DEF q

\* The deploy and its row are there, and nothing else.
LEMMA InitFacts ==
  ASSUME Init
  PROVE  /\ IsList(chain) /\ Len(chain) = 1 /\ chain[1].state = FreshPool
         /\ chain[1].move.kind = "deploy"
         /\ IsList(pools) /\ Len(pools) = 1 /\ pools[1].tx = 1 /\ pools[1].state = FreshPool
<1>1. \A e : IsList(<<e>>) /\ Len(<<e>>) = 1 /\ <<e>>[1] = e
  <2> TAKE e
  <2>1. <<e>> \in Seq({e})
    OBVIOUS
  <2> QED
    BY <2>1 DEF IsList
<1>2. PICK d : d = [move |-> Move("deploy", "no", 0, {}, {}), spends |-> 0,
                    state |-> FreshPool]
  OBVIOUS
<1>3. chain = <<d>> /\ d.state = FreshPool /\ d.move.kind = "deploy"
  BY <1>2 DEF Init, Move
<1>4. PICK r : r = [tx |-> 1, state |-> FreshPool]
  OBVIOUS
<1>5. pools = <<r>> /\ r.tx = 1 /\ r.state = FreshPool
  BY <1>4, FreshPoolFacts DEF Init
<1> QED
  BY <1>1, <1>3, <1>5

\* So it satisfies the invariant.
LEMMA InitPlanInv == Init => PlanInv
<1> SUFFICES ASSUME Init
             PROVE  PlanInv
  OBVIOUS
<1>1. /\ IsList(chain) /\ Len(chain) = 1 /\ chain[1].state = FreshPool
      /\ IsList(pools) /\ Len(pools) = 1 /\ pools[1].tx = 1 /\ pools[1].state = FreshPool
  BY InitFacts, Zenon
<1>2. Lists
  <2>1. air = {} /\ fills = <<>> /\ trades = [s \in Side |-> [a \in Action |-> 0]]
    BY Zenon DEF Init
  <2>2. trades \in [Side -> [Action -> Int]]
    <3>1. PICK none : none = [a \in Action |-> 0]
      OBVIOUS
    <3>2. none \in [Action -> Int]
      BY <3>1
    <3>3. trades = [s \in Side |-> none]
      BY <2>1, <3>1, Zenon
    <3> QED
      BY <3>2, <3>3
  <2>3. fills \in Seq(FillRow)
    <3>1. \A S : <<>> \in Seq(S)
      BY EmptySeq
    <3> QED
      BY <2>1, <3>1, Zenon
  <2>4. \A t \in air : IsPool(t.state)
    BY <2>1
  <2>5. IsPool(FreshPool)
    BY FreshPoolFacts
  <2>6. /\ Len(pools) \in Nat \ {0}
        /\ \A i \in 1..Len(chain) : IsPool(chain[i].state)
        /\ \A v \in 1..Len(pools) : pools[v].tx \in 1..Len(chain) /\ IsPool(pools[v].state)
    BY <1>1, <2>5
  <2> QED
    BY <1>1, <2>2, <2>3, <2>4, <2>6, Zenon DEF Lists
<1>3. Copies
  <2>1. warm = 1
    BY Zenon DEF Init
  <2> QED
    BY <1>1, <2>1 DEF Copies, CurrentPool
<1>4. plan = None /\ call = None
  BY DEF Init
<1> QED
  BY <1>2, <1>3, <1>4 DEF PlanInv, PlanCurrent, CallCurrent

\* And the other properties.
LEMMA InitProperties ==
  Init => /\ RecordMatchesCovenant /\ HoldingsAccounted
          /\ WinnersPaidInFull /\ WinnersStand /\ TokensFollow /\ Keyed /\ SlashNeedsRebuild
<1> SUFFICES ASSUME Init
             PROVE  /\ RecordMatchesCovenant /\ HoldingsAccounted
                    /\ WinnersPaidInFull /\ WinnersStand /\ TokensFollow /\ Keyed /\ SlashNeedsRebuild
  OBVIOUS
<1>1. Recorded(1) = chain[1] /\ Len(pools) = 1
  BY InitFacts DEF Recorded
<1>2. \A v \in 1..Len(pools) : v = 1
  BY <1>1
<1>3. RecordMatchesCovenant
  BY <1>1, <1>2, InitFacts, FreshPoolFacts DEF RecordMatchesCovenant
<1>4. WinnersPaidInFull /\ WinnersStand /\ Keyed /\ SlashNeedsRebuild
  <2>1. payouts = {} /\ attested = {} /\ bond = "locked"
    BY DEF Init
  <2> QED
    BY <2>1 DEF WinnersPaidInFull, WinnersStand, Keyed, SlashNeedsRebuild
<1>5. HoldingsAccounted
  <2>1. SettledIds = {}
    <3>1. fills = <<>>
      BY DEF Init
    <3>2. Len(fills) = 0
      BY <3>1
    <3> QED
      BY <3>2 DEF SettledIds
  <2>2. \A s : NetUnits(SettledIds, s) = 0
    BY <2>1, CountEmpty
  <2>3. \A k, s : k # "deploy" => Cardinality(Versions(k, s)) = 0
    <3> TAKE k, s
    <3> HAVE k # "deploy"
    <3>1. Versions(k, s) = {}
      BY <1>1, <1>2, InitFacts DEF Versions
    <3> QED
      BY <3>1, FS_EmptySet
  <2>4. \A s \in Side : CurrentPool.state.q[s] = 0
    BY InitFacts, FreshPoolFacts DEF CurrentPool
  <2>5. \A s \in Side : Position(s) = 0
    BY DEF Position, Init, Action
  <2>6. \A s \in Side : CurrentPool.state.q[s] = NetUnits(SettledIds, s) + Cardinality(Versions("buy", s))
                                                                 - Cardinality(Versions("sell", s))
    <3> TAKE s \in Side
    <3>1. Cardinality(Versions("buy", s)) = 0 /\ Cardinality(Versions("sell", s)) = 0
      BY <2>3
    <3> QED
      BY <2>2, <2>4, <3>1
  <2> QED
    BY <2>4, <2>5, <2>6 DEF HoldingsAccounted, Versions, SettledIds
<1>6. TokensFollow
  <2>1. tokens = <<>> /\ token = 0
    BY DEF Init
  <2>2. IsList(tokens)
    <3>1. <<>> \in Seq({})
      BY EmptySeq
    <3> QED
      BY <2>1, <3>1 DEF IsList
  <2>3. Mints = {}
    BY <1>1, <1>2, InitFacts DEF Mints
  <2> QED
    BY <2>1, <2>2, <2>3 DEF TokensFollow, PersistedToken
<1> QED
  BY <1>3, <1>4, <1>5, <1>6

-----------------------------------------------------------------------------
(* The theorems *)

\* What the other theorems rest on: a plan and the call that makes it are always those of the
\* recorded pool, the engine's warm copy is of that pool or gone, and the lists are well-formed.
\* It holds across rejections, failures, restarts and transactions that arrive late
\* (service.ts enqueue and authorize, scryptEngine.ts livePool).
THEOREM PlansStayCurrent == Spec => []PlanInv
<1>1. Init => PlanInv
  BY InitPlanInv
<1>2. PlanInv /\ [Next]_vars => PlanInv'
  BY ListsStep, CopiesStep, PlanStep, CallStep DEF PlanInv
<1> QED
  BY <1>1, <1>2, PTL DEF Spec

\* What the tables say a pool holds is what its covenant holds: no failure, restart or late
\* transaction makes them differ (scryptEngine.ts build* and exec*, service.ts applyEffects).
THEOREM RecordsMatch == Spec => []RecordMatchesCovenant
<1>1. Init => RecordMatchesCovenant
  BY InitProperties
<1>2. PlanInv /\ RecordMatchesCovenant /\ [Next]_vars => RecordMatchesCovenant'
  BY RecordStep
<1> QED
  BY <1>1, <1>2, PlansStayCurrent, PTL DEF Spec

\* The recorded holdings are the settled fills and the operator's own trades, each counted once, and
\* positions() adds up to them, however settlements are refused, fail or are repeated (service.ts
\* pendingBatch, applyEffects, positions).
THEOREM HoldingsAreAccounted == Spec => []HoldingsAccounted
<1>1. Init => HoldingsAccounted
  BY InitProperties
<1>2. PlanInv /\ HoldingsAccounted /\ [Next]_vars => HoldingsAccounted'
  BY HoldingsStep
<1> QED
  BY <1>1, <1>2, PlansStayCurrent, PTL DEF Spec

\* When winners are recorded as paid, all of them are, each the whole position, by the transaction
\* the row names (payout.ts winningPayouts, service.ts payoutPreview, scryptEngine.ts execPayout).
THEOREM WinnersArePaid == Spec => []WinnersPaidInFull
<1>1. Init => WinnersStand /\ WinnersPaidInFull
  BY InitProperties
<1>2. PlanInv /\ WinnersStand /\ WinnersPaidInFull /\ [Next]_vars => WinnersStand' /\ WinnersPaidInFull'
  BY WinnersStep
<1> QED
  BY <1>1, <1>2, PlansStayCurrent, PTL DEF Spec

\* The token a redeem would name is the one the latest recorded buy minted, whatever fails and restarts
\* in between (scryptEngine.ts buildRedeem, service.ts enqueueRedeem and applyEffects).
THEOREM TokenStaysNamed == Spec => []LatestTokenNamed
<1>1. Init => TokensFollow
  BY InitProperties
<1>2. PlanInv /\ TokensFollow /\ [Next]_vars => TokensFollow'
  BY TokensStep
<1>3. PlanInv /\ TokensFollow => LatestTokenNamed
  BY TokensNamed DEF PlanInv
<1> QED
  BY <1>1, <1>2, <1>3, PlansStayCurrent, PTL DEF Spec

\* The bond is only slashed when two different batches were signed for one version (attestation.ts
\* settlementKey, bond.ts slash).
THEOREM BondIsSafe == Spec => []SlashNeedsRebuild
<1>1. Init => Keyed /\ SlashNeedsRebuild
  BY InitProperties
<1>2. Keyed /\ [Next]_vars => Keyed'
  BY AttestedStep
<1>3. Keyed /\ SlashNeedsRebuild /\ [Next]_vars => SlashNeedsRebuild'
  BY SlashStep
<1> QED
  BY <1>1, <1>2, <1>3, PTL DEF Spec

=============================================================================
