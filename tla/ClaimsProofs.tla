---------------------------- MODULE ClaimsProofs -----------------------------
(***************************************************************************)
(* Theorems about the collection of payments, for any set of traders,      *)
(* payments and transactions, and any chain of unmined parents.            *)
(***************************************************************************)
EXTENDS Claims, TLAPS

-----------------------------------------------------------------------------
(* Type correctness *)

\* What a payee's claim may be while it is listed and proved.
LEMMA ClaimSet ==
  ASSUME NEW c \in Claim, NEW stage \in {"idle", "listing", "proving", "holding"},
         NEW todo \in SUBSET Txs, NEW mined \in SUBSET Txs, NEW choice \in SUBSET Payments
  PROVE  /\ [c EXCEPT !.stage = stage] \in Claim
         /\ [c EXCEPT !.choice = choice] \in Claim
         /\ [c EXCEPT !.todo = todo] \in Claim
         /\ [c EXCEPT !.mined = mined] \in Claim
  BY DEF Claim

LEMMA TypeStep ==
  ASSUME TypeOK, [Next]_vars
  PROVE  TypeOK'
<1>0. Idle \in Claim
  BY DEF Idle, Claim
<1>1. ASSUME NEW t \in Txs, Broadcast(t) \/ Mine(t) PROVE TypeOK'
  BY <1>1 DEF Broadcast, Mine, TypeOK
<1>2. ASSUME NEW t \in Paying, Lapse(t) PROVE TypeOK'
  BY <1>2 DEF Lapse, TypeOK
<1>3. ASSUME NEW t \in Paying, Poll(t) PROVE TypeOK'
  <2>1. t \in Txs
    BY PaymentsAssumption DEF Paying
  <2>2. [tx |-> t, asker |-> Operator] \in [tx : Txs, asker : Traders \cup {Operator}]
    BY <2>1
  <2> QED
    BY <1>3, <2>2 DEF Poll, TypeOK
<1>4. ASSUME NEW l \in lookups, NEW found \in BOOLEAN, Answer(l, found) PROVE TypeOK'
  <2>1. l.tx \in Txs
    BY DEF TypeOK
  <2>2. \A trader \in Traders : claim'[trader] \in Claim
    <3>1. SUFFICES ASSUME NEW trader \in Traders, trader = l.asker PROVE claim'[trader] \in Claim
      BY <1>4 DEF Answer, TypeOK
    <3> DEFINE todo == claim[trader].todo \ {l.tx}
               mined == IF found THEN claim[trader].mined \cup {l.tx} ELSE claim[trader].mined
    <3>2. claim[trader] \in Claim /\ todo \in SUBSET Txs /\ mined \in SUBSET Txs
      BY <2>1 DEF TypeOK, Claim
    <3>3. claim'[trader] = [claim[trader] EXCEPT !.todo = todo, !.mined = mined]
      BY <1>4, <3>1 DEF Answer
    <3> HIDE DEF todo, mined
    <3>4. [claim[trader] EXCEPT !.todo = todo, !.mined = mined] \in Claim
      BY <3>2 DEF Claim
    <3> QED
      BY <3>3, <3>4
  <2>3. claim' \in [Traders -> Claim]
    BY <1>4, <2>2 DEF Answer
  <2> QED
    BY <1>4, <2>1, <2>3 DEF Answer, TypeOK
<1>5. ASSUME NEW trader \in Traders, LookUp(trader) PROVE TypeOK'
  <2>1. PICK t \in claim[trader].todo :
          \/ /\ lookups' = lookups \cup {[tx |-> t, asker |-> trader]}
             /\ UNCHANGED claim
          \/ /\ claim' = [claim EXCEPT ![trader].todo = @ \ {t},
                                       ![trader].mined = IF minedCache[t] = "mined" THEN @ \cup {t} ELSE @]
             /\ UNCHANGED lookups
    BY <1>5 DEF LookUp
  <2>2. claim[trader] \in Claim /\ t \in Txs
    BY DEF TypeOK, Claim
  <2>3. UNCHANGED <<chain, minedCache, beefs, collected>>
    BY <1>5 DEF LookUp
  <2>4. CASE lookups' = lookups \cup {[tx |-> t, asker |-> trader]} /\ UNCHANGED claim
    BY <2>2, <2>3, <2>4 DEF TypeOK
  <2>5. CASE /\ claim' = [claim EXCEPT ![trader].todo = @ \ {t},
                                       ![trader].mined = IF minedCache[t] = "mined" THEN @ \cup {t} ELSE @]
             /\ UNCHANGED lookups
    <3> DEFINE todo == claim[trader].todo \ {t}
               mined == IF minedCache[t] = "mined" THEN claim[trader].mined \cup {t} ELSE claim[trader].mined
    <3>1. todo \in SUBSET Txs /\ mined \in SUBSET Txs
      BY <2>2 DEF Claim
    <3>2. claim' = [claim EXCEPT ![trader] = [claim[trader] EXCEPT !.todo = todo, !.mined = mined]]
      BY <2>5 DEF TypeOK
    <3> HIDE DEF todo, mined
    <3>3. [claim[trader] EXCEPT !.todo = todo, !.mined = mined] \in Claim
      BY <2>2, <3>1 DEF Claim
    <3>4. claim' \in [Traders -> Claim]
      BY <3>2, <3>3 DEF TypeOK
    <3> QED
      BY <2>3, <2>5, <3>4 DEF TypeOK
  <2> QED
    BY <2>1, <2>4, <2>5
<1>6. ASSUME NEW p \in Payments, Press(p.trader, p) PROVE TypeOK'
  <2>1. PaidTo(p.trader) \subseteq Payments /\ {q.tx : q \in PaidTo(p.trader)} \subseteq Txs
    BY PaymentsAssumption DEF PaidTo
  <2>2. [stage |-> "listing", rows |-> PaidTo(p.trader), todo |-> {q.tx : q \in PaidTo(p.trader)},
         mined |-> {}, choice |-> {}, box |-> {p}] \in Claim
    BY <2>1 DEF Claim
  <2> QED
    BY <1>6, <2>2 DEF Press, TypeOK
<1>7. ASSUME NEW trader \in Traders, Choose(trader) PROVE TypeOK'
  <2>1. PICK p \in Candidates(claim[trader]) :
          claim' = [claim EXCEPT ![trader].stage = "proving", ![trader].choice = {p}]
    BY <1>7 DEF Choose
  <2>2. claim[trader] \in Claim /\ p \in Payments
    BY DEF Candidates, TypeOK, Claim
  <2>3. [claim[trader] EXCEPT !.stage = "proving", !.choice = {p}] \in Claim
    BY <2>2 DEF Claim
  <2>4. claim' = [claim EXCEPT ![trader] = [claim[trader] EXCEPT !.stage = "proving", !.choice = {p}]]
    BY <2>1 DEF TypeOK
  <2>5. claim' \in [Traders -> Claim]
    BY <2>3, <2>4 DEF TypeOK
  <2> QED
    BY <1>7, <2>5 DEF Choose, TypeOK
<1>8. ASSUME NEW trader \in Traders, Prove(trader) PROVE TypeOK'
  <2>1. PICK p \in claim[trader].choice : beefs' = BeefsAfter(p.tx)
    BY <1>8 DEF Prove
  <2>2. claim[trader] \in Claim /\ p.tx \in Txs
    BY PaymentsAssumption DEF TypeOK, Claim
  <2>3. claim' \in [Traders -> Claim]
    BY <1>8, <2>2 DEF Prove, TypeOK, Claim
  <2> QED
    BY <1>8, <2>1, <2>2, <2>3 DEF Prove, BeefsAfter, TypeOK
<1>9. ASSUME NEW trader \in Traders, NoProof(trader) PROVE TypeOK'
  BY <1>0, <1>9 DEF NoProof, TypeOK
<1>10. ASSUME NEW trader \in Traders, Internalize(trader) PROVE TypeOK'
  <2>1. PICK p \in claim[trader].choice :
          collected' = collected \cup
            {o \in OutputPaying(p) : PaymentKey(trader, RemittanceOf(p)) = Destination(o)}
    BY <1>10 DEF Internalize, Handed
  <2>2. OutputPaying(p) \subseteq Payments
    BY DEF OutputPaying
  <2> QED
    BY <1>0, <1>10, <2>1, <2>2 DEF Internalize, TypeOK
<1>11. CASE UNCHANGED vars
  BY <1>11 DEF vars, TypeOK
<1> QED
  BY <1>1, <1>2, <1>3, <1>4, <1>5, <1>6, <1>7, <1>8, <1>9, <1>10, <1>11 DEF Next

-----------------------------------------------------------------------------
(* The caches *)

\* What is mined stays mined.
LEMMA MinedForEver ==
  ASSUME TypeOK, [Next]_vars, NEW t \in Txs, chain[t] = "mined"
  PROVE  chain'[t] = "mined"
BY DEF TypeOK, Next, Broadcast, Mine, Lapse, Poll, Answer, LookUp, Choose, Prove, NoProof, Internalize,
       Press, vars

LEMMA CachesStep ==
  ASSUME TypeOK, CachesHoldMined, [Next]_vars
  PROVE  CachesHoldMined'
<1>1. ASSUME NEW t \in beefs' PROVE t \in Txs /\ chain'[t] = "mined"
  <2>1. CASE t \in beefs
    BY <2>1, MinedForEver DEF CachesHoldMined
  <2>2. CASE t \notin beefs
    <3>1. PICK trader \in Traders : Prove(trader)
      BY <1>1, <2>2 DEF Next, Broadcast, Mine, Lapse, Poll, Answer, LookUp, Choose, NoProof, Internalize,
                        Press, vars
    <3>2. PICK p \in claim[trader].choice : beefs' = BeefsAfter(p.tx)
      BY <3>1 DEF Prove
    <3>3. p.tx \in Txs
      BY PaymentsAssumption DEF TypeOK, Claim
    <3>4. t = p.tx /\ chain[t] = "mined"
      BY <1>1, <2>2, <3>2 DEF BeefsAfter
    <3> QED
      BY <3>3, <3>4, MinedForEver
  <2> QED
    BY <2>1, <2>2
<1>2. ASSUME NEW t \in Txs, minedCache'[t] = "mined" PROVE chain'[t] = "mined"
  <2>1. CASE minedCache[t] = "mined"
    BY <2>1, MinedForEver DEF CachesHoldMined
  <2>2. CASE minedCache[t] # "mined"
    <3>1. PICK l \in lookups, found \in BOOLEAN : Answer(l, found)
      BY <1>2, <2>2 DEF TypeOK, Next, Broadcast, Mine, Lapse, Poll, LookUp, Choose, Prove, NoProof,
                        Internalize, Press, vars
    <3>2. l.tx = t /\ found
      BY <1>2, <2>2, <3>1 DEF Answer, TypeOK
    <3> QED
      BY <3>1, <3>2, MinedForEver DEF Answer
  <2> QED
    BY <2>1, <2>2
<1> QED
  BY <1>1, <1>2 DEF CachesHoldMined

-----------------------------------------------------------------------------
(* The theorems *)

\* Every claim is about payments there are, every look-up about their transactions.
THEOREM TypeCorrect == Spec => []TypeOK
<1>1. Init => TypeOK
  BY DEF Init, TypeOK, Idle, Claim
<1> QED
  BY <1>1, TypeStep, PTL DEF Spec

\* Neither cache ever keeps a transaction that is still in the mempool (service.ts minedHeight,
\* beef.ts ToolboxBeefSource).
THEOREM CachesAreFinal == Spec => []CachesHoldMined
<1>1. Init => CachesHoldMined
  BY DEF Init, CachesHoldMined
<1> QED
  BY <1>1, CachesStep, TypeCorrect, PTL DEF Spec

\* A height once cached is kept, unless a second look-up was under way (service.ts minedHeight).
THEOREM HeightsAreKept == Spec => MinedIsKept
<1>1. TypeOK /\ [Next]_vars => [\A t \in Txs : Settled(t) => Settled(t)']_vars
  <2> SUFFICES ASSUME TypeOK, Next, NEW t \in Txs, Settled(t) PROVE Settled(t)'
    BY DEF Settled
  <2>1. minedCache'[t] = "mined"
    <3>1. ASSUME NEW l \in lookups, NEW found \in BOOLEAN, Answer(l, found) PROVE minedCache'[t] = "mined"
      BY <3>1 DEF Settled, Answer, TypeOK
    <3>2. ASSUME NEW s \in Paying, Lapse(s) PROVE minedCache'[t] = "mined"
      BY <3>2 DEF Settled, Lapse, TypeOK
    <3> QED
      BY <3>1, <3>2 DEF Settled, Next, Broadcast, Mine, Poll, LookUp, Choose, Prove, NoProof, Internalize,
                        Press
  <2>2. ASSUME NEW l \in lookups' PROVE l.tx # t
    <3>1. CASE l \in lookups
      BY <3>1 DEF Settled
    <3>2. CASE l \notin lookups
      <4>1. \E s : Askable(s) /\ l.tx = s
        <5>1. ASSUME NEW s \in Paying, Poll(s) PROVE Askable(s) /\ l.tx = s
          BY <2>2, <3>2, <5>1 DEF Poll
        <5>2. ASSUME NEW trader \in Traders, LookUp(trader) PROVE \E s : Askable(s) /\ l.tx = s
          <6>1. PICK s : Askable(s) /\ lookups' = lookups \cup {[tx |-> s, asker |-> trader]}
            BY <2>2, <3>2, <5>2 DEF LookUp
          <6>2. l = [tx |-> s, asker |-> trader]
            BY <2>2, <3>2, <6>1
          <6> QED
            BY <6>1, <6>2
        <5>3. (\E s \in Paying : Poll(s)) \/ (\E trader \in Traders : LookUp(trader))
          BY <2>2, <3>2 DEF Next, Broadcast, Mine, Lapse, Answer, Choose, Prove, NoProof, Internalize, Press
        <5> QED
          BY <5>1, <5>2, <5>3
      <4> QED
        BY <4>1 DEF Settled, Askable
    <3> QED
      BY <3>1, <3>2
  <2> QED
    BY <2>1, <2>2 DEF Settled
<1> QED
  BY <1>1, TypeCorrect, PTL DEF Spec, MinedIsKept

=============================================================================
