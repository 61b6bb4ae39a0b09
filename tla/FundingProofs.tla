---------------------------- MODULE FundingProofs ----------------------------
(***************************************************************************)
(* Theorems about how a buy is paid for, for any number of attempts and    *)
(* whatever clients give up, answers are late and daemons restart.         *)
(***************************************************************************)
EXTENDS Funding, SequenceTheorems, FiniteSetTheorems, TLAPS

-----------------------------------------------------------------------------
(* The invariants *)

Looking(w) == w.stage = "looking"

\* What names an intent or a payment names one that exists, and a payment together with its intent.
Known ==
  /\ \A p \in 1..Len(payments) : payments[p].intent \in 1..Len(intents)
  /\ \A k \in 1..Len(fills) : /\ fills[k].intent \in 1..Len(intents)
                              /\ fills[k].payment \in 1..Len(payments)
  /\ \A w \in work :
       /\ w.intent \in 1..Len(intents)
       /\ ~Looking(w) => w.payment \in 1..Len(payments) /\ payments[w.payment].intent = w.intent
  /\ client.pc = "approving" =>
       /\ client.intent \in 1..Len(intents)
       /\ client.payment # 0 =>
            client.payment \in 1..Len(payments) /\ payments[client.payment].intent = client.intent

\* An intent is not pending any more only because somebody paid for it.
UsedIsPaidFor ==
  \A i \in 1..Len(intents) :
    intents[i].status # "pending" => \E p \in 1..Len(payments) : payments[p].intent = i

\* The engine is only given orders whose payment was verified.
LockedIsPaid ==
  \A w \in work : w.stage = "locked" =>
    payments[w.payment].seen /\ intents[w.intent].status \in {"paid", "rejected"}

\* A paid intent bought a fill, or its order is with the engine.
PaidIsServed ==
  "crash" \notin faults =>
    \A i \in 1..Len(intents) : intents[i].status = "paid" =>
      \/ \E w \in work : w.stage = "locked" /\ w.intent = i
      \/ \E k \in 1..Len(fills) : fills[k].intent = i

\* Each attempt asks for one quote and submits at most one order, and the client waits for what its
\* own attempt asked for.
Turns ==
  /\ client.attempt <= attempts
  /\ client.pc # "idle" => client.attempt # 0
  /\ \A w \in work : w.attempt \in 1..attempts
  /\ \A w \in work : w.attempt = client.attempt =>
       client.pc = IF Looking(w) THEN "quoting" ELSE "filling"
  /\ \A v, w \in work : Looking(v) /\ Looking(w) /\ v.attempt = w.attempt => v = w

\* While no client gives up its order, the one order under way is its client's and its intent is
\* not used for anything else.
OneOrder ==
  "abandoned" \notin faults =>
    /\ \A w \in work : ~Looking(w) => client.pc = "filling" /\ w.attempt = client.attempt
    /\ \A v, w \in work : ~Looking(v) /\ ~Looking(w) => v = w
    /\ \A w \in work : ~Looking(w) => \A k \in 1..Len(fills) : fills[k].intent # w.intent
    /\ \A w \in work : w.stage = "verifying" => intents[w.intent].status = "pending"
    /\ \A w \in work : w.stage = "locked" =>
         intents[w.intent].status = "paid" /\ intents[w.intent].txid = w.payment
    /\ \A k \in 1..Len(fills) :
         intents[fills[k].intent].status = "paid" /\ intents[fills[k].intent].txid = fills[k].payment
    /\ IntentIsSingleUse

\* The last of the pending intents.
LastPending(i) == \A j \in 1..Len(intents) : intents[j].status = "pending" => j <= i

\* While the chain service is prompt and clients wait for their quotes, only the last pending intent
\* is ever offered or paid for, and it is not offered once it is paid for.
OneQuote ==
  faults \cap {"lagging", "requoted"} = {} =>
    /\ \A p \in 1..Len(payments) :
         /\ payments[p].seen
         /\ intents[payments[p].intent].status = "pending" => LastPending(payments[p].intent)
    /\ \A w \in work : Looking(w) =>
         client.pc = "quoting" /\ w.attempt = client.attempt /\ LastPending(w.intent)
    /\ client.pc = "approving" /\ client.payment = 0 =>
         /\ LastPending(client.intent)
         /\ \A p \in 1..Len(payments) : intents[payments[p].intent].status # "pending"

\* An intent is only marked expired when the quote of an order lapsed.
ExpiredHasLapsed ==
  "lapsed" \notin faults => \A i \in 1..Len(intents) : intents[i].status # "expired"

\* While the chain service is prompt and clients wait for their quotes, no intent is paid twice.
OnePayment ==
  faults \cap {"lagging", "requoted"} = {} =>
    /\ \A p, q \in 1..Len(payments) : payments[p].intent = payments[q].intent => p = q
    /\ client.pc = "approving" /\ client.payment = 0 =>
         \A p \in 1..Len(payments) : payments[p].intent # client.intent

FundInv ==
  /\ Known /\ UsedIsPaidFor
  /\ LockedIsPaid /\ FillsArePaid /\ PaidIsServed
  /\ Turns /\ OneOrder /\ OneQuote
  /\ ExpiredHasLapsed /\ OnePayment

-----------------------------------------------------------------------------
(* Type correctness *)

\* What the types say of the elements.
LEMMA Elements ==
  ASSUME TypeOK
  PROVE  /\ Len(intents) \in Nat  /\ \A i \in 1..Len(intents) : intents[i] \in Intent
         /\ Len(payments) \in Nat /\ \A p \in 1..Len(payments) : payments[p] \in Payment
         /\ Len(fills) \in Nat    /\ \A k \in 1..Len(fills) : fills[k] \in Filling
         /\ \A w \in work : Looking(w) =>
              w \in [stage : {"looking"}, attempt : Nat, intent : Nat, late : BOOLEAN]
         /\ \A w \in work : ~Looking(w) =>
              w \in [stage : {"verifying", "locked"}, attempt : Nat, intent : Nat, payment : Nat]
         /\ \A w \in work : w.attempt \in Nat /\ w.intent \in Nat
<1>1. Len(intents) \in Nat /\ \A i \in 1..Len(intents) : intents[i] \in Intent
  BY LenProperties, ElementOfSeq DEF TypeOK
<1>2. Len(payments) \in Nat /\ \A p \in 1..Len(payments) : payments[p] \in Payment
  BY LenProperties, ElementOfSeq DEF TypeOK
<1>3. Len(fills) \in Nat /\ \A k \in 1..Len(fills) : fills[k] \in Filling
  BY LenProperties, ElementOfSeq DEF TypeOK
<1>4. \A w \in work : /\ w \in Handler
                      /\ w.attempt \in Nat /\ w.intent \in Nat
  BY DEF TypeOK, Handler
<1>5. \A w \in work : Looking(w) =>
        w \in [stage : {"looking"}, attempt : Nat, intent : Nat, late : BOOLEAN]
  BY <1>4 DEF Handler, Looking
<1>6. \A w \in work : ~Looking(w) =>
        w \in [stage : {"verifying", "locked"}, attempt : Nat, intent : Nat, payment : Nat]
  BY <1>4 DEF Handler, Looking
<1> QED
  BY <1>1, <1>2, <1>3, <1>4, <1>5, <1>6

\* A row of payment_intents is inserted.
LEMMA IntentAdded ==
  ASSUME TypeOK, intents' = Append(intents, NewIntent)
  PROVE  /\ intents' \in Seq(Intent) /\ Len(intents') = Len(intents) + 1
         /\ \A i \in 1..Len(intents) : intents'[i] = intents[i]
         /\ \A i \in 1..Len(intents') : i \notin 1..Len(intents) =>
              i = Len(intents) + 1 /\ intents'[i].status = "pending"
<1>1. NewIntent \in Intent /\ NewIntent.status = "pending"
  BY DEF NewIntent, Intent, IntentStatus
<1>2. intents \in Seq(Intent) /\ Len(intents) \in Nat
  BY Elements DEF TypeOK
<1>3. /\ intents' \in Seq(Intent) /\ Len(intents') = Len(intents) + 1
      /\ \A i \in 1..Len(intents) : intents'[i] = intents[i]
      /\ intents'[Len(intents) + 1] = NewIntent
  BY <1>1, <1>2, AppendProperties
<1>4. \A i \in 1..Len(intents') : i \notin 1..Len(intents) => i = Len(intents) + 1
  BY <1>2, <1>3
<1> QED
  BY <1>1, <1>3, <1>4

\* An UPDATE of the expiry of one row.
LEMMA FreshSet ==
  ASSUME TypeOK, NEW i \in 1..Len(intents), NEW fresh \in BOOLEAN
  PROVE  intents' = [intents EXCEPT ![i].fresh = fresh] =>
           /\ intents' \in Seq(Intent) /\ Len(intents') = Len(intents)
           /\ \A j \in 1..Len(intents) : /\ intents'[j].status = intents[j].status
                                         /\ intents'[j].txid = intents[j].txid
<1> DEFINE e == [status |-> intents[i].status, fresh |-> fresh, txid |-> intents[i].txid]
<1>1. intents[i] \in Intent /\ intents \in Seq(Intent)
  BY Elements DEF TypeOK
<1>2. e \in Intent /\ e.status = intents[i].status /\ e.txid = intents[i].txid
  BY <1>1 DEF Intent
<1>3. [intents[i] EXCEPT !.fresh = fresh] = e
  BY <1>1 DEF Intent
<1> HIDE DEF e
<1>4. intents' = [intents EXCEPT ![i].fresh = fresh] => intents' = [intents EXCEPT ![i] = e]
  BY <1>3
<1>5. intents' = [intents EXCEPT ![i] = e] =>
        /\ intents' \in Seq(Intent) /\ Len(intents') = Len(intents)
        /\ \A j \in 1..Len(intents) : intents'[j] = IF j = i THEN e ELSE intents[j]
  BY <1>1, <1>2, ExceptSeq
<1> QED
  BY <1>2, <1>4, <1>5

\* An UPDATE of the status of one row.
LEMMA StatusSet ==
  ASSUME TypeOK, NEW i \in 1..Len(intents), NEW status \in IntentStatus
  PROVE  intents' = [intents EXCEPT ![i].status = status] =>
           /\ intents' \in Seq(Intent) /\ Len(intents') = Len(intents)
           /\ intents'[i].status = status
           /\ \A j \in 1..Len(intents) : j # i => intents'[j] = intents[j]
<1> DEFINE e == [status |-> status, fresh |-> intents[i].fresh, txid |-> intents[i].txid]
<1>1. intents[i] \in Intent /\ intents \in Seq(Intent)
  BY Elements DEF TypeOK
<1>2. e \in Intent /\ e.status = status
  BY <1>1 DEF Intent
<1>3. [intents[i] EXCEPT !.status = status] = e
  BY <1>1 DEF Intent
<1> HIDE DEF e
<1>4. intents' = [intents EXCEPT ![i].status = status] => intents' = [intents EXCEPT ![i] = e]
  BY <1>3
<1>5. intents' = [intents EXCEPT ![i] = e] =>
        /\ intents' \in Seq(Intent) /\ Len(intents') = Len(intents)
        /\ \A j \in 1..Len(intents) : intents'[j] = IF j = i THEN e ELSE intents[j]
  BY <1>1, <1>2, ExceptSeq
<1> QED
  BY <1>2, <1>4, <1>5

\* The payment a row was paid with is recorded.
LEMMA PaidSet ==
  ASSUME TypeOK, NEW i \in 1..Len(intents), NEW p \in Nat
  PROVE  intents' = [intents EXCEPT ![i].status = "paid", ![i].txid = p] =>
           /\ intents' \in Seq(Intent) /\ Len(intents') = Len(intents)
           /\ intents'[i].status = "paid" /\ intents'[i].txid = p
           /\ \A j \in 1..Len(intents) : j # i => intents'[j] = intents[j]
<1> DEFINE e == [status |-> "paid", fresh |-> intents[i].fresh, txid |-> intents[i].txid]
           f == [status |-> "paid", fresh |-> intents[i].fresh, txid |-> p]
<1>1. intents[i] \in Intent /\ intents \in Seq(Intent)
  BY Elements DEF TypeOK
<1>2. e \in Intent /\ f \in Intent /\ f.status = "paid" /\ f.txid = p
  BY <1>1 DEF Intent, IntentStatus
<1>3. [intents[i] EXCEPT !.status = "paid"] = e /\ [e EXCEPT !.txid = p] = f
  BY <1>1 DEF Intent
<1> HIDE DEF e, f
<1> DEFINE g == [intents EXCEPT ![i] = e]
<1>4. [intents EXCEPT ![i].status = "paid", ![i].txid = p]
        = [[intents EXCEPT ![i].status = "paid"] EXCEPT ![i].txid = p]
  BY Zenon
<1>5. [intents EXCEPT ![i].status = "paid"] = g
  BY <1>3
<1>6. /\ g \in Seq(Intent) /\ Len(g) = Len(intents)
      /\ \A j \in 1..Len(intents) : g[j] = IF j = i THEN e ELSE intents[j]
  BY <1>1, <1>2, ExceptSeq
<1> HIDE DEF g
<1>7. [g EXCEPT ![i].txid = p] = [g EXCEPT ![i] = f]
  BY <1>3, <1>6
<1>8. intents' = [g EXCEPT ![i] = f] =>
        /\ intents' \in Seq(Intent) /\ Len(intents') = Len(g)
        /\ \A j \in 1..Len(g) : intents'[j] = IF j = i THEN f ELSE g[j]
  BY <1>2, <1>6, ExceptSeq
<1> QED
  BY <1>2, <1>4, <1>5, <1>6, <1>7, <1>8

\* The network has a payment.
LEMMA SeenSet ==
  ASSUME TypeOK, NEW p \in 1..Len(payments)
  PROVE  payments' = [payments EXCEPT ![p].seen = TRUE] =>
           /\ payments' \in Seq(Payment) /\ Len(payments') = Len(payments)
           /\ payments'[p].seen
           /\ \A q \in 1..Len(payments) : /\ payments'[q].intent = payments[q].intent
                                          /\ payments[q].seen => payments'[q].seen
<1> DEFINE e == [intent |-> payments[p].intent, seen |-> TRUE]
<1>1. payments[p] \in Payment /\ payments \in Seq(Payment)
  BY Elements DEF TypeOK
<1>2. e \in Payment /\ e.intent = payments[p].intent /\ e.seen
  BY <1>1 DEF Payment
<1>3. \A seen \in BOOLEAN :
        [payments[p] EXCEPT !.seen = seen] = [intent |-> payments[p].intent, seen |-> seen]
  BY <1>1 DEF Payment
<1> HIDE DEF e
<1>4. payments' = [payments EXCEPT ![p].seen = TRUE] => payments' = [payments EXCEPT ![p] = e]
  <2>1. [payments[p] EXCEPT !.seen = TRUE] = e
    BY <1>3 DEF e
  <2> QED
    BY <2>1
<1>5. payments' = [payments EXCEPT ![p] = e] =>
        /\ payments' \in Seq(Payment) /\ Len(payments') = Len(payments)
        /\ \A q \in 1..Len(payments) : payments'[q] = IF q = p THEN e ELSE payments[q]
  BY <1>1, <1>2, ExceptSeq
<1> QED
  BY <1>2, <1>4, <1>5

\* The wallet pays.
LEMMA PaymentAdded ==
  ASSUME TypeOK, NEW i \in Nat, NEW seen \in BOOLEAN,
         payments' = Append(payments, [intent |-> i, seen |-> seen])
  PROVE  /\ payments' \in Seq(Payment) /\ Len(payments') = Len(payments) + 1
         /\ payments'[Len(payments) + 1].intent = i
         /\ payments'[Len(payments) + 1].seen = seen
         /\ \A p \in 1..Len(payments) : payments'[p] = payments[p]
         /\ \A p \in 1..Len(payments') : p \notin 1..Len(payments) => p = Len(payments) + 1
<1> DEFINE e == [intent |-> i, seen |-> seen]
<1>1. e \in Payment
  BY DEF Payment
<1>2. payments \in Seq(Payment) /\ Len(payments) \in Nat
  BY Elements DEF TypeOK
<1>3. payments' = Append(payments, e)
  OBVIOUS
<1>6. e.intent = i /\ e.seen = seen
  OBVIOUS
<1> HIDE DEF e
<1>4. /\ payments' \in Seq(Payment) /\ Len(payments') = Len(payments) + 1
      /\ \A p \in 1..Len(payments) : payments'[p] = payments[p]
      /\ payments'[Len(payments) + 1] = e
  BY <1>1, <1>2, <1>3, AppendProperties
<1>5. \A p \in 1..Len(payments') : p \notin 1..Len(payments) => p = Len(payments) + 1
  BY <1>2, <1>4
<1> QED
  BY <1>4, <1>5, <1>6

\* The engine persists a fill.
LEMMA FillAdded ==
  ASSUME TypeOK, NEW w \in work, Filled(w)
  PROVE  /\ w.stage = "locked" /\ ~Looking(w)
         /\ fills' \in Seq(Filling) /\ Len(fills') = Len(fills) + 1
         /\ fills'[Len(fills) + 1].intent = w.intent /\ fills'[Len(fills) + 1].payment = w.payment
         /\ \A k \in 1..Len(fills) : fills'[k] = fills[k]
         /\ \A k \in 1..Len(fills') : k \notin 1..Len(fills) => k = Len(fills) + 1
<1> DEFINE e == [intent |-> w.intent, payment |-> w.payment]
<1>1. w.stage = "locked" /\ ~Looking(w) /\ fills' = Append(fills, e)
  BY DEF Filled, Looking
<1>2. e \in Filling /\ e.intent = w.intent /\ e.payment = w.payment
  BY <1>1, Elements DEF Filling
<1>3. fills \in Seq(Filling) /\ Len(fills) \in Nat
  BY Elements DEF TypeOK
<1> HIDE DEF e
<1>4. /\ fills' \in Seq(Filling) /\ Len(fills') = Len(fills) + 1
      /\ \A k \in 1..Len(fills) : fills'[k] = fills[k]
      /\ fills'[Len(fills) + 1] = e
  BY <1>1, <1>2, <1>3, AppendProperties
<1>5. \A k \in 1..Len(fills') : k \notin 1..Len(fills) => k = Len(fills) + 1
  BY <1>3, <1>4
<1> QED
  BY <1>1, <1>2, <1>4, <1>5

\* What the handlers become: they run on or end; one quote is asked for, one order submitted, one
\* payment verified, and time passes for those who look an intent up.
LEMMA WorkStep ==
  ASSUME TypeOK, Known, [Next]_vars
  PROVE  /\ work' \subseteq Handler
         /\ \A x \in work' :
              \/ x \in work
              \/ /\ Looking(x) /\ \E i \in 1..Len(intents) : Lapse(i)
                 /\ \E w \in work : Looking(w) /\ w.intent = x.intent /\ w.attempt = x.attempt
              \/ /\ LookUp /\ Looking(x) /\ x.attempt = attempts' /\ x.intent \in Reusable
                 /\ \A j \in Reusable : j <= x.intent
              \/ /\ Submit /\ x.stage = "verifying" /\ x.attempt = client.attempt
                 /\ x.intent = client.intent /\ x.payment = client.payment
              \/ \E w \in work : /\ Verified(w) /\ x.stage = "locked" /\ x.attempt = w.attempt
                                 /\ x.intent = w.intent /\ x.payment = w.payment
<1> DEFINE Good(x) ==
             /\ x \in Handler
             /\ \/ x \in work
                \/ /\ Looking(x) /\ \E i \in 1..Len(intents) : Lapse(i)
                   /\ \E w \in work : Looking(w) /\ w.intent = x.intent /\ w.attempt = x.attempt
                \/ /\ LookUp /\ Looking(x) /\ x.attempt = attempts' /\ x.intent \in Reusable
                   /\ \A j \in Reusable : j <= x.intent
                \/ /\ Submit /\ x.stage = "verifying" /\ x.attempt = client.attempt
                   /\ x.intent = client.intent /\ x.payment = client.payment
                \/ \E w \in work : /\ Verified(w) /\ x.stage = "locked" /\ x.attempt = w.attempt
                                   /\ x.intent = w.intent /\ x.payment = w.payment
<1> SUFFICES ASSUME NEW x \in work' PROVE Good(x)
  OBVIOUS
<1>1. x \in work => Good(x)
  BY DEF TypeOK
<1>2. CASE LookUp
  <2>1. PICK i \in Reusable :
          /\ \A j \in Reusable : j <= i
          /\ work' = work \cup {[stage |-> "looking", attempt |-> attempts', intent |-> i,
                                 late |-> ~intents[i].fresh]}
    BY <1>2 DEF LookUp
  <2> DEFINE e == [stage |-> "looking", attempt |-> attempts', intent |-> i, late |-> ~intents[i].fresh]
  <2>2. attempts' \in Nat /\ i \in Nat /\ (~intents[i].fresh) \in BOOLEAN
    BY <1>2, Elements DEF LookUp, TypeOK, Reusable
  <2>3. e \in Handler /\ Looking(e) /\ e.attempt = attempts' /\ e.intent = i
    BY <2>2 DEF Handler, Looking
  <2>4. x \in work \/ x = e
    BY <2>1
  <2> HIDE DEF e
  <2> QED
    BY <1>1, <1>2, <2>1, <2>3, <2>4
<1>3. ASSUME NEW i \in 1..Len(intents), Lapse(i) PROVE Good(x)
  <2>1. PICK w \in work : x = IF w.stage = "looking" /\ w.intent = i THEN [w EXCEPT !.late = TRUE] ELSE w
    BY <1>3 DEF Lapse
  <2>2. CASE ~(w.stage = "looking" /\ w.intent = i)
    BY <1>1, <2>1, <2>2
  <2>3. CASE w.stage = "looking" /\ w.intent = i
    <3> DEFINE e == [stage |-> "looking", attempt |-> w.attempt, intent |-> w.intent, late |-> TRUE]
    <3>1. w \in [stage : {"looking"}, attempt : Nat, intent : Nat, late : BOOLEAN] /\ Looking(w)
      BY <2>3, Elements DEF Looking
    <3>2. x = e
      BY <2>1, <2>3, <3>1
    <3>3. e \in Handler /\ Looking(e) /\ e.attempt = w.attempt /\ e.intent = w.intent
      BY <3>1 DEF Handler, Looking
    <3> HIDE DEF e
    <3> QED
      BY <1>3, <3>1, <3>2, <3>3
  <2> QED
    BY <2>2, <2>3
<1>4. CASE Submit
  <2> DEFINE e == [stage |-> "verifying", attempt |-> client.attempt, intent |-> client.intent,
                   payment |-> client.payment]
  <2>1. e \in Handler
    BY DEF TypeOK, Client, Handler
  <2>2. /\ e.stage = "verifying" /\ e.attempt = client.attempt
        /\ e.intent = client.intent /\ e.payment = client.payment
    OBVIOUS
  <2>3. x \in work \/ x = e
    BY <1>4 DEF Submit
  <2> HIDE DEF e
  <2> QED
    BY <1>1, <1>4, <2>1, <2>2, <2>3
<1>5. ASSUME NEW w \in work, Verified(w) PROVE Good(x)
  <2> DEFINE e == [stage |-> "locked", attempt |-> w.attempt, intent |-> w.intent, payment |-> w.payment]
  <2>1. w.stage = "verifying" /\ w \in [stage : {"verifying", "locked"}, attempt : Nat, intent : Nat, payment : Nat]
    BY <1>5, Elements DEF Verified, Looking
  <2>2. x \in work \/ x = [w EXCEPT !.stage = "locked"]
    BY <1>5 DEF Verified
  <2>3. [w EXCEPT !.stage = "locked"] = e
    BY <2>1
  <2>4. e \in Handler
    BY <2>1 DEF Handler
  <2>5. e.stage = "locked" /\ e.attempt = w.attempt /\ e.intent = w.intent /\ e.payment = w.payment
    OBVIOUS
  <2> HIDE DEF e
  <2> QED
    BY <1>1, <1>5, <2>2, <2>3, <2>4, <2>5
<1>6. ASSUME NEW w \in work, \/ MintAfterLookUp(w) \/ \E p \in FundedAt(w.intent) : Reuse(w, p)
                             \/ NotVisibleYet(w) \/ Unreachable(w) \/ Filled(w) \/ FillThrew(w)
      PROVE  x \in work
  BY <1>6 DEF MintAfterLookUp, Reuse, NotVisibleYet, Unreachable, Filled, FillThrew
<1>7. ASSUME \/ Mint \/ Pay \/ Decline \/ Leave \/ SubmitRefused \/ SubmitExpired \/ GiveUp \/ Restart
             \/ (\E p \in 1..Len(payments) : Propagate(p)) \/ UNCHANGED vars
      PROVE  x \in work
  BY <1>7 DEF Mint, Pay, Decline, Leave, SubmitRefused, SubmitExpired, GiveUp, Restart, Propagate, vars
<1> HIDE DEF Good
<1> QED
  BY <1>1, <1>2, <1>3, <1>4, <1>5, <1>6, <1>7 DEF Next

\* What the rows of payment_intents become: a new row is pending, and an old one keeps its status,
\* expires, is accepted or is refused.
LEMMA IntentsStep ==
  ASSUME TypeOK, Known, [Next]_vars
  PROVE  /\ intents' \in Seq(Intent) /\ Len(intents') \in Nat /\ Len(intents) <= Len(intents')
         /\ \A i \in 1..Len(intents) :
              \/ intents'[i].status = intents[i].status /\ intents'[i].txid = intents[i].txid
              \/ /\ SubmitExpired /\ i = client.intent
                 /\ intents[i].status = "pending" /\ intents'[i].status = "expired"
              \/ \E w \in work : /\ Unreachable(w) \/ FillThrew(w)
                                 /\ i = w.intent /\ intents'[i].status = "rejected"
              \/ \E w \in work : /\ Verified(w) /\ i = w.intent
                                 /\ intents'[i].status = "paid" /\ intents'[i].txid = w.payment
         /\ \A i \in 1..Len(intents') : i \notin 1..Len(intents) =>
              /\ i = Len(intents) + 1 /\ intents'[i].status = "pending"
              /\ Mint \/ \E w \in work : MintAfterLookUp(w)
<1> DEFINE Types == intents' \in Seq(Intent) /\ Len(intents') \in Nat /\ Len(intents) <= Len(intents')
           Olds == \A i \in 1..Len(intents) :
              \/ intents'[i].status = intents[i].status /\ intents'[i].txid = intents[i].txid
              \/ /\ SubmitExpired /\ i = client.intent
                 /\ intents[i].status = "pending" /\ intents'[i].status = "expired"
              \/ \E w \in work : /\ Unreachable(w) \/ FillThrew(w)
                                 /\ i = w.intent /\ intents'[i].status = "rejected"
              \/ \E w \in work : /\ Verified(w) /\ i = w.intent
                                 /\ intents'[i].status = "paid" /\ intents'[i].txid = w.payment
           News == \A i \in 1..Len(intents') : i \notin 1..Len(intents) =>
              /\ i = Len(intents) + 1 /\ intents'[i].status = "pending"
              /\ Mint \/ \E w \in work : MintAfterLookUp(w)
<1>0. intents \in Seq(Intent) /\ Len(intents) \in Nat
  BY Elements DEF TypeOK
<1>1. ASSUME Mint \/ \E w \in work : MintAfterLookUp(w) PROVE Types /\ Olds /\ News
  <2>1. intents' = Append(intents, NewIntent)
    BY <1>1 DEF Mint, MintAfterLookUp
  <2>2. /\ intents' \in Seq(Intent) /\ Len(intents') = Len(intents) + 1
        /\ \A i \in 1..Len(intents) : intents'[i] = intents[i]
        /\ \A i \in 1..Len(intents') : i \notin 1..Len(intents) =>
             i = Len(intents) + 1 /\ intents'[i].status = "pending"
    BY <2>1, IntentAdded
  <2> QED
    BY <1>0, <1>1, <2>2
<1>2. ASSUME NEW w \in work, NEW p \in FundedAt(w.intent), Reuse(w, p) PROVE Types /\ Olds /\ News
  <2>1. w.intent \in 1..Len(intents) /\ intents' = [intents EXCEPT ![w.intent].fresh = TRUE]
    BY <1>2 DEF Reuse, Known
  <2>2. /\ intents' \in Seq(Intent) /\ Len(intents') = Len(intents)
        /\ \A j \in 1..Len(intents) : /\ intents'[j].status = intents[j].status
                                      /\ intents'[j].txid = intents[j].txid
    BY <2>1, FreshSet
  <2> QED
    BY <1>0, <2>2
<1>3. ASSUME NEW i \in 1..Len(intents), Lapse(i) PROVE Types /\ Olds /\ News
  <2>1. intents' = [intents EXCEPT ![i].fresh = FALSE]
    BY <1>3 DEF Lapse
  <2>2. /\ intents' \in Seq(Intent) /\ Len(intents') = Len(intents)
        /\ \A j \in 1..Len(intents) : /\ intents'[j].status = intents[j].status
                                      /\ intents'[j].txid = intents[j].txid
    BY <2>1, FreshSet
  <2> QED
    BY <1>0, <2>2
<1>4. ASSUME SubmitExpired PROVE Types /\ Olds /\ News
  <2>1. /\ client.intent \in 1..Len(intents) /\ intents[client.intent].status = "pending"
        /\ intents' = [intents EXCEPT ![client.intent].status = "expired"]
        /\ "expired" \in IntentStatus
    BY <1>4 DEF SubmitExpired, Submitting, Known, IntentStatus
  <2>2. /\ intents' \in Seq(Intent) /\ Len(intents') = Len(intents)
        /\ intents'[client.intent].status = "expired"
        /\ \A j \in 1..Len(intents) : j # client.intent => intents'[j] = intents[j]
    BY <2>1, StatusSet
  <2> QED
    BY <1>0, <1>4, <2>1, <2>2
<1>5. ASSUME NEW w \in work, Unreachable(w) \/ FillThrew(w) PROVE Types /\ Olds /\ News
  <2>1. /\ w.intent \in 1..Len(intents) /\ intents' = [intents EXCEPT ![w.intent].status = "rejected"]
        /\ "rejected" \in IntentStatus
    BY <1>5 DEF Unreachable, FillThrew, Known, IntentStatus
  <2>2. /\ intents' \in Seq(Intent) /\ Len(intents') = Len(intents)
        /\ intents'[w.intent].status = "rejected"
        /\ \A j \in 1..Len(intents) : j # w.intent => intents'[j] = intents[j]
    BY <2>1, StatusSet
  <2> QED
    BY <1>0, <1>5, <2>2
<1>6. ASSUME NEW w \in work, Verified(w) PROVE Types /\ Olds /\ News
  <2>1. /\ w.intent \in 1..Len(intents) /\ w.payment \in Nat
        /\ intents' = [intents EXCEPT ![w.intent].status = "paid", ![w.intent].txid = w.payment]
    BY <1>6, Elements DEF Verified, Known, Looking
  <2>2. /\ intents' \in Seq(Intent) /\ Len(intents') = Len(intents)
        /\ intents'[w.intent].status = "paid" /\ intents'[w.intent].txid = w.payment
        /\ \A j \in 1..Len(intents) : j # w.intent => intents'[j] = intents[j]
    BY <2>1, PaidSet
  <2> QED
    BY <1>0, <1>6, <2>2
<1>7. ASSUME intents' = intents PROVE Types /\ Olds /\ News
  BY <1>0, <1>7
<1>8. ASSUME \/ LookUp \/ Pay \/ Decline \/ Leave \/ Submit \/ SubmitRefused \/ GiveUp \/ Restart
             \/ (\E p \in 1..Len(payments) : Propagate(p)) \/ UNCHANGED vars
             \/ (\E w \in work : NotVisibleYet(w) \/ Filled(w))
      PROVE  intents' = intents
  BY <1>8 DEF LookUp, Pay, Decline, Leave, Submit, SubmitRefused, GiveUp, Restart, Propagate, vars,
              NotVisibleYet, Filled
<1> HIDE DEF Types, Olds, News
<1>9. Types /\ Olds /\ News
  BY <1>1, <1>2, <1>3, <1>4, <1>5, <1>6, <1>7, <1>8 DEF Next
<1> QED
  BY <1>9 DEF Types, Olds, News

\* What the payments become: a new one pays the script the client was given.
LEMMA PaymentsStep ==
  ASSUME TypeOK, Known, [Next]_vars
  PROVE  /\ payments' \in Seq(Payment) /\ Len(payments') \in Nat /\ Len(payments) <= Len(payments')
         /\ \A p \in 1..Len(payments) : /\ payments'[p].intent = payments[p].intent
                                        /\ payments[p].seen => payments'[p].seen
         /\ \A p \in 1..Len(payments') : p \notin 1..Len(payments) =>
              /\ Pay /\ p = Len(payments) + 1
              /\ payments'[p].intent = client.intent
              /\ "lagging" \notin faults' => payments'[p].seen
         /\ \A w \in work : Verified(w) => payments'[w.payment].seen
<1> DEFINE Types == payments' \in Seq(Payment) /\ Len(payments') \in Nat /\ Len(payments) <= Len(payments')
           Olds == \A p \in 1..Len(payments) : /\ payments'[p].intent = payments[p].intent
                                               /\ payments[p].seen => payments'[p].seen
           News == \A p \in 1..Len(payments') : p \notin 1..Len(payments) =>
              /\ Pay /\ p = Len(payments) + 1
              /\ payments'[p].intent = client.intent
              /\ "lagging" \notin faults' => payments'[p].seen
<1>0. payments \in Seq(Payment) /\ Len(payments) \in Nat
  BY Elements DEF TypeOK
<1>1. ASSUME Pay PROVE Types /\ Olds /\ News
  <2>1. PICK seen \in BOOLEAN :
          /\ payments' = Append(payments, [intent |-> client.intent, seen |-> seen])
          /\ faults' = IF seen THEN faults ELSE faults \cup {"lagging"}
    BY <1>1 DEF Pay
  <2>2. client.intent \in Nat
    BY DEF TypeOK, Client
  <2>3. /\ payments' \in Seq(Payment) /\ Len(payments') = Len(payments) + 1
        /\ payments'[Len(payments) + 1].intent = client.intent
        /\ payments'[Len(payments) + 1].seen = seen
        /\ \A p \in 1..Len(payments) : payments'[p] = payments[p]
        /\ \A p \in 1..Len(payments') : p \notin 1..Len(payments) => p = Len(payments) + 1
    BY <2>1, <2>2, PaymentAdded
  <2>4. "lagging" \notin faults' => seen
    BY <2>1
  <2> QED
    BY <1>0, <1>1, <2>3, <2>4
<1>2. ASSUME NEW p \in 1..Len(payments), payments' = [payments EXCEPT ![p].seen = TRUE]
      PROVE  Types /\ Olds /\ News /\ payments'[p].seen
  <2>1. /\ payments' \in Seq(Payment) /\ Len(payments') = Len(payments)
        /\ payments'[p].seen
        /\ \A q \in 1..Len(payments) : /\ payments'[q].intent = payments[q].intent
                                       /\ payments[q].seen => payments'[q].seen
    BY <1>2, SeenSet
  <2> QED
    BY <1>0, <2>1
<1>3. ASSUME NEW w \in work, Verified(w)
      PROVE  Types /\ Olds /\ News /\ payments'[w.payment].seen
  <2>1. w.payment \in 1..Len(payments) /\ payments' = [payments EXCEPT ![w.payment].seen = TRUE]
    BY <1>3 DEF Verified, Known, Looking
  <2> QED
    BY <1>2, <2>1
<1>4. ASSUME NEW p \in 1..Len(payments), Propagate(p) PROVE Types /\ Olds /\ News
  BY <1>2, <1>4 DEF Propagate
<1>5. ASSUME payments' = payments PROVE Types /\ Olds /\ News
  BY <1>0, <1>5
<1>6. ASSUME \/ Mint \/ LookUp \/ Decline \/ Leave \/ Submit \/ SubmitRefused \/ SubmitExpired \/ GiveUp \/ Restart
             \/ (\E i \in 1..Len(intents) : Lapse(i)) \/ UNCHANGED vars
             \/ \E w \in work : \/ MintAfterLookUp(w) \/ \E p \in FundedAt(w.intent) : Reuse(w, p)
                                \/ NotVisibleYet(w) \/ Unreachable(w) \/ Filled(w) \/ FillThrew(w)
      PROVE  payments' = payments
  BY <1>6 DEF Mint, LookUp, Decline, Leave, Submit, SubmitRefused, SubmitExpired, GiveUp, Restart, Lapse, vars,
              MintAfterLookUp, Reuse, NotVisibleYet, Unreachable, Filled, FillThrew
<1> HIDE DEF Types, Olds, News
<1>7. Types /\ Olds /\ News
  BY <1>1, <1>3, <1>4, <1>5, <1>6 DEF Next
<1> QED
  BY <1>3, <1>7 DEF Types, Olds, News

\* What the fills become: a new one is the engine's answer to an order it was given.
LEMMA FillsStep ==
  ASSUME TypeOK, [Next]_vars
  PROVE  /\ fills' \in Seq(Filling) /\ Len(fills') \in Nat /\ Len(fills) <= Len(fills')
         /\ \A k \in 1..Len(fills) : fills'[k] = fills[k]
         /\ \A k \in 1..Len(fills') : k \notin 1..Len(fills) =>
              \E w \in work : /\ Filled(w) /\ w.stage = "locked" /\ k = Len(fills) + 1
                              /\ fills'[k].intent = w.intent /\ fills'[k].payment = w.payment
         /\ \A w \in work : Filled(w) => \E k \in 1..Len(fills') : fills'[k].intent = w.intent
<1>0. fills \in Seq(Filling) /\ Len(fills) \in Nat
  BY Elements DEF TypeOK
<1>1. ASSUME NEW w \in work, Filled(w)
      PROVE  /\ fills' \in Seq(Filling) /\ Len(fills') \in Nat /\ Len(fills) <= Len(fills')
             /\ \A k \in 1..Len(fills) : fills'[k] = fills[k]
             /\ \A k \in 1..Len(fills') : k \notin 1..Len(fills) =>
                  /\ w.stage = "locked" /\ k = Len(fills) + 1
                  /\ fills'[k].intent = w.intent /\ fills'[k].payment = w.payment
             /\ \E k \in 1..Len(fills') : fills'[k].intent = w.intent
  <2>1. /\ w.stage = "locked"
        /\ fills' \in Seq(Filling) /\ Len(fills') = Len(fills) + 1
        /\ fills'[Len(fills) + 1].intent = w.intent /\ fills'[Len(fills) + 1].payment = w.payment
        /\ \A k \in 1..Len(fills) : fills'[k] = fills[k]
        /\ \A k \in 1..Len(fills') : k \notin 1..Len(fills) => k = Len(fills) + 1
    BY <1>1, FillAdded
  <2>2. Len(fills) + 1 \in 1..Len(fills')
    BY <1>0, <2>1
  <2> QED
    BY <1>0, <2>1, <2>2
<1>2. ASSUME \/ Mint \/ LookUp \/ Pay \/ Decline \/ Leave \/ Submit \/ SubmitRefused \/ SubmitExpired \/ GiveUp
             \/ Restart \/ (\E i \in 1..Len(intents) : Lapse(i)) \/ UNCHANGED vars
             \/ (\E p \in 1..Len(payments) : Propagate(p))
             \/ \E w \in work : \/ MintAfterLookUp(w) \/ \E p \in FundedAt(w.intent) : Reuse(w, p)
                                \/ Verified(w) \/ NotVisibleYet(w) \/ Unreachable(w) \/ FillThrew(w)
      PROVE  fills' = fills
  BY <1>2 DEF Mint, LookUp, Pay, Decline, Leave, Submit, SubmitRefused, SubmitExpired, GiveUp, Restart, Lapse,
              vars, Propagate, MintAfterLookUp, Reuse, Verified, NotVisibleYet, Unreachable, FillThrew
<1>3. CASE fills' = fills
  <2>1. \A w \in work : ~Filled(w)
    <3> SUFFICES ASSUME NEW w \in work, Filled(w) PROVE FALSE
      OBVIOUS
    <3> QED
      BY <1>0, <1>3, FillAdded
  <2> QED
    BY <1>0, <1>3, <2>1
<1>4. CASE \E w \in work : Filled(w)
  <2>1. PICK w \in work : Filled(w)
    BY <1>4
  <2>2. \A v \in work : Filled(v) => \E k \in 1..Len(fills') : fills'[k].intent = v.intent
    BY <1>1
  <2> QED
    BY <1>1, <2>1, <2>2
<1>5. fills' = fills \/ \E w \in work : Filled(w)
  BY <1>2 DEF Next
<1> QED
  BY <1>3, <1>4, <1>5

\* What the client becomes: it asks for a quote, is offered an intent, pays, sends its order, or is
\* done.
LEMMA ClientStep ==
  ASSUME TypeOK, [Next]_vars
  PROVE  /\ client' \in Client
         /\ \/ client' = client
            \/ client'.pc = "idle" /\ client'.attempt = 0
            \/ /\ Mint /\ client'.pc = "approving" /\ client'.attempt = attempts'
               /\ client'.intent = Len(intents') /\ client'.payment = 0
            \/ /\ \E w \in work : MintAfterLookUp(w) /\ w.attempt = client.attempt
               /\ client'.pc = "approving" /\ client'.attempt = client.attempt
               /\ client'.intent = Len(intents') /\ client'.payment = 0
            \/ LookUp /\ client'.pc = "quoting" /\ client'.attempt = attempts'
            \/ \E w \in work : \E p \in FundedAt(w.intent) :
                 /\ Reuse(w, p) /\ w.attempt = client.attempt
                 /\ client'.pc = "approving" /\ client'.attempt = client.attempt
                 /\ client'.intent = w.intent /\ client'.payment = p
            \/ /\ Pay /\ client'.pc = "approving" /\ client'.attempt = client.attempt
               /\ client'.intent = client.intent /\ client'.payment = Len(payments')
            \/ Submit /\ client'.pc = "filling" /\ client'.attempt = client.attempt
<1> DEFINE Good ==
         /\ client' \in Client
         /\ \/ client' = client
            \/ client'.pc = "idle" /\ client'.attempt = 0
            \/ /\ Mint /\ client'.pc = "approving" /\ client'.attempt = attempts'
               /\ client'.intent = Len(intents') /\ client'.payment = 0
            \/ /\ \E w \in work : MintAfterLookUp(w) /\ w.attempt = client.attempt
               /\ client'.pc = "approving" /\ client'.attempt = client.attempt
               /\ client'.intent = Len(intents') /\ client'.payment = 0
            \/ LookUp /\ client'.pc = "quoting" /\ client'.attempt = attempts'
            \/ \E w \in work : \E p \in FundedAt(w.intent) :
                 /\ Reuse(w, p) /\ w.attempt = client.attempt
                 /\ client'.pc = "approving" /\ client'.attempt = client.attempt
                 /\ client'.intent = w.intent /\ client'.payment = p
            \/ /\ Pay /\ client'.pc = "approving" /\ client'.attempt = client.attempt
               /\ client'.intent = client.intent /\ client'.payment = Len(payments')
            \/ Submit /\ client'.pc = "filling" /\ client'.attempt = client.attempt
<1>0. /\ client \in Client /\ client.attempt \in Nat /\ attempts \in Nat
      /\ client.pc \in {"idle", "quoting", "approving", "filling"}
      /\ client.intent \in Nat /\ client.payment \in Nat
      /\ Len(intents) \in Nat /\ Len(payments) \in Nat
  BY Elements DEF TypeOK, Client
<1>1. ASSUME client' = client PROVE Good
  BY <1>0, <1>1
<1>2. ASSUME client' = Idle PROVE Good
  BY <1>2 DEF Idle, Client
<1>3. ASSUME Mint PROVE Good
  <2>1. /\ client' = [pc |-> "approving", attempt |-> attempts', intent |-> Len(intents'), payment |-> 0]
        /\ attempts' \in Nat /\ intents' = Append(intents, NewIntent)
    BY <1>0, <1>3 DEF Mint
  <2>2. Len(intents') \in Nat
    BY <1>0, <2>1, IntentAdded
  <2> QED
    BY <1>3, <2>1, <2>2 DEF Client
<1>4. ASSUME NEW w \in work, MintAfterLookUp(w), w.attempt = client.attempt PROVE Good
  <2>1. /\ client' = [pc |-> "approving", attempt |-> w.attempt, intent |-> Len(intents'), payment |-> 0]
        /\ intents' = Append(intents, NewIntent)
    BY <1>4 DEF MintAfterLookUp, Answer
  <2>2. Len(intents') \in Nat
    BY <1>0, <2>1, IntentAdded
  <2> QED
    BY <1>0, <1>4, <2>1, <2>2 DEF Client
<1>5. ASSUME LookUp PROVE Good
  <2> DEFINE e == [pc |-> "quoting", attempt |-> attempts', intent |-> 0, payment |-> 0]
  <2>1. client' = [Idle EXCEPT !.pc = "quoting", !.attempt = attempts'] /\ attempts' \in Nat
    BY <1>0, <1>5 DEF LookUp
  <2>2. client' = e
    BY <2>1 DEF Idle
  <2>3. e \in Client /\ e.pc = "quoting" /\ e.attempt = attempts'
    BY <2>1 DEF Client
  <2> HIDE DEF e
  <2> QED
    BY <1>5, <2>2, <2>3
<1>6. ASSUME NEW w \in work, NEW p \in FundedAt(w.intent), Reuse(w, p), w.attempt = client.attempt PROVE Good
  <2>1. client' = [pc |-> "approving", attempt |-> w.attempt, intent |-> w.intent, payment |-> p]
    BY <1>6 DEF Reuse, Answer
  <2>2. w.intent \in Nat /\ p \in Nat
    BY <1>0, <1>6, Elements DEF FundedAt, FundedBy
  <2> QED
    BY <1>0, <1>6, <2>1, <2>2 DEF Client
<1>7. ASSUME Pay PROVE Good
  <2>1. /\ client.pc = "approving" /\ client' = [client EXCEPT !.payment = Len(payments')]
    BY <1>7 DEF Pay
  <2>2. Len(payments') \in Nat
    <3>1. PICK seen \in BOOLEAN : payments' = Append(payments, [intent |-> client.intent, seen |-> seen])
      BY <1>7 DEF Pay
    <3> QED
      BY <1>0, <3>1, PaymentAdded
  <2> DEFINE e == [pc |-> client.pc, attempt |-> client.attempt, intent |-> client.intent,
                   payment |-> Len(payments')]
  <2>3. client' = e
    BY <1>0, <2>1 DEF Client
  <2>4. /\ e \in Client /\ e.pc = client.pc /\ e.attempt = client.attempt /\ e.intent = client.intent
        /\ e.payment = Len(payments')
    BY <1>0, <2>2 DEF Client
  <2> HIDE DEF e
  <2> QED
    BY <1>7, <2>1, <2>3, <2>4
<1>8. ASSUME Submit PROVE Good
  <2>1. client' = [client EXCEPT !.pc = "filling"]
    BY <1>8 DEF Submit
  <2> DEFINE e == [pc |-> "filling", attempt |-> client.attempt, intent |-> client.intent,
                   payment |-> client.payment]
  <2>2. client' = e
    BY <1>0, <2>1 DEF Client
  <2>3. e \in Client /\ e.pc = "filling" /\ e.attempt = client.attempt
    BY <1>0 DEF Client
  <2> HIDE DEF e
  <2> QED
    BY <1>8, <2>2, <2>3
<1>9. ASSUME NEW w \in work, NotVisibleYet(w) \/ Unreachable(w) \/ Filled(w) \/ FillThrew(w)
      PROVE  client' \in {client, Idle}
  BY <1>9 DEF NotVisibleYet, Unreachable, Filled, FillThrew, Answer
<1>10. ASSUME Decline \/ Leave \/ SubmitRefused \/ SubmitExpired \/ GiveUp \/ Restart
       PROVE  client' \in {client, Idle}
  BY <1>10 DEF Decline, Leave, SubmitRefused, SubmitExpired, GiveUp, Restart
<1>11. ASSUME \/ (\E p \in 1..Len(payments) : Propagate(p)) \/ (\E i \in 1..Len(intents) : Lapse(i))
              \/ (\E w \in work : Verified(w)) \/ UNCHANGED vars
       PROVE  client' = client
  BY <1>11 DEF Propagate, Lapse, Verified, vars
<1>12. ASSUME NEW w \in work, w.attempt # client.attempt,
              MintAfterLookUp(w) \/ \E p \in FundedAt(w.intent) : Reuse(w, p)
       PROVE  client' = client
  BY <1>12 DEF MintAfterLookUp, Reuse, Answer
<1> HIDE DEF Good
<1>13. Good
  BY <1>1, <1>2, <1>3, <1>4, <1>5, <1>6, <1>7, <1>8, <1>9, <1>10, <1>11, <1>12 DEF Next
<1> QED
  BY <1>13 DEF Good

\* Attempts are counted, and faults are not forgotten.
LEMMA HistoryStep ==
  ASSUME TypeOK, [Next]_vars
  PROVE  /\ attempts' \in Nat /\ attempts <= attempts'
         /\ attempts' # attempts => attempts' = attempts + 1 /\ client.pc = "idle"
         /\ Mint \/ LookUp => attempts' = attempts + 1
         /\ faults' \subseteq Fault /\ faults \subseteq faults'
<1>0. attempts \in Nat /\ faults \subseteq Fault
  BY DEF TypeOK
<1>1. CASE Mint \/ LookUp
  BY <1>0, <1>1 DEF Mint, LookUp
<1>2. ASSUME NEW w \in work, \/ MintAfterLookUp(w) \/ \E p \in FundedAt(w.intent) : Reuse(w, p)
                             \/ Verified(w) \/ NotVisibleYet(w) \/ Unreachable(w)
                             \/ Filled(w) \/ FillThrew(w)
      PROVE  attempts' = attempts /\ faults' \in {faults, faults \cup {"lagging"}}
  BY <1>2 DEF MintAfterLookUp, Reuse, Verified, NotVisibleYet, Unreachable, Filled, FillThrew, AfterLookUp
<1>3. ASSUME \/ Decline \/ Leave \/ Submit \/ SubmitRefused \/ UNCHANGED vars
             \/ (\E p \in 1..Len(payments) : Propagate(p)) \/ (\E i \in 1..Len(intents) : Lapse(i))
      PROVE  attempts' = attempts /\ faults' = faults
  BY <1>3 DEF Decline, Leave, Submit, SubmitRefused, vars, Propagate, Lapse
<1>4. ASSUME Pay PROVE attempts' = attempts /\ faults' \in {faults, faults \cup {"lagging"}}
  BY <1>4 DEF Pay
<1>5. ASSUME GiveUp \/ SubmitExpired \/ Restart
      PROVE  /\ attempts' = attempts
             /\ faults' \in {faults \cup {f} : f \in {"requoted", "abandoned", "lapsed", "crash"}}
  BY <1>5 DEF GiveUp, SubmitExpired, Restart
<1>6. ASSUME attempts' = attempts,
             \/ faults' \in {faults, faults \cup {"lagging"}}
             \/ faults' \in {faults \cup {f} : f \in {"requoted", "abandoned", "lapsed", "crash"}}
      PROVE  /\ attempts' \in Nat /\ attempts <= attempts'
             /\ faults' \subseteq Fault /\ faults \subseteq faults'
  <2>1. faults' = faults \/ \E f \in Fault : faults' = faults \cup {f}
    BY <1>6 DEF Fault
  <2>2. faults' \subseteq Fault /\ faults \subseteq faults'
    BY <1>0, <2>1
  <2> QED
    BY <1>0, <1>6, <2>2
<1>7. (\/ Mint \/ LookUp) \/ (attempts' = attempts /\
             (\/ faults' \in {faults, faults \cup {"lagging"}}
              \/ faults' \in {faults \cup {f} : f \in {"requoted", "abandoned", "lapsed", "crash"}}))
  BY <1>2, <1>3, <1>4, <1>5 DEF Next
<1>8. CASE ~(Mint \/ LookUp)
  <2>1. attempts' = attempts
    BY <1>7, <1>8
  <2>2. attempts' \in Nat /\ attempts <= attempts' /\ faults' \subseteq Fault /\ faults \subseteq faults'
    BY <1>6, <1>7, <1>8
  <2> QED
    BY <1>8, <2>1, <2>2
<1> QED
  BY <1>1, <1>8

\* Every step keeps the types.
LEMMA TypeStep ==
  ASSUME TypeOK, Known, [Next]_vars
  PROVE  TypeOK'
<1>1. /\ intents' \in Seq(Intent) /\ payments' \in Seq(Payment) /\ fills' \in Seq(Filling)
      /\ client' \in Client /\ work' \subseteq Handler
      /\ attempts' \in Nat /\ faults' \subseteq Fault
  BY IntentsStep, PaymentsStep, FillsStep, ClientStep, WorkStep, HistoryStep
<1> QED
  BY <1>1 DEF TypeOK

-----------------------------------------------------------------------------
(* The inductive invariant *)

\* No intent becomes pending again, and none that was accepted is offered again.
LEMMA StatusStep ==
  ASSUME TypeOK, Known, [Next]_vars
  PROVE  /\ \A i \in 1..Len(intents) : intents'[i].status = "pending" => intents[i].status = "pending"
         /\ \A i \in 1..Len(intents) : intents[i].status \in {"paid", "rejected"} =>
              intents'[i].status \in {"paid", "rejected"}
         /\ \A w \in work : Verified(w) \/ Unreachable(w) \/ FillThrew(w) =>
              intents'[w.intent].status \in {"paid", "rejected"}
<1>1. \A i \in 1..Len(intents) :
        \/ intents'[i].status = intents[i].status
        \/ intents[i].status = "pending" /\ intents'[i].status = "expired"
        \/ intents'[i].status \in {"paid", "rejected"}
  BY IntentsStep
<1>2. ASSUME NEW w \in work, Verified(w) \/ Unreachable(w) \/ FillThrew(w)
      PROVE  intents'[w.intent].status \in {"paid", "rejected"}
  <2>1. w.intent \in 1..Len(intents) /\ (w.stage = "verifying" \/ w.stage = "locked")
    BY <1>2 DEF Known, Verified, Unreachable, FillThrew
  <2>2. CASE Verified(w)
    <3>1. /\ w.payment \in Nat
          /\ intents' = [intents EXCEPT ![w.intent].status = "paid", ![w.intent].txid = w.payment]
      BY <2>1, <2>2, Elements DEF Verified, Looking
    <3> QED
      BY <2>1, <3>1, PaidSet
  <2>3. CASE Unreachable(w) \/ FillThrew(w)
    <3>1. intents' = [intents EXCEPT ![w.intent].status = "rejected"] /\ "rejected" \in IntentStatus
      BY <2>3 DEF Unreachable, FillThrew, IntentStatus
    <3> QED
      BY <2>1, <3>1, StatusSet
  <2> QED
    BY <1>2, <2>2, <2>3
<1> QED
  BY <1>1, <1>2

\* What is named stays known.
LEMMA KnownStep ==
  ASSUME TypeOK, Known, [Next]_vars
  PROVE  Known'
<1>0. /\ Len(intents) \in Nat /\ Len(intents') \in Nat /\ Len(intents) <= Len(intents')
      /\ Len(payments) \in Nat /\ Len(payments') \in Nat /\ Len(payments) <= Len(payments')
  BY Elements, IntentsStep, PaymentsStep
<1>1. \A i \in 1..Len(intents) : i \in 1..Len(intents')
  BY <1>0
<1>2. \A p \in 1..Len(payments) : p \in 1..Len(payments') /\ payments'[p].intent = payments[p].intent
  BY <1>0, PaymentsStep
<1>3. ASSUME NEW p \in 1..Len(payments') PROVE payments'[p].intent \in 1..Len(intents')
  <2>1. CASE p \in 1..Len(payments)
    BY <1>1, <1>2, <2>1 DEF Known
  <2>2. CASE p \notin 1..Len(payments)
    <3>1. Pay /\ payments'[p].intent = client.intent
      BY <2>2, PaymentsStep
    <3> QED
      BY <1>1, <3>1 DEF Known, Pay
  <2> QED
    BY <2>1, <2>2
<1>4. ASSUME NEW k \in 1..Len(fills')
      PROVE  fills'[k].intent \in 1..Len(intents') /\ fills'[k].payment \in 1..Len(payments')
  <2>1. CASE k \in 1..Len(fills)
    BY <1>1, <1>2, <2>1, FillsStep DEF Known
  <2>2. CASE k \notin 1..Len(fills)
    <3>1. PICK w \in work : /\ w.stage = "locked"
                            /\ fills'[k].intent = w.intent /\ fills'[k].payment = w.payment
      BY <2>2, FillsStep
    <3> QED
      BY <1>1, <1>2, <3>1 DEF Known, Looking
  <2> QED
    BY <2>1, <2>2
<1>5. ASSUME NEW x \in work'
      PROVE  /\ x.intent \in 1..Len(intents')
             /\ ~Looking(x) => x.payment \in 1..Len(payments') /\ payments'[x.payment].intent = x.intent
  <2>1. CASE x \in work
    BY <1>1, <1>2, <2>1 DEF Known
  <2>2. CASE Looking(x) /\ \E w \in work : Looking(w) /\ w.intent = x.intent /\ w.attempt = x.attempt
    BY <1>1, <2>2 DEF Known
  <2>3. CASE LookUp /\ Looking(x) /\ x.intent \in Reusable
    BY <1>1, <2>3 DEF Reusable
  <2>4. CASE /\ Submit /\ x.stage = "verifying" /\ x.attempt = client.attempt
             /\ x.intent = client.intent /\ x.payment = client.payment
    BY <1>1, <1>2, <2>4 DEF Known, Submit, Submitting
  <2>5. ASSUME NEW w \in work, Verified(w), x.stage = "locked",
               x.intent = w.intent, x.payment = w.payment
        PROVE  /\ x.intent \in 1..Len(intents')
               /\ ~Looking(x) => x.payment \in 1..Len(payments') /\ payments'[x.payment].intent = x.intent
    <3>1. ~Looking(w)
      BY <2>5 DEF Verified, Looking
    <3> QED
      BY <1>1, <1>2, <2>5, <3>1 DEF Known
  <2> QED
    BY <2>1, <2>2, <2>3, <2>4, <2>5, WorkStep
<1>6. ASSUME client'.pc = "approving"
      PROVE  /\ client'.intent \in 1..Len(intents')
             /\ client'.payment # 0 =>
                  client'.payment \in 1..Len(payments') /\ payments'[client'.payment].intent = client'.intent
  <2>1. CASE client' = client
    BY <1>1, <1>2, <1>6, <2>1 DEF Known
  <2>2. CASE /\ Mint \/ \E w \in work : MintAfterLookUp(w)
             /\ client'.intent = Len(intents') /\ client'.payment = 0
    <3>1. intents' = Append(intents, NewIntent)
      BY <2>2 DEF Mint, MintAfterLookUp
    <3>2. Len(intents') = Len(intents) + 1
      BY <3>1, IntentAdded
    <3> QED
      BY <1>0, <2>2, <3>2
  <2>3. ASSUME NEW w \in work, NEW p \in FundedAt(w.intent), client'.intent = w.intent, client'.payment = p
        PROVE  /\ client'.intent \in 1..Len(intents')
               /\ client'.payment # 0 =>
                    client'.payment \in 1..Len(payments') /\ payments'[client'.payment].intent = client'.intent
    <3>1. w.intent \in 1..Len(intents) /\ (p # 0 => p \in 1..Len(payments) /\ payments[p].intent = w.intent)
      BY <2>3 DEF Known, FundedAt, FundedBy
    <3> QED
      BY <1>1, <1>2, <2>3, <3>1
  <2>4. CASE Pay /\ client'.intent = client.intent /\ client'.payment = Len(payments')
    <3>1. client.intent \in 1..Len(intents)
      BY <2>4 DEF Known, Pay
    <3>2. PICK seen \in BOOLEAN : payments' = Append(payments, [intent |-> client.intent, seen |-> seen])
      BY <2>4 DEF Pay
    <3>3. Len(payments') = Len(payments) + 1 /\ payments'[Len(payments) + 1].intent = client.intent
      BY <1>0, <3>1, <3>2, PaymentAdded
    <3> QED
      BY <1>0, <1>1, <2>4, <3>1, <3>3
  <2> QED
    BY <1>6, <2>1, <2>2, <2>3, <2>4, ClientStep
<1> QED
  BY <1>3, <1>4, <1>5, <1>6 DEF Known, Looking

\* An intent leaves "pending" only through a payment of it.
LEMMA UsedStep ==
  ASSUME TypeOK, Known, UsedIsPaidFor, [Next]_vars
  PROVE  UsedIsPaidFor'
<1>0. /\ Len(payments) \in Nat /\ Len(payments') \in Nat /\ Len(payments) <= Len(payments')
      /\ \A p \in 1..Len(payments) : payments'[p].intent = payments[p].intent
  BY Elements, PaymentsStep
<1>1. ASSUME NEW i, \E p \in 1..Len(payments) : payments[p].intent = i
      PROVE  \E p \in 1..Len(payments') : payments'[p].intent = i
  <2>1. PICK p \in 1..Len(payments) : payments[p].intent = i
    BY <1>1
  <2>2. p \in 1..Len(payments') /\ payments'[p].intent = i
    BY <1>0, <2>1
  <2> QED
    BY <2>2
<1>2. ASSUME NEW i \in 1..Len(intents'), intents'[i].status # "pending"
      PROVE  \E p \in 1..Len(payments) : payments[p].intent = i
  <2>1. i \in 1..Len(intents)
    BY <1>2, IntentsStep
  <2>2. CASE intents'[i].status = intents[i].status
    BY <1>2, <2>1, <2>2 DEF UsedIsPaidFor
  <2>3. CASE SubmitExpired /\ i = client.intent
    BY <2>3 DEF SubmitExpired, Submitting, Known
  <2>4. ASSUME NEW w \in work, Unreachable(w) \/ FillThrew(w) \/ Verified(w), i = w.intent
        PROVE  \E p \in 1..Len(payments) : payments[p].intent = i
    BY <2>4 DEF Unreachable, FillThrew, Verified, Known, Looking
  <2> QED
    BY <2>1, <2>2, <2>3, <2>4, IntentsStep
<1> QED
  BY <1>1, <1>2 DEF UsedIsPaidFor

\* What a fill's payment has to be, said of its fields.
LEMMA PaidRecord ==
  ASSUME NEW r \in Payment, NEW i
  PROVE  r = [intent |-> i, seen |-> TRUE] <=> r.intent = i /\ r.seen
<1>1. r = [intent |-> r.intent, seen |-> r.seen] /\ r.seen \in BOOLEAN
  BY DEF Payment
<1>2. ASSUME r.intent = i, r.seen PROVE r = [intent |-> i, seen |-> TRUE]
  <2>1. r.seen = TRUE
    BY <1>1, <1>2
  <2> QED
    BY <1>1, <1>2, <2>1, Zenon
<1>3. ASSUME r = [intent |-> i, seen |-> TRUE] PROVE r.intent = i /\ r.seen
  <2>1. r.intent = [intent |-> i, seen |-> TRUE].intent /\ r.seen = [intent |-> i, seen |-> TRUE].seen
    BY <1>3, Zenon
  <2> QED
    BY <2>1
<1> QED
  BY <1>2, <1>3

\* What the fills rest on, said of the fields.
FillFacts ==
  \A k \in 1..Len(fills) :
    /\ payments[fills[k].payment].intent = fills[k].intent
    /\ payments[fills[k].payment].seen
    /\ intents[fills[k].intent].status \in {"paid", "rejected"}

\* FillsArePaid and FillFacts say the same.
LEMMA FillsByFields ==
  ASSUME TypeOK, Known
  PROVE  FillsArePaid <=> FillFacts
<1>1. \A k \in 1..Len(fills) :
        payments[fills[k].payment] = [intent |-> fills[k].intent, seen |-> TRUE]
          <=> payments[fills[k].payment].intent = fills[k].intent /\ payments[fills[k].payment].seen
  <2>1. \A k \in 1..Len(fills) : payments[fills[k].payment] \in Payment
    BY Elements DEF Known
  <2> QED
    BY <2>1, PaidRecord
<1> QED
  BY <1>1 DEF FillsArePaid, FillFacts

\* The engine is only given verified orders, and a fill stays paid for.
LEMMA PaidStep ==
  ASSUME TypeOK, Known, LockedIsPaid, FillFacts, [Next]_vars
  PROVE  LockedIsPaid' /\ FillFacts'
<1>1. \A p \in 1..Len(payments) : /\ payments'[p].intent = payments[p].intent
                                  /\ payments[p].seen => payments'[p].seen
  BY PaymentsStep
<1>2. \A i \in 1..Len(intents) : intents[i].status \in {"paid", "rejected"} =>
                                   intents'[i].status \in {"paid", "rejected"}
  BY StatusStep
<1>3. ASSUME NEW w \in work, w.stage = "locked"
      PROVE  /\ payments'[w.payment].intent = w.intent
             /\ payments'[w.payment].seen /\ intents'[w.intent].status \in {"paid", "rejected"}
  BY <1>1, <1>2, <1>3 DEF LockedIsPaid, Known, Looking
<1>4. ASSUME NEW x \in work', x.stage = "locked"
      PROVE  payments'[x.payment].seen /\ intents'[x.intent].status \in {"paid", "rejected"}
  <2>1. CASE x \in work
    BY <1>3, <1>4, <2>1
  <2>2. ASSUME NEW w \in work, Verified(w), x.intent = w.intent, x.payment = w.payment
        PROVE  payments'[x.payment].seen /\ intents'[x.intent].status \in {"paid", "rejected"}
    BY <2>2, PaymentsStep, StatusStep
  <2> QED
    BY <1>4, <2>1, <2>2, WorkStep DEF Looking
<1>5. ASSUME NEW k \in 1..Len(fills')
      PROVE  /\ payments'[fills'[k].payment].intent = fills'[k].intent
             /\ payments'[fills'[k].payment].seen
             /\ intents'[fills'[k].intent].status \in {"paid", "rejected"}
  <2>1. CASE k \in 1..Len(fills)
    <3>1. fills'[k] = fills[k]
      BY <2>1, FillsStep
    <3>2. /\ fills[k].intent \in 1..Len(intents) /\ fills[k].payment \in 1..Len(payments)
          /\ payments[fills[k].payment].intent = fills[k].intent
          /\ payments[fills[k].payment].seen
          /\ intents[fills[k].intent].status \in {"paid", "rejected"}
      BY <2>1 DEF FillFacts, Known
    <3> QED
      BY <1>1, <1>2, <3>1, <3>2
  <2>2. CASE k \notin 1..Len(fills)
    BY <1>3, <2>2, FillsStep
  <2> QED
    BY <2>1, <2>2
<1> QED
  BY <1>4, <1>5 DEF LockedIsPaid, FillFacts

\* An order leaves the engine filled or refused, unless the daemon stops.
LEMMA LockedStays ==
  ASSUME TypeOK, [Next]_vars, NEW w \in work, w.stage = "locked"
  PROVE  w \in work' \/ Filled(w) \/ FillThrew(w) \/ "crash" \in faults'
<1>1. ASSUME NEW v \in work, \/ MintAfterLookUp(v) \/ \E p \in FundedAt(v.intent) : Reuse(v, p)
                             \/ Verified(v) \/ NotVisibleYet(v) \/ Unreachable(v)
      PROVE  w \in work'
  BY <1>1 DEF MintAfterLookUp, Reuse, Verified, NotVisibleYet, Unreachable
<1>2. ASSUME NEW v \in work, Filled(v) \/ FillThrew(v) PROVE w \in work' \/ v = w
  BY <1>2 DEF Filled, FillThrew
<1>3. ASSUME NEW i \in 1..Len(intents), Lapse(i) PROVE w \in work'
  <2>1. work' = {IF v.stage = "looking" /\ v.intent = i THEN [v EXCEPT !.late = TRUE] ELSE v : v \in work}
    BY <1>3 DEF Lapse
  <2> QED
    BY <2>1
<1>4. ASSUME Restart PROVE "crash" \in faults'
  BY <1>4 DEF Restart
<1>5. ASSUME \/ Mint \/ LookUp \/ Pay \/ Decline \/ Leave \/ Submit \/ SubmitRefused \/ SubmitExpired \/ GiveUp
             \/ (\E p \in 1..Len(payments) : Propagate(p)) \/ UNCHANGED vars
      PROVE  w \in work'
  BY <1>5 DEF Mint, LookUp, Pay, Decline, Leave, Submit, SubmitRefused, SubmitExpired, GiveUp, Propagate, vars
<1> QED
  BY <1>1, <1>2, <1>3, <1>4, <1>5 DEF Next

\* What was accepted is with the engine until it bought a fill or is owed back.
LEMMA ServedStep ==
  ASSUME TypeOK, Known, PaidIsServed, [Next]_vars
  PROVE  PaidIsServed'
<1> SUFFICES ASSUME "crash" \notin faults', NEW i \in 1..Len(intents'), intents'[i].status = "paid"
             PROVE  \/ \E w \in work' : w.stage = "locked" /\ w.intent = i
                    \/ \E k \in 1..Len(fills') : fills'[k].intent = i
  BY DEF PaidIsServed
<1>1. "crash" \notin faults
  BY HistoryStep
<1>2. i \in 1..Len(intents)
  BY IntentsStep
<1>3. \A k \in 1..Len(fills) : k \in 1..Len(fills') /\ fills'[k] = fills[k]
  <2>1. Len(fills) \in Nat /\ Len(fills') \in Nat /\ Len(fills) <= Len(fills')
    BY Elements, FillsStep
  <2> QED
    BY <2>1, FillsStep
<1>4. CASE intents[i].status = "paid"
  <2>1. CASE \E k \in 1..Len(fills) : fills[k].intent = i
    BY <1>3, <2>1
  <2>2. ASSUME NEW w \in work, w.stage = "locked", w.intent = i
        PROVE  \/ \E x \in work' : x.stage = "locked" /\ x.intent = i
               \/ \E k \in 1..Len(fills') : fills'[k].intent = i
    <3>1. CASE w \in work'
      BY <2>2, <3>1
    <3>2. CASE Filled(w)
      BY <2>2, <3>2, FillsStep
    <3>3. CASE FillThrew(w)
      <4>1. intents' = [intents EXCEPT ![i].status = "rejected"] /\ "rejected" \in IntentStatus
        BY <2>2, <3>3 DEF FillThrew, IntentStatus
      <4>2. intents'[i].status = "rejected"
        BY <1>2, <4>1, StatusSet
      <4> QED
        BY <4>2
    <3> QED
      BY <2>2, <3>1, <3>2, <3>3, LockedStays
  <2> QED
    BY <1>1, <1>2, <1>4, <2>1, <2>2 DEF PaidIsServed
<1>5. CASE intents[i].status # "paid"
  <2>1. PICK w \in work : Verified(w) /\ i = w.intent
    BY <1>2, <1>5, IntentsStep
  <2> DEFINE e == [stage |-> "locked", attempt |-> w.attempt, intent |-> w.intent, payment |-> w.payment]
  <2>2. w \in [stage : {"verifying", "locked"}, attempt : Nat, intent : Nat, payment : Nat]
    BY <2>1, Elements DEF Verified, Looking
  <2>3. [w EXCEPT !.stage = "locked"] = e
    BY <2>2
  <2>4. [w EXCEPT !.stage = "locked"] \in work'
    BY <2>1 DEF Verified
  <2>5. e.stage = "locked" /\ e.intent = w.intent
    OBVIOUS
  <2> HIDE DEF e
  <2> QED
    BY <2>1, <2>3, <2>4, <2>5
<1> QED
  BY <1>4, <1>5

\* Attempts, quotes and orders stay in step.
LEMMA TurnsStep ==
  ASSUME TypeOK, Known, Turns, [Next]_vars
  PROVE  Turns'
<1>0. /\ attempts \in Nat /\ attempts' \in Nat /\ attempts <= attempts'
      /\ client.attempt \in Nat /\ client'.attempt \in Nat
      /\ \A w \in work : w.attempt \in Nat
      /\ Mint \/ LookUp => attempts' = attempts + 1
  BY HistoryStep, ClientStep, Elements DEF TypeOK, Client
<1>1. client'.attempt <= attempts' /\ (client'.pc # "idle" => client'.attempt # 0)
  <2>1. client.attempt <= attempts /\ (client.pc # "idle" => client.attempt # 0)
    BY DEF Turns
  <2>2. ASSUME NEW w \in work, w.attempt = client.attempt PROVE client.attempt # 0
    BY <1>0, <2>2 DEF Turns
  <2>3. Pay \/ Submit => client.pc # "idle"
    BY DEF Pay, Submit, Submitting
  <2> QED
    BY <1>0, <2>1, <2>2, <2>3, ClientStep
<1>2. ASSUME NEW x \in work'
      PROVE  \/ \E w \in work : (Looking(w) <=> Looking(x)) /\ w.attempt = x.attempt
             \/ LookUp /\ Looking(x) /\ x.attempt = attempts'
             \/ Submit /\ ~Looking(x) /\ x.attempt = client.attempt
  BY <1>2, WorkStep DEF Looking, Verified
<1>3. ASSUME NEW x \in work' PROVE x.attempt \in 1..attempts'
  <2>1. Submit => client.attempt \in 1..attempts
    BY <1>0 DEF Turns, Submit, Submitting
  <2> QED
    BY <1>0, <1>2, <1>3, <2>1 DEF Turns
<1>4. ASSUME LookUp PROVE client'.pc = "quoting" /\ client'.attempt = attempts'
  BY <1>4 DEF LookUp, Idle
<1>5. ASSUME NEW w \in work, w.attempt = client.attempt,
             MintAfterLookUp(w) \/ \E p \in FundedAt(w.intent) : Reuse(w, p),
             NEW x \in work'
      PROVE  x.attempt # client.attempt
  <2>1. Looking(w) /\ x \in work /\ x # w
    BY <1>5 DEF MintAfterLookUp, Reuse, Looking
  <2> QED
    BY <1>5, <2>1 DEF Turns
<1>6. ASSUME NEW x \in work', x.attempt = client'.attempt
      PROVE  client'.pc = IF Looking(x) THEN "quoting" ELSE "filling"
  <2>1. CASE LookUp
    <3>1. ~Submit
      BY <2>1 DEF LookUp, Submit, Submitting
    <3>2. ASSUME ~Looking(x) PROVE FALSE
      BY <1>0, <1>2, <1>4, <1>6, <2>1, <3>1, <3>2 DEF Turns
    <3> QED
      BY <1>4, <2>1, <3>2
  <2>2. CASE Submit
    <3>1. client'.pc = "filling" /\ client'.attempt = client.attempt /\ client.pc = "approving"
      <4>1. client' = [client EXCEPT !.pc = "filling"] /\ client.pc = "approving"
        BY <2>2 DEF Submit, Submitting
      <4> QED
        BY <4>1 DEF TypeOK, Client
    <3>2. ~LookUp
      BY <3>1 DEF LookUp
    <3>3. ASSUME Looking(x) PROVE FALSE
      BY <1>2, <1>6, <3>1, <3>2, <3>3 DEF Turns
    <3> QED
      BY <3>1, <3>3
  <2>3. CASE ~LookUp /\ ~Submit
    <3>1. PICK w \in work : (Looking(w) <=> Looking(x)) /\ w.attempt = x.attempt
      BY <1>2, <2>3
    <3>2. /\ w.attempt \in 1..attempts
          /\ w.attempt = client.attempt => client.pc = IF Looking(x) THEN "quoting" ELSE "filling"
      BY <3>1 DEF Turns
    <3>3. CASE client' = client
      BY <1>6, <3>1, <3>2, <3>3
    <3>4. CASE client'.pc = "idle" /\ client'.attempt = 0
      BY <1>6, <3>1, <3>2, <3>4
    <3>5. CASE Mint /\ client'.attempt = attempts'
      BY <1>0, <1>6, <3>1, <3>2, <3>5
    <3>6. ASSUME NEW v \in work, v.attempt = client.attempt,
                 MintAfterLookUp(v) \/ \E p \in FundedAt(v.intent) : Reuse(v, p),
                 client'.attempt = client.attempt
          PROVE  FALSE
      BY <1>5, <1>6, <3>6
    <3>7. CASE Pay /\ client'.attempt = client.attempt
      <4>1. client.pc = "approving"
        BY <3>7 DEF Pay
      <4> QED
        BY <1>6, <3>1, <3>2, <3>7, <4>1
    <3> QED
      BY <2>3, <3>3, <3>4, <3>5, <3>6, <3>7, ClientStep
  <2> QED
    BY <2>1, <2>2, <2>3
<1>7. ASSUME NEW x \in work', NEW y \in work', Looking(x), Looking(y), x.attempt = y.attempt
      PROVE  x = y
  <2>1. ASSUME NEW i \in 1..Len(intents), Lapse(i) PROVE x = y
    <3> DEFINE f(w) == IF w.stage = "looking" /\ w.intent = i THEN [w EXCEPT !.late = TRUE] ELSE w
    <3>1. PICK v \in work, w \in work : x = f(v) /\ y = f(w)
      BY <2>1 DEF Lapse
    <3>2. \A u \in work : /\ Looking(f(u)) => Looking(u)
                          /\ Looking(u) => f(u).attempt = u.attempt
      <4>1. ASSUME NEW u \in work, u.stage = "looking"
            PROVE  [u EXCEPT !.late = TRUE].attempt = u.attempt
        BY <4>1, Elements DEF Looking
      <4> QED
        BY <4>1 DEF Looking
    <3> HIDE DEF f
    <3>3. v.attempt = w.attempt /\ Looking(v) /\ Looking(w)
      BY <1>7, <3>1, <3>2
    <3>4. v = w
      BY <3>3 DEF Turns
    <3> QED
      BY <3>1, <3>4
  <2>2. CASE ~\E i \in 1..Len(intents) : Lapse(i)
    <3>1. \A z \in {x, y} : z \in work \/ (LookUp /\ z.attempt = attempts')
      BY <1>7, <2>2, WorkStep DEF Looking
    <3>2. CASE x \in work /\ y \in work
      BY <1>7, <3>2 DEF Turns
    <3>3. CASE LookUp
      <4>1. PICK e : work' = work \cup {e}
        BY <3>3 DEF LookUp
      <4>2. \A z \in work : Looking(z) => z.attempt <= attempts
        BY DEF Turns
      <4> QED
        BY <1>0, <1>7, <3>1, <3>2, <3>3, <4>1, <4>2
    <3> QED
      BY <3>1, <3>2, <3>3
  <2> QED
    BY <2>1, <2>2
<1> QED
  BY <1>1, <1>3, <1>6, <1>7 DEF Turns, Looking

\* While no client gives up its order, an order has its intent to itself.
LEMMA OneOrderStep ==
  ASSUME TypeOK, Known, Turns, OneOrder, [Next]_vars
  PROVE  OneOrder'
<1> SUFFICES ASSUME "abandoned" \notin faults' PROVE OneOrder'
  BY DEF OneOrder
<1>0. /\ \A w \in work : ~Looking(w) => client.pc = "filling" /\ w.attempt = client.attempt
      /\ \A v, w \in work : ~Looking(v) /\ ~Looking(w) => v = w
      /\ \A w \in work : ~Looking(w) => \A k \in 1..Len(fills) : fills[k].intent # w.intent
      /\ \A w \in work : w.stage = "verifying" => intents[w.intent].status = "pending"
      /\ \A w \in work : w.stage = "locked" =>
           intents[w.intent].status = "paid" /\ intents[w.intent].txid = w.payment
      /\ \A k \in 1..Len(fills) :
           intents[fills[k].intent].status = "paid" /\ intents[fills[k].intent].txid = fills[k].payment
      /\ IntentIsSingleUse
  BY HistoryStep DEF OneOrder
<1>1. /\ \A w \in work : w.intent \in 1..Len(intents)
      /\ \A k \in 1..Len(fills) : fills[k].intent \in 1..Len(intents)
      /\ \A w \in work : w.stage = "verifying" \/ w.stage = "locked" => ~Looking(w)
  BY DEF Known, Looking
<1> DEFINE Keeps(i) == intents'[i].status = intents[i].status /\ intents'[i].txid = intents[i].txid
<1>2. ASSUME fills' = fills,
             \A k \in 1..Len(fills) : Keeps(fills[k].intent),
             \A x \in work' : ~Looking(x) =>
               /\ x \in work /\ Keeps(x.intent)
               /\ client'.pc = client.pc /\ client'.attempt = client.attempt
      PROVE  OneOrder'
  <2>1. \A x \in work' : ~Looking(x) => client'.pc = "filling" /\ x.attempt = client'.attempt
    BY <1>0, <1>2
  <2>2. \A v, w \in work' : ~Looking(v) /\ ~Looking(w) => v = w
    BY <1>0, <1>2
  <2>3. \A x \in work' : ~Looking(x) => \A k \in 1..Len(fills') : fills'[k].intent # x.intent
    BY <1>0, <1>2
  <2>4. \A x \in work' : x.stage = "verifying" \/ x.stage = "locked" => x \in work /\ Keeps(x.intent)
    BY <1>2 DEF Looking
  <2>5. \A k \in 1..Len(fills') :
          intents'[fills'[k].intent].status = "paid" /\ intents'[fills'[k].intent].txid = fills'[k].payment
    BY <1>0, <1>2
  <2>6. IntentIsSingleUse'
    BY <1>0, <1>2 DEF IntentIsSingleUse
  <2> QED
    BY <1>0, <2>1, <2>2, <2>3, <2>4, <2>5, <2>6 DEF OneOrder, Looking
<1>3. ASSUME intents' = intents PROVE \A i : Keeps(i)
  BY <1>3
<1>4. CASE Mint \/ LookUp \/ Pay \/ Decline \/ Leave \/ SubmitRefused \/ SubmitExpired
  <2>1. fills' = fills /\ client.pc \in {"idle", "approving"}
    BY <1>4 DEF Mint, LookUp, Pay, Decline, Leave, SubmitRefused, SubmitExpired, Submitting
  <2>2. \A x \in work' : x \in work \/ Looking(x)
    <3>1. \A w \in work : ~Verified(w)
      BY <1>0, <1>1, <2>1 DEF Verified
    <3>2. CASE LookUp
      <4>1. ~Submit
        BY <3>2 DEF LookUp, Submit, Submitting
      <4> QED
        BY <3>1, <4>1, WorkStep
    <3>3. CASE work' = work
      BY <3>3
    <3> QED
      BY <1>4, <3>2, <3>3 DEF Mint, Pay, Decline, Leave, SubmitRefused, SubmitExpired
  <2>3. \A x \in work' : Looking(x)
    BY <1>0, <2>1, <2>2
  <2>4. \A i \in 1..Len(intents) : intents[i].status = "paid" => Keeps(i)
    <3>1. ASSUME NEW w \in work PROVE ~Unreachable(w) /\ ~FillThrew(w) /\ ~Verified(w)
      BY <1>0, <1>1, <2>1, <3>1 DEF Unreachable, FillThrew, Verified
    <3> QED
      BY <3>1, IntentsStep
  <2> QED
    BY <1>0, <1>1, <1>2, <2>1, <2>3, <2>4
<1>5. CASE Submit
  <2>1. /\ fills' = fills /\ intents' = intents /\ client.pc = "approving"
        /\ intents[client.intent].status = "pending"
        /\ client' = [client EXCEPT !.pc = "filling"]
    BY <1>5 DEF Submit, Submitting
  <2>2. client'.pc = "filling" /\ client'.attempt = client.attempt
    BY <2>1 DEF TypeOK, Client
  <2>3. PICK e \in {[stage |-> "verifying", attempt |-> client.attempt, intent |-> client.intent,
                     payment |-> client.payment]} :
          /\ work' = work \cup {e} /\ e.stage = "verifying"
          /\ e.attempt = client.attempt /\ e.intent = client.intent
    BY <1>5 DEF Submit
  <2>4. \A x \in work' : ~Looking(x) => x = e
    BY <1>0, <2>1, <2>3
  <2>5. \A k \in 1..Len(fills) : fills[k].intent # e.intent
    BY <1>0, <2>1, <2>3
  <2>6. IntentIsSingleUse'
    BY <1>0, <2>1 DEF IntentIsSingleUse
  <2>7. \A x \in work' : x.stage = "verifying" \/ x.stage = "locked" => x = e
    BY <2>4 DEF Looking
  <2> QED
    BY <1>0, <2>1, <2>2, <2>3, <2>4, <2>5, <2>6, <2>7 DEF OneOrder, Looking
<1>6. ASSUME NEW w \in work, Verified(w) PROVE OneOrder'
  <2>1. /\ w.stage = "verifying" /\ ~Looking(w) /\ fills' = fills /\ client' = client
        /\ w.intent \in 1..Len(intents) /\ w.payment \in Nat
        /\ intents' = [intents EXCEPT ![w.intent].status = "paid", ![w.intent].txid = w.payment]
    BY <1>1, <1>6, Elements DEF Verified
  <2>2. /\ intents'[w.intent].status = "paid" /\ intents'[w.intent].txid = w.payment
        /\ \A j \in 1..Len(intents) : j # w.intent => intents'[j] = intents[j]
    BY <2>1, PaidSet
  <2>3. \A x \in work' : ~Looking(x) =>
          x.stage = "locked" /\ x.intent = w.intent /\ x.payment = w.payment /\ x.attempt = w.attempt
    <3> DEFINE e == [stage |-> "locked", attempt |-> w.attempt, intent |-> w.intent, payment |-> w.payment]
    <3>1. w \in [stage : {"verifying", "locked"}, attempt : Nat, intent : Nat, payment : Nat]
      BY <2>1, Elements
    <3>2. [w EXCEPT !.stage = "locked"] = e
      BY <3>1
    <3>3. work' = (work \ {w}) \cup {[w EXCEPT !.stage = "locked"]}
      BY <1>6 DEF Verified
    <3>4. /\ e.stage = "locked" /\ e.intent = w.intent /\ e.payment = w.payment
          /\ e.attempt = w.attempt
      OBVIOUS
    <3> HIDE DEF e
    <3> QED
      BY <1>0, <2>1, <3>2, <3>3, <3>4
  <2>4. \A v, x \in work' : ~Looking(v) /\ ~Looking(x) => v = x
    <3>1. PICK e : work' = (work \ {w}) \cup {e}
      BY <1>6 DEF Verified
    <3> QED
      BY <1>0, <2>1, <3>1
  <2>5. \A k \in 1..Len(fills) : fills[k].intent # w.intent /\ intents'[fills[k].intent] = intents[fills[k].intent]
    BY <1>0, <1>1, <2>1, <2>2
  <2>6. IntentIsSingleUse'
    BY <1>0, <2>1 DEF IntentIsSingleUse
  <2>7. \A x \in work' : /\ x.stage # "verifying"
                         /\ x.stage = "locked" => x.intent = w.intent /\ x.payment = w.payment
    BY <2>3 DEF Looking
  <2>8. \A x \in work' : ~Looking(x) => client'.pc = "filling" /\ x.attempt = client'.attempt
    BY <1>0, <2>1, <2>3
  <2>9. \A x \in work' : ~Looking(x) => \A k \in 1..Len(fills') : fills'[k].intent # x.intent
    BY <2>1, <2>3, <2>5
  <2>10. \A k \in 1..Len(fills') :
           intents'[fills'[k].intent].status = "paid" /\ intents'[fills'[k].intent].txid = fills'[k].payment
    <3>1. fills' = fills
      BY <2>1
    <3>2. \A k \in 1..Len(fills) :
            intents[fills[k].intent].status = "paid" /\ intents[fills[k].intent].txid = fills[k].payment
      BY <1>0
    <3> QED
      BY <2>5, <3>1, <3>2
  <2>11. \A x \in work' : x.stage = "locked" =>
           intents'[x.intent].status = "paid" /\ intents'[x.intent].txid = x.payment
    BY <2>2, <2>7
  <2> QED
    BY <2>4, <2>6, <2>7, <2>8, <2>9, <2>10, <2>11 DEF OneOrder, Looking
<1>7. ASSUME NEW w \in work, NotVisibleYet(w) \/ Unreachable(w) \/ FillThrew(w) PROVE OneOrder'
  <2>1. /\ ~Looking(w) /\ fills' = fills /\ work' = work \ {w}
    BY <1>1, <1>7 DEF NotVisibleYet, Unreachable, FillThrew
  <2>2. \A x \in work' : Looking(x)
    BY <1>0, <2>1
  <2>3. \A k \in 1..Len(fills) : Keeps(fills[k].intent)
    <3>1. CASE NotVisibleYet(w)
      BY <1>3, <3>1 DEF NotVisibleYet
    <3>2. CASE Unreachable(w) \/ FillThrew(w)
      <4>1. intents' = [intents EXCEPT ![w.intent].status = "rejected"] /\ "rejected" \in IntentStatus
        BY <3>2 DEF Unreachable, FillThrew, IntentStatus
      <4>2. \A j \in 1..Len(intents) : j # w.intent => intents'[j] = intents[j]
        BY <1>1, <4>1, StatusSet
      <4> QED
        BY <1>0, <1>1, <2>1, <4>2
    <3> QED
      BY <1>7, <3>1, <3>2
  <2> QED
    BY <1>2, <2>1, <2>2, <2>3
<1>8. ASSUME NEW w \in work, Filled(w) PROVE OneOrder'
  <2>1. /\ ~Looking(w) /\ w.stage = "locked" /\ intents' = intents /\ work' = work \ {w}
        /\ Len(fills) \in Nat /\ Len(fills') = Len(fills) + 1
        /\ fills'[Len(fills) + 1].intent = w.intent /\ fills'[Len(fills) + 1].payment = w.payment
        /\ \A k \in 1..Len(fills) : fills'[k] = fills[k]
        /\ \A k \in 1..Len(fills') : k \notin 1..Len(fills) => k = Len(fills) + 1
    BY <1>8, FillAdded, Elements DEF Filled
  <2>2. \A x \in work' : Looking(x)
    BY <1>0, <2>1
  <2>3. ASSUME NEW k \in 1..Len(fills'), NEW l \in 1..Len(fills'), k # l
        PROVE  fills'[k].intent # fills'[l].intent
    BY <1>0, <2>1, <2>3 DEF IntentIsSingleUse
  <2>4. ASSUME NEW k \in 1..Len(fills')
        PROVE  /\ intents'[fills'[k].intent].status = "paid"
               /\ intents'[fills'[k].intent].txid = fills'[k].payment
    BY <1>0, <2>1, <2>4
  <2>5. \A x \in work' : x.stage # "verifying" /\ x.stage # "locked"
    BY <2>2 DEF Looking
  <2> QED
    BY <2>2, <2>3, <2>4, <2>5 DEF OneOrder, Looking, IntentIsSingleUse
<1>9. ASSUME NEW w \in work, MintAfterLookUp(w) \/ \E p \in FundedAt(w.intent) : Reuse(w, p) PROVE OneOrder'
  <2>1. /\ Looking(w) /\ fills' = fills /\ work' = work \ {w} /\ w.intent \in 1..Len(intents)
        /\ \/ intents' = Append(intents, NewIntent)
           \/ intents' = [intents EXCEPT ![w.intent].fresh = TRUE]
    BY <1>1, <1>9 DEF MintAfterLookUp, Reuse, Looking
  <2>2. \A i \in 1..Len(intents) : Keeps(i)
    BY <2>1, IntentAdded, FreshSet
  <2>3. \A x \in work' : ~Looking(x) => w.attempt # client.attempt
    BY <1>0, <2>1 DEF Turns
  <2>4. w.attempt # client.attempt => client' = client
    BY <1>9 DEF MintAfterLookUp, Reuse, Answer
  <2> QED
    BY <1>1, <1>2, <2>1, <2>2, <2>3, <2>4
<1>10. CASE GiveUp
  <2>1. client.pc = "quoting" /\ fills' = fills /\ intents' = intents /\ work' = work
    <3>1. /\ client.pc \in {"quoting", "filling"} /\ fills' = fills /\ intents' = intents /\ work' = work
          /\ faults' = faults \cup {IF client.pc = "quoting" THEN "requoted" ELSE "abandoned"}
      BY <1>10 DEF GiveUp
    <3> QED
      BY <3>1
  <2>2. \A x \in work' : Looking(x)
    BY <1>0, <2>1
  <2> QED
    BY <1>2, <1>3, <2>1, <2>2
<1>11. CASE Restart
  <2>1. work' = {} /\ fills' = fills /\ intents' = intents
    BY <1>11 DEF Restart
  <2> QED
    BY <1>2, <1>3, <2>1
<1>12. ASSUME NEW i \in 1..Len(intents), Lapse(i) PROVE OneOrder'
  <2>1. fills' = fills /\ client' = client /\ intents' = [intents EXCEPT ![i].fresh = FALSE]
    BY <1>12 DEF Lapse
  <2>2. \A j \in 1..Len(intents) : Keeps(j)
    BY <2>1, FreshSet
  <2>3. \A x \in work' : ~Looking(x) => x \in work
    <3>1. ~Submit /\ \A w \in work : ~Verified(w)
      <4>1. client' = client /\ \A j \in 1..Len(intents) : Keeps(j)
        BY <2>1, <2>2
      <4>2. ASSUME Submit PROVE FALSE
        <5>1. client.pc = "approving" /\ client' = [client EXCEPT !.pc = "filling"]
          BY <4>2 DEF Submit, Submitting
        <5>2. client'.pc = "filling"
          BY <5>1 DEF TypeOK, Client
        <5> QED
          BY <4>1, <5>1, <5>2
      <4>3. ASSUME NEW w \in work, Verified(w) PROVE FALSE
        <5>1. w.stage = "verifying" /\ w.intent \in 1..Len(intents)
          BY <1>1, <4>3 DEF Verified
        <5>2. intents'[w.intent].status = "paid"
          <6>1. /\ w.payment \in Nat
                /\ intents' = [intents EXCEPT ![w.intent].status = "paid", ![w.intent].txid = w.payment]
            BY <1>1, <4>3, <5>1, Elements DEF Verified
          <6> QED
            BY <5>1, <6>1, PaidSet
        <5> QED
          BY <1>0, <4>1, <5>1, <5>2
      <4> QED
        BY <4>2, <4>3
    <3> QED
      BY <3>1, WorkStep
  <2> QED
    BY <1>1, <1>2, <2>1, <2>2, <2>3
<1>13. CASE UNCHANGED vars \/ \E p \in 1..Len(payments) : Propagate(p)
  <2>1. fills' = fills /\ client' = client /\ intents' = intents /\ work' = work
    BY <1>13 DEF vars, Propagate
  <2> QED
    BY <1>2, <1>3, <2>1
<1> HIDE DEF Keeps
<1> QED
  BY <1>4, <1>5, <1>6, <1>7, <1>8, <1>9, <1>10, <1>11, <1>12, <1>13 DEF Next

\* While the chain service is prompt and quotes are waited for, the last pending intent is the one
\* every quote offers.
LEMMA OneQuoteStep ==
  ASSUME TypeOK, Known, UsedIsPaidFor, Turns, OneQuote, [Next]_vars
  PROVE  OneQuote'
<1> SUFFICES ASSUME faults' \cap {"lagging", "requoted"} = {} PROVE OneQuote'
  BY DEF OneQuote
<1> DEFINE Pending(i) == intents[i].status = "pending"
           Last(i) == \A j \in 1..Len(intents') : intents'[j].status = "pending" => j <= i
<1>1. /\ faults \cap {"lagging", "requoted"} = {}
      /\ "lagging" \notin faults' /\ "requoted" \notin faults'
  BY HistoryStep
<1>2. \A p \in 1..Len(payments) :
        payments[p].seen /\ (Pending(payments[p].intent) => LastPending(payments[p].intent))
  BY <1>1 DEF OneQuote
<1>3. \A w \in work : Looking(w) =>
        client.pc = "quoting" /\ w.attempt = client.attempt /\ LastPending(w.intent)
  BY <1>1 DEF OneQuote
<1>4. client.pc = "approving" /\ client.payment = 0 =>
        LastPending(client.intent) /\ \A p \in 1..Len(payments) : ~Pending(payments[p].intent)
  BY <1>1 DEF OneQuote
<1>5. /\ \A p \in 1..Len(payments) : payments[p].intent \in 1..Len(intents)
      /\ \A w \in work : w.intent \in 1..Len(intents)
      /\ client.pc = "approving" => client.intent \in 1..Len(intents)
  BY DEF Known
<1>6. ASSUME \A p \in 1..Len(payments') :
               /\ payments'[p].seen
               /\ intents'[payments'[p].intent].status = "pending" => Last(payments'[p].intent),
             \A x \in work' : Looking(x) =>
               client'.pc = "quoting" /\ x.attempt = client'.attempt /\ Last(x.intent),
             client'.pc = "approving" /\ client'.payment = 0 =>
               /\ Last(client'.intent)
               /\ \A p \in 1..Len(payments') : intents'[payments'[p].intent].status # "pending"
      PROVE  OneQuote'
  BY <1>6 DEF OneQuote, LastPending, Looking
<1>7. \A i \in 1..Len(intents) : intents'[i].status = "pending" => Pending(i)
  BY StatusStep
<1>8. ASSUME Len(intents') = Len(intents), NEW i, LastPending(i) PROVE Last(i)
  BY <1>7, <1>8 DEF LastPending
<1> HIDE DEF Last, Pending
<1>9. ASSUME Len(payments') = Len(payments), Len(intents') = Len(intents),
             \A x \in work' : Looking(x) => \E w \in work :
               /\ Looking(w) /\ w.intent = x.intent /\ w.attempt = x.attempt
               /\ client'.pc = client.pc /\ client'.attempt = client.attempt,
             client'.pc = "approving" /\ client'.payment = 0 =>
               client.pc = "approving" /\ client.payment = 0 /\ client'.intent = client.intent
      PROVE  OneQuote'
  <2>1. \A p \in 1..Len(payments) : /\ payments'[p].intent = payments[p].intent
                                    /\ payments[p].seen => payments'[p].seen
    BY PaymentsStep
  <2>2. ASSUME NEW p \in 1..Len(payments')
        PROVE  /\ payments'[p].seen
               /\ intents'[payments'[p].intent].status = "pending" => Last(payments'[p].intent)
    BY <1>2, <1>5, <1>7, <1>8, <1>9, <2>1
  <2>3. ASSUME NEW x \in work', Looking(x)
        PROVE  client'.pc = "quoting" /\ x.attempt = client'.attempt /\ Last(x.intent)
    BY <1>3, <1>8, <1>9, <2>3
  <2>4. ASSUME client'.pc = "approving" /\ client'.payment = 0
        PROVE  /\ Last(client'.intent)
               /\ \A p \in 1..Len(payments') : intents'[payments'[p].intent].status # "pending"
    BY <1>4, <1>5, <1>7, <1>8, <1>9, <2>1, <2>4
  <2> QED
    BY <1>6, <2>2, <2>3, <2>4
<1>10. ASSUME UNCHANGED payments, intents' = Append(intents, NewIntent),
              \A p \in 1..Len(payments) : ~Pending(payments[p].intent),
              \A x \in work' : ~Looking(x),
              client'.intent = Len(intents')
       PROVE  OneQuote'
  <2>1. \A p \in 1..Len(payments') : /\ payments'[p].seen
                                     /\ intents'[payments'[p].intent].status # "pending"
    BY <1>2, <1>5, <1>7, <1>10
  <2>2. Last(client'.intent)
    BY <1>10, IntentsStep DEF Last
  <2> QED
    BY <1>6, <1>10, <2>1, <2>2
<1>11. CASE Mint
  <2>1. /\ UNCHANGED payments /\ intents' = Append(intents, NewIntent) /\ work' = work
        /\ client.pc = "idle" /\ client'.intent = Len(intents') /\ Reusable = {}
    BY <1>11 DEF Mint
  <2>2. \A p \in 1..Len(payments) : ~Pending(payments[p].intent)
    BY <1>5, <2>1 DEF Reusable, Pending
  <2>3. \A x \in work' : ~Looking(x)
    BY <1>3, <2>1
  <2> QED
    BY <1>10, <2>1, <2>2, <2>3
<1>12. CASE LookUp
  <2>1. /\ UNCHANGED <<payments, intents>> /\ client.pc = "idle"
        /\ client' = [Idle EXCEPT !.pc = "quoting", !.attempt = attempts']
    BY <1>12 DEF LookUp
  <2>2. client'.pc = "quoting" /\ client'.attempt = attempts'
    BY <2>1 DEF Idle
  <2>3. \A x \in work' : Looking(x) =>
          x.attempt = attempts' /\ \A j \in Reusable : j <= x.intent
    <3>1. ~Submit /\ ~\E i \in 1..Len(intents) : Lapse(i)
      BY <2>1, <2>2 DEF Submit, Submitting, Lapse
    <3> QED
      BY <1>3, <2>1, <3>1, WorkStep DEF Looking
  <2>4. \A x \in work' : Looking(x) => LastPending(x.intent)
    BY <2>3 DEF LastPending, Reusable
  <2>5. \A p \in 1..Len(payments') : /\ payments'[p].seen
                                     /\ intents'[payments'[p].intent].status = "pending" =>
                                          Last(payments'[p].intent)
    BY <1>2, <1>5, <1>7, <1>8, <2>1
  <2>6. \A x \in work' : Looking(x) => Last(x.intent)
    BY <1>8, <2>1, <2>4
  <2> QED
    BY <1>6, <2>2, <2>3, <2>5, <2>6
<1>13. ASSUME NEW w \in work, Looking(w), work' = work \ {w} PROVE \A x \in work' : ~Looking(x)
  BY <1>3, <1>13 DEF Turns
<1>14. ASSUME NEW w \in work, Looking(w), faults' = AfterLookUp(w.intent, 0)
       PROVE  \A p \in 1..Len(payments) : ~Pending(payments[p].intent)
  <2>1. FundedBy(w.intent) = {}
    BY <1>1, <1>14 DEF AfterLookUp
  <2>2. \A p \in 1..Len(payments) : payments[p].intent # w.intent
    BY <1>2, <2>1 DEF FundedBy
  <2>3. Pending(w.intent) /\ w.intent \in 1..Len(intents)
    BY <1>5, <2>2 DEF UsedIsPaidFor, Pending
  <2>4. ASSUME NEW p \in 1..Len(payments), Pending(payments[p].intent) PROVE FALSE
    <3>1. payments[p].intent \in 1..Len(intents)
      BY <1>5
    <3>2. payments[p].intent <= w.intent
      BY <1>3, <1>14, <2>4, <3>1 DEF LastPending, Pending
    <3>3. w.intent <= payments[p].intent
      BY <1>2, <2>3, <2>4 DEF LastPending, Pending
    <3> QED
      BY <2>2, <2>3, <3>1, <3>2, <3>3
  <2> QED
    BY <2>4
<1>15. ASSUME NEW w \in work, MintAfterLookUp(w) PROVE OneQuote'
  <2>1. /\ Looking(w) /\ work' = work \ {w} /\ UNCHANGED payments
        /\ intents' = Append(intents, NewIntent) /\ faults' = AfterLookUp(w.intent, 0)
        /\ Answer(w, [pc |-> "approving", attempt |-> w.attempt, intent |-> Len(intents'), payment |-> 0])
    BY <1>15 DEF MintAfterLookUp, Looking
  <2>2. client'.intent = Len(intents')
    BY <1>3, <2>1 DEF Answer
  <2> QED
    BY <1>10, <1>13, <1>14, <2>1, <2>2
<1>16. ASSUME NEW w \in work, NEW p \in FundedAt(w.intent), Reuse(w, p) PROVE OneQuote'
  <2>1. /\ Looking(w) /\ work' = work \ {w} /\ UNCHANGED payments
        /\ intents' = [intents EXCEPT ![w.intent].fresh = TRUE]
        /\ faults' = AfterLookUp(w.intent, p)
        /\ Answer(w, [pc |-> "approving", attempt |-> w.attempt, intent |-> w.intent, payment |-> p])
    BY <1>16 DEF Reuse, Looking
  <2>2. client'.intent = w.intent /\ client'.payment = p
    BY <1>3, <2>1 DEF Answer
  <2>3. Len(intents') = Len(intents)
    BY <1>5, <2>1, FreshSet
  <2>4. \A q \in 1..Len(payments') : /\ payments'[q].seen
                                     /\ intents'[payments'[q].intent].status = "pending" =>
                                          Last(payments'[q].intent)
    BY <1>2, <1>5, <1>7, <1>8, <2>1, <2>3
  <2>5. ASSUME p = 0
        PROVE  /\ Last(client'.intent)
               /\ \A q \in 1..Len(payments') : intents'[payments'[q].intent].status # "pending"
    <3>1. \A q \in 1..Len(payments) : ~Pending(payments[q].intent)
      BY <1>14, <2>1, <2>5
    <3>2. LastPending(w.intent)
      BY <1>3, <2>1
    <3> QED
      BY <1>5, <1>7, <1>8, <2>1, <2>2, <2>3, <3>1, <3>2
  <2> QED
    BY <1>6, <1>13, <2>1, <2>2, <2>4, <2>5
<1>17. CASE Pay
  <2>1. /\ UNCHANGED <<intents, work>> /\ client.pc = "approving" /\ client.payment = 0
        /\ client' = [client EXCEPT !.payment = Len(payments')]
    BY <1>17 DEF Pay
  <2>2. /\ Len(payments) \in Nat /\ Len(payments') \in Nat
        /\ \A p \in 1..Len(payments) : /\ payments'[p].intent = payments[p].intent
                                       /\ payments[p].seen => payments'[p].seen
        /\ \A p \in 1..Len(payments') : p \notin 1..Len(payments) =>
             payments'[p].intent = client.intent /\ payments'[p].seen
    BY <1>1, Elements, PaymentsStep
  <2>3. \A p \in 1..Len(payments') : /\ payments'[p].seen
                                     /\ intents'[payments'[p].intent].status = "pending" =>
                                          Last(payments'[p].intent)
    <3>1. Last(client.intent)
      BY <1>4, <1>8, <2>1
    <3>2. ASSUME NEW p \in 1..Len(payments), Pending(payments[p].intent) PROVE Last(payments[p].intent)
      BY <1>2, <1>8, <2>1, <3>2
    <3> QED
      BY <1>2, <1>5, <1>7, <2>1, <2>2, <3>1, <3>2
  <2>4. client'.payment # 0
    <3>1. client'.payment = Len(payments') /\ Len(payments') = Len(payments) + 1
      <4>1. \E seen \in BOOLEAN : payments' = Append(payments, [intent |-> client.intent, seen |-> seen])
        BY <1>17 DEF Pay
      <4>2. Len(payments') = Len(payments) + 1
        BY <4>1, PaymentAdded DEF TypeOK, Client
      <4> QED
        BY <2>1, <4>2 DEF TypeOK, Client
    <3> QED
      BY <2>2, <3>1
  <2>5. \A x \in work' : ~Looking(x)
    BY <1>3, <2>1
  <2> QED
    BY <1>6, <2>3, <2>4, <2>5
<1>18. CASE Submit \/ Decline \/ Leave \/ SubmitRefused \/ SubmitExpired
  <2>1. UNCHANGED payments /\ client.pc = "approving"
    BY <1>18 DEF Submit, Decline, Leave, SubmitRefused, SubmitExpired, Submitting
  <2>2. client'.pc # "approving"
    BY <1>18 DEF Submit, Decline, Leave, SubmitRefused, SubmitExpired, Idle, TypeOK, Client
  <2>3. \A x \in work' : ~Looking(x)
    <3>1. \A w \in work : ~Looking(w)
      BY <1>3, <2>1
    <3>2. ~LookUp
      BY <2>1 DEF LookUp
    <3> QED
      BY <3>1, <3>2, WorkStep DEF Looking
  <2>4. Len(intents') = Len(intents)
    <3>1. "expired" \in IntentStatus
      BY DEF IntentStatus
    <3> QED
      BY <1>5, <1>18, <2>1, <3>1, StatusSet DEF Submit, Decline, Leave, SubmitRefused, SubmitExpired
  <2> QED
    BY <1>9, <2>1, <2>2, <2>3, <2>4
<1>19. ASSUME NEW w \in work, Verified(w) PROVE OneQuote'
  <2>1. /\ UNCHANGED client /\ ~Looking(w) /\ w.stage = "verifying"
        /\ payments' = [payments EXCEPT ![w.payment].seen = TRUE]
        /\ intents' = [intents EXCEPT ![w.intent].status = "paid", ![w.intent].txid = w.payment]
    BY <1>19 DEF Verified, Looking
  <2>2. w.payment \in 1..Len(payments) /\ w.payment \in Nat
    BY <2>1, Elements DEF Known
  <2>3. Len(payments') = Len(payments) /\ Len(intents') = Len(intents)
    BY <1>5, <2>1, <2>2, SeenSet, PaidSet
  <2>4. \A x \in work' : Looking(x) => x \in work
    <3> DEFINE e == [w EXCEPT !.stage = "locked"]
    <3>1. ~Looking(e)
      BY <2>1, Elements DEF Looking
    <3>2. work' = (work \ {w}) \cup {e}
      BY <1>19 DEF Verified
    <3> HIDE DEF e
    <3> QED
      BY <3>1, <3>2
  <2> QED
    BY <1>9, <2>1, <2>3, <2>4
<1>20. ASSUME NEW w \in work, Filled(w) \/ FillThrew(w) PROVE OneQuote'
  <2>1. /\ UNCHANGED payments /\ ~Looking(w) /\ work' = work \ {w}
        /\ client' = IF client.attempt = w.attempt THEN Idle ELSE client
    BY <1>20 DEF Filled, FillThrew, Answer, Looking
  <2>2. Len(intents') = Len(intents)
    <3>1. "rejected" \in IntentStatus
      BY DEF IntentStatus
    <3> QED
      BY <1>5, <1>20, <3>1, StatusSet DEF Filled, FillThrew
  <2>3. \A x \in work' : Looking(x) => client' = client
    BY <1>3, <2>1 DEF Turns
  <2>4. client'.pc = "approving" => client' = client
    BY <2>1 DEF Idle
  <2> QED
    BY <1>9, <2>1, <2>2, <2>3, <2>4
<1>21. ASSUME NEW w \in work PROVE ~NotVisibleYet(w) /\ ~Unreachable(w)
  BY <1>1 DEF NotVisibleYet, Unreachable
<1>22. CASE GiveUp
  <2>1. /\ UNCHANGED <<payments, intents, work>> /\ client' = Idle
        /\ client.pc \in {"quoting", "filling"}
        /\ faults' = faults \cup {IF client.pc = "quoting" THEN "requoted" ELSE "abandoned"}
    BY <1>22 DEF GiveUp
  <2>2. client.pc # "quoting"
    BY <1>1, <2>1
  <2>3. \A x \in work' : ~Looking(x)
    BY <1>3, <2>1, <2>2
  <2>4. client'.pc # "approving"
    BY <2>1 DEF Idle
  <2> QED
    BY <1>9, <2>1, <2>3, <2>4
<1>23. CASE Restart
  <2>1. /\ UNCHANGED <<payments, intents>> /\ work' = {}
        /\ client' = IF client.pc \in {"quoting", "filling"} THEN Idle ELSE client
    BY <1>23 DEF Restart
  <2>2. client'.pc = "approving" => client' = client
    BY <2>1 DEF Idle
  <2> QED
    BY <1>9, <2>1, <2>2
<1>24. ASSUME NEW p \in 1..Len(payments), Propagate(p) PROVE OneQuote'
  <2>1. UNCHANGED <<client, work, intents>> /\ payments' = [payments EXCEPT ![p].seen = TRUE]
    BY <1>24 DEF Propagate
  <2>2. Len(payments') = Len(payments)
    BY <2>1, SeenSet
  <2> QED
    BY <1>9, <2>1, <2>2
<1>25. ASSUME NEW i \in 1..Len(intents), Lapse(i) PROVE OneQuote'
  <2>1. /\ UNCHANGED <<payments, client>> /\ intents' = [intents EXCEPT ![i].fresh = FALSE]
        /\ work' = {IF w.stage = "looking" /\ w.intent = i THEN [w EXCEPT !.late = TRUE] ELSE w : w \in work}
    BY <1>25 DEF Lapse
  <2>2. Len(intents') = Len(intents)
    BY <2>1, FreshSet
  <2>3. ASSUME NEW x \in work', Looking(x)
        PROVE  \E w \in work : Looking(w) /\ w.intent = x.intent /\ w.attempt = x.attempt
    <3>1. PICK w \in work : x = IF w.stage = "looking" /\ w.intent = i THEN [w EXCEPT !.late = TRUE] ELSE w
      BY <2>1
    <3>2. CASE w.stage = "looking" /\ w.intent = i
      <4>1. x.intent = w.intent /\ x.attempt = w.attempt
        BY <3>1, <3>2, Elements DEF Looking
      <4> QED
        BY <3>2, <4>1 DEF Looking
    <3>3. CASE ~(w.stage = "looking" /\ w.intent = i)
      BY <2>3, <3>1, <3>3
    <3> QED
      BY <3>2, <3>3
  <2> QED
    BY <1>9, <2>1, <2>2, <2>3
<1>26. CASE UNCHANGED vars
  BY <1>9, <1>26 DEF vars
<1> QED
  BY <1>11, <1>12, <1>15, <1>16, <1>17, <1>18, <1>19, <1>20, <1>21, <1>22, <1>23, <1>24, <1>25, <1>26
  DEF Next

\* Only an order whose quote has lapsed marks an intent expired.
LEMMA ExpiredStep ==
  ASSUME TypeOK, Known, ExpiredHasLapsed, [Next]_vars
  PROVE  ExpiredHasLapsed'
<1> SUFFICES ASSUME "lapsed" \notin faults', NEW i \in 1..Len(intents'), intents'[i].status = "expired"
             PROVE  FALSE
  BY DEF ExpiredHasLapsed
<1>1. "lapsed" \notin faults /\ ~SubmitExpired
  BY HistoryStep DEF SubmitExpired
<1>2. i \in 1..Len(intents)
  BY IntentsStep
<1>3. intents[i].status = "expired"
  BY <1>1, <1>2, IntentsStep
<1> QED
  BY <1>1, <1>2, <1>3 DEF ExpiredHasLapsed

\* An intent is paid by the wallet only when nothing has been paid to it.
LEMMA OnePaymentStep ==
  ASSUME TypeOK, Known, OneQuote, OnePayment, [Next]_vars
  PROVE  OnePayment'
<1> SUFFICES ASSUME faults' \cap {"lagging", "requoted"} = {}
             PROVE  /\ \A p, q \in 1..Len(payments') : payments'[p].intent = payments'[q].intent => p = q
                    /\ client'.pc = "approving" /\ client'.payment = 0 =>
                         \A p \in 1..Len(payments') : payments'[p].intent # client'.intent
  BY DEF OnePayment
<1>1. faults \cap {"lagging", "requoted"} = {} /\ "lagging" \notin faults'
  BY HistoryStep
<1>2. /\ \A p, q \in 1..Len(payments) : payments[p].intent = payments[q].intent => p = q
      /\ client.pc = "approving" /\ client.payment = 0 =>
           \A p \in 1..Len(payments) : payments[p].intent # client.intent
  BY <1>1 DEF OnePayment
<1>3. /\ Len(payments) \in Nat /\ Len(payments') \in Nat /\ Len(payments) <= Len(payments')
      /\ \A p \in 1..Len(payments) : payments'[p].intent = payments[p].intent
      /\ \A p \in 1..Len(payments') : p \notin 1..Len(payments) =>
           Pay /\ p = Len(payments) + 1 /\ payments'[p].intent = client.intent
  BY Elements, PaymentsStep
<1>4. CASE Pay
  <2>1. client.pc = "approving" /\ client.payment = 0
    BY <1>4 DEF Pay
  <2>2. ASSUME NEW p \in 1..Len(payments'), NEW q \in 1..Len(payments'),
               payments'[p].intent = payments'[q].intent
        PROVE  p = q
    <3>1. CASE p \in 1..Len(payments) /\ q \in 1..Len(payments)
      BY <1>2, <1>3, <2>2, <3>1
    <3>2. CASE p \notin 1..Len(payments) /\ q \notin 1..Len(payments)
      BY <1>3, <3>2
    <3>3. CASE p \in 1..Len(payments) /\ q \notin 1..Len(payments)
      BY <1>2, <1>3, <2>1, <2>2, <3>3
    <3>4. CASE p \notin 1..Len(payments) /\ q \in 1..Len(payments)
      BY <1>2, <1>3, <2>1, <2>2, <3>4
    <3> QED
      BY <3>1, <3>2, <3>3, <3>4
  <2>3. client'.payment # 0
    <3>1. \E seen \in BOOLEAN : payments' = Append(payments, [intent |-> client.intent, seen |-> seen])
      BY <1>4 DEF Pay
    <3>2. Len(payments') = Len(payments) + 1
      BY <3>1, PaymentAdded DEF TypeOK, Client
    <3>3. client'.payment = Len(payments')
      BY <1>4 DEF Pay, TypeOK, Client
    <3> QED
      BY <1>3, <3>2, <3>3
  <2> QED
    BY <2>2, <2>3
<1>5. CASE ~Pay
  <2>1. \A p \in 1..Len(payments') : p \in 1..Len(payments) /\ payments'[p].intent = payments[p].intent
    BY <1>3, <1>5
  <2>2. \A p \in 1..Len(payments) : payments[p].intent \in 1..Len(intents)
    BY DEF Known
  <2>3. ASSUME client'.pc = "approving", client'.payment = 0,
               NEW p \in 1..Len(payments), payments[p].intent = client'.intent
        PROVE  FALSE
    <3>1. CASE client' = client
      BY <1>2, <2>3, <3>1
    <3>2. CASE Mint \/ \E w \in work : MintAfterLookUp(w) /\ w.attempt = client.attempt
      <4>1. intents' = Append(intents, NewIntent) /\ Len(intents) \in Nat
        BY <3>2, Elements DEF Mint, MintAfterLookUp
      <4>2. Len(intents') = Len(intents) + 1
        BY <4>1, IntentAdded
      <4>3. client'.intent = Len(intents')
        BY <3>2 DEF Mint, MintAfterLookUp, Answer
      <4> QED
        BY <2>2, <2>3, <4>1, <4>2, <4>3
    <3>3. ASSUME NEW w \in work, NEW f \in FundedAt(w.intent), Reuse(w, f),
                 client'.intent = w.intent, client'.payment = f
          PROVE  FALSE
      <4>1. f = 0 /\ faults' = AfterLookUp(w.intent, f)
        BY <2>3, <3>3 DEF Reuse
      <4>2. FundedBy(w.intent) = {}
        BY <1>1, <4>1 DEF AfterLookUp
      <4>3. payments[p].seen
        BY <1>1 DEF OneQuote
      <4> QED
        BY <2>3, <3>3, <4>2, <4>3 DEF FundedBy
    <3>4. \/ client' = client
          \/ Mint \/ \E w \in work : MintAfterLookUp(w) /\ w.attempt = client.attempt
          \/ \E w \in work : \E f \in FundedAt(w.intent) :
               Reuse(w, f) /\ client'.intent = w.intent /\ client'.payment = f
      BY <1>5, <2>3, ClientStep
    <3> QED
      BY <3>1, <3>2, <3>3, <3>4
  <2> QED
    BY <1>2, <2>1, <2>3
<1> QED
  BY <1>4, <1>5

-----------------------------------------------------------------------------
(* The theorems *)

\* Types are right and FundInv holds, for any number of attempts.
THEOREM FundingSound == Spec => [](TypeOK /\ FundInv)
<1>1. Init => TypeOK /\ FundInv
  <2> SUFFICES ASSUME Init PROVE TypeOK /\ FundInv
    OBVIOUS
  <2>1. /\ intents = <<>> /\ payments = <<>> /\ fills = <<>>
        /\ client.pc = "idle" /\ client.attempt = 0 /\ client \in Client
        /\ work = {} /\ attempts = 0 /\ faults = {}
    BY DEF Init, Idle, Client
  <2>2. TypeOK
    BY <2>1 DEF TypeOK
  <2>3. Known /\ UsedIsPaidFor /\ LockedIsPaid /\ FillsArePaid /\ PaidIsServed
    BY <2>1 DEF Known, UsedIsPaidFor, LockedIsPaid, FillsArePaid, PaidIsServed
  <2>4. Turns /\ OneOrder /\ OneQuote /\ ExpiredHasLapsed /\ OnePayment
    BY <2>1 DEF Turns, OneOrder, OneQuote, IntentIsSingleUse, ExpiredHasLapsed, OnePayment
  <2> QED
    BY <2>2, <2>3, <2>4 DEF FundInv
<1>2. TypeOK /\ FundInv /\ [Next]_vars => (TypeOK /\ FundInv)'
  <2> SUFFICES ASSUME TypeOK, FundInv, [Next]_vars PROVE TypeOK' /\ FundInv'
    OBVIOUS
  <2>1. /\ Known /\ UsedIsPaidFor /\ LockedIsPaid /\ FillsArePaid /\ PaidIsServed
        /\ Turns /\ OneOrder /\ OneQuote /\ ExpiredHasLapsed /\ OnePayment
    BY DEF FundInv
  <2>2. TypeOK' /\ Known' /\ UsedIsPaidFor'
    BY <2>1, TypeStep, KnownStep, UsedStep
  <2>3. LockedIsPaid' /\ FillFacts'
    BY <2>1, FillsByFields, PaidStep
  <2>4. FillsArePaid'
    BY <2>2, <2>3, FillsByFields, PTL
  <2>5. PaidIsServed' /\ Turns' /\ OneOrder' /\ OneQuote'
    BY <2>1, ServedStep, TurnsStep, OneOrderStep, OneQuoteStep
  <2>6. ExpiredHasLapsed' /\ OnePayment'
    BY <2>1, ExpiredStep, OnePaymentStep
  <2> QED
    BY <2>2, <2>3, <2>4, <2>5, <2>6 DEF FundInv
<1> QED
  BY <1>1, <1>2, PTL DEF Spec

\* The type invariant.
THEOREM TypeCorrect == Spec => []TypeOK
BY FundingSound, PTL

\* No fill exists that nobody paid for, and no filled intent is one a new request would reuse
\* (submitOrder, service.ts:480; FUND-001), whatever clients, chain service and restarts do.
THEOREM FillsStayPaid == Spec => []FillsArePaid
<1>1. FundInv => FillsArePaid
  BY DEF FundInv
<1> QED
  BY <1>1, FundingSound, PTL

\* While no client stops waiting for its order an intent buys one fill, and listReceipts names the
\* payment that bought it (service.ts:434 acceptPayment).
THEOREM IntentsBuyOnce == Spec => []IntentBuysOnce
<1>1. TypeOK /\ FundInv => IntentBuysOnce
  <2> SUFFICES ASSUME TypeOK, FundInv, "abandoned" \notin faults
               PROVE  IntentIsSingleUse /\ ListReceipts = fills
    BY DEF IntentBuysOnce
  <2>1. /\ IntentIsSingleUse
        /\ \A k \in 1..Len(fills) : intents[fills[k].intent].txid = fills[k].payment
    BY DEF FundInv, OneOrder
  <2>2. fills = [k \in 1..Len(fills) |-> fills[k]]
    BY LenProperties DEF TypeOK
  <2>3. \A k \in 1..Len(fills) :
          fills[k] = [intent |-> fills[k].intent, payment |-> fills[k].payment]
    BY Elements DEF Filling
  <2>4. \A k \in 1..Len(fills) :
          [intent |-> fills[k].intent, payment |-> intents[fills[k].intent].txid] = fills[k]
    BY <2>1, <2>3
  <2>5. ListReceipts = [k \in 1..Len(fills) |-> fills[k]]
    BY <2>4, Zenon DEF ListReceipts
  <2> QED
    BY <2>1, <2>2, <2>5
<1> QED
  BY <1>1, FundingSound, PTL

\* While no client stops waiting for its order, money marked to be handed back bought nothing
\* (submitOrder: 'rejected' means owed back).
THEOREM RefundsBoughtNothing == Spec => []RefundBoughtNothing
<1>1. FundInv => RefundBoughtNothing
  BY DEF FundInv, OneOrder, RefundBoughtNothing
<1> QED
  BY <1>1, FundingSound, PTL

\* An accepted intent whose handlers are done points back at the fill it bought
\* (014_funding.sql:13), short of a crash between the two.
THEOREM AcceptedIntentsFill == Spec => []AcceptedBoughtFill
<1>1. FundInv => AcceptedBoughtFill
  BY DEF FundInv, PaidIsServed, AcceptedBoughtFill
<1> QED
  BY <1>1, FundingSound, PTL

\* With a prompt chain service, a trader who waits for his quotes, none of which expires on him once
\* paid, only pays again when every earlier payment bought its fill or is owed back; or, if he gave up
\* an order or the daemon restarted, was accepted (createPaymentIntent, MAINNET-012).
THEOREM NobodyPaysTwice == Spec => NeverPaysTwice
<1> DEFINE Settled(p) == \/ BoughtFill(p) \/ OwedBack(p)
                         \/ Accepted(p) /\ faults \cap {"abandoned", "crash"} # {}
<1>1. TypeOK /\ FundInv /\ [Next]_vars =>
        [Len(payments') > Len(payments) /\ faults \cap {"lagging", "requoted", "lapsed"} = {} =>
           \A p \in 1..Len(payments) : Settled(p)]_vars
  <2> SUFFICES ASSUME TypeOK, FundInv, [Next]_vars, Len(payments') > Len(payments),
                      faults \cap {"lagging", "requoted", "lapsed"} = {},
                      NEW p \in 1..Len(payments)
               PROVE  Settled(p)
    OBVIOUS
  <2>1. Known /\ OneQuote /\ OnePayment /\ ExpiredHasLapsed /\ PaidIsServed /\ OneOrder /\ FillsArePaid
    BY DEF FundInv
  <2>2. Pay
    <3>1. Len(payments) \in Nat /\ Len(payments') \in Nat
      BY <2>1, Elements, PaymentsStep
    <3>2. Len(payments') \in 1..Len(payments') /\ Len(payments') \notin 1..Len(payments)
      BY <3>1
    <3> QED
      BY <2>1, <3>2, PaymentsStep
  <2>3. client.pc = "approving" /\ client.payment = 0
    BY <2>2 DEF Pay
  <2> DEFINE i == payments[p].intent
  <2>4. i \in 1..Len(intents) /\ intents[i].status \in IntentStatus
    BY <2>1, Elements DEF Known, Intent
  <2>5. intents[i].status # "pending" /\ intents[i].status # "expired"
    BY <2>1, <2>3, <2>4 DEF OneQuote, ExpiredHasLapsed
  <2>6. CASE intents[i].status = "rejected"
    BY <2>6 DEF OwedBack
  <2>7. CASE intents[i].status = "paid" /\ faults \cap {"abandoned", "crash"} # {}
    BY <2>7 DEF Accepted
  <2>8. CASE intents[i].status = "paid" /\ faults \cap {"abandoned", "crash"} = {}
    <3>1. \A w \in work : w.stage # "locked"
      BY <2>1, <2>3, <2>8 DEF OneOrder, Looking
    <3>2. PICK k \in 1..Len(fills) : fills[k].intent = i
      BY <2>1, <2>4, <2>8, <3>1 DEF PaidIsServed
    <3>3. fills[k].payment \in 1..Len(payments) /\ payments[fills[k].payment].intent = fills[k].intent
      <4>1. payments[fills[k].payment] = [intent |-> fills[k].intent, seen |-> TRUE]
        BY <2>1 DEF FillsArePaid
      <4>2. payments[fills[k].payment].intent = fills[k].intent
        BY <4>1
      <4> QED
        BY <2>1, <4>2 DEF Known
    <3>4. fills[k].payment = p
      BY <2>1, <3>2, <3>3 DEF OnePayment
    <3> QED
      BY <3>4 DEF BoughtFill
  <2> QED
    BY <2>4, <2>5, <2>6, <2>7, <2>8 DEF IntentStatus
<1> QED
  BY <1>1, FundingSound, PTL DEF Spec, NeverPaysTwice

=============================================================================
