------------------------------ MODULE Funding -------------------------------
(***************************************************************************)
(* How a buy is paid for: one trader, one order (market, side, units), the *)
(* client in the browser, the daemon's handlers, and the trader's wallet.  *)
(*                                                                         *)
(*   intents   the payment_intents rows of that order; fresh: expires_at   *)
(*             lies ahead; txid: the payment recorded on it (0: NULL)      *)
(*   payments  the transactions the wallet made: the intent whose script   *)
(*             each pays, and whether the network has it                   *)
(*   fills     the exec_orders rows: payment_intent_id and what paid it    *)
(*   client    the StakeSheet: what it waits for, and for which attempt    *)
(*   work      the daemon's handlers that await something; a client that   *)
(*             gives up leaves its handler running; late: the expires_at   *)
(*             it read before its await has passed                         *)
(*   attempts  how often the trader pressed                                *)
(*   faults    what has gone wrong so far: "requoted", a client stopped    *)
(*             waiting for its quote; "abandoned", for its order;          *)
(*             "lapsed", a quote expired that had been paid;               *)
(*             "lagging", the chain service did not answer or did not know *)
(*             a transaction yet; "crash", the daemon restarted            *)
(*                                                                         *)
(* An honest wallet pays the quoted amount to the quoted script, so the    *)
(* checks of findPaymentOutput pass; a payment pays one script, so the     *)
(* UNIQUE index on (txid, output_index) stays silent.  What the engine     *)
(* checks behind the lock is module Execution's: here it fills or throws.  *)
(***************************************************************************)
EXTENDS Integers, Sequences, FiniteSets

CONSTANTS
  MaxAttempts   \* bound: times the trader presses "pay & buy"

ASSUME BoundsAssumption == MaxAttempts \in Nat

VARIABLES intents, payments, fills, client, work, attempts, faults

vars == <<intents, payments, fills, client, work, attempts, faults>>

IntentStatus == {"pending", "paid", "rejected", "expired"}

Intent  == [status : IntentStatus, fresh : BOOLEAN, txid : Nat]
Payment == [intent : Nat, seen : BOOLEAN]
Filling == [intent : Nat, payment : Nat]
Client  == [pc : {"idle", "quoting", "approving", "filling"}, attempt : Nat, intent : Nat,
            payment : Nat]
Handler == [stage : {"looking"}, attempt : Nat, intent : Nat, late : BOOLEAN]
             \cup [stage : {"verifying", "locked"}, attempt : Nat, intent : Nat, payment : Nat]

Fault == {"requoted", "abandoned", "lapsed", "lagging", "crash"}

Idle == [pc |-> "idle", attempt |-> 0, intent |-> 0, payment |-> 0]

\* The row createPaymentIntent inserts.
NewIntent == [status |-> "pending", fresh |-> TRUE, txid |-> 0]

\* The payments the network holds at an intent's script.
FundedBy(i) == {p \in 1..Len(payments) : payments[p].intent = i /\ payments[p].seen}

Init ==
  /\ intents = <<>> /\ payments = <<>> /\ fills = <<>>
  /\ client = Idle /\ work = {}
  /\ attempts = 0 /\ faults = {}

\* The client's state after its request is answered, if it still waits for it.
Answer(w, next) == client' = IF client.attempt = w.attempt THEN next ELSE client

-----------------------------------------------------------------------------
(* createPaymentIntent *)

\* Mutant: before MAINNET-012, every request minted a fresh intent.
ReusableMutant == {}

\* The pending intents of the same order.
Reusable == {i \in 1..Len(intents) : intents[i].status = "pending"}

\* The request up to its await: nothing to reuse, so an intent is minted and answered at once.
Mint ==
  /\ client.pc = "idle" /\ attempts < MaxAttempts
  /\ Reusable = {}
  /\ attempts' = attempts + 1
  /\ intents' = Append(intents, NewIntent)
  /\ client' = [pc |-> "approving", attempt |-> attempts', intent |-> Len(intents'), payment |-> 0]
  /\ UNCHANGED <<payments, fills, work, faults>>

\* Or the latest pending intent is read, and fundedAt is awaited.
LookUp ==
  /\ client.pc = "idle" /\ attempts < MaxAttempts
  /\ Reusable # {}
  /\ attempts' = attempts + 1
  /\ \E i \in Reusable :
       /\ \A j \in Reusable : j <= i
       /\ work' = work \cup {[stage |-> "looking", attempt |-> attempts', intent |-> i,
                               late |-> ~intents[i].fresh]}
  /\ client' = [Idle EXCEPT !.pc = "quoting", !.attempt = attempts']
  /\ UNCHANGED <<intents, payments, fills, faults>>

\* What fundedAt may answer: a payment the network holds, or nothing when there is none or the
\* service fails.
FundedAt(i) == FundedBy(i) \cup {0}

\* The faults after fundedAt answered p.
AfterLookUp(i, p) == IF p = 0 /\ FundedBy(i) # {} THEN faults \cup {"lagging"} ELSE faults

\* fundedAt answered: the intent is reused, its clock restarted if it was paid for and expired.
Reuse(w, p) ==
  /\ w \in work /\ w.stage = "looking" /\ p \in FundedAt(w.intent)
  /\ ~w.late \/ p # 0
  /\ intents' = [intents EXCEPT ![w.intent].fresh = TRUE]
  /\ work' = work \ {w}
  /\ Answer(w, [pc |-> "approving", attempt |-> w.attempt, intent |-> w.intent, payment |-> p])
  /\ faults' = AfterLookUp(w.intent, p)
  /\ UNCHANGED <<payments, fills, attempts>>

\* fundedAt found nothing and the quote is stale: a fresh intent after all.
MintAfterLookUp(w) ==
  /\ w \in work /\ w.stage = "looking" /\ 0 \in FundedAt(w.intent)
  /\ w.late
  /\ intents' = Append(intents, NewIntent)
  /\ work' = work \ {w}
  /\ Answer(w, [pc |-> "approving", attempt |-> w.attempt, intent |-> Len(intents'), payment |-> 0])
  /\ faults' = AfterLookUp(w.intent, 0)
  /\ UNCHANGED <<payments, fills, attempts>>

-----------------------------------------------------------------------------
(* The trader's wallet and the network *)

\* The wallet pays, unless the answer said the intent is already paid.
Pay ==
  /\ client.pc = "approving" /\ client.payment = 0
  /\ \E seen \in BOOLEAN :
       /\ payments' = Append(payments, [intent |-> client.intent, seen |-> seen])
       /\ faults' = IF seen THEN faults ELSE faults \cup {"lagging"}
  /\ client' = [client EXCEPT !.payment = Len(payments')]
  /\ UNCHANGED <<intents, fills, work, attempts>>

\* The trader declines in the wallet.
Decline ==
  /\ client.pc = "approving" /\ client.payment = 0
  /\ client' = Idle
  /\ UNCHANGED <<intents, payments, fills, work, attempts, faults>>

\* The wallet has paid, but the order never reaches the daemon: the page is closed, the request lost.
Leave ==
  /\ client.pc = "approving" /\ client.payment # 0
  /\ client' = Idle
  /\ UNCHANGED <<intents, payments, fills, work, attempts, faults>>

Propagate(p) ==
  /\ ~payments[p].seen
  /\ payments' = [payments EXCEPT ![p].seen = TRUE]
  /\ UNCHANGED <<intents, fills, client, work, attempts, faults>>

\* INTENT_TTL_MS passes, also for the handlers that read the row before it did.
Lapse(i) ==
  /\ intents[i].status = "pending" /\ intents[i].fresh
  /\ intents' = [intents EXCEPT ![i].fresh = FALSE]
  /\ work' = {IF w.stage = "looking" /\ w.intent = i THEN [w EXCEPT !.late = TRUE] ELSE w : w \in work}
  /\ UNCHANGED <<payments, fills, client, attempts, faults>>

-----------------------------------------------------------------------------
(* submitOrder and acceptPayment *)

Submitting == client.pc = "approving" /\ client.payment # 0

\* acceptPayment passes its own checks and awaits verifyPayment.
Submit ==
  /\ Submitting
  /\ intents[client.intent].status = "pending" /\ intents[client.intent].fresh
  /\ work' = work \cup {[stage |-> "verifying", attempt |-> client.attempt,
                         intent |-> client.intent, payment |-> client.payment]}
  /\ client' = [client EXCEPT !.pc = "filling"]
  /\ UNCHANGED <<intents, payments, fills, attempts, faults>>

\* The intent is already paid, rejected or expired.
SubmitRefused ==
  /\ Submitting
  /\ intents[client.intent].status # "pending"
  /\ client' = Idle
  /\ UNCHANGED <<intents, payments, fills, work, attempts, faults>>

\* The quote expired between its answer and the order, which the wallet has paid by now: acceptPayment
\* marks it before anybody looks at the payment.
SubmitExpired ==
  /\ Submitting
  /\ intents[client.intent].status = "pending" /\ ~intents[client.intent].fresh
  /\ intents' = [intents EXCEPT ![client.intent].status = "expired"]
  /\ faults' = faults \cup {"lapsed"}
  /\ client' = Idle
  /\ UNCHANGED <<payments, fills, work, attempts>>

\* Mutant: acceptPayment leaves the intent pending until somebody else marks it.
VerifiedUnmarked(w) ==
  /\ w \in work /\ w.stage = "verifying"
  /\ payments' = [payments EXCEPT ![w.payment].seen = TRUE]
  /\ work' = (work \ {w}) \cup {[w EXCEPT !.stage = "locked"]}
  /\ UNCHANGED <<intents, fills, client, attempts, faults>>

\* Mutant: verifyPayment takes the wallet's word that it broadcast the transaction.
VerifiedOnTrust(w) ==
  /\ w \in work /\ w.stage = "verifying"
  /\ intents' = [intents EXCEPT ![w.intent].status = "paid", ![w.intent].txid = w.payment]
  /\ work' = (work \ {w}) \cup {[w EXCEPT !.stage = "locked"]}
  /\ UNCHANGED <<payments, fills, client, attempts, faults>>

\* verifyPayment, which publishes the transaction, saw it: the intent is paid, whatever happened to
\* it during the await, and the order goes to the engine.
Verified(w) ==
  /\ w \in work /\ w.stage = "verifying"
  /\ payments' = [payments EXCEPT ![w.payment].seen = TRUE]
  /\ intents' = [intents EXCEPT ![w.intent].status = "paid", ![w.intent].txid = w.payment]
  /\ work' = (work \ {w}) \cup {[w EXCEPT !.stage = "locked"]}
  /\ UNCHANGED <<fills, client, attempts, faults>>

\* Not visible yet, after three looks: the intent stays pending.
NotVisibleYet(w) ==
  /\ w \in work /\ w.stage = "verifying"
  /\ faults' = faults \cup {"lagging"}
  /\ work' = work \ {w}
  /\ Answer(w, Idle)
  /\ UNCHANGED <<intents, payments, fills, attempts>>

\* The chain service cannot be reached: exists throws, which is not a TransientPaymentError.
Unreachable(w) ==
  /\ w \in work /\ w.stage = "verifying"
  /\ faults' = faults \cup {"lagging"}
  /\ intents' = [intents EXCEPT ![w.intent].status = "rejected"]
  /\ work' = work \ {w}
  /\ Answer(w, Idle)
  /\ UNCHANGED <<payments, fills, attempts>>

\* The engine filled the order.
Filled(w) ==
  /\ w \in work /\ w.stage = "locked"
  /\ fills' = Append(fills, [intent |-> w.intent, payment |-> w.payment])
  /\ work' = work \ {w}
  /\ Answer(w, Idle)
  /\ UNCHANGED <<intents, payments, attempts, faults>>

\* Mutant: the engine throws after it persisted the fill.
FillThrewLate(w) ==
  /\ w \in work /\ w.stage = "locked"
  /\ intents' = [intents EXCEPT ![w.intent].status = "rejected"]
  /\ fills' = Append(fills, [intent |-> w.intent, payment |-> w.payment])
  /\ work' = work \ {w}
  /\ Answer(w, Idle)
  /\ UNCHANGED <<payments, attempts, faults>>

\* Mutant: the refund is not recorded.
FillThrewUnmarked(w) ==
  /\ w \in work /\ w.stage = "locked"
  /\ work' = work \ {w}
  /\ Answer(w, Idle)
  /\ UNCHANGED <<intents, payments, fills, attempts, faults>>

\* The engine threw (the price moved past what was paid, the nonce was used): the money is owed back.
FillThrew(w) ==
  /\ w \in work /\ w.stage = "locked"
  /\ intents' = [intents EXCEPT ![w.intent].status = "rejected"]
  /\ work' = work \ {w}
  /\ Answer(w, Idle)
  /\ UNCHANGED <<payments, fills, attempts, faults>>

-----------------------------------------------------------------------------
(* Failures *)

\* The client stops waiting; the daemon's handler does not notice.
GiveUp ==
  /\ client.pc \in {"quoting", "filling"}
  /\ faults' = faults \cup {IF client.pc = "quoting" THEN "requoted" ELSE "abandoned"}
  /\ client' = Idle
  /\ UNCHANGED <<intents, payments, fills, work, attempts>>

\* The daemon stops and starts again; requests in flight fail.
Restart ==
  /\ work' = {}
  /\ client' = IF client.pc \in {"quoting", "filling"} THEN Idle ELSE client
  /\ faults' = faults \cup {"crash"}
  /\ UNCHANGED <<intents, payments, fills, attempts>>

Next ==
  \/ Mint \/ LookUp
  \/ \E w \in work : \/ \E p \in FundedAt(w.intent) : Reuse(w, p)
                     \/ MintAfterLookUp(w)
                     \/ Verified(w) \/ NotVisibleYet(w) \/ Unreachable(w)
                     \/ Filled(w) \/ FillThrew(w)
  \/ Pay \/ Decline \/ Leave
  \/ \E p \in 1..Len(payments) : Propagate(p)
  \/ \E i \in 1..Len(intents) : Lapse(i)
  \/ Submit \/ SubmitRefused \/ SubmitExpired
  \/ GiveUp \/ Restart

Spec == Init /\ [][Next]_vars

-----------------------------------------------------------------------------
(* Properties *)

\* listReceipts: each fill, joined with the payment recorded on its intent.
ListReceipts ==
  [k \in 1..Len(fills) |-> [intent |-> fills[k].intent, payment |-> intents[fills[k].intent].txid]]

TypeOK ==
  /\ intents \in Seq(Intent) /\ payments \in Seq(Payment) /\ fills \in Seq(Filling)
  /\ client \in Client /\ work \subseteq Handler
  /\ attempts \in Nat /\ faults \subseteq Fault

\* No fill exists that nobody paid for: its payment pays its own intent, the network has it, and the
\* intent is not one a new request would find and reuse, whatever the clients, the chain service and
\* restarts did in between (submitOrder, FUND-001).  A request that read the row earlier may still
\* answer with it, because createPaymentIntent does not read it again after its await.
FillsArePaid ==
  \A k \in 1..Len(fills) :
    /\ payments[fills[k].payment] = [intent |-> fills[k].intent, seen |-> TRUE]
    /\ intents[fills[k].intent].status \in {"paid", "rejected"}

\* funding.test.ts:351, "a payment intent is single-use - the same one cannot buy twice".
IntentIsSingleUse ==
  \A k, l \in 1..Len(fills) : k # l => fills[k].intent # fills[l].intent

\* As long as no client stops waiting for its order, an intent buys one fill, whatever the chain
\* service, the price and restarts do, and the receipts listed name the payments that bought them
\* (acceptPayment, listReceipts).
IntentBuysOnce == "abandoned" \notin faults => IntentIsSingleUse /\ ListReceipts = fills

\* As long as no client stops waiting for its order, money marked to be handed back bought nothing
\* (submitOrder: 'rejected' means owed back).
RefundBoughtNothing ==
  "abandoned" \notin faults => \A k \in 1..Len(fills) : intents[fills[k].intent].status = "paid"

\* The fill that payment p bought is there; p is recorded as owed back (submitOrder); p was accepted.
BoughtFill(p) == \E k \in 1..Len(fills) : fills[k].payment = p
OwedBack(p)   == intents[payments[p].intent].status = "rejected"
Accepted(p)   == intents[payments[p].intent].status = "paid"

\* A trader only pays again once every earlier payment of his bought its fill or is recorded as owed
\* back, also after he left in the middle; as long as the chain service is prompt, he waits for his
\* quotes and none expires on him once paid.  If he gave up an order that hung, or the daemon
\* restarted, an earlier payment was at least accepted, and may be on its way to its fill or, after
\* the restart, lost (createPaymentIntent, MAINNET-012).
NeverPaysTwice ==
  [][ Len(payments') > Len(payments) /\ faults \cap {"lagging", "requoted", "lapsed"} = {} =>
        \A p \in 1..Len(payments) :
          \/ BoughtFill(p) \/ OwedBack(p)
          \/ Accepted(p) /\ faults \cap {"abandoned", "crash"} # {} ]_vars

\* 014_funding.sql:13, "every accepted intent points back at the fill it bought": once its handlers
\* are done, short of a crash between accepting the payment and filling the order.
AcceptedBoughtFill ==
  "crash" \notin faults =>
    \A i \in 1..Len(intents) :
      intents[i].status = "paid" /\ (\A w \in work : w.intent # i)
        => \E k \in 1..Len(fills) : fills[k].intent = i

-----------------------------------------------------------------------------
(* What comments and tests promise and the code does not keep *)

\* funding.test.ts:137, "a retry must never be a second payment", with a chain service that knows
\* every payment at once.
RetryIsNoSecondPayment ==
  [][ Len(payments') > Len(payments) /\ "lagging" \notin faults =>
        \A p \in 1..Len(payments) : intents[payments[p].intent].status # "pending" ]_vars

\* 014_funding.sql:27, "'expired' (never paid)": nobody paid an intent that is marked expired.
ExpiredMeansUnpaid ==
  \A p \in 1..Len(payments) : intents[payments[p].intent].status # "expired"

\* verify.ts:207, "A transient network condition must never consume something irreplaceable": no
\* verification of a good payment turns a pending intent into a rejected one.
GoodPaymentKeepsIntent ==
  [][ \A i \in 1..Len(intents) :
        intents[i].status = "pending" => intents'[i].status # "rejected" ]_vars
=============================================================================
