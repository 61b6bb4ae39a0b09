------------------------------- MODULE Claims -------------------------------
(***************************************************************************)
(* How money a market paid reaches the payee's wallet: the list of claims  *)
(* on the market's page, the claim button, the proof the daemon assembles  *)
(* and the wallet that takes custody; with the daemon's two caches and the *)
(* one-time keys stakes and payments are locked to.                        *)
(*                                                                         *)
(*   chain      each transaction: not sent, in the mempool, or mined       *)
(*   minedCache what minedHeight remembers: "mined" for ever, "unmined"    *)
(*              for 15 seconds                                             *)
(*   beefs      the transactions whose BEEF ToolboxBeefSource cached       *)
(*   lookups    the minedAt requests awaited, and who asked: the page's    *)
(*              poll or a trader's claim                                   *)
(*   claim      each trader's claim: the box pressed, the rows read, the   *)
(*              transactions still to look up, those found mined, the      *)
(*              payment chosen                                             *)
(*   collected  the payments in the payees' wallets                        *)
(*                                                                         *)
(* A one-time key is its owner, the two identities it was derived between  *)
(* and the scope of its nonces; how BRC-42 computes it is left out.        *)
(***************************************************************************)
EXTENDS Integers, FiniteSets

CONSTANTS
  Operator,    \* the identity of the daemon's payment key
  Txs,         \* transactions: stakes, payouts, proceeds payments
  Parents,     \* the transactions whose outputs each of them spends
  Payer,       \* the trader who paid a stake; Operator for other transactions
  Payments     \* the outputs to traders: trader, kind, tx, and order (its place in the list)

Kind == {"payout", "proceeds"}

ASSUME TxsAssumption      == Parents \in [Txs -> SUBSET Txs]
ASSUME PaymentsAssumption == \A p \in Payments : p.tx \in Txs /\ p.kind \in Kind

VARIABLES chain, minedCache, beefs, lookups, claim, collected

vars == <<chain, minedCache, beefs, lookups, claim, collected>>

Traders == {p.trader : p \in Payments}
Paying  == {p.tx : p \in Payments}

Idle == [stage |-> "idle", rows |-> {}, todo |-> {}, mined |-> {}, choice |-> {}, box |-> {}]

\* payoutClaims: what the market has paid a trader, of both kinds.
PaidTo(trader) == {p \in Payments : p.trader = trader /\ chain[p.tx] # "none"}

Init ==
  /\ chain = [t \in Txs |-> "none"]
  /\ minedCache = [t \in Txs |-> "unknown"]
  /\ beefs = {} /\ lookups = {}
  /\ claim = [trader \in Traders |-> Idle]
  /\ collected = {}

-----------------------------------------------------------------------------
(* One-time keys *)

\* deriveDestination: the counterparty's key.
CounterpartyKey(self, other, scope) == [owner |-> other, pair |-> {self, other}, scope |-> scope]

\* deriveOwnDestination: our own key for the same pair.
OwnKey(self, other, scope) == [owner |-> self, pair |-> {self, other}, scope |-> scope]

\* derivePaymentKey: the private key a recipient derives from a remittance.
PaymentKey(self, remittance) ==
  [owner |-> self, pair |-> {self, remittance.sender}, scope |-> remittance.scope]

\* The nonces of a payment: per trader for winnings, per fill for proceeds.
Scope(p) == IF p.kind = "payout" THEN <<p.kind, p.trader>> ELSE <<p.kind, p.order>>

\* Where a payment is paid, and what its payee is told.
Destination(p) == CounterpartyKey(Operator, p.trader, Scope(p))

\* Mutant: the remittance names the payee.
RemittanceOfMutant(p) == [sender |-> p.trader, scope |-> Scope(p)]

RemittanceOf(p) == [sender |-> Operator, scope |-> Scope(p)]

\* What createPaymentIntent asks a trader to pay to (before MAINNET-011: the trader's own key).
StakeLock(t) == OwnKey(Operator, Payer[t], t)

\* The pot can sign for a stake (potStakes).
Signable(t) == Payer[t] = Operator \/ PaymentKey(Operator, [sender |-> Payer[t], scope |-> t]) = StakeLock(t)

-----------------------------------------------------------------------------
(* The network *)

Broadcast(t) ==
  /\ chain[t] = "none"
  /\ \A s \in Parents[t] : chain[s] # "none" /\ Signable(s)
  /\ chain' = [chain EXCEPT ![t] = "mempool"]
  /\ UNCHANGED <<minedCache, beefs, lookups, claim, collected>>

Mine(t) ==
  /\ chain[t] = "mempool"
  /\ \A s \in Parents[t] : chain[s] = "mined"
  /\ chain' = [chain EXCEPT ![t] = "mined"]
  /\ UNCHANGED <<minedCache, beefs, lookups, claim, collected>>

-----------------------------------------------------------------------------
(* minedHeight *)

\* Fifteen seconds have passed since an unmined answer.
Lapse(t) ==
  /\ minedCache[t] = "unmined"
  /\ minedCache' = [minedCache EXCEPT ![t] = "unknown"]
  /\ UNCHANGED <<chain, beefs, lookups, claim, collected>>

\* Mutant: the height is cached, but asked for again.
AskableMutant(t) == minedCache[t] # "unmined"

\* Neither mined for ever nor asked just now.
Askable(t) == minedCache[t] = "unknown"

\* The page polls the list of claims.
Poll(t) ==
  /\ chain[t] # "none"
  /\ Askable(t)
  /\ lookups' = lookups \cup {[tx |-> t, asker |-> Operator]}
  /\ UNCHANGED <<chain, minedCache, beefs, claim, collected>>

\* The rows' transactions are looked up one after the other.
LookUp(trader) ==
  /\ claim[trader].stage = "listing"
  /\ \A l \in lookups : l.asker # trader
  /\ \E t \in claim[trader].todo :
       \/ /\ Askable(t)
          /\ lookups' = lookups \cup {[tx |-> t, asker |-> trader]}
          /\ UNCHANGED claim
       \/ /\ ~Askable(t)
          /\ claim' = [claim EXCEPT ![trader].todo = @ \ {t},
                                    ![trader].mined = IF minedCache[t] = "mined" THEN @ \cup {t} ELSE @]
          /\ UNCHANGED lookups
  /\ UNCHANGED <<chain, minedCache, beefs, collected>>

\* minedAt answers: a height, if there is one, or nothing, also when the service fails.
Answer(l, found) ==
  /\ l \in lookups
  /\ found => chain[l.tx] = "mined"
  /\ minedCache' = [minedCache EXCEPT ![l.tx] = IF found THEN "mined" ELSE "unmined"]
  /\ lookups' = lookups \ {l}
  /\ claim' = [trader \in Traders |->
                 IF trader # l.asker THEN claim[trader]
                 ELSE [claim[trader] EXCEPT !.todo = @ \ {l.tx},
                                            !.mined = IF found THEN @ \cup {l.tx} ELSE @]]
  /\ UNCHANGED <<chain, beefs, collected>>

-----------------------------------------------------------------------------
(* Claiming *)

\* The button of one payment's box is pressed.
Press(trader, p) ==
  /\ claim[trader].stage = "idle"
  /\ p \in PaidTo(trader)
  /\ claim' = [claim EXCEPT ![trader] =
                 [stage |-> "listing", rows |-> PaidTo(trader), todo |-> {q.tx : q \in PaidTo(trader)},
                  mined |-> {}, choice |-> {}, box |-> {p}]]
  /\ UNCHANGED <<chain, minedCache, beefs, lookups, collected>>

\* The rows of the kind the pressed box has: all that the request says of it.
Candidates(c) == {p \in c.rows : \E q \in c.box : p.kind = q.kind}

\* Mined before unmined, then the order of the list.
Before(p, q, mined) ==
  IF (p.tx \in mined) = (q.tx \in mined) THEN p.order <= q.order ELSE p.tx \in mined

\* payoutClaim takes the first.
Choose(trader) ==
  LET c == claim[trader]
  IN  /\ c.stage = "listing" /\ c.todo = {}
      /\ \E p \in Candidates(c) :
           /\ \A q \in Candidates(c) : Before(p, q, c.mined)
           /\ claim' = [claim EXCEPT ![trader].stage = "proving", ![trader].choice = {p}]
      /\ UNCHANGED <<chain, minedCache, beefs, lookups, collected>>

\* Mutant: the proof assembled from the parents is cached too.
BeefsAfterMutant(t) == beefs \cup {t}

\* Only a transaction's own proof is cached.
BeefsAfter(t) == IF chain[t] = "mined" THEN beefs \cup {t} ELSE beefs

\* rawTx: the service knows every transaction sent.
RawTx(t) == chain[t] # "none"

\* fromParents goes no deeper: an unmined parent has no proof.
FromParents(t) == RawTx(t) /\ \A s \in Parents[t] : chain[s] = "mined"

\* atomicBeef: the transaction's own proof, or its parents'.
Prove(trader) ==
  /\ claim[trader].stage = "proving"
  /\ \E p \in claim[trader].choice :
       /\ p.tx \in beefs \/ chain[p.tx] = "mined" \/ FromParents(p.tx)
       /\ beefs' = BeefsAfter(p.tx)
  /\ claim' = [claim EXCEPT ![trader].stage = "holding"]
  /\ UNCHANGED <<chain, minedCache, lookups, collected>>

\* "try again in a moment": no proof yet, or the service failed.
NoProof(trader) ==
  /\ claim[trader].stage = "proving"
  /\ claim[trader].choice \cap {p \in Payments : p.tx \in beefs} = {}
  /\ claim' = [claim EXCEPT ![trader] = Idle]
  /\ UNCHANGED <<chain, minedCache, beefs, lookups, collected>>

\* outputPayingPkh, findPaymentOutput: the output that pays where p was to be paid.
OutputPaying(p) == {o \in Payments : o.tx = p.tx /\ Destination(o) = Destination(p)}

\* payoutClaim's answer: what the wallet is to take, and how to derive its key.
Handed(p) == [outputs |-> OutputPaying(p), remittance |-> RemittanceOf(p)]

\* internalizeAction: the wallet takes an output whose key it derives.
Internalize(trader) ==
  /\ claim[trader].stage = "holding"
  /\ \E p \in claim[trader].choice :
       LET answer == Handed(p)
       IN  collected' = collected \cup
             {o \in answer.outputs : PaymentKey(trader, answer.remittance) = Destination(o)}
  /\ claim' = [claim EXCEPT ![trader] = Idle]
  /\ UNCHANGED <<chain, minedCache, beefs, lookups>>

Next ==
  \/ \E t \in Txs : Broadcast(t) \/ Mine(t)
  \/ \E t \in Paying : Lapse(t) \/ Poll(t)
  \/ \E l \in lookups, found \in BOOLEAN : Answer(l, found)
  \/ \E trader \in Traders : LookUp(trader) \/ Choose(trader) \/ Prove(trader) \/ NoProof(trader)
                               \/ Internalize(trader)
  \/ \E p \in Payments : Press(p.trader, p)

Spec == Init /\ [][Next]_vars

\* Miners mine, the chain service now and then answers, the handlers run on, and a payee keeps
\* pressing every button on the page.
Fairness ==
  /\ \A t \in Txs : WF_vars(Mine(t))
  /\ \A t \in Paying, asker \in Traders \cup {Operator} :
       WF_vars(\E found \in BOOLEAN : Answer([tx |-> t, asker |-> asker], found))
  /\ \A trader \in Traders : /\ WF_vars(LookUp(trader)) /\ WF_vars(Choose(trader))
                             /\ WF_vars(Internalize(trader))
  /\ \A p \in Payments : /\ SF_vars(Press(p.trader, p))
                         /\ SF_vars(claim[p.trader].choice = {p} /\ Prove(p.trader))

FairSpec == Spec /\ Fairness

-----------------------------------------------------------------------------
(* Properties *)

Claim == [stage : {"idle", "listing", "proving", "holding"}, rows : SUBSET Payments, todo : SUBSET Txs,
          mined : SUBSET Txs, choice : SUBSET Payments, box : SUBSET Payments]

TypeOK ==
  /\ chain \in [Txs -> {"none", "mempool", "mined"}]
  /\ minedCache \in [Txs -> {"unknown", "unmined", "mined"}]
  /\ beefs \subseteq Txs
  /\ lookups \subseteq [tx : Txs, asker : Traders \cup {Operator}]
  /\ claim \in [Traders -> Claim]
  /\ collected \subseteq Payments

\* What the two caches keep for ever is final (service.ts:695 and beef.ts:68, "mined transactions
\* do not change"): neither ever holds a transaction that is still in the mempool.
CachesHoldMined ==
  /\ beefs \subseteq {t \in Txs : chain[t] = "mined"}
  /\ \A t \in Txs : minedCache[t] = "mined" => chain[t] = "mined"

\* The height of a transaction is known and nobody is asking for it.
Settled(t) == minedCache[t] = "mined" /\ \A l \in lookups : l.tx # t

\* A height once cached is kept and not asked for again (service.ts:695), unless a second lookup of
\* the transaction was under way when it arrived: that one may answer later, and with nothing.
MinedIsKept == [][\A t \in Txs : Settled(t) => Settled(t)']_vars

\* Whoever is paid can collect: of each kind of payment a trader was sent, one reaches the wallet
\* (ADR-041, MAINNET-011 and MAINNET-015: money at an address its owner cannot spend from).
SomeIsCollected ==
  \A trader \in Traders, kind \in Kind :
    (\E p \in PaidTo(trader) : p.kind = kind)
      ~> (\E p \in collected : p.trader = trader /\ p.kind = kind)
=============================================================================
