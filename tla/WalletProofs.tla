---------------------------- MODULE WalletProofs -----------------------------
(***************************************************************************)
(* Theorems about the outputs an engine pays its fees from, for any number *)
(* of markets, deposits, transactions and units of a trade.                *)
(***************************************************************************)
EXTENDS Wallet, SequenceTheorems, TLAPS

-----------------------------------------------------------------------------
(* The invariants *)

\* What is spent was there before what spends it.
Numbered ==
  /\ \A i \in Outputs : chain[i].fund < i /\ chain[i].pool < i
  /\ \A tx \in stray : tx.fund \in Outputs /\ tx.pool \in 0..Len(chain) /\ tx.market # {}
  /\ \A m \in Markets : recorded[m] \in 0..Len(chain)
  /\ acked \subseteq Outputs /\ created \subseteq Outputs
  /\ held.free \subseteq Outputs /\ held.perhaps \subseteq Outputs

\* A pool belongs to one market, whose transactions spend it.
Owned ==
  /\ \A i \in Outputs : chain[i].pool # 0 => chain[chain[i].pool].market = chain[i].market
  /\ \A tx \in stray : tx.pool # 0 => chain[tx.pool].market = tx.market
  /\ \A m \in Markets : recorded[m] # 0 => chain[recorded[m]].market = {m}

\* The accepted transaction whose answer the call waits for; 0: there is none.
Made == IF call.stage = "sending" THEN call.tx ELSE 0

\* It is spent by nothing, nor by anything that may still be accepted.
Untouched ==
  /\ \A i \in Outputs : chain[i].fund # Made /\ chain[i].pool # Made
  /\ \A tx \in stray : tx.fund # Made /\ tx.pool # Made

\* What the call in flight is about, and that the transaction it waits for is new.
CallSound ==
  call # None =>
    /\ call.pool \in 0..Len(chain) /\ (call.pool # 0 => chain[call.pool].market = {call.market})
    /\ call.stage = "sending" => /\ call.sent.market = {call.market} /\ call.sent.pool = call.pool
                                 /\ call.sent.fund \in Outputs /\ call.sent.late = FALSE
    /\ Made # 0 => Made \in Outputs /\ chain[Made] = call.sent /\ Untouched

\* An output the wallet gave away is not in it any more.
GivenAway == call.stage = "sending" => call.sent.fund \notin held.free \cup held.perhaps

\* Only the sCrypt engine has a wallet.
NoWallet == engine = "runar" => held.free = {} /\ held.perhaps = {}

\* What was spent by a transaction known to be accepted is remembered.
Remembered == \A i \in acked : chain[i].fund \in spent

\* As long as no answer was lost and the process is the first, everything spent is remembered but
\* for what the call in flight spends.
Overlaid ==
  lost = {} /\ ~restarted =>
    \A i \in Outputs : chain[i].fund \in spent \cup {0} \/ i = Made

\* Who spent a market's recorded pool: the call in flight, or one that left its mark.
Marked ==
  \A m \in Markets, i \in Outputs :
    recorded[m] # 0 /\ chain[i].pool = recorded[m] =>
      m \in lost \cup broken \/ (call # None /\ call.market = m /\ (call.made > 0 \/ i = Made))

WalletInv == /\ Numbered /\ Owned /\ CallSound /\ GivenAway /\ Remembered /\ HeldIsFree
             /\ Overlaid /\ Marked

-----------------------------------------------------------------------------
(* What the actions do, field by field *)

\* What the types say of the elements.
LEMMA Elements ==
  ASSUME TypeOK
  PROVE  /\ Len(chain) \in Nat
         /\ \A i \in Outputs : /\ chain[i] \in Tx /\ chain[i].fund \in Nat /\ chain[i].pool \in Nat
                               /\ i \in Nat /\ i # 0
         /\ call # None => /\ call \in Call /\ call.market \in Markets /\ call.sent \in Tx
                           /\ call.stage \in {"funding", "sending"} /\ call.tx \in Nat
                           /\ call.pool \in Nat /\ call.made \in Nat
         /\ held.free \subseteq Nat /\ held.perhaps \subseteq Nat
<1>1. Len(chain) \in Nat /\ \A i \in 1..Len(chain) : chain[i] \in Tx
  BY LenProperties, ElementOfSeq DEF TypeOK
<1>2. \A tx \in Tx : tx.fund \in Nat /\ tx.pool \in Nat
  BY DEF Tx
<1>3. call # None => call \in Call
  BY DEF TypeOK
<1>4. \A c \in Call : /\ c.market \in Markets /\ c.sent \in Tx /\ c.stage \in {"funding", "sending"}
                      /\ c.tx \in Nat /\ c.pool \in Nat /\ c.made \in Nat
  BY DEF Call
<1>5. held.free \subseteq Nat /\ held.perhaps \subseteq Nat
  BY DEF TypeOK
<1> QED
  BY <1>1, <1>2, <1>3, <1>4, <1>5 DEF Outputs

\* The network accepts one more transaction.
LEMMA Extended ==
  ASSUME TypeOK, NEW tx \in Tx, chain' = Append(chain, tx)
  PROVE  /\ chain' \in Seq(Tx) /\ Len(chain') = Len(chain) + 1
         /\ Outputs' = Outputs \cup {Len(chain')}
         /\ Len(chain') \notin Outputs
         /\ \A i \in Outputs : chain'[i] = chain[i]
         /\ chain'[Len(chain')] = tx
<1>1. chain \in Seq(Tx) /\ Len(chain) \in Nat
  BY Elements DEF TypeOK
<1>2. /\ chain' \in Seq(Tx) /\ Len(chain') = Len(chain) + 1
      /\ \A i \in 1..Len(chain) : chain'[i] = chain[i]
      /\ chain'[Len(chain) + 1] = tx
  BY <1>1, AppendProperties
<1> QED
  BY <1>1, <1>2 DEF Outputs

\* The call in flight after its transaction was accepted.
LEMMA AcceptedCall ==
  ASSUME NEW c \in Call, NEW n \in Nat
  PROVE  \E e \in Call : /\ e = [c EXCEPT !.tx = n]
                         /\ e.stage = c.stage /\ e.market = c.market /\ e.pool = c.pool
                         /\ e.made = c.made /\ e.sent = c.sent /\ e.tx = n
<1> DEFINE e == [stage |-> c.stage, market |-> c.market, pool |-> c.pool, left |-> c.left, made |-> c.made,
                 sent |-> c.sent, tx |-> n]
<1>1. e \in Call
  BY DEF Call
<1>2. e = [c EXCEPT !.tx = n]
  BY DEF Call
<1>3. /\ e.stage = c.stage /\ e.market = c.market /\ e.pool = c.pool
      /\ e.made = c.made /\ e.sent = c.sent /\ e.tx = n
  OBVIOUS
<1> QED
  BY <1>1, <1>2, <1>3

\* The call in flight, once it has an output to pay with.
LEMMA FundedCall ==
  ASSUME TypeOK, call.stage = "funding", NEW o \in Outputs
  PROVE  \E e \in Call : /\ e = Sending(o)
                         /\ e.stage = "sending" /\ e.market = call.market /\ e.pool = call.pool
                         /\ e.made = call.made /\ e.tx = 0
                         /\ e.sent.market = {call.market} /\ e.sent.pool = call.pool
                         /\ e.sent.fund = o /\ e.sent.late = FALSE
<1> DEFINE s == [market |-> {call.market}, pool |-> call.pool, fund |-> o, late |-> FALSE]
           e == [stage |-> "sending", market |-> call.market, pool |-> call.pool, left |-> call.left,
                 made |-> call.made, sent |-> s, tx |-> 0]
<1>1. call \in Call /\ o \in Nat
  BY Elements DEF TypeOK, None
<1>2. /\ s \in Tx /\ s.market = {call.market} /\ s.pool = call.pool
      /\ s.fund = o /\ s.late = FALSE
  BY <1>1 DEF Tx, Call
<1>3. Sending(o) = [call EXCEPT !.stage = "sending", !.tx = 0, !.sent = s]
  BY DEF Sending
<1> HIDE DEF s
<1>4. e \in Call
  BY <1>1, <1>2 DEF Call
<1> DEFINE f == [stage |-> "sending", market |-> call.market, pool |-> call.pool, left |-> call.left,
                 made |-> call.made, sent |-> call.sent, tx |-> call.tx]
           g == [stage |-> "sending", market |-> call.market, pool |-> call.pool, left |-> call.left,
                 made |-> call.made, sent |-> call.sent, tx |-> 0]
<1>5. [call EXCEPT !.stage = "sending"] = f
  BY <1>1 DEF Call
<1>6. [f EXCEPT !.tx = 0] = g
  OBVIOUS
<1>7. [g EXCEPT !.sent = s] = e
  OBVIOUS
<1>8. /\ e.stage = "sending" /\ e.market = call.market /\ e.pool = call.pool
      /\ e.made = call.made /\ e.tx = 0 /\ e.sent = s
  OBVIOUS
<1> HIDE DEF e, f, g
<1>9. [call EXCEPT !.stage = "sending", !.tx = 0, !.sent = s] = e
  BY <1>5, <1>6, <1>7, Zenon
<1> QED
  BY <1>2, <1>3, <1>4, <1>9, <1>8

\* The call c, once its transaction n was answered and another is to follow.
Continued(c, n) ==
  [c EXCEPT !.stage = "funding", !.pool = n, !.left = c.left - 1, !.made = c.made + 1]

LEMMA NextUnit ==
  ASSUME NEW c \in Call, c.left # 1, NEW n \in Nat
  PROVE  /\ Continued(c, n) \in Call /\ Continued(c, n).stage = "funding"
         /\ Continued(c, n).market = c.market /\ Continued(c, n).pool = n /\ Continued(c, n).made > 0
<1> DEFINE left == c.left - 1
           made == c.made + 1
           e == [stage |-> "funding", market |-> c.market, pool |-> n, left |-> left, made |-> made,
                 sent |-> c.sent, tx |-> c.tx]
           f == [stage |-> "funding", market |-> c.market, pool |-> c.pool, left |-> c.left, made |-> c.made,
                 sent |-> c.sent, tx |-> c.tx]
           g == [stage |-> "funding", market |-> c.market, pool |-> n, left |-> c.left, made |-> c.made,
                 sent |-> c.sent, tx |-> c.tx]
           h == [stage |-> "funding", market |-> c.market, pool |-> n, left |-> left, made |-> c.made,
                 sent |-> c.sent, tx |-> c.tx]
<1>1. left \in Nat \ {0} /\ made \in Nat /\ made > 0
  BY DEF Call
<1> HIDE DEF left, made
<1>2. e \in Call
  BY <1>1 DEF Call
<1>3. e.stage = "funding" /\ e.market = c.market /\ e.pool = n /\ e.made > 0
  BY <1>1
<1>4. [c EXCEPT !.stage = "funding"] = f
  BY DEF Call
<1>5. [f EXCEPT !.pool = n] = g /\ [g EXCEPT !.left = left] = h /\ [h EXCEPT !.made = made] = e
  OBVIOUS
<1> HIDE DEF e, f, g, h
<1>6. [c EXCEPT !.stage = "funding", !.pool = n, !.left = left, !.made = made] = e
  BY <1>4, <1>5, Zenon
<1>7. Continued(c, n) = e
  BY <1>6 DEF left, made, Continued
<1> QED
  BY <1>2, <1>3, <1>7

\* What the wallet holds without the output it gave away.
LEMMA HeldWithout ==
  ASSUME TypeOK, NEW o,
         held' = [held EXCEPT !.free = @ \ {o}, !.perhaps = @ \ {o}]
  PROVE  /\ held' \in [loaded : BOOLEAN, free : SUBSET Nat, perhaps : SUBSET Nat]
         /\ held'.free = held.free \ {o} /\ held'.perhaps = held.perhaps \ {o}
<1> DEFINE free == held.free \ {o}
           perhaps == held.perhaps \ {o}
           h == [loaded |-> held.loaded, free |-> free, perhaps |-> perhaps]
<1>1. held \in [loaded : BOOLEAN, free : SUBSET Nat, perhaps : SUBSET Nat]
  BY DEF TypeOK
<1>2. held' = h
  BY <1>1
<1> QED
  BY <1>1, <1>2

\* What the wallet holds with the change that came back to it.
LEMMA HeldWith ==
  ASSUME TypeOK, NEW n \in Nat,
         held' = [held EXCEPT !.free = @ \cup {n}]
  PROVE  /\ held' \in [loaded : BOOLEAN, free : SUBSET Nat, perhaps : SUBSET Nat]
         /\ held'.free = held.free \cup {n} /\ held'.perhaps = held.perhaps
<1> DEFINE h == [loaded |-> held.loaded, free |-> held.free \cup {n}, perhaps |-> held.perhaps]
<1>1. held \in [loaded : BOOLEAN, free : SUBSET Nat, perhaps : SUBSET Nat]
  BY DEF TypeOK
<1>2. held' = h
  BY <1>1
<1> QED
  BY <1>1, <1>2

-----------------------------------------------------------------------------
(* The network's steps *)

\* A chain with one more transaction, that spends what is there.
LEMMA ChainGrows ==
  ASSUME TypeOK, Numbered, Owned, NEW tx \in Tx, tx.fund \in Outputs, tx.pool \in 0..Len(chain),
         tx.pool # 0 => chain[tx.pool].market = tx.market,
         chain' = Append(chain, tx), stray' \subseteq stray, UNCHANGED <<recorded, acked, created, held>>
  PROVE  Numbered' /\ Owned'
<1> DEFINE n == Len(chain')
<1>1. /\ n = Len(chain) + 1 /\ Len(chain) \in Nat /\ Outputs' = Outputs \cup {n} /\ chain'[n] = tx
      /\ \A i \in Outputs : chain'[i] = chain[i]
      /\ Outputs = 1..Len(chain)
  BY Extended, Elements DEF Outputs
<1> HIDE DEF n
<1>2. /\ \A i \in Outputs' : chain'[i].fund < i /\ chain'[i].pool < i
      /\ \A i \in Outputs' : chain'[i].pool \in 0..Len(chain)
  <2>1. \A i \in Outputs : chain'[i].fund < i /\ chain'[i].pool < i /\ chain'[i].pool \in 0..Len(chain)
    BY <1>1, Elements DEF Numbered
  <2>2. chain'[n].fund < n /\ chain'[n].pool < n /\ chain'[n].pool \in 0..Len(chain)
    BY <1>1
  <2> QED
    BY <1>1, <2>1, <2>2
<1>3. /\ \A x \in stray' : x.fund \in Outputs' /\ x.pool \in 0..n /\ x.market # {}
      /\ \A m \in Markets : recorded'[m] \in 0..n
  BY <1>1 DEF Numbered
<1>4. /\ acked' \subseteq Outputs' /\ created' \subseteq Outputs'
      /\ held'.free \subseteq Outputs' /\ held'.perhaps \subseteq Outputs'
  BY <1>1 DEF Numbered
<1>5. Numbered'
  BY <1>2, <1>3, <1>4 DEF Numbered, n
<1>6. \A p \in 0..Len(chain) : p # 0 => chain'[p] = chain[p]
  BY <1>1
<1>7. \A i \in Outputs' : chain'[i].pool # 0 => chain'[chain'[i].pool].market = chain'[i].market
  <2>1. \A i \in Outputs : chain'[i].pool # 0 => chain'[chain'[i].pool].market = chain'[i].market
    BY <1>1, <1>2, <1>6 DEF Owned
  <2>2. chain'[n].pool # 0 => chain'[chain'[n].pool].market = chain'[n].market
    BY <1>1, <1>6
  <2> QED
    BY <1>1, <2>1, <2>2
<1>8. \A x \in stray' : x.pool # 0 => chain'[x.pool].market = x.market
  BY <1>6 DEF Numbered, Owned
<1>9. \A m \in Markets : recorded'[m] # 0 => chain'[recorded'[m]].market = {m}
  BY <1>6 DEF Numbered, Owned
<1> QED
  BY <1>5, <1>7, <1>8, <1>9 DEF Owned

\* The call's transaction is accepted: nothing knows of it yet but the call.
LEMMA AcceptStep ==
  ASSUME TypeOK, WalletInv, Accept
  PROVE  WalletInv'
<1> DEFINE n == Len(chain')
<1>1. /\ call.stage = "sending" /\ call.tx = 0 /\ chain' = Append(chain, call.sent)
      /\ call' = [call EXCEPT !.tx = n]
      /\ stray' \subseteq stray
      /\ UNCHANGED <<recorded, acked, created, held, spent, lost, broken, restarted>>
  BY DEF Accept, memory, history
<1>2. call # None /\ call \in Call /\ call.sent \in Tx
  BY <1>1, Elements DEF None
<1>3. /\ call.sent.fund \in Outputs /\ call.sent.pool \in 0..Len(chain) /\ call.sent.late = FALSE
      /\ call.sent.pool # 0 => chain[call.sent.pool].market = call.sent.market
      /\ call.sent.market = {call.market} /\ call.sent.pool = call.pool
  BY <1>1, <1>2 DEF WalletInv, CallSound
<1>4. Numbered' /\ Owned'
  BY <1>1, <1>2, <1>3, ChainGrows DEF WalletInv
<1>5. /\ n = Len(chain) + 1 /\ Len(chain) \in Nat /\ Outputs' = Outputs \cup {n} /\ chain'[n] = call.sent
      /\ \A i \in Outputs : chain'[i] = chain[i] /\ i # n /\ i # 0
      /\ Outputs = 1..Len(chain) /\ n # 0 /\ n \in Nat
  BY <1>1, <1>2, Extended, Elements DEF Outputs
<1> HIDE DEF n
<1>6. PICK e \in Call : /\ call' = e /\ e.stage = "sending" /\ e.market = call.market /\ e.pool = call.pool
                        /\ e.made = call.made /\ e.sent = call.sent /\ e.tx = n
  BY <1>1, <1>2, <1>5, AcceptedCall
<1>7. Made = 0 /\ Made' = n /\ call' # None
  BY <1>1, <1>6 DEF Made, None
<1>8. CallSound'
  <2>1. \A i \in Outputs' : chain'[i].fund # n /\ chain'[i].pool # n
    <3>1. \A i \in Outputs : chain'[i].fund # n /\ chain'[i].pool # n
      BY <1>5, Elements DEF WalletInv, Numbered
    <3>2. chain'[n].fund # n /\ chain'[n].pool # n
      BY <1>3, <1>5
    <3> QED
      BY <1>5, <3>1, <3>2
  <2>2. \A tx \in stray : tx.fund # n /\ tx.pool # n
    BY <1>5 DEF WalletInv, Numbered
  <2>3. Untouched'
    BY <1>1, <1>7, <2>1, <2>2 DEF Untouched
  <2>4. call'.pool \in 0..n /\ (call'.pool # 0 => chain'[call'.pool].market = {call'.market})
    BY <1>2, <1>5, <1>6 DEF WalletInv, CallSound
  <2> QED
    BY <1>3, <1>5, <1>6, <1>7, <2>3, <2>4 DEF CallSound, n
<1>9. GivenAway'
  BY <1>1, <1>6 DEF WalletInv, GivenAway
<1>10. Remembered'
  BY <1>1, <1>5 DEF WalletInv, Remembered, Numbered
<1>11. HeldIsFree'
  <2>1. ASSUME NEW o \in held.free, NEW i \in Outputs', chain'[i].fund = o PROVE chain'[i].late
    <3>1. CASE i = n
      BY <1>1, <1>5, <2>1, <3>1 DEF WalletInv, GivenAway
    <3>2. CASE i \in Outputs
      BY <1>5, <2>1, <3>2 DEF WalletInv, HeldIsFree
    <3> QED
      BY <1>5, <3>1, <3>2
  <2>2. \A i \in acked : chain'[i].fund \notin held.free \cup held.perhaps
    BY <1>5 DEF WalletInv, HeldIsFree, Numbered
  <2> QED
    BY <1>1, <2>1, <2>2 DEF HeldIsFree
<1>12. Overlaid'
  BY <1>1, <1>5, <1>7 DEF WalletInv, Overlaid
<1>13. Marked'
  <2>1. ASSUME NEW m \in Markets, NEW i \in Outputs', recorded[m] # 0, chain'[i].pool = recorded[m]
        PROVE  m \in lost \cup broken \/ (call'.market = m /\ (call'.made > 0 \/ i = n))
    <3>1. CASE i \in Outputs
      BY <1>5, <1>6, <1>7, <2>1, <3>1 DEF WalletInv, Marked
    <3>2. CASE i = n
      <4>1. chain[recorded[m]].market = {m} /\ call.pool = recorded[m]
        BY <1>3, <1>5, <2>1, <3>2 DEF WalletInv, Owned
      <4>2. {call.market} = {m}
        BY <1>2, <2>1, <4>1 DEF WalletInv, CallSound
      <4> QED
        BY <1>6, <3>2, <4>2
    <3> QED
      BY <1>5, <3>1, <3>2
  <2> QED
    BY <1>1, <1>7, <2>1 DEF Marked
<1> QED
  BY <1>4, <1>8, <1>9, <1>10, <1>11, <1>12, <1>13 DEF WalletInv

\* A transaction nobody awaits is accepted: its market lost an answer.
LEMMA AcceptLateStep ==
  ASSUME TypeOK, WalletInv, NEW old \in stray, AcceptLate(old)
  PROVE  WalletInv'
<1> DEFINE n == Len(chain')
           tx == [old EXCEPT !.late = TRUE]
<1>1. /\ chain' = Append(chain, tx) /\ stray' \subseteq stray /\ lost' = lost \cup old.market
      /\ UNCHANGED <<recorded, acked, created, held, spent, call, broken, restarted>>
  BY DEF AcceptLate, memory
<1>2. old \in Tx /\ old.fund \in Outputs /\ old.pool \in 0..Len(chain) /\ old.market # {}
  BY DEF TypeOK, WalletInv, Numbered
<1>3. /\ tx \in Tx /\ tx.fund = old.fund /\ tx.pool = old.pool /\ tx.market = old.market
      /\ tx.late = TRUE
  BY <1>2 DEF Tx
<1> HIDE DEF tx
<1>4. tx.pool # 0 => chain[tx.pool].market = tx.market
  BY <1>3 DEF WalletInv, Owned
<1>5. Numbered' /\ Owned'
  BY <1>1, <1>2, <1>3, <1>4, ChainGrows DEF WalletInv
<1>6. /\ n = Len(chain) + 1 /\ Len(chain) \in Nat /\ Outputs' = Outputs \cup {n} /\ chain'[n] = tx
      /\ \A i \in Outputs : chain'[i] = chain[i] /\ i # n
      /\ Outputs = 1..Len(chain)
  BY <1>1, <1>3, Extended, Elements DEF Outputs
<1> HIDE DEF n
<1>7. Made' = Made
  BY <1>1 DEF Made
<1>8. CallSound'
  <2>1. ASSUME Made # 0, call # None PROVE Untouched'
    <3>1. Untouched
      BY <2>1 DEF WalletInv, CallSound
    <3>2. tx.fund # Made /\ tx.pool # Made
      BY <1>3, <3>1 DEF Untouched
    <3> QED
      BY <1>1, <1>6, <1>7, <3>1, <3>2 DEF Untouched
  <2> QED
    BY <1>1, <1>6, <1>7, <2>1 DEF WalletInv, CallSound, n
<1>9. GivenAway'
  BY <1>1 DEF WalletInv, GivenAway
<1>10. Remembered'
  BY <1>1, <1>6 DEF WalletInv, Remembered, Numbered
<1>11. HeldIsFree'
  <2>1. \A o \in held.free, i \in Outputs' : chain'[i].fund = o => chain'[i].late
    BY <1>3, <1>6 DEF WalletInv, HeldIsFree
  <2>2. \A i \in acked : chain'[i].fund \notin held.free \cup held.perhaps
    BY <1>6 DEF WalletInv, HeldIsFree, Numbered
  <2> QED
    BY <1>1, <2>1, <2>2 DEF HeldIsFree
<1>12. Overlaid'
  BY <1>1, <1>2 DEF Overlaid
<1>13. Marked'
  <2>1. ASSUME NEW m \in Markets, NEW i \in Outputs', recorded[m] # 0, chain'[i].pool = recorded[m]
        PROVE  \/ m \in lost' \cup broken
               \/ call # None /\ call.market = m /\ (call.made > 0 \/ i = Made)
    <3>1. CASE i \in Outputs
      BY <1>1, <1>6, <2>1, <3>1 DEF WalletInv, Marked
    <3>2. CASE i = n
      BY <1>1, <1>3, <1>4, <1>6, <2>1, <3>2 DEF WalletInv, Owned
    <3> QED
      BY <1>6, <3>1, <3>2
  <2> QED
    BY <1>1, <1>7, <2>1 DEF Marked
<1> QED
  BY <1>5, <1>8, <1>9, <1>10, <1>11, <1>12, <1>13 DEF WalletInv

-----------------------------------------------------------------------------
(* The engine's steps *)

\* A call starts: it spends the market's recorded pool.
LEMMA BeginStep ==
  ASSUME TypeOK, WalletInv, NEW m \in Markets, NEW k \in Nat \ {0}, NEW seeds, Begin(m, k, seeds)
  PROVE  WalletInv' /\ call' \in Call /\ spent' \subseteq Nat /\ created' \subseteq Nat /\ registered' \subseteq Nat
<1>1. /\ call = None
      /\ call' = [stage |-> "funding", market |-> m, pool |-> recorded[m], left |-> k, made |-> 0,
                  sent |-> Deposit, tx |-> 0]
      /\ UNCHANGED <<chain, stray, held, recorded, acked, lost, broken, restarted>>
  BY DEF Begin, history
<1>2. Outputs' = Outputs /\ Len(chain') = Len(chain)
  BY <1>1 DEF Outputs
<1>3. /\ spent \subseteq spent' /\ created' \subseteq Outputs
      /\ spent' \subseteq Nat /\ created' \subseteq Nat /\ registered' \subseteq Nat
  <2>1. CASE Seeded(m, seeds)
    <3>1. recorded[m] \in Outputs
      BY <2>1, Elements DEF Seeded, WalletInv, Numbered, Outputs
    <3>2. chain[recorded[m]].fund \in Nat /\ recorded[m] \in Nat
      BY <3>1, Elements
    <3> QED
      BY <2>1, <3>1, <3>2 DEF Begin, WalletInv, Numbered, TypeOK
  <2>2. CASE ~Seeded(m, seeds)
    BY <2>2 DEF Begin, WalletInv, Numbered, TypeOK
  <2> QED
    BY <2>1, <2>2
<1>4. /\ call' \in Call /\ call'.stage = "funding" /\ call'.market = m /\ call'.pool = recorded[m]
  <2>1. Deposit \in Tx /\ recorded[m] \in Nat
    BY DEF Deposit, Tx, TypeOK
  <2> QED
    BY <1>1, <2>1 DEF Call
<1>5. Made' = 0 /\ Made = 0
  BY <1>1, <1>4 DEF Made, None
<1>6. Numbered' /\ Owned'
  BY <1>1, <1>2, <1>3 DEF WalletInv, Numbered, Owned
<1>7. CallSound'
  BY <1>1, <1>2, <1>4, <1>5 DEF WalletInv, CallSound, Numbered, Owned
<1>8. GivenAway'
  BY <1>4 DEF GivenAway
<1>9. Remembered'
  BY <1>1, <1>3 DEF WalletInv, Remembered
<1>10. HeldIsFree'
  BY <1>1, <1>2 DEF WalletInv, HeldIsFree
<1>11. Overlaid'
  BY <1>1, <1>2, <1>3, <1>5 DEF WalletInv, Overlaid
<1>12. Marked'
  BY <1>1, <1>2, <1>5 DEF WalletInv, Marked
<1> QED
  BY <1>3, <1>4, <1>6, <1>7, <1>8, <1>9, <1>10, <1>11, <1>12 DEF WalletInv

\* The chain is asked about what the explorer lists and the process does not remember.
LEMMA ListStep ==
  ASSUME TypeOK, WalletInv, NEW listed \in SUBSET Outputs, NEW silent \in SUBSET listed,
         ListUnspent(listed, silent)
  PROVE  WalletInv' /\ held' \in [loaded : BOOLEAN, free : SUBSET Nat, perhaps : SUBSET Nat]
<1>1. /\ call.stage = "funding" /\ silent \subseteq listed \ spent
      /\ held' = Loaded(listed \ spent, silent)
      /\ UNCHANGED <<chain, stray, spent, created, call, recorded, acked, lost, broken, restarted>>
  BY DEF ListUnspent, history
<1> DEFINE free == {o \in (listed \ spent) \ silent : ~Spent(o)}
           perhaps == silent \ spentOnChain
<1>2. held' = [loaded |-> TRUE, free |-> free, perhaps |-> perhaps]
  BY <1>1 DEF Loaded
<1>3. /\ free \subseteq Outputs \ spent /\ perhaps \subseteq Outputs \ spent
      /\ \A o \in free : ~Spent(o)
      /\ Outputs \subseteq Nat
  BY <1>1, Elements
<1> HIDE DEF free, perhaps
<1>4. /\ held' \in [loaded : BOOLEAN, free : SUBSET Nat, perhaps : SUBSET Nat]
      /\ held'.free = free /\ held'.perhaps = perhaps
  BY <1>2, <1>3
<1>5. Outputs' = Outputs /\ Made' = Made
  BY <1>1 DEF Outputs, Made
<1>6. Numbered' /\ Owned'
  BY <1>1, <1>3, <1>4, <1>5 DEF WalletInv, Numbered, Owned
<1>7. CallSound'
  BY <1>1, <1>5 DEF WalletInv, CallSound, Untouched
<1>8. GivenAway'
  BY <1>1 DEF GivenAway
<1>9. Remembered' /\ Overlaid' /\ Marked'
  BY <1>1, <1>5 DEF WalletInv, Remembered, Overlaid, Marked
<1>10. HeldIsFree'
  BY <1>1, <1>3, <1>4, <1>5 DEF WalletInv, HeldIsFree, Remembered, Spent
<1> QED
  BY <1>4, <1>6, <1>7, <1>8, <1>9, <1>10 DEF WalletInv

\* The call takes an output to pay with, which leaves the wallet's cache.
LEMMA PayStep ==
  ASSUME TypeOK, WalletInv, NEW o \in Outputs, call.stage = "funding", call' = Sending(o),
         held'.free \subseteq held.free \ {o}, held'.perhaps \subseteq held.perhaps \ {o},
         UNCHANGED <<chain, stray, spent, created, recorded, acked, lost, broken, restarted>>
  PROVE  WalletInv' /\ call' \in Call
<1>1. PICK e \in Call : /\ call' = e /\ e.stage = "sending" /\ e.market = call.market
                        /\ e.pool = call.pool /\ e.made = call.made /\ e.tx = 0
                        /\ e.sent.market = {call.market} /\ e.sent.pool = call.pool
                        /\ e.sent.fund = o /\ e.sent.late = FALSE
  BY FundedCall
<1>2. call # None /\ call' # None /\ Made = 0 /\ Made' = 0 /\ Outputs' = Outputs
  BY <1>1 DEF None, Made, Outputs
<1>3. Numbered' /\ Owned'
  BY <1>2 DEF WalletInv, Numbered, Owned
<1>4. CallSound'
  BY <1>1, <1>2 DEF WalletInv, CallSound
<1>5. GivenAway'
  BY <1>1 DEF GivenAway
<1>6. Remembered' /\ Overlaid'
  BY <1>2 DEF WalletInv, Remembered, Overlaid
<1>7. HeldIsFree'
  BY <1>2 DEF WalletInv, HeldIsFree
<1>8. Marked'
  BY <1>1, <1>2 DEF WalletInv, Marked
<1> QED
  BY <1>1, <1>3, <1>4, <1>5, <1>6, <1>7, <1>8 DEF WalletInv

\* The call's transaction is answered: its change and its pool are whole.
LEMMA AnsweredStep ==
  ASSUME TypeOK, WalletInv, Answered
  PROVE  /\ WalletInv' /\ call' \in Call \cup {None}
         /\ held' \in [loaded : BOOLEAN, free : SUBSET Nat, perhaps : SUBSET Nat]
         /\ recorded' \in [Markets -> Nat] /\ Made \in Nat /\ call.sent.fund \in Nat
<1>1. /\ call.stage = "sending" /\ call.tx # 0 /\ spent' = spent \cup {call.sent.fund}
      /\ acked' = acked \cup {call.tx}
      /\ UNCHANGED <<engine, chain, stray, spentOnChain, lost, broken, restarted>>
  BY DEF Answered, Remember
<1>2. call # None /\ call \in Call /\ Made = call.tx /\ call.market \in Markets
  BY <1>1, Elements DEF None, Made
<1>3. /\ Made \in Outputs /\ chain[Made] = call.sent /\ Untouched
      /\ call.sent.market = {call.market} /\ call.sent.fund \in Outputs
  BY <1>1, <1>2 DEF WalletInv, CallSound
<1>4. Outputs' = Outputs /\ Outputs \subseteq Nat /\ Made \in Nat /\ Made \in 0..Len(chain)
  BY <1>1, <1>3, Elements DEF Outputs
<1>5. /\ held' \in [loaded : BOOLEAN, free : SUBSET Nat, perhaps : SUBSET Nat]
      /\ held'.free \subseteq held.free \cup {Made} /\ held'.perhaps \subseteq held.perhaps
  <2>1. CASE engine = "scrypt"
    BY <1>2, <1>4, <2>1, HeldWith DEF Answered
  <2>2. CASE engine # "scrypt"
    BY <2>2 DEF Answered, TypeOK
  <2> QED
    BY <2>1, <2>2
<1>6. created' \subseteq created \cup {Made}
  BY <1>2 DEF Answered
<1>7. ASSUME call.left # 1
       PROVE  /\ call' \in Call /\ call'.stage = "funding" /\ call'.market = call.market
              /\ call'.pool = Made /\ call'.made > 0
  <2>1. call' = [call EXCEPT !.stage = "funding", !.pool = PoolMade, !.left = @ - 1, !.made = @ + 1]
    BY <1>7 DEF Answered
  <2>2. PoolMade = Made
    BY <1>2 DEF PoolMade
  <2>3. call' = Continued(call, Made)
    BY <2>1, <2>2, Zenon DEF Continued
  <2> QED
    BY <1>2, <1>4, <1>7, <2>3, NextUnit
<1>8. /\ call' \in Call \cup {None} /\ Made' = 0 /\ call'.stage # "sending"
      /\ call' # None => call'.pool = Made /\ call'.market = call.market /\ call'.made > 0
  <2>1. CASE call.left = 1
    BY <2>1 DEF Answered, None, Made
  <2>2. CASE call.left # 1
    BY <1>7, <2>2 DEF Made
  <2> QED
    BY <2>1, <2>2
<1>9. /\ recorded' \in [Markets -> Nat]
      /\ \A m \in Markets : recorded'[m] = recorded[m] \/ (m = call.market /\ recorded'[m] = Made)
      /\ recorded' = recorded \/ call' = None
      /\ call' = None => recorded'[call.market] = Made
  <2>1. CASE call.left = 1
    BY <1>2, <1>4, <2>1 DEF Answered, PoolMade, TypeOK
  <2>2. CASE call.left # 1
    <3>1. recorded' = recorded
      BY <2>2 DEF Answered
    <3>2. call' # None
      BY <1>7, <2>2 DEF None
    <3> QED
      BY <3>1, <3>2 DEF TypeOK
  <2> QED
    BY <2>1, <2>2
<1>10. Numbered'
  BY <1>1, <1>2, <1>3, <1>4, <1>5, <1>6, <1>9 DEF WalletInv, Numbered
<1>11. Owned'
  BY <1>1, <1>3, <1>4, <1>9 DEF WalletInv, Owned
<1>12. CallSound'
  BY <1>1, <1>3, <1>4, <1>8 DEF CallSound
<1>13. GivenAway'
  BY <1>8 DEF GivenAway
<1>14. Remembered'
  BY <1>1, <1>2, <1>3 DEF WalletInv, Remembered
<1>15. HeldIsFree'
  <2>1. \A o \in held'.free, i \in Outputs : chain[i].fund = o => chain[i].late
    BY <1>3, <1>5 DEF WalletInv, HeldIsFree, Untouched
  <2>2. \A i \in acked : chain[i].fund \notin held.free \cup held.perhaps \cup {Made}
    BY <1>3 DEF WalletInv, HeldIsFree, Untouched, Numbered
  <2>3. chain[Made].fund \notin held.free \cup held.perhaps \cup {Made}
    BY <1>1, <1>3 DEF WalletInv, GivenAway, Untouched
  <2> QED
    BY <1>1, <1>2, <1>4, <1>5, <2>1, <2>2, <2>3 DEF HeldIsFree
<1>16. Overlaid'
  BY <1>1, <1>3, <1>4 DEF WalletInv, Overlaid
<1>17. Marked'
  <2>1. ASSUME NEW m \in Markets, NEW i \in Outputs, recorded'[m] # 0, chain[i].pool = recorded'[m]
        PROVE  m \in lost \cup broken \/ (call' # None /\ call'.market = m /\ call'.made > 0)
    <3>1. recorded'[m] = recorded[m]
      BY <1>3, <1>9, <2>1 DEF Untouched
    <3>2. m \in lost \cup broken \/ call.market = m
      BY <2>1, <3>1 DEF WalletInv, Marked
    <3>3. call' = None /\ call.market = m => recorded'[m] = Made
      BY <1>9
    <3>4. recorded'[m] # Made
      BY <1>3, <2>1 DEF Untouched
    <3> QED
      BY <1>8, <3>2, <3>3, <3>4
  <2> QED
    BY <1>1, <1>4, <2>1 DEF Marked
<1> QED
  BY <1>3, <1>4, <1>5, <1>8, <1>9, <1>10, <1>11, <1>12, <1>13, <1>14, <1>15, <1>16, <1>17 DEF WalletInv

\* The call ends without its answer.
LEMMA AbandonStep ==
  ASSUME TypeOK, WalletInv, Abandon, held' = NotHeld, UNCHANGED <<chain, recorded>>,
         acked' \subseteq acked, created' \subseteq created,
         \/ spent' = spent /\ restarted' = restarted
         \/ acked' = {} /\ restarted'
  PROVE  WalletInv' /\ stray' \subseteq Tx /\ lost' \subseteq Markets /\ broken' \subseteq Markets
<1>1. /\ call' = None /\ lost \subseteq lost' /\ broken \subseteq broken'
      /\ Made # 0 => lost' = lost \cup {call.market}
      /\ call # None /\ call.made > 0 => broken' = broken \cup {call.market}
  BY DEF Abandon, Made
<1>2. Made' = 0 /\ Outputs' = Outputs /\ call'.stage = "none"
  BY <1>1 DEF Made, None, Outputs
<1>3. /\ \A tx \in stray' : tx \in stray \/ (call.stage = "sending" /\ tx = call.sent)
  BY DEF Abandon
<1>4. call.stage = "sending" =>
        /\ call # None /\ call.sent \in Tx /\ call.market \in Markets /\ call.sent.fund \in Outputs
        /\ call.sent.pool \in 0..Len(chain) /\ call.sent.market = {call.market}
        /\ call.sent.pool # 0 => chain[call.sent.pool].market = call.sent.market
  <2> SUFFICES ASSUME call.stage = "sending"
               PROVE  /\ call # None /\ call.sent \in Tx /\ call.market \in Markets
                      /\ call.sent.fund \in Outputs
                      /\ call.sent.pool \in 0..Len(chain) /\ call.sent.market = {call.market}
                      /\ call.sent.pool # 0 => chain[call.sent.pool].market = call.sent.market
    OBVIOUS
  <2>1. call # None
    BY DEF None
  <2>2. call.sent \in Tx /\ call.market \in Markets
    BY <2>1, Elements
  <2> QED
    BY <2>1, <2>2 DEF WalletInv, CallSound
<1>5. stray' \subseteq Tx
  BY <1>3, <1>4 DEF TypeOK
<1>6. lost' \subseteq Markets /\ broken' \subseteq Markets
  <2>1. /\ lost' = lost \/ (lost' = lost \cup {call.market} /\ call.stage = "sending")
        /\ broken' = broken \/ (broken' = broken \cup {call.market} /\ call # None)
    BY DEF Abandon
  <2>2. call # None => call.market \in Markets
    BY Elements
  <2> QED
    BY <1>4, <2>1, <2>2 DEF TypeOK
<1>7. held'.free = {} /\ held'.perhaps = {}
  BY DEF NotHeld
<1>8. Numbered'
  BY <1>2, <1>3, <1>4, <1>7 DEF WalletInv, Numbered
<1>9. Owned'
  BY <1>2, <1>3, <1>4 DEF WalletInv, Owned
<1>10. CallSound' /\ GivenAway'
  BY <1>1, <1>2 DEF CallSound, GivenAway
<1>11. Remembered'
  BY DEF WalletInv, Remembered
<1>12. HeldIsFree'
  BY <1>7 DEF HeldIsFree
<1>13. Overlaid'
  BY <1>1, <1>2, Elements DEF WalletInv, Overlaid
<1>14. Marked'
  BY <1>1, <1>2, Elements DEF WalletInv, Marked
<1> QED
  BY <1>5, <1>6, <1>8, <1>9, <1>10, <1>11, <1>12, <1>13, <1>14 DEF WalletInv

-----------------------------------------------------------------------------
(* Every step *)

\* A call that starts takes some number of transactions.
LEMMA Begun ==
  ASSUME NEW m \in Markets,
         \/ Deploy(m)
         \/ \E seeds \in BOOLEAN : Resolve(m, seeds) \/ \E n \in 1..MaxUnits : Trade(m, n, seeds)
  PROVE  \E k \in Nat \ {0}, seeds \in BOOLEAN : Begin(m, k, seeds)
<1>1. 1 \in Nat \ {0} /\ 1..MaxUnits \subseteq Nat \ {0}
  BY LimitsAssumption
<1> QED
  BY <1>1 DEF Deploy, Resolve, Trade

LEMMA TypeStep ==
  ASSUME TypeOK, WalletInv, [Next]_vars
  PROVE  TypeOK'
<1>1. CASE Accept
  <2>1. call.sent \in Tx /\ call \in Call
    BY <1>1, Elements DEF Accept, None
  <2>2. chain' \in Seq(Tx) /\ Len(chain') \in Nat
    <3>1. chain' \in Seq(Tx)
      BY <1>1, <2>1, Extended DEF Accept
    <3> QED
      BY <3>1, LenProperties
  <2>3. call' \in Call
    BY <1>1, <2>1, <2>2, AcceptedCall DEF Accept
  <2>4. /\ stray' \subseteq stray
        /\ UNCHANGED <<engine, spent, spentOnChain, held, created, registered, recorded, acked, lost,
                       broken, restarted>>
    BY <1>1 DEF Accept, memory, history
  <2> QED
    BY <2>2, <2>3, <2>4 DEF TypeOK
<1>2. ASSUME NEW tx \in stray, AcceptLate(tx) PROVE TypeOK'
  <2>1. [tx EXCEPT !.late = TRUE] \in Tx /\ tx.market \subseteq Markets
    BY DEF TypeOK, Tx
  <2>2. chain' \in Seq(Tx)
    BY <1>2, <2>1, Extended DEF AcceptLate
  <2>3. /\ stray' \subseteq stray /\ lost' = lost \cup tx.market
        /\ UNCHANGED <<engine, spent, spentOnChain, held, created, registered, call, recorded, acked,
                       broken, restarted>>
    BY <1>2 DEF AcceptLate, memory
  <2> QED
    BY <2>1, <2>2, <2>3 DEF TypeOK
<1>3. ASSUME NEW m \in Markets, NEW k \in Nat \ {0}, NEW seeds, Begin(m, k, seeds) PROVE TypeOK'
  <2>1. /\ call' \in Call /\ spent' \subseteq Nat /\ created' \subseteq Nat /\ registered' \subseteq Nat
    BY <1>3, BeginStep
  <2>2. UNCHANGED <<engine, chain, stray, spentOnChain, held, recorded, acked, lost, broken, restarted>>
    BY <1>3 DEF Begin, history
  <2> QED
    BY <2>1, <2>2 DEF TypeOK
<1>4. ASSUME NEW listed \in SUBSET Outputs, NEW silent \in SUBSET listed, ListUnspent(listed, silent)
      PROVE  TypeOK'
  <2>1. held' \in [loaded : BOOLEAN, free : SUBSET Nat, perhaps : SUBSET Nat]
    BY <1>4, ListStep
  <2>2. spentOnChain' \subseteq Nat
    BY <1>4, Elements DEF ListUnspent, TypeOK
  <2>3. UNCHANGED <<engine, chain, stray, spent, created, registered, call, recorded, acked, lost, broken,
                    restarted>>
    BY <1>4 DEF ListUnspent, history
  <2> QED
    BY <2>1, <2>2, <2>3 DEF TypeOK
<1>5. ASSUME NEW o \in Outputs, FundFromWallet(o) \/ FundDeploy(o, Outputs) \/ FundStep(o, Outputs, Outputs)
      PROVE  TypeOK'
  <2>1. /\ call.stage = "funding" /\ call' = Sending(o)
        /\ UNCHANGED <<engine, chain, stray, spent, spentOnChain, created, registered, recorded, acked,
                       lost, broken, restarted>>
    BY <1>5 DEF FundFromWallet, FundDeploy, FundStep, memory, history
  <2>2. call' \in Call
    BY <2>1, FundedCall
  <2>3. held' \in [loaded : BOOLEAN, free : SUBSET Nat, perhaps : SUBSET Nat]
    <3>1. CASE held' = held
      BY <3>1 DEF TypeOK
    <3>2. CASE held' = [held EXCEPT !.free = @ \ {o}, !.perhaps = @ \ {o}]
      BY <3>2, HeldWithout
    <3> QED
      BY <1>5, <3>1, <3>2 DEF FundFromWallet, FundDeploy, FundStep, memory
  <2> QED
    BY <2>1, <2>2, <2>3 DEF TypeOK
<1>6. CASE Answered
  <2>1. /\ call' \in Call \cup {None} /\ recorded' \in [Markets -> Nat] /\ Made \in Nat
        /\ held' \in [loaded : BOOLEAN, free : SUBSET Nat, perhaps : SUBSET Nat] /\ call.sent.fund \in Nat
    BY <1>6, AnsweredStep
  <2>2. Made = call.tx
    BY <1>6 DEF Answered, Made
  <2>3. /\ spent' = spent \cup {call.sent.fund} /\ acked' = acked \cup {call.tx}
        /\ created' \subseteq created \cup {call.tx} /\ registered' \subseteq registered \cup {call.tx}
        /\ UNCHANGED <<engine, chain, stray, spentOnChain, lost, broken, restarted>>
    BY <1>6 DEF Answered, Remember
  <2> QED
    BY <2>1, <2>2, <2>3 DEF TypeOK
<1>7. CASE Fail \/ Restart
  <2>1. stray' \subseteq Tx /\ lost' \subseteq Markets /\ broken' \subseteq Markets
    BY <1>7, AbandonStep DEF Fail, Restart, Kept
  <2>2. call' = None /\ held' = NotHeld /\ UNCHANGED <<engine, chain, recorded>>
    BY <1>7 DEF Fail, Restart, Abandon
  <2>3. /\ spent' \subseteq Nat /\ spentOnChain' \subseteq Nat /\ created' \subseteq Nat
        /\ registered' \subseteq Nat /\ acked' \subseteq Nat /\ restarted' \in BOOLEAN
    BY <1>7 DEF Fail, Restart, Kept, TypeOK
  <2>4. held' \in [loaded : BOOLEAN, free : SUBSET Nat, perhaps : SUBSET Nat]
    BY <2>2 DEF NotHeld
  <2> QED
    BY <2>1, <2>2, <2>3, <2>4 DEF TypeOK
<1>8. CASE UNCHANGED vars
  BY <1>8 DEF vars, memory, history, TypeOK
<1>9. CASE \E m \in Markets : \/ Deploy(m)
                             \/ \E seeds \in BOOLEAN : \/ Resolve(m, seeds)
                                                      \/ \E n \in 1..MaxUnits : Trade(m, n, seeds)
  BY <1>3, <1>9, Begun
<1>10. CASE Next
  BY <1>1, <1>2, <1>4, <1>5, <1>6, <1>7, <1>9, <1>10 DEF Next
<1> QED
  BY <1>8, <1>10

LEMMA WalletStep ==
  ASSUME TypeOK, NoWallet, WalletInv, [Next]_vars
  PROVE  WalletInv'
<1>1. ASSUME NEW o \in Outputs, FundFromWallet(o) \/ FundDeploy(o, Outputs) \/ FundStep(o, Outputs, Outputs)
      PROVE  WalletInv'
  <2>1. /\ call.stage = "funding" /\ call' = Sending(o)
        /\ UNCHANGED <<chain, stray, spent, created, recorded, acked, lost, broken, restarted>>
    BY <1>1 DEF FundFromWallet, FundDeploy, FundStep, memory, history
  <2>2. CASE FundFromWallet(o)
    <3>1. held'.free = held.free \ {o} /\ held'.perhaps = held.perhaps \ {o}
      BY <2>2, HeldWithout DEF FundFromWallet
    <3> QED
      BY <2>1, <3>1, PayStep
  <2>3. CASE FundDeploy(o, Outputs) \/ FundStep(o, Outputs, Outputs)
    <3>1. held' = held /\ o \notin held.free /\ o \notin held.perhaps
      BY <2>3 DEF FundDeploy, FundStep, memory, NoWallet
    <3> QED
      BY <2>1, <3>1, PayStep
  <2> QED
    BY <1>1, <2>2, <2>3
<1>2. CASE Fail \/ Restart
  BY <1>2, AbandonStep DEF Fail, Restart, Kept
<1>3. CASE UNCHANGED vars
  BY <1>3 DEF vars, memory, history, WalletInv, Numbered, Owned, Untouched, Made, CallSound, GivenAway,
              Remembered, HeldIsFree, Overlaid, Marked, Outputs
<1>4. CASE \E m \in Markets : \/ Deploy(m)
                             \/ \E seeds \in BOOLEAN : \/ Resolve(m, seeds)
                                                      \/ \E n \in 1..MaxUnits : Trade(m, n, seeds)
  <2>1. PICK m \in Markets, k \in Nat \ {0}, seeds \in BOOLEAN : Begin(m, k, seeds)
    BY <1>4, Begun
  <2> QED
    BY <2>1, BeginStep
<1>5. CASE \E tx \in stray : AcceptLate(tx)
  BY <1>5, AcceptLateStep
<1>6. CASE \E listed \in SUBSET Outputs : \E silent \in SUBSET listed : ListUnspent(listed, silent)
  BY <1>6, ListStep
<1>7. CASE Accept
  BY <1>7, AcceptStep
<1>8. CASE Answered
  BY <1>8, AnsweredStep
<1>9. CASE Next
  BY <1>1, <1>2, <1>4, <1>5, <1>6, <1>7, <1>8, <1>9 DEF Next
<1> QED
  BY <1>3, <1>9

\* The Runar engine never lists anything into the wallet.
LEMMA NoWalletStep ==
  ASSUME TypeOK, NoWallet, [Next]_vars
  PROVE  NoWallet'
<1>1. CASE engine' = engine /\ held' \in {held, NotHeld}
  BY <1>1 DEF NoWallet, NotHeld
<1>2. CASE engine' = engine /\ engine = "scrypt"
  BY <1>2 DEF NoWallet
<1>3. ASSUME NEW m \in Markets, NEW k \in Nat \ {0}, NEW seeds \in BOOLEAN, Begin(m, k, seeds)
      PROVE  engine' = engine /\ held' = held
  BY <1>3 DEF Begin
<1>4. CASE \E m \in Markets : \/ Deploy(m)
                             \/ \E seeds \in BOOLEAN : \/ Resolve(m, seeds)
                                                      \/ \E n \in 1..MaxUnits : Trade(m, n, seeds)
  BY <1>1, <1>3, <1>4, Begun
<1>5. CASE Accept \/ (\E tx \in stray : AcceptLate(tx)) \/ Fail \/ Restart \/ UNCHANGED vars
  BY <1>1, <1>5 DEF Accept, AcceptLate, Fail, Restart, vars, memory
<1>6. CASE Answered
  BY <1>1, <1>2, <1>6 DEF Answered
<1>7. CASE \E listed \in SUBSET Outputs : \E silent \in SUBSET listed : ListUnspent(listed, silent)
  BY <1>2, <1>7 DEF ListUnspent
<1>8. CASE \E o \in Outputs : FundFromWallet(o) \/ FundDeploy(o, Outputs) \/ FundStep(o, Outputs, Outputs)
  BY <1>1, <1>2, <1>8 DEF FundFromWallet, FundDeploy, FundStep, memory
<1>9. CASE Next
  BY <1>4, <1>5, <1>6, <1>7, <1>8, <1>9 DEF Next
<1> QED
  BY <1>5, <1>9

-----------------------------------------------------------------------------
(* The theorems *)

\* Types are right and the invariants hold, for any number of markets, deposits and transactions.
THEOREM WalletSound == Spec => [](TypeOK /\ NoWallet /\ WalletInv)
<1>1. Init => TypeOK /\ NoWallet /\ WalletInv
  <2> SUFFICES ASSUME Init PROVE TypeOK /\ NoWallet /\ WalletInv
    OBVIOUS
  <2>1. Deposit \in Tx /\ Deposit.fund = 0 /\ Deposit.pool = 0
    BY DEF Deposit, Tx
  <2>2. /\ chain \in Seq(Tx) /\ Len(chain) = Deposits /\ Len(chain) \in Nat
        /\ \A i \in Outputs : chain[i] = Deposit /\ i \in Nat /\ i # 0
    BY <2>1, LimitsAssumption DEF Init, Outputs
  <2>3. /\ call = None /\ stray = {} /\ held = NotHeld /\ recorded = [m \in Markets |-> 0]
        /\ spent = {} /\ spentOnChain = {} /\ created = {} /\ registered = {} /\ engine \in Engines
        /\ acked = {} /\ lost = {} /\ broken = {} /\ restarted = FALSE
    BY DEF Init
  <2>4. TypeOK /\ NoWallet
    BY <2>2, <2>3 DEF TypeOK, NotHeld, NoWallet
  <2>5. Numbered /\ Owned
    BY <2>1, <2>2, <2>3 DEF Numbered, Owned, NotHeld
  <2>6. CallSound /\ GivenAway /\ Remembered /\ HeldIsFree
    BY <2>3 DEF CallSound, GivenAway, Remembered, HeldIsFree, None, NotHeld
  <2>7. Overlaid /\ Marked
    BY <2>1, <2>2, <2>3 DEF Overlaid, Marked
  <2> QED
    BY <2>4, <2>5, <2>6, <2>7 DEF WalletInv
<1>2. TypeOK /\ NoWallet /\ WalletInv /\ [Next]_vars => (TypeOK /\ NoWallet /\ WalletInv)'
  BY TypeStep, NoWalletStep, WalletStep
<1> QED
  BY <1>1, <1>2, PTL DEF Spec

\* The wallet's cache offers no output that a transaction with a known outcome spent, whatever the
\* explorer lists and however often the wallet is dropped and filled again (scryptEngine.ts
\* FeeProvider.listUnspent, sendTransaction).
THEOREM CacheIsFree == Spec => []HeldIsFree
<1>1. WalletInv => HeldIsFree
  BY DEF WalletInv
<1> QED
  BY <1>1, WalletSound, PTL

\* As long as no answer was lost and the process is the first, the overlay offers nothing spent but
\* what the call in flight spends, however stale the list (chaining-provider.ts getUtxos).
THEOREM OverlayOffersFree == Spec => []OverlayIsFresh
<1>1. TypeOK /\ WalletInv => OverlayIsFresh
  <2> SUFFICES ASSUME TypeOK, WalletInv, lost = {}, ~restarted, NEW o \in Overlay(Outputs), Spent(o)
               PROVE  call.stage = "sending" /\ call.sent.fund = o
    BY DEF OverlayIsFresh
  <2>1. o \in Outputs /\ o \notin spent /\ o # 0
    BY Elements DEF Overlay, WalletInv, Numbered
  <2>2. PICK i \in Outputs : chain[i].fund = o
    BY DEF Spent
  <2>3. i = Made /\ i # 0
    BY <2>1, <2>2, Elements DEF WalletInv, Overlaid
  <2>4. call.stage = "sending" /\ call # None
    BY <2>3 DEF Made, None
  <2> QED
    BY <2>2, <2>3, <2>4 DEF WalletInv, CallSound
<1> QED
  BY <1>1, WalletSound, PTL

\* A market's recorded pool is spent only while a call on that market is in flight, after an answer
\* was lost or after a chain of unit trades stopped half-way (runar.ts execChain, service.ts
\* applyEffects).
THEOREM RecordedPoolIsTip == Spec => []PoolIsTip
<1>1. WalletInv => PoolIsTip
  BY DEF WalletInv, Marked, PoolIsTip, PoolSpent
<1> QED
  BY <1>1, WalletSound, PTL

=============================================================================
