------------------------------- MODULE Wallet --------------------------------
(***************************************************************************)
(* The outputs an engine pays its fees from.  The explorer's list of them  *)
(* is not to be trusted: it omits some and keeps naming spent ones.  Each  *)
(* engine puts something of its own before it: the sCrypt engine remembers *)
(* what it spent, asks the chain about every other output, and leaves the  *)
(* choice to a wallet that caches the answer; the Runar engine lays an     *)
(* overlay of the transactions it sent over the list, because a trade of n *)
(* units is a chain of n transactions, none of them confirmed.             *)
(*                                                                         *)
(*   engine     which of the two this daemon runs                          *)
(*   chain      the transactions the network accepted: the pool and the    *)
(*              funding output each spends, and whether its call had ended *)
(*   stray      transactions whose answer nobody awaits any more           *)
(*   spent      what the process remembers having spent                    *)
(*   spentOnChain   what the sCrypt engine was told is spent               *)
(*   held       the wallet's cache: outputs known to be free, and perhaps  *)
(*   created, registered   the overlay: outputs made, transactions seen    *)
(*   call       the authorize call in flight                               *)
(*   recorded   each market's pool in the database; 0: not deployed        *)
(*   acked      the transactions this process knows were accepted          *)
(*   lost, broken   the markets of which an answer was lost, and of which  *)
(*              a chain of transactions stopped half-way                   *)
(*   restarted  the process is not the first one                           *)
(*                                                                         *)
(* An accepted transaction is its index in chain; that is also the name of *)
(* its change and of its pool output.  Amounts are left out: one output    *)
(* pays for one transaction.  One console is open (see SignOff for two).   *)
(***************************************************************************)
EXTENDS Integers, Sequences, FiniteSets

CONSTANTS
  Engines,    \* the engines to consider: "scrypt", "runar"
  Markets,
  MaxUnits,   \* the units a Runar trade may have (MAX_UNITS)
  Deposits,   \* how many funding outputs there are to begin with
  MaxTxs      \* bound: transactions on the chain

ASSUME EnginesAssumption == Engines \subseteq {"scrypt", "runar"}
ASSUME LimitsAssumption  == MaxUnits \in Nat \ {0} /\ Deposits \in Nat /\ MaxTxs \in Nat

VARIABLES engine, chain, stray, spent, spentOnChain, held, created, registered, call, recorded,
          acked, lost, broken, restarted

memory  == <<spent, spentOnChain, held, created, registered>>
history == <<acked, lost, broken, restarted>>
vars == <<engine, chain, stray, spent, spentOnChain, held, created, registered, call, recorded,
          acked, lost, broken, restarted>>

-----------------------------------------------------------------------------

Outputs == 1..Len(chain)

Deposit == [market |-> {}, pool |-> 0, fund |-> 0, late |-> FALSE]

None == [stage |-> "none"]
NotHeld == [loaded |-> FALSE, free |-> {}, perhaps |-> {}]

\* The funding output o, the pool p has been spent.
Spent(o) == \E i \in Outputs : chain[i].fund = o
PoolSpent(p) == \E i \in Outputs : chain[i].pool = p

Init ==
  /\ engine \in Engines
  /\ chain = [i \in 1..Deposits |-> Deposit] /\ stray = {}
  /\ spent = {} /\ spentOnChain = {} /\ held = NotHeld
  /\ created = {} /\ registered = {}
  /\ call = None
  /\ recorded = [m \in Markets |-> 0]
  /\ acked = {} /\ lost = {} /\ broken = {} /\ restarted = FALSE

-----------------------------------------------------------------------------
(* The network *)

\* A transaction is accepted by a chain on which what it spends is there.
Possible(tx, txs) ==
  \A i \in 1..Len(txs) : txs[i].fund # tx.fund /\ (tx.pool # 0 => txs[i].pool # tx.pool)
Acceptable(tx) == Possible(tx, chain)

Accept ==
  /\ call.stage = "sending" /\ call.tx = 0
  /\ Len(chain) < MaxTxs
  /\ Acceptable(call.sent)
  /\ chain' = Append(chain, call.sent)
  /\ call' = [call EXCEPT !.tx = Len(chain')]
  /\ stray' = {other \in stray : Possible(other, chain')}
  /\ UNCHANGED <<engine, memory, recorded, history>>

\* The network accepts a transaction after its call ended.
AcceptLate(tx) ==
  /\ tx \in stray
  /\ Len(chain) < MaxTxs
  /\ Acceptable(tx)
  /\ chain' = Append(chain, [tx EXCEPT !.late = TRUE])
  /\ stray' = {other \in stray : Possible(other, chain')}
  /\ lost' = lost \cup tx.market
  /\ UNCHANGED <<engine, memory, call, recorded, acked, broken, restarted>>

-----------------------------------------------------------------------------
(* authorizeAndBroadcast *)

\* execChain registers the transaction that made the pool, if it can fetch it; "seeds" says so.
Seeded(m, seeds) == engine = "runar" /\ recorded[m] \notin registered \cup {0} /\ seeds

\* A call starts that takes n transactions, one after the other.
Begin(m, n, seeds) ==
  /\ call = None
  /\ call' = [stage |-> "funding", market |-> m, pool |-> recorded[m], left |-> n, made |-> 0,
              sent |-> Deposit, tx |-> 0]
  /\ IF Seeded(m, seeds)
     THEN /\ spent' = spent \cup {chain[recorded[m]].fund}
          /\ created' = created \cup {recorded[m]}
          /\ registered' = registered \cup {recorded[m]}
     ELSE UNCHANGED <<spent, created, registered>>
  /\ UNCHANGED <<engine, chain, stray, spentOnChain, held, recorded, history>>

\* requireUnits: the Runar engine trades n units in n transactions, the sCrypt engine one in one.
Units == IF engine = "runar" THEN 1..MaxUnits ELSE {1}

Deploy(m) ==
  /\ recorded[m] = 0
  /\ Begin(m, 1, FALSE)

\* buildBuy, buildSell: a step for every unit, each over the state the step before leaves.
Trade(m, n, seeds) ==
  /\ recorded[m] # 0
  /\ n \in Units
  /\ Begin(m, n, seeds)

Resolve(m, seeds) ==
  /\ recorded[m] # 0
  /\ Begin(m, 1, seeds)

\* The call's transaction, funded by the output o.
Sending(o) ==
  [call EXCEPT !.stage = "sending", !.tx = 0,
               !.sent = [market |-> {call.market}, pool |-> call.pool, fund |-> o, late |-> FALSE]]

\* What listUnspent returns, the outputs known to be free first: of the candidates, those in
\* silent got no answer.
Loaded(candidates, silent) ==
  [loaded |-> TRUE, free |-> {o \in candidates \ silent : ~Spent(o)}, perhaps |-> silent \ spentOnChain]

\* FeeProvider.listUnspent, when the wallet is new: the explorer lists anything.
ListUnspent(listed, silent) ==
  /\ engine = "scrypt" /\ call.stage = "funding" /\ ~held.loaded
  /\ listed \subseteq Outputs /\ silent \subseteq listed \ spent
  /\ held' = Loaded(listed \ spent, silent)
  /\ spentOnChain' = spentOnChain \cup {o \in (listed \ spent) \ silent : Spent(o)}
  /\ UNCHANGED <<engine, chain, stray, spent, created, registered, call, recorded, history>>

\* The wallet claims an output: an uncertain one only when there is no other.
FundFromWallet(o) ==
  /\ engine = "scrypt" /\ call.stage = "funding" /\ held.loaded
  /\ o \in IF held.free # {} THEN held.free ELSE held.perhaps
  /\ held' = [held EXCEPT !.free = @ \ {o}, !.perhaps = @ \ {o}]
  /\ call' = Sending(o)
  /\ UNCHANGED <<engine, chain, stray, spent, spentOnChain, created, registered, recorded, history>>

\* ChainingProvider.getUtxos over a list of the explorer's.
Overlay(listed) == (listed \cup created) \ spent

\* execDeploy picks an output.
FundDeploy(o, listed) ==
  /\ engine = "runar" /\ call.stage = "funding" /\ call.pool = 0
  /\ o \in Overlay(listed)
  /\ call' = Sending(o)
  /\ UNCHANGED <<engine, chain, stray, memory, recorded, history>>

\* prepareCall picks an output for a step, and re-signing must find it in a second look.
FundStep(o, listed, again) ==
  /\ engine = "runar" /\ call.stage = "funding" /\ call.pool # 0
  /\ o \in Overlay(listed) \cap Overlay(again)
  /\ call' = Sending(o)
  /\ UNCHANGED <<engine, chain, stray, memory, recorded, history>>

\* Mutant: the overlay knows the outputs a transaction made and not what it spent.
RememberMutant == spent

\* What has been spent, once a broadcast was answered: sendTransaction, register.
Remember == spent \cup {call.sent.fund}

\* Mutant: the chain's first transaction is returned, not its last.
PoolMadeMutant == IF call.made = 0 THEN call.tx ELSE call.pool

\* The pool the next step spends, and the call returns.
PoolMade == call.tx

\* The broadcast is answered.  The last of the call's transactions is the one applyEffects records.
Answered ==
  /\ call.stage = "sending" /\ call.tx # 0
  /\ spent' = Remember
  /\ acked' = acked \cup {call.tx}
  /\ IF engine = "scrypt"
     THEN /\ held' = [held EXCEPT !.free = @ \cup {call.tx}]
          /\ UNCHANGED <<created, registered>>
     ELSE /\ created' = created \cup {call.tx}
          /\ registered' = registered \cup {call.tx}
          /\ UNCHANGED held
  /\ IF call.left = 1
     THEN call' = None /\ recorded' = [recorded EXCEPT ![call.market] = PoolMade]
     ELSE /\ call' = [call EXCEPT !.stage = "funding", !.pool = PoolMade, !.left = @ - 1,
                                  !.made = @ + 1]
          /\ UNCHANGED recorded
  /\ UNCHANGED <<engine, chain, stray, spentOnChain, lost, broken, restarted>>

\* Mutant: the memory of what was spent belongs to the provider, which a failure drops.
KeptMutant == {}

\* What survives a failure: the set is the module's, not the provider's.
Kept == spent

\* The call ends: its transaction is out there, its answer is lost, or its chain stops half-way.
Abandon ==
  /\ stray' = IF call.stage = "sending" /\ call.tx = 0 /\ Acceptable(call.sent) THEN stray \cup {call.sent} ELSE stray
  /\ lost' = IF call.stage = "sending" /\ call.tx # 0 THEN lost \cup {call.market} ELSE lost
  /\ broken' = IF call # None /\ call.made > 0 THEN broken \cup {call.market} ELSE broken
  /\ call' = None

\* Nothing to pay with, refused, timed out, not found again: the sCrypt engine drops its wallet.
Fail ==
  /\ call # None
  /\ Abandon
  /\ held' = NotHeld
  /\ spent' = Kept
  /\ UNCHANGED <<engine, chain, spentOnChain, created, registered, recorded, acked, restarted>>

\* The daemon stops and starts again.
Restart ==
  /\ ~restarted   \* bound: one restart
  /\ Abandon
  /\ spent' = {} /\ spentOnChain' = {} /\ held' = NotHeld
  /\ created' = {} /\ registered' = {}
  /\ acked' = {} /\ restarted' = TRUE
  /\ UNCHANGED <<engine, chain, recorded>>

Next ==
  \/ Accept
  \/ \E tx \in stray : AcceptLate(tx)
  \/ \E m \in Markets : Deploy(m)
  \/ \E m \in Markets, seeds \in BOOLEAN : Resolve(m, seeds) \/ \E n \in 1..MaxUnits : Trade(m, n, seeds)
  \/ \E listed \in SUBSET Outputs : \E silent \in SUBSET listed : ListUnspent(listed, silent)
  \/ \E o \in Outputs : FundFromWallet(o) \/ FundDeploy(o, Outputs) \/ FundStep(o, Outputs, Outputs)
  \/ Answered \/ Fail \/ Restart

Spec == Init /\ [][Next]_vars

-----------------------------------------------------------------------------
(* Properties *)

Tx == [market : SUBSET Markets, pool : Nat, fund : Nat, late : BOOLEAN]

Call == [stage : {"funding", "sending"}, market : Markets, pool : Nat, left : Nat \ {0}, made : Nat,
         sent : Tx, tx : Nat]

TypeOK ==
  /\ engine \in Engines /\ chain \in Seq(Tx) /\ stray \subseteq Tx
  /\ spent \subseteq Nat /\ spentOnChain \subseteq Nat /\ created \subseteq Nat /\ registered \subseteq Nat
  /\ held \in [loaded : BOOLEAN, free : SUBSET Nat, perhaps : SUBSET Nat]
  /\ call \in Call \cup {None}
  /\ recorded \in [Markets -> Nat]
  /\ acked \subseteq Nat /\ lost \subseteq Markets /\ broken \subseteq Markets /\ restarted \in BOOLEAN

\* What the wallet's cache holds can be spent, across failures and dropped wallets: an output the
\* chain vouched for was spent, if at all, by a transaction nobody awaited any more; and one this
\* process itself spent is never offered again, whatever the explorer lists (scryptEngine.ts:69).
HeldIsFree ==
  /\ \A o \in held.free, i \in Outputs : chain[i].fund = o => chain[i].late
  /\ \A i \in acked : chain[i].fund \notin held.free \cup held.perhaps

\* As long as the process knows what became of every transaction, the overlay never offers a spent
\* output, however stale the explorer's list (chaining-provider.ts, BUG-003), also in the middle
\* of a chain of unit trades and after one that stopped half-way.
OverlayIsFresh ==
  engine = "runar" /\ lost = {} /\ ~restarted =>
    \A o \in Overlay(Outputs) : Spent(o) => call.stage = "sending" /\ call.sent.fund = o

\* The pool in the database can be spent, unless a call on the market is in flight, an answer was
\* lost or a chain of unit trades stopped half-way, which strands the market (runar.ts execChain).
PoolIsTip ==
  \A m \in Markets :
    recorded[m] # 0 /\ PoolSpent(recorded[m]) /\ (call = None \/ call.market # m)
      => m \in lost \cup broken
=============================================================================
