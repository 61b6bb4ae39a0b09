---------------------------- MODULE MarketHistory ----------------------------
(***************************************************************************)
(* What one operator is promised of a market, without plans, calls, the    *)
(* engine or the process: one line of moves, each legal after the one      *)
(* before it, and tables that record them in that order, never more than   *)
(* one behind.  No fill is settled by two moves, and winners are paid once.*)
(***************************************************************************)
EXTENDS Integers, Sequences, FiniteSets

VARIABLES
  made,       \* the moves the network made, in order, from the deploy the tables know
  recorded,   \* the pools the tables record, one for each move
  settled,    \* the fills the tables call settled
  fills       \* how many fills there are

vars == <<made, recorded, settled, fills>>

Last == made[Len(made)].effect

Trading  == made # <<>> /\ ~Last.resolved
Resolved == made # <<>> /\ Last.resolved

Init == made = <<>> /\ recorded = <<>> /\ settled = {} /\ fills = 0

\* The deploy counts once it is recorded: whatever was deployed before, and lost, is no market.
Open ==
  LET fresh == [q |-> 0, resolved |-> FALSE]
  IN  /\ made = <<>>
      /\ made' = <<[kind |-> "deploy", clears |-> {}, effect |-> fresh]>>
      /\ recorded' = <<fresh>>
      /\ UNCHANGED <<settled, fills>>

\* The network makes a move on the recorded pool.
Make(kind, clears, q, resolved) ==
  /\ Len(recorded) = Len(made)
  /\ made' = Append(made, [kind |-> kind, clears |-> clears, effect |-> [q |-> q, resolved |-> resolved]])
  /\ UNCHANGED <<recorded, settled, fills>>

Trade(n) ==
  /\ Trading
  /\ Last.q + n >= 0
  /\ Make("trade", {}, Last.q + n, FALSE)

\* Fills nothing settled before.
Settle(ids) ==
  /\ Trading
  /\ ids # {} /\ \A i \in 1..Len(made) : made[i].clears \cap ids = {}
  /\ Make("settle", ids, Last.q + Cardinality(ids), FALSE)

Resolve ==
  /\ Trading
  /\ Make("resolve", {}, Last.q, TRUE)

PayOut ==
  /\ Resolved
  /\ \A i \in 1..Len(made) : made[i].kind # "payout"
  /\ Make("payout", {}, Last.q, TRUE)

\* The tables catch up with the move.
Record ==
  /\ Len(recorded) < Len(made)
  /\ LET move == made[Len(recorded) + 1]
     IN  /\ recorded' = Append(recorded, move.effect)
         /\ settled' = settled \cup move.clears
  /\ UNCHANGED <<made, fills>>

NewFill == fills' = fills + 1 /\ UNCHANGED <<made, recorded, settled>>

Next ==
  \/ Open
  \/ \E n \in {1, -1} : Trade(n)
  \/ \E ids \in SUBSET (1..fills) : Settle(ids)
  \/ Resolve \/ PayOut
  \/ Record
  \/ NewFill

Spec == Init /\ [][Next]_vars
=============================================================================
