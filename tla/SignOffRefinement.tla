------------------------- MODULE SignOffRefinement --------------------------
(***************************************************************************)
(* With one console the sign-off queue implements MarketHistory.  Plans,   *)
(* calls and the engine's instance are forgotten, and of the chain all but *)
(* the line of the recorded pool: what a deploy nobody recorded started is *)
(* left out.  With two consoles nothing is claimed, and nothing of the     *)
(* market is shown.                                                        *)
(***************************************************************************)
EXTENDS SignOff

MoveOf(t) == [kind |-> t.kind, clears |-> t.clears, effect |-> t.effect]

\* The recorded moves, and what the network made of the recorded pool since.
Versions == [v \in 1..Len(pools) |-> MoveOf(chain[pools[v].tx])]

Ahead == {t \in 1..Len(chain) : pools # <<>> /\ chain[t].spends = CurrentPool.tx}

Made == IF Ahead = {} THEN Versions ELSE Append(Versions, MoveOf(chain[CHOOSE t \in Ahead : TRUE]))

Recorded == [v \in 1..Len(pools) |-> pools[v].effect]

Abstract == INSTANCE MarketHistory WITH
              made     <- IF OneConsole THEN Made ELSE <<>>,
              recorded <- IF OneConsole THEN Recorded ELSE <<>>,
              settled  <- IF OneConsole THEN stamped ELSE {}

\* Whatever answers are lost, whatever lands late and however often plans are rebuilt or the daemon
\* restarts, one operator sees one line of legal moves, which the tables record in order (service.ts
\* authorize and applyEffects, scryptEngine.ts livePool).
ImplementsHistory == Abstract!Spec
=============================================================================
