----------------------------- MODULE FillLedger -----------------------------
(***************************************************************************)
(* What the execution layer promises, without the engine, the lock, the    *)
(* process or the sign-off queue: a book of fills that only grows, in      *)
(* which nobody sells what he does not hold and no signed order counts     *)
(* twice, cut into batches that settle each fill at most once.             *)
(***************************************************************************)
EXTENDS Sums

CONSTANTS Traders, Nonces, MaxUnits

Fills == [trader : Traders, side : {"yes", "no"}, action : {"buy", "sell"},
          units : 1..MaxUnits, nonce : Nonces]

VARIABLES
  book,       \* the fills, in the order they were made
  batches     \* the settlements, each the set of fills (indices into book) it clears

vars == <<book, batches>>

Held(t, s) ==
  Total(Len(book),
        [i \in 1..Len(book) |-> IF book[i].trader = t /\ book[i].side = s
                                THEN IF book[i].action = "buy" THEN book[i].units
                                                               ELSE 0 - book[i].units
                                ELSE 0])

Cleared(i) == \E b \in 1..Len(batches) : i \in batches[b]

Init == book = <<>> /\ batches = <<>>

\* A trader's order is filled.
Issue(f) ==
  /\ \A i \in 1..Len(book) : <<book[i].trader, book[i].nonce>> # <<f.trader, f.nonce>>
  /\ f.action = "sell" => Held(f.trader, f.side) >= f.units
  /\ book' = Append(book, f)
  /\ UNCHANGED batches

\* A settlement clears fills that no settlement cleared before.
Settle(ids) ==
  /\ ids # {}
  /\ \A i \in ids : ~Cleared(i)
  /\ batches' = Append(batches, ids)
  /\ UNCHANGED book

Next == (\E f \in Fills : Issue(f)) \/ (\E ids \in SUBSET (1..Len(book)) : Settle(ids))

Spec == Init /\ [][Next]_vars
=============================================================================
