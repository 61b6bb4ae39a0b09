----------------------------- MODULE MCSignOff ------------------------------
(***************************************************************************)
(* SignOff with one console and direct trades, and with two consoles.  A   *)
(* market's whole life takes four rows (deploy, settle, resolve, payout)   *)
(* and four calls; a plan rebuilt after a failure, a rejection or a        *)
(* restart takes one more of each.                                         *)
(***************************************************************************)
EXTENDS SignOffRefinement

MCLives ==
  {[consoles |-> 1, trades |-> {1, -1}, fills |-> 2],
   [consoles |-> 2, trades |-> {}, fills |-> 1]}
=============================================================================
