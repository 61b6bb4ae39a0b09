----------------------------- MODULE MCFunding ------------------------------
(***************************************************************************)
(* Funding with a trader who presses four times: twice so that two quotes  *)
(* of his are under way, for an order, and for the retry of that order.    *)
(***************************************************************************)
EXTENDS Funding
=============================================================================
