------------------------------- MODULE MCLmsr --------------------------------
(***************************************************************************)
(* RunarMarket, and Lmsr below it, with a fixed point of three digits: the *)
(* largest for which every product of eight fills stays within TLC's       *)
(* integers.                                                               *)
(***************************************************************************)
EXTENDS RunarMarket

MCDepths == {2, 4}
=============================================================================
