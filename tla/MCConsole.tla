----------------------------- MODULE MCConsole ------------------------------
(***************************************************************************)
(* Console with one page, which may be left and opened again while its     *)
(* action is in flight, two rows to mistake for each other, and a periodic *)
(* and an awaited answer to overtake each other.                           *)
(***************************************************************************)
EXTENDS Console

CONSTANTS p1
=============================================================================
