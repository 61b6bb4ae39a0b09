------------------------------ MODULE MCWallet -------------------------------
(***************************************************************************)
(* Wallet with one market, two deposits to choose from, and room for the   *)
(* deploy, a trade of two units and one more to be tried after it.         *)
(***************************************************************************)
EXTENDS Wallet

CONSTANTS m1

MCEngines == {"scrypt", "runar"}
=============================================================================
