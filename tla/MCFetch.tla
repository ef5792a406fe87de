------------------------------ MODULE MCFetch ------------------------------
(***************************************************************************)
(* A scope of three pages for TLC: the server clamps pages of 3 to 2.      *)
(***************************************************************************)
EXTENDS Fetch
MCTold == {None, 0}
=============================================================================
