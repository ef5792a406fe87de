---------------------------- MODULE MCRateBudget ----------------------------
(***************************************************************************)
(* A small instance of RateBudget: two calls in a window of a few ticks.   *)
(***************************************************************************)
EXTENDS RateBudget, TLC

\* Processes are interchangeable: the safety runs may identify them.
ProcSymmetry == Permutations(Procs)
=============================================================================
