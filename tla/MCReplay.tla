----------------------------- MODULE MCReplay -----------------------------
(***************************************************************************)
(* Two rows and a third that may come, for TLC.                            *)
(***************************************************************************)
EXTENDS Replay
CONSTANTS a, b, c
MCNames == {a, b, c}
MCStart == <<a, b>>
=============================================================================
