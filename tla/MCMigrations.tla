---------------------------- MODULE MCMigrations ----------------------------
(***************************************************************************)
(* A small repository of migrations for TLC: 2 is on disk, fails until it  *)
(* is repaired, and may be edited; 1, which was applied by hand, arrives   *)
(* later.  The operator marks 1, naming it twice.                          *)
(***************************************************************************)
EXTENDS Migrations

MCFirstOnDisk == {2}
MCByHand == {1}
MCFaulty == {2}
MCRerunnable == {}
MCCommands == {[mode |-> "apply", marks |-> <<>>],
               [mode |-> "mark", marks |-> <<1, 1>>]}
=============================================================================
