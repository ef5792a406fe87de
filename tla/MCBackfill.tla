----------------------------- MODULE MCBackfill -----------------------------
(***************************************************************************)
(* Three seasons with one season-scoped and one race-scoped entity; every  *)
(* other season has an entity that fails until it is repaired.             *)
(***************************************************************************)
EXTENDS Backfill

CONSTANTS results, pitstops, d1, d2

MCPhases == <<<<results>>, <<pitstops>>>>
MCScheduleNeeded == {2}
MCAwkward == {<<3, results>>, <<1, pitstops>>}
=============================================================================
