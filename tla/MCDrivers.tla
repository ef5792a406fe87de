----------------------------- MODULE MCDrivers -----------------------------
(***************************************************************************)
(* Two warehouses and two seasons, for TLC.                                *)
(***************************************************************************)
EXTENDS Drivers
MCWarehouses == {"w1", "w2"}
MCSeasons == {2023, 2024}
=============================================================================
