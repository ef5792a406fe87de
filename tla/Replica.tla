------------------------------- MODULE Replica -------------------------------
(***************************************************************************)
(* What the ingestion pipeline promises, with no pages, lake, checkpoints  *)
(* or transactions in it: a copy of the source that only grows, and runs   *)
(* that report success only for what they were asked to copy.              *)
(***************************************************************************)
CONSTANTS
    Procs,      \* runs that may be in progress
    Rows        \* the rows a source may hold

VARIABLES
    rows,       \* the rows the source holds
    copy,       \* the rows that have been copied or reported as unusable
    want,       \* want[p]: the rows run p was asked for
    outcome     \* outcome[p]: "none" while p runs

vars == <<rows, copy, want, outcome>>

Init ==
    /\ rows \subseteq Rows
    /\ copy = {}
    /\ want = [p \in Procs |-> {}]
    /\ outcome = [p \in Procs |-> "none"]

Publish ==
    /\ rows \subseteq rows' /\ rows' \subseteq Rows
    /\ UNCHANGED <<copy, want, outcome>>

\* A run is asked for what the source holds when it begins.
Begin(p) ==
    /\ want' = [want EXCEPT ![p] = rows]
    /\ outcome' = [outcome EXCEPT ![p] = "none"]
    /\ UNCHANGED <<rows, copy>>

Copy(p) ==
    /\ outcome[p] = "none"
    /\ copy \subseteq copy' /\ copy' \subseteq rows
    /\ UNCHANGED <<rows, want, outcome>>

Succeed(p) ==
    /\ outcome[p] = "none"
    /\ want[p] \subseteq copy
    /\ outcome' = [outcome EXCEPT ![p] = "ok"]
    /\ UNCHANGED <<rows, copy, want>>

\* It may fail at any time, having copied some of it.
Fail(p) ==
    /\ outcome[p] = "none"
    /\ \E o \in {"failed", "crashed"} : outcome' = [outcome EXCEPT ![p] = o]
    /\ UNCHANGED <<rows, copy, want>>

Next == Publish \/ \E p \in Procs : Begin(p) \/ Copy(p) \/ Succeed(p) \/ Fail(p)

Spec == Init /\ [][Next]_vars
=============================================================================
