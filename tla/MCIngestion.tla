----------------------------- MODULE MCIngestion -----------------------------
(***************************************************************************)
(* A season of NRounds races: the schedule, one page each, and one         *)
(* race-scoped entity whose first round takes two pages.                   *)
(***************************************************************************)
EXTENDS Ingestion, TLC

CONSTANTS races, standings, d1, d2

MCOrder == <<races, standings>>
MCRaceScoped == {standings}
MCSize == [e \in {races, standings} |->
             [s \in 0..NRounds |-> IF e = races THEN (IF s = 0 THEN NRounds ELSE 0)
                             ELSE IF s = 1 THEN 2 ELSE IF s = 2 THEN 1 ELSE 0]]
MCBadRows == {<<standings, 1, 2>>}

Options(resume, loadOnly, dates) ==
    [resume : resume, loadOnly : loadOnly, date : dates]

\* A backfill as tasks.py drives it: --resume on every call, one partition.
ResumedRuns == Options({TRUE}, {FALSE}, {d1})
\* Runs that fetch into one partition, with and without --resume.
FetchingRuns == Options(BOOLEAN, {FALSE}, {d1})
\* The daily schedule, a new partition each day and never --resume, and
\* --load-only reruns of either day.
DailyRuns == Options({FALSE}, BOOLEAN, {d1, d2})

ProcSymmetry == Permutations(Procs)
=============================================================================
