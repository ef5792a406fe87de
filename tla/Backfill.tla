------------------------------ MODULE Backfill ------------------------------
(***************************************************************************)
(* tasks.py's task_backfill: the historical seasons, newest first, two     *)
(* pipeline processes a season, every one of them with --resume and the    *)
(* partition the operator gave.  Failures are counted per season, and      *)
(* MaxConsecutive of them in a row stop the run.                           *)
(*                                                                         *)
(* A child process works through the entities of its phase.  Here an       *)
(* entity of a season is one object of the lake with one checkpoint: the   *)
(* pages of a scope are Ingestion's business.  What is kept is what the    *)
(* driver depends on: an object is landed, then its checkpoint commits,    *)
(* then the rows, and anything may die in between; a checkpoint that is    *)
(* complete skips the extract; the load only sees its own partition.       *)
(***************************************************************************)
EXTENDS Integers, Sequences, FiniteSets

CONSTANTS
    NSeasons,       \* seasons 1..NSeasons, the newest is NSeasons
    Phases,         \* Phases[i]: the entities of the i-th call, in order
    ScheduleNeeded, \* the calls (SCOPE_RACE) that need the rounds of raw.races
    Awkward,        \* pairs <<season, entity>> whose extract fails until repaired
    Dates,          \* partitions the operator may pass
    MaxConsecutive, \* MAX_CONSECUTIVE_BACKFILL_FAILURES
    MaxFaults       \* bound on outages and deaths of processes, for TLC

Seasons == 1..NSeasons
Calls == DOMAIN Phases
Entities == UNION {{Phases[i][j] : j \in DOMAIN Phases[i]} : i \in Calls}
Work == Seasons \X Entities

ASSUME SeasonAssumption == NSeasons \in Nat \ {0}
ASSUME PhaseAssumption == Phases \in Seq(Seq(Entities)) /\ Phases # << >>
ASSUME CallAssumption == ScheduleNeeded \subseteq Calls /\ Awkward \subseteq Work
ASSUME StopAssumption == MaxConsecutive \in Nat \ {0} /\ MaxFaults \in Nat
ASSUME DateAssumption == Dates # {}

VARIABLES
    \* The environment and what is stored.
    outage,         \* is the source (or the network) down?
    awkward,        \* the work whose extract fails whenever it is tried
    scheduled,      \* has --all-reference filled raw.races?
    lake,           \* <<season, entity, date>> of every landed object
    complete,       \* work whose checkpoint says complete
    loaded,         \* work whose rows are in the warehouse
    faults,
    \* The driver; broken: the calls of the season that did not return 0.
    pc, date, season, call, broken, failed, consecutive, exit,
    \* Its child process: the entity it is at, and those it has given up.
    pos, lost

world == <<outage, awkward>>
stored == <<scheduled, lake, complete, loaded>>
driver == <<date, season, call, broken, failed, consecutive, exit>>
child == <<pos, lost>>
vars == <<world, stored, faults, pc, driver, child>>

Inside == {"entity", "checkpoint", "load"}
States == Inside \cup {"idle", "season"}

TypeOK ==
    /\ outage \in BOOLEAN /\ awkward \subseteq Work /\ scheduled \in BOOLEAN
    /\ lake \subseteq Seasons \X Entities \X Dates
    /\ complete \subseteq Work /\ loaded \subseteq Work
    /\ faults \in 0..MaxFaults
    /\ pc \in States /\ date \in Dates
    /\ season \in 0..NSeasons
    /\ pc # "idle" => season \in Seasons
    /\ call \in Calls
    /\ pos \in Nat /\ pos >= 1
    /\ pc \in {"checkpoint", "load"} => pos \in DOMAIN Phases[call]
    /\ broken \subseteq Calls /\ lost \subseteq Entities
    /\ failed \subseteq Seasons
    /\ consecutive \in 0..MaxConsecutive
    /\ pc # "idle" => consecutive < MaxConsecutive
    /\ exit \in {"none", "ok", "failed", "killed"}

Init ==
    /\ outage = FALSE /\ awkward = Awkward /\ scheduled = FALSE
    /\ lake = {} /\ complete = {} /\ loaded = {}
    /\ faults = 0
    /\ pc = "idle" /\ date \in Dates /\ season = 0 /\ call = 1
    /\ broken = {} /\ failed = {} /\ consecutive = 0 /\ exit = "none"
    /\ pos = 1 /\ lost = {}

-----------------------------------------------------------------------------
\* What the child is working on.
AtEntity == pos <= Len(Phases[call])
Here == <<season, Phases[call][pos]>>
Object == <<season, Phases[call][pos], date>>

NextEntity == pos' = pos + 1 /\ pc' = "entity"

\* subprocess.run starts a child for one call.
Spawn(i) ==
    /\ call' = i
    /\ pos' = 1 /\ lost' = {}
    /\ pc' = "entity"

-----------------------------------------------------------------------------
(***************************************************************************)
(* The child: run_entity for each entity of the phase, with --resume.      *)
(***************************************************************************)
\* Race-scoped work without a schedule: run_entity returns None.
NoRounds ==
    /\ pc = "entity" /\ AtEntity
    /\ call \in ScheduleNeeded /\ ~scheduled
    /\ lost' = lost \cup {Phases[call][pos]}
    /\ NextEntity
    /\ UNCHANGED <<world, stored, faults, driver>>

CanExtract ==
    /\ pc = "entity" /\ AtEntity
    /\ call \in ScheduleNeeded => scheduled

\* Mutated: an entity that is skipped is not loaded either.
MutSkipComplete ==
    /\ CanExtract /\ Here \in complete
    /\ NextEntity
    /\ UNCHANGED <<world, stored, faults, driver, lost>>

\* The checkpoint says complete: no extract, straight to the load.
SkipComplete ==
    /\ CanExtract /\ Here \in complete
    /\ pc' = "load"
    /\ UNCHANGED <<world, stored, faults, driver, child>>

Land ==
    /\ CanExtract /\ Here \notin complete
    /\ ~outage /\ Here \notin awkward
    /\ lake' = lake \cup {Object}
    /\ pc' = "checkpoint"
    /\ UNCHANGED <<world, scheduled, complete, loaded, faults, driver, child>>

\* ExtractError: the entity is given up, the others go on.
ExtractFails ==
    /\ CanExtract /\ Here \notin complete
    /\ outage \/ Here \in awkward
    /\ lost' = lost \cup {Phases[call][pos]}
    /\ NextEntity
    /\ UNCHANGED <<world, stored, faults, driver>>

SaveCheckpoint ==
    /\ pc = "checkpoint"
    /\ complete' = complete \cup {Here}
    /\ pc' = "load"
    /\ UNCHANGED <<world, scheduled, lake, loaded, faults, driver, child>>

\* load_from_lake: an empty partition loads nothing and is no failure.
Load ==
    /\ pc = "load"
    /\ loaded' = IF Object \in lake THEN loaded \cup {Here} ELSE loaded
    /\ NextEntity
    /\ UNCHANGED <<world, scheduled, lake, complete, faults, driver, lost>>

-----------------------------------------------------------------------------
(***************************************************************************)
(* The driver.                                                             *)
(***************************************************************************)
Start ==
    /\ pc = "idle"
    /\ date' \in Dates
    /\ season' = NSeasons /\ broken' = {}
    /\ failed' = {} /\ consecutive' = 0 /\ exit' = "none"
    /\ Spawn(1)
    /\ UNCHANGED <<world, stored, faults>>

\* Mutated: ok = returncode == 0, the last call of the season decides.
MutReturned(code) ==
    /\ broken' = IF code = 0 THEN {} ELSE {call}
    /\ IF call < Len(Phases)
       THEN Spawn(call + 1)
       ELSE pc' = "season" /\ UNCHANGED <<call, child>>

\* ok &= returncode == 0, where ok is broken = {}, and the next phase whatever
\* this one's outcome.
Returned(code) ==
    /\ broken' = IF code = 0 THEN broken ELSE broken \cup {call}
    /\ IF call < Len(Phases)
       THEN Spawn(call + 1)
       ELSE pc' = "season" /\ UNCHANGED <<call, child>>

ChildEnds ==
    /\ pc = "entity" /\ ~AtEntity
    /\ Returned(IF lost = {} THEN 0 ELSE 1)
    /\ UNCHANGED <<world, stored, faults, date, season, failed, consecutive, exit>>

\* The child dies on an exception or a signal; the server undoes what it had
\* not committed.
ChildDies ==
    /\ pc \in Inside /\ faults < MaxFaults
    /\ faults' = faults + 1
    /\ Returned(1)
    /\ UNCHANGED <<world, stored, date, season, failed, consecutive, exit>>

\* The next season, or the end of the run and its exit code.
NextSeason(failures) ==
    /\ season' = season - 1 /\ broken' = {}
    /\ IF season = 1
       THEN /\ pc' = "idle"
            /\ exit' = IF failures = {} THEN "ok" ELSE "failed"
            /\ UNCHANGED <<call, child>>
       ELSE Spawn(1) /\ UNCHANGED exit

\* Mutated: failures are never forgotten; one failure too many is allowed.
MutSeasonOk ==
    /\ pc = "season" /\ broken = {}
    /\ NextSeason(failed)
    /\ UNCHANGED <<world, stored, faults, date, failed, consecutive>>

MutGivesUp == consecutive >= MaxConsecutive

SeasonOk ==
    /\ pc = "season" /\ broken = {}
    /\ consecutive' = 0
    /\ NextSeason(failed)
    /\ UNCHANGED <<world, stored, faults, date, failed>>

GivesUp == consecutive + 1 >= MaxConsecutive

SeasonFailed ==
    /\ pc = "season" /\ broken # {}
    /\ failed' = failed \cup {season}
    /\ consecutive' = consecutive + 1
    /\ \/ /\ ~GivesUp
          /\ NextSeason(failed')
       \/ /\ GivesUp
          /\ pc' = "idle" /\ exit' = "failed"
          /\ UNCHANGED <<season, call, broken, child>>
    /\ UNCHANGED <<world, stored, faults, date>>

\* Interrupted by the operator or the machine, with its child: what they
\* remembered is gone.
Killed ==
    /\ pc # "idle" /\ faults < MaxFaults
    /\ faults' = faults + 1
    /\ pc' = "idle" /\ exit' = "killed"
    /\ season' = 0 /\ call' = 1 /\ broken' = {}
    /\ failed' = {} /\ consecutive' = 0
    /\ pos' = 1 /\ lost' = {}
    /\ UNCHANGED <<world, stored, date>>

-----------------------------------------------------------------------------
(***************************************************************************)
(* The environment.                                                        *)
(***************************************************************************)
OutageBegins ==
    /\ ~outage /\ faults < MaxFaults
    /\ outage' = TRUE /\ faults' = faults + 1
    /\ UNCHANGED <<awkward, stored, pc, driver, child>>

OutageEnds ==
    /\ outage /\ outage' = FALSE
    /\ UNCHANGED <<awkward, stored, faults, pc, driver, child>>

\* The source, or the code that reads it, is repaired.
Repair ==
    /\ awkward # {} /\ awkward' = {}
    /\ UNCHANGED <<outage, stored, faults, pc, driver, child>>

\* tasks.py ingest, or the daily schedule: --all-reference fills raw.races.
LoadReference ==
    /\ ~scheduled /\ scheduled' = TRUE
    /\ UNCHANGED <<world, lake, complete, loaded, faults, pc, driver, child>>

Step ==
    \/ NoRounds \/ SkipComplete \/ Land \/ ExtractFails \/ SaveCheckpoint \/ Load
    \/ ChildEnds \/ SeasonOk \/ SeasonFailed

Next ==
    \/ Start \/ Step \/ ChildDies \/ Killed
    \/ OutageBegins \/ OutageEnds \/ Repair \/ LoadReference

Spec == Init /\ [][Next]_vars

(***************************************************************************)
(* Fairness: a running process goes on, the operator starts the backfill   *)
(* again after each run and loads the reference data, outages end.  What   *)
(* is awkward need never be repaired.                                      *)
(***************************************************************************)
FairSpec ==
    /\ Spec
    /\ WF_vars(Step) /\ WF_vars(Start)
    /\ WF_vars(OutageEnds) /\ WF_vars(LoadReference)

-----------------------------------------------------------------------------
(***************************************************************************)
(* A backfill that exits 0 has loaded every season (tasks.py:265-270),     *)
(* across any number of earlier runs that died or failed anywhere, except  *)
(* for work that has an object in another partition than this run's: the   *)
(* documented trap of resuming under a new date (tasks.py:206-211).        *)
(***************************************************************************)
Astray(s, e) == \E d \in Dates \ {date} : <<s, e, d>> \in lake
Done(s, e) == <<s, e>> \in loaded \/ Astray(s, e)

ExitZeroMeansBackfilled ==
    exit = "ok" => \A s \in Seasons, e \in Entities : Done(s, e)

(***************************************************************************)
(* One awkward season does not end a run and a systemic failure does       *)
(* (tasks.py:213-215): a run that stops early has just failed              *)
(* MaxConsecutive adjacent seasons, and no run goes past as many.          *)
(***************************************************************************)
Streak(s) == s .. (s + MaxConsecutive - 1)

StopRule ==
    /\ exit = "failed" /\ season # 0 => Streak(season) \subseteq failed
    /\ \A s \in Seasons : s > season => ~(Streak(s) \subseteq failed)

(***************************************************************************)
(* A backfill that is restarted with its original partition gets there     *)
(* (tasks.py:196, 226-228): as long as no MaxConsecutive adjacent seasons  *)
(* are awkward, everything but the awkward work itself ends up loaded,     *)
(* older seasons behind awkward ones included, unless an earlier run put   *)
(* it into another partition.                                              *)
(***************************************************************************)
PinnedGetsLoaded ==
    \A d \in Dates :
        <>[](date = d) =>
            \A w \in Work : <>[](w \in awkward \/ Done(w[1], w[2]))
-----------------------------------------------------------------------------
(***************************************************************************)
(* The inductive invariants behind StopRule and ExitZeroMeansBackfilled.   *)
(***************************************************************************)
\* `consecutive` counts the failures just behind the season in progress.
StreakInv ==
    /\ StopRule
    /\ pc # "idle" =>
          /\ exit = "none"
          /\ \A s \in failed : s > season
          /\ \A s \in (season + 1) .. (season + consecutive) : s \in failed
          /\ season + consecutive + 1 \notin failed

CallDone(i) == \A j \in DOMAIN Phases[i] : Done(season, Phases[i][j])

\* A checkpoint has its object in some partition, and everything the run has
\* been through without a failure is done.
ProgressInv ==
    /\ \A s \in Seasons, e \in Entities :
          <<s, e>> \in complete => \E d \in Dates : <<s, e, d>> \in lake
    /\ exit = "ok" => pc = "idle" /\ \A s \in Seasons, e \in Entities : Done(s, e)
    /\ pc # "idle" =>
          \A s \in Seasons, e \in Entities : s > season /\ s \notin failed => Done(s, e)
    /\ pc # "idle" /\ broken = {} => \A i \in Calls : i < call => CallDone(i)
    /\ pc = "season" /\ broken = {} => CallDone(call) /\ call = Len(Phases)
    /\ pc \in Inside /\ lost = {} =>
          \A j \in DOMAIN Phases[call] : j < pos => Done(season, Phases[call][j])
    /\ pc = "checkpoint" => Object \in lake
    /\ pc = "load" => Here \in complete
=============================================================================
