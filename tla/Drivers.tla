------------------------------ MODULE Drivers ------------------------------
(***************************************************************************)
(* Who starts what, where: the commands of tasks.py that an operator runs  *)
(* in a shell, the daily DAG of airflow/dags/f1_pipeline.py, and the       *)
(* configuration that tells each of their processes which warehouse to     *)
(* use (ingestion/config.py, dbt_environment, migrations/apply.py).        *)
(*                                                                         *)
(* The .env file may be edited at any time.  A shell may export settings   *)
(* of its own; the Airflow containers got theirs from .env when they were  *)
(* created, and see the edited file as well.  What a run of the pipeline   *)
(* does inside is in Ingestion.                                            *)
(***************************************************************************)
EXTENDS Integers, Sequences, FiniteSets, SequencesExt

CONSTANTS
    Warehouses,
    Seasons,        \* the seasons of the operator's ingest; the DAG has the newest
    Retries,        \* retries of a task of the DAG
    MaxEdits, MaxFaults     \* bounds on edits of the settings, and on failures, for TLC

Unset == "unset"
Blank == "blank"    \* WAREHOUSE_HOST= with nothing behind it
Hosts == Warehouses \cup {Unset, Blank}

ASSUME DriversAssumption ==
    /\ Unset \notin Warehouses /\ Blank \notin Warehouses
    /\ Seasons \subseteq Nat /\ IsFiniteSet(Seasons) /\ Seasons # {}
    /\ Retries \in Nat /\ MaxEdits \in Nat /\ MaxFaults \in Nat

VARIABLES
    file,           \* .env: the warehouse, and whether its rate limits are usable
    shell,          \* the warehouse that the operator's shell exports
    container,      \* what .env said when the Airflow containers were created
    source,         \* results of the newest season: 1 as first published, 2 corrected
    migrated,       \* warehouses whose schema is up to date
    raw,            \* raw[w]: what has been ingested into w
    marts,          \* marts[w]: the results that its marts were built from, or 0
    todo,           \* steps each driver has still to take
    tries,          \* attempts at its current step that have failed
    used,           \* warehouses that steps of its run have worked on
    edited,         \* were its settings changed since its run began?
    result,         \* how its last run ended
    alerts,         \* alerts of the DAG's run
    edits, faults

settings == <<file, shell, container>>
data == <<source, migrated, raw, marts>>
runs == <<todo, tries, used, result, alerts>>
vars == <<settings, data, runs, edited, edits, faults>>

Who == {"operator", "dag"}
Newest == CHOOSE s \in Seasons : \A t \in Seasons : t <= s
Step(kind, season) == [kind |-> kind, season |-> season]

-----------------------------------------------------------------------------
(***************************************************************************)
(* tasks.py migrate, ingest and transform, one after the other; and the    *)
(* tasks of the DAG.                                                       *)
(***************************************************************************)
TaskIngest ==
    LET newestFirst == SetToSortSeq(Seasons, LAMBDA s, t : s > t)
    IN <<Step("reference", 0)>>
       \o FlattenSeq([i \in DOMAIN newestFirst |->
             <<Step("season", newestFirst[i]), Step("race", newestFirst[i])>>])
TaskTransform == <<Step("deps", 0), Step("build", 0)>>
OperatorSteps == <<Step("migrate", 0)>> \o TaskIngest \o TaskTransform

\* Mutated: --resume on the season sweep, whose one checkpoint is complete.
MutSweep == "resumed"
Sweep == "season"
DagSteps == <<Step("reference", 0), Step(Sweep, Newest), Step("race", Newest), Step("build", 0)>>

\* What the pipeline reads: the process environment, if it says anything, before
\* the file.  Mutated: the other way round.
Says(host) == host \notin {Unset, Blank}
MutLoaded(env) == IF Says(file.host) THEN file.host ELSE env
Loaded(env) == IF Says(env) THEN env ELSE file.host

\* tasks.py gives dbt its own environment updated from the file; Airflow gives
\* it the container's.  apply.py reads the file and nothing else.
DbtEnvironment(d) == IF d = "dag" THEN container.host ELSE IF file.host # Unset THEN file.host ELSE shell
Target(d, step) ==
    CASE step.kind = "migrate" -> file.host
      [] step.kind \in {"deps", "build"} -> DbtEnvironment(d)
      [] OTHER -> Loaded(IF d = "dag" THEN container.host ELSE shell)

Limits(d) == IF d = "dag" THEN container.limits ELSE file.limits

\* load() refuses a missing host and a limit that is not positive, before any
\* work; a process that gets past it needs the tables, the race-scoped entities
\* their schedule, and dbt build stops at a test that the results fail.
Ready(d, step) ==
    LET w == Target(d, step) IN
    \/ step.kind = "deps"
    \/ /\ Says(w)
       /\ step.kind # "migrate" => w \in migrated
       /\ step.kind \in {"reference", "season", "resumed", "race"} => Limits(d) = "ok"
       /\ step.kind = "race" => "reference" \in raw[w].loaded
       /\ step.kind = "build" => raw[w].results # 1

Init ==
    /\ file \in [host : Hosts, limits : {"ok"}]
    /\ shell \in Hosts /\ container = file
    /\ source = 1 /\ migrated = {}
    /\ raw = [w \in Warehouses |-> [loaded |-> {}, results |-> 0]]
    /\ marts = [w \in Warehouses |-> 0]
    /\ todo = [d \in Who |-> <<>>] /\ tries = [d \in Who |-> 0] /\ used = [d \in Who |-> {}]
    /\ edited = [d \in Who |-> FALSE]
    /\ result = [d \in Who |-> "none"] /\ alerts = 0
    /\ edits = 0 /\ faults = 0

-----------------------------------------------------------------------------
\* max_active_runs=1, catchup=False: one run of the DAG at a time.
Start(d) ==
    /\ todo[d] = <<>>
    /\ todo' = [todo EXCEPT ![d] = IF d = "dag" THEN DagSteps ELSE OperatorSteps]
    /\ tries' = [tries EXCEPT ![d] = 0]
    /\ used' = [used EXCEPT ![d] = {}]
    /\ edited' = [edited EXCEPT ![d] = FALSE]
    /\ result' = [result EXCEPT ![d] = "none"]
    /\ alerts' = IF d = "dag" THEN 0 ELSE alerts
    /\ UNCHANGED <<settings, data, edits, faults>>

Effect(step, w) ==
    /\ migrated' = IF step.kind = "migrate" THEN migrated \cup {w} ELSE migrated
    /\ raw' = CASE step.kind \in {"reference", "race"} -> [raw EXCEPT ![w].loaded = @ \cup {step.kind}]
                [] step.kind = "season" /\ step.season = Newest -> [raw EXCEPT ![w].results = source]
                [] step.kind = "resumed" /\ raw[w].results = 0 -> [raw EXCEPT ![w].results = source]
                [] OTHER -> raw
    /\ marts' = IF step.kind = "build" THEN [marts EXCEPT ![w] = raw[w].results] ELSE marts

\* run(): the process of the step exits with 0, and the next step begins.
Succeed(d) ==
    /\ todo[d] # <<>>
    /\ LET step == Head(todo[d]) w == Target(d, step) IN
          /\ Ready(d, step)
          /\ IF step.kind = "deps" THEN UNCHANGED <<migrated, raw, marts, used>>
             ELSE Effect(step, w) /\ used' = [used EXCEPT ![d] = @ \cup {w}]
    /\ todo' = [todo EXCEPT ![d] = Tail(@)]
    /\ tries' = [tries EXCEPT ![d] = 0]
    /\ result' = [result EXCEPT ![d] = IF Len(todo[d]) = 1 THEN "ok" ELSE @]
    /\ UNCHANGED <<settings, source, alerts, edited, edits, faults>>

\* Mutated: on_retry_callback as well.
MutAlert(final) == alerts + 1
Alert(final) == IF final THEN alerts + 1 ELSE alerts

\* It does not.  tasks.py ends with its exit code; the DAG's task is tried again,
\* and after its last attempt fails, with an alert, and those behind it never run.
Fail(d) ==
    /\ LET final == d = "operator" \/ tries[d] = Retries IN
          /\ todo' = [todo EXCEPT ![d] = IF final THEN <<>> ELSE @]
          /\ tries' = [tries EXCEPT ![d] = IF final THEN 0 ELSE @ + 1]
          /\ result' = [result EXCEPT ![d] = IF final THEN "failed" ELSE @]
          /\ alerts' = IF d = "dag" THEN Alert(final) ELSE alerts
    /\ UNCHANGED <<settings, data, used, edited, edits>>

Refused(d) == todo[d] # <<>> /\ ~Ready(d, Head(todo[d])) /\ Fail(d) /\ UNCHANGED faults
Fault(d) == todo[d] # <<>> /\ faults < MaxFaults /\ Fail(d) /\ faults' = faults + 1

-----------------------------------------------------------------------------
\* The containers have what .env said when they were created, and a process
\* looks at the file only for what its environment does not say.
EditFile(new) ==
    /\ edits < MaxEdits /\ edits' = edits + 1
    /\ file' = new /\ new # file
    /\ edited' = [d \in Who |-> edited[d] \/ d = "operator" \/ ~Says(container.host)]
    /\ UNCHANGED <<shell, container, data, runs, faults>>

CreateContainers ==
    /\ container' = file /\ container # file
    /\ edited' = [edited EXCEPT !["dag"] = TRUE]
    /\ UNCHANGED <<file, shell, data, runs, edits, faults>>

\* The source corrects what it published.
Correct ==
    /\ source = 1 /\ source' = 2
    /\ UNCHANGED <<settings, migrated, raw, marts, runs, edited, edits, faults>>

Work(d) == Succeed(d) \/ Refused(d)
Next ==
    \/ \E d \in Who : Start(d) \/ Work(d) \/ Fault(d)
    \/ \E new \in [host : Hosts, limits : {"ok", "zero"}] : EditFile(new)
    \/ CreateContainers \/ Correct

(***************************************************************************)
(* Fairness: processes end, the schedule starts a run every day, and the   *)
(* source corrects a partial publication.                                  *)
(***************************************************************************)
Spec ==
    /\ Init /\ [][Next]_vars
    /\ WF_vars(Start("dag")) /\ WF_vars(Correct)
    /\ \A d \in Who : WF_vars(Work(d))

-----------------------------------------------------------------------------
(***************************************************************************)
(* The pipeline and the transformations read the same settings             *)
(* (config.py:3-5, tasks.py:74-75): all steps of one run work on one       *)
(* warehouse, also when .env is edited under the containers - unless the   *)
(* shell contradicts .env, or the settings in use change during the run.   *)
(***************************************************************************)
OneWarehouse ==
    \A d \in Who :
        \/ Cardinality(used[d]) <= 1
        \/ edited[d]
        \/ d = "operator" /\ Says(shell) /\ shell # file.host

(***************************************************************************)
(* A failed run of the DAG is reported, and only once, after its last      *)
(* attempt (callbacks.py:3-5), whichever task failed however often; a run  *)
(* that succeeds after retries is not reported.                            *)
(***************************************************************************)
OneAlert == alerts = IF result["dag"] = "failed" THEN 1 ELSE 0

(***************************************************************************)
(* A partial publication does not stay (f1_pipeline.py:28-45): the results *)
(* that the source has corrected reach the marts of the warehouse that the *)
(* schedule works on, whatever was swept and failed before, if that        *)
(* warehouse is migrated and the settings stay as they are.                *)
(***************************************************************************)
Settled(w) == container = [host |-> w, limits |-> "ok"] /\ w \in migrated
CorrectionArrives ==
    \A w \in Warehouses : <>[]Settled(w) => <>[](marts[w] = 2)
=============================================================================
