------------------------------ MODULE Ingestion ------------------------------
(***************************************************************************)
(* ingestion/pipeline.py: a run fetches every page of every scope of the   *)
(* entities it was asked for, lands each page in the lake, checkpoints     *)
(* after each page, and then loads the warehouse from the lake.            *)
(*                                                                         *)
(* A row of the source is a triple <<entity, scope, number>>.  An entity   *)
(* that needs one request per round has the rounds as its scopes, any      *)
(* other entity has the single scope Whole; row number r of the schedule   *)
(* entity Races is round r.  A page is the set of rows it holds.           *)
(*                                                                         *)
(* Several runs may be in progress at once, each may die between any two   *)
(* of its writes, and the next one may start with other options.           *)
(***************************************************************************)
EXTENDS Integers, Sequences, FiniteSets

CONSTANTS
    Procs,          \* pipeline processes
    Order,          \* the selected entities, in the order main runs them
    Races,          \* the schedule, whose rows are the rounds
    RaceScoped,     \* entities fetched once per round
    NRounds,        \* rounds of the season
    Size,           \* Size[e][s]: rows the source holds, once published
    Limit,          \* the page size the server reports (it clamps requests)
    BadRows,        \* rows without a usable key: parse_records rejects them
    Runs,           \* options of the runs that may be started
    Lag,            \* may a race's results appear later than its date?
    MaxFaults       \* bound on failed fetches and crashes, for TLC

Entities == {Order[i] : i \in DOMAIN Order}
Rounds == 1..NRounds
Whole == 0
ScopesOf(e) == IF e \in RaceScoped THEN Rounds ELSE {Whole}
Scopes == {Whole} \cup Rounds
EntityScopes == {es \in Entities \X Scopes : es[2] \in ScopesOf(es[1])}
Dates == {r.date : r \in Runs}

ASSUME RunsAssumption ==
    /\ Runs # {}
    /\ \A r \in Runs : r.resume \in BOOLEAN /\ r.loadOnly \in BOOLEAN
ASSUME SourceAssumption ==
    /\ Order \in Seq(Entities)
    /\ NRounds \in Nat /\ Limit \in Nat /\ MaxFaults \in Nat
    /\ Lag \in BOOLEAN
    /\ Races \notin RaceScoped
    /\ Size \in [Entities -> [Scopes -> Nat]]
    /\ Races \in Entities => Size[Races][Whole] = NRounds

VARIABLES
    raced,          \* rounds whose date is today or past
    published,      \* rounds whose results the source holds
    lake,           \* landed objects: key -> the rows of the page
    ckpt,           \* raw.ingestion_checkpoints
    raw,            \* rows committed to the raw tables
    dead,           \* rows committed to raw.failed_ingestions
    failures,       \* scopes with an unresolved failed request in there
    pc,             \* where each process is
    run,            \* the options of its run
    due,            \* rows the run has to load: see DueRows
    pos,            \* position in Order of the entity it works on
    todo,           \* scopes of that entity still to extract
    scope,          \* the scope being extracted
    offset,         \* the offset of the page being fetched
    total,          \* the total the server reported with that page
    keys,           \* listed lake objects still to load
    txn,            \* rows upserted in the open transaction
    failed,         \* has an entity of this run failed?
    exit,           \* how the process's last run ended
    faults          \* failed fetches and crashes so far

source == <<raced, published>>
store == <<lake, ckpt>>
warehouse == <<raw, dead, failures>>
fetching == <<todo, scope, offset, total>>
loading == <<keys, txn>>
vars == <<source, store, warehouse, fetching, loading,
          pc, run, due, pos, failed, exit, faults>>

None == -1

\* The rows of the source: all of them, and those it holds now.
Row(e, s, i) == <<e, s, i>>
AllRows == Entities \X Scopes \X Nat
Total(e, s) == IF e \in RaceScoped /\ s \notin published THEN 0 ELSE Size[e][s]
RowsUpTo(e, s, n) == {Row(e, s, i) : i \in 1..n}
SourceRows == UNION {RowsUpTo(es[1], es[2], Total(es[1], es[2])) : es \in EntityScopes}

\* The page at an offset of a scope that has t rows.
PageEnd(o, t) == IF o + Limit < t THEN o + Limit ELSE t
PageRows(e, s, o, t) == {Row(e, s, i) : i \in o + 1 .. PageEnd(o, t)}

\* Mutated forms are named Mut..., each before the definition it mutates: here,
\* a key without the offset.
MutKey(e, s, o, d) == [entity |-> e, scope |-> s, offset |-> 0, date |-> d]

\* Lake.key_for: one object per entity, scope, offset and partition date.
Keys == [entity : Entities, scope : Scopes, offset : Nat, date : Dates]
Key(e, s, o, d) == [entity |-> e, scope |-> s, offset |-> o, date |-> d]
Landed(e, d) == {k \in DOMAIN lake : k.entity = e /\ k.date = d}
RowsIn(ks) == UNION {lake[k] : k \in ks}

\* The order in which list_keys returns objects and the loop reads them.
Before(j, k) == j.scope < k.scope \/ (j.scope = k.scope /\ j.offset <= k.offset)

Statuses == {"none", "in_progress", "complete", "failed"}
Checkpoints == [next : Nat, total : Nat \cup {None}, status : Statuses]
NoCheckpoint == [next |-> 0, total |-> None, status |-> "none"]

\* The rows of a scope a checkpoint says are behind it.
Covered(c) == IF c.total # None /\ c.total < c.next THEN c.total ELSE c.next

States == {"down", "entity", "schedule", "scope", "fetch", "put", "checkpoint", "list", "load"}

TypeOK ==
    /\ raced \subseteq Rounds /\ published \subseteq raced
    /\ DOMAIN lake \subseteq Keys
    /\ \A k \in DOMAIN lake : lake[k] \subseteq AllRows
    /\ ckpt \in [Entities -> [Scopes -> Checkpoints]]
    /\ raw \subseteq AllRows /\ dead \subseteq AllRows
    /\ failures \subseteq Entities \X Scopes
    /\ pc \in [Procs -> States]
    /\ run \in [Procs -> Runs]
    /\ due \in [Procs -> SUBSET AllRows]
    /\ pos \in [Procs -> 1 .. Len(Order) + 1]
    /\ todo \in [Procs -> SUBSET Scopes]
    /\ scope \in [Procs -> Scopes]
    /\ offset \in [Procs -> Nat]
    /\ total \in [Procs -> Nat]
    /\ keys \in [Procs -> SUBSET DOMAIN lake]
    /\ txn \in [Procs -> SUBSET AllRows]
    /\ failed \in [Procs -> BOOLEAN]
    /\ exit \in [Procs -> {"none", "ok", "failed", "crashed"}]
    /\ faults \in Nat
    /\ \A p \in Procs : pc[p] \notin {"down", "entity"} => pos[p] \in DOMAIN Order

Init ==
    /\ raced = {} /\ published = {}
    /\ lake = [k \in {} |-> {}]
    /\ ckpt = [e \in Entities |-> [s \in Scopes |-> NoCheckpoint]]
    /\ raw = {} /\ dead = {} /\ failures = {}
    /\ pc = [p \in Procs |-> "down"]
    /\ run = [p \in Procs |-> CHOOSE r \in Runs : TRUE]
    /\ due = [p \in Procs |-> {}]
    /\ pos = [p \in Procs |-> 1]
    /\ todo = [p \in Procs |-> {}]
    /\ scope = [p \in Procs |-> Whole]
    /\ offset = [p \in Procs |-> 0]
    /\ total = [p \in Procs |-> 0]
    /\ keys = [p \in Procs |-> {}]
    /\ txn = [p \in Procs |-> {}]
    /\ failed = [p \in Procs |-> FALSE]
    /\ exit = [p \in Procs |-> "none"]
    /\ faults = 0

-----------------------------------------------------------------------------
(***************************************************************************)
(* The outside world: a race's date comes, its results are published.      *)
(***************************************************************************)
RaceDay ==
    /\ \E r \in Rounds \ raced :
          /\ \A q \in Rounds \ raced : r <= q
          /\ raced' = raced \cup {r}
          /\ published' = IF Lag THEN published ELSE published \cup {r}
    /\ UNCHANGED <<store, warehouse, fetching, loading, pc, run, due, pos,
                   failed, exit, faults>>

Publish ==
    /\ \E r \in raced \ published : published' = published \cup {r}
    /\ UNCHANGED <<raced, store, warehouse, fetching, loading, pc, run, due, pos,
                   failed, exit, faults>>

-----------------------------------------------------------------------------
(***************************************************************************)
(* A run.  `due` is not in the code: it records what the run has to load,  *)
(* the rows the source holds when it starts, or for --load-only the rows   *)
(* its partition of the lake holds.                                        *)
(***************************************************************************)
DueRows(r) ==
    IF r.loadOnly THEN RowsIn({k \in DOMAIN lake : k.date = r.date}) ELSE SourceRows

\* What a process holds in memory between two pieces of work.
ClearWork(p) ==
    /\ todo' = [todo EXCEPT ![p] = {}]
    /\ scope' = [scope EXCEPT ![p] = Whole]
    /\ offset' = [offset EXCEPT ![p] = 0]
    /\ total' = [total EXCEPT ![p] = 0]
    /\ keys' = [keys EXCEPT ![p] = {}]
    /\ txn' = [txn EXCEPT ![p] = {}]

\* main, up to its loop.
Start(p) ==
    /\ pc[p] = "down"
    /\ \E r \in Runs : /\ run' = [run EXCEPT ![p] = r]
                       /\ due' = [due EXCEPT ![p] = DueRows(r)]
    /\ pc' = [pc EXCEPT ![p] = "entity"]
    /\ exit' = [exit EXCEPT ![p] = "none"]
    /\ UNCHANGED <<source, store, warehouse, fetching, loading, pos, failed, faults>>

Entity(p) == Order[pos[p]]
Selecting(p) == pc[p] = "entity" /\ pos[p] <= Len(Order)

\* Mutated: main forgets that an entity failed.
MutEntityDone(p, ok) ==
    /\ pc' = [pc EXCEPT ![p] = "entity"]
    /\ pos' = [pos EXCEPT ![p] = @ + 1]
    /\ UNCHANGED failed
    /\ ClearWork(p)

\* run_entity returns; main's loop goes on to the next entity.
EntityDone(p, ok) ==
    /\ pc' = [pc EXCEPT ![p] = "entity"]
    /\ pos' = [pos EXCEPT ![p] = @ + 1]
    /\ failed' = [failed EXCEPT ![p] = @ \/ ~ok]
    /\ ClearWork(p)

\* Mutated: the rounds are inferred from their count; or each is one too high.
MutScheduledRounds == Rounds
MutRunRounds == {r \in 1 .. NRounds + 1 : Row(Races, Whole, r - 1) \in raw /\ r - 1 \in raced}

\* rounds_for_season reads the committed schedule; select_run_rounds keeps
\* the rounds whose date is not in the future.
ScheduledRounds == {r \in Rounds : Row(Races, Whole, r) \in raw}
RunRounds == ScheduledRounds \cap raced

BeginLoadOnly(p) ==
    /\ Selecting(p) /\ run[p].loadOnly
    /\ pc' = [pc EXCEPT ![p] = "list"]
    /\ UNCHANGED <<source, store, warehouse, fetching, loading, run, due, pos,
                   failed, exit, faults>>

BeginExtract(p) ==
    /\ Selecting(p) /\ ~run[p].loadOnly
    /\ Entity(p) \in RaceScoped => RunRounds # {}
    /\ todo' = [todo EXCEPT ![p] = IF Entity(p) \in RaceScoped THEN RunRounds ELSE {Whole}]
    /\ pc' = [pc EXCEPT ![p] = "scope"]
    /\ UNCHANGED <<source, store, warehouse, scope, offset, total, loading, run,
                   due, pos, failed, exit, faults>>

\* No round to fetch.
FindNoRounds(p) ==
    /\ Selecting(p) /\ ~run[p].loadOnly
    /\ Entity(p) \in RaceScoped /\ RunRounds = {}
    /\ pc' = [pc EXCEPT ![p] = "schedule"]
    /\ UNCHANGED <<source, store, warehouse, fetching, loading, run, due, pos,
                   failed, exit, faults>>

\* Then the schedule is read once more, whoever has loaded it in between: nothing
\* to do when none of it has run, a failure when there is none.
BeginNoRounds(p) ==
    /\ pc[p] = "schedule"
    /\ EntityDone(p, ScheduledRounds # {})
    /\ UNCHANGED <<source, store, warehouse, run, due, exit, faults>>

\* main returns 1 if an entity failed and 0 if none did.
Finish(p) ==
    /\ pc[p] = "entity" /\ pos[p] > Len(Order)
    /\ pc' = [pc EXCEPT ![p] = "down"]
    /\ pos' = [pos EXCEPT ![p] = 1]
    /\ exit' = [exit EXCEPT ![p] = IF failed[p] THEN "failed" ELSE "ok"]
    /\ failed' = [failed EXCEPT ![p] = FALSE]
    /\ UNCHANGED <<source, store, warehouse, fetching, loading, run, due, faults>>

-----------------------------------------------------------------------------
(***************************************************************************)
(* extract_and_land, one scope at a time in the order of the rounds.       *)
(***************************************************************************)
NextScope(p, s) ==
    /\ pc[p] = "scope"
    /\ s \in todo[p] /\ \A r \in todo[p] : s <= r
    /\ todo' = [todo EXCEPT ![p] = @ \ {s}]

Checkpoint(p, s) == ckpt[Entity(p)][s]

SkipComplete(p) ==
    /\ \E s \in todo[p] : /\ NextScope(p, s)
                          /\ run[p].resume /\ Checkpoint(p, s).status = "complete"
    /\ UNCHANGED <<source, store, warehouse, scope, offset, total, loading, pc,
                   run, due, pos, failed, exit, faults>>

\* Mutated: --resume starts the scope from its first page.
MutBeginScope(p) ==
    /\ \E s \in todo[p] :
          /\ NextScope(p, s)
          /\ ~(run[p].resume /\ Checkpoint(p, s).status = "complete")
          /\ scope' = [scope EXCEPT ![p] = s]
          /\ offset' = [offset EXCEPT ![p] = 0]
    /\ pc' = [pc EXCEPT ![p] = "fetch"]
    /\ UNCHANGED <<source, store, warehouse, total, loading, run, due, pos,
                   failed, exit, faults>>

BeginScope(p) ==
    /\ \E s \in todo[p] :
          /\ NextScope(p, s)
          /\ ~(run[p].resume /\ Checkpoint(p, s).status = "complete")
          /\ scope' = [scope EXCEPT ![p] = s]
          /\ offset' = [offset EXCEPT ![p] = IF run[p].resume THEN Checkpoint(p, s).next ELSE 0]
    /\ pc' = [pc EXCEPT ![p] = "fetch"]
    /\ UNCHANGED <<source, store, warehouse, total, loading, run, due, pos,
                   failed, exit, faults>>

ExtractDone(p) ==
    /\ pc[p] = "scope" /\ todo[p] = {}
    /\ pc' = [pc EXCEPT ![p] = "list"]
    /\ UNCHANGED <<source, store, warehouse, fetching, loading, run, due, pos,
                   failed, exit, faults>>

\* fetch_page answers with the page at the offset, as the source is now.
Fetch(p) ==
    /\ pc[p] = "fetch"
    /\ total' = [total EXCEPT ![p] = Total(Entity(p), scope[p])]
    /\ pc' = [pc EXCEPT ![p] = "put"]
    /\ UNCHANGED <<source, store, warehouse, todo, scope, offset, loading, run,
                   due, pos, failed, exit, faults>>

\* fetch_page raises ExtractError.  The dead letter and the "failed"
\* checkpoint commit together, and run_entity gives the entity up: the pages
\* it has landed are not loaded by this run.
FetchFails(p) ==
    /\ pc[p] = "fetch" /\ faults < MaxFaults
    /\ failures' = failures \cup {<<Entity(p), scope[p]>>}
    /\ ckpt' = [ckpt EXCEPT ![Entity(p)][scope[p]] =
                   [next |-> offset[p], total |-> None, status |-> "failed"]]
    /\ EntityDone(p, FALSE)
    /\ faults' = faults + 1
    /\ UNCHANGED <<source, lake, raw, dead, run, due, exit>>

\* Mutated: put clears the partition before it writes.
MutPut(p) ==
    /\ pc[p] = "put"
    /\ lake' = [j \in {Key(Entity(p), scope[p], offset[p], run[p].date)} |->
                   PageRows(Entity(p), scope[p], offset[p], total[p])]
    /\ pc' = [pc EXCEPT ![p] = "checkpoint"]
    /\ UNCHANGED <<source, ckpt, warehouse, fetching, loading, run, due, pos,
                   failed, exit, faults>>

\* lake.put replaces an object that has the same key.
Put(p) ==
    /\ pc[p] = "put"
    /\ LET k == Key(Entity(p), scope[p], offset[p], run[p].date)
           rows == PageRows(Entity(p), scope[p], offset[p], total[p])
       IN  lake' = [j \in DOMAIN lake \cup {k} |-> IF j = k THEN rows ELSE lake[j]]
    /\ pc' = [pc EXCEPT ![p] = "checkpoint"]
    /\ UNCHANGED <<source, ckpt, warehouse, fetching, loading, run, due, pos,
                   failed, exit, faults>>

\* save_checkpoint and commit, after the object is in the lake.
LastPage(p) == offset[p] + Limit >= total[p] \/ total[p] = 0

\* Mutated: the loop goes on without the next offset; or every page completes
\* the checkpoint of its scope.
MutSameOffset(p) ==
    /\ pc[p] = "checkpoint"
    /\ ckpt' = [ckpt EXCEPT ![Entity(p)][scope[p]] =
                   [next |-> offset[p] + Limit, total |-> total[p],
                    status |-> IF LastPage(p) THEN "complete" ELSE "in_progress"]]
    /\ pc' = [pc EXCEPT ![p] = IF LastPage(p) THEN "scope" ELSE "fetch"]
    /\ UNCHANGED <<source, lake, warehouse, fetching, loading, run, due, pos,
                   failed, exit, faults>>

MutAllComplete(p) ==
    /\ pc[p] = "checkpoint"
    /\ ckpt' = [ckpt EXCEPT ![Entity(p)][scope[p]] =
                   [next |-> offset[p] + Limit, total |-> total[p], status |-> "complete"]]
    /\ pc' = [pc EXCEPT ![p] = IF LastPage(p) THEN "scope" ELSE "fetch"]
    /\ offset' = [offset EXCEPT ![p] = IF LastPage(p) THEN @ ELSE @ + Limit]
    /\ UNCHANGED <<source, lake, warehouse, todo, scope, total, loading, run, due,
                   pos, failed, exit, faults>>

SaveCheckpoint(p) ==
    /\ pc[p] = "checkpoint"
    /\ ckpt' = [ckpt EXCEPT ![Entity(p)][scope[p]] =
                   [next |-> offset[p] + Limit, total |-> total[p],
                    status |-> IF LastPage(p) THEN "complete" ELSE "in_progress"]]
    /\ IF LastPage(p)
       THEN pc' = [pc EXCEPT ![p] = "scope"] /\ UNCHANGED offset
       ELSE /\ pc' = [pc EXCEPT ![p] = "fetch"]
            /\ offset' = [offset EXCEPT ![p] = @ + Limit]
    /\ UNCHANGED <<source, lake, warehouse, todo, scope, total, loading, run, due,
                   pos, failed, exit, faults>>

-----------------------------------------------------------------------------
(***************************************************************************)
(* load_from_lake: one transaction for the whole entity.                   *)
(***************************************************************************)
ListKeys(p) ==
    /\ pc[p] = "list" /\ Landed(Entity(p), run[p].date) # {}
    /\ keys' = [keys EXCEPT ![p] = Landed(Entity(p), run[p].date)]
    /\ pc' = [pc EXCEPT ![p] = "load"]
    /\ UNCHANGED <<source, store, warehouse, fetching, txn, run, due, pos, failed,
                   exit, faults>>

\* No object under the prefix: an empty LoadOutcome, which is not a failure.
ListNothing(p) ==
    /\ pc[p] = "list" /\ Landed(Entity(p), run[p].date) = {}
    /\ EntityDone(p, TRUE)
    /\ UNCHANGED <<source, store, warehouse, run, due, exit, faults>>

\* Rows parse_records rejects become dead letters in the same transaction.
LoadObject(p) ==
    /\ pc[p] = "load"
    /\ \E k \in keys[p] :
          /\ \A j \in keys[p] : Before(k, j)
          /\ txn' = [txn EXCEPT ![p] = @ \cup lake[k]]
          /\ keys' = [keys EXCEPT ![p] = @ \ {k}]
    /\ UNCHANGED <<source, store, warehouse, fetching, pc, run, due, pos, failed,
                   exit, faults>>

CommitLoad(p) ==
    /\ pc[p] = "load" /\ keys[p] = {}
    /\ raw' = raw \cup (txn[p] \ BadRows)
    /\ dead' = dead \cup (txn[p] \cap BadRows)
    /\ EntityDone(p, TRUE)
    /\ UNCHANGED <<source, store, failures, run, due, exit, faults>>

-----------------------------------------------------------------------------
\* The process dies: killed, or an exception nobody catches.  The server
\* rolls its open transaction back and its memory is gone.
Crash(p) ==
    /\ pc[p] # "down" /\ faults < MaxFaults
    /\ pc' = [pc EXCEPT ![p] = "down"]
    /\ pos' = [pos EXCEPT ![p] = 1]
    /\ exit' = [exit EXCEPT ![p] = "crashed"]
    /\ ClearWork(p)
    /\ failed' = [failed EXCEPT ![p] = FALSE]
    /\ faults' = faults + 1
    /\ UNCHANGED <<source, store, warehouse, run, due>>

Work(p) ==
    \/ BeginLoadOnly(p) \/ BeginExtract(p) \/ FindNoRounds(p) \/ BeginNoRounds(p)
    \/ Finish(p) \/ SkipComplete(p) \/ BeginScope(p) \/ ExtractDone(p)
    \/ Fetch(p) \/ Put(p) \/ SaveCheckpoint(p)
    \/ ListKeys(p) \/ ListNothing(p) \/ LoadObject(p) \/ CommitLoad(p)

Next ==
    \/ RaceDay \/ Publish
    \/ \E p \in Procs : Start(p) \/ Work(p) \/ FetchFails(p) \/ Crash(p)

Spec == Init /\ [][Next]_vars

(***************************************************************************)
(* Fairness: the operating system runs a process that can go on, whoever   *)
(* schedules the pipeline (Airflow, the operator) starts it again after    *)
(* each run, and the season goes on.  Nothing makes a fetch fail or a      *)
(* process crash.                                                          *)
(***************************************************************************)
FairSpec ==
    /\ Spec
    /\ WF_vars(RaceDay) /\ WF_vars(Publish)
    /\ \A p \in Procs : WF_vars(Work(p)) /\ WF_vars(Start(p))

-----------------------------------------------------------------------------
(***************************************************************************)
(* A checkpoint is never ahead of the lake (pipeline.py:98-100): every row *)
(* it says is behind it is in a landed object, whatever died between the   *)
(* two writes, whatever the next run's options were, and whatever other    *)
(* run shares the scope.                                                   *)
(***************************************************************************)
LakeBacksCheckpoint ==
    \A e \in Entities : \A s \in ScopesOf(e) :
        \A i \in 1 .. Covered(ckpt[e][s]) :
            \E k \in DOMAIN lake : Row(e, s, i) \in lake[k]

(***************************************************************************)
(* Exit code 0 is the truth (pipeline.py:311-315): when a run reports      *)
(* success, every row it had to load is in the warehouse or is a dead      *)
(* letter, including the rows of pages that earlier runs landed and lost.  *)
(***************************************************************************)
ExitZeroMeansLoaded ==
    \A p \in Procs : exit[p] = "ok" => due[p] \subseteq raw \cup dead

(***************************************************************************)
(* The warehouse can be rebuilt from the lake (load_warehouse.py:3-6):     *)
(* every row it holds, loaded or dead, is in some object of the lake.      *)
(***************************************************************************)
WarehouseFromLake == raw \cup dead \subseteq RowsIn(DOMAIN lake)

(***************************************************************************)
(* Race-scoped rows arrive only for rounds the committed schedule knows:   *)
(* the schedule's load commits before the rounds are read from it          *)
(* (tasks.py:164-166), and no later load takes it back.                    *)
(***************************************************************************)
RoundsAreScheduled ==
    \A e \in Entities \cap RaceScoped : \A r \in Rounds :
        (\E k \in DOMAIN lake : k.entity = e /\ k.scope = r) => Row(Races, Whole, r) \in raw

(***************************************************************************)
(* Resuming does not spend the budget twice (tasks.py:200-201): a run      *)
(* started with --resume never requests a page that a committed checkpoint *)
(* covers.                                                                 *)
(***************************************************************************)
ResumeNeverRefetches ==
    \A p \in Procs :
        (pc[p] = "fetch" /\ run[p].resume) =>
            /\ Checkpoint(p, scope[p]).status # "complete"
            /\ offset[p] >= Checkpoint(p, scope[p]).next

(***************************************************************************)
(* Every run ends, in success or not: pagination terminates.               *)
(***************************************************************************)
RunsEnd == \A p \in Procs : pc[p] # "down" ~> pc[p] = "down"

(***************************************************************************)
(* Once fetches stop failing and processes stop dying, repeated runs get   *)
(* every row of the season into the warehouse and keep it there, however   *)
(* many pages the earlier runs landed without loading them.                *)
(***************************************************************************)
AllPublished == UNION {RowsUpTo(es[1], es[2], Size[es[1]][es[2]]) : es \in EntityScopes}
EventuallyLoaded == <>[](AllPublished \subseteq raw \cup dead)

-----------------------------------------------------------------------------
(***************************************************************************)
(* A run implements the abstract copy of Replica: `raw` and the dead       *)
(* letters are the copy, `due` what a run was asked for, and the exit code *)
(* its outcome.  (A --load-only run is asked for less.)                    *)
(***************************************************************************)
Promise == INSTANCE Replica WITH
    Rows <- AllRows,
    rows <- SourceRows,
    copy <- raw \cup dead,
    want <- due,
    outcome <- exit

ImplementsReplica == Promise!Spec

-----------------------------------------------------------------------------
(***************************************************************************)
(* The inductive invariant behind LakeBacksCheckpoint.  A page fetched     *)
(* before its results are published is empty, and must not overwrite one   *)
(* that another run fetched since: either results are never late, or runs  *)
(* do not overlap, as the schedule has it (dags/f1_pipeline.py:64).        *)
(***************************************************************************)
Alone == \A p, q \in Procs : pc[p] # "down" /\ pc[q] # "down" => p = q
Orderly == ~Lag \/ Alone

Extracting(p) == pc[p] \in {"fetch", "put", "checkpoint"}

\* The first n rows of a scope, or all if it has fewer, are in the lake.
InLake(e, s, i) == \E k \in DOMAIN lake : Row(e, s, i) \in lake[k]
Behind(e, s, n) == \A i \in 1..n : i <= Size[e][s] => InLake(e, s, i)
NoneLanded(e, s) == \A k \in DOMAIN lake : k.entity = e /\ k.scope = s => lake[k] = {}

\* Unless results are late, only rounds that are published are ever extracted.
ScopesInv == ~Lag =>
    /\ raced = published
    /\ \A p \in Procs :
          (pc[p] = "scope" \/ Extracting(p)) /\ Entity(p) \in RaceScoped =>
             /\ todo[p] \subseteq published
             /\ Extracting(p) => scope[p] \in published

\* The totals that fetches of a scope have been answered with so far.
Answers(e, s) ==
    IF Lag /\ e \in RaceScoped THEN {0, Total(e, s)} ELSE {Size[e][s]}

\* Every object is the page of its scope at its offset, as some fetch had it.
LakeInv ==
    \A k \in DOMAIN lake : \E t \in Answers(k.entity, k.scope) :
        lake[k] = PageRows(k.entity, k.scope, k.offset, t)

\* What a process that is extracting a scope knows of it.
Knows(p) ==
    /\ offset[p] <= Size[Entity(p)][scope[p]]
    /\ Behind(Entity(p), scope[p], offset[p])
    /\ pc[p] # "fetch" =>
          /\ total[p] \in Answers(Entity(p), scope[p])
          /\ total[p] # Size[Entity(p)][scope[p]] => NoneLanded(Entity(p), scope[p])
    /\ pc[p] = "checkpoint" =>
          LET k == Key(Entity(p), scope[p], offset[p], run[p].date)
          IN  /\ k \in DOMAIN lake
              /\ PageRows(Entity(p), scope[p], offset[p], total[p]) \subseteq lake[k]

\* What a checkpoint says of its scope.
Tells(c, e, s) ==
    /\ Behind(e, s, Covered(c))
    /\ c.total \in {None} \cup Answers(e, s)
    /\ c.status # "complete" => c.next <= Size[e][s] /\ (c.total # None => c.next <= c.total)
    /\ c.status = "complete" => c.total # None /\ c.total <= c.next

PagesInv ==
    /\ LakeInv
    /\ \A p \in Procs : Extracting(p) => Knows(p)
    /\ \A e \in Entities, s \in Scopes : Tells(ckpt[e][s], e, s)
=============================================================================
