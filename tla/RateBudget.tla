----------------------------- MODULE RateBudget -----------------------------
(***************************************************************************)
(* The sustained and the burst request budget of the ingestion processes:  *)
(* ingestion/extract.py's RateLimiter.acquire over the shared table        *)
(* raw.api_call_log, reached through load_warehouse.py's WarehouseBudget.  *)
(*                                                                         *)
(* A process runs `acquire` before every request, retries included: it     *)
(* sleeps out the burst interval, reads how many calls the trailing window *)
(* holds, sleeps until the oldest of them leaves the window when the       *)
(* allowance is spent, inserts one row, and then sends the request.  Each  *)
(* of those is a step here, because another process, a crash or a dropped  *)
(* connection may come between any two of them.                            *)
(*                                                                         *)
(* The table is the append-only sequence `log` of called_at times together *)
(* with the set `live` of the rows that prune has not deleted.             *)
(***************************************************************************)
EXTENDS Integers, Sequences, FiniteSets

CONSTANTS
    Procs,          \* ingestion processes
    MaxInWindow,    \* requests_per_hour: calls allowed in one window
    Window,         \* the window, in clock ticks (3600 s in the code)
    MinInterval,    \* 1 / burst_per_second
    Margin,         \* the 0.01 s added to a sleep for the allowance
    Keep,           \* prune's keep_seconds (7200 s in the code)
    Latency,        \* most time between recording a call and sending it
    MaxAttempts,    \* WarehouseBudget.MAX_ATTEMPTS
    RetryBackoff,   \* WarehouseBudget.RETRY_BACKOFF_SECONDS
    Concurrent,     \* may two processes run at the same time?
    MayDrop,        \* may the budget's connection be dropped?
    MaxTime,        \* bound on the clock, for TLC
    StrainedTime    \* bound on the clock of a strained budget, for TLC

ASSUME AllowanceAssumption == MaxInWindow \in Nat \ {0}
ASSUME ClockAssumption ==
    /\ Window \in Nat \ {0}
    /\ Keep \in Nat /\ Keep >= Window
    /\ MinInterval \in Nat /\ Margin \in Nat /\ Latency \in Nat
    /\ RetryBackoff \in Nat /\ MaxTime \in Nat /\ StrainedTime \in Nat
ASSUME AttemptAssumption == MaxAttempts \in Nat \ {0}
ASSUME SwitchAssumption == Concurrent \in BOOLEAN /\ MayDrop \in BOOLEAN

VARIABLES
    now,        \* the database's clock
    log,        \* called_at of every row ever inserted, oldest first
    live,       \* indices of the rows still in the table
    sent,       \* times at which requests reached the source, in order
    slot,       \* slot[i]: index in log of the row recorded for sent[i]
    row,        \* row[p]: index in log of the row p inserted last
    pc,         \* where each process is
    wake,       \* a process does nothing before this time (time.sleep)
    last,       \* RateLimiter._last_call; None before the first call
    attempt,    \* attempt of the current budget statement, from 1
    strained    \* history: has a process ever started beside another one, or a
                \* connection dropped under a statement?  No step reads it.

table == <<log, live>>
vars == <<now, log, live, sent, slot, row, pc, wake, last, attempt, strained>>

None == -1

\* The three statements WarehouseBudget._execute runs.
Statements == {"prune", "usage", "record"}
States == Statements \cup {"down", "ready", "send"}

Up(p) == pc[p] # "down"
Awake(p) == now >= wake[p]

\* RateLimiter's view of the table: the rows with called_at > now() - Window.
InWindow == {i \in live : log[i] > now - Window}
Used == Cardinality(InWindow)
IsOldest(i) == i \in InWindow /\ \A j \in InWindow : log[i] <= log[j]

TypeOK ==
    /\ now \in Nat
    /\ log \in Seq(Nat)
    /\ live \subseteq DOMAIN log
    /\ sent \in Seq(Nat)
    /\ slot \in Seq(Nat)
    /\ row \in [Procs -> Nat]
    /\ pc \in [Procs -> States]
    /\ wake \in [Procs -> Nat]
    /\ last \in [Procs -> Nat \cup {None}]
    /\ attempt \in [Procs -> 1..MaxAttempts]
    /\ strained \in BOOLEAN

Init ==
    /\ now = 0
    /\ log = << >>
    /\ live = {}
    /\ sent = << >>
    /\ slot = << >>
    /\ row = [p \in Procs |-> 0]
    /\ pc = [p \in Procs |-> "down"]
    /\ wake = [p \in Procs |-> 0]
    /\ last = [p \in Procs |-> None]
    /\ attempt = [p \in Procs |-> 1]
    /\ strained = FALSE

-----------------------------------------------------------------------------
\* Mutated forms, for the properties to catch: a run that starts with an empty
\* log, a burst interval that is ignored or has the wrong sign, a usage compared
\* with > for >=, retries that bypass acquire.
MutPruneAll == live' = {} /\ UNCHANGED log

MutNoBurst(p) == now

MutBurstSign(p) ==
    IF last[p] # None /\ now - last[p] < MinInterval THEN last[p] - MinInterval ELSE now

MutReadUsage(p) ==
    /\ pc[p] = "usage" /\ Awake(p)
    /\ \/ Used <= MaxInWindow /\ wake' = [wake EXCEPT ![p] = now]
       \/ /\ Used > MaxInWindow
          /\ \E i \in live : /\ IsOldest(i)
                             /\ wake' = [wake EXCEPT ![p] = log[i] + Window + Margin]
    /\ pc' = [pc EXCEPT ![p] = "record"]
    /\ attempt' = [attempt EXCEPT ![p] = 1]
    /\ UNCHANGED <<now, table, sent, slot, row, last, strained>>

MutSend(p) ==
    /\ pc[p] = "send"
    /\ sent' = Append(sent, now)
    /\ slot' = Append(slot, row[p])
    /\ \E next \in {"ready", "send"} : pc' = [pc EXCEPT ![p] = next]
    /\ UNCHANGED <<now, table, row, wake, last, attempt, strained>>

-----------------------------------------------------------------------------
\* What each statement does to the table.
PruneEffect ==
    /\ live' = {i \in live : log[i] >= now - Keep}
    /\ UNCHANGED log

RecordEffect ==
    /\ log' = Append(log, now)
    /\ live' = live \cup {Len(log) + 1}

-----------------------------------------------------------------------------
\* Whatever strains the budget does so early enough for its clock to go on.
MayStrain == now < StrainedTime

\* A process that is gone keeps nothing: its memory is not persisted.
Forget(p) ==
    /\ pc' = [pc EXCEPT ![p] = "down"]
    /\ wake' = [wake EXCEPT ![p] = 0]
    /\ last' = [last EXCEPT ![p] = None]
    /\ row' = [row EXCEPT ![p] = 0]
    /\ attempt' = [attempt EXCEPT ![p] = 1]

\* pipeline.main opens the budget.
Alone == \A q \in Procs : ~Up(q)

Start(p) ==
    /\ ~Up(p)
    /\ Alone \/ (Concurrent /\ MayStrain)
    /\ pc' = [pc EXCEPT ![p] = "prune"]
    /\ strained' = (strained \/ ~Alone)
    /\ UNCHANGED <<now, table, sent, slot, row, wake, last, attempt>>

\* The prune at the start of every run.
Prune(p) ==
    /\ pc[p] = "prune" /\ Awake(p)
    /\ PruneEffect
    /\ pc' = [pc EXCEPT ![p] = "ready"]
    /\ attempt' = [attempt EXCEPT ![p] = 1]
    /\ UNCHANGED <<now, sent, slot, row, wake, last, strained>>

\* acquire begins: the time at which the burst interval has passed.
BurstEnd(p) ==
    IF last[p] # None /\ now - last[p] < MinInterval
    THEN last[p] + MinInterval
    ELSE now

Acquire(p) ==
    /\ pc[p] = "ready"
    /\ pc' = [pc EXCEPT ![p] = "usage"]
    /\ wake' = [wake EXCEPT ![p] = BurstEnd(p)]
    /\ UNCHANGED <<now, table, sent, slot, row, last, attempt, strained>>

\* store.usage, then a sleep for the oldest call when the allowance is spent.
\* The code does not read the usage again after the sleep.
ReadUsage(p) ==
    /\ pc[p] = "usage" /\ Awake(p)
    /\ \/ Used < MaxInWindow /\ wake' = [wake EXCEPT ![p] = now]
       \/ /\ Used >= MaxInWindow
          /\ \E i \in live : /\ IsOldest(i)
                             /\ wake' = [wake EXCEPT ![p] = log[i] + Window + Margin]
    /\ pc' = [pc EXCEPT ![p] = "record"]
    /\ attempt' = [attempt EXCEPT ![p] = 1]
    /\ UNCHANGED <<now, table, sent, slot, row, last, strained>>

\* store.record, committed at once, and the burst clock restarts.
Record(p) ==
    /\ pc[p] = "record" /\ Awake(p)
    /\ RecordEffect
    /\ row' = [row EXCEPT ![p] = Len(log) + 1]
    /\ pc' = [pc EXCEPT ![p] = "send"]
    /\ wake' = [wake EXCEPT ![p] = now]
    /\ last' = [last EXCEPT ![p] = now]
    /\ attempt' = [attempt EXCEPT ![p] = 1]
    /\ UNCHANGED <<now, sent, slot, strained>>

\* session.get: the request the row was recorded for leaves the process.
\* fetch_page comes back to `acquire` for a retry and for the next page alike.
Send(p) ==
    /\ pc[p] = "send"
    /\ sent' = Append(sent, now)
    /\ slot' = Append(slot, row[p])
    /\ pc' = [pc EXCEPT ![p] = "ready"]
    /\ UNCHANGED <<now, table, row, wake, last, attempt, strained>>

-----------------------------------------------------------------------------
\* The connection drops under a statement.  The statement may have committed
\* before the link died (prune deletes, record inserts) or not.
DroppedEffect(p) ==
    \/ UNCHANGED table
    \/ pc[p] = "prune" /\ PruneEffect
    \/ pc[p] = "record" /\ RecordEffect

\* _execute sleeps, reconnects and repeats the statement.
AttemptsLeft(p) == attempt[p] < MaxAttempts

RetryStatement(p) ==
    /\ MayDrop /\ MayStrain
    /\ pc[p] \in Statements /\ Awake(p)
    /\ AttemptsLeft(p)
    /\ DroppedEffect(p)
    /\ attempt' = [attempt EXCEPT ![p] = @ + 1]
    /\ wake' = [wake EXCEPT ![p] = now + RetryBackoff * attempt[p]]
    /\ strained' = TRUE
    /\ UNCHANGED <<now, sent, slot, row, pc, last>>

\* The last attempt fails: the OperationalError ends the process.
GiveUp(p) ==
    /\ MayDrop /\ MayStrain
    /\ pc[p] \in Statements /\ Awake(p)
    /\ ~AttemptsLeft(p)
    /\ DroppedEffect(p)
    /\ Forget(p)
    /\ strained' = TRUE
    /\ UNCHANGED <<now, sent, slot>>

\* The run ends, or the process dies wherever it is.
Stop(p) ==
    /\ Up(p)
    /\ Forget(p)
    /\ UNCHANGED <<now, table, sent, slot, strained>>

\* Time passes.  A recorded call is sent within Latency of its row.
Tick ==
    /\ now < IF strained THEN StrainedTime ELSE MaxTime
    /\ \A p \in Procs : pc[p] = "send" => now < wake[p] + Latency
    /\ now' = now + 1
    /\ UNCHANGED <<table, sent, slot, row, pc, wake, last, attempt, strained>>

Step(p) ==
    \/ Start(p)
    \/ Prune(p)
    \/ Acquire(p)
    \/ ReadUsage(p)
    \/ Record(p)
    \/ Send(p)
    \/ RetryStatement(p)
    \/ GiveUp(p)
    \/ Stop(p)

Next == Tick \/ \E p \in Procs : Step(p)

Spec == Init /\ [][Next]_vars

-----------------------------------------------------------------------------
(***************************************************************************)
(* The budget as migration 006 and tasks.py:170-172 promise it: no window  *)
(* holds more than MaxInWindow requests of all the processes, that is, any *)
(* MaxInWindow + 1 consecutive requests span a full window, less the time  *)
(* a recorded request may take to leave the process.                       *)
(***************************************************************************)
WindowBudget ==
    \A i, j \in DOMAIN sent : j >= i + MaxInWindow => sent[j] - sent[i] >= Window - Latency

(***************************************************************************)
(* What acquire (extract.py:116-126, 145-160) keeps of it: over any number *)
(* of runs, one after the other, with crashes, restarts and prunes between *)
(* any two statements, the budget holds - for as long as no process has    *)
(* run beside another and no statement of the budget has been repeated.    *)
(***************************************************************************)
BudgetKept == ~strained => WindowBudget

(***************************************************************************)
(* No request is ever sent blind (load_warehouse.py:236-239): each has its *)
(* own row in the log, inserted no later than the request left and at most *)
(* Latency before it, across retries of the insert, restarts and other     *)
(* processes.                                                              *)
(***************************************************************************)
EveryCallRecorded ==
    /\ \A i \in DOMAIN sent : log[slot[i]] \in sent[i] - Latency .. sent[i]
    /\ \A i, j \in DOMAIN slot : slot[i] = slot[j] => i = j

(***************************************************************************)
(* prune (load_warehouse.py:313-322) never deletes a row that some window  *)
(* still counts: a process that starts while others are running does not   *)
(* hand them allowance back.                                               *)
(***************************************************************************)
PruneKeepsWindow ==
    \A i \in DOMAIN log : log[i] > now - Window => i \in live

(***************************************************************************)
(* The burst limit (extract.py:145-148), per process: two rows one process *)
(* inserts for consecutive calls are MinInterval apart, however long the   *)
(* sleep for the sustained budget between them was.                        *)
(***************************************************************************)
BurstSpacing ==
    [][\A p \in Procs :
         (row'[p] > row[p] /\ last[p] # None) => log'[row'[p]] - last[p] >= MinInterval]_vars
-----------------------------------------------------------------------------
(***************************************************************************)
(* The inductive invariants behind the properties above.                   *)
(***************************************************************************)
\* Rows are in time order, and only rows older than Keep have been deleted.
LogInv ==
    /\ \A i, j \in DOMAIN log : i <= j => log[i] <= log[j]
    /\ \A i \in DOMAIN log : log[i] <= now
    /\ \A i \in DOMAIN log : i \in live \/ log[i] + Keep < now

\* Between two calls of a process, it sleeps at least the burst interval out.
BurstInv ==
    \A p \in Procs : last[p] # None =>
        /\ last[p] <= now
        /\ pc[p] \in {"usage", "record"} => last[p] + MinInterval <= wake[p]

\* A process about to send holds a row no sent or pending request has.
Pending(p) ==
    /\ row[p] \in DOMAIN log
    /\ log[row[p]] = wake[p]
    /\ wake[p] <= now /\ now <= wake[p] + Latency
    /\ \A i \in DOMAIN slot : slot[i] # row[p]
    /\ \A q \in Procs : (pc[q] = "send" /\ q # p) => row[q] # row[p]

RecordInv ==
    /\ Len(slot) = Len(sent)
    /\ \A i \in DOMAIN slot : slot[i] \in DOMAIN log
    /\ EveryCallRecorded
    /\ \A p \in Procs : pc[p] = "send" => Pending(p)

\* While nothing is strained: one process at a time; the log itself respects the
\* budget; whoever is about to insert sleeps until the row Max places back has
\* left the window; requests leave in the order of their rows.
LogBudget ==
    \A i, j \in DOMAIN log : j >= i + MaxInWindow => log[j] - log[i] >= Window

Allowed(p) ==
    Len(log) >= MaxInWindow =>
        log[Len(log) + 1 - MaxInWindow] + Window <= wake[p]

BudgetInv ==
    /\ \A p, q \in Procs : Up(p) /\ Up(q) => p = q
    /\ LogBudget
    /\ \A p \in Procs : pc[p] = "record" => Allowed(p)
    /\ \A i, j \in DOMAIN slot : i <= j => slot[j] - slot[i] >= j - i
    /\ \A p \in Procs : pc[p] = "send" => row[p] = Len(log)
=============================================================================
