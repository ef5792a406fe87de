------------------------------- MODULE Fetch -------------------------------
(***************************************************************************)
(* ingestion/extract.py, Extractor.fetch_page, with its caller             *)
(* extract_and_land: one scope is fetched page by page, each page in up to *)
(* MaxAttempts requests, and what cannot be fetched is dead-lettered.      *)
(*                                                                         *)
(* Ingestion knows of a page only that it comes or does not; here are the  *)
(* answers of the server, the waits, and the data connection that the      *)
(* handler of a failure needs.  Rows are numbered from 0.                  *)
(***************************************************************************)
EXTENDS Integers, Sequences

CONSTANTS
    Total,          \* rows of the scope
    PageSize,       \* the limit that is requested
    Cap,            \* the limit the server applies, and reports (nothing in the
                    \* code keeps it from being 0)
    MaxAttempts, BackoffBase,
    Told,           \* what a Retry-After may say: seconds, or None without one
    MaxDrops        \* bound on lost data connections, for TLC

None == -1
ASSUME FetchAssumption ==
    /\ Total \in Nat \ {0} /\ Cap \in Nat /\ PageSize \in Nat \ {0} /\ Cap <= PageSize
    /\ MaxAttempts \in Nat \ {0} /\ BackoffBase \in Nat /\ MaxDrops \in Nat
    /\ Told \subseteq Nat \cup {None}

VARIABLES
    pc,             \* "down", "asking", "landing", "landed" or "failing"
    offset,         \* of the page that is fetched
    answers,        \* the answers to its requests so far
    slept,          \* the seconds it slept between them
    page,           \* the page that came: its limit, total and kind
    lake,           \* lake[o]: the object of offset o: "none", "page" or "bare"
    ckpt,           \* the checkpoint of the scope, and the kind of object behind it
    letters,        \* offsets with a row in raw.failed_ingestions
    up,             \* is the data connection of this run usable?
    exit,           \* how the last run ended
    drops           \* data connections lost so far

fetching == <<offset, answers, slept, page>>
store == <<lake, ckpt, letters>>
vars == <<pc, fetching, store, up, exit, drops>>

Rows == 0..Total - 1
Waits == Nat \cup {BackoffBase ^ i : i \in 1..MaxAttempts}
Pages == [kind : {"page", "bare"}, limit : Nat, total : Nat]

TypeOK ==
    /\ pc \in {"down", "asking", "landing", "landed", "failing"}
    /\ offset \in Rows
    /\ answers \in Seq({"transient", "refused"} \X (Nat \cup {None}))
    /\ Len(answers) <= MaxAttempts
    /\ slept \in Seq(Waits)
    /\ page \in Pages
    /\ lake \in [Rows -> {"none", "page", "bare"}]
    /\ ckpt.status \in {"none", "in_progress", "complete", "failed"} /\ ckpt.next \in Nat
    /\ letters \subseteq Rows
    /\ up \in BOOLEAN /\ drops \in Nat
    /\ exit \in {"none", "ok", "failed", "crashed"}

Blank == [kind |-> "page", limit |-> 0, total |-> 0]
Init ==
    /\ pc = "down" /\ offset = 0 /\ answers = <<>> /\ slept = <<>> /\ page = Blank
    /\ lake = [o \in Rows |-> "none"]
    /\ ckpt = [next |-> 0, status |-> "none", by |-> "none"]
    /\ letters = {} /\ up = TRUE /\ exit = "none" /\ drops = 0

-----------------------------------------------------------------------------
Turn(o) == offset' = o /\ answers' = <<>> /\ slept' = <<>> /\ page' = Blank

End(how) == pc' = "down" /\ exit' = how /\ Turn(0)

\* A run opens its data connection and looks at the checkpoint.
Start(resume) ==
    /\ pc = "down"
    /\ up' = TRUE
    /\ IF resume /\ ckpt.status = "complete"
       THEN End("ok")
       ELSE /\ pc' = "asking" /\ exit' = "none"
            /\ Turn(IF resume THEN ckpt.next ELSE 0)
    /\ UNCHANGED <<store, drops>>

LastAttempt == Len(answers) + 1 = MaxAttempts

\* `Retry-After or BACKOFF_BASE_SECONDS ** attempt`.  Mutated: on the number.
MutPause(told) == IF told > 0 THEN told ELSE BackoffBase ^ (Len(answers) + 1)
Pause(told) == IF told # None THEN told ELSE BackoffBase ^ (Len(answers) + 1)

\* Try again, unless this was the last attempt, which breaks out of the loop
\* before it would sleep.
Again(answer, told) ==
    /\ pc = "asking"
    /\ answers' = Append(answers, <<answer, told>>)
    /\ IF LastAttempt THEN pc' = "failing" /\ UNCHANGED slept
                      ELSE pc' = "asking" /\ slept' = Append(slept, Pause(told))
    /\ UNCHANGED <<offset, page, store, up, exit, drops>>

\* A connection error (which tells nothing), a 429 or a 5xx.
Transient(told) == Again("transient", told)

\* A 429 or a 5xx whose Retry-After is a date: float() raises what nothing
\* catches, except on the last attempt, which does not look at it.
TransientUntil ==
    /\ pc = "asking"
    /\ IF LastAttempt THEN /\ pc' = "failing" /\ answers' = Append(answers, <<"transient", None>>)
                           /\ UNCHANGED <<offset, slept, page, exit>>
                      ELSE End("crashed")
    /\ UNCHANGED <<store, up, drops>>

\* Another status, or a body that is not JSON.  Mutated: retried like the rest.
MutRefused == Again("refused", None)
Refused ==
    /\ pc = "asking"
    /\ answers' = Append(answers, <<"refused", None>>)
    /\ pc' = "failing"
    /\ UNCHANGED <<offset, slept, page, store, up, exit, drops>>

\* JSON that is not an object: payload.get raises what nothing catches.
NotAnObject ==
    /\ pc = "asking"
    /\ End("crashed")
    /\ UNCHANGED <<store, up, drops>>

\* A page.  Without MRData the offset and the limit are those of the request,
\* and the total is 0.
Answer(kind) ==
    /\ pc = "asking"
    /\ page' = IF kind = "page" THEN [kind |-> kind, limit |-> Cap, total |-> Total]
                                ELSE [kind |-> kind, limit |-> PageSize, total |-> 0]
    /\ pc' = "landing"
    /\ UNCHANGED <<offset, answers, slept, store, up, exit, drops>>
AnswerPage(o) == offset = o /\ Answer("page")

-----------------------------------------------------------------------------
\* lake.put, which needs no connection to the database.
Put ==
    /\ pc = "landing"
    /\ lake' = [lake EXCEPT ![offset] = page.kind]
    /\ pc' = "landed"
    /\ UNCHANGED <<fetching, ckpt, letters, up, exit, drops>>

\* The next page begins where the reported limit says.  Mutated: the requested one.
MutNextOffset == offset + PageSize
NextOffset == offset + page.limit

Checkpoint ==
    /\ pc = "landed" /\ up
    /\ LET done == NextOffset >= page.total \/ page.total = 0 IN
          /\ ckpt' = [next |-> NextOffset, by |-> page.kind,
                      status |-> IF done THEN "complete" ELSE "in_progress"]
          /\ IF done THEN End("ok") ELSE Turn(NextOffset) /\ pc' = "asking" /\ UNCHANGED exit
    /\ UNCHANGED <<lake, letters, up, drops>>

\* The handler of ExtractError: dead letter and checkpoint commit together, then
\* the error goes on to main.  Mutated: the checkpoint skips the failed page.
MutFailedAt == offset + Cap
FailedAt == offset

Handle ==
    /\ pc = "failing" /\ up
    /\ letters' = letters \cup {offset}
    /\ ckpt' = [next |-> FailedAt, by |-> "none", status |-> "failed"]
    /\ End("failed")
    /\ UNCHANGED <<lake, up, drops>>

\* record_failure, or save_checkpoint, on a connection that is gone.
Mute ==
    /\ pc \in {"failing", "landed"} /\ ~up
    /\ End("crashed")
    /\ UNCHANGED <<store, up, drops>>

\* The database drops the connection, which may have been idle for an hour.
Drop ==
    /\ pc # "down" /\ up /\ drops < MaxDrops
    /\ up' = FALSE /\ drops' = drops + 1
    /\ UNCHANGED <<pc, fetching, store, exit>>

Proceed == Put \/ Checkpoint \/ Handle \/ Mute
Respond ==
    \/ \E told \in Told : Transient(told)
    \/ TransientUntil \/ Refused \/ NotAnObject \/ Answer("bare")
    \/ \E o \in Rows : AnswerPage(o)
Next == Proceed \/ Respond \/ Drop \/ \E resume \in BOOLEAN : Start(resume)

(***************************************************************************)
(* Fairness: requests get an answer (the timeout is one), runs with and    *)
(* without --resume are started again and again, and a page that is asked  *)
(* for again and again comes in the end.                                   *)
(***************************************************************************)
Spec ==
    /\ Init /\ [][Next]_vars
    /\ WF_vars(Proceed) /\ WF_vars(Respond)
    /\ \A resume \in BOOLEAN : SF_vars(Start(resume))
    /\ \A o \in Rows : SF_vars(AnswerPage(o))
-----------------------------------------------------------------------------
(***************************************************************************)
(* Only what is worth retrying is retried, up to four requests in all, and *)
(* no page is given up before (extract.py:34-36, 180): whatever mixture of *)
(* answers a page gets.                                                    *)
(***************************************************************************)
RetriesJustified ==
    /\ \A i \in 1..Len(answers) - 1 : answers[i][1] = "transient"
    /\ pc = "asking" => \A i \in DOMAIN answers : answers[i][1] = "transient"
    /\ pc = "failing" => Len(answers) = MaxAttempts \/ answers[Len(answers)][1] = "refused"

(***************************************************************************)
(* A server that states how long to wait is waited for exactly as long     *)
(* (extract.py:202-203), also when it says 0 and also between answers that *)
(* say nothing, which back off exponentially; nobody sleeps on the way out.*)
(***************************************************************************)
WaitsAsTold ==
    /\ Len(slept) = Len(answers) - (IF pc = "failing" THEN 1 ELSE 0)
    /\ \A i \in DOMAIN slept :
          slept[i] = IF answers[i][2] = None THEN BackoffBase ^ i ELSE answers[i][2]

(***************************************************************************)
(* A run that reports the failure of a page has recorded it: there is a    *)
(* dead letter, and the checkpoint is at that very page (pipeline.py:78-80)*)
(* however often the page has failed or come before.                       *)
(***************************************************************************)
FailureIsRecorded ==
    exit = "failed" => ckpt.status = "failed" /\ ckpt.next \in letters

\* The rows of the pages in the lake: an object without MRData holds none, and
\* lies where the rows of a page may have been.
RowsUnder(kind) == {r \in Rows : \E o \in Rows : lake[o] = kind /\ o <= r /\ r < o + Cap}
Landed == RowsUnder("page")
Overwritten == RowsUnder("bare")

\* The rows that a resumed run will not ask for: all of a scope that pages have
\* completed, those before the page that an answer without MRData stood for, and
\* those before the page that is next or that failed.
Passed ==
    {r \in Rows : \/ ckpt.status = "complete" /\ ckpt.by = "page"
                  \/ ckpt.by # "bare" /\ r < ckpt.next
                  \/ ckpt.by = "bare" /\ r + PageSize < ckpt.next}

(***************************************************************************)
(* The offset moves by the reported limit (extract.py:9-11), so no row is  *)
(* skipped: every row a checkpoint has passed lies in a page in the lake,  *)
(* across retries, failures, resumed and repeated runs.  One thing takes   *)
(* such a row away: an answer without MRData that a repeated run lands     *)
(* over its page - while that run still has to write its checkpoint, and   *)
(* for good only if it lost its data connection before it could.           *)
(***************************************************************************)
NothingSkipped ==
    \A r \in Passed : \/ r \in Landed
                      \/ r \in Overwritten /\ (pc = "landed" \/ drops > 0)

(***************************************************************************)
(* "Checkpoint only after the object is durably in the lake. If the        *)
(* process dies between the two, the worst case is re-fetching one page"   *)
(* (pipeline.py:98-100): between runs, a scope that pages have completed   *)
(* has all its rows in the lake.                                           *)
(***************************************************************************)
WorstCaseIsRefetch ==
    pc = "down" /\ ckpt.status = "complete" /\ ckpt.by = "page" => Landed = Rows

(***************************************************************************)
(* Whatever failed before, and whatever answer completed the scope without *)
(* its rows or was landed over them, the lake gets every row of it again   *)
(* and again, without anybody repairing a checkpoint or a dead letter.     *)
(***************************************************************************)
EventuallyLanded == []<>(Landed = Rows)
=============================================================================
