---------------------------- MODULE Fetch_proofs ----------------------------
(***************************************************************************)
(* Fetch's invariants hold for every size of a scope and of its pages,     *)
(* every number of attempts and every Retry-After.                         *)
(***************************************************************************)
EXTENDS Fetch, WellFoundedInduction, TLAPS

All == {"page", "bare"}

\* A row that is in the lake, or that a run has lost: it landed an answer without
\* MRData over the row's page and lost its data connection.
Kept(r) == r \in Landed \/ (r \in Overwritten /\ drops > 0)

\* What the run is in the middle of.
RunInv ==
    /\ pc # "failing" => Len(answers) < MaxAttempts
    /\ pc \in {"landing", "landed"} =>
          page \in {[kind |-> "page", limit |-> Cap, total |-> Total],
                    [kind |-> "bare", limit |-> PageSize, total |-> 0]}
    /\ pc = "landed" => lake[offset] = page.kind
    /\ exit = "failed" => pc = "down"
    /\ ~up => drops > 0

\* What is before the page in progress, or the one to resume at, was landed.
ScopeInv ==
    /\ ckpt.status # "complete" => ckpt.next \in Rows
    /\ ckpt.status # "complete" => ckpt.by # "bare"
    /\ ckpt.status = "none" => ckpt.next = 0
    /\ pc # "down" => \A r \in Rows : r < offset => Kept(r)

IInv == TypeOK /\ RunInv /\ ScopeInv /\ RetriesJustified /\ WaitsAsTold
        /\ FailureIsRecorded /\ NothingSkipped

LEMMA InvInit == Init => IInv
  <1> SUFFICES ASSUME Init PROVE IInv
    OBVIOUS
  <1>1. 0 \in Rows /\ MaxAttempts \in Nat \ {0}
    BY FetchAssumption DEF Rows
  <1>2. Len(answers) = 0 /\ Len(slept) = 0
    BY DEF Init
  <1>3. TypeOK
    BY <1>1, <1>2 DEF Init, TypeOK, Pages, Blank
  <1>4. RunInv /\ ScopeInv
    BY <1>1, <1>2 DEF Init, RunInv, ScopeInv
  <1>5. RetriesJustified /\ WaitsAsTold
    BY <1>2 DEF Init, RetriesJustified, WaitsAsTold
  <1>6. FailureIsRecorded /\ NothingSkipped
    BY DEF Init, FailureIsRecorded, NothingSkipped, Passed, Rows
  <1> QED  BY <1>3, <1>4, <1>5, <1>6 DEF IInv

(***************************************************************************)
(* The turn to another page, or to none.                                   *)
(***************************************************************************)
LEMMA NewPage ==
  ASSUME NEW o \in Rows, Turn(o), pc' # "failing"
  PROVE  /\ RetriesJustified' /\ WaitsAsTold' /\ Len(answers') < MaxAttempts
         /\ offset' \in Rows /\ page' \in Pages
         /\ answers' \in Seq({"transient", "refused"} \X (Nat \cup {None}))
         /\ Len(answers') <= MaxAttempts /\ slept' \in Seq(Waits)
  <1>1. answers' = <<>> /\ slept' = <<>> /\ page' = Blank /\ offset' = o
    BY DEF Turn
  <1>2. Len(answers') = 0 /\ Len(slept') = 0 /\ MaxAttempts \in Nat \ {0}
    BY <1>1, FetchAssumption
  <1>3. RetriesJustified' /\ WaitsAsTold'
    BY <1>1, <1>2 DEF RetriesJustified, WaitsAsTold
  <1> QED  BY <1>1, <1>2, <1>3 DEF Blank, Pages

(***************************************************************************)
(* Steps that leave lake and checkpoint alone, other than the one that     *)
(* takes a run from its landed page with its connection intact.            *)
(***************************************************************************)
LEMMA Unmoved ==
  ASSUME IInv, UNCHANGED <<lake, ckpt>>, drops' \in Nat, drops <= drops',
         pc # "landed" \/ pc' = "landed" \/ drops' > 0
  PROVE  NothingSkipped' /\ \A r \in Rows : Kept(r) => Kept(r)'
  <1>1. Passed' = Passed /\ Landed' = Landed /\ Overwritten' = Overwritten
    BY DEF Passed, Landed, Overwritten, RowsUnder
  <1>2. drops > 0 => drops' > 0
    BY DEF IInv, TypeOK
  <1> QED  BY <1>1, <1>2 DEF IInv, NothingSkipped, Kept

\* A run that ends without a checkpoint of its own.
LEMMA Ending ==
  ASSUME IInv, pc # "landed" \/ ~up, NEW how \in {"ok", "crashed"}, End(how), UNCHANGED store,
         up' \in BOOLEAN, ~up' => ~up, UNCHANGED drops
  PROVE  IInv'
  <1>1. 0 \in Rows
    BY FetchAssumption DEF Rows
  <1>2. pc' = "down" /\ exit' = how /\ Turn(0) /\ UNCHANGED <<lake, ckpt, letters>>
    BY DEF End, store
  <1>3. TypeOK' /\ RetriesJustified' /\ WaitsAsTold'
    BY <1>1, <1>2, NewPage DEF IInv, TypeOK
  <1>4. RunInv' /\ ScopeInv' /\ FailureIsRecorded'
    BY <1>1, <1>2, NewPage DEF IInv, RunInv, ScopeInv, FailureIsRecorded
  <1>5. NothingSkipped'
    <2>1. drops \in Nat /\ (~up => drops > 0)
      BY DEF IInv, TypeOK, RunInv
    <2> QED  BY <1>2, <2>1, Unmoved
  <1> QED  BY <1>3, <1>4, <1>5 DEF IInv

LEMMA Starting ==
  ASSUME IInv, NEW resume \in BOOLEAN, Start(resume)
  PROVE  IInv'
  <1>1. CASE resume /\ ckpt.status = "complete"
    BY <1>1, Ending DEF Start
  <1>2. CASE ~(resume /\ ckpt.status = "complete")
    <2> DEFINE o == IF resume THEN ckpt.next ELSE 0
    <2>1. /\ pc' = "asking" /\ exit' = "none" /\ Turn(o) /\ up' = TRUE
          /\ UNCHANGED <<lake, ckpt, letters, drops>>
      BY <1>2 DEF Start, store
    <2>0. pc = "down"
      BY DEF Start
    <2>2. o \in Rows /\ \A r \in Rows : r < o => Kept(r)
      <3>1. CASE resume
        <4>1. ckpt.status \in {"none", "in_progress", "failed"} /\ ckpt.next \in Rows
          BY <1>2, <3>1 DEF IInv, TypeOK, ScopeInv
        <4>2. ckpt.by # "bare"
          BY <4>1 DEF IInv, ScopeInv
        <4>3. \A r \in Rows : r < ckpt.next => r \in Passed
          BY <4>2 DEF Passed
        <4> QED  BY <2>0, <3>1, <4>1, <4>3 DEF IInv, NothingSkipped, Kept
      <3>2. CASE ~resume
        BY <3>2, FetchAssumption DEF Rows
      <3> QED  BY <3>1, <3>2
    <2>3. offset' = o
      BY <2>1 DEF Turn
    <2>4. TypeOK' /\ RetriesJustified' /\ WaitsAsTold'
      BY <2>1, <2>2, NewPage DEF IInv, TypeOK
    <2>5. RunInv' /\ FailureIsRecorded'
      BY <2>1, <2>2, NewPage DEF IInv, RunInv, FailureIsRecorded
    <2>6. NothingSkipped' /\ \A r \in Rows : Kept(r) => Kept(r)'
      BY <2>0, <2>1, Unmoved DEF IInv, TypeOK
    <2>7. ScopeInv'
      BY <2>1, <2>2, <2>3, <2>6 DEF IInv, ScopeInv
    <2> QED  BY <2>4, <2>5, <2>6, <2>7 DEF IInv
  <1> QED  BY <1>1, <1>2

(***************************************************************************)
(* The answers.                                                            *)
(***************************************************************************)
\* One more answer, after which the page is asked for again or is given up.
LEMMA OneMore ==
  ASSUME IInv, pc = "asking", NEW answer \in {"transient", "refused"}, NEW told \in Nat \cup {None},
         answers' = Append(answers, <<answer, told>>),
         UNCHANGED <<offset, page, lake, ckpt, letters, up, exit, drops>>,
         \/ /\ answer = "transient" /\ ~LastAttempt /\ pc' = "asking"
            /\ slept' = Append(slept, Pause(told))
         \/ /\ answer = "refused" \/ LastAttempt
            /\ pc' = "failing" /\ UNCHANGED slept
  PROVE  IInv'
  <1> DEFINE n == Len(answers)
  <1>1. /\ n \in Nat /\ n < MaxAttempts /\ MaxAttempts \in Nat
        /\ answers \in Seq({"transient", "refused"} \X (Nat \cup {None}))
        /\ slept \in Seq(Waits) /\ Len(slept) = n
    BY FetchAssumption DEF IInv, TypeOK, RunInv, WaitsAsTold
  <1>2. /\ Len(answers') = n + 1 /\ answers'[n + 1] = <<answer, told>>
        /\ \A i \in 1..n : answers'[i] = answers[i]
        /\ answers' \in Seq({"transient", "refused"} \X (Nat \cup {None}))
    BY <1>1
  <1>3. \A i \in 1..n : answers[i][1] = "transient"
    BY <1>1 DEF IInv, RetriesJustified
  <1>4. Pause(told) \in Waits
    BY <1>1 DEF Pause, Waits
  <1>7. NothingSkipped' /\ \A r \in Rows : Kept(r) => Kept(r)'
    BY Unmoved DEF IInv, TypeOK
  <1>5. CASE answer = "transient" /\ ~LastAttempt /\ pc' = "asking"
             /\ slept' = Append(slept, Pause(told))
    <2>1. /\ Len(slept') = n + 1 /\ slept'[n + 1] = Pause(told) /\ slept' \in Seq(Waits)
          /\ \A i \in 1..n : slept'[i] = slept[i]
      BY <1>1, <1>4, <1>5
    <2>2. n + 1 < MaxAttempts
      BY <1>1, <1>5 DEF LastAttempt
    <2>3. TypeOK'
      BY <1>1, <1>2, <1>5, <2>1, <2>2 DEF IInv, TypeOK
    <2>4. RetriesJustified'
      <3>1. ASSUME NEW i \in 1..n + 1
            PROVE  answers'[i][1] = "transient"
        <4>1. CASE i = n + 1
          BY <1>2, <1>5, <4>1
        <4>2. CASE i # n + 1
          BY <1>1, <1>2, <1>3, <4>2
        <4> QED  BY <4>1, <4>2
      <3>2. DOMAIN answers' = 1..n + 1 /\ 1..Len(answers') - 1 \subseteq 1..n + 1
        BY <1>1, <1>2
      <3> QED  BY <1>5, <3>1, <3>2 DEF RetriesJustified
    <2>5. WaitsAsTold'
      <3>1. Len(slept') = Len(answers') - (IF pc' = "failing" THEN 1 ELSE 0)
        BY <1>1, <1>2, <1>5, <2>1
      <3>2. ASSUME NEW i \in 1..n
            PROVE  slept'[i] = IF answers'[i][2] = None THEN BackoffBase ^ i ELSE answers'[i][2]
        BY <1>1, <1>2, <2>1, <3>2 DEF IInv, WaitsAsTold
      <3>3. slept'[n + 1] = IF answers'[n + 1][2] = None THEN BackoffBase ^ (n + 1)
                            ELSE answers'[n + 1][2]
        BY <1>2, <2>1 DEF Pause
      <3>4. DOMAIN slept' = 1..n \cup {n + 1}
        BY <1>1, <2>1
      <3> QED  BY <3>1, <3>2, <3>3, <3>4 DEF WaitsAsTold
    <2>6. RunInv' /\ ScopeInv' /\ FailureIsRecorded'
      BY <1>2, <1>5, <1>7, <2>2 DEF IInv, RunInv, ScopeInv, FailureIsRecorded
    <2> QED  BY <1>7, <2>3, <2>4, <2>5, <2>6 DEF IInv
  <1>6. CASE (answer = "refused" \/ LastAttempt) /\ pc' = "failing" /\ UNCHANGED slept
    <2>1. TypeOK'
      BY <1>1, <1>2, <1>6 DEF IInv, TypeOK
    <2>2. RetriesJustified'
      <3>1. ASSUME NEW i \in 1..n
            PROVE  answers'[i][1] = "transient"
        BY <1>2, <1>3
      <3>2. 1..Len(answers') - 1 = 1..n
        BY <1>1, <1>2
      <3>3. n + 1 = MaxAttempts \/ answers'[n + 1][1] = "refused"
        BY <1>2, <1>6 DEF LastAttempt
      <3> QED  BY <1>2, <1>6, <3>1, <3>2, <3>3 DEF RetriesJustified
    <2>3. WaitsAsTold'
      <3>1. Len(slept') = Len(answers') - 1
        BY <1>1, <1>2, <1>6
      <3>2. ASSUME NEW i \in DOMAIN slept
            PROVE  slept'[i] = IF answers'[i][2] = None THEN BackoffBase ^ i ELSE answers'[i][2]
        BY <1>1, <1>2, <1>6, <3>2 DEF IInv, WaitsAsTold
      <3> QED  BY <1>6, <3>1, <3>2 DEF WaitsAsTold
    <2>4. RunInv' /\ ScopeInv' /\ FailureIsRecorded'
      BY <1>6, <1>7 DEF IInv, RunInv, ScopeInv, FailureIsRecorded
    <2> QED  BY <1>7, <2>1, <2>2, <2>3, <2>4 DEF IInv
  <1> QED  BY <1>5, <1>6

LEMMA Answered ==
  ASSUME IInv, Respond
  PROVE  IInv'
  <1>1. ASSUME NEW told \in Told, Transient(told)
        PROVE  IInv'
    <2>1. told \in Nat \cup {None}
      BY FetchAssumption
    <2> QED  BY <1>1, <2>1, OneMore DEF Transient, Again, store
  <1>2. CASE TransientUntil
    <2>1. CASE LastAttempt
      BY <1>2, <2>1, OneMore DEF TransientUntil, store
    <2>2. CASE ~LastAttempt
      BY <1>2, <2>2, Ending DEF TransientUntil, IInv, TypeOK
    <2> QED  BY <2>1, <2>2
  <1>3. CASE Refused
    BY <1>3, OneMore DEF Refused, store
  <1>4. CASE NotAnObject
    BY <1>4, Ending DEF NotAnObject, IInv, TypeOK
  <1>5. ASSUME NEW kind \in All, Answer(kind)
        PROVE  IInv'
    <2>1. /\ pc = "asking" /\ pc' = "landing"
          /\ UNCHANGED <<offset, answers, slept, lake, ckpt, letters, up, exit, drops>>
          /\ page' \in {[kind |-> "page", limit |-> Cap, total |-> Total],
                        [kind |-> "bare", limit |-> PageSize, total |-> 0]}
      BY <1>5 DEF Answer, store, All
    <2>2. TypeOK'
      BY <2>1, FetchAssumption DEF IInv, TypeOK, Pages
    <2>3. RetriesJustified' /\ WaitsAsTold'
      BY <2>1 DEF IInv, RetriesJustified, WaitsAsTold
    <2>4. NothingSkipped' /\ \A r \in Rows : Kept(r) => Kept(r)'
      BY <2>1, Unmoved DEF IInv, TypeOK
    <2>5. RunInv' /\ ScopeInv' /\ FailureIsRecorded'
      BY <2>1, <2>4 DEF IInv, RunInv, ScopeInv, FailureIsRecorded
    <2> QED  BY <2>2, <2>3, <2>4, <2>5 DEF IInv
  <1> QED  BY <1>1, <1>2, <1>3, <1>4, <1>5 DEF Respond, AnswerPage, All

(***************************************************************************)
(* Landing and recording.                                                  *)
(***************************************************************************)
LEMMA Landing ==
  ASSUME IInv, Put
  PROVE  IInv'
  <1>1. /\ pc = "landing" /\ pc' = "landed" /\ lake' = [lake EXCEPT ![offset] = page.kind]
        /\ UNCHANGED <<offset, answers, slept, page, ckpt, letters, up, exit, drops>>
    BY DEF Put, fetching
  <1>2. page.kind \in All /\ offset \in Rows /\ lake'[offset] = page.kind
    BY <1>1 DEF IInv, RunInv, TypeOK, All
  <1>3. TypeOK'
    BY <1>1, <1>2 DEF IInv, TypeOK, All
  \* Where the page of a row is overwritten, it is by an answer without rows.
  <1>4. /\ \A r \in Landed : r \in Landed' \/ (r \in Overwritten' /\ ~(r < offset))
        /\ \A r \in Overwritten : r \in Landed' \/ r \in Overwritten'
    <2>1. ASSUME NEW kind \in All, NEW r \in RowsUnder(kind)
          PROVE  \/ r \in RowsUnder(kind)'
                 \/ r \in Landed' \cup Overwritten' /\ ~(r < offset)
      <3>1. PICK o \in Rows : lake[o] = kind /\ o <= r /\ r < o + Cap
        BY DEF RowsUnder
      <3>2. r \in Rows /\ r \in Nat /\ o \in Nat
        BY DEF RowsUnder, Rows
      <3>3. CASE o = offset
        <4>1. r \in Landed' \cup Overwritten'
          BY <1>1, <1>2, <3>1, <3>2, <3>3 DEF Landed, Overwritten, RowsUnder, All
        <4> QED  BY <3>1, <3>2, <3>3, <4>1
      <3>4. CASE o # offset
        <4>1. lake'[o] = lake[o]
          BY <1>1, <3>4 DEF IInv, TypeOK
        <4> QED  BY <3>1, <3>2, <4>1 DEF RowsUnder
      <3> QED  BY <3>3, <3>4
    <2>2. ASSUME NEW r \in Landed
          PROVE  r \in Landed' \/ (r \in Overwritten' /\ ~(r < offset))
      BY <2>1, <2>2 DEF Landed, All
    <2>3. ASSUME NEW r \in Overwritten
          PROVE  r \in Landed' \/ r \in Overwritten'
      BY <2>1, <2>3 DEF Overwritten, All
    <2> QED  BY <2>2, <2>3
  <1>5. RetriesJustified' /\ WaitsAsTold'
    BY <1>1 DEF IInv, RetriesJustified, WaitsAsTold
  <1>6. RunInv' /\ ScopeInv' /\ FailureIsRecorded'
    <2>1. \A r \in Rows : r < offset /\ Kept(r) => Kept(r)'
      BY <1>1, <1>4 DEF Kept
    <2> QED  BY <1>1, <1>2, <2>1 DEF IInv, RunInv, ScopeInv, FailureIsRecorded
  <1>7. NothingSkipped'
    <2>1. Passed' = Passed
      BY <1>1 DEF Passed
    <2> QED  BY <1>1, <1>4, <2>1 DEF IInv, NothingSkipped
  <1> QED  BY <1>3, <1>5, <1>6, <1>7 DEF IInv

LEMMA Checkpointing ==
  ASSUME IInv, Checkpoint
  PROVE  IInv'
  <1> DEFINE done == NextOffset >= page.total \/ page.total = 0
  <1>1. /\ pc = "landed" /\ UNCHANGED <<lake, letters, up, drops>>
        /\ ckpt' = [next |-> NextOffset, by |-> page.kind,
                    status |-> IF done THEN "complete" ELSE "in_progress"]
        /\ IF done THEN pc' = "down" /\ exit' = "ok" /\ Turn(0)
                   ELSE Turn(NextOffset) /\ pc' = "asking" /\ UNCHANGED exit
    BY DEF Checkpoint, End
  <1>2. /\ offset \in Rows /\ lake[offset] = page.kind /\ exit # "failed"
        /\ page \in {[kind |-> "page", limit |-> Cap, total |-> Total],
                     [kind |-> "bare", limit |-> PageSize, total |-> 0]}
    BY <1>1 DEF IInv, TypeOK, RunInv
  <1>3. NextOffset \in Nat /\ (~done => page.kind = "page" /\ NextOffset \in Rows)
    BY <1>2, FetchAssumption DEF NextOffset, Rows
  <1>4. page.kind = "page" => \A r \in Rows : r < NextOffset => Kept(r)
    <2> SUFFICES ASSUME page.kind = "page", NEW r \in Rows, r < NextOffset
                 PROVE  Kept(r)
      OBVIOUS
    <2>1. NextOffset = offset + Cap /\ lake[offset] = "page"
      BY <1>2 DEF NextOffset
    <2>2. CASE r < offset
      BY <1>1, <2>2 DEF IInv, ScopeInv
    <2>3. CASE offset <= r
      BY <1>2, <2>1, <2>3 DEF Landed, RowsUnder, Kept
    <2> QED  BY <1>2, <2>2, <2>3 DEF Rows
  <1>5. \E o \in Rows : Turn(o) /\ pc' # "failing"
    BY <1>1, <1>3, FetchAssumption DEF Rows
  <1>6. TypeOK' /\ RetriesJustified' /\ WaitsAsTold' /\ Len(answers') < MaxAttempts
    BY <1>1, <1>2, <1>3, <1>5, NewPage DEF IInv, TypeOK
  <1>7. RunInv' /\ FailureIsRecorded'
    BY <1>1, <1>2, <1>6 DEF IInv, RunInv, FailureIsRecorded
  <1>8. \A r \in Rows : Kept(r)' <=> Kept(r)
    BY <1>1 DEF Kept, Landed, Overwritten, RowsUnder
  <1>9. ScopeInv'
    <2>1. CASE done
      BY <1>1, <2>1 DEF ScopeInv
    <2>2. CASE ~done
      <3>1. /\ offset' = NextOffset /\ ckpt'.next = NextOffset
            /\ ckpt'.status = "in_progress" /\ ckpt'.by = "page"
        BY <1>1, <1>3, <2>2 DEF Turn
      <3> QED  BY <1>3, <1>4, <1>8, <2>2, <3>1 DEF ScopeInv
    <2> QED  BY <2>1, <2>2
  <1>10. NothingSkipped'
    <2>1. ckpt'.next = NextOffset /\ ckpt'.by = page.kind
          /\ ckpt'.status = IF done THEN "complete" ELSE "in_progress"
      BY <1>1
    <2>2. done /\ page.kind = "page" => \A r \in Rows : r < NextOffset
      BY <1>2, <1>3, FetchAssumption DEF Rows
    <2>3. page.kind = "page" => \A r \in Passed' : r \in Rows /\ r < NextOffset
      BY <2>1, <2>2 DEF Passed
    <2>4. page.kind = "bare" => \A r \in Passed' : r \in Rows /\ r < offset
      BY <1>2, <2>1, FetchAssumption DEF Passed, NextOffset, Rows
    <2>5. \A r \in Rows : r < offset => Kept(r)
      BY <1>1 DEF IInv, ScopeInv
    <2>6. \A r \in Passed' : Kept(r)'
      BY <1>2, <1>4, <1>8, <2>3, <2>4, <2>5
    <2> QED  BY <2>6 DEF NothingSkipped, Kept
  <1> QED  BY <1>6, <1>7, <1>9, <1>10 DEF IInv

LEMMA Handling ==
  ASSUME IInv, Handle
  PROVE  IInv'
  <1>1. /\ pc = "failing" /\ letters' = letters \cup {offset}
        /\ ckpt' = [next |-> offset, by |-> "none", status |-> "failed"]
        /\ pc' = "down" /\ exit' = "failed" /\ Turn(0) /\ UNCHANGED <<lake, up, drops>>
    BY DEF Handle, End, FailedAt
  <1>2. offset \in Rows /\ offset \in Nat /\ 0 \in Rows
    BY FetchAssumption DEF IInv, TypeOK, Rows
  <1>3. TypeOK' /\ RetriesJustified' /\ WaitsAsTold' /\ Len(answers') < MaxAttempts
    BY <1>1, <1>2, NewPage DEF IInv, TypeOK
  <1>4. RunInv' /\ FailureIsRecorded' /\ ScopeInv'
    BY <1>1, <1>2, <1>3 DEF IInv, RunInv, FailureIsRecorded, ScopeInv
  <1>5. \A r \in Rows : r < offset => Kept(r)'
    BY <1>1 DEF IInv, ScopeInv, Kept, Landed, Overwritten, RowsUnder
  <1>6. NothingSkipped'
    <2>1. \A r \in Passed' : r \in Rows /\ r < offset
      BY <1>1 DEF Passed
    <2> QED  BY <1>5, <2>1 DEF NothingSkipped, Kept
  <1> QED  BY <1>3, <1>4, <1>6 DEF IInv

LEMMA InvStep == IInv /\ [Next]_vars => IInv'
  <1> SUFFICES ASSUME IInv, [Next]_vars
               PROVE  IInv'
    OBVIOUS
  <1>1. CASE Mute
    BY <1>1, Ending DEF Mute, IInv, TypeOK
  <1>2. CASE Drop \/ UNCHANGED vars
    <2>1. /\ UNCHANGED <<pc, offset, answers, slept, page, lake, ckpt, letters, exit>>
          /\ up' \in BOOLEAN /\ drops' \in Nat /\ drops <= drops' /\ (~up' => drops' > 0)
      <3>1. CASE Drop
        <4>1. up' \in BOOLEAN
          BY <3>1, Zenon DEF Drop
        <4>2. drops' \in Nat /\ drops <= drops' /\ drops' > 0
          BY <3>1 DEF Drop, IInv, TypeOK
        <4>3. UNCHANGED <<pc, offset, answers, slept, page, lake, ckpt, letters, exit>>
          BY <3>1 DEF Drop, fetching, store
        <4> QED  BY <4>1, <4>2, <4>3
      <3>2. CASE UNCHANGED vars
        <4>1. up \in BOOLEAN /\ drops \in Nat /\ drops <= drops /\ (~up => drops > 0)
          BY DEF IInv, TypeOK, RunInv
        <4>2. /\ UNCHANGED <<pc, offset, answers, slept, page, lake, ckpt, letters, exit>>
              /\ up' = up /\ drops' = drops
          BY <3>2 DEF vars, fetching, store
        <4> QED  BY <4>1, <4>2, Zenon
      <3> QED  BY <1>2, <3>1, <3>2
    <2>2. NothingSkipped' /\ \A r \in Rows : Kept(r) => Kept(r)'
      BY <2>1, Unmoved
    <2>3. RetriesJustified' /\ WaitsAsTold'
      BY <2>1 DEF IInv, RetriesJustified, WaitsAsTold
    <2>4. FailureIsRecorded' /\ TypeOK'
      BY <2>1 DEF IInv, TypeOK, FailureIsRecorded
    <2>5. RunInv' /\ ScopeInv'
      BY <2>1, <2>2 DEF IInv, RunInv, ScopeInv
    <2> QED  BY <2>2, <2>3, <2>4, <2>5 DEF IInv
  <1> QED  BY <1>1, <1>2, Landing, Checkpointing, Handling, Answered, Starting
           DEF Next, Proceed

THEOREM Invariant == Spec => []IInv
  BY InvInit, InvStep, PTL DEF Spec

-----------------------------------------------------------------------------
(***************************************************************************)
(* For any scope, clamp, number of attempts and Retry-After.               *)
(***************************************************************************)
\* A scope is fetched within its rows, and a page in at most MaxAttempts requests
\* (extract.py:34).
THEOREM TypeCorrect == Spec => []TypeOK
  BY Invariant, PTL DEF IInv

\* Only what is worth retrying is retried, and no page is given up before
\* (extract.py:180).
THEOREM RetriesHold == Spec => []RetriesJustified
  BY Invariant, PTL DEF IInv

\* A server that states how long to wait is waited for as long (extract.py:202).
THEOREM WaitsHold == Spec => []WaitsAsTold
  BY Invariant, PTL DEF IInv

\* A failure that is reported is recorded (pipeline.py:78).
THEOREM FailureHolds == Spec => []FailureIsRecorded
  BY Invariant, PTL DEF IInv

\* Every row a checkpoint has passed lies in a page in the lake, though pages are
\* clamped (extract.py:9), unless a run landed an answer without MRData over it.
THEOREM NothingSkippedHolds == Spec => []NothingSkipped
  BY Invariant, PTL DEF IInv


-----------------------------------------------------------------------------
(***************************************************************************)
(* The scope comes to an end: a run that keeps failing makes MaxAttempts   *)
(* requests for a page, and one that does not has fewer rows before it     *)
(* after every page, also after an answer without MRData.  Each step of it *)
(* lowers the pair of the rows that are left and of what is left of the    *)
(* page: its requests, its landing, its checkpoint.                        *)
(***************************************************************************)
Turns ==
    CASE pc = "asking" -> MaxAttempts - Len(answers) + 3
      [] pc = "landing" -> 2
      [] OTHER -> 1
Rank == <<Total - offset, Turns>>
Lower == LexPairOrdering(OpToRel(<, Nat), OpToRel(<, Nat), Nat, Nat)

Descends ==
    pc # "down" /\ pc' # "down" /\ <<pc, fetching>>' # <<pc, fetching>> =>
        <<Rank', Rank>> \in Lower

LEMMA LowerPair ==
  ASSUME NEW a \in Nat, NEW b \in Nat, NEW x \in Nat, NEW y \in Nat, a < x \/ (a = x /\ b < y)
  PROVE  <<<<a, b>>, <<x, y>>>> \in Lower
  BY DEF Lower, LexPairOrdering, OpToRel

\* No run goes down forever.
LEMMA LowerIsWellFounded == IsWellFoundedOn(Lower, Nat \X Nat)
  BY NatLessThanWellFounded, WFLexPairOrdering DEF Lower

LEMMA RankTypes ==
  ASSUME IInv
  PROVE  Total - offset \in Nat /\ (pc = "asking" => Turns > 3) /\ Turns \in Nat
  <1>1. Total \in Nat /\ offset \in 0 .. Total - 1 /\ MaxAttempts \in Nat /\ Len(answers) \in Nat
    BY FetchAssumption DEF IInv, TypeOK, Rows
  <1>2. pc = "asking" => Len(answers) < MaxAttempts
    BY DEF IInv, RunInv
  <1> QED  BY <1>1, <1>2 DEF Turns

(***************************************************************************)
(* A run over one scope ends: each of its steps lowers its rank, because a *)
(* page is requested at most MaxAttempts times (fetch_page's range) and a  *)
(* page that lands moves the offset on (extract_and_land), whatever the    *)
(* server answers and however small it clamps the pages - as long as it    *)
(* reports a limit above 0.  With 0, which pipeline.py:95 does not refuse, *)
(* the run asks for the same page for ever.                                *)
(***************************************************************************)
THEOREM RunDescends == Cap > 0 => (Spec => [][Descends]_vars)
  <1> SUFFICES ASSUME Cap > 0 PROVE Spec => [][Descends]_vars
    OBVIOUS
  <1>1. IInv /\ [Next]_vars => [Descends]_vars
    <2> SUFFICES ASSUME IInv, [Next]_vars, pc # "down", pc' # "down",
                        <<pc, fetching>>' # <<pc, fetching>>
                 PROVE  <<Rank', Rank>> \in Lower
      BY DEF Descends
    <2>0. IInv'
      BY InvStep
    <2>1. /\ Total - offset \in Nat /\ Turns \in Nat /\ (pc = "asking" => Turns > 3)
          /\ Len(answers) \in Nat /\ MaxAttempts \in Nat
      BY RankTypes, FetchAssumption DEF IInv, TypeOK
    <2>2. ASSUME UNCHANGED offset, Turns' \in Nat, Turns' < Turns
          PROVE  <<Rank', Rank>> \in Lower
      BY <2>1, <2>2, LowerPair DEF Rank
    <2>3. ASSUME NEW answer, NEW told, Again(answer, told) PROVE <<Rank', Rank>> \in Lower
      <3>1. CASE LastAttempt
        BY <2>1, <2>2, <2>3, <3>1 DEF Again, Turns
      <3>2. CASE ~LastAttempt
        <4>1. Len(answers') = Len(answers) + 1 /\ pc = "asking" /\ pc' = "asking" /\ offset' = offset
          BY <2>3, <3>2 DEF Again, IInv, TypeOK
        <4>2. Turns' = Turns - 1
          BY <2>1, <4>1 DEF Turns
        <4> QED  BY <2>1, <2>2, <4>1, <4>2
      <3> QED  BY <3>1, <3>2
    <2>4. CASE TransientUntil \/ Refused
      <3>1. pc = "asking" /\ pc' = "failing" /\ UNCHANGED offset
        BY <2>4 DEF TransientUntil, Refused, End
      <3> QED  BY <2>1, <2>2, <3>1 DEF Turns
    <2>5. ASSUME NEW kind, Answer(kind) PROVE <<Rank', Rank>> \in Lower
      BY <2>1, <2>2, <2>5 DEF Answer, Turns
    <2>6. CASE Put
      BY <2>1, <2>2, <2>6 DEF Put, Turns, fetching
    <2>7. CASE Checkpoint
      <3>1. ~(NextOffset >= page.total \/ page.total = 0) /\ offset' = NextOffset /\ pc' = "asking"
            /\ answers' = <<>>
        BY <2>7 DEF Checkpoint, End, Turn
      <3>2. page.total = Total /\ page.limit = Cap
        BY <2>7, <3>1 DEF Checkpoint, IInv, RunInv
      <3>3. offset \in Nat /\ Total \in Nat /\ Cap \in Nat \ {0}
        BY FetchAssumption DEF IInv, TypeOK, Rows
      <3>4. Total - offset' \in Nat /\ Total - offset' < Total - offset
        BY <3>1, <3>2, <3>3 DEF NextOffset
      <3>5. Turns' \in Nat
        <4>1. Len(answers') = 0
          BY <3>1
        <4> QED  BY <2>1, <3>1, <4>1 DEF Turns
      <3> QED  BY <2>1, <3>4, <3>5, LowerPair DEF Rank
    <2>8. CASE Handle \/ Mute \/ NotAnObject \/ Drop \/ (\E resume \in BOOLEAN : Start(resume))
      BY <2>8 DEF Handle, Mute, NotAnObject, Drop, Start, End
    <2>9. CASE UNCHANGED vars
      BY <2>9 DEF vars, fetching
    <2> QED
      BY <2>3, <2>4, <2>5, <2>6, <2>7, <2>8, <2>9
         DEF Next, Proceed, Respond, Transient, AnswerPage
  <1> QED  BY <1>1, Invariant, PTL DEF Spec
=============================================================================
