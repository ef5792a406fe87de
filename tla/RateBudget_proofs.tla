-------------------------- MODULE RateBudget_proofs --------------------------
(***************************************************************************)
(* What is proved of RateBudget, for any number of processes, any          *)
(* allowance and any window.  Four results hold whatever overlaps and      *)
(* whatever drops: types, that no request is sent without its own row,     *)
(* that prune never deletes a row a window counts, and the burst limit of  *)
(* each process.  The fifth, the budget itself, holds until a process runs *)
(* beside another or a statement is repeated: the run budget_concurrent    *)
(* shows it needs the first, and a statement that commits twice needs the  *)
(* second.                                                                 *)
(***************************************************************************)
EXTENDS RateBudget, FiniteSetTheorems, TLAPS

USE DEF None

(***************************************************************************)
(* A backoff that starts at a time ends at a time, and not before it.      *)
(***************************************************************************)
LEMMA BackoffIsTime ==
  ASSUME NEW start \in Nat, NEW base \in Nat, NEW tries \in Nat
  PROVE  start + base * tries \in Nat /\ start <= start + base * tries
<1>1. base * tries \in Nat
  OBVIOUS
<1> QED BY <1>1

(***************************************************************************)
(* The indices of a sequence that has grown by one.                        *)
(***************************************************************************)
LEMMA OneMoreIndex ==
  ASSUME NEW n \in Nat, NEW i \in 1..n + 1
  PROVE  i \in 1..n \/ i = n + 1
OBVIOUS

(***************************************************************************)
(* What a step does to the history: it is set by a process that starts     *)
(* beside another and by a dropped statement, and never reset.             *)
(***************************************************************************)
LEMMA StrainedSteps ==
  ASSUME strained \in BOOLEAN, [Next]_vars
  PROVE  /\ strained' \in BOOLEAN
         /\ ~strained' =>
               /\ ~strained
               /\ \A p \in Procs : ~RetryStatement(p) /\ ~GiveUp(p) /\ (Start(p) => Alone)
<1>1. ASSUME NEW p \in Procs, Start(p)
      PROVE  strained' = (strained \/ ~Alone)
  BY <1>1, Zenon DEF Start
<1>2. ASSUME NEW p \in Procs, RetryStatement(p) \/ GiveUp(p)
      PROVE  strained' = TRUE
  BY <1>2, Zenon DEF RetryStatement, GiveUp
<1>3. ASSUME NEW p \in Procs,
             Prune(p) \/ Acquire(p) \/ ReadUsage(p) \/ Record(p) \/ Send(p) \/ Stop(p)
      PROVE  strained' = strained
  BY <1>3, Zenon DEF Prune, Acquire, ReadUsage, Record, Send, Stop
<1>4. Tick \/ UNCHANGED vars => strained' = strained
  BY Zenon DEF Tick, vars
<1>5. strained' \in BOOLEAN /\ (~strained' => ~strained)
  <2>1. ASSUME NEW p \in Procs, Step(p)
        PROVE  strained' \in BOOLEAN /\ (~strained' => ~strained)
    <3>1. CASE Start(p)
      BY <3>1, <1>1, Zenon
    <3>2. CASE RetryStatement(p) \/ GiveUp(p)
      BY <3>2, <1>2, Zenon
    <3>3. CASE Prune(p) \/ Acquire(p) \/ ReadUsage(p) \/ Record(p) \/ Send(p) \/ Stop(p)
      BY <3>3, <1>3, Zenon
    <3>4. QED BY <2>1, <3>1, <3>2, <3>3, Zenon DEF Step
  <2>2. QED BY <1>4, <2>1, Zenon DEF Next
<1>6. QED BY <1>1, <1>2, <1>5, Zenon

(***************************************************************************)
(* Type correctness: every variable keeps its type in every step of        *)
(* acquire, of the budget's statements and of their retries.               *)
(***************************************************************************)
THEOREM TypeCorrect == Spec => []TypeOK
<1> USE AllowanceAssumption, ClockAssumption, AttemptAssumption
<1>1. Init => TypeOK
  <2>1. Init => strained \in BOOLEAN
    BY DEF Init
  <2>2. Init => attempt \in [Procs -> 1..MaxAttempts]
    BY DEF Init
  <2>3. QED BY <2>1, <2>2 DEF Init, TypeOK, States, Statements
<1>2. TypeOK /\ [Next]_vars => TypeOK'
  <2> SUFFICES ASSUME TypeOK, [Next]_vars PROVE TypeOK'
    OBVIOUS
  <2>0. strained' \in BOOLEAN
    BY StrainedSteps, Zenon DEF TypeOK
  <2> USE DEF TypeOK, States, Statements, table
  <2>1. PruneEffect => /\ log' \in Seq(Nat)
                       /\ live' \subseteq DOMAIN log'
    BY DEF PruneEffect
  <2>2. RecordEffect => /\ log' \in Seq(Nat)
                        /\ live' \subseteq DOMAIN log'
    BY DEF RecordEffect
  <2>3. ASSUME NEW p \in Procs, Forget(p)
        PROVE /\ pc' \in [Procs -> States] /\ wake' \in [Procs -> Nat]
              /\ last' \in [Procs -> Nat \cup {None}] /\ row' \in [Procs -> Nat]
              /\ attempt' \in [Procs -> 1..MaxAttempts]
    BY <2>3 DEF Forget
  <2>4. ASSUME NEW p \in Procs, Start(p) PROVE TypeOK'
    BY <2>0, <2>4 DEF Start
  <2>5. ASSUME NEW p \in Procs, Prune(p) PROVE TypeOK'
    BY <2>0, <2>1, <2>5 DEF Prune
  <2>6. ASSUME NEW p \in Procs, Acquire(p) PROVE TypeOK'
    <3>1. BurstEnd(p) \in Nat
      BY DEF BurstEnd
    <3>2. QED BY <2>0, <3>1, <2>6 DEF Acquire
  <2>7. ASSUME NEW p \in Procs, ReadUsage(p) PROVE TypeOK'
    <3>1. wake' \in [Procs -> Nat]
      <4>1. CASE wake' = [wake EXCEPT ![p] = now]
        BY <4>1
      <4>2. ASSUME NEW i \in live, wake' = [wake EXCEPT ![p] = log[i] + Window + Margin]
            PROVE wake' \in [Procs -> Nat]
        <5>1. log[i] + Window + Margin \in Nat
          OBVIOUS
        <5>2. QED BY <4>2, <5>1
      <4>3. QED BY <2>7, <4>1, <4>2 DEF ReadUsage
    <3>2. /\ pc' = [pc EXCEPT ![p] = "record"]
          /\ attempt' = [attempt EXCEPT ![p] = 1]
          /\ UNCHANGED <<now, table, sent, slot, row, last>>
      BY <2>7 DEF ReadUsage
    <3>3. QED BY <2>0, <3>1, <3>2
  <2>8. ASSUME NEW p \in Procs, Record(p) PROVE TypeOK'
    BY <2>0, <2>2, <2>8 DEF Record
  <2>9. ASSUME NEW p \in Procs, Send(p) PROVE TypeOK'
    BY <2>0, <2>9 DEF Send
  <2>10. ASSUME NEW p \in Procs, DroppedEffect(p)
         PROVE log' \in Seq(Nat) /\ live' \subseteq DOMAIN log'
    BY <2>1, <2>2, <2>10 DEF DroppedEffect
  <2>11. ASSUME NEW p \in Procs, RetryStatement(p) PROVE TypeOK'
    <3>1. attempt[p] \in Nat
      OBVIOUS
    <3>2. now + RetryBackoff * attempt[p] \in Nat
      BY <3>1, BackoffIsTime
    <3>3. attempt' \in [Procs -> 1..MaxAttempts]
      BY <2>11 DEF RetryStatement, AttemptsLeft
    <3>4. wake' \in [Procs -> Nat]
      BY <3>2, <2>11 DEF RetryStatement
    <3>5. DroppedEffect(p) /\ UNCHANGED <<now, sent, slot, row, pc, last>>
      BY <2>11 DEF RetryStatement
    <3>6. QED BY <2>0, <3>3, <3>4, <3>5, <2>10
  <2>12. ASSUME NEW p \in Procs, GiveUp(p) PROVE TypeOK'
    BY <2>0, <2>3, <2>10, <2>12 DEF GiveUp
  <2>13. ASSUME NEW p \in Procs, Stop(p) PROVE TypeOK'
    BY <2>0, <2>3, <2>13 DEF Stop
  <2>14. CASE Tick
    BY <2>0, <2>14 DEF Tick
  <2>15. CASE UNCHANGED vars
    BY <2>0, <2>15 DEF vars
  <2>16. QED
    BY <2>4, <2>5, <2>6, <2>7, <2>8, <2>9, <2>11, <2>12, <2>13, <2>14, <2>15
       DEF Next, Step
<1>3. QED
  BY <1>1, <1>2, PTL DEF Spec

-----------------------------------------------------------------------------
(***************************************************************************)
(* Whatever a step does, it does one of three things to the table, and the *)
(* clock moves only when the table does not.                               *)
(***************************************************************************)
LEMMA TableSteps ==
  ASSUME [Next]_vars
  PROVE  \/ PruneEffect /\ now' = now
         \/ RecordEffect /\ now' = now
         \/ log' = log /\ live' = live /\ now' = now
         \/ log' = log /\ live' = live /\ Tick
<1> USE DEF table
<1>1. ASSUME NEW p \in Procs, Step(p)
      PROVE  now' = now /\ (PruneEffect \/ RecordEffect \/ UNCHANGED table)
  BY <1>1 DEF Step, Start, Prune, Acquire, ReadUsage, Record, Send,
              RetryStatement, GiveUp, Stop, DroppedEffect
<1>2. CASE Tick
  BY <1>2 DEF Tick
<1>3. CASE UNCHANGED vars
  BY <1>3 DEF vars
<1>4. QED
  BY <1>1, <1>2, <1>3 DEF Next

(***************************************************************************)
(* Rows stay in time order and only old ones are deleted.                  *)
(***************************************************************************)
LEMMA LogInvariant == Spec => []LogInv
<1> USE ClockAssumption
<1>1. Init => LogInv
  BY DEF Init, LogInv
<1>2. TypeOK /\ LogInv /\ [Next]_vars => LogInv'
  <2> SUFFICES ASSUME TypeOK, LogInv, [Next]_vars PROVE LogInv'
    OBVIOUS
  <2> USE DEF TypeOK, LogInv
  <2>1. CASE PruneEffect /\ now' = now
    BY <2>1 DEF PruneEffect
  <2>2. CASE RecordEffect /\ now' = now
    BY <2>2 DEF RecordEffect
  <2>3. CASE log' = log /\ live' = live /\ now' = now
    BY <2>3
  <2>4. CASE log' = log /\ live' = live /\ Tick
    BY <2>4 DEF Tick
  <2>5. QED
    BY <2>1, <2>2, <2>3, <2>4, TableSteps
<1>3. QED
  BY <1>1, <1>2, TypeCorrect, PTL DEF Spec

(***************************************************************************)
(* prune never deletes a row that a window still counts, whatever other    *)
(* processes are doing when it runs.                                       *)
(***************************************************************************)
THEOREM PruneIsSafe == Spec => []PruneKeepsWindow
<1>1. TypeOK /\ LogInv => PruneKeepsWindow
  BY ClockAssumption DEF TypeOK, LogInv, PruneKeepsWindow
<1>2. QED
  BY <1>1, LogInvariant, TypeCorrect, PTL

-----------------------------------------------------------------------------
(***************************************************************************)
(* No request leaves without a row of its own, whatever overlaps, drops or *)
(* is retried.                                                             *)
(***************************************************************************)
LEMMA RecordInvariant == Spec => []RecordInv
<1> USE ClockAssumption
<1>1. Init => RecordInv
  BY DEF Init, RecordInv, EveryCallRecorded
<1>2. TypeOK /\ LogInv /\ RecordInv /\ [Next]_vars => RecordInv'
  <2> SUFFICES ASSUME TypeOK, LogInv, RecordInv, [Next]_vars PROVE RecordInv'
    OBVIOUS
  <2> USE DEF TypeOK, RecordInv
  <2>1. \/ log' = log
        \/ log' = Append(log, now)
    BY TableSteps DEF PruneEffect, RecordEffect
  <2>2. /\ DOMAIN log \subseteq DOMAIN log'
        /\ \A i \in DOMAIN log : log'[i] = log[i]
    <3>1. CASE log' = log
      BY <3>1
    <3>2. CASE log' = Append(log, now)
      BY <3>2
    <3>3. QED BY <2>1, <3>1, <3>2
  <2>3. ASSUME UNCHANGED <<sent, slot>>
        PROVE  /\ Len(slot') = Len(sent')
               /\ \A i \in DOMAIN slot' : slot'[i] \in DOMAIN log'
               /\ EveryCallRecorded'
    BY <2>2, <2>3 DEF EveryCallRecorded
  \* A process that keeps its row, its wake time and the clock stays Pending
  \* as long as no other process enters "send".
  <2>4. ASSUME UNCHANGED <<now, sent, slot>>, NEW q \in Procs,
               pc[q] = "send", pc'[q] = "send", row'[q] = row[q], wake'[q] = wake[q],
               \A r \in Procs \ {q} : pc'[r] = "send" => pc[r] = "send" /\ row'[r] = row[r]
        PROVE  Pending(q)'
    BY SMTT(20), <2>2, <2>4 DEF Pending
  <2>5. ASSUME UNCHANGED <<now, sent, slot>>, NEW p \in Procs,
               pc'[p] # "send",
               \A r \in Procs \ {p} : pc'[r] = pc[r] /\ row'[r] = row[r] /\ wake'[r] = wake[r]
        PROVE  RecordInv'
    <3>1. ASSUME NEW q \in Procs, pc'[q] = "send" PROVE Pending(q)'
      <4>1. q # p /\ pc[q] = "send" /\ row'[q] = row[q] /\ wake'[q] = wake[q]
        BY <2>5, <3>1
      <4>2. \A r \in Procs \ {q} : pc'[r] = "send" => pc[r] = "send" /\ row'[r] = row[r]
        BY <2>5
      <4>3. QED BY <2>4, <2>5, <3>1, <4>1, <4>2
    <3>2. QED BY <2>3, <2>5, <3>1
  <2>6. ASSUME NEW p \in Procs,
               Start(p) \/ Prune(p) \/ Acquire(p) \/ RetryStatement(p) \/ GiveUp(p) \/ Stop(p)
        PROVE RecordInv'
    <3>1. pc'[p] # "send"
      BY <2>6 DEF Start, Prune, Acquire, RetryStatement, GiveUp, Stop, Forget, Statements
    <3>2. UNCHANGED <<now, sent, slot>>
      BY <2>6 DEF Start, Prune, Acquire, RetryStatement, GiveUp, Stop
    <3>3. \A r \in Procs \ {p} : pc'[r] = pc[r] /\ row'[r] = row[r] /\ wake'[r] = wake[r]
      BY <2>6 DEF Start, Prune, Acquire, RetryStatement, GiveUp, Stop, Forget
    <3>4. QED BY <2>5, <3>1, <3>2, <3>3
  <2>7. ASSUME NEW p \in Procs, ReadUsage(p) PROVE RecordInv'
    <3>1. pc'[p] = "record" /\ UNCHANGED <<now, sent, slot>>
      BY <2>7 DEF ReadUsage
    <3>2. \A r \in Procs \ {p} : pc'[r] = pc[r] /\ row'[r] = row[r] /\ wake'[r] = wake[r]
      BY <2>7 DEF ReadUsage
    <3>3. QED BY <2>5, <3>1, <3>2
  <2>8. ASSUME NEW p \in Procs, Record(p) PROVE RecordInv'
    <3>1. log' = Append(log, now) /\ UNCHANGED <<now, sent, slot>>
      BY <2>8 DEF Record, RecordEffect
    <3>2. /\ pc'[p] = "send" /\ wake'[p] = now /\ row'[p] = Len(log) + 1
          /\ \A r \in Procs \ {p} : pc'[r] = pc[r] /\ row'[r] = row[r] /\ wake'[r] = wake[r]
      BY <2>8 DEF Record
    <3>3. Pending(p)'
      BY SMTT(20), <3>1, <3>2 DEF Pending
    <3>4. ASSUME NEW q \in Procs \ {p}, pc'[q] = "send" PROVE Pending(q)'
      <4>1. Pending(q) /\ row'[q] = row[q] /\ wake'[q] = wake[q] /\ now' = now /\ slot' = slot
        BY <3>1, <3>2, <3>4
      <4>2. row[q] \in DOMAIN log' /\ log'[row[q]] = wake[q] /\ row'[p] # row[q]
        BY <2>2, <3>2, <4>1 DEF Pending
      <4>3. \A r \in Procs : (pc'[r] = "send" /\ r # q) => row'[r] # row'[q]
        BY <3>2, <4>1, <4>2 DEF Pending
      <4>4. QED BY <4>1, <4>2, <4>3 DEF Pending
    <3>5. QED BY <2>3, <3>1, <3>3, <3>4
  <2>9. ASSUME NEW p \in Procs, Send(p) PROVE RecordInv'
    <3>1. /\ sent' = Append(sent, now) /\ slot' = Append(slot, row[p])
          /\ log' = log /\ now' = now /\ row' = row /\ wake' = wake
          /\ Pending(p) /\ pc' = [pc EXCEPT ![p] = "ready"]
      BY <2>9 DEF Send, table
    <3> DEFINE n == Len(slot)
    <3>0. n \in Nat /\ DOMAIN slot = 1..n /\ DOMAIN sent = 1..n
      OBVIOUS
    <3>2. /\ Len(sent') = n + 1 /\ sent'[n + 1] = now
          /\ Len(slot') = n + 1 /\ slot'[n + 1] = row[p]
          /\ DOMAIN slot' = 1..n + 1 /\ DOMAIN sent' = 1..n + 1
          /\ \A i \in 1..n : slot'[i] = slot[i] /\ sent'[i] = sent[i]
      BY <3>1
    <3>ends. \A i \in DOMAIN slot' : i \in 1..n \/ i = n + 1
      BY ONLY <3>0, <3>2, OneMoreIndex
    <3>3. row[p] \in DOMAIN log /\ log[row[p]] \in now - Latency .. now
      BY <3>1 DEF Pending
    <3>4. \A i \in 1..n : /\ slot[i] \in DOMAIN log /\ slot[i] # row[p]
                          /\ log[slot[i]] \in sent[i] - Latency .. sent[i]
      BY <3>0, <3>1 DEF Pending, EveryCallRecorded
    <3>5. \A i \in DOMAIN slot' : /\ slot'[i] \in DOMAIN log'
                                  /\ log'[slot'[i]] \in sent'[i] - Latency .. sent'[i]
      <4> TAKE i \in DOMAIN slot'
      <4>1. CASE i = n + 1
        BY <3>1, <3>2, <3>3, <4>1
      <4>2. CASE i \in 1..n
        BY <3>1, <3>2, <3>4, <4>2
      <4>3. QED BY <3>2, <4>1, <4>2
    <3>6. \A i, j \in DOMAIN slot' : slot'[i] = slot'[j] => i = j
      <4>1. \A i, j \in 1..n : slot[i] = slot[j] => i = j
        BY <3>0 DEF EveryCallRecorded
      <4>2. \A i \in 1..n : slot'[i] = slot[i] /\ slot'[i] # slot'[n + 1]
        BY <3>2, <3>4
      <4>3. QED BY <3>ends, <4>1, <4>2
    <3>7. ASSUME NEW q \in Procs, pc'[q] = "send" PROVE Pending(q)'
      <4>1. q # p /\ pc[q] = "send"
        BY <3>1, <3>7
      <4>2. Pending(q) /\ row[p] # row[q]
        BY <4>1, <3>1 DEF Pending
      <4>3. \A i \in DOMAIN slot' : slot'[i] # row[q]
        <5>1. \A i \in 1..n : slot[i] # row[q]
          BY <3>0, <4>2 DEF Pending
        <5>2. QED BY <3>2, <3>ends, <4>2, <5>1
      <4>4. \A r \in Procs : (pc'[r] = "send" /\ r # q) => row[r] # row[q]
        BY <3>1, <4>2 DEF Pending
      <4>5. QED BY <3>1, <4>2, <4>3, <4>4 DEF Pending
    <3>8. QED BY <3>2, <3>5, <3>6, <3>7 DEF EveryCallRecorded
  <2>10. CASE Tick
    <3>1. UNCHANGED <<sent, slot, row, pc, wake, log>> /\ now' = now + 1
      BY <2>10 DEF Tick, table
    <3>2. ASSUME NEW q \in Procs, pc[q] = "send" PROVE Pending(q)'
      BY <2>10, <3>1, <3>2 DEF Tick, Pending
    <3>3. QED BY <2>3, <3>1, <3>2
  <2>11. CASE UNCHANGED vars
    BY <2>11 DEF vars, Pending, EveryCallRecorded
  <2>12. QED
    BY <2>6, <2>7, <2>8, <2>9, <2>10, <2>11 DEF Next, Step
<1>3. QED
  BY <1>1, <1>2, LogInvariant, TypeCorrect, PTL DEF Spec

(***************************************************************************)
(* No request leaves without a row of its own in the log, under any        *)
(* interleaving of processes, crashes and dropped connections.             *)
(***************************************************************************)
THEOREM NoBlindCall == Spec => []EveryCallRecorded
BY RecordInvariant, PTL DEF RecordInv

-----------------------------------------------------------------------------
(***************************************************************************)
(* Neither the sleep for the oldest call nor a retry of a statement wakes  *)
(* a process before the burst interval it was sleeping out has passed.     *)
(***************************************************************************)
LEMMA BurstInvariant == Spec => []BurstInv
<1> USE ClockAssumption
<1>1. Init => BurstInv
  BY DEF Init, BurstInv
<1>2. TypeOK /\ BurstInv /\ [Next]_vars => BurstInv'
  <2> SUFFICES ASSUME TypeOK, BurstInv, [Next]_vars PROVE BurstInv'
    OBVIOUS
  <2> USE DEF TypeOK
  \* Only the process that takes the step, and only its sleep, is in question.
  <2>1. ASSUME now' = now, NEW p \in Procs,
               \A q \in Procs \ {p} : pc'[q] = pc[q] /\ last'[q] = last[q] /\ wake'[q] = wake[q],
               last'[p] # None => /\ last'[p] <= now
                                  /\ pc'[p] \in {"usage", "record"} =>
                                        last'[p] + MinInterval <= wake'[p]
        PROVE  BurstInv'
    BY <2>1 DEF BurstInv
  <2>2. ASSUME NEW p \in Procs, Start(p) \/ Prune(p) \/ Send(p) PROVE BurstInv'
    <3>1. /\ now' = now /\ last' = last /\ wake' = wake
          /\ pc'[p] \notin {"usage", "record"}
          /\ \A q \in Procs \ {p} : pc'[q] = pc[q]
      BY <2>2 DEF Start, Prune, Send
    <3>2. QED BY <2>1, <3>1 DEF BurstInv
  <2>3. ASSUME NEW p \in Procs, GiveUp(p) \/ Stop(p) PROVE BurstInv'
    <3>1. now' = now /\ last'[p] = None
      BY <2>3 DEF GiveUp, Stop, Forget
    <3>2. \A q \in Procs \ {p} : pc'[q] = pc[q] /\ last'[q] = last[q] /\ wake'[q] = wake[q]
      BY <2>3 DEF GiveUp, Stop, Forget
    <3>3. QED BY <2>1, <3>1, <3>2
  <2>4. ASSUME NEW p \in Procs, Acquire(p) PROVE BurstInv'
    <3>1. /\ now' = now /\ last' = last /\ wake'[p] = BurstEnd(p)
          /\ \A q \in Procs \ {p} : pc'[q] = pc[q] /\ wake'[q] = wake[q]
      BY <2>4 DEF Acquire
    <3>2. last[p] # None => last[p] <= now /\ last[p] + MinInterval <= BurstEnd(p)
      BY DEF BurstInv, BurstEnd
    <3>3. QED BY <2>1, <3>1, <3>2
  <2>5. ASSUME NEW p \in Procs, ReadUsage(p) PROVE BurstInv'
    <3>1. /\ now' = now /\ last' = last /\ pc[p] = "usage" /\ wake[p] <= now
          /\ \A q \in Procs \ {p} : pc'[q] = pc[q] /\ wake'[q] = wake[q]
      BY <2>5 DEF ReadUsage, Awake
    <3>2. now <= wake'[p] /\ wake'[p] \in Nat
      <4>1. CASE wake' = [wake EXCEPT ![p] = now]
        BY <4>1
      <4>2. ASSUME NEW i \in live, IsOldest(i),
                   wake' = [wake EXCEPT ![p] = log[i] + Window + Margin]
            PROVE  now <= wake'[p] /\ wake'[p] \in Nat
        BY <4>2 DEF IsOldest, InWindow
      <4>3. QED BY ONLY <2>5, <4>1, <4>2 DEF ReadUsage
    <3>3. last[p] # None => last[p] <= now /\ last[p] + MinInterval <= wake[p]
      BY <3>1 DEF BurstInv
    <3>4. last[p] # None => last[p] + MinInterval <= wake'[p]
      BY <3>1, <3>2, <3>3
    <3>5. QED BY <2>1, <3>1, <3>3, <3>4
  <2>6. ASSUME NEW p \in Procs, Record(p) PROVE BurstInv'
    <3>1. /\ now' = now /\ last'[p] = now /\ pc'[p] = "send"
          /\ \A q \in Procs \ {p} : pc'[q] = pc[q] /\ last'[q] = last[q] /\ wake'[q] = wake[q]
      BY <2>6 DEF Record
    <3>2. last'[p] <= now /\ pc'[p] \notin {"usage", "record"}
      BY <3>1
    <3>3. QED BY <2>1, <3>1, <3>2
  <2>7. ASSUME NEW p \in Procs, RetryStatement(p) PROVE BurstInv'
    <3>1. /\ now' = now /\ last' = last /\ pc' = pc /\ wake[p] <= now
          /\ wake'[p] = now + RetryBackoff * attempt[p]
          /\ \A q \in Procs \ {p} : wake'[q] = wake[q]
      BY <2>7 DEF RetryStatement, Awake
    <3>2. now <= now + RetryBackoff * attempt[p] /\ now + RetryBackoff * attempt[p] \in Nat
      <4>1. attempt[p] \in Nat /\ RetryBackoff \in Nat /\ now \in Nat
        OBVIOUS
      <4>2. QED BY <4>1, BackoffIsTime
    <3>3. wake[p] <= wake'[p] /\ wake[p] \in Nat /\ wake'[p] \in Nat
      BY <3>1, <3>2
    <3>4. ASSUME last[p] # None
          PROVE  /\ last[p] <= now
                 /\ pc[p] \in {"usage", "record"} => last[p] + MinInterval <= wake'[p]
      <4>1. /\ last[p] <= now
            /\ pc[p] \in {"usage", "record"} => last[p] + MinInterval <= wake[p]
        BY <3>4 DEF BurstInv
      <4>2. last[p] \in Nat /\ last[p] + MinInterval \in Nat
        BY <3>4
      <4>3. QED BY <3>3, <4>1, <4>2
    <3>5. QED BY <2>1, <3>1, <3>4
  <2>8. CASE Tick
    BY <2>8 DEF Tick, BurstInv
  <2>9. CASE UNCHANGED vars
    BY <2>9 DEF vars, BurstInv
  <2>10. QED
    BY <2>2, <2>3, <2>4, <2>5, <2>6, <2>7, <2>8, <2>9 DEF Next, Step
<1>3. QED
  BY <1>1, <1>2, TypeCorrect, PTL DEF Spec

(***************************************************************************)
(* The burst limit, per process: only the insert of a row gives a process  *)
(* a later one, and it comes after the sleep.                              *)
(***************************************************************************)
THEOREM BurstHolds == Spec => BurstSpacing
<1> DEFINE Spaced == \A p \in Procs :
                        (row'[p] > row[p] /\ last[p] # None) => log'[row'[p]] - last[p] >= MinInterval
<1>1. TypeOK /\ BurstInv /\ [Next]_vars => [Spaced]_vars
  <2> SUFFICES ASSUME TypeOK, BurstInv, [Next]_vars,
                      NEW p \in Procs, row'[p] > row[p], last[p] # None
               PROVE  log'[row'[p]] - last[p] >= MinInterval
    OBVIOUS
  <2>1. Record(p)
    <3>1. ASSUME NEW q \in Procs, Step(q), ~Record(q)
          PROVE  row'[p] = row[p] \/ row'[p] = 0
      BY <3>1 DEF Step, Start, Prune, Acquire, ReadUsage, Send, RetryStatement, GiveUp,
                  Stop, Forget, TypeOK
    <3>2. ASSUME NEW q \in Procs, Record(q), q # p
          PROVE  row'[p] = row[p]
      BY <3>2 DEF Record, TypeOK
    <3>3. Tick \/ UNCHANGED vars => row' = row
      BY DEF Tick, vars
    <3>4. row[p] \in Nat
      BY DEF TypeOK
    <3>5. QED BY <3>1, <3>2, <3>3, <3>4 DEF Next
  <2>2. /\ row'[p] = Len(log) + 1 /\ log' = Append(log, now)
        /\ pc[p] = "record" /\ wake[p] <= now
    BY <2>1 DEF Record, RecordEffect, Awake, TypeOK
  <2>3. log'[row'[p]] = now
    BY <2>2 DEF TypeOK
  <2>4. last[p] + MinInterval <= wake[p] /\ last[p] \in Nat /\ wake[p] \in Nat /\ now \in Nat
    BY <2>2 DEF BurstInv, TypeOK
  <2>5. QED BY <2>2, <2>3, <2>4, ClockAssumption
<1>2. QED
  BY <1>1, BurstInvariant, TypeCorrect, PTL DEF Spec, BurstSpacing

-----------------------------------------------------------------------------
(***************************************************************************)
(* What the types say of the sequences: their domains, and that their      *)
(* elements are numbers.                                                   *)
(***************************************************************************)
LEMMA SequenceFacts ==
  ASSUME TypeOK
  PROVE  /\ now \in Nat
         /\ Len(log) \in Nat /\ DOMAIN log = 1..Len(log) /\ \A i \in DOMAIN log : log[i] \in Nat
         /\ Len(slot) \in Nat /\ DOMAIN slot = 1..Len(slot) /\ \A i \in DOMAIN slot : slot[i] \in Nat
         /\ Len(sent) \in Nat /\ DOMAIN sent = 1..Len(sent) /\ \A i \in DOMAIN sent : sent[i] \in Nat
BY DEF TypeOK

(***************************************************************************)
(* When fewer than MaxInWindow rows are in the window, the row             *)
(* MaxInWindow places from the end has left it: otherwise the rows after   *)
(* it, all at least as recent and none of them pruned, would fill it.      *)
(***************************************************************************)
LEMMA RoomInWindow ==
  ASSUME TypeOK, LogInv, Used < MaxInWindow, Len(log) >= MaxInWindow
  PROVE  log[Len(log) + 1 - MaxInWindow] + Window <= now
<1> USE AllowanceAssumption, ClockAssumption DEF TypeOK
<1> DEFINE k == Len(log) + 1 - MaxInWindow
<1>1. k \in 1..Len(log) /\ DOMAIN log = 1..Len(log)
  OBVIOUS
<1>2. log[k] \in Nat
  BY <1>1
<1>3. SUFFICES ASSUME log[k] > now - Window PROVE FALSE
  BY <1>2
<1>4. k..Len(log) \subseteq InWindow
  <2> SUFFICES ASSUME NEW i \in k..Len(log) PROVE i \in InWindow
    OBVIOUS
  <2>1. i \in DOMAIN log /\ k <= i /\ log[i] \in Nat
    BY SMTT(20), <1>1, SequenceFacts
  <2>2. log[k] <= log[i]
    BY <1>1, <2>1 DEF LogInv
  <2>3. log[i] > now - Window
    BY <1>2, <1>3, <2>1, <2>2
  <2>4. i \in live
    BY <2>1, <2>3 DEF LogInv
  <2>5. QED BY <2>3, <2>4 DEF InWindow
<1>5. IsFiniteSet(InWindow)
  <2>1. IsFiniteSet(1..Len(log))
    BY FS_Interval
  <2>2. InWindow \subseteq 1..Len(log)
    BY <1>1 DEF InWindow
  <2>3. QED BY <2>1, <2>2, FS_Subset
<1>6. Cardinality(k..Len(log)) = MaxInWindow
  BY <1>1, FS_Interval
<1>7. Cardinality(k..Len(log)) <= Used
  BY <1>4, <1>5, FS_Subset DEF Used
<1>8. Used \in Nat
  BY <1>5, FS_CardinalityType DEF Used
<1>9. QED BY <1>6, <1>7, <1>8

(***************************************************************************)
(* While the log respects the budget, no row before that place is in the   *)
(* window, so the oldest row that is in it is at least as recent.          *)
(***************************************************************************)
LEMMA OldestIsRecent ==
  ASSUME TypeOK, LogInv, LogBudget, Len(log) >= MaxInWindow,
         NEW i \in live, i \in InWindow
  PROVE  log[Len(log) + 1 - MaxInWindow] <= log[i]
<1> USE AllowanceAssumption, ClockAssumption DEF TypeOK
<1> DEFINE k == Len(log) + 1 - MaxInWindow
<1>1. k \in DOMAIN log /\ i \in DOMAIN log /\ Len(log) \in DOMAIN log
  OBVIOUS
<1>2. CASE i >= k
  BY <1>1, <1>2 DEF LogInv
<1>3. CASE i < k
  <2>1. log[Len(log)] - log[i] >= Window
    BY <1>1, <1>3 DEF LogBudget
  <2>2. log[Len(log)] <= now /\ log[i] > now - Window
    BY <1>1 DEF LogInv, InWindow
  <2>3. log[Len(log)] \in Nat /\ log[i] \in Nat
    BY SMTT(20), <1>1
  <2>4. QED BY ONLY <2>1, <2>2, <2>3, ClockAssumption, SequenceFacts, TypeOK
<1>4. QED BY <1>1, <1>2, <1>3

(***************************************************************************)
(* As long as processes have run one at a time and no statement has been   *)
(* repeated, the log never exceeds the budget, and requests leave in the   *)
(* order of their rows.                                                    *)
(***************************************************************************)
CalmInv == ~strained => BudgetInv

LEMMA BudgetInvariant == Spec => []CalmInv
<1> USE AllowanceAssumption, ClockAssumption
<1>1. Init => CalmInv
  BY DEF Init, CalmInv, BudgetInv, Up, LogBudget
<1>2. TypeOK /\ LogInv /\ RecordInv /\ CalmInv /\ [Next]_vars => CalmInv'
  <2> SUFFICES ASSUME TypeOK, LogInv, RecordInv, CalmInv, [Next]_vars, ~strained'
               PROVE  BudgetInv'
    BY DEF CalmInv
  <2>0. /\ BudgetInv
        /\ \A p \in Procs : ~RetryStatement(p) /\ ~GiveUp(p) /\ (Start(p) => Alone)
    BY StrainedSteps, Zenon DEF CalmInv, TypeOK
  <2> USE DEF TypeOK
  \* Steps that leave the log and the requests alone.
  <2>1. ASSUME UNCHANGED <<log, slot>>,
               \A p, q \in Procs : Up(p)' /\ Up(q)' => p = q,
               \A p \in Procs : pc'[p] = "record" => Allowed(p)',
               \A p \in Procs : pc'[p] = "send" => row'[p] = Len(log)
        PROVE  BudgetInv'
    BY <2>0, <2>1 DEF BudgetInv, LogBudget
  <2>2. ASSUME UNCHANGED <<log, slot>>, NEW p \in Procs,
               pc'[p] \notin {"record", "send"}, Up(p) \/ \A q \in Procs : ~Up(q),
               \A r \in Procs \ {p} : pc'[r] = pc[r] /\ row'[r] = row[r] /\ wake'[r] = wake[r]
        PROVE  BudgetInv'
    BY <2>0, <2>1, <2>2 DEF BudgetInv, Up, Allowed
  <2>3. ASSUME NEW p \in Procs, Start(p) \/ Prune(p) \/ Acquire(p) \/ Stop(p)
        PROVE  BudgetInv'
    <3>1. UNCHANGED <<log, slot>>
      BY <2>3 DEF Start, Prune, Acquire, Stop, PruneEffect, table
    <3>2. pc'[p] \notin {"record", "send"}
      BY <2>3 DEF Start, Prune, Acquire, Stop, Forget
    <3>3. Up(p) \/ \A q \in Procs : ~Up(q)
      BY <2>0, <2>3 DEF Start, Prune, Acquire, Stop, Alone, Up
    <3>4. \A r \in Procs \ {p} : pc'[r] = pc[r] /\ row'[r] = row[r] /\ wake'[r] = wake[r]
      BY <2>3 DEF Start, Prune, Acquire, Stop, Forget
    <3>5. QED BY <2>2, <3>1, <3>2, <3>3, <3>4
  <2>4. ASSUME NEW p \in Procs, ReadUsage(p) PROVE BudgetInv'
    <3>1. /\ UNCHANGED <<log, slot, row>>
          /\ pc' = [pc EXCEPT ![p] = "record"]
          /\ \A r \in Procs \ {p} : wake'[r] = wake[r]
          /\ Up(p)
      BY <2>4 DEF ReadUsage, table, Up
    <3>2. ASSUME Len(log) >= MaxInWindow
          PROVE  log[Len(log) + 1 - MaxInWindow] + Window <= wake'[p]
      <4>1. CASE Used < MaxInWindow /\ wake' = [wake EXCEPT ![p] = now]
        BY <3>2, <4>1, RoomInWindow
      <4>2. ASSUME NEW i \in live, IsOldest(i),
                   wake' = [wake EXCEPT ![p] = log[i] + Window + Margin]
            PROVE  log[Len(log) + 1 - MaxInWindow] + Window <= wake'[p]
        <5>1. log[Len(log) + 1 - MaxInWindow] <= log[i]
          BY <2>0, <3>2, <4>2, OldestIsRecent DEF IsOldest, BudgetInv
        <5>2. log[Len(log) + 1 - MaxInWindow] \in Nat /\ log[i] \in Nat
          <6>1. Len(log) + 1 - MaxInWindow \in DOMAIN log /\ i \in DOMAIN log
            BY <3>2, SequenceFacts
          <6>2. QED BY <6>1, SequenceFacts
        <5>3. wake'[p] = log[i] + Window + Margin
          BY <4>2
        <5>4. QED BY ONLY <5>1, <5>2, <5>3, ClockAssumption
      <4>3. QED BY <2>4, <4>1, <4>2 DEF ReadUsage
    <3>3. \A q \in Procs : pc'[q] = "record" => Allowed(q)'
      BY <2>0, <3>1, <3>2 DEF Allowed, BudgetInv
    <3>4. \A q \in Procs : pc'[q] = "send" => row'[q] = Len(log)
      BY <2>0, <3>1 DEF BudgetInv
    <3>5. \A q, r \in Procs : Up(q)' /\ Up(r)' => q = r
      BY <2>0, <3>1 DEF BudgetInv, Up
    <3>6. QED BY <2>1, <3>1, <3>3, <3>4, <3>5
  <2>5. ASSUME NEW p \in Procs, Record(p) PROVE BudgetInv'
    <3>1. /\ log' = Append(log, now) /\ slot' = slot
          /\ pc' = [pc EXCEPT ![p] = "send"]
          /\ row' = [row EXCEPT ![p] = Len(log) + 1]
          /\ pc[p] = "record" /\ wake[p] <= now
      BY <2>5 DEF Record, RecordEffect, Awake
    <3>2. \A q \in Procs \ {p} : pc[q] = "down"
      BY <2>0, <3>1 DEF BudgetInv, Up
    <3>3. /\ Len(log') = Len(log) + 1 /\ log'[Len(log) + 1] = now
          /\ DOMAIN log' = 1..Len(log) + 1 /\ DOMAIN log = 1..Len(log)
          /\ \A i \in DOMAIN log : log'[i] = log[i]
      BY <3>1
    <3>4. LogBudget'
      <4> SUFFICES ASSUME NEW i \in DOMAIN log', NEW j \in DOMAIN log', j >= i + MaxInWindow
                   PROVE  log'[j] - log'[i] >= Window
        BY DEF LogBudget
      <4>1. CASE j <= Len(log)
        <5>1. i \in DOMAIN log /\ j \in DOMAIN log
          BY <3>3, <4>1
        <5>2. QED BY <2>0, <3>3, <5>1 DEF BudgetInv, LogBudget
      <4>2. CASE j = Len(log) + 1
        <5> DEFINE k == Len(log) + 1 - MaxInWindow
        <5>1. i \in DOMAIN log /\ k \in DOMAIN log /\ i <= k /\ Len(log) >= MaxInWindow
          BY SMTT(20), <3>3, <4>2
        <5>2. log[k] + Window <= wake[p]
          BY <2>0, <3>1, <5>1 DEF BudgetInv, Allowed
        <5>3. log[i] <= log[k] /\ log[i] \in Nat /\ log[k] \in Nat /\ wake[p] \in Nat
          BY SMTT(20), <5>1 DEF LogInv
        <5>4. QED BY SMTT(20), <3>1, <3>3, <4>2, <5>1, <5>2, <5>3
      <4>3. QED BY <3>3, <4>1, <4>2
    <3>5. \A q, r \in Procs : Up(q)' /\ Up(r)' => q = r
      BY <3>1, <3>2 DEF Up
    <3>6. /\ \A q \in Procs : pc'[q] # "record"
          /\ \A q \in Procs : pc'[q] = "send" => row'[q] = Len(log')
      BY <3>1, <3>2, <3>3
    <3>7. QED BY <2>0, <3>1, <3>4, <3>5, <3>6 DEF BudgetInv
  <2>6. ASSUME NEW p \in Procs, Send(p) PROVE BudgetInv'
    <3>1. /\ slot' = Append(slot, Len(log)) /\ log' = log /\ row' = row /\ wake' = wake
          /\ pc' = [pc EXCEPT ![p] = "ready"] /\ pc[p] = "send" /\ row[p] = Len(log)
      BY <2>0, <2>6 DEF Send, table, BudgetInv
    <3> DEFINE n == Len(slot)
    <3>2. /\ n \in Nat /\ DOMAIN slot = 1..n /\ DOMAIN slot' = 1..n + 1
          /\ slot'[n + 1] = Len(log) /\ \A i \in 1..n : slot'[i] = slot[i]
      BY <3>1
    <3>3. \A i \in 1..n : slot[i] \in 1..Len(log) /\ slot[i] # Len(log)
      <4>1. Pending(p)
        BY <3>1 DEF RecordInv
      <4>2. QED BY <3>1, <3>2, <4>1, SequenceFacts DEF RecordInv, Pending
    <3>4. \A i \in 1..n : Len(log) - slot[i] >= n + 1 - i
      <4> TAKE i \in 1..n
      <4>0. n \in 1..n /\ i <= n
        BY <3>2
      <4>1. slot[n] - slot[i] >= n - i
        BY <2>0, <3>2, <4>0 DEF BudgetInv
      <4>2. slot[n] < Len(log) /\ slot[n] \in Nat /\ slot[i] \in Nat
        BY ONLY SMTT(20), <3>3, <4>0, SequenceFacts, TypeOK
      <4>3. QED BY ONLY <3>2, <4>0, <4>1, <4>2, SequenceFacts, TypeOK
    <3>5. \A i, j \in DOMAIN slot' : i <= j => slot'[j] - slot'[i] >= j - i
      <4> TAKE i \in DOMAIN slot', j \in DOMAIN slot'
      <4>1. CASE i \in 1..n /\ j \in 1..n
        BY <2>0, <3>2, <4>1 DEF BudgetInv
      <4>2. CASE i \in 1..n /\ j = n + 1
        BY <3>2, <3>4, <4>2
      <4>3. CASE i = n + 1
        BY <3>2, <4>3
      <4>4. (i \in 1..n \/ i = n + 1) /\ (j \in 1..n \/ j = n + 1)
        BY ONLY <3>2, OneMoreIndex
      <4>5. QED BY <4>1, <4>2, <4>3, <4>4
    <3>6. \A q, r \in Procs : Up(q)' /\ Up(r)' => q = r
      BY <2>0, <3>1 DEF BudgetInv, Up
    <3>7. /\ \A q \in Procs : pc'[q] = "record" => Allowed(q)'
          /\ \A q \in Procs : pc'[q] = "send" => row'[q] = Len(log')
      BY <2>0, <3>1 DEF BudgetInv, Allowed
    <3>8. QED BY <2>0, <3>1, <3>5, <3>6, <3>7 DEF BudgetInv, LogBudget
  <2>7. ASSUME NEW p \in Procs, RetryStatement(p) \/ GiveUp(p) PROVE BudgetInv'
    BY <2>0, <2>7
  <2>8. CASE Tick
    BY <2>0, <2>8, <2>1 DEF Tick, table, BudgetInv, Up, Allowed
  <2>9. CASE UNCHANGED vars
    BY <2>0, <2>9, <2>1 DEF vars, BudgetInv, Up, Allowed
  <2>10. QED
    BY <2>3, <2>4, <2>5, <2>6, <2>7, <2>8, <2>9 DEF Next, Step
<1>3. QED
  BY <1>1, <1>2, RecordInvariant, LogInvariant, TypeCorrect, PTL DEF Spec

(***************************************************************************)
(* The rate budget, until it is strained.  Any MaxInWindow + 1 consecutive *)
(* requests have rows MaxInWindow or more apart in the log, the log        *)
(* respects the budget, and a request leaves within Latency of its row.    *)
(***************************************************************************)
THEOREM RateBudgetHolds == Spec => []BudgetKept
<1>1. TypeOK /\ RecordInv /\ CalmInv => BudgetKept
  <2> SUFFICES ASSUME TypeOK, RecordInv, BudgetInv,
                      NEW i \in DOMAIN sent, NEW j \in DOMAIN sent, j >= i + MaxInWindow
               PROVE  sent[j] - sent[i] >= Window - Latency
    BY DEF WindowBudget, BudgetKept, CalmInv
  <2> USE AllowanceAssumption, ClockAssumption
  <2>0. i \in Nat /\ j \in Nat
    BY SequenceFacts
  <2>1. i \in DOMAIN slot /\ j \in DOMAIN slot /\ i <= j
    BY <2>0, SequenceFacts DEF RecordInv
  <2>2. slot[i] \in DOMAIN log /\ slot[j] \in DOMAIN log /\ slot[j] - slot[i] >= j - i
    BY <2>1 DEF RecordInv, BudgetInv
  <2>3. slot[j] >= slot[i] + MaxInWindow
    BY SMTT(20), <2>0, <2>1, <2>2, SequenceFacts
  <2>4. log[slot[j]] - log[slot[i]] >= Window
    BY <2>2, <2>3 DEF BudgetInv, LogBudget
  <2>5. /\ log[slot[i]] \in Nat /\ log[slot[j]] \in Nat
        /\ sent[i] \in Nat /\ sent[j] \in Nat
    BY <2>2, SequenceFacts
  <2>6. log[slot[j]] <= sent[j] /\ sent[i] <= log[slot[i]] + Latency
    <3>1. /\ log[slot[i]] \in sent[i] - Latency .. sent[i]
          /\ log[slot[j]] \in sent[j] - Latency .. sent[j]
      BY DEF RecordInv, EveryCallRecorded
    <3>2. QED BY <2>5, <3>1
  <2>7. QED BY <2>4, <2>6, <2>5
<1>2. QED
  BY <1>1, BudgetInvariant, RecordInvariant, TypeCorrect, PTL
=============================================================================
