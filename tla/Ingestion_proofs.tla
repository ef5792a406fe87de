--------------------------- MODULE Ingestion_proofs ---------------------------
(***************************************************************************)
(* What is proved of Ingestion, for any number of runs with any options,   *)
(* any entities, rounds and page size: type correctness; that race-scoped  *)
(* work is only done for scheduled rounds; that a checkpoint is never      *)
(* ahead of the lake, and the warehouse never ahead of it either, when     *)
(* results are published by race day or runs do not overlap; and that a    *)
(* resumed run with no other beside it fetches nothing twice.  Then the    *)
(* promise: exit code 0 is the truth, and the pipeline implements Replica. *)
(* Last, what does not depend on fairness in the claim that runs end.      *)
(***************************************************************************)
EXTENDS Ingestion, FiniteSetTheorems, WellFoundedInduction, TLAPS

(***************************************************************************)
(* A process's memory after a piece of work is cleared.                    *)
(***************************************************************************)
LEMMA ClearWorkTypes ==
  ASSUME TypeOK, NEW p \in Procs, ClearWork(p)
  PROVE  /\ todo' \in [Procs -> SUBSET Scopes] /\ scope' \in [Procs -> Scopes]
         /\ offset' \in [Procs -> Nat] /\ total' \in [Procs -> Nat]
         /\ keys' \in [Procs -> SUBSET DOMAIN lake] /\ txn' \in [Procs -> SUBSET AllRows]
BY DEF TypeOK, ClearWork, Scopes

LEMMA EntityDoneTypes ==
  ASSUME TypeOK, NEW p \in Procs, NEW ok \in BOOLEAN, EntityDone(p, ok),
         pos[p] \in DOMAIN Order
  PROVE  /\ todo' \in [Procs -> SUBSET Scopes] /\ scope' \in [Procs -> Scopes]
         /\ offset' \in [Procs -> Nat] /\ total' \in [Procs -> Nat]
         /\ keys' \in [Procs -> SUBSET DOMAIN lake] /\ txn' \in [Procs -> SUBSET AllRows]
         /\ pc' \in [Procs -> States] /\ pos' \in [Procs -> 1 .. Len(Order) + 1]
         /\ failed' \in [Procs -> BOOLEAN]
         /\ \A q \in Procs : pc'[q] \notin {"down", "entity"} => pos'[q] \in DOMAIN Order
<1>1. pos[p] + 1 \in 1 .. Len(Order) + 1
  BY SourceAssumption
<1>2. QED
  BY <1>1, ClearWorkTypes DEF EntityDone, TypeOK, States

(***************************************************************************)
(* What the source and the pages are made of.                              *)
(***************************************************************************)
LEMMA RowTypes ==
  ASSUME TypeOK
  PROVE  /\ \A e \in Entities, s \in Scopes : Total(e, s) \in Nat
         /\ SourceRows \subseteq AllRows
         /\ \A r \in Runs : DueRows(r) \subseteq AllRows
         /\ \A e \in Entities, s \in Scopes, o \in Nat, t \in Nat :
               PageRows(e, s, o, t) \subseteq AllRows
<1>1. \A e \in Entities, s \in Scopes : Size[e][s] \in Nat
  BY SourceAssumption
<1>2. \A e \in Entities, s \in Scopes : Total(e, s) \in Nat
  BY <1>1 DEF Total
<1>3. \A e \in Entities, s \in Scopes, n \in Nat : RowsUpTo(e, s, n) \subseteq AllRows
  BY DEF RowsUpTo, Row, AllRows
<1>4. SourceRows \subseteq AllRows
  BY <1>2, <1>3 DEF SourceRows, EntityScopes
<1>5. \A r \in Runs : DueRows(r) \subseteq AllRows
  BY <1>4 DEF DueRows, RowsIn, TypeOK
<1>6. \A e \in Entities, s \in Scopes, o \in Nat, t \in Nat :
         PageRows(e, s, o, t) \subseteq AllRows
  BY SourceAssumption DEF PageRows, PageEnd, Row, AllRows
<1>7. QED
  BY <1>2, <1>4, <1>5, <1>6

(***************************************************************************)
(* Type correctness: every step of a run, of another run beside it and of  *)
(* the season keeps the types.                                             *)
(***************************************************************************)
THEOREM TypeCorrect == Spec => []TypeOK
<1> USE SourceAssumption, RunsAssumption
<1>1. Init => TypeOK
  BY DEF Init, TypeOK, States, Scopes, Checkpoints, NoCheckpoint, Statuses
<1>2. TypeOK /\ [Next]_vars => TypeOK'
  <2> SUFFICES ASSUME TypeOK, [Next]_vars PROVE TypeOK'
    OBVIOUS
  <2> USE DEF source, store, warehouse, fetching, loading
  <2>1. CASE RaceDay \/ Publish
    BY <2>1 DEF RaceDay, Publish, TypeOK
  <2>2. ASSUME NEW p \in Procs, Start(p) PROVE TypeOK'
    <3>1. run' \in [Procs -> Runs] /\ due' \in [Procs -> SUBSET AllRows]
      BY <2>2, RowTypes DEF Start, TypeOK
    <3>2. QED BY <2>2, <3>1 DEF Start, TypeOK, States
  <2>3. ASSUME NEW p \in Procs, Selecting(p)
        PROVE  pos[p] \in DOMAIN Order /\ Entity(p) \in Entities
    BY <2>3 DEF Selecting, TypeOK, Entity, Entities
  <2>4. ASSUME NEW p \in Procs, pc[p] \notin {"down", "entity"}
        PROVE  pos[p] \in DOMAIN Order /\ Entity(p) \in Entities
    BY <2>4 DEF TypeOK, Entity, Entities
  <2>5. ASSUME NEW p \in Procs, BeginLoadOnly(p) \/ FindNoRounds(p) PROVE TypeOK'
    BY <2>3, <2>5 DEF BeginLoadOnly, FindNoRounds, Selecting, TypeOK, States
  <2>6. ASSUME NEW p \in Procs, BeginExtract(p) PROVE TypeOK'
    <3>1. (IF Entity(p) \in RaceScoped THEN RunRounds ELSE {Whole}) \subseteq Scopes
      BY DEF RunRounds, ScheduledRounds, Scopes
    <3>2. QED BY <2>3, <2>6, <3>1 DEF BeginExtract, TypeOK, States
  <2>7. ASSUME NEW p \in Procs, BeginNoRounds(p) PROVE TypeOK'
    <3>1. (ScheduledRounds # {}) \in BOOLEAN
      OBVIOUS
    <3>2. EntityDone(p, ScheduledRounds # {}) /\ pos[p] \in DOMAIN Order
      BY <2>4, <2>7 DEF BeginNoRounds
    <3>3. UNCHANGED <<source, store, warehouse, run, due, exit, faults>>
      BY <2>7 DEF BeginNoRounds
    <3>4. QED BY <3>1, <3>2, <3>3, EntityDoneTypes DEF TypeOK
  <2>8. ASSUME NEW p \in Procs, Finish(p) PROVE TypeOK'
    BY <2>8 DEF Finish, TypeOK, States
  <2>9. ASSUME NEW p \in Procs, SkipComplete(p) PROVE TypeOK'
    BY <2>9 DEF SkipComplete, NextScope, TypeOK, States
  <2>10. ASSUME NEW p \in Procs, BeginScope(p) PROVE TypeOK'
    <3>1. PICK s \in todo[p] :
             /\ NextScope(p, s)
             /\ scope' = [scope EXCEPT ![p] = s]
             /\ offset' = [offset EXCEPT ![p] = IF run[p].resume THEN Checkpoint(p, s).next ELSE 0]
      BY <2>10 DEF BeginScope
    <3>2. s \in Scopes /\ Entity(p) \in Entities /\ pos[p] \in DOMAIN Order
      BY <2>4, <3>1 DEF NextScope, TypeOK
    <3>3. Checkpoint(p, s).next \in Nat
      BY <3>2 DEF Checkpoint, TypeOK, Checkpoints
    <3>4. /\ todo' \in [Procs -> SUBSET Scopes] /\ scope' \in [Procs -> Scopes]
          /\ offset' \in [Procs -> Nat]
      BY <3>1, <3>2, <3>3 DEF NextScope, TypeOK
    <3>5. QED BY <2>10, <3>2, <3>4 DEF BeginScope, TypeOK, States
  <2>11. ASSUME NEW p \in Procs, ExtractDone(p) PROVE TypeOK'
    BY <2>11 DEF ExtractDone, TypeOK, States
  <2>12. ASSUME NEW p \in Procs, Fetch(p) PROVE TypeOK'
    <3>1. scope[p] \in Scopes /\ Entity(p) \in Entities
      BY <2>4, <2>12 DEF Fetch, TypeOK
    <3>2. Total(Entity(p), scope[p]) \in Nat
      BY <3>1, RowTypes
    <3>3. QED BY <2>12, <3>2 DEF Fetch, TypeOK, States
  <2>13. ASSUME NEW p \in Procs, FetchFails(p) PROVE TypeOK'
    <3>1. /\ scope[p] \in Scopes /\ Entity(p) \in Entities /\ pos[p] \in DOMAIN Order
          /\ offset[p] \in Nat
      BY <2>4, <2>13 DEF FetchFails, TypeOK
    <3>2. failures' \subseteq Entities \X Scopes
      BY <2>13, <3>1 DEF FetchFails, TypeOK
    <3>3. ckpt' \in [Entities -> [Scopes -> Checkpoints]]
      BY <2>13, <3>1 DEF FetchFails, TypeOK, Checkpoints, Statuses
    <3>4. EntityDone(p, FALSE)
      BY <2>13 DEF FetchFails
    <3>5. faults' \in Nat /\ UNCHANGED <<source, lake, raw, dead, run, due, exit>>
      BY <2>13 DEF FetchFails, TypeOK
    <3>6. QED BY <3>1, <3>2, <3>3, <3>4, <3>5, EntityDoneTypes DEF TypeOK
  <2>14. ASSUME NEW p \in Procs, Put(p) PROVE TypeOK'
    <3> DEFINE k == Key(Entity(p), scope[p], offset[p], run[p].date)
               page == PageRows(Entity(p), scope[p], offset[p], total[p])
    <3>1. /\ scope[p] \in Scopes /\ Entity(p) \in Entities /\ offset[p] \in Nat
          /\ total[p] \in Nat /\ run[p] \in Runs
      BY <2>4, <2>14 DEF Put, TypeOK
    <3>2. k \in Keys
      BY <3>1 DEF Key, Keys, Dates
    <3>3. page \subseteq AllRows
      BY <3>1, RowTypes
    <3>4. lake' = [j \in DOMAIN lake \cup {k} |-> IF j = k THEN page ELSE lake[j]]
      BY <2>14 DEF Put
    <3>5. /\ DOMAIN lake' \subseteq Keys /\ \A j \in DOMAIN lake' : lake'[j] \subseteq AllRows
          /\ DOMAIN lake \subseteq DOMAIN lake'
      BY <3>2, <3>3, <3>4 DEF TypeOK
    <3>6. QED BY <2>14, <3>5 DEF Put, TypeOK, States
  <2>15. ASSUME NEW p \in Procs, SaveCheckpoint(p) PROVE TypeOK'
    <3>1. /\ scope[p] \in Scopes /\ Entity(p) \in Entities /\ pos[p] \in DOMAIN Order
          /\ offset[p] + Limit \in Nat /\ total[p] \in Nat
      <4>1. pc[p] = "checkpoint"
        BY <2>15 DEF SaveCheckpoint
      <4>2. scope[p] \in Scopes /\ offset[p] \in Nat /\ total[p] \in Nat
        BY DEF TypeOK
      <4>3. QED BY SMTT(20), <2>4, <4>1, <4>2
    <3>2. ckpt' \in [Entities -> [Scopes -> Checkpoints]]
      BY <2>15, <3>1 DEF SaveCheckpoint, TypeOK, Checkpoints, Statuses
    <3>3. pc' \in [Procs -> States] /\ offset' \in [Procs -> Nat]
      BY <2>15, <3>1 DEF SaveCheckpoint, TypeOK, States
    <3>4. \A q \in Procs \ {p} : pc'[q] = pc[q]
      BY <2>15 DEF SaveCheckpoint, TypeOK
    <3>5. UNCHANGED <<source, lake, warehouse, todo, scope, total, loading, run, due,
                      pos, failed, exit, faults>>
      BY <2>15 DEF SaveCheckpoint
    <3>6. QED BY <3>1, <3>2, <3>3, <3>4, <3>5 DEF TypeOK
  <2>16. ASSUME NEW p \in Procs, ListKeys(p) PROVE TypeOK'
    <3>1. Landed(Entity(p), run[p].date) \subseteq DOMAIN lake
      BY DEF Landed
    <3>2. QED BY <2>16, <3>1 DEF ListKeys, TypeOK, States
  <2>17. ASSUME NEW p \in Procs, ListNothing(p) PROVE TypeOK'
    <3>1. EntityDone(p, TRUE) /\ pos[p] \in DOMAIN Order
      BY <2>4, <2>17 DEF ListNothing
    <3>2. UNCHANGED <<source, store, warehouse, run, due, exit, faults>>
      BY <2>17 DEF ListNothing
    <3>3. QED BY <3>1, <3>2, EntityDoneTypes DEF TypeOK
  <2>18. ASSUME NEW p \in Procs, LoadObject(p) PROVE TypeOK'
    <3>1. PICK k \in keys[p] : /\ txn' = [txn EXCEPT ![p] = @ \cup lake[k]]
                               /\ keys' = [keys EXCEPT ![p] = @ \ {k}]
      BY <2>18 DEF LoadObject
    <3>2. lake[k] \subseteq AllRows
      BY DEF TypeOK
    <3>3. /\ txn' \in [Procs -> SUBSET AllRows]
          /\ keys' \in [Procs -> SUBSET DOMAIN lake]
      BY <3>1, <3>2 DEF TypeOK
    <3>4. UNCHANGED <<source, store, warehouse, fetching, pc, run, due, pos, failed,
                      exit, faults>>
      BY <2>18 DEF LoadObject
    <3>5. QED BY <3>3, <3>4 DEF TypeOK
  <2>19. ASSUME NEW p \in Procs, CommitLoad(p) PROVE TypeOK'
    <3>1. EntityDone(p, TRUE) /\ pos[p] \in DOMAIN Order
      BY <2>4, <2>19 DEF CommitLoad
    <3>2. raw' \subseteq AllRows /\ dead' \subseteq AllRows
      BY <2>19 DEF CommitLoad, TypeOK
    <3>3. UNCHANGED <<source, store, failures, run, due, exit, faults>>
      BY <2>19 DEF CommitLoad
    <3>4. QED BY <3>1, <3>2, <3>3, EntityDoneTypes DEF TypeOK
  <2>20. ASSUME NEW p \in Procs, Crash(p) PROVE TypeOK'
    <3>1. ClearWork(p)
      BY <2>20 DEF Crash
    <3>2. /\ pc' = [pc EXCEPT ![p] = "down"] /\ pos' = [pos EXCEPT ![p] = 1]
          /\ exit' = [exit EXCEPT ![p] = "crashed"]
          /\ failed' = [failed EXCEPT ![p] = FALSE] /\ faults' = faults + 1
          /\ UNCHANGED <<source, store, warehouse, run, due>>
      BY <2>20 DEF Crash
    <3>3. /\ pc' \in [Procs -> States] /\ pos' \in [Procs -> 1 .. Len(Order) + 1]
          /\ failed' \in [Procs -> BOOLEAN] /\ faults' \in Nat
          /\ exit' \in [Procs -> {"none", "ok", "failed", "crashed"}]
          /\ \A q \in Procs : pc'[q] \notin {"down", "entity"} => pos'[q] \in DOMAIN Order
      BY <3>2 DEF TypeOK, States
    <3>4. QED BY <3>1, <3>2, <3>3, ClearWorkTypes DEF TypeOK
  <2>21. CASE UNCHANGED vars
    BY <2>21 DEF vars, TypeOK
  <2>22. QED
    BY <2>1, <2>2, <2>5, <2>6, <2>7, <2>8, <2>9, <2>10, <2>11, <2>12, <2>13, <2>14,
       <2>15, <2>16, <2>17, <2>18, <2>19, <2>20, <2>21 DEF Next, Work
<1>3. QED
  BY <1>1, <1>2, PTL DEF Spec

-----------------------------------------------------------------------------
(***************************************************************************)
(* When results are published by race day, only published rounds are ever  *)
(* extracted.                                                              *)
(***************************************************************************)
LEMMA ScopesInvariant == Spec => []ScopesInv
<1>1. Init => ScopesInv
  BY DEF Init, ScopesInv, Extracting
<1>2. TypeOK /\ ScopesInv /\ [Next]_vars => ScopesInv'
  <2> SUFFICES ASSUME TypeOK, ScopesInv, [Next]_vars, ~Lag PROVE ScopesInv'
    BY DEF ScopesInv
  <2> USE DEF source, store, warehouse, fetching, loading
  <2>1. CASE RaceDay
    BY <2>1 DEF RaceDay, ScopesInv, Entity, Extracting
  <2>2. CASE Publish
    BY <2>2 DEF Publish, ScopesInv
  \* A step of p that may only shrink its todo, and extracts a scope out of it.
  <2>3. ASSUME NEW p \in Procs, UNCHANGED source,
               \A q \in Procs \ {p} : /\ pc'[q] = pc[q] /\ pos'[q] = pos[q]
                                      /\ todo'[q] = todo[q] /\ scope'[q] = scope[q],
               \/ pc'[p] \notin {"scope", "fetch", "put", "checkpoint"}
               \/ /\ pos'[p] = pos[p]
                  /\ Entity(p) \in RaceScoped =>
                        /\ todo'[p] \subseteq published
                        /\ pc'[p] \in {"fetch", "put", "checkpoint"} => scope'[p] \in published
        PROVE  ScopesInv'
    BY <2>3 DEF ScopesInv, Entity, Extracting
  <2>4. ASSUME NEW p \in Procs,
               \/ Start(p) \/ Finish(p) \/ BeginNoRounds(p) \/ FetchFails(p)
               \/ ListNothing(p) \/ CommitLoad(p) \/ Crash(p)
        PROVE  ScopesInv'
    <3>1. UNCHANGED source
      BY <2>4 DEF Start, Finish, BeginNoRounds, FetchFails, ListNothing, CommitLoad, Crash
    <3>2. pc'[p] \in {"down", "entity"}
      BY <2>4 DEF Start, Finish, BeginNoRounds, FetchFails, ListNothing, CommitLoad, Crash,
                  EntityDone, TypeOK
    <3>3. \A q \in Procs \ {p} : /\ pc'[q] = pc[q] /\ pos'[q] = pos[q]
                                 /\ todo'[q] = todo[q] /\ scope'[q] = scope[q]
      BY <2>4 DEF Start, Finish, BeginNoRounds, FetchFails, ListNothing, CommitLoad, Crash,
                  EntityDone, ClearWork, TypeOK
    <3>4. QED BY <2>3, <3>1, <3>2, <3>3
  <2>5. ASSUME NEW p \in Procs, BeginExtract(p) PROVE ScopesInv'
    <3>1. Entity(p) \in RaceScoped => todo'[p] \subseteq published
      BY <2>5 DEF BeginExtract, RunRounds, ScopesInv, TypeOK
    <3>2. QED BY <2>3, <2>5, <3>1 DEF BeginExtract, TypeOK
  <2>6. ASSUME NEW p \in Procs, BeginLoadOnly(p) \/ FindNoRounds(p) PROVE ScopesInv'
    BY <2>3, <2>6 DEF BeginLoadOnly, FindNoRounds, TypeOK
  <2>7. ASSUME NEW p \in Procs, SkipComplete(p) PROVE ScopesInv'
    <3>1. todo'[p] \subseteq todo[p] /\ pc[p] = "scope" /\ pc' = pc /\ pos' = pos /\ scope' = scope
      BY <2>7 DEF SkipComplete, NextScope, TypeOK
    <3>2. \A q \in Procs \ {p} : todo'[q] = todo[q]
      BY <2>7 DEF SkipComplete, NextScope, TypeOK
    <3>3. UNCHANGED source
      BY <2>7 DEF SkipComplete
    <3>4. QED BY <2>3, <3>1, <3>2, <3>3 DEF ScopesInv
  <2>8. ASSUME NEW p \in Procs, BeginScope(p) PROVE ScopesInv'
    <3>1. PICK s \in todo[p] : NextScope(p, s) /\ scope' = [scope EXCEPT ![p] = s]
      BY <2>8 DEF BeginScope
    <3>2. /\ pc[p] = "scope" /\ todo' = [todo EXCEPT ![p] = @ \ {s}]
          /\ pc' = [pc EXCEPT ![p] = "fetch"] /\ pos' = pos /\ UNCHANGED source
      BY <2>8, <3>1 DEF BeginScope, NextScope
    <3>3. Entity(p) \in RaceScoped => todo'[p] \subseteq published /\ scope'[p] \in published
      BY <3>1, <3>2 DEF ScopesInv, TypeOK
    <3>4. QED BY <2>3, <3>1, <3>2, <3>3 DEF TypeOK
  <2>9. ASSUME NEW p \in Procs, ExtractDone(p) \/ ListKeys(p) \/ LoadObject(p)
        PROVE  ScopesInv'
    <3>1. UNCHANGED <<source, pos, todo, scope>>
      BY <2>9 DEF ExtractDone, ListKeys, LoadObject
    <3>2. pc'[p] \in {"list", "load"} /\ \A q \in Procs \ {p} : pc'[q] = pc[q]
      BY <2>9 DEF ExtractDone, ListKeys, LoadObject, TypeOK
    <3>3. QED BY <2>3, <3>1, <3>2
  <2>10. ASSUME NEW p \in Procs, Fetch(p) \/ Put(p) \/ SaveCheckpoint(p)
         PROVE  ScopesInv'
    <3>1. UNCHANGED <<source, pos, todo, scope>>
      BY <2>10 DEF Fetch, Put, SaveCheckpoint
    <3>2. Extracting(p) /\ \A q \in Procs \ {p} : pc'[q] = pc[q]
      BY <2>10 DEF Fetch, Put, SaveCheckpoint, Extracting, TypeOK
    <3>3. QED BY <2>3, <3>1, <3>2 DEF ScopesInv
  <2>11. CASE UNCHANGED vars
    BY <2>11 DEF vars, ScopesInv, Entity, Extracting
  <2>12. QED
    BY <2>1, <2>2, <2>4, <2>5, <2>6, <2>7, <2>8, <2>9, <2>10, <2>11 DEF Next, Work
<1>3. QED
  BY <1>1, <1>2, TypeCorrect, PTL DEF Spec

-----------------------------------------------------------------------------
(***************************************************************************)
(* What a fetch may be answered with, and has been: unless results are     *)
(* late, the size of the scope.                                            *)
(***************************************************************************)
LEMMA AnswerFacts ==
  ASSUME TypeOK, NEW e \in Entities, NEW s \in Scopes
  PROVE  /\ Size[e][s] \in Nat /\ Total(e, s) \in {0, Size[e][s]}
         /\ Answers(e, s) \subseteq {0, Size[e][s]}
         /\ ~Lag => Answers(e, s) = {Size[e][s]}
         /\ published \subseteq published' => Answers(e, s) \subseteq Answers(e, s)'
<1>1. Size[e][s] \in Nat
  BY SourceAssumption
<1>2. QED BY <1>1 DEF Total, Answers

LEMMA Answered ==
  ASSUME TypeOK, ScopesInv, NEW p \in Procs, Extracting(p)
  PROVE  /\ Entity(p) \in Entities /\ scope[p] \in Scopes /\ offset[p] \in Nat /\ total[p] \in Nat
         /\ Total(Entity(p), scope[p]) \in Answers(Entity(p), scope[p])
<1>1. Entity(p) \in Entities /\ scope[p] \in Scopes /\ offset[p] \in Nat /\ total[p] \in Nat
  BY DEF TypeOK, Extracting, Entity, Entities
<1>2. CASE Lag
  BY <1>1, <1>2 DEF Answers, Total
<1>3. CASE ~Lag
  BY <1>1, <1>3 DEF ScopesInv, Answers, Total
<1>4. QED BY <1>1, <1>2, <1>3

\* The pages of a scope: an empty one before publication, then the full one.
LEMMA PageFacts ==
  ASSUME NEW e, NEW s, NEW o \in Nat, NEW n \in Nat
  PROVE  /\ PageRows(e, s, o, 0) = {}
         /\ \A t \in {0, n} : PageRows(e, s, o, t) \subseteq PageRows(e, s, o, n)
<1>1. PageEnd(o, 0) = 0
  BY SourceAssumption DEF PageEnd
<1>2. PageRows(e, s, o, 0) = {}
  BY <1>1 DEF PageRows
<1>3. QED BY <1>2

LEMMA Unlanded ==
  ASSUME TypeOK, LakeInv, NEW e \in Entities, NEW s \in Scopes, Total(e, s) # Size[e][s], Lag
  PROVE  NoneLanded(e, s)
<1> SUFFICES ASSUME NEW k \in DOMAIN lake, k.entity = e, k.scope = s PROVE lake[k] = {}
  BY DEF NoneLanded
<1>1. e \in RaceScoped /\ Total(e, s) = 0
  BY DEF Total
<1>2. PICK t \in Answers(e, s) : lake[k] = PageRows(e, s, k.offset, t)
  BY DEF LakeInv
<1>3. t = 0 /\ k.offset \in Nat
  BY <1>1, <1>2 DEF Answers, TypeOK, Keys
<1>4. QED BY <1>2, <1>3, PageFacts

(***************************************************************************)
(* Putting a page on top of the objects that are there loses no row: an    *)
(* object that is replaced held the same page, or nothing.                 *)
(***************************************************************************)
LakeGrows == \A k \in DOMAIN lake : k \in DOMAIN lake' /\ lake[k] \subseteq lake'[k]

LEMMA PutKeepsObjects ==
  ASSUME TypeOK, ScopesInv, LakeInv, NEW p \in Procs, Put(p), Knows(p)
  PROVE  /\ LakeInv' /\ LakeGrows
         /\ LET k == Key(Entity(p), scope[p], offset[p], run[p].date)
            IN  /\ k \in DOMAIN lake'
                /\ lake'[k] = PageRows(Entity(p), scope[p], offset[p], total[p])
                /\ \A j \in DOMAIN lake' : j # k => j \in DOMAIN lake /\ lake'[j] = lake[j]
<1> DEFINE e == Entity(p)
           s == scope[p]
           k == Key(e, s, offset[p], run[p].date)
           page == PageRows(e, s, offset[p], total[p])
<1>1. /\ lake' = [j \in DOMAIN lake \cup {k} |-> IF j = k THEN page ELSE lake[j]]
      /\ pc[p] = "put" /\ published' = published
  BY DEF Put, source
<1>2. /\ k.entity = e /\ k.scope = s /\ k.offset = offset[p]
  BY DEF Key
<1>3. /\ e \in Entities /\ s \in Scopes /\ offset[p] \in Nat /\ Size[e][s] \in Nat
      /\ total[p] \in Answers(e, s) /\ Answers(e, s) \subseteq {0, Size[e][s]}
      /\ total[p] # Size[e][s] => NoneLanded(e, s)
  <2>1. Extracting(p)
    BY <1>1 DEF Extracting
  <2>2. QED BY <1>1, <2>1, Answered, AnswerFacts DEF Knows
<1>4. \A en, sc : Answers(en, sc)' = Answers(en, sc)
  BY <1>1 DEF Answers, Total
<1> HIDE DEF page
<1>5. LakeInv'
  <2> SUFFICES ASSUME NEW j \in DOMAIN lake'
               PROVE  \E t \in Answers(j.entity, j.scope) :
                         lake'[j] = PageRows(j.entity, j.scope, j.offset, t)
    BY <1>4 DEF LakeInv
  <2>1. CASE j = k
    BY <1>1, <1>2, <1>3, <2>1 DEF page
  <2>2. CASE j # k
    BY <1>1, <2>2 DEF LakeInv
  <2>3. QED BY <2>1, <2>2
<1>6. k \in DOMAIN lake => lake[k] \subseteq page
  <2> SUFFICES ASSUME k \in DOMAIN lake PROVE lake[k] \subseteq page
    OBVIOUS
  <2>1. CASE total[p] = Size[e][s]
    <3>1. PICK t \in Answers(e, s) : lake[k] = PageRows(e, s, offset[p], t)
      BY <1>2 DEF LakeInv
    <3>2. QED BY <1>3, <2>1, <3>1, PageFacts DEF page
  <2>2. CASE total[p] # Size[e][s]
    BY <1>2, <1>3, <2>2 DEF NoneLanded
  <2>3. QED BY <2>1, <2>2
<1>7. LakeGrows
  BY <1>1, <1>6 DEF LakeGrows
<1>8. QED
  BY <1>1, <1>5, <1>7 DEF page

(***************************************************************************)
(* Once the page at an offset is in the lake, so are all rows before the   *)
(* next offset, or all that the scope was said to have.                    *)
(***************************************************************************)
LEMMA PageAdvances ==
  ASSUME NEW e \in Entities, NEW s \in Scopes, NEW o \in Nat, NEW t \in Nat, NEW k \in DOMAIN lake,
         Behind(e, s, o), PageRows(e, s, o, t) \subseteq lake[k],
         NEW n \in Nat, n <= o + Limit, n <= t
  PROVE  Behind(e, s, n)
<1> SUFFICES ASSUME NEW i \in 1 .. n, i <= Size[e][s] PROVE InLake(e, s, i)
  BY DEF Behind
<1> USE SourceAssumption
<1>1. CASE i <= o
  BY <1>1 DEF Behind
<1>2. CASE i > o
  <2>1. i \in o + 1 .. PageEnd(o, t)
    BY <1>2 DEF PageEnd
  <2>2. QED BY <2>1 DEF PageRows, InLake
<1>3. QED BY <1>1, <1>2

(***************************************************************************)
(* What processes and checkpoints have to know after a step, spelt out.    *)
(***************************************************************************)
BehindNext(e, s, n) == \A i \in 1..n : i <= Size[e][s] =>
                          \E k \in DOMAIN lake' : Row(e, s, i) \in lake'[k]
EmptyNext(e, s) == \A k \in DOMAIN lake' : k.entity = e /\ k.scope = s => lake'[k] = {}
AnswersNext(e, s) ==
    IF Lag /\ e \in RaceScoped
    THEN {0, IF e \in RaceScoped /\ s \notin published' THEN 0 ELSE Size[e][s]}
    ELSE {Size[e][s]}
KnowsNext(p, e, s, n) ==
    /\ n <= Size[e][s] /\ BehindNext(e, s, n)
    /\ pc'[p] # "fetch" => /\ total'[p] \in AnswersNext(e, s)
                           /\ total'[p] # Size[e][s] => EmptyNext(e, s)
    /\ pc'[p] = "checkpoint" =>
          /\ Key(e, s, n, run'[p].date) \in DOMAIN lake'
          /\ PageRows(e, s, n, total'[p]) \subseteq lake'[Key(e, s, n, run'[p].date)]
TellsNext(c, e, s) ==
    /\ BehindNext(e, s, Covered(c)) /\ c.total \in {None} \cup AnswersNext(e, s)
    /\ c.status # "complete" => c.next <= Size[e][s] /\ (c.total # None => c.next <= c.total)
    /\ c.status = "complete" => c.total # None /\ c.total <= c.next

LEMMA KnowsThen ==
  ASSUME NEW p \in Procs, NEW e, NEW s, NEW n, KnowsNext(p, e, s, n),
         Order[pos'[p]] = e, scope'[p] = s, offset'[p] = n
  PROVE  Knows(p)'
BY DEF Knows, KnowsNext, Behind, BehindNext, InLake, Entity, Answers, AnswersNext, Total,
       NoneLanded, EmptyNext

LEMMA TellsThen ==
  ASSUME NEW e, NEW s, NEW c, ckpt'[e][s] = c, TellsNext(c, e, s)
  PROVE  Tells(ckpt[e][s], e, s)'
BY DEF Tells, TellsNext, Behind, BehindNext, InLake, Answers, AnswersNext, Total, Covered

LEMMA NextFacts ==
  ASSUME TypeOK, LakeGrows, published \subseteq published'
  PROVE  /\ \A e, s, n : Behind(e, s, n) => BehindNext(e, s, n)
         /\ \A e, s : Answers(e, s) \subseteq AnswersNext(e, s)
         /\ UNCHANGED lake => \A e, s : NoneLanded(e, s) => EmptyNext(e, s)
<1>1. \A e, s, n : Behind(e, s, n) => BehindNext(e, s, n)
  BY DEF LakeGrows, Behind, BehindNext, InLake
<1>2. \A e, s : Answers(e, s) \subseteq AnswersNext(e, s)
  BY DEF Answers, AnswersNext, Total
<1>3. UNCHANGED lake => \A e, s : NoneLanded(e, s) => EmptyNext(e, s)
  BY DEF NoneLanded, EmptyNext
<1>4. QED BY <1>1, <1>2, <1>3

\* The others keep what they know, and so do the other checkpoints.
Same(p) == /\ pc'[p] = pc[p] /\ pos'[p] = pos[p] /\ scope'[p] = scope[p]
           /\ offset'[p] = offset[p] /\ total'[p] = total[p] /\ run'[p] = run[p]

LEMMA KeepsKnowing ==
  ASSUME TypeOK, LakeGrows, published \subseteq published', ~Lag \/ UNCHANGED lake,
         NEW p \in Procs, Extracting(p), Same(p), Knows(p)
  PROVE  Knows(p)'
<1> DEFINE e == Entity(p)
           s == scope[p]
<1>1. e \in Entities /\ s \in Scopes
  BY DEF TypeOK, Extracting, Entity, Entities
<1>2. BehindNext(e, s, offset[p]) /\ Answers(e, s) \subseteq AnswersNext(e, s)
  BY NextFacts DEF Knows
<1>3. ASSUME pc[p] # "fetch", total[p] # Size[e][s] PROVE EmptyNext(e, s)
  <2>1. total[p] \in Answers(e, s) /\ NoneLanded(e, s)
    BY <1>3 DEF Knows
  <2>2. Lag
    BY <1>1, <1>3, <2>1, AnswerFacts
  <2>3. QED BY <2>1, <2>2, NextFacts
<1>4. KnowsNext(p, e, s, offset[p])
  BY <1>2, <1>3 DEF KnowsNext, Knows, Same, LakeGrows
<1>5. Order[pos'[p]] = e /\ scope'[p] = s /\ offset'[p] = offset[p]
  BY DEF Same, Entity
<1> HIDE DEF e, s
<1>6. QED BY <1>4, <1>5, KnowsThen

LEMMA KeepsTelling ==
  ASSUME TypeOK, LakeGrows, published \subseteq published',
         NEW e \in Entities, NEW s \in Scopes, ckpt'[e][s] = ckpt[e][s], Tells(ckpt[e][s], e, s)
  PROVE  Tells(ckpt[e][s], e, s)'
<1>1. TellsNext(ckpt[e][s], e, s)
  BY NextFacts DEF Tells, TellsNext
<1>2. QED BY <1>1, TellsThen

(***************************************************************************)
(* The pages behind every checkpoint and every process are in the lake.    *)
(***************************************************************************)
LEMMA PagesInvariant == Spec /\ []Orderly => []PagesInv
<1>1. Init => PagesInv
  <2> SUFFICES ASSUME Init PROVE PagesInv
    OBVIOUS
  <2>1. LakeInv /\ \A p \in Procs : ~Extracting(p)
    BY DEF Init, LakeInv, Extracting
  <2>2. ASSUME NEW e \in Entities, NEW s \in Scopes PROVE Tells(ckpt[e][s], e, s)
    <3>1. ckpt[e][s] = NoCheckpoint /\ Size[e][s] \in Nat
      BY SourceAssumption DEF Init
    <3>2. QED BY <3>1 DEF Tells, NoCheckpoint, Covered, Behind, None
  <2>3. QED BY <2>1, <2>2 DEF PagesInv
<1>2. TypeOK /\ ScopesInv /\ PagesInv /\ Orderly /\ [Next]_vars => PagesInv'
  <2> SUFFICES ASSUME TypeOK, ScopesInv, PagesInv, Orderly, [Next]_vars PROVE PagesInv'
    OBVIOUS
  <2> USE DEF source, store, warehouse, fetching, loading
  <2>1. ASSUME UNCHANGED lake PROVE LakeGrows
    BY <2>1 DEF LakeGrows
  <2>2. ASSUME UNCHANGED lake, published \subseteq published' PROVE LakeInv'
    <3>1. \A e, s : Answers(e, s) \subseteq Answers(e, s)'
      BY <2>2 DEF Answers, Total
    <3>2. QED BY <2>2, <3>1 DEF PagesInv, LakeInv
  \* A step that leaves the lake, the other runs and other checkpoints alone.
  <2>3. ASSUME UNCHANGED lake, published \subseteq published',
               \A q \in Procs : Extracting(q)' => (Same(q) \/ Knows(q)'),
               \A e \in Entities, s \in Scopes :
                  ckpt'[e][s] = ckpt[e][s] \/ Tells(ckpt[e][s], e, s)'
        PROVE  PagesInv'
    <3>1. ASSUME NEW q \in Procs, Extracting(q)' PROVE Knows(q)'
      <4>1. CASE Same(q)
        <5>1. Extracting(q) /\ Knows(q)
          BY <3>1, <4>1 DEF PagesInv, Extracting, Same
        <5>2. QED BY <2>1, <2>3, <4>1, <5>1, KeepsKnowing
      <4>2. QED BY <2>3, <3>1, <4>1
    <3>2. ASSUME NEW e \in Entities, NEW s \in Scopes PROVE Tells(ckpt[e][s], e, s)'
      BY <2>1, <2>3, KeepsTelling DEF PagesInv
    <3>3. QED BY <2>2, <2>3, <3>1, <3>2 DEF PagesInv
  <2>4. CASE RaceDay \/ Publish
    <3>1. UNCHANGED <<store, pc, pos, scope, offset, total, run>> /\ published \subseteq published'
      BY <2>4 DEF RaceDay, Publish
    <3>2. QED BY <2>3, <3>1 DEF Same
  <2>5. ASSUME NEW p \in Procs,
               \/ Start(p) \/ Finish(p) \/ BeginNoRounds(p) \/ FindNoRounds(p) \/ BeginLoadOnly(p)
               \/ BeginExtract(p) \/ SkipComplete(p) \/ ExtractDone(p) \/ ListKeys(p)
               \/ ListNothing(p) \/ LoadObject(p) \/ CommitLoad(p) \/ Crash(p)
        PROVE  PagesInv'
    <3>1. UNCHANGED <<store, source>>
      BY <2>5 DEF Start, Finish, BeginNoRounds, FindNoRounds, BeginLoadOnly, BeginExtract, SkipComplete,
                  ExtractDone, ListKeys, ListNothing, LoadObject, CommitLoad, Crash
    <3>2. ~Extracting(p)'
      BY <2>5 DEF Start, Finish, BeginNoRounds, FindNoRounds, BeginLoadOnly, BeginExtract, SkipComplete,
                  ExtractDone, ListKeys, ListNothing, LoadObject, CommitLoad, Crash,
                  NextScope, EntityDone, TypeOK, Extracting
    <3>3. \A q \in Procs \ {p} : Same(q)
      BY <2>5 DEF Start, Finish, BeginNoRounds, FindNoRounds, BeginLoadOnly, BeginExtract, SkipComplete,
                  ExtractDone, ListKeys, ListNothing, LoadObject, CommitLoad, Crash,
                  NextScope, EntityDone, ClearWork, TypeOK, Same
    <3>4. QED BY <2>3, <3>1, <3>2, <3>3
  <2>6. ASSUME NEW p \in Procs, BeginScope(p) PROVE PagesInv'
    <3>1. PICK s \in todo[p] :
             /\ NextScope(p, s)
             /\ ~(run[p].resume /\ Checkpoint(p, s).status = "complete")
             /\ scope' = [scope EXCEPT ![p] = s]
             /\ offset' = [offset EXCEPT ![p] = IF run[p].resume THEN Checkpoint(p, s).next ELSE 0]
      BY <2>6 DEF BeginScope
    <3>2. /\ pc' = [pc EXCEPT ![p] = "fetch"]
          /\ UNCHANGED <<store, source, total, run, pos>>
      BY <2>6 DEF BeginScope
    <3>3. s \in Scopes /\ Entity(p) \in Entities /\ Size[Entity(p)][s] \in Nat
      BY <3>1, SourceAssumption DEF NextScope, TypeOK, Entity, Entities
    <3>4. Tells(Checkpoint(p, s), Entity(p), s) /\ Checkpoint(p, s) \in Checkpoints
      BY <3>3 DEF PagesInv, Checkpoint, TypeOK
    <3>5. offset'[p] <= Size[Entity(p)][s] /\ Behind(Entity(p), s, offset'[p])
      <4>1. CASE run[p].resume
        <5>1. offset'[p] = Checkpoint(p, s).next /\ Checkpoint(p, s).status # "complete"
          BY <3>1, <4>1 DEF TypeOK
        <5>2. Covered(Checkpoint(p, s)) = Checkpoint(p, s).next
          BY <3>4, <5>1 DEF Tells, Covered, Checkpoints, None
        <5>3. QED BY <3>4, <5>1, <5>2 DEF Tells
      <4>2. CASE ~run[p].resume
        BY <3>1, <3>3, <4>2 DEF Behind, TypeOK
      <4>3. QED BY <4>1, <4>2
    <3>6. Knows(p)'
      <4>1. pc'[p] = "fetch" /\ scope'[p] = s /\ Order[pos'[p]] = Entity(p)
        BY <3>1, <3>2 DEF TypeOK, Entity
      <4>2. BehindNext(Entity(p), s, offset'[p])
        BY <2>1, <3>2, <3>5, NextFacts
      <4>3. KnowsNext(p, Entity(p), s, offset'[p])
        BY <3>5, <4>1, <4>2 DEF KnowsNext
      <4>4. QED BY <4>1, <4>3, KnowsThen
    <3>7. \A q \in Procs \ {p} : Same(q)
      BY <3>1, <3>2 DEF Same
    <3>8. QED BY <2>3, <3>2, <3>6, <3>7
  <2>7. ASSUME NEW p \in Procs, Fetch(p) PROVE PagesInv'
    <3> DEFINE e == Entity(p)
               s == scope[p]
    <3>1. /\ pc[p] = "fetch" /\ pc' = [pc EXCEPT ![p] = "put"]
          /\ total' = [total EXCEPT ![p] = Total(e, s)]
          /\ UNCHANGED <<store, source, scope, offset, run, pos>>
      BY <2>7 DEF Fetch
    <3>2. Extracting(p) /\ Knows(p) /\ LakeInv
      BY <3>1 DEF PagesInv, Extracting
    <3>3. e \in Entities /\ s \in Scopes /\ Total(e, s) \in Answers(e, s)
      BY <3>2, Answered
    <3>4. Total(e, s) # Size[e][s] => NoneLanded(e, s)
      BY <3>2, <3>3, AnswerFacts, Unlanded
    <3>5. /\ BehindNext(e, s, offset[p]) /\ Total(e, s) \in AnswersNext(e, s)
          /\ Total(e, s) # Size[e][s] => EmptyNext(e, s)
      BY <2>1, <3>1, <3>2, <3>3, <3>4, NextFacts DEF Knows
    <3>6. /\ pc'[p] = "put" /\ total'[p] = Total(e, s) /\ scope'[p] = s
          /\ offset'[p] = offset[p] /\ Order[pos'[p]] = e
      BY <3>1 DEF TypeOK, Entity
    <3>7. KnowsNext(p, e, s, offset[p])
      BY <3>2, <3>5, <3>6 DEF KnowsNext, Knows
    <3>8. Knows(p)'
      BY <3>6, <3>7, KnowsThen
    <3>9. \A q \in Procs \ {p} : Same(q)
      BY <3>1 DEF Same
    <3>10. QED BY <2>3, <3>1, <3>8, <3>9
  <2>8. ASSUME NEW p \in Procs, FetchFails(p) PROVE PagesInv'
    <3> DEFINE c == [next |-> offset[p], total |-> None, status |-> "failed"]
    <3>1. /\ pc[p] = "fetch" /\ UNCHANGED <<lake, source, run>> /\ EntityDone(p, FALSE)
          /\ ckpt' = [ckpt EXCEPT ![Entity(p)][scope[p]] = c]
      BY <2>8 DEF FetchFails
    <3>2. Knows(p)
      BY <3>1 DEF PagesInv, Extracting
    <3>3. pc'[p] = "entity" /\ \A q \in Procs \ {p} : Same(q)
      BY <3>1 DEF EntityDone, ClearWork, TypeOK, Same
    <3>4. \A q \in Procs : Extracting(q)' => Same(q)
      BY <3>3 DEF Extracting
    <3>5. ASSUME NEW e \in Entities, NEW r \in Scopes
          PROVE  ckpt'[e][r] = ckpt[e][r] \/ Tells(ckpt[e][r], e, r)'
      <4>1. CASE e = Entity(p) /\ r = scope[p]
        <5>1. ckpt'[e][r] = c /\ Covered(c) = offset[p]
          BY <3>1, <4>1 DEF TypeOK, Covered
        <5>2. BehindNext(e, r, offset[p]) /\ offset[p] <= Size[e][r]
          BY <2>1, <3>1, <3>2, <4>1, NextFacts DEF Knows
        <5>3. TellsNext(c, e, r)
          BY <5>1, <5>2 DEF TellsNext
        <5>4. QED BY <5>1, <5>3, TellsThen
      <4>2. CASE ~(e = Entity(p) /\ r = scope[p])
        BY <3>1, <4>2 DEF TypeOK
      <4>3. QED BY <4>1, <4>2
    <3>6. QED BY <2>3, <3>1, <3>4, <3>5
  <2>9. ASSUME NEW p \in Procs, Put(p) PROVE PagesInv'
    <3> DEFINE e == Entity(p)
               s == scope[p]
               k == Key(e, s, offset[p], run[p].date)
    <3>1. /\ pc[p] = "put" /\ pc' = [pc EXCEPT ![p] = "checkpoint"]
          /\ UNCHANGED <<ckpt, source, scope, offset, total, run, pos>>
      BY <2>9 DEF Put
    <3>2. Extracting(p) /\ Knows(p) /\ LakeInv
      BY <3>1 DEF PagesInv, Extracting
    <3>3. /\ LakeGrows /\ LakeInv' /\ k \in DOMAIN lake'
          /\ lake'[k] = PageRows(e, s, offset[p], total[p])
          /\ \A j \in DOMAIN lake' : j # k => j \in DOMAIN lake /\ lake'[j] = lake[j]
      BY <2>9, <3>2, PutKeepsObjects
    <3>4. e \in Entities /\ s \in Scopes /\ offset[p] \in Nat
      BY <3>2, Answered
    <3>5. /\ BehindNext(e, s, offset[p]) /\ total[p] \in AnswersNext(e, s)
          /\ offset[p] <= Size[e][s]
      BY <3>1, <3>2, <3>3, NextFacts DEF Knows
    <3>6. total[p] # Size[e][s] => EmptyNext(e, s)
      <4> SUFFICES ASSUME total[p] # Size[e][s] PROVE EmptyNext(e, s)
        OBVIOUS
      <4>1. NoneLanded(e, s) /\ total[p] \in {0, Size[e][s]}
        BY <3>1, <3>2, <3>4, AnswerFacts DEF Knows
      <4>2. lake'[k] = {}
        BY <3>3, <3>4, <4>1, PageFacts
      <4> HIDE DEF k
      <4>3. QED BY <3>3, <4>1, <4>2 DEF NoneLanded, EmptyNext
    <3>7. /\ pc'[p] = "checkpoint" /\ total'[p] = total[p] /\ scope'[p] = s
          /\ offset'[p] = offset[p] /\ Order[pos'[p]] = e /\ run'[p] = run[p]
      BY <3>1 DEF TypeOK, Entity
    <3>8. KnowsNext(p, e, s, offset[p])
      BY <3>3, <3>5, <3>6, <3>7 DEF KnowsNext
    <3>9. Knows(p)'
      BY <3>7, <3>8, KnowsThen
    <3>10. ASSUME NEW q \in Procs \ {p}, Extracting(q)' PROVE Knows(q)'
      <4>1. Same(q)
        BY <3>1, <3>10 DEF Same
      <4>2. Extracting(q) /\ Knows(q)
        BY <3>10, <4>1 DEF PagesInv, Extracting, Same
      <4>3. ~Lag
        BY <3>1, <3>10, <4>2 DEF Orderly, Alone, Extracting
      <4>4. QED BY <3>1, <3>3, <4>1, <4>2, <4>3, KeepsKnowing
    <3>11. \A en \in Entities, sc \in Scopes : Tells(ckpt[en][sc], en, sc)'
      BY <3>1, <3>3, KeepsTelling DEF PagesInv
    <3>12. QED BY <3>3, <3>9, <3>10, <3>11 DEF PagesInv
  <2>10. ASSUME NEW p \in Procs, SaveCheckpoint(p) PROVE PagesInv'
    <3> DEFINE e == Entity(p)
               s == scope[p]
               next == offset[p] + Limit
               c == [next |-> next, total |-> total[p],
                     status |-> IF LastPage(p) THEN "complete" ELSE "in_progress"]
    <3>1. /\ pc[p] = "checkpoint" /\ UNCHANGED <<lake, source>>
          /\ ckpt' = [ckpt EXCEPT ![e][s] = c]
          /\ UNCHANGED <<scope, total, run, pos>>
      BY <2>10 DEF SaveCheckpoint
    <3>2. Extracting(p) /\ Knows(p) /\ LakeInv
      BY <3>1 DEF PagesInv, Extracting
    <3>3. /\ e \in Entities /\ s \in Scopes /\ offset[p] \in Nat /\ Size[e][s] \in Nat
          /\ total[p] \in Answers(e, s) /\ total[p] \in {0, Size[e][s]} /\ next \in Nat
      BY <3>1, <3>2, Answered, AnswerFacts, SourceAssumption DEF Knows
    <3>4. ASSUME NEW n \in Nat, n <= next, n <= total[p] PROVE BehindNext(e, s, n)
      <4>1. PICK k \in DOMAIN lake : PageRows(e, s, offset[p], total[p]) \subseteq lake[k]
        BY <3>1, <3>2 DEF Knows
      <4>2. Behind(e, s, n)
        BY <3>2, <3>3, <3>4, <4>1, PageAdvances DEF Knows
      <4>3. QED BY <2>1, <3>1, <4>2, NextFacts
    <3>5. /\ ~LastPage(p) => next <= Size[e][s] /\ next <= total[p]
          /\ LastPage(p) => total[p] <= next
      BY <3>3 DEF LastPage
    <3>6. Extracting(p)' => Knows(p)'
      <4>1. CASE LastPage(p)
        BY <2>10, <4>1 DEF SaveCheckpoint, TypeOK, Extracting
      <4>2. CASE ~LastPage(p)
        <5>1. pc'[p] = "fetch" /\ offset'[p] = next
          BY <2>10, <4>2 DEF SaveCheckpoint, TypeOK
        <5>2. scope'[p] = s /\ Order[pos'[p]] = e
          BY <3>1 DEF Entity
        <5>3. KnowsNext(p, e, s, next)
          BY <3>3, <3>4, <3>5, <4>2, <5>1 DEF KnowsNext
        <5>4. QED BY <5>1, <5>2, <5>3, KnowsThen
      <4>3. QED BY <4>1, <4>2
    <3>7. \A q \in Procs \ {p} : Same(q)
      BY <2>10, <3>1 DEF SaveCheckpoint, TypeOK, Same
    <3>8. TellsNext(c, e, s)
      <4>1. Covered(c) \in Nat /\ Covered(c) <= next /\ Covered(c) <= total[p]
        BY <3>3 DEF Covered, None
      <4>2. total[p] \in AnswersNext(e, s) /\ total[p] # None
        BY <2>1, <3>1, <3>3, NextFacts DEF None
      <4>3. QED BY <3>4, <3>5, <4>1, <4>2 DEF TellsNext
    <3>9. ASSUME NEW en \in Entities, NEW sc \in Scopes
          PROVE  ckpt'[en][sc] = ckpt[en][sc] \/ Tells(ckpt[en][sc], en, sc)'
      <4>1. CASE en = e /\ sc = s
        <5>1. ckpt'[en][sc] = c
          BY <3>1, <4>1 DEF TypeOK
        <5> HIDE DEF c, e, s
        <5>2. QED BY <3>8, <4>1, <5>1, TellsThen
      <4>2. CASE ~(en = e /\ sc = s)
        BY <3>1, <4>2 DEF TypeOK
      <4>3. QED BY <4>1, <4>2
    <3>10. QED BY <2>3, <3>1, <3>6, <3>7, <3>9
  <2>11. CASE UNCHANGED vars
    <3>1. UNCHANGED <<store, source, pc, pos, scope, offset, total, run>>
      BY <2>11 DEF vars
    <3>2. QED BY <2>3, <3>1 DEF Same
  <2>12. QED
    BY <2>4, <2>5, <2>6, <2>7, <2>8, <2>9, <2>10, <2>11 DEF Next, Work
<1>3. QED
  BY <1>1, <1>2, ScopesInvariant, TypeCorrect, PTL DEF Spec

(***************************************************************************)
(* A checkpoint is never ahead of the lake: for any number of overlapping  *)
(* runs with any options when results are published by race day, and for   *)
(* runs that do not overlap whenever they are.                             *)
(***************************************************************************)
THEOREM CheckpointBacked == Spec /\ []Orderly => []LakeBacksCheckpoint
<1>1. TypeOK /\ PagesInv => LakeBacksCheckpoint
  <2> SUFFICES ASSUME TypeOK, PagesInv, NEW e \in Entities, NEW s \in ScopesOf(e),
                      NEW i \in 1 .. Covered(ckpt[e][s])
               PROVE  \E k \in DOMAIN lake : Row(e, s, i) \in lake[k]
    BY DEF LakeBacksCheckpoint
  <2> DEFINE c == ckpt[e][s]
  <2>1. s \in Scopes
    BY DEF ScopesOf, Scopes
  <2>2. Size[e][s] \in Nat /\ c \in Checkpoints
    BY <2>1, SourceAssumption DEF TypeOK
  <2>3. Tells(c, e, s) /\ Answers(e, s) \subseteq {0, Size[e][s]}
    BY <2>1, AnswerFacts DEF PagesInv
  <2>4. i <= Size[e][s]
    BY <2>2, <2>3 DEF Tells, Covered, Checkpoints, Statuses, None
  <2>5. QED BY <2>3, <2>4 DEF Tells, Behind, InLake
<1>2. QED
  BY <1>1, PagesInvariant, TypeCorrect, PTL

-----------------------------------------------------------------------------
(***************************************************************************)
(* The warehouse can be rebuilt from the lake: every row a load has read   *)
(* is in some object, and no object loses a row.                           *)
(***************************************************************************)
LoadsFromLake ==
    /\ WarehouseFromLake
    /\ \A p \in Procs : txn[p] \subseteq RowsIn(DOMAIN lake)

LEMMA LoadsInvariant == Spec /\ []Orderly => []LoadsFromLake
<1>1. Init => LoadsFromLake
  BY DEF Init, LoadsFromLake, WarehouseFromLake
<1>2. TypeOK /\ ScopesInv /\ PagesInv /\ LoadsFromLake /\ [Next]_vars => LoadsFromLake'
  <2> SUFFICES ASSUME TypeOK, ScopesInv, PagesInv, LoadsFromLake, [Next]_vars PROVE LoadsFromLake'
    OBVIOUS
  <2> USE DEF source, store, warehouse, fetching, loading
  <2> DEFINE Old == RowsIn(DOMAIN lake)
  \* A step that adds objects at most, and rows of objects at most.
  <2>1. ASSUME LakeGrows,
               raw' \cup dead' \subseteq Old, \A p \in Procs : txn'[p] \subseteq Old
        PROVE  LoadsFromLake'
    <3>1. Old \subseteq UNION {lake'[k] : k \in DOMAIN lake'}
      BY <2>1 DEF LakeGrows, RowsIn
    <3>2. QED BY <2>1, <3>1 DEF LoadsFromLake, WarehouseFromLake, RowsIn
  <2>2. raw \cup dead \subseteq Old /\ \A p \in Procs : txn[p] \subseteq Old
    BY DEF LoadsFromLake, WarehouseFromLake
  <2> HIDE DEF Old
  \* A step that writes no object and no row, and may forget what it has read.
  <2>3. ASSUME UNCHANGED <<lake, raw, dead>>,
               \A p \in Procs : txn'[p] \in {txn[p], {}}
        PROVE  LoadsFromLake'
    BY <2>1, <2>2, <2>3 DEF LakeGrows
  <2>4. CASE RaceDay \/ Publish
    BY <2>3, <2>4 DEF RaceDay, Publish
  <2>5. ASSUME NEW p \in Procs,
               \/ Start(p) \/ Finish(p) \/ BeginLoadOnly(p) \/ BeginExtract(p) \/ FindNoRounds(p)
               \/ SkipComplete(p) \/ BeginScope(p) \/ ExtractDone(p) \/ Fetch(p)
               \/ SaveCheckpoint(p) \/ ListKeys(p)
        PROVE  LoadsFromLake'
    <3>1. UNCHANGED <<lake, raw, dead, txn>>
      BY <2>5 DEF Start, Finish, BeginLoadOnly, BeginExtract, FindNoRounds, SkipComplete, BeginScope,
                  ExtractDone, Fetch, SaveCheckpoint, ListKeys
    <3>2. QED BY <2>3, <3>1
  <2>6. ASSUME NEW p \in Procs,
               \/ BeginNoRounds(p) \/ FetchFails(p) \/ ListNothing(p) \/ Crash(p)
        PROVE  LoadsFromLake'
    <3>1. UNCHANGED <<lake, raw, dead>>
      BY <2>6 DEF BeginNoRounds, FetchFails, ListNothing, Crash
    <3>2. txn' = [txn EXCEPT ![p] = {}]
      BY <2>6 DEF BeginNoRounds, FetchFails, ListNothing, Crash, EntityDone, ClearWork
    <3>3. QED BY <2>3, <3>1, <3>2 DEF TypeOK
  <2>7. ASSUME NEW p \in Procs, Put(p) PROVE LoadsFromLake'
    <3>1. Knows(p) /\ LakeInv
      BY <2>7 DEF Put, PagesInv, Extracting
    <3>2. LakeGrows
      BY <2>7, <3>1, PutKeepsObjects
    <3>3. UNCHANGED <<raw, dead, txn>>
      BY <2>7 DEF Put
    <3>4. QED BY <2>1, <2>2, <3>2, <3>3
  <2>8. ASSUME NEW p \in Procs, LoadObject(p) PROVE LoadsFromLake'
    <3>1. PICK k \in keys[p] : txn' = [txn EXCEPT ![p] = @ \cup lake[k]]
      BY <2>8 DEF LoadObject
    <3>2. lake[k] \subseteq Old
      BY DEF TypeOK, Old, RowsIn
    <3>3. \A q \in Procs : txn'[q] \subseteq Old
      BY <2>2, <3>1, <3>2 DEF TypeOK
    <3>4. UNCHANGED <<lake, raw, dead>>
      BY <2>8 DEF LoadObject
    <3>5. QED BY <2>1, <2>2, <3>3, <3>4 DEF LakeGrows
  <2>9. ASSUME NEW p \in Procs, CommitLoad(p) PROVE LoadsFromLake'
    <3>1. /\ raw' = raw \cup (txn[p] \ BadRows) /\ dead' = dead \cup (txn[p] \cap BadRows)
          /\ lake' = lake /\ txn' = [txn EXCEPT ![p] = {}]
      BY <2>9 DEF CommitLoad, EntityDone, ClearWork
    <3>2. raw' \cup dead' \subseteq Old /\ \A q \in Procs : txn'[q] \subseteq Old
      BY <2>2, <3>1 DEF TypeOK
    <3>3. QED BY <2>1, <3>1, <3>2 DEF LakeGrows
  <2>10. CASE UNCHANGED vars
    BY <2>3, <2>10 DEF vars
  <2>11. QED
    BY <2>4, <2>5, <2>6, <2>7, <2>8, <2>9, <2>10 DEF Next, Work
<1>3. QED
  BY <1>1, <1>2, PagesInvariant, ScopesInvariant, TypeCorrect, PTL DEF Spec

THEOREM RebuildableFromLake == Spec /\ []Orderly => []WarehouseFromLake
<1>1. LoadsFromLake => WarehouseFromLake
  BY DEF LoadsFromLake
<1>2. QED
  BY <1>1, LoadsInvariant, PTL

-----------------------------------------------------------------------------
(***************************************************************************)
(* Race-scoped work is only ever done for rounds of the committed          *)
(* schedule: those a run still has to extract, the one it is extracting    *)
(* and those it has landed, whenever the results are published.            *)
(***************************************************************************)
RoundsInv ==
    /\ RoundsAreScheduled
    /\ \A p \in Procs :
          (pc[p] = "scope" \/ Extracting(p)) /\ Entity(p) \in RaceScoped =>
             /\ todo[p] \subseteq ScheduledRounds
             /\ Extracting(p) => scope[p] \in ScheduledRounds

THEOREM RoundsAreScheduledHolds == Spec => []RoundsAreScheduled
<1>1. Init => RoundsInv
  BY DEF Init, RoundsInv, RoundsAreScheduled, Extracting
<1>2. TypeOK /\ RoundsInv /\ [Next]_vars => RoundsInv'
  <2> SUFFICES ASSUME TypeOK, RoundsInv, [Next]_vars PROVE RoundsInv'
    OBVIOUS
  <2> USE DEF source, store, warehouse, fetching, loading
  \* The schedule is never taken back.
  <2>1. ASSUME raw \subseteq raw' PROVE ScheduledRounds \subseteq ScheduledRounds'
    BY <2>1 DEF ScheduledRounds
  <2>2. ASSUME raw \subseteq raw', DOMAIN lake' = DOMAIN lake PROVE RoundsAreScheduled'
    BY <2>2 DEF RoundsInv, RoundsAreScheduled
  \* A step of p that may only shrink its todo, and extracts a scope out of it.
  <2>3. ASSUME NEW p \in Procs, raw \subseteq raw', RoundsAreScheduled',
               \A q \in Procs \ {p} : /\ pc'[q] = pc[q] /\ pos'[q] = pos[q]
                                      /\ todo'[q] = todo[q] /\ scope'[q] = scope[q],
               \/ pc'[p] \notin {"scope", "fetch", "put", "checkpoint"}
               \/ /\ pos'[p] = pos[p]
                  /\ Entity(p) \in RaceScoped =>
                        /\ todo'[p] \subseteq ScheduledRounds
                        /\ pc'[p] \in {"fetch", "put", "checkpoint"} =>
                              scope'[p] \in ScheduledRounds
        PROVE  RoundsInv'
    BY <2>1, <2>3 DEF RoundsInv, Entity, Extracting
  <2>4. CASE RaceDay \/ Publish
    <3>1. UNCHANGED <<raw, lake, pc, pos, todo, scope>>
      BY <2>4 DEF RaceDay, Publish
    <3>2. QED BY <2>1, <2>2, <3>1 DEF RoundsInv, Entity, Extracting
  <2>5. ASSUME NEW p \in Procs,
               \/ Start(p) \/ Finish(p) \/ BeginNoRounds(p) \/ FetchFails(p)
               \/ ListNothing(p) \/ CommitLoad(p) \/ Crash(p)
        PROVE  RoundsInv'
    <3>1. raw \subseteq raw' /\ lake' = lake
      BY <2>5 DEF Start, Finish, BeginNoRounds, FetchFails, ListNothing, CommitLoad, Crash
    <3>2. pc'[p] \in {"down", "entity"}
      BY <2>5 DEF Start, Finish, BeginNoRounds, FetchFails, ListNothing, CommitLoad, Crash,
                  EntityDone, TypeOK
    <3>3. \A q \in Procs \ {p} : /\ pc'[q] = pc[q] /\ pos'[q] = pos[q]
                                 /\ todo'[q] = todo[q] /\ scope'[q] = scope[q]
      BY <2>5 DEF Start, Finish, BeginNoRounds, FetchFails, ListNothing, CommitLoad, Crash,
                  EntityDone, ClearWork, TypeOK
    <3>4. QED BY <2>2, <2>3, <3>1, <3>2, <3>3
  <2>6. ASSUME NEW p \in Procs, BeginExtract(p) PROVE RoundsInv'
    <3>1. Entity(p) \in RaceScoped => todo'[p] \subseteq ScheduledRounds
      BY <2>6 DEF BeginExtract, RunRounds, TypeOK
    <3>2. QED BY <2>2, <2>3, <2>6, <3>1 DEF BeginExtract, TypeOK
  <2>7. ASSUME NEW p \in Procs, BeginLoadOnly(p) \/ FindNoRounds(p) PROVE RoundsInv'
    BY <2>2, <2>3, <2>7 DEF BeginLoadOnly, FindNoRounds, TypeOK
  <2>8. ASSUME NEW p \in Procs, SkipComplete(p) PROVE RoundsInv'
    <3>1. todo'[p] \subseteq todo[p] /\ pc[p] = "scope" /\ pc' = pc /\ pos' = pos /\ scope' = scope
      BY <2>8 DEF SkipComplete, NextScope, TypeOK
    <3>2. \A q \in Procs \ {p} : todo'[q] = todo[q]
      BY <2>8 DEF SkipComplete, NextScope, TypeOK
    <3>3. UNCHANGED <<raw, lake>>
      BY <2>8 DEF SkipComplete
    <3>4. QED BY <2>2, <2>3, <3>1, <3>2, <3>3 DEF RoundsInv
  <2>9. ASSUME NEW p \in Procs, BeginScope(p) PROVE RoundsInv'
    <3>1. PICK s \in todo[p] : NextScope(p, s) /\ scope' = [scope EXCEPT ![p] = s]
      BY <2>9 DEF BeginScope
    <3>2. /\ pc[p] = "scope" /\ todo' = [todo EXCEPT ![p] = @ \ {s}]
          /\ pc' = [pc EXCEPT ![p] = "fetch"] /\ pos' = pos /\ UNCHANGED <<raw, lake>>
      BY <2>9, <3>1 DEF BeginScope, NextScope
    <3>3. Entity(p) \in RaceScoped =>
             todo'[p] \subseteq ScheduledRounds /\ scope'[p] \in ScheduledRounds
      BY <3>1, <3>2 DEF RoundsInv, TypeOK
    <3>4. QED BY <2>2, <2>3, <3>1, <3>2, <3>3 DEF TypeOK
  <2>10. ASSUME NEW p \in Procs, ExtractDone(p) \/ ListKeys(p) \/ LoadObject(p)
         PROVE  RoundsInv'
    <3>1. UNCHANGED <<raw, lake, pos, todo, scope>>
      BY <2>10 DEF ExtractDone, ListKeys, LoadObject
    <3>2. pc'[p] \in {"list", "load"} /\ \A q \in Procs \ {p} : pc'[q] = pc[q]
      BY <2>10 DEF ExtractDone, ListKeys, LoadObject, TypeOK
    <3>3. QED BY <2>2, <2>3, <3>1, <3>2
  <2>11. ASSUME NEW p \in Procs, Fetch(p) \/ SaveCheckpoint(p) PROVE RoundsInv'
    <3>1. UNCHANGED <<raw, lake, pos, todo, scope>>
      BY <2>11 DEF Fetch, SaveCheckpoint
    <3>2. Extracting(p) /\ \A q \in Procs \ {p} : pc'[q] = pc[q]
      BY <2>11 DEF Fetch, SaveCheckpoint, Extracting, TypeOK
    <3>3. QED BY <2>2, <2>3, <3>1, <3>2 DEF RoundsInv
  <2>12. ASSUME NEW p \in Procs, Put(p) PROVE RoundsInv'
    <3> DEFINE k == Key(Entity(p), scope[p], offset[p], run[p].date)
    <3>1. Extracting(p) /\ \A q \in Procs \ {p} : pc'[q] = pc[q]
      BY <2>12 DEF Put, Extracting, TypeOK
    <3>2. UNCHANGED <<raw, pos, todo, scope>> /\ DOMAIN lake' = DOMAIN lake \cup {k}
      BY <2>12 DEF Put
    <3>3. k.entity = Entity(p) /\ k.scope = scope[p]
      BY DEF Key
    <3>4. Entity(p) \in RaceScoped => scope[p] \in ScheduledRounds
      BY <3>1 DEF RoundsInv
    <3>5. RoundsAreScheduled'
      BY <3>2, <3>3, <3>4 DEF RoundsInv, RoundsAreScheduled, ScheduledRounds
    <3>6. QED BY <2>3, <3>1, <3>2, <3>5 DEF RoundsInv
  <2>13. CASE UNCHANGED vars
    BY <2>13 DEF vars, RoundsInv, RoundsAreScheduled, ScheduledRounds, Entity, Extracting
  <2>14. QED
    BY <2>4, <2>5, <2>6, <2>7, <2>8, <2>9, <2>10, <2>11, <2>12, <2>13 DEF Next, Work
<1>3. RoundsInv => RoundsAreScheduled
  BY DEF RoundsInv
<1>4. QED
  BY <1>1, <1>2, <1>3, TypeCorrect, PTL DEF Spec

-----------------------------------------------------------------------------
(***************************************************************************)
(* A run that resumes stays at or behind no page its checkpoint covers:    *)
(* with no other run beside it, only its own pages move the checkpoint.    *)
(***************************************************************************)
ResumeInv ==
    \A p \in Procs :
        Extracting(p) /\ run[p].resume =>
            /\ Checkpoint(p, scope[p]).status # "complete"
            /\ offset[p] >= Checkpoint(p, scope[p]).next

(***************************************************************************)
(* Resuming does not spend the budget twice, for runs that do not overlap, *)
(* whenever results are published.                                         *)
(***************************************************************************)
THEOREM ResumeHolds == Spec /\ []Alone => []ResumeNeverRefetches
<1>1. Init => ResumeInv
  BY DEF Init, ResumeInv, Extracting
<1>2. TypeOK /\ ResumeInv /\ Alone /\ [Next]_vars => ResumeInv'
  <2> SUFFICES ASSUME TypeOK, ResumeInv, Alone, [Next]_vars PROVE ResumeInv'
    OBVIOUS
  <2> USE DEF source, store, warehouse, fetching, loading
  \* A run that is at the same page, as is its checkpoint.
  <2> DEFINE Stays(q) == /\ Extracting(q) /\ run'[q] = run[q] /\ pos'[q] = pos[q]
                         /\ scope'[q] = scope[q] /\ offset'[q] = offset[q]
             Fresh(q) == run'[q].resume =>
                            /\ ckpt'[Order[pos'[q]]][scope'[q]].status # "complete"
                            /\ offset'[q] >= ckpt'[Order[pos'[q]]][scope'[q]].next
  <2>1. ASSUME \A q \in Procs : Extracting(q)' => Fresh(q) \/ (Stays(q) /\ UNCHANGED ckpt)
        PROVE  ResumeInv'
    <3>1. ASSUME NEW q \in Procs, Extracting(q)' PROVE Fresh(q)
      BY <2>1, <3>1 DEF ResumeInv, Checkpoint, Entity
    <3>2. QED BY <3>1 DEF ResumeInv, Checkpoint, Entity
  <2>2. CASE RaceDay \/ Publish \/ UNCHANGED vars
    <3>1. UNCHANGED <<ckpt, pc, run, pos, scope, offset>>
      BY <2>2 DEF RaceDay, Publish, vars
    <3>2. QED BY <2>1, <3>1 DEF Extracting
  <2>3. ASSUME NEW p \in Procs,
               \/ Start(p) \/ Finish(p) \/ BeginNoRounds(p) \/ FindNoRounds(p) \/ BeginLoadOnly(p)
               \/ BeginExtract(p) \/ SkipComplete(p) \/ ExtractDone(p) \/ ListKeys(p)
               \/ ListNothing(p) \/ LoadObject(p) \/ CommitLoad(p) \/ Crash(p)
        PROVE  ResumeInv'
    <3>1. UNCHANGED ckpt /\ ~Extracting(p)'
      BY <2>3 DEF Start, Finish, BeginNoRounds, FindNoRounds, BeginLoadOnly, BeginExtract, SkipComplete,
                  ExtractDone, ListKeys, ListNothing, LoadObject, CommitLoad, Crash,
                  NextScope, EntityDone, TypeOK, Extracting
    <3>2. \A q \in Procs \ {p} : Extracting(q)' => Stays(q)
      BY <2>3 DEF Start, Finish, BeginNoRounds, FindNoRounds, BeginLoadOnly, BeginExtract, SkipComplete,
                  ExtractDone, ListKeys, ListNothing, LoadObject, CommitLoad, Crash,
                  NextScope, EntityDone, ClearWork, TypeOK, Extracting
    <3>3. QED BY <2>1, <3>1, <3>2
  <2>4. ASSUME NEW p \in Procs, BeginScope(p) PROVE ResumeInv'
    <3>1. PICK s \in todo[p] :
             /\ ~(run[p].resume /\ Checkpoint(p, s).status = "complete")
             /\ scope' = [scope EXCEPT ![p] = s]
             /\ offset' = [offset EXCEPT ![p] = IF run[p].resume THEN Checkpoint(p, s).next ELSE 0]
      BY <2>4 DEF BeginScope
    <3>2. pc' = [pc EXCEPT ![p] = "fetch"] /\ UNCHANGED <<ckpt, run, pos>>
      BY <2>4 DEF BeginScope
    <3>3. s \in Scopes /\ Entity(p) \in Entities
      BY <2>4, <3>1 DEF BeginScope, NextScope, TypeOK, Entity, Entities
    <3>4. Checkpoint(p, s).next \in Nat /\ scope'[p] = s
      BY <3>1, <3>3 DEF Checkpoint, TypeOK, Checkpoints
    <3>5. Fresh(p)
      BY <3>1, <3>2, <3>4 DEF Checkpoint, Entity, TypeOK
    <3>6. \A q \in Procs \ {p} : Extracting(q)' => Stays(q)
      BY <3>1, <3>2 DEF Extracting
    <3>7. QED BY <2>1, <3>2, <3>5, <3>6
  <2>5. ASSUME NEW p \in Procs, Fetch(p) \/ Put(p) PROVE ResumeInv'
    <3>1. UNCHANGED <<ckpt, run, pos, scope, offset>>
      BY <2>5 DEF Fetch, Put
    <3>2. \A q \in Procs : Extracting(q)' => Extracting(q)
      BY <2>5 DEF Fetch, Put, Extracting, TypeOK
    <3>3. QED BY <2>1, <3>1, <3>2
  \* The two steps that write a checkpoint, with no other run to see it.
  <2>6. ASSUME NEW p \in Procs, FetchFails(p) \/ SaveCheckpoint(p),
               NEW q \in Procs, Extracting(q)'
        PROVE  q = p /\ SaveCheckpoint(p)
    <3>1. pc[p] # "down"
      BY <2>6 DEF FetchFails, SaveCheckpoint
    <3>2. q # p => pc[q] # "down"
      BY <2>6 DEF FetchFails, SaveCheckpoint, EntityDone, Extracting, TypeOK
    <3>3. FetchFails(p) => pc'[p] = "entity"
      BY DEF FetchFails, EntityDone, TypeOK
    <3>4. QED BY <2>6, <3>1, <3>2, <3>3 DEF Alone, Extracting
  <2>7. ASSUME NEW p \in Procs, SaveCheckpoint(p), Extracting(p)' PROVE Fresh(p)
    <3>1. ~LastPage(p) /\ offset'[p] = offset[p] + Limit /\ UNCHANGED <<scope, run, pos>>
      BY <2>7 DEF SaveCheckpoint, TypeOK, Extracting
    <3>2. ckpt' = [ckpt EXCEPT ![Entity(p)][scope[p]] =
                      [next |-> offset[p] + Limit, total |-> total[p], status |-> "in_progress"]]
      BY <2>7, <3>1 DEF SaveCheckpoint
    <3>3. scope[p] \in Scopes /\ Entity(p) \in Entities /\ offset[p] + Limit \in Nat
      <4>1. pc[p] = "checkpoint"
        BY <2>7 DEF SaveCheckpoint
      <4>2. pos[p] \in DOMAIN Order /\ scope[p] \in Scopes /\ offset[p] \in Nat
        BY <4>1 DEF TypeOK
      <4>3. Order[pos[p]] \in Entities
        BY <4>2 DEF Entities
      <4>4. offset[p] + Limit \in Nat
        BY <4>2, SourceAssumption
      <4>5. QED BY <4>2, <4>3, <4>4 DEF Entity
    <3>4. ckpt'[Entity(p)][scope[p]] =
             [next |-> offset[p] + Limit, total |-> total[p], status |-> "in_progress"]
      BY <3>2, <3>3 DEF TypeOK
    <3>5. QED BY <3>1, <3>3, <3>4 DEF Entity
  <2>8. ASSUME NEW p \in Procs, FetchFails(p) \/ SaveCheckpoint(p) PROVE ResumeInv'
    <3> HIDE DEF Stays, Fresh
    <3>1. QED BY <2>1, <2>6, <2>7, <2>8
  <2>9. QED
    BY <2>2, <2>3, <2>4, <2>5, <2>8 DEF Next, Work
<1>3. ResumeInv => ResumeNeverRefetches
  BY DEF ResumeInv, ResumeNeverRefetches, Extracting
<1>4. QED
  BY <1>1, <1>2, <1>3, TypeCorrect, PTL DEF Spec

-----------------------------------------------------------------------------
(***************************************************************************)
(* THE PROMISE.  Exit code 0 is the truth, and the pipeline implements     *)
(* Replica, under the Conditions below and as long as runs are Orderly:    *)
(* they do not overlap, or results are there by race day.                  *)
(*                                                                         *)
(* The schedule is selected before the entities that need it, and its rows *)
(* have usable keys; runs that resume pin one partition, as tasks.py       *)
(* backfill has them do, and are for a season whose results are all out: a *)
(* scope that was empty when its checkpoint was completed is skipped.      *)
(***************************************************************************)
ScheduleFirst ==
    /\ \A i \in DOMAIN Order : Order[i] \in RaceScoped => \E j \in 1 .. i - 1 : Order[j] = Races
    /\ \A r \in Rounds : Row(Races, Whole, r) \notin BadRows
OnePartition == \A r \in Runs : r.resume => \A d \in Dates : d = r.date
NothingLate == Lag => \A r \in Runs : ~r.resume
Conditions == ScheduleFirst /\ OnePartition /\ NothingLate

Working == {"scope", "fetch", "put", "checkpoint"}

\* What a run has to load of an entity, and what its partition has of it.
Of(p, e) == {r \in due[p] : r[1] = e}
Part(p, e) == RowsIn(Landed(e, run[p].date))

\* What a run has still to extract.
Pending(p, r) ==
    /\ pc[p] \in Working
    /\ \/ r[2] \in todo[p]
       \/ Extracting(p) /\ r[2] = scope[p] /\ offset[p] < r[3]

\* What the source and the database hold.
WorldInv ==
    /\ dead \subseteq BadRows
    /\ \A k \in DOMAIN lake : lake[k] \subseteq SourceRows

\* What a run was asked for.
Asked(p) ==
    IF pc[p] = "down" THEN pos[p] = 1 ELSE
    /\ exit[p] = "none"
    /\ \A r \in due[p] : r[1] \in Entities
    /\ run[p].loadOnly => \A r \in due[p] : r \in Part(p, r[1])
    /\ ~run[p].loadOnly =>
          /\ due[p] \subseteq SourceRows
          /\ Races \in Entities => \A n \in Rounds : Row(Races, Whole, n) \in due[p]

\* What it works on.
Works(p) == pc[p] \in Working =>
    /\ ~run[p].loadOnly
    /\ todo[p] \subseteq ScopesOf(Entity(p))
    /\ Extracting(p) => scope[p] \in ScopesOf(Entity(p))

\* A page it has fetched is a full one if it has to load rows of that scope.
Fetched(p) == pc[p] \in {"put", "checkpoint"} =>
    \A r \in Of(p, Entity(p)) : r[2] = scope[p] => total[p] = Size[Entity(p)][scope[p]]

\* Where the rows it has to load are, as long as no entity has failed: those
\* of the entities it has done with, and those of the one it is at.
Earlier(p) == \A i \in 1 .. pos[p] - 1 : Of(p, Order[i]) \subseteq raw \cup dead
Current(p) ==
    /\ pc[p] \in Working \cup {"list"} =>
          \A r \in Of(p, Entity(p)) : r \in Part(p, Entity(p)) \/ Pending(p, r)
    /\ pc[p] = "load" => Of(p, Entity(p)) \subseteq txn[p] \cup RowsIn(keys[p])
    /\ pc[p] = "schedule" => Of(p, Entity(p)) = {}
Accounted(p) == ~failed[p] => Earlier(p) /\ Current(p)

RunInv(p) == Asked(p) /\ Works(p) /\ Fetched(p) /\ Accounted(p)

IInv ==
    /\ WorldInv
    /\ \A p \in Procs : RunInv(p)
    /\ ExitZeroMeansLoaded

-----------------------------------------------------------------------------
(***************************************************************************)
(* The rows of the source.                                                 *)
(***************************************************************************)
LEMMA SourceRow ==
  /\ \A r \in SourceRows : /\ r[1] \in Entities /\ r[2] \in ScopesOf(r[1])
                           /\ r[3] \in 1 .. Total(r[1], r[2]) /\ r = Row(r[1], r[2], r[3])
                           /\ r[1] \in RaceScoped => r[2] \in published
  /\ \A e \in Entities : \A s \in ScopesOf(e) : \A i \in 1 .. Total(e, s) :
        Row(e, s, i) \in SourceRows
  /\ \A e \in Entities : \A s \in ScopesOf(e) :
        /\ s \in Scopes /\ Size[e][s] \in Nat /\ Total(e, s) \in {0, Size[e][s]}
<1>1. ASSUME NEW e \in Entities, NEW s \in ScopesOf(e)
      PROVE  /\ s \in Scopes /\ Size[e][s] \in Nat /\ Total(e, s) \in {0, Size[e][s]}
             /\ <<e, s>> \in EntityScopes
  BY SourceAssumption DEF ScopesOf, Scopes, Total, EntityScopes
<1>2. ASSUME NEW r \in SourceRows
      PROVE  /\ r[1] \in Entities /\ r[2] \in ScopesOf(r[1])
             /\ r[3] \in 1 .. Total(r[1], r[2]) /\ r = Row(r[1], r[2], r[3])
  <2>1. PICK es \in EntityScopes : r \in RowsUpTo(es[1], es[2], Total(es[1], es[2]))
    BY DEF SourceRows
  <2>2. es[1] \in Entities /\ es[2] \in ScopesOf(es[1])
    BY DEF EntityScopes
  <2>3. PICK i \in 1 .. Total(es[1], es[2]) : r = <<es[1], es[2], i>>
    BY <2>1 DEF RowsUpTo, Row
  <2>4. QED BY <2>2, <2>3 DEF Row
<1>3. ASSUME NEW e \in Entities, NEW s \in ScopesOf(e), NEW i \in 1 .. Total(e, s)
      PROVE  Row(e, s, i) \in SourceRows
  <2>1. Row(e, s, i) \in RowsUpTo(e, s, Total(e, s))
    BY DEF RowsUpTo
  <2> DEFINE es == <<e, s>>
  <2>2. es \in EntityScopes /\ es[1] = e /\ es[2] = s
    BY <1>1
  <2> HIDE DEF es
  <2>3. QED BY <2>1, <2>2 DEF SourceRows
<1>4. ASSUME NEW r \in SourceRows, r[1] \in RaceScoped PROVE r[2] \in published
  BY <1>2, <1>4 DEF Total
<1>5. QED BY <1>1, <1>2, <1>3, <1>4

(***************************************************************************)
(* A step of one run leaves the others where they are.                     *)
(***************************************************************************)
Still(q) ==
    /\ pc'[q] = pc[q] /\ run'[q] = run[q] /\ due'[q] = due[q] /\ pos'[q] = pos[q]
    /\ todo'[q] = todo[q] /\ scope'[q] = scope[q] /\ offset'[q] = offset[q] /\ total'[q] = total[q]
    /\ keys'[q] = keys[q] /\ txn'[q] = txn[q]
    /\ failed'[q] = failed[q] /\ exit'[q] = exit[q]

LEMMA OthersStill ==
  ASSUME TypeOK, NEW p \in Procs, Start(p) \/ Work(p) \/ FetchFails(p) \/ Crash(p),
         NEW q \in Procs \ {p}
  PROVE  Still(q)
<1> USE DEF Still, TypeOK, fetching, loading
<1>1. CASE \/ Start(p) \/ Finish(p) \/ BeginLoadOnly(p) \/ BeginExtract(p) \/ FindNoRounds(p)
         \/ ExtractDone(p)
  BY <1>1 DEF Start, Finish, BeginLoadOnly, BeginExtract, FindNoRounds, ExtractDone
<1>2. CASE SkipComplete(p) \/ BeginScope(p)
  BY <1>2 DEF SkipComplete, BeginScope, NextScope
<1>3. CASE Fetch(p) \/ Put(p)
  BY <1>3 DEF Fetch, Put
<1>4. CASE SaveCheckpoint(p)
  BY <1>4 DEF SaveCheckpoint
<1>5. CASE ListKeys(p) \/ LoadObject(p)
  BY <1>5 DEF ListKeys, LoadObject
<1>6. CASE BeginNoRounds(p) \/ ListNothing(p) \/ CommitLoad(p) \/ FetchFails(p) \/ Crash(p)
  BY <1>6 DEF BeginNoRounds, ListNothing, CommitLoad, FetchFails, Crash, EntityDone, ClearWork
<1>7. QED BY <1>1, <1>2, <1>3, <1>4, <1>5, <1>6 DEF Work

(***************************************************************************)
(* The world only grows: results, objects, rows and dead letters.          *)
(***************************************************************************)
Grows ==
    /\ published \subseteq published' /\ raw \subseteq raw' /\ dead \subseteq dead'
    /\ LakeGrows

LEMMA WorldGrows ==
  ASSUME TypeOK, ScopesInv, PagesInv, [Next]_vars
  PROVE  Grows
<1> USE DEF source, store, warehouse, Grows, LakeGrows
<1>1. CASE RaceDay \/ Publish
  BY <1>1 DEF RaceDay, Publish
<1>2. ASSUME NEW p \in Procs, Put(p) PROVE Grows
  <2>1. Knows(p) /\ LakeInv
    BY <1>2 DEF Put, PagesInv, Extracting
  <2>2. LakeGrows
    BY <1>2, <2>1, PutKeepsObjects
  <2>3. QED BY <1>2, <2>2 DEF Put
<1>3. ASSUME NEW p \in Procs, Start(p) \/ (Work(p) /\ ~Put(p)) \/ FetchFails(p) \/ Crash(p)
      PROVE  Grows
  BY <1>3 DEF Start, Work, BeginLoadOnly, BeginExtract, FindNoRounds, BeginNoRounds, Finish, SkipComplete,
              BeginScope, ExtractDone, Fetch, SaveCheckpoint, ListKeys, ListNothing, LoadObject,
              CommitLoad, FetchFails, Crash
<1>4. CASE UNCHANGED vars
  BY <1>4 DEF vars
<1>5. QED BY <1>1, <1>2, <1>3, <1>4 DEF Next, Work

LEMMA SourceGrows ==
  ASSUME Grows
  PROVE  /\ SourceRows \subseteq SourceRows'
         /\ \A e, d : RowsIn(Landed(e, d)) \subseteq RowsIn(Landed(e, d))'
         /\ \A ks : ks \subseteq DOMAIN lake => RowsIn(ks) \subseteq UNION {lake'[k] : k \in ks}
<1>1. ASSUME NEW r \in SourceRows PROVE r \in SourceRows'
  <2>1. PICK es \in EntityScopes : r \in RowsUpTo(es[1], es[2], Total(es[1], es[2]))
    BY DEF SourceRows
  <2>2. PICK i \in 1 .. Total(es[1], es[2]) : r = Row(es[1], es[2], i)
    BY <2>1 DEF RowsUpTo
  <2>3. i \in 1 .. Total(es[1], es[2])'
    BY <2>2 DEF Total, Grows
  <2>4. QED BY <2>2, <2>3 DEF SourceRows, RowsUpTo
<1>2. ASSUME NEW e, NEW d PROVE RowsIn(Landed(e, d)) \subseteq RowsIn(Landed(e, d))'
  BY DEF Grows, LakeGrows, RowsIn, Landed
<1>3. ASSUME NEW ks, ks \subseteq DOMAIN lake
      PROVE  RowsIn(ks) \subseteq UNION {lake'[k] : k \in ks}
  BY <1>3 DEF Grows, LakeGrows, RowsIn
<1>4. QED BY <1>1, <1>2, <1>3

(***************************************************************************)
(* A run that does not move keeps what is known of it, and one that goes   *)
(* on what it was asked for and what it has done with.                     *)
(***************************************************************************)
LEMMA Undisturbed ==
  ASSUME TypeOK, Grows, NEW q \in Procs, Still(q), RunInv(q)
  PROVE  RunInv(q)'
<1>1. /\ Entity(q)' = Entity(q) /\ Extracting(q)' = Extracting(q)
      /\ \A e : Of(q, e)' = Of(q, e)
      /\ \A r : Pending(q, r)' = Pending(q, r)
  BY DEF Still, Entity, Extracting, Of, Pending
<1>2. \A e : Part(q, e) \subseteq Part(q, e)'
  BY SourceGrows DEF Still, Part
<1>3. RowsIn(keys[q]) \subseteq RowsIn(keys[q])'
  BY SourceGrows DEF Still, RowsIn, TypeOK
<1>4. Asked(q)' /\ Works(q)' /\ Fetched(q)'
  BY <1>1, <1>2, SourceGrows DEF Still, RunInv, Asked, Works, Fetched
<1>5. ASSUME ~failed[q] PROVE Earlier(q)' /\ Current(q)'
  <2>1. Earlier(q)'
    BY <1>1, <1>5 DEF RunInv, Accounted, Earlier, Still, Grows
  <2>2. Current(q)'
    BY <1>1, <1>2, <1>3, <1>5 DEF RunInv, Accounted, Current, Still
  <2>3. QED BY <2>1, <2>2
<1>6. QED BY <1>4, <1>5 DEF RunInv, Accounted, Still

LEMMA GoesOn ==
  ASSUME TypeOK, Grows, NEW p \in Procs, RunInv(p), pc[p] # "down", pc'[p] # "down",
         UNCHANGED <<run, due, pos, failed, exit>>,
         Works(p)', Fetched(p)', ~failed[p] => Current(p)'
  PROVE  RunInv(p)'
<1>1. \A e : Of(p, e)' = Of(p, e)
  BY DEF Of
<1>2. \A e : Part(p, e) \subseteq Part(p, e)'
  BY SourceGrows DEF Part
<1>3. Asked(p)'
  BY <1>2, SourceGrows DEF RunInv, Asked
<1>4. ~failed[p] => Earlier(p)'
  BY <1>1 DEF RunInv, Accounted, Earlier, Grows
<1>5. QED BY <1>3, <1>4 DEF RunInv, Accounted

\* It may be done with an entity when all it has of it to load is loaded.
LEMMA DoneWith ==
  ASSUME TypeOK, Grows, NEW p \in Procs, RunInv(p), pc[p] # "down", pos[p] \in DOMAIN Order,
         NEW ok \in BOOLEAN, EntityDone(p, ok), UNCHANGED <<run, due, exit>>,
         ok /\ ~failed[p] => Of(p, Entity(p)) \subseteq raw' \cup dead'
  PROVE  RunInv(p)'
<1>1. pc'[p] = "entity" /\ pos'[p] = pos[p] + 1
  BY DEF EntityDone, TypeOK
<1>2. \A e : Of(p, e)' = Of(p, e)
  BY DEF Of
<1>3. \A e : Part(p, e) \subseteq Part(p, e)'
  BY SourceGrows DEF Part
<1>4. Asked(p)' /\ Works(p)' /\ Fetched(p)'
  BY <1>1, <1>3, SourceGrows DEF RunInv, Asked, Works, Working, Fetched
<1>5. ~failed'[p] => ok /\ ~failed[p]
  BY Zenon DEF EntityDone, TypeOK
<1>6. ~failed'[p] => Earlier(p)'
  <2>1. ASSUME ok, ~failed[p] PROVE Earlier(p)'
    <3>1. SUFFICES ASSUME NEW i \in 1 .. pos'[p] - 1
                   PROVE  Of(p, Order[i])' \subseteq raw' \cup dead'
      BY DEF Earlier
    <3>2. CASE i = pos[p]
      BY <1>2, <2>1, <3>2 DEF Entity
    <3>3. CASE i # pos[p]
      <4>1. i \in 1 .. pos[p] - 1
        BY <1>1, <3>1, <3>3 DEF TypeOK
      <4>2. QED BY <1>2, <2>1, <4>1 DEF RunInv, Accounted, Earlier, Grows
    <3>4. QED BY <3>2, <3>3
  <2>2. QED BY <1>5, <2>1
<1>7. Current(p)'
  BY <1>1 DEF Current, Working
<1>8. QED BY <1>4, <1>6, <1>7 DEF RunInv, Accounted

-----------------------------------------------------------------------------
(***************************************************************************)
(* What is known when a run takes a step.                                  *)
(***************************************************************************)
Known == TypeOK /\ ScopesInv /\ PagesInv /\ LoadsFromLake /\ IInv

\* A run that resumes finds what a checkpoint vouches for in its partition.
LEMMA ResumedPart ==
  ASSUME OnePartition, TypeOK, LakeInv, NEW p \in Procs, run[p].resume,
         NEW e, NEW s, NEW i, InLake(e, s, i)
  PROVE  Row(e, s, i) \in Part(p, e)
<1>1. PICK k \in DOMAIN lake : Row(e, s, i) \in lake[k]
  BY DEF InLake
<1>2. k.entity = e
  <2>1. PICK t : lake[k] = PageRows(k.entity, k.scope, k.offset, t)
    BY DEF LakeInv
  <2>2. QED BY <1>1, <2>1 DEF PageRows, Row
<1>3. k.date = run[p].date
  BY DEF OnePartition, TypeOK, Keys
<1>4. QED BY <1>1, <1>2, <1>3 DEF Part, RowsIn, Landed

\* The rounds a run has rows of are found in the schedule it has loaded.
LEMMA RoundsFound ==
  ASSUME ScheduleFirst, TypeOK, WorldInv, NEW p \in Procs, RunInv(p),
         pc[p] = "entity", pos[p] \in DOMAIN Order, ~run[p].loadOnly, ~failed[p],
         Entity(p) \in RaceScoped, NEW r \in Of(p, Entity(p))
  PROVE  r[2] \in RunRounds
<1>1. r \in SourceRows /\ r[1] = Entity(p)
  BY DEF RunInv, Asked, Of
<1>2. r[2] \in raced /\ r[2] \in Rounds
  BY <1>1, SourceRow DEF TypeOK, ScopesOf
<1>3. PICK j \in 1 .. pos[p] - 1 : Order[j] = Races
  BY DEF ScheduleFirst, Entity
<1>4. Races \in Entities
  <2>1. j \in DOMAIN Order
    BY SourceAssumption DEF TypeOK
  <2>2. QED BY <1>3, <2>1 DEF Entities
<1>5. Row(Races, Whole, r[2]) \in Of(p, Races)
  BY <1>2, <1>4 DEF RunInv, Asked, Of, Row
<1>6. Row(Races, Whole, r[2]) \in raw \cup dead
  BY <1>3, <1>5 DEF RunInv, Accounted, Earlier
<1>7. QED BY <1>2, <1>6 DEF ScheduleFirst, WorldInv, RunRounds, ScheduledRounds

-----------------------------------------------------------------------------
(***************************************************************************)
(* The steps of a run between entities.                                    *)
(***************************************************************************)
LEMMA Starting ==
  ASSUME Known, Grows, NEW p \in Procs, Start(p)
  PROVE  RunInv(p)'
<1>1. PICK o \in Runs : run' = [run EXCEPT ![p] = o] /\ due' = [due EXCEPT ![p] = DueRows(o)]
  BY DEF Start
<1>2. /\ pc'[p] = "entity" /\ exit'[p] = "none" /\ run'[p] = o /\ due'[p] = DueRows(o)
      /\ pos'[p] = 1 /\ lake' = lake /\ published' = published
  BY <1>1 DEF Known, IInv, RunInv, Asked, Start, TypeOK, store, source
<1>3. CASE o.loadOnly
  <2>1. ASSUME NEW r \in due'[p]
        PROVE  r[1] \in Entities /\ r \in Part(p, r[1])'
    <3>1. PICK k \in DOMAIN lake : k.date = o.date /\ r \in lake[k]
      BY <1>2, <1>3, <2>1 DEF DueRows, RowsIn
    <3>2. k.entity \in Entities /\ r[1] = k.entity
      <4>1. PICK t : lake[k] = PageRows(k.entity, k.scope, k.offset, t)
        BY DEF Known, PagesInv, LakeInv
      <4>2. r[1] = k.entity
        BY <3>1, <4>1 DEF PageRows, Row
      <4>3. QED BY <4>2 DEF Known, TypeOK, Keys
    <3>3. k \in Landed(r[1], o.date)
      BY <3>1, <3>2 DEF Landed
    <3>4. QED BY <1>2, <3>1, <3>2, <3>3 DEF Part, RowsIn, Landed
  <2>2. Asked(p)'
    BY <1>2, <1>3, <2>1 DEF Asked
  <2>3. QED BY <1>2, <2>2 DEF RunInv, Works, Fetched, Accounted, Earlier, Current, Working
<1>4. CASE ~o.loadOnly
  <2>1. due'[p] = SourceRows /\ SourceRows \subseteq SourceRows'
    BY <1>2, <1>4, SourceGrows DEF DueRows
  <2>2. ASSUME Races \in Entities, NEW n \in Rounds
        PROVE  Row(Races, Whole, n) \in SourceRows
    <3>1. Whole \in ScopesOf(Races) /\ n \in 1 .. Total(Races, Whole)
      BY <2>2, SourceAssumption DEF ScopesOf, Total, Rounds
    <3>2. QED BY <2>2, <3>1, SourceRow
  <2>3. Asked(p)'
    BY <1>2, <1>4, <2>1, <2>2, SourceRow DEF Asked
  <2>4. QED BY <1>2, <2>3 DEF RunInv, Works, Fetched, Accounted, Earlier, Current, Working
<1>5. QED BY <1>3, <1>4

LEMMA Ending ==
  ASSUME Known, NEW p \in Procs, Finish(p) \/ Crash(p)
  PROVE  RunInv(p)' /\ (exit'[p] = "ok" => due'[p] \subseteq raw' \cup dead')
<1>1. pc'[p] = "down" /\ pos'[p] = 1 /\ UNCHANGED <<due, raw, dead>>
  BY DEF Known, TypeOK, Finish, Crash, warehouse
<1>2. RunInv(p)'
  BY <1>1 DEF RunInv, Asked, Works, Fetched, Accounted, Earlier, Current, Working
<1>3. ASSUME exit'[p] = "ok", NEW r \in due[p] PROVE r \in raw \cup dead
  <2>1. Finish(p)
    BY <1>3 DEF Crash, Known, TypeOK
  <2>2. ~failed[p] /\ pc[p] = "entity" /\ pos[p] > Len(Order)
    BY <1>3, <2>1 DEF Finish, Known, TypeOK
  <2>3. r[1] \in Entities
    BY <1>3, <2>2 DEF Known, IInv, RunInv, Asked
  <2>4. PICK i \in DOMAIN Order : Order[i] = r[1]
    BY <2>3 DEF Entities
  <2>5. i \in 1 .. pos[p] - 1
    <3>1. pos[p] \in 1 .. Len(Order) + 1 /\ Len(Order) \in Nat /\ i \in 1 .. Len(Order)
      BY SourceAssumption DEF Known, TypeOK
    <3>2. QED BY <2>2, <3>1
  <2>6. Of(p, Order[i]) \subseteq raw \cup dead
    BY <2>2, <2>5 DEF Known, IInv, RunInv, Accounted, Earlier
  <2>7. QED BY <1>3, <2>4, <2>6 DEF Of
<1>4. QED BY <1>1, <1>2, <1>3

LEMMA Beginning ==
  ASSUME ScheduleFirst, Known, Grows, NEW p \in Procs,
         BeginLoadOnly(p) \/ BeginExtract(p) \/ FindNoRounds(p)
  PROVE  RunInv(p)'
<1>1. /\ TypeOK /\ WorldInv /\ RunInv(p) /\ pc[p] = "entity"
      /\ pos[p] \in DOMAIN Order /\ Entity(p) \in Entities
  <2>1. pc[p] = "entity" /\ pos[p] \in 1 .. Len(Order) + 1 /\ pos[p] <= Len(Order)
    BY DEF BeginLoadOnly, BeginExtract, FindNoRounds, Selecting, Known, TypeOK
  <2>2. pos[p] \in DOMAIN Order
    BY <2>1, SourceAssumption
  <2>3. QED BY <2>1, <2>2 DEF Known, IInv, Entity, Entities
<1>2. CASE BeginLoadOnly(p)
  <2>1. pc'[p] = "list" /\ UNCHANGED <<run, due, pos, failed, exit, lake>>
    BY <1>1, <1>2 DEF BeginLoadOnly, TypeOK, store
  <2>2. ~failed[p] => Current(p)'
    <3>1. \A r \in Of(p, Entity(p)) : r \in Part(p, Entity(p))
      BY <1>1, <1>2 DEF BeginLoadOnly, RunInv, Asked, Of
    <3>2. QED BY <2>1, <3>1 DEF Current, Of, Entity, Part, RowsIn, Landed
  <2>3. Works(p)' /\ Fetched(p)'
    BY <2>1 DEF Works, Working, Fetched
  <2>4. QED BY <1>1, <2>1, <2>2, <2>3, GoesOn
<1>3. CASE BeginExtract(p)
  <2>1. /\ pc'[p] = "scope" /\ UNCHANGED <<run, due, pos, failed, exit, lake>>
        /\ todo'[p] = IF Entity(p) \in RaceScoped THEN RunRounds ELSE {Whole}
        /\ ~run[p].loadOnly
    BY <1>1, <1>3 DEF BeginExtract, TypeOK, store
  <2>2. Works(p)' /\ Fetched(p)'
    BY <2>1 DEF Works, Fetched, Extracting, Entity, ScopesOf, RunRounds, ScheduledRounds
  <2>3. ASSUME ~failed[p], NEW r \in Of(p, Entity(p)) PROVE r[2] \in todo'[p]
    <3>1. CASE Entity(p) \in RaceScoped
      BY <1>1, <2>1, <2>3, <3>1, RoundsFound
    <3>2. CASE Entity(p) \notin RaceScoped
      <4>1. r \in SourceRows /\ r[1] = Entity(p)
        BY <1>1, <2>1, <2>3 DEF RunInv, Asked, Of
      <4>2. QED BY <2>1, <3>2, <4>1, SourceRow DEF ScopesOf
    <3>3. QED BY <3>1, <3>2
  <2>4. ~failed[p] => Current(p)'
    BY <2>1, <2>3 DEF Current, Pending, Working, Of, Entity
  <2>5. QED BY <1>1, <2>1, <2>2, <2>4, GoesOn
<1>4. CASE FindNoRounds(p)
  <2>1. /\ pc'[p] = "schedule" /\ UNCHANGED <<run, due, pos, failed, exit, lake>>
        /\ ~run[p].loadOnly /\ Entity(p) \in RaceScoped /\ RunRounds = {}
    BY <1>1, <1>4 DEF FindNoRounds, TypeOK, store
  <2>2. ~failed[p] => Of(p, Entity(p)) = {}
    BY <1>1, <2>1, RoundsFound
  <2>3. Works(p)' /\ Fetched(p)'
    BY <2>1 DEF Works, Working, Fetched
  <2>4. ~failed[p] => Current(p)'
    BY <2>1, <2>2 DEF Current, Working, Of, Entity
  <2>5. QED BY <1>1, <2>1, <2>3, <2>4, GoesOn
<1>5. QED BY <1>2, <1>3, <1>4

LEMMA NoneToFetch ==
  ASSUME Known, Grows, NEW p \in Procs, BeginNoRounds(p)
  PROVE  RunInv(p)'
<1>1. TypeOK /\ RunInv(p) /\ pc[p] = "schedule" /\ pos[p] \in DOMAIN Order
  BY SourceAssumption DEF BeginNoRounds, Known, TypeOK, IInv
<1>2. EntityDone(p, ScheduledRounds # {}) /\ UNCHANGED <<run, due, exit>>
  BY DEF BeginNoRounds
<1>3. ~failed[p] => Of(p, Entity(p)) = {}
  BY <1>1 DEF RunInv, Accounted, Current
<1>4. (ScheduledRounds # {}) \in BOOLEAN
  OBVIOUS
<1>5. QED BY <1>1, <1>2, <1>3, <1>4, DoneWith

(***************************************************************************)
(* The steps of an extraction.                                             *)
(***************************************************************************)
LEMMA Choosing ==
  ASSUME OnePartition, NothingLate, Known, Grows, NEW p \in Procs, SkipComplete(p) \/ BeginScope(p)
  PROVE  RunInv(p)'
<1> DEFINE e == Entity(p)
<1>1. PICK s \in todo[p] :
         /\ NextScope(p, s)
         /\ \/ /\ pc' = pc /\ UNCHANGED <<scope, offset>>
               /\ run[p].resume /\ Checkpoint(p, s).status = "complete"
            \/ /\ pc' = [pc EXCEPT ![p] = "fetch"]
               /\ scope' = [scope EXCEPT ![p] = s]
               /\ offset' = [offset EXCEPT ![p] = IF run[p].resume THEN Checkpoint(p, s).next ELSE 0]
  BY DEF SkipComplete, BeginScope
<1>2. /\ pc[p] = "scope" /\ UNCHANGED <<run, due, pos, failed, exit, lake>>
      /\ todo'[p] = todo[p] \ {s} /\ RunInv(p) /\ TypeOK /\ LakeInv
  BY <1>1 DEF NextScope, SkipComplete, BeginScope, store, Known, TypeOK, IInv, PagesInv
<1>3. e \in Entities /\ s \in ScopesOf(e) /\ s \in Scopes /\ Size[e][s] \in Nat
  <2>1. e \in Entities
    BY <1>2 DEF TypeOK, Entity, Entities
  <2>2. s \in ScopesOf(e)
    BY <1>1, <1>2 DEF RunInv, Works, Working
  <2>3. QED BY <2>1, <2>2, SourceRow
<1>4. Tells(Checkpoint(p, s), e, s) /\ Checkpoint(p, s).next \in Nat
  BY <1>2, <1>3 DEF Known, PagesInv, Checkpoint, TypeOK, Checkpoints
<1>5. \/ pc'[p] = "scope"
      \/ pc'[p] = "fetch" /\ scope'[p] = s
  BY <1>1, <1>2 DEF TypeOK
<1>6. Works(p)' /\ Fetched(p)'
  BY <1>2, <1>3, <1>5 DEF RunInv, Works, Fetched, Working, Extracting, Entity
<1>7. ASSUME NEW r \in Of(p, e), r[2] = s
      PROVE  r \in Part(p, e) \/ (pc'[p] = "fetch" /\ scope'[p] = s /\ offset'[p] < r[3])
  <2>1. r \in SourceRows /\ r[1] = e
    BY <1>2 DEF RunInv, Works, Working, Asked, Of
  <2>2. r = Row(e, s, r[3]) /\ r[3] \in 1 .. Size[e][s]
    BY <1>3, <1>7, <2>1, SourceRow
  <2>3. ASSUME run[p].resume, r[3] <= Checkpoint(p, s).next PROVE r \in Part(p, e)
    <3>1. InLake(e, s, r[3])
      <4>1. Checkpoint(p, s).total \in {None, Size[e][s]}
        BY <1>2, <1>3, <1>4, <2>3, AnswerFacts DEF NothingLate, TypeOK, Tells
      <4>2. r[3] <= Covered(Checkpoint(p, s))
        BY <1>3, <2>2, <2>3, <4>1 DEF Covered
      <4>3. r[3] \in 1 .. Covered(Checkpoint(p, s))
        BY <1>3, <1>4, <2>2, <4>1, <4>2 DEF Covered
      <4>4. QED BY <1>4, <2>2, <4>3 DEF Tells, Behind
    <3>2. Row(e, s, r[3]) \in Part(p, e)
      BY <1>2, <2>3, <3>1, ResumedPart
    <3>3. QED BY <2>2, <3>2
  <2>4. CASE pc'[p] = "scope"
    <3>1. run[p].resume /\ Checkpoint(p, s).status = "complete"
      BY <1>1, <1>2, <2>4 DEF TypeOK
    <3>2. r[3] <= Checkpoint(p, s).next
      <4>1. Checkpoint(p, s).total = Size[e][s]
        BY <1>2, <1>3, <1>4, <3>1, AnswerFacts DEF NothingLate, TypeOK, Tells
      <4>2. QED BY <1>3, <1>4, <2>2, <3>1, <4>1 DEF Tells
    <3>3. QED BY <2>3, <3>1, <3>2
  <2>5. CASE pc'[p] = "fetch" /\ scope'[p] = s
    <3>1. offset'[p] = IF run[p].resume THEN Checkpoint(p, s).next ELSE 0
      BY <1>1, <1>2, <2>5 DEF TypeOK
    <3>2. QED BY <1>3, <1>4, <2>2, <2>3, <2>5, <3>1
  <2>6. QED BY <1>5, <2>4, <2>5
<1>8. ~failed[p] => Current(p)'
  <2>1. SUFFICES ASSUME ~failed[p], NEW r \in Of(p, e)
                 PROVE  r \in Part(p, e) \/ Pending(p, r)'
    BY <1>2, <1>5 DEF Current, Of, Entity, Part, RowsIn, Landed
  <2>2. r \in Part(p, e) \/ r[2] \in todo[p]
    BY <1>2, <2>1 DEF RunInv, Accounted, Current, Pending, Extracting, Working
  <2>3. CASE r[2] = s
    BY <1>7, <2>1, <2>3 DEF Pending, Working, Extracting
  <2>4. CASE r[2] # s
    BY <1>2, <1>5, <2>2, <2>4 DEF Pending, Working
  <2>5. QED BY <2>3, <2>4
<1>9. QED BY <1>2, <1>5, <1>6, <1>8, GoesOn

LEMMA ExtractSteps ==
  ASSUME Known, Grows, NEW p \in Procs, ExtractDone(p) \/ Fetch(p) \/ Put(p)
  PROVE  RunInv(p)'
<1>1. /\ UNCHANGED <<run, due, pos, failed, exit, todo, scope, offset>>
      /\ RunInv(p) /\ TypeOK /\ pc[p] \in Working
  BY DEF ExtractDone, Fetch, Put, Known, IInv, fetching, Working
<1>2. /\ Extracting(p)' => Extracting(p)
      /\ pc'[p] \in Working => (Extracting(p)' <=> Extracting(p))
      /\ pc'[p] \in Working \/ (pc'[p] = "list" /\ pc[p] = "scope" /\ todo[p] = {})
  BY <1>1 DEF ExtractDone, Fetch, Put, Extracting, TypeOK, Working
<1>3. Works(p)' /\ Fetched(p)'
  <2>1. Works(p)'
    BY <1>1, <1>2 DEF RunInv, Works, Entity
  <2>2. Of(p, Entity(p))' = Of(p, Entity(p)) /\ Entity(p)' = Entity(p) /\ scope' = scope
    BY <1>1 DEF Of, Entity
  <2>3. CASE Fetch(p)
    <3>1. /\ total'[p] = Total(Entity(p), scope[p]) /\ pc[p] = "fetch" /\ ~run[p].loadOnly
      BY <1>1, <2>3 DEF Fetch, TypeOK, RunInv, Works
    <3>2. ASSUME NEW r \in Of(p, Entity(p)), r[2] = scope[p]
          PROVE  total'[p] = Size[Entity(p)][scope[p]]
      <4>1. r \in SourceRows /\ r[1] = Entity(p)
        BY <1>1, <3>1 DEF RunInv, Asked, Of
      <4>2. r[3] \in 1 .. Total(Entity(p), scope[p]) /\ scope[p] \in ScopesOf(Entity(p))
            /\ Entity(p) \in Entities
        BY <3>2, <4>1, SourceRow
      <4>3. Total(Entity(p), scope[p]) \in {0, Size[Entity(p)][scope[p]]}
        BY <4>2, SourceRow
      <4>4. QED BY <3>1, <4>2, <4>3
    <3>3. QED BY <2>1, <2>2, <3>2 DEF Fetched
  <2>4. CASE Put(p)
    <3>1. pc[p] = "put" /\ total' = total
      BY <2>4 DEF Put, fetching
    <3>2. QED BY <1>1, <2>1, <2>2, <3>1 DEF RunInv, Fetched
  <2>5. CASE ExtractDone(p)
    <3>1. pc'[p] = "list"
      BY <1>1, <2>5 DEF ExtractDone, TypeOK
    <3>2. QED BY <2>1, <3>1 DEF Fetched
  <2>6. QED BY <2>3, <2>4, <2>5
<1>4. ~failed[p] => Current(p)'
  <2>1. SUFFICES ASSUME ~failed[p], NEW r \in Of(p, Entity(p))
                 PROVE  r \in Part(p, Entity(p))' \/ Pending(p, r)'
    BY <1>1, <1>2 DEF Current, Of, Entity, Working
  <2>2. r \in Part(p, Entity(p)) \/ Pending(p, r)
    BY <1>1, <2>1 DEF RunInv, Accounted, Current
  <2>3. Part(p, Entity(p)) \subseteq Part(p, Entity(p))'
    BY <1>1, SourceGrows DEF Part, Entity
  <2>4. Pending(p, r) => Pending(p, r)'
    BY <1>1, <1>2 DEF Pending, Extracting
  <2>5. QED BY <2>2, <2>3, <2>4
<1>5. QED BY <1>1, <1>2, <1>3, <1>4, GoesOn DEF Working

LEMMA Saving ==
  ASSUME Known, Grows, NEW p \in Procs, SaveCheckpoint(p)
  PROVE  RunInv(p)'
<1> DEFINE e == Entity(p)
           k == Key(e, scope[p], offset[p], run[p].date)
<1>1. /\ pc[p] = "checkpoint" /\ Extracting(p)
      /\ UNCHANGED <<run, due, pos, failed, exit, todo, scope, lake>>
      /\ RunInv(p) /\ TypeOK /\ LakeInv /\ Knows(p)
  BY DEF SaveCheckpoint, Known, IInv, fetching, PagesInv, Extracting
<1>2. /\ e \in Entities /\ scope[p] \in ScopesOf(e) /\ offset[p] \in Nat
      /\ Size[e][scope[p]] \in Nat /\ total[p] \in Nat
  <2>1. e \in Entities
    BY <1>1 DEF TypeOK, Entity, Entities
  <2>2. scope[p] \in ScopesOf(e)
    BY <1>1 DEF RunInv, Works, Working
  <2>3. QED BY <1>1, <2>1, <2>2, SourceRow DEF TypeOK
<1>3. \/ LastPage(p) /\ pc'[p] = "scope"
      \/ ~LastPage(p) /\ pc'[p] = "fetch" /\ offset'[p] = offset[p] + Limit
  BY <1>1 DEF SaveCheckpoint, TypeOK
<1>4. k \in DOMAIN lake /\ PageRows(e, scope[p], offset[p], total[p]) \subseteq lake[k]
  BY <1>1 DEF Knows
<1>5. Works(p)' /\ Fetched(p)'
  BY <1>1, <1>2, <1>3 DEF RunInv, Works, Fetched, Working, Extracting, Entity
\* The page it has landed holds the rows up to the next offset.
<1>6. ASSUME NEW r \in Of(p, e), r[2] = scope[p], offset[p] < r[3],
             LastPage(p) \/ r[3] <= offset[p] + Limit
      PROVE  r \in Part(p, e)
  <2>1. r \in SourceRows /\ r[1] = e
    BY <1>1 DEF RunInv, Works, Working, Asked, Of
  <2>2. r = Row(e, scope[p], r[3]) /\ r[3] \in 1 .. Size[e][scope[p]]
    BY <1>2, <1>6, <2>1, SourceRow
  <2>3. total[p] = Size[e][scope[p]]
    BY <1>1, <1>6 DEF RunInv, Fetched
  <2>4. r[3] \in offset[p] + 1 .. PageEnd(offset[p], total[p])
    BY <1>2, <1>6, <2>2, <2>3, SourceAssumption DEF LastPage, PageEnd
  <2>5. r \in lake[k]
    BY <1>4, <2>2, <2>4 DEF PageRows
  <2>6. k \in Landed(e, run[p].date)
    BY <1>4 DEF Landed, Key
  <2>7. QED BY <2>5, <2>6 DEF Part, RowsIn
<1>7. ~failed[p] => Current(p)'
  <2>1. SUFFICES ASSUME ~failed[p], NEW r \in Of(p, e)
                 PROVE  r \in Part(p, e) \/ Pending(p, r)'
    BY <1>1, <1>3 DEF Current, Of, Entity, Part, RowsIn, Landed
  <2>2. \/ r \in Part(p, e) \/ r[2] \in todo[p]
        \/ r[2] = scope[p] /\ offset[p] < r[3]
    BY <1>1, <2>1 DEF RunInv, Accounted, Current, Pending, Working
  <2>3. CASE r[2] \in todo[p]
    BY <1>1, <1>3, <2>3 DEF Pending, Working
  <2>4. CASE r[2] = scope[p] /\ offset[p] < r[3]
    <3>1. CASE LastPage(p) \/ r[3] <= offset[p] + Limit
      BY <1>6, <2>1, <2>4, <3>1
    <3>2. CASE ~LastPage(p) /\ ~(r[3] <= offset[p] + Limit)
      <4>1. r[3] \in Nat
        <5>1. r \in SourceRows
          BY <1>1 DEF RunInv, Works, Working, Asked, Of
        <5>2. Total(r[1], r[2]) \in Nat
          BY <5>1, SourceRow
        <5>3. QED BY <5>1, <5>2, SourceRow
      <4>2. offset'[p] < r[3]
        BY <1>2, <1>3, <3>2, <4>1, SourceAssumption
      <4>3. QED BY <1>1, <1>3, <2>4, <3>2, <4>2 DEF Pending, Working, Extracting
    <3>3. QED BY <3>1, <3>2
  <2>5. QED BY <2>2, <2>3, <2>4
<1>8. QED BY <1>1, <1>3, <1>5, <1>7, GoesOn

(***************************************************************************)
(* The steps of a load, and of an entity that is given up.                 *)
(***************************************************************************)
LEMMA LoadSteps ==
  ASSUME Known, Grows, NEW p \in Procs,
         ListKeys(p) \/ LoadObject(p) \/ ListNothing(p) \/ CommitLoad(p) \/ FetchFails(p)
  PROVE  RunInv(p)'
<1> DEFINE e == Entity(p)
<1>1. RunInv(p) /\ TypeOK /\ pc[p] \in {"list", "load", "fetch"} /\ pos[p] \in DOMAIN Order
  BY DEF ListKeys, LoadObject, ListNothing, CommitLoad, FetchFails, Known, IInv, TypeOK
<1>2. ASSUME pc[p] = "list", ~failed[p] PROVE Of(p, e) \subseteq Part(p, e)
  BY <1>1, <1>2 DEF RunInv, Accounted, Current, Pending, Working
<1>3. ASSUME pc[p] = "load", ~failed[p] PROVE Of(p, e) \subseteq txn[p] \cup RowsIn(keys[p])
  BY <1>1, <1>3 DEF RunInv, Accounted, Current
<1>4. CASE ListKeys(p) \/ LoadObject(p)
  <2>1. pc'[p] = "load" /\ UNCHANGED <<run, due, pos, failed, exit, lake>>
    BY <1>1, <1>4 DEF ListKeys, LoadObject, store, TypeOK
  <2>2. Works(p)' /\ Fetched(p)'
    BY <2>1 DEF Works, Working, Fetched
  <2>3. ASSUME ~failed[p]
        PROVE  Of(p, e) \subseteq txn'[p] \cup UNION {lake[k] : k \in keys'[p]}
    <3>1. CASE ListKeys(p)
      <4>1. keys'[p] = Landed(e, run[p].date) /\ pc[p] = "list"
        BY <1>1, <3>1 DEF ListKeys, TypeOK
      <4>2. QED BY <1>2, <2>3, <4>1 DEF Part, RowsIn
    <3>2. CASE LoadObject(p)
      <4>1. PICK k \in keys[p] : txn'[p] = txn[p] \cup lake[k] /\ keys'[p] = keys[p] \ {k}
        BY <1>1, <3>2 DEF LoadObject, TypeOK
      <4>2. pc[p] = "load"
        BY <3>2 DEF LoadObject
      <4>3. Of(p, e) \subseteq txn[p] \cup RowsIn(keys[p])
        BY <1>3, <2>3, <4>2
      <4>4. QED BY <4>1, <4>3 DEF RowsIn
    <3>3. QED BY <1>4, <3>1, <3>2
  <2>4. ~failed[p] => Current(p)'
    BY <2>1, <2>3 DEF Current, Of, Entity, RowsIn, Working
  <2>5. QED BY <1>1, <2>1, <2>2, <2>4, GoesOn
<1>5. CASE ListNothing(p)
  <2>1. pc[p] = "list" /\ Landed(e, run[p].date) = {} /\ EntityDone(p, TRUE)
        /\ UNCHANGED <<run, due, exit>>
    BY <1>5 DEF ListNothing
  <2>2. ~failed[p] => Of(p, e) = {}
    BY <1>2, <2>1 DEF Part, RowsIn
  <2>3. QED BY <1>1, <2>1, <2>2, DoneWith
<1>6. CASE CommitLoad(p)
  <2>1. /\ pc[p] = "load" /\ keys[p] = {} /\ EntityDone(p, TRUE)
        /\ raw' \cup dead' = raw \cup dead \cup txn[p] /\ UNCHANGED <<run, due, exit>>
    BY <1>6 DEF CommitLoad
  <2>2. ~failed[p] => Of(p, e) \subseteq raw' \cup dead'
    BY <1>3, <2>1 DEF RowsIn
  <2>3. QED BY <1>1, <2>1, <2>2, DoneWith
<1>7. CASE FetchFails(p)
  <2>1. EntityDone(p, FALSE) /\ UNCHANGED <<run, due, exit>>
    BY <1>7 DEF FetchFails
  <2>2. QED BY <1>1, <2>1, DoneWith
<1>8. QED BY <1>4, <1>5, <1>6, <1>7

-----------------------------------------------------------------------------
(***************************************************************************)
(* The world, and the invariant as a whole.                                *)
(***************************************************************************)
LEMMA WorldKept ==
  ASSUME Known, Grows, [Next]_vars
  PROVE  WorldInv'
<1> USE DEF source, store, warehouse
<1>1. WorldInv /\ SourceRows \subseteq SourceRows'
  BY SourceGrows DEF Known, IInv
<1>2. ASSUME UNCHANGED <<lake, dead>> PROVE WorldInv'
  BY <1>1, <1>2 DEF WorldInv
<1>3. ASSUME NEW p \in Procs, Put(p) PROVE WorldInv'
  <2> DEFINE e == Entity(p)
             page == PageRows(e, scope[p], offset[p], total[p])
  <2>1. /\ pc[p] = "put" /\ Extracting(p) /\ dead' = dead
        /\ \A k \in DOMAIN lake' : lake'[k] = page \/ (k \in DOMAIN lake /\ lake'[k] = lake[k])
    BY <1>3 DEF Put, Extracting
  <2>2. /\ e \in Entities /\ scope[p] \in ScopesOf(e) /\ offset[p] \in Nat
        /\ total[p] \in {0, Total(e, scope[p])} /\ Total(e, scope[p]) \in Nat
    <3>1. e \in Entities /\ scope[p] \in ScopesOf(e)
      BY <2>1 DEF Known, TypeOK, Entity, Entities, IInv, RunInv, Works, Working
    <3>2. total[p] \in Answers(e, scope[p])
      BY <2>1 DEF Known, PagesInv, Knows
    <3>3. ~Lag /\ e \in RaceScoped => scope[p] \in published
      BY <2>1 DEF Known, ScopesInv
    <3>4. total[p] \in {0, Total(e, scope[p])}
      BY <3>2, <3>3, SourceAssumption DEF Answers, Total
    <3>5. Size[e][scope[p]] \in Nat /\ Total(e, scope[p]) \in {0, Size[e][scope[p]]}
      BY <3>1, SourceRow
    <3>6. offset[p] \in Nat
      BY DEF Known, TypeOK
    <3>7. QED BY <3>1, <3>4, <3>5, <3>6
  <2>3. page \subseteq SourceRows
    <3>1. offset[p] + 1 .. PageEnd(offset[p], total[p]) \subseteq 1 .. Total(e, scope[p])
      BY <2>2, SourceAssumption DEF PageEnd
    <3>2. QED BY <2>2, <3>1, SourceRow DEF PageRows
  <2>4. QED BY <1>1, <2>1, <2>3 DEF WorldInv
<1>4. ASSUME NEW p \in Procs, CommitLoad(p) PROVE WorldInv'
  BY <1>1, <1>4 DEF CommitLoad, WorldInv
<1>5. CASE RaceDay \/ Publish
  BY <1>2, <1>5 DEF RaceDay, Publish
<1>6. ASSUME NEW p \in Procs,
             \/ Start(p) \/ FetchFails(p) \/ Crash(p)
             \/ Work(p) /\ ~Put(p) /\ ~CommitLoad(p)
      PROVE  WorldInv'
  BY <1>2, <1>6 DEF Start, Work, BeginLoadOnly, BeginExtract, FindNoRounds, BeginNoRounds, Finish,
                    SkipComplete, BeginScope, ExtractDone, Fetch, SaveCheckpoint, ListKeys,
                    ListNothing, LoadObject, FetchFails, Crash
<1>7. CASE UNCHANGED vars
  BY <1>2, <1>7 DEF vars
<1>8. QED BY <1>3, <1>4, <1>5, <1>6, <1>7 DEF Next, Work

\* A step of a run, for the run itself.
LEMMA OwnStep ==
  ASSUME Conditions, Known, Grows, NEW p \in Procs,
         Start(p) \/ Work(p) \/ FetchFails(p) \/ Crash(p)
  PROVE  RunInv(p)' /\ (exit'[p] = "ok" => due'[p] \subseteq raw' \cup dead')
<1>1. CASE Finish(p) \/ Crash(p)
  BY <1>1, Ending
<1>2. CASE Start(p)
  BY <1>2, Starting DEF Start, Known, TypeOK
<1>3. CASE (Work(p) /\ ~Finish(p)) \/ FetchFails(p)
  <2>1. RunInv(p)'
    BY <1>3, Beginning, NoneToFetch, Choosing, ExtractSteps, Saving, LoadSteps DEF Conditions, Work
  <2>2. UNCHANGED <<exit, due>>
    BY <1>3 DEF Work, BeginLoadOnly, BeginExtract, FindNoRounds, BeginNoRounds, SkipComplete, BeginScope,
                ExtractDone, Fetch, Put, SaveCheckpoint, ListKeys, ListNothing, LoadObject,
                CommitLoad, FetchFails
  <2>3. QED BY <2>1, <2>2 DEF Known, IInv, ExitZeroMeansLoaded, Grows
<1>4. QED BY <1>1, <1>2, <1>3

LEMMA Invariant == Conditions => (Spec /\ []Orderly => []Known)
<1> SUFFICES ASSUME Conditions PROVE Spec /\ []Orderly => []Known
  OBVIOUS
<1>1. Init => IInv
  BY DEF Init, IInv, WorldInv, RunInv, Asked, Works, Fetched, Accounted, Earlier, Current, Working,
         ExitZeroMeansLoaded
<1>2. Known /\ [Next]_vars => IInv'
  <2> SUFFICES ASSUME Known, [Next]_vars PROVE IInv'
    OBVIOUS
  <2>1. Grows /\ WorldInv'
    BY WorldGrows, WorldKept DEF Known
  <2>2. ASSUME NEW q \in Procs, Still(q)
        PROVE  RunInv(q)' /\ (exit'[q] = "ok" => due'[q] \subseteq raw' \cup dead')
    <3>1. RunInv(q)'
      BY <2>1, <2>2, Undisturbed DEF Known, IInv
    <3>2. QED BY <2>1, <2>2, <3>1 DEF Known, IInv, ExitZeroMeansLoaded, Still, Grows
  <2>3. ASSUME NEW q \in Procs
        PROVE  RunInv(q)' /\ (exit'[q] = "ok" => due'[q] \subseteq raw' \cup dead')
    <3>1. CASE RaceDay \/ Publish \/ UNCHANGED vars
      <4>1. Still(q)
        BY <3>1 DEF RaceDay, Publish, vars, Still, fetching, loading
      <4>2. QED BY <2>2, <4>1
    <3>2. ASSUME NEW p \in Procs, Start(p) \/ Work(p) \/ FetchFails(p) \/ Crash(p)
          PROVE  RunInv(q)' /\ (exit'[q] = "ok" => due'[q] \subseteq raw' \cup dead')
      <4>1. CASE p = q
        BY <2>1, <3>2, <4>1, OwnStep
      <4>2. CASE p # q
        BY <2>2, <3>2, <4>2, OthersStill DEF Known
      <4>3. QED BY <4>1, <4>2
    <3>3. QED BY <3>1, <3>2 DEF Next
  <2>4. QED BY <2>1, <2>3 DEF IInv, ExitZeroMeansLoaded
<1>3. Spec /\ []Orderly => [](TypeOK /\ ScopesInv /\ PagesInv /\ LoadsFromLake)
  BY TypeCorrect, ScopesInvariant, PagesInvariant, LoadsInvariant, PTL
<1>4. Known <=> TypeOK /\ ScopesInv /\ PagesInv /\ LoadsFromLake /\ IInv
  BY DEF Known
<1>5. QED
  BY <1>1, <1>2, <1>3, <1>4, PTL DEF Spec

(***************************************************************************)
(* Exit code 0 is the truth: when a run reports success, every row it was  *)
(* asked for is in the warehouse or is a dead letter, whatever became of   *)
(* the runs before it, and whatever other runs are in progress beside it   *)
(* unless results may be late.                                             *)
(***************************************************************************)
THEOREM ExitZeroHolds == Conditions => (Spec /\ []Orderly => []ExitZeroMeansLoaded)
<1>1. Known => ExitZeroMeansLoaded
  BY DEF Known, IInv
<1>2. QED
  BY <1>1, Invariant, PTL

-----------------------------------------------------------------------------
(***************************************************************************)
(* The pipeline implements Replica: every step of it is one of Replica's,  *)
(* or none that Replica can see.                                           *)
(***************************************************************************)
THEOREM PromiseKept ==
  Conditions /\ (\A r \in Runs : ~r.loadOnly) => (Spec /\ []Orderly => ImplementsReplica)
<1> SUFFICES ASSUME Conditions, \A r \in Runs : ~r.loadOnly
             PROVE  Spec /\ []Orderly => ImplementsReplica
  OBVIOUS
<1> USE DEF source, store, warehouse
<1>1. Init => Promise!Init
  <2> SUFFICES ASSUME Init PROVE Promise!Init
    OBVIOUS
  <2>1. SourceRows \subseteq AllRows
    BY SourceRow DEF AllRows, Row, ScopesOf, Scopes
  <2>2. QED BY <2>1 DEF Init, Promise!Init
<1>2. Known /\ Known' /\ [Next]_vars => [Promise!Next]_(Promise!vars)
  <2> SUFFICES ASSUME Known, Known', [Next]_vars PROVE [Promise!Next]_(Promise!vars)
    OBVIOUS
  <2>1. Grows /\ SourceRows \subseteq SourceRows'
    BY WorldGrows, SourceGrows DEF Known
  <2>2. SourceRows' \subseteq AllRows
    <3>1. \A es \in EntityScopes : Total(es[1], es[2])' \in Nat
      BY SourceAssumption DEF EntityScopes, Total
    <3>2. \A es \in EntityScopes : RowsUpTo(es[1], es[2], Total(es[1], es[2])') \subseteq AllRows
      BY <3>1 DEF EntityScopes, RowsUpTo, Row, AllRows
    <3>3. QED BY <3>2 DEF SourceRows
  <2>3. UNCHANGED published => SourceRows' = SourceRows
    BY DEF SourceRows, Total
  <2>4. CASE RaceDay \/ Publish
    <3>1. UNCHANGED <<raw, dead, due, exit>>
      BY <2>4 DEF RaceDay, Publish
    <3>2. Promise!Publish
      BY <2>1, <2>2, <3>1 DEF Promise!Publish
    <3>3. QED BY <3>2 DEF Promise!Next
  <2>5. ASSUME NEW p \in Procs, Start(p) PROVE Promise!Begin(p)
    <3>1. PICK o \in Runs : due' = [due EXCEPT ![p] = DueRows(o)]
      BY <2>5 DEF Start
    <3>2. DueRows(o) = SourceRows
      BY DEF DueRows
    <3>3. exit' = [exit EXCEPT ![p] = "none"] /\ UNCHANGED <<published, raw, dead>>
      BY <2>5 DEF Start
    <3>4. QED BY <2>3, <3>1, <3>2, <3>3 DEF Promise!Begin
  <2>6. ASSUME NEW p \in Procs, Finish(p) PROVE Promise!Succeed(p) \/ Promise!Fail(p)
    <3>1. /\ exit[p] = "none" /\ UNCHANGED <<published, raw, dead, due>>
          /\ exit' = [exit EXCEPT ![p] = IF failed[p] THEN "failed" ELSE "ok"]
      BY <2>6 DEF Finish, Known, IInv, RunInv, Asked
    <3>2. CASE failed[p]
      BY <2>3, <3>1, <3>2 DEF Promise!Fail
    <3>3. CASE ~failed[p]
      <4>1. exit'[p] = "ok"
        BY <3>1, <3>3 DEF Known, TypeOK
      <4>2. due[p] \subseteq raw \cup dead
        BY <3>1, <4>1 DEF Known, IInv, ExitZeroMeansLoaded
      <4>3. QED BY <2>3, <3>1, <3>3, <4>2 DEF Promise!Succeed
    <3>4. QED BY <3>2, <3>3
  <2>7. ASSUME NEW p \in Procs, Crash(p) PROVE Promise!Fail(p)
    <3>1. /\ exit[p] = "none" /\ UNCHANGED <<published, raw, dead, due>>
          /\ exit' = [exit EXCEPT ![p] = "crashed"]
      BY <2>7 DEF Crash, Known, IInv, RunInv, Asked
    <3>2. QED BY <2>3, <3>1 DEF Promise!Fail
  <2>8. ASSUME NEW p \in Procs, CommitLoad(p) PROVE Promise!Copy(p)
    <3>1. /\ exit[p] = "none" /\ UNCHANGED <<published, due, exit>>
          /\ raw' \cup dead' = raw \cup dead \cup txn[p]
      BY <2>8 DEF CommitLoad, Known, IInv, RunInv, Asked
    <3>2. \A k \in DOMAIN lake : lake[k] \subseteq SourceRows
      BY DEF Known, IInv, WorldInv
    <3>3. raw' \cup dead' \subseteq SourceRows
      BY <3>1, <3>2 DEF Known, LoadsFromLake, WarehouseFromLake, RowsIn
    <3>4. QED BY <2>3, <3>1, <3>3 DEF Promise!Copy
  <2>9. ASSUME UNCHANGED <<published, raw, dead, due, exit>> PROVE UNCHANGED Promise!vars
    BY <2>3, <2>9 DEF Promise!vars
  <2>10. ASSUME NEW p \in Procs,
                FetchFails(p) \/ (Work(p) /\ ~Finish(p) /\ ~CommitLoad(p))
         PROVE  UNCHANGED Promise!vars
    <3>1. UNCHANGED <<published, raw, dead, due, exit>>
      BY <2>10 DEF Work, BeginLoadOnly, BeginExtract, FindNoRounds, BeginNoRounds, SkipComplete, BeginScope,
                   ExtractDone, Fetch, Put, SaveCheckpoint, ListKeys, ListNothing, LoadObject,
                   FetchFails
    <3>2. QED BY <2>9, <3>1
  <2>11. CASE UNCHANGED vars
    BY <2>9, <2>11 DEF vars
  <2>12. QED
    BY <2>4, <2>5, <2>6, <2>7, <2>8, <2>10, <2>11 DEF Next, Work, Promise!Next
<1>3. QED
  BY <1>1, <1>2, Invariant, PTL DEF Spec, ImplementsReplica, Promise!Spec

-----------------------------------------------------------------------------
(***************************************************************************)
(* The lake is append-only as far as rows go: no object is ever removed,   *)
(* and a page that is put over another keeps every row of it.              *)
(***************************************************************************)
THEOREM LakeOnlyGrows == Spec /\ []Orderly => [][LakeGrows]_lake
<1>1. TypeOK /\ ScopesInv /\ PagesInv /\ [Next]_vars => [LakeGrows]_lake
  BY WorldGrows DEF Grows
<1>2. Spec /\ []Orderly => [](TypeOK /\ ScopesInv /\ PagesInv)
  BY TypeCorrect, ScopesInvariant, PagesInvariant, PTL
<1>3. QED
  BY <1>1, <1>2, PTL DEF Spec

-----------------------------------------------------------------------------
(***************************************************************************)
(* Runs end: the part of RunsEnd that is not about fairness.  A step of a  *)
(* run lowers its rank, whatever the steps of the source and of the other  *)
(* runs do in between, so a run can take finitely many steps only; and a   *)
(* run that has not ended can take one.  The rank is what is left to do:   *)
(* the entities, and of the entity the stages; the scopes of an extraction *)
(* or the objects of a load; the rows of the scope; the steps of the page. *)
(***************************************************************************)
Stage(p) ==
    IF pc[p] = "entity" THEN 3
    ELSE IF pc[p] = "list" THEN 1 ELSE IF pc[p] = "load" THEN 0 ELSE 2
ToDo(p) == IF Stage(p) = 2 THEN Cardinality(todo[p]) ELSE Cardinality(keys[p])
RowsLeft(p) ==
    IF ~Extracting(p) THEN 0
    ELSE IF offset[p] < Size[Entity(p)][scope[p]] THEN Size[Entity(p)][scope[p]] - offset[p] + 1
    ELSE 1
Turn(p) == IF pc[p] = "fetch" THEN 2 ELSE IF pc[p] = "put" THEN 1 ELSE 0

StagesLeft(p) == 4 * (Len(Order) + 1 - pos[p]) + Stage(p)
Rank(p) == <<StagesLeft(p), ToDo(p), RowsLeft(p), Turn(p)>>
Lower == LexProductOrdering(OpToRel(<, Nat), Nat, 4)

\* What of a process is its own, and that a step of it lowers its rank.
Own(p) == <<pc[p], run[p], due[p], pos[p], todo[p], scope[p], offset[p], total[p],
            keys[p], txn[p], failed[p], exit[p]>>
Descends(p) ==
    pc[p] # "down" /\ pc'[p] # "down" /\ Own(p)' # Own(p) => <<Rank(p)', Rank(p)>> \in Lower

\* The lake is finite, and no answer says more than the source holds.
FiniteInv ==
    /\ IsFiniteSet(DOMAIN lake)
    /\ \A p \in Procs : pc[p] \in {"put", "checkpoint"} => total[p] <= Size[Entity(p)][scope[p]]

LEMMA FiniteInvariant == Spec => []FiniteInv
<1>1. Init => FiniteInv
  <2>1. Init => DOMAIN lake = {}
    BY DEF Init
  <2>2. QED BY <2>1, FS_EmptySet DEF Init, FiniteInv
<1>2. TypeOK /\ FiniteInv /\ [Next]_vars => FiniteInv'
  <2> SUFFICES ASSUME TypeOK, FiniteInv, [Next]_vars PROVE FiniteInv'
    OBVIOUS
  <2>1. ASSUME NEW p \in Procs, Start(p) \/ Work(p) \/ FetchFails(p) \/ Crash(p)
        PROVE  FiniteInv'
    <3>1. \A q \in Procs \ {p} : Still(q)
      BY <2>1, OthersStill
    <3>2. \A q \in Procs \ {p} : pc'[q] \in {"put", "checkpoint"} =>
                                    total'[q] <= Size[Entity(q)'][scope'[q]]
      BY <3>1 DEF FiniteInv, Still, Entity
    <3>3. CASE Put(p)
      <4>1. PICK k : DOMAIN lake' = DOMAIN lake \cup {k}
        BY <3>3 DEF Put
      <4>2. IsFiniteSet(DOMAIN lake')
        BY <4>1, FS_AddElement DEF FiniteInv
      <4>3. pc[p] = "put" /\ UNCHANGED <<total, scope, pos>>
        BY <3>3 DEF Put, fetching
      <4>4. QED BY <3>2, <4>2, <4>3 DEF FiniteInv, Entity
    <3>4. CASE Fetch(p)
      <4>1. /\ total'[p] = Total(Entity(p), scope[p]) /\ UNCHANGED <<scope, pos, lake>>
            /\ pc[p] = "fetch"
        BY <3>4 DEF Fetch, store, TypeOK
      <4>2. Size[Entity(p)][scope[p]] \in Nat
        <5>1. Entity(p) \in Entities /\ scope[p] \in Scopes
          BY <4>1 DEF TypeOK, Entity, Entities
        <5>2. QED BY <5>1, SourceAssumption
      <4>3. total'[p] <= Size[Entity(p)][scope[p]]
        BY <4>1, <4>2 DEF Total
      <4>4. QED BY <3>2, <4>1, <4>3 DEF FiniteInv, Entity
    <3>5. CASE Start(p) \/ (Work(p) /\ ~Put(p) /\ ~Fetch(p)) \/ FetchFails(p) \/ Crash(p)
      <4>1. lake' = lake
        BY <3>5 DEF Start, Work, BeginLoadOnly, BeginExtract, FindNoRounds, BeginNoRounds, Finish,
                    SkipComplete, BeginScope, ExtractDone, SaveCheckpoint, ListKeys,
                    ListNothing, LoadObject, CommitLoad, FetchFails, Crash, store
      <4>2. CASE SkipComplete(p)
        <5>1. pc[p] = "scope" /\ pc' = pc
          BY <4>2 DEF SkipComplete, NextScope
        <5>2. QED BY <3>2, <4>1, <5>1 DEF FiniteInv
      <4>3. CASE LoadObject(p)
        <5>1. pc[p] = "load" /\ pc' = pc
          BY <4>3 DEF LoadObject
        <5>2. QED BY <3>2, <4>1, <5>1 DEF FiniteInv
      <4>4. CASE ~SkipComplete(p) /\ ~LoadObject(p)
        <5>1. pc'[p] \notin {"put", "checkpoint"}
          BY <3>5, <4>4 DEF Start, Work, BeginLoadOnly, BeginExtract, FindNoRounds, BeginNoRounds, Finish,
                    BeginScope, ExtractDone, SaveCheckpoint, ListKeys,
                    ListNothing, CommitLoad, FetchFails, Crash, EntityDone, TypeOK
        <5>2. QED BY <3>2, <4>1, <5>1 DEF FiniteInv
      <4>5. QED BY <4>2, <4>3, <4>4
    <3>6. QED BY <2>1, <3>3, <3>4, <3>5
  <2>2. CASE RaceDay \/ Publish \/ UNCHANGED vars
    <3>1. UNCHANGED <<lake, pc, pos, total, scope>>
      BY <2>2 DEF RaceDay, Publish, vars, store, fetching
    <3>2. QED BY <3>1 DEF FiniteInv, Entity
  <2>3. QED BY <2>1, <2>2 DEF Next
<1>3. QED
  BY <1>1, <1>2, TypeCorrect, PTL DEF Spec

\* The sets a process works off are finite, and its rank is of natural numbers.
LEMMA FiniteWork ==
  ASSUME TypeOK, FiniteInv, NEW p \in Procs
  PROVE  IsFiniteSet(todo[p]) /\ IsFiniteSet(keys[p])
<1>1. IsFiniteSet(Scopes)
  <2>1. IsFiniteSet(1 .. NRounds)
    BY SourceAssumption, FS_Interval
  <2>2. Scopes = 1 .. NRounds \cup {Whole}
    BY DEF Scopes, Rounds
  <2>3. QED BY <2>1, <2>2, FS_AddElement
<1>2. todo[p] \subseteq Scopes /\ keys[p] \subseteq DOMAIN lake
  BY DEF TypeOK
<1>3. IsFiniteSet(DOMAIN lake)
  BY DEF FiniteInv
<1>4. QED BY <1>1, <1>2, <1>3, FS_Subset

RankInv == \A p \in Procs : pc[p] # "down" => Rank(p) \in Nat \X Nat \X Nat \X Nat

LEMMA RankInvariant == Spec => []RankInv
<1> SUFFICES TypeOK /\ FiniteInv => RankInv
  BY TypeCorrect, FiniteInvariant, PTL
<1> SUFFICES ASSUME TypeOK, FiniteInv, NEW p \in Procs, pc[p] # "down"
             PROVE  Rank(p) \in Nat \X Nat \X Nat \X Nat
  BY DEF RankInv
<1>1. Len(Order) \in Nat /\ pos[p] \in 1 .. Len(Order) + 1
  BY SourceAssumption DEF TypeOK
<1>2. Len(Order) + 1 - pos[p] \in Nat
  BY <1>1
<1>3. Stage(p) \in 0 .. 3 /\ Turn(p) \in Nat
  BY DEF Stage, Turn
<1>4. ToDo(p) \in Nat
  BY FiniteWork, FS_CardinalityType DEF ToDo
<1>5. ASSUME Extracting(p) PROVE Size[Entity(p)][scope[p]] \in Nat /\ offset[p] \in Nat
  BY <1>5, SourceAssumption DEF Extracting, TypeOK, Entity, Entities
<1>6. RowsLeft(p) \in Nat
  BY <1>5 DEF RowsLeft
<1>7. QED BY <1>2, <1>3, <1>4, <1>6 DEF Rank, StagesLeft

\* A tuple is lower when it is lower in its first position that differs.
LEMMA LowerTuple ==
  ASSUME NEW a \in Nat, NEW b \in Nat, NEW c \in Nat, NEW d \in Nat,
         NEW w \in Nat, NEW x \in Nat, NEW y \in Nat, NEW z \in Nat,
         \/ a < w
         \/ a = w /\ b < x
         \/ a = w /\ b = x /\ c < y
         \/ a = w /\ b = x /\ c = y /\ d < z
  PROVE  <<<<a, b, c, d>>, <<w, x, y, z>>>> \in Lower
<1> DEFINE f == <<a, b, c, d>>
           g == <<w, x, y, z>>
<1>1. f \in [1 .. 4 -> Nat] /\ g \in [1 .. 4 -> Nat]
  OBVIOUS
<1>2. /\ f[1] = a /\ f[2] = b /\ f[3] = c /\ f[4] = d
      /\ g[1] = w /\ g[2] = x /\ g[3] = y /\ g[4] = z
  OBVIOUS
<1> HIDE DEF f, g
<1>3. PICK j \in 1 .. 4 : (\A i \in 1 .. j - 1 : f[i] = g[i]) /\ f[j] < g[j]
  <2>1. CASE a < w
    <3>1. \A i \in 1 .. 1 - 1 : f[i] = g[i]
      OBVIOUS
    <3>2. f[1] < g[1]
      BY <1>2, <2>1
    <3>3. QED BY <3>1, <3>2
  <2>2. CASE a = w /\ b < x
    <3>1. \A i \in 1 .. 2 - 1 : f[i] = g[i]
      BY <1>2, <2>2
    <3>2. f[2] < g[2]
      BY <1>2, <2>2
    <3>3. QED BY <3>1, <3>2
  <2>3. CASE a = w /\ b = x /\ c < y
    <3>1. \A i \in 1 .. 3 - 1 : f[i] = g[i]
      BY <1>2, <2>3
    <3>2. f[3] < g[3]
      BY <1>2, <2>3
    <3>3. QED BY <3>1, <3>2
  <2>4. CASE a = w /\ b = x /\ c = y /\ d < z
    <3>1. \A i \in 1 .. 4 - 1 : f[i] = g[i]
      BY <1>2, <2>4
    <3>2. f[4] < g[4]
      BY <1>2, <2>4
    <3>3. QED BY <3>1, <3>2
  <2>5. QED BY <2>1, <2>2, <2>3, <2>4
<1>4. f[j] \in Nat /\ g[j] \in Nat
  BY <1>1
<1>5. <<f[j], g[j]>> \in OpToRel(<, Nat)
  BY <1>3, <1>4 DEF OpToRel
<1>6. <<f, g>> \in Lower
  BY <1>1, <1>3, <1>5 DEF Lower, LexProductOrdering
<1>7. QED BY <1>6 DEF f, g

\* Nothing falls forever.
LEMMA LowerIsWellFounded == IsWellFoundedOn(Lower, [1 .. 4 -> Nat])
BY NatLessThanWellFounded, WFLexProductOrdering DEF Lower

LEMMA Least ==
  ASSUME NEW S \in SUBSET Nat, S # {}
  PROVE  \E n \in S : \A m \in S : n <= m
<1>1. PICK n \in S : \A m \in S : ~(<<m, n>> \in OpToRel(<, Nat))
  BY NatLessThanWellFounded, WFMin
<1>2. \A m \in S : ~(m < n)
  BY <1>1 DEF OpToRel
<1>3. QED BY <1>2

\* The orders in which a process works its sets off let it go on.
LEMMA First ==
  ASSUME NEW K \in SUBSET Keys, K # {}
  PROVE  \E k \in K : \A j \in K : Before(k, j)
<1> DEFINE scopes == {k.scope : k \in K}
<1>1. Keys # {} => \A k \in Keys : k.scope \in Nat /\ k.offset \in Nat
  BY SourceAssumption DEF Keys, Scopes, Whole, Rounds
<1>2. PICK s \in scopes : \A t \in scopes : s <= t
  <2>1. scopes \in SUBSET Nat /\ scopes # {}
    BY <1>1
  <2> HIDE DEF scopes
  <2>2. QED BY <2>1, Least
<1> DEFINE offsets == {k.offset : k \in {j \in K : j.scope = s}}
<1>3. PICK o \in offsets : \A t \in offsets : o <= t
  <2>1. offsets \in SUBSET Nat /\ offsets # {}
    BY <1>1, <1>2
  <2> HIDE DEF offsets
  <2>2. QED BY <2>1, Least
<1>4. PICK k \in K : k.scope = s /\ k.offset = o
  BY <1>3
<1>5. ASSUME NEW j \in K PROVE Before(k, j)
  <2>1. k.scope <= j.scope /\ (j.scope = k.scope => k.offset <= j.offset)
    BY <1>2, <1>3, <1>4
  <2>2. k.scope \in Nat /\ j.scope \in Nat /\ k.offset \in Nat /\ j.offset \in Nat
    BY <1>1
  <2>3. QED BY <2>1, <2>2 DEF Before
<1>6. QED BY <1>5

(***************************************************************************)
(* A run that has not ended can take a step: the loops over the scopes of  *)
(* an entity and over its objects find a next one while there is one left. *)
(***************************************************************************)
NeverStuck ==
    \A p \in Procs :
        /\ pc[p] = "scope" /\ todo[p] # {} => \E s \in todo[p] : \A r \in todo[p] : s <= r
        /\ pc[p] = "load" /\ keys[p] # {} => \E k \in keys[p] : \A j \in keys[p] : Before(k, j)

\* The least scope and the first key that run_entity and load_from_lake go
\* on with always exist: neither loop can find itself without a next one.
THEOREM NeverStuckHolds == Spec => []NeverStuck
<1>1. TypeOK => NeverStuck
  <2>1. ASSUME TypeOK, NEW p \in Procs
        PROVE  todo[p] \in SUBSET Nat /\ keys[p] \in SUBSET Keys
    BY <2>1, SourceAssumption DEF TypeOK, Scopes, Whole, Rounds
  <2>2. QED BY <2>1, Least, First DEF NeverStuck
<1>2. QED BY <1>1, TypeCorrect, PTL

(***************************************************************************)
(* A step of a run, when pages are not empty (a page limit of 0 is one of  *)
(* the findings), lowers its rank.                                         *)
(***************************************************************************)
RankFalls(p) ==
    \/ StagesLeft(p)' < StagesLeft(p)
    \/ /\ StagesLeft(p)' = StagesLeft(p)
       /\ \/ ToDo(p)' < ToDo(p)
          \/ ToDo(p)' = ToDo(p) /\ RowsLeft(p)' < RowsLeft(p)
          \/ ToDo(p)' = ToDo(p) /\ RowsLeft(p)' = RowsLeft(p) /\ Turn(p)' < Turn(p)

LEMMA FallingDescends ==
  ASSUME RankInv, RankInv', NEW p \in Procs, pc[p] # "down", pc'[p] # "down", RankFalls(p)
  PROVE  <<Rank(p)', Rank(p)>> \in Lower
<1>1. /\ StagesLeft(p) \in Nat /\ ToDo(p) \in Nat /\ RowsLeft(p) \in Nat /\ Turn(p) \in Nat
      /\ StagesLeft(p)' \in Nat /\ ToDo(p)' \in Nat /\ RowsLeft(p)' \in Nat /\ Turn(p)' \in Nat
  BY DEF RankInv, Rank
<1>2. <<<<StagesLeft(p)', ToDo(p)', RowsLeft(p)', Turn(p)'>>,
         <<StagesLeft(p), ToDo(p), RowsLeft(p), Turn(p)>>>> \in Lower
  <2>1. \/ StagesLeft(p)' < StagesLeft(p)
        \/ StagesLeft(p)' = StagesLeft(p) /\ ToDo(p)' < ToDo(p)
        \/ /\ StagesLeft(p)' = StagesLeft(p) /\ ToDo(p)' = ToDo(p)
           /\ RowsLeft(p)' < RowsLeft(p)
        \/ /\ StagesLeft(p)' = StagesLeft(p) /\ ToDo(p)' = ToDo(p)
           /\ RowsLeft(p)' = RowsLeft(p) /\ Turn(p)' < Turn(p)
    BY DEF RankFalls
  <2>2. QED BY ZenonT(40), <1>1, <2>1, LowerTuple
<1>3. QED BY <1>2 DEF Rank

\* The steps that end the work on an entity.
LEMMA EntityFalls ==
  ASSUME TypeOK, NEW p \in Procs, NEW ok, EntityDone(p, ok), pos[p] \in DOMAIN Order
  PROVE  RankFalls(p)
<1>1. pc'[p] = "entity" /\ pos'[p] = pos[p] + 1
  BY DEF EntityDone, TypeOK
<1>2. Stage(p)' = 3 /\ Stage(p) \in 0 .. 3
  BY <1>1 DEF Stage
<1>3. Len(Order) \in Nat /\ pos[p] \in 1 .. Len(Order)
  BY SourceAssumption
<1>4. StagesLeft(p)' = 4 * (Len(Order) - pos[p]) + 3
  BY <1>1, <1>2, <1>3 DEF StagesLeft
<1>5. StagesLeft(p) = 4 * (Len(Order) - pos[p]) + 4 + Stage(p)
  BY <1>3 DEF StagesLeft
<1>6. StagesLeft(p)' < StagesLeft(p)
  BY <1>2, <1>3, <1>4, <1>5
<1>7. QED BY <1>6 DEF RankFalls

\* The steps that go to the next stage of the entity.
LEMMA StageFalls ==
  ASSUME TypeOK, NEW p \in Procs, UNCHANGED pos, Stage(p)' < Stage(p)
  PROVE  RankFalls(p)
<1>1. Len(Order) \in Nat /\ pos[p] \in Nat /\ Stage(p) \in Nat /\ Stage(p)' \in Nat
  BY SourceAssumption DEF TypeOK, Stage
<1>2. StagesLeft(p)' < StagesLeft(p)
  BY <1>1 DEF StagesLeft
<1>3. QED BY <1>2 DEF RankFalls

LEMMA WorkFalls ==
  ASSUME Limit > 0, TypeOK, TypeOK', FiniteInv, NEW p \in Procs, Work(p) \/ FetchFails(p), ~Finish(p)
  PROVE  RankFalls(p)
<1>1. CASE BeginNoRounds(p) \/ ListNothing(p) \/ CommitLoad(p) \/ FetchFails(p)
  <2>1. \E ok : EntityDone(p, ok)
    BY <1>1 DEF BeginNoRounds, ListNothing, CommitLoad, FetchFails
  <2>2. pos[p] \in DOMAIN Order
    <3>1. pc[p] \in {"schedule", "list", "load", "fetch"}
      BY <1>1 DEF BeginNoRounds, ListNothing, CommitLoad, FetchFails
    <3>2. QED BY <3>1, SourceAssumption DEF TypeOK
  <2>3. QED BY <2>1, <2>2, EntityFalls
<1>2. CASE BeginLoadOnly(p) \/ BeginExtract(p) \/ FindNoRounds(p) \/ ExtractDone(p) \/ ListKeys(p)
  <2>1. UNCHANGED pos
    BY <1>2 DEF BeginLoadOnly, BeginExtract, FindNoRounds, ExtractDone, ListKeys
  <2>2. Stage(p)' < Stage(p)
    <3>1. \/ pc[p] = "entity" /\ pc'[p] \in {"list", "schedule", "scope"}
          \/ pc[p] = "scope" /\ pc'[p] = "list"
          \/ pc[p] = "list" /\ pc'[p] = "load"
      BY <1>2 DEF BeginLoadOnly, BeginExtract, FindNoRounds, ExtractDone, ListKeys, Selecting, TypeOK
    <3>2. QED BY <3>1 DEF Stage
  <2>3. QED BY <2>1, <2>2, StageFalls
<1>3. CASE SkipComplete(p) \/ BeginScope(p)
  <2>1. PICK s \in todo[p] : todo'[p] = todo[p] \ {s} /\ pc[p] = "scope"
    BY <1>3 DEF SkipComplete, BeginScope, NextScope, TypeOK
  <2>2. pc'[p] \in {"scope", "fetch"} /\ UNCHANGED pos
    BY <1>3, <2>1 DEF SkipComplete, BeginScope, TypeOK
  <2>3. Cardinality(todo'[p]) < Cardinality(todo[p])
    BY <2>1, FiniteWork, FS_RemoveElement, FS_CardinalityType
  <2>4. Stage(p) = 2 /\ Stage(p)' = 2
    BY <2>1, <2>2 DEF Stage
  <2>5. QED BY <2>2, <2>3, <2>4 DEF RankFalls, StagesLeft, ToDo
<1>4. CASE LoadObject(p)
  <2>1. PICK k \in keys[p] : keys'[p] = keys[p] \ {k} /\ pc[p] = "load" /\ UNCHANGED <<pc, pos>>
    BY <1>4 DEF LoadObject, TypeOK
  <2>2. Cardinality(keys'[p]) < Cardinality(keys[p])
    <3>1. IsFiniteSet(keys[p])
      BY FiniteWork
    <3>2. Cardinality(keys[p]) \in Nat /\ Cardinality(keys[p] \ {k}) = Cardinality(keys[p]) - 1
      BY <2>1, <3>1, FS_RemoveElement, FS_CardinalityType
    <3>3. QED BY <2>1, <3>2
  <2>3. Stage(p) = 0 /\ Stage(p)' = 0
    BY <2>1 DEF Stage
  <2>4. QED BY <2>1, <2>2, <2>3 DEF RankFalls, StagesLeft, ToDo
<1>5. CASE Fetch(p) \/ Put(p)
  <2>1. /\ \/ pc[p] = "fetch" /\ pc'[p] = "put"
           \/ pc[p] = "put" /\ pc'[p] = "checkpoint"
        /\ UNCHANGED <<pos, todo, scope, offset>>
    BY <1>5 DEF Fetch, Put, fetching, TypeOK
  <2>2. Stage(p) = 2 /\ Stage(p)' = 2 /\ Turn(p)' < Turn(p) /\ ToDo(p)' = ToDo(p)
    BY <2>1 DEF Stage, Turn, ToDo
  <2>3. RowsLeft(p)' = RowsLeft(p)
    BY <2>1 DEF RowsLeft, Extracting, Entity
  <2>4. QED BY <2>1, <2>2, <2>3 DEF RankFalls, StagesLeft
<1>6. CASE SaveCheckpoint(p)
  <2> DEFINE n == Size[Entity(p)][scope[p]]
  <2>1. pc[p] = "checkpoint" /\ UNCHANGED <<pos, todo, scope>>
    BY <1>6 DEF SaveCheckpoint
  <2>2. n \in Nat /\ offset[p] \in Nat /\ total[p] \in Nat /\ total[p] <= n
    <3>1. Entity(p) \in Entities /\ scope[p] \in Scopes
      BY <2>1 DEF TypeOK, Entity, Entities
    <3>2. n \in Nat
      BY <3>1, SourceAssumption
    <3>3. QED BY <2>1, <3>2 DEF TypeOK, FiniteInv
  <2>3. Extracting(p) /\ Entity(p)' = Entity(p) /\ Stage(p) = 2
    BY <2>1 DEF Extracting, Entity, Stage
  <2>4. RowsLeft(p) > 0
    BY <2>2, <2>3 DEF RowsLeft
  <2>5. CASE LastPage(p)
    <3>1. pc'[p] = "scope"
      BY <1>6, <2>5 DEF SaveCheckpoint, TypeOK
    <3>2. Stage(p)' = 2 /\ RowsLeft(p)' = 0
      BY <3>1 DEF Stage, RowsLeft, Extracting
    <3>3. QED BY <2>1, <2>3, <2>4, <3>2 DEF RankFalls, StagesLeft, ToDo
  <2>6. CASE ~LastPage(p)
    <3>1. pc'[p] = "fetch" /\ offset'[p] = offset[p] + Limit
      BY <1>6, <2>6 DEF SaveCheckpoint, TypeOK
    <3>2. offset[p] < offset'[p] /\ offset'[p] < n
      BY <2>2, <2>6, <3>1, SourceAssumption DEF LastPage
    <3>3. Stage(p)' = 2 /\ Extracting(p)'
      BY <3>1 DEF Stage, Extracting
    <3>4. RowsLeft(p) = n - offset[p] + 1
      <4>1. offset[p] < n
        BY <2>2, <3>1, <3>2, SourceAssumption
      <4>2. QED BY <2>3, <4>1 DEF RowsLeft
    <3>5. RowsLeft(p)' = n - offset'[p] + 1
      BY <2>1, <2>3, <3>2, <3>3 DEF RowsLeft
    <3>6. RowsLeft(p)' < RowsLeft(p)
      BY <2>2, <3>1, <3>2, <3>4, <3>5, SourceAssumption
    <3>7. QED BY <2>1, <2>3, <3>3, <3>6 DEF RankFalls, StagesLeft, ToDo
  <2>7. QED BY <2>5, <2>6
<1>7. QED BY <1>1, <1>2, <1>3, <1>4, <1>5, <1>6 DEF Work

(***************************************************************************)
(* Pagination terminates: from its start to its end every step of a run    *)
(* lowers its rank, and no step of anything else touches it, so that no    *)
(* run goes on forever (LowerIsWellFounded).                               *)
(***************************************************************************)
THEOREM RunsDescend == Limit > 0 => (Spec => [][\A p \in Procs : Descends(p)]_vars)
<1> SUFFICES ASSUME Limit > 0 PROVE Spec => [][\A p \in Procs : Descends(p)]_vars
  OBVIOUS
<1>1. TypeOK /\ TypeOK' /\ FiniteInv /\ RankInv /\ RankInv' /\ [Next]_vars =>
         [\A p \in Procs : Descends(p)]_vars
  <2> SUFFICES ASSUME TypeOK, TypeOK', FiniteInv, RankInv, RankInv', [Next]_vars,
                      NEW q \in Procs, pc[q] # "down", pc'[q] # "down", Own(q)' # Own(q)
               PROVE  <<Rank(q)', Rank(q)>> \in Lower
    BY DEF Descends
  <2>1. ~Still(q)
    BY DEF Still, Own
  <2>2. ASSUME NEW p \in Procs, Start(p) \/ Work(p) \/ FetchFails(p) \/ Crash(p)
        PROVE  <<Rank(q)', Rank(q)>> \in Lower
    <3>1. p = q
      BY <2>1, <2>2, OthersStill
    <3>2. ~Start(p) /\ ~Crash(p) /\ ~Finish(p)
      BY <3>1 DEF Start, Crash, Finish, TypeOK
    <3>3. RankFalls(q)
      BY <2>2, <3>1, <3>2, WorkFalls
    <3>4. QED BY <3>3, FallingDescends
  <2>3. CASE RaceDay \/ Publish \/ UNCHANGED vars
    <3>1. Still(q)
      BY <2>3 DEF RaceDay, Publish, vars, Still, fetching, loading
    <3>2. QED BY <2>1, <3>1
  <2>4. QED BY <2>2, <2>3 DEF Next
<1>2. QED
  BY <1>1, TypeCorrect, FiniteInvariant, RankInvariant, PTL DEF Spec
=============================================================================
