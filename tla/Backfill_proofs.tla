--------------------------- MODULE Backfill_proofs ---------------------------
(***************************************************************************)
(* What is proved of the backfill, for any seasons, phases, partitions and *)
(* stop rule: type correctness, the stop rule, that exit code 0 means that *)
(* the seasons are loaded, and that every run comes to an end.             *)
(***************************************************************************)
EXTENDS Backfill, WellFoundedInduction, TLAPS

\* Every call has a finite list of entities.
LEMMA PhaseTypes ==
  /\ Len(Phases) \in Nat \ {0} /\ Calls = 1..Len(Phases)
  /\ \A i \in Calls : /\ Len(Phases[i]) \in Nat
                      /\ DOMAIN Phases[i] = 1..Len(Phases[i])
                      /\ \A j \in DOMAIN Phases[i] : Phases[i][j] \in Entities
<1>1. Len(Phases) \in Nat \ {0} /\ Calls = 1..Len(Phases)
  BY PhaseAssumption DEF Calls
<1>2. \A i \in Calls : Phases[i] \in Seq(Entities)
  BY PhaseAssumption DEF Calls
<1>3. QED
  BY <1>1, <1>2

LEMMA HereTypes ==
  ASSUME TypeOK, pc # "idle", pos \in DOMAIN Phases[call]
  PROVE  /\ Here \in Work /\ Object \in Seasons \X Entities \X Dates
BY PhaseTypes DEF TypeOK, Here, Object, Work

LEMMA EntityInRange ==
  ASSUME TypeOK, AtEntity
  PROVE  pos \in DOMAIN Phases[call]
BY PhaseTypes DEF TypeOK, AtEntity

LEMMA InitTypes == Init => TypeOK
<1> SUFFICES ASSUME Init PROVE TypeOK
  OBVIOUS
<1>1. outage \in BOOLEAN /\ scheduled \in BOOLEAN
  BY Zenon DEF Init
<1>2. 1 \in Calls /\ 0 \in 0..NSeasons /\ 0 \in 0..MaxConsecutive /\ 0 \in 0..MaxFaults
  BY PhaseTypes, SeasonAssumption, StopAssumption
<1>3. 0 < MaxConsecutive /\ 1 \in Nat /\ 1 >= 1
  BY StopAssumption
<1>4. awkward \subseteq Work
  BY CallAssumption DEF Init
<1>5. QED
  BY <1>1, <1>2, <1>3, <1>4 DEF Init, TypeOK, States, Inside

(***************************************************************************)
(* Both of these move the driver on: to the next call, or the next season. *)
(***************************************************************************)
LEMMA ReturnedTypes ==
  ASSUME TypeOK, NEW code, Returned(code)
  PROVE  /\ broken' \subseteq Calls
         /\ broken' = {} => broken = {} /\ code = 0
         /\ pc' \in {"entity", "season"} /\ call' \in Calls
         /\ pos' \in Nat /\ pos' >= 1 /\ lost' \subseteq Entities
         /\ pc' = "season" => call' = call /\ call = Len(Phases)
         /\ pc' = "entity" => call' = call + 1 /\ pos' = 1
BY PhaseTypes DEF Returned, Spawn, TypeOK, child

LEMMA NextSeasonTypes ==
  ASSUME TypeOK, pc = "season", NEW failures, NextSeason(failures)
  PROVE  /\ season' = season - 1 /\ broken' = {} /\ call' \in Calls
         /\ pos' \in Nat /\ pos' >= 1 /\ lost' \subseteq Entities
         /\ \/ /\ season = 1 /\ pc' = "idle"
               /\ exit' = IF failures = {} THEN "ok" ELSE "failed"
            \/ /\ season' \in Seasons /\ pc' = "entity" /\ call' = 1 /\ pos' = 1
               /\ UNCHANGED exit
BY PhaseTypes, SeasonAssumption DEF NextSeason, Spawn, TypeOK, child, Seasons

LEMMA StepTypes == TypeOK /\ [Next]_vars => TypeOK'
<1> SUFFICES ASSUME TypeOK, [Next]_vars PROVE TypeOK'
  OBVIOUS
<1> USE DEF States, Inside
<1>1. CASE Start
  <2>1. 1 \in Calls /\ NSeasons \in Seasons /\ 0 < MaxConsecutive /\ 0 \in 0..MaxConsecutive
    BY PhaseTypes, SeasonAssumption, StopAssumption DEF Seasons
  <2>2. /\ call' = 1 /\ pos' = 1 /\ lost' = {} /\ pc' = "entity" /\ date' \in Dates
        /\ season' = NSeasons /\ broken' = {} /\ failed' = {} /\ consecutive' = 0
        /\ exit' = "none" /\ UNCHANGED <<world, stored, faults>>
    BY <1>1 DEF Start, Spawn
  <2>3. season' \in 0..NSeasons
    BY <2>2, SeasonAssumption
  <2>4. QED
    BY <2>1, <2>2, <2>3 DEF TypeOK, world, stored
<1>2. CASE NoRounds
  BY <1>2, PhaseTypes DEF NoRounds, NextEntity, AtEntity, TypeOK, world, stored, driver
<1>3. CASE SkipComplete
  <2>1. pos \in DOMAIN Phases[call] /\ pc = "entity"
    BY <1>3, EntityInRange DEF SkipComplete, CanExtract
  <2>2. QED
    BY <1>3, <2>1 DEF SkipComplete, TypeOK, world, stored, driver, child
<1>4. CASE Land
  <2>1. pos \in DOMAIN Phases[call] /\ pc = "entity"
    BY <1>4, EntityInRange DEF Land, CanExtract
  <2>2. lake' \subseteq Seasons \X Entities \X Dates
    BY <1>4, <2>1, HereTypes DEF Land, CanExtract, TypeOK
  <2>3. QED
    BY <1>4, <2>1, <2>2 DEF Land, TypeOK, world, driver, child
<1>5. CASE ExtractFails
  BY <1>5, PhaseTypes
     DEF ExtractFails, CanExtract, NextEntity, AtEntity, TypeOK, world, stored, driver
<1>6. CASE SaveCheckpoint
  <2>1. complete' \subseteq Work
    BY <1>6, HereTypes DEF SaveCheckpoint, TypeOK
  <2>2. QED
    BY <1>6, <2>1 DEF SaveCheckpoint, TypeOK, world, driver, child
<1>7. CASE Load
  BY <1>7, HereTypes DEF Load, NextEntity, TypeOK, world, driver
<1>8. CASE ChildEnds
  BY <1>8, ReturnedTypes DEF ChildEnds, TypeOK, world, stored
<1>9. CASE ChildDies
  BY <1>9, ReturnedTypes, StopAssumption DEF ChildDies, TypeOK, world, stored
<1>10. CASE SeasonOk
  BY <1>10, NextSeasonTypes, SeasonAssumption, StopAssumption
     DEF SeasonOk, TypeOK, world, stored, Seasons
<1>11. CASE SeasonFailed
  <2>1. failed' \subseteq Seasons /\ consecutive' \in 0..MaxConsecutive
    BY <1>11, StopAssumption DEF SeasonFailed, TypeOK
  <2>2. CASE ~GivesUp /\ NextSeason(failed')
    <3>1. consecutive' < MaxConsecutive
      BY <1>11, <2>2, StopAssumption DEF SeasonFailed, GivesUp, TypeOK
    <3>2. QED
      BY <1>11, <2>1, <2>2, <3>1, NextSeasonTypes, SeasonAssumption
         DEF SeasonFailed, TypeOK, world, stored, Seasons
  <2>3. CASE /\ GivesUp /\ pc' = "idle" /\ exit' = "failed"
             /\ UNCHANGED <<season, call, broken, child>>
    BY <1>11, <2>1, <2>3 DEF SeasonFailed, TypeOK, world, stored, child
  <2>4. QED
    BY <1>11, <2>2, <2>3 DEF SeasonFailed
<1>12. CASE Killed
  BY <1>12, PhaseTypes, StopAssumption, SeasonAssumption DEF Killed, TypeOK, world, stored
<1>13. CASE OutageBegins
  BY <1>13, StopAssumption DEF OutageBegins, TypeOK, stored, driver, child
<1>14. CASE OutageEnds
  BY <1>14 DEF OutageEnds, TypeOK, stored, driver, child
<1>15. CASE Repair
  BY <1>15 DEF Repair, TypeOK, stored, driver, child
<1>16. CASE LoadReference
  BY <1>16 DEF LoadReference, TypeOK, world, driver, child
<1>17. CASE UNCHANGED vars
  BY <1>17 DEF vars, TypeOK, world, stored, driver, child
<1>18. QED
  BY <1>1, <1>2, <1>3, <1>4, <1>5, <1>6, <1>7, <1>8, <1>9, <1>10, <1>11, <1>12,
     <1>13, <1>14, <1>15, <1>16, <1>17 DEF Next, Step

(***************************************************************************)
(* Every variable stays in its domain, and a running driver has not yet    *)
(* reached its limit of failures.                                          *)
(***************************************************************************)
THEOREM TypeCorrect == Spec => []TypeOK
BY InitTypes, StepTypes, PTL DEF Spec

-----------------------------------------------------------------------------
(***************************************************************************)
(* The stop rule.  These steps leave the count of failures alone.          *)
(***************************************************************************)
LEMMA StreakUnchanged ==
  ASSUME TypeOK, StreakInv, UNCHANGED <<season, failed, consecutive>>,
         exit' = exit, pc = "idle" => pc' = "idle"
  PROVE  StreakInv'
BY DEF StreakInv, StopRule, Streak

\* Handling one more season makes no streak of MaxConsecutive failures unless
\* the count says so.
LEMMA NoStreakBehind ==
  ASSUME TypeOK, StreakInv, pc = "season",
         failed' = failed \/ (failed' = failed \cup {season} /\ ~GivesUp)
  PROVE  \A s \in Seasons : s >= season => ~(Streak(s) \subseteq failed')
<1> SUFFICES ASSUME NEW s \in Seasons, s >= season, Streak(s) \subseteq failed'
             PROVE  FALSE
  OBVIOUS
<1>1. season \in Nat /\ season >= 1 /\ s \in Nat /\ consecutive \in Nat
      /\ MaxConsecutive \in Nat /\ MaxConsecutive >= 1
  BY SeasonAssumption, StopAssumption DEF TypeOK, Seasons
<1>2. \A t \in failed : t > season
  BY DEF StreakInv
<1>3. CASE s > season
  <2>1. season \notin Streak(s)
    BY <1>1, <1>3 DEF Streak
  <2>2. Streak(s) \subseteq failed
    BY <2>1
  <2>3. QED
    BY <1>3, <2>2 DEF StreakInv, StopRule
<1>4. CASE s = season
  <2>1. season \in Streak(s)
    BY <1>1, <1>4 DEF Streak
  <2>2. season \notin failed
    BY <1>1, <1>2
  <2>3. failed' = failed \cup {season} /\ ~GivesUp
    BY <2>1, <2>2
  <2>4. season + consecutive + 1 \in Streak(s)
    BY <1>1, <1>4, <2>3 DEF Streak, GivesUp
  <2>5. season + consecutive + 1 # season
    BY <1>1
  <2>6. QED
    BY <2>3, <2>4, <2>5 DEF StreakInv
<1>5. QED
  BY <1>1, <1>3, <1>4

LEMMA InitStreak == Init => StreakInv
<1> SUFFICES ASSUME Init PROVE StreakInv
  OBVIOUS
<1>1. \A s \in Seasons : s \in Streak(s)
  BY SeasonAssumption, StopAssumption DEF Seasons, Streak
<1>2. QED
  BY <1>1 DEF Init, StreakInv, StopRule

LEMMA StepStreak == TypeOK /\ StreakInv /\ [Next]_vars => StreakInv'
<1> SUFFICES ASSUME TypeOK, StreakInv, [Next]_vars PROVE StreakInv'
  OBVIOUS
<1>a. \A s \in Seasons : s \in Streak(s)
  BY SeasonAssumption, StopAssumption DEF Seasons, Streak
<1>b. NSeasons \in Nat /\ NSeasons >= 1 /\ MaxConsecutive \in Nat /\ MaxConsecutive >= 1
  BY SeasonAssumption, StopAssumption
<1>1. CASE Start
  <2>1. season' = NSeasons /\ failed' = {} /\ consecutive' = 0 /\ exit' = "none"
    BY <1>1 DEF Start
  <2>2. StopRule'
    BY <1>b, <2>1 DEF StopRule, Seasons
  <2>3. QED
    BY <1>b, <2>1, <2>2 DEF StreakInv
<1>2. CASE NoRounds \/ SkipComplete \/ Land \/ ExtractFails \/ SaveCheckpoint \/ Load
  BY <1>2, StreakUnchanged
     DEF NoRounds, SkipComplete, Land, ExtractFails, SaveCheckpoint, Load, CanExtract,
         NextEntity, driver
<1>3. CASE ChildEnds \/ ChildDies
  <2>1. pc \in Inside /\ UNCHANGED <<season, failed, consecutive, exit>>
    BY <1>3 DEF ChildEnds, ChildDies, Inside
  <2>2. pc # "idle" /\ pc' # "idle"
    BY <1>3, <2>1, ReturnedTypes DEF ChildEnds, ChildDies, Inside
  <2>3. QED
    BY <2>1, <2>2, StreakUnchanged
<1>4. CASE SeasonOk
  <2>1. /\ pc = "season" /\ season \in Seasons /\ failed' = failed /\ consecutive' = 0
        /\ season' = season - 1 /\ (season' = 0 \/ exit' = exit)
    BY <1>4, NextSeasonTypes DEF SeasonOk, TypeOK
  <2>2. \A s \in Seasons : s > season' => ~(Streak(s) \subseteq failed')
    BY <2>1, NoStreakBehind DEF Seasons
  <2>3. season \notin failed /\ \A s \in failed : s > season'
    BY <2>1, <1>b DEF StreakInv, Seasons, TypeOK
  <2>4. ~(exit' = "failed" /\ season' # 0) /\ (pc' # "idle" => exit' = "none")
    BY <1>4, <2>1, NextSeasonTypes DEF SeasonOk, StreakInv
  <2>5. QED
    BY <1>b, <2>1, <2>2, <2>3, <2>4 DEF StreakInv, StopRule, Seasons
<1>5. CASE SeasonFailed
  <2>1. /\ pc = "season" /\ season \in Seasons /\ failed' = failed \cup {season}
        /\ consecutive' = consecutive + 1 /\ consecutive \in Nat
    BY <1>5, <1>b DEF SeasonFailed, TypeOK
  <2>2. CASE ~GivesUp /\ NextSeason(failed')
    <3>1. /\ season' = season - 1 /\ (season' = 0 \/ exit' = exit)
          /\ pc' # "idle" => exit' = exit
      BY <2>1, <2>2, NextSeasonTypes DEF TypeOK
    <3>2. \A s \in Seasons : s > season' => ~(Streak(s) \subseteq failed')
      BY <2>1, <2>2, <3>1, NoStreakBehind DEF Seasons
    <3>3. \A s \in failed' : s > season'
      <4>1. \A s \in failed : s \in Nat /\ s > season
        BY <2>1, <1>b DEF StreakInv, Seasons, TypeOK
      <4>2. QED
        BY <2>1, <3>1, <4>1 DEF Seasons
    <3>4. \A s \in (season' + 1) .. (season' + consecutive') : s \in failed'
      BY <2>1, <3>1, <1>b DEF StreakInv, Seasons
    <3>5. season' + consecutive' + 1 \notin failed'
      BY <2>1, <3>1, <1>b DEF StreakInv, Seasons
    <3>6. ~(exit' = "failed" /\ season' # 0) /\ (pc' # "idle" => exit' = "none")
      BY <3>1, <2>1 DEF StreakInv
    <3>7. QED
      BY <3>2, <3>3, <3>4, <3>5, <3>6 DEF StreakInv, StopRule
  <2>3. CASE /\ GivesUp /\ pc' = "idle" /\ exit' = "failed"
             /\ UNCHANGED <<season, call, broken, child>>
    <3>1. consecutive + 1 = MaxConsecutive
      BY <1>b, <2>1, <2>3 DEF GivesUp, TypeOK
    <3>2. Streak(season) \subseteq failed'
      BY <1>b, <2>1, <3>1 DEF Streak, StreakInv, Seasons
    <3>3. \A s \in Seasons : s > season => ~(Streak(s) \subseteq failed')
      <4> SUFFICES ASSUME NEW s \in Seasons, s > season PROVE ~(Streak(s) \subseteq failed')
        OBVIOUS
      <4>1. season \notin Streak(s)
        BY <1>b, <2>1 DEF Streak, Seasons
      <4>2. QED
        BY <2>1, <4>1 DEF StreakInv, StopRule
    <3>4. Streak(season)' = Streak(season) /\ season' = season
      BY <2>3 DEF Streak
    <3>5. QED
      BY <2>3, <3>2, <3>3, <3>4 DEF StreakInv, StopRule
  <2>4. QED
    BY <1>5, <2>2, <2>3 DEF SeasonFailed
<1>6. CASE Killed
  BY <1>6, <1>a DEF Killed, StreakInv, StopRule
<1>7. CASE OutageBegins \/ OutageEnds \/ Repair \/ LoadReference \/ UNCHANGED vars
  BY <1>7, StreakUnchanged
     DEF OutageBegins, OutageEnds, Repair, LoadReference, vars, driver
<1>8. QED
  BY <1>1, <1>2, <1>3, <1>4, <1>5, <1>6, <1>7 DEF Next, Step

(***************************************************************************)
(* A run only stops early behind MaxConsecutive failures in a row, and     *)
(* never goes past as many, for any number of seasons and any limit.       *)
(***************************************************************************)
THEOREM StopRuleHolds == Spec => []StopRule
<1>1. StreakInv => StopRule
  BY DEF StreakInv
<1>2. QED
  BY <1>1, InitTypes, StepTypes, InitStreak, StepStreak, PTL DEF Spec

-----------------------------------------------------------------------------
(***************************************************************************)
(* Exit code 0.  Nothing that is done is undone while the partition stays. *)
(***************************************************************************)
LEMMA DoneStays ==
  ASSUME date' = date, lake \subseteq lake', loaded \subseteq loaded'
  PROVE  \A s, e : Done(s, e) => Done(s, e)'
BY DEF Done, Astray

\* What is known of checkpoints and of the seasons and calls behind the driver
\* survives a step that leaves the driver where it is.
LEMMA ProgressStays ==
  ASSUME TypeOK, ProgressInv, lake \subseteq lake', loaded \subseteq loaded',
         UNCHANGED driver, pc # "season", pc' # "season", pc = "idle" <=> pc' = "idle",
         \A s \in Seasons, e \in Entities :
            <<s, e>> \in complete' \ complete => \E d \in Dates : <<s, e, d>> \in lake'
  PROVE  /\ \A s \in Seasons, e \in Entities :
               <<s, e>> \in complete' => \E d \in Dates : <<s, e, d>> \in lake'
         /\ exit' = "ok" => pc' = "idle" /\ \A s \in Seasons, e \in Entities : Done(s, e)'
         /\ pc' # "idle" =>
               \A s \in Seasons, e \in Entities : s > season' /\ s \notin failed' => Done(s, e)'
         /\ pc' # "idle" /\ broken' = {} => \A i \in Calls : i < call' => CallDone(i)'
<1>1. \A s, e : Done(s, e) => Done(s, e)'
  BY DoneStays DEF driver
<1>2. \A s \in Seasons, e \in Entities :
         <<s, e>> \in complete' => \E d \in Dates : <<s, e, d>> \in lake'
  BY DEF ProgressInv
<1>3. exit' = "ok" => pc' = "idle" /\ \A s \in Seasons, e \in Entities : Done(s, e)'
  BY <1>1 DEF ProgressInv, driver
<1>4. pc' # "idle" =>
         \A s \in Seasons, e \in Entities : s > season' /\ s \notin failed' => Done(s, e)'
  BY <1>1 DEF ProgressInv, driver
<1>5. ASSUME pc' # "idle", broken' = {}, NEW i \in Calls, i < call'
      PROVE  CallDone(i)'
  <2>1. CallDone(i) /\ season' = season /\ date' = date
    BY <1>5 DEF ProgressInv, driver
  <2>2. QED
    BY <2>1 DEF CallDone, Done, Astray
<1>6. QED
  BY <1>2, <1>3, <1>4, <1>5

\* The entities a child has been through.
LEMMA ChildStays ==
  ASSUME ProgressInv, lake \subseteq lake', loaded \subseteq loaded',
         UNCHANGED <<driver, child>>, pc \in Inside
  PROVE  (lost = {} => \A j \in DOMAIN Phases[call] :
                          j < pos => Done(season, Phases[call][j]))'
<1>1. /\ UNCHANGED <<date, season, call, pos, lost>>
      /\ lost = {} => \A j \in DOMAIN Phases[call] :
                         j < pos => Done(season, Phases[call][j])
  BY DEF ProgressInv, driver, child
<1>2. QED
  BY <1>1 DEF Done, Astray

LEMMA InitProgress == Init => ProgressInv
BY DEF Init, ProgressInv, Inside

LEMMA StepProgress == TypeOK /\ TypeOK' /\ ProgressInv /\ [Next]_vars => ProgressInv'
<1> SUFFICES ASSUME TypeOK, TypeOK', ProgressInv, [Next]_vars PROVE ProgressInv'
  OBVIOUS
<1>1. CASE Start
  <2>1. /\ season' = NSeasons /\ exit' = "none" /\ pc' = "entity" /\ call' = 1 /\ pos' = 1
        /\ UNCHANGED <<lake, complete>>
    BY <1>1 DEF Start, Spawn, stored
  <2>2. \A s \in Seasons : ~(s > NSeasons)
    BY SeasonAssumption DEF Seasons
  <2>3. \A i \in Calls : ~(i < 1)
    BY PhaseTypes
  <2>4. \A j \in DOMAIN Phases[1] : ~(j < 1)
    BY PhaseTypes
  <2>5. QED
    BY <2>1, <2>2, <2>3, <2>4 DEF ProgressInv, Inside
<1>2. CASE NoRounds \/ ExtractFails
  <2>1. /\ UNCHANGED <<lake, complete, loaded, driver>> /\ pc = "entity" /\ pc' = "entity"
        /\ lost' # {}
    BY <1>2 DEF NoRounds, ExtractFails, CanExtract, NextEntity, stored
  <2>2. QED
    BY <2>1, ProgressStays DEF ProgressInv
<1>3. CASE SkipComplete
  <2>1. /\ UNCHANGED <<lake, complete, loaded, driver, child>>
        /\ pc = "entity" /\ pc' = "load" /\ Here \in complete
    BY <1>3 DEF SkipComplete, CanExtract, stored
  <2>2. (Here \in complete)'
    BY <2>1 DEF Here, driver, child
  <2>3. QED
    BY <2>1, <2>2, ProgressStays, ChildStays DEF ProgressInv, Inside
<1>4. CASE Land
  <2>1. /\ UNCHANGED <<complete, loaded, driver, child>> /\ lake' = lake \cup {Object}
        /\ pc = "entity" /\ pc' = "checkpoint"
    BY <1>4 DEF Land, CanExtract
  <2>2. (Object \in lake)'
    BY <2>1 DEF Object, driver, child
  <2>3. QED
    BY <2>1, <2>2, ProgressStays, ChildStays DEF ProgressInv, Inside
<1>5. CASE SaveCheckpoint
  <2>1. /\ UNCHANGED <<lake, loaded, driver, child>> /\ complete' = complete \cup {Here}
        /\ pc = "checkpoint" /\ pc' = "load" /\ Object \in lake
    BY <1>5 DEF SaveCheckpoint, ProgressInv
  <2>2. (Here \in complete)'
    BY <2>1 DEF Here, driver, child
  <2>3. \A s \in Seasons, e \in Entities :
           <<s, e>> \in complete' \ complete => \E d \in Dates : <<s, e, d>> \in lake'
    <3>1. date \in Dates
      BY DEF TypeOK
    <3>2. QED
      BY <2>1, <3>1 DEF Here, Object
  <2>4. QED
    BY <2>1, <2>2, <2>3, ProgressStays, ChildStays DEF ProgressInv, Inside
<1>6. CASE Load
  <2>1. /\ UNCHANGED <<lake, complete, driver, lost>> /\ loaded \subseteq loaded'
        /\ pc = "load" /\ pc' = "entity" /\ pos' = pos + 1
        /\ loaded' = IF Object \in lake THEN loaded \cup {Here} ELSE loaded
    BY <1>6 DEF Load, NextEntity
  <2>2. /\ Here \in complete /\ pos \in DOMAIN Phases[call] /\ pos \in Nat
        /\ season \in Seasons /\ call \in Calls
    BY <2>1 DEF ProgressInv, TypeOK
  <2>3. Phases[call][pos] \in Entities
    BY <2>2, PhaseTypes
  <2>4. Here \in loaded' \/ \E d \in Dates \ {date} : <<season, Phases[call][pos], d>> \in lake
    <3>1. CASE Object \in lake
      BY <2>1, <3>1
    <3>2. CASE Object \notin lake
      <4>1. PICK d \in Dates : <<season, Phases[call][pos], d>> \in lake
        BY <2>2, <2>3 DEF ProgressInv, Here
      <4>2. d # date
        BY <3>2, <4>1 DEF Object
      <4>3. QED
        BY <4>1, <4>2
    <3>3. QED
      BY <3>1, <3>2
  <2>5. UNCHANGED <<date, season, call>>
    BY <2>1 DEF driver
  <2>6. (lost = {} => \A j \in DOMAIN Phases[call] :
                         j < pos => Done(season, Phases[call][j]))'
    <3> SUFFICES ASSUME lost' = {}, NEW j \in DOMAIN Phases[call], j < pos + 1
                 PROVE  Done(season, Phases[call][j])'
      BY <2>1, <2>5
    <3>1. j \in Nat
      BY <2>2, PhaseTypes
    <3>2. CASE j = pos
      BY <2>1, <2>4, <2>5, <3>2 DEF Done, Astray, Here
    <3>3. CASE j < pos
      <4>1. Done(season, Phases[call][j])
        BY <2>1, <3>3 DEF ProgressInv, Inside
      <4>2. QED
        BY <2>1, <2>5, <4>1 DEF Done, Astray
    <3>4. QED
      BY <2>2, <3>1, <3>2, <3>3
  <2>7. QED
    BY <2>1, <2>6, ProgressStays DEF ProgressInv
<1>7. CASE ChildEnds \/ ChildDies
  <2>1. /\ UNCHANGED <<lake, complete, loaded, date, season, failed, exit>>
        /\ pc \in Inside /\ pc # "idle" /\ pc # "season"
    BY <1>7 DEF ChildEnds, ChildDies, stored, Inside
  <2>2. /\ pc' \in {"entity", "season"} /\ call' \in Calls
        /\ pc' = "season" => call' = call /\ call = Len(Phases)
        /\ pc' = "entity" => call' = call + 1 /\ pos' = 1
        /\ broken' = {} => broken = {} /\ ChildEnds /\ lost = {}
    BY <1>7, ReturnedTypes DEF ChildEnds, ChildDies
  <2>3. /\ call \in Nat /\ pos \in Nat
        /\ \A j \in DOMAIN Phases[call] : j \in Nat /\ j >= 1 /\ j <= Len(Phases[call])
    <3>1. call \in Calls /\ pos \in Nat
      BY DEF TypeOK
    <3>2. call \in Nat
      BY <3>1, PhaseTypes
    <3>3. Len(Phases[call]) \in Nat /\ DOMAIN Phases[call] = 1..Len(Phases[call])
      BY <3>1, PhaseTypes
    <3>4. QED
      BY <3>1, <3>2, <3>3
  <2>4. ASSUME broken' = {} PROVE CallDone(call)
    <3>1. pc = "entity" /\ ~(pos <= Len(Phases[call])) /\ lost = {}
      BY <2>2, <2>4 DEF ChildEnds, AtEntity
    <3>2. Len(Phases[call]) \in Nat
      BY PhaseTypes DEF TypeOK
    <3>3. \A j \in DOMAIN Phases[call] : j < pos
      BY <2>3, <3>1, <3>2
    <3>4. QED
      BY <3>1, <3>3 DEF ProgressInv, Inside, CallDone
  <2>5. ASSUME broken' = {}, NEW i \in Calls, i < call + 1 PROVE CallDone(i)
    <3>1. i < call \/ i = call
      BY <2>3, <2>5, PhaseTypes
    <3>2. QED
      BY <2>1, <2>2, <2>4, <2>5, <3>1 DEF ProgressInv
  <2>6. \A i : CallDone(i)' <=> CallDone(i)
    BY <2>1 DEF CallDone, Done, Astray
  <2>7. (broken = {} /\ pc = "season" => CallDone(call) /\ call = Len(Phases))'
    <3> SUFFICES ASSUME broken' = {}, pc' = "season" PROVE CallDone(call)' /\ call' = Len(Phases)
      OBVIOUS
    <3>1. call' = call /\ CallDone(call) /\ call = Len(Phases)
      BY <2>2, <2>4
    <3>2. QED
      BY <2>1, <3>1 DEF CallDone, Done, Astray
  <2>8. broken' = {} => \A i \in Calls : i < call' => CallDone(i)'
    BY <2>2, <2>3, <2>5, <2>6, PhaseTypes
  <2>9. \A s, e : Done(s, e) => Done(s, e)'
    BY <2>1, DoneStays
  <2>10. pc' = "entity" => \A j \in DOMAIN Phases[call'] : ~(j < pos')
    BY <2>2, PhaseTypes
  <2>11. exit' # "ok"
    BY <2>1 DEF ProgressInv
  <2>12. \A s \in Seasons, e \in Entities : s > season' /\ s \notin failed' => Done(s, e)'
    BY <2>1, <2>9 DEF ProgressInv
  <2>13. QED
    BY <2>1, <2>2, <2>7, <2>8, <2>10, <2>11, <2>12 DEF ProgressInv, Inside
<1>8. CASE SeasonOk \/ SeasonFailed
  <2>1. /\ UNCHANGED <<lake, complete, loaded, date>> /\ pc = "season" /\ season \in Seasons
        /\ failed' = IF SeasonOk THEN failed ELSE failed \cup {season}
        /\ SeasonOk => broken = {}
    BY <1>8 DEF SeasonOk, SeasonFailed, stored, TypeOK
  <2>2. \A s, e : Done(s, e) => Done(s, e)'
    BY <2>1, DoneStays
  <2>3. ASSUME SeasonOk, NEW e \in Entities PROVE Done(season, e)
    <3>1. PICK i \in Calls : \E j \in DOMAIN Phases[i] : e = Phases[i][j]
      BY DEF Entities
    <3>2. call = Len(Phases) /\ CallDone(call) /\ \A k \in Calls : k < call => CallDone(k)
      BY <2>1, <2>3 DEF ProgressInv
    <3>3. i < call \/ i = call
      BY <3>2, PhaseTypes
    <3>4. CallDone(i)
      BY <3>2, <3>3
    <3>5. QED
      BY <3>1, <3>4 DEF CallDone
  <2>4. ASSUME NEW s \in Seasons, NEW e \in Entities, s > season - 1, s \notin failed'
        PROVE  Done(s, e)'
    <3>1. s = season \/ s > season
      BY <2>1, <2>4, SeasonAssumption DEF Seasons
    <3>2. CASE s = season
      <4>1. SeasonOk
        BY <2>1, <2>4, <3>2
      <4>2. Done(s, e)
        BY <2>3, <3>2, <4>1
      <4>3. QED
        BY <2>2, <4>2
    <3>3. CASE s > season
      BY <2>1, <2>2, <2>4, <3>3 DEF ProgressInv
    <3>4. QED
      BY <3>1, <3>2, <3>3
  <2>5. CASE NextSeason(failed')
    <3>1. /\ season' = season - 1
          /\ \/ /\ season = 1 /\ pc' = "idle"
                /\ exit' = IF failed' = {} THEN "ok" ELSE "failed"
             \/ /\ pc' = "entity" /\ call' = 1 /\ pos' = 1 /\ exit' = exit
      BY <2>1, <2>5, NextSeasonTypes
    <3>2. exit # "ok"
      BY <2>1 DEF ProgressInv
    <3>3. exit' = "ok" => pc' = "idle" /\ \A s \in Seasons, e \in Entities : Done(s, e)'
      <4>1. \A s \in Seasons : s > 1 - 1
        BY SeasonAssumption DEF Seasons
      <4>2. QED
        BY <2>4, <3>1, <3>2, <4>1
    <3>4. \A s \in Seasons, e \in Entities : s > season' /\ s \notin failed' => Done(s, e)'
      BY <2>4, <3>1
    <3>5. pc' = "entity" => /\ \A j \in DOMAIN Phases[call'] : ~(j < pos')
                            /\ \A i \in Calls : ~(i < call')
      BY <3>1, PhaseTypes
    <3>6. QED
      BY <2>1, <3>1, <3>3, <3>4, <3>5 DEF ProgressInv, Inside
  <2>6. CASE pc' = "idle" /\ exit' = "failed"
    BY <2>1, <2>6 DEF ProgressInv, Inside
  <2>7. QED
    BY <1>8, <2>1, <2>5, <2>6 DEF SeasonOk, SeasonFailed
<1>9. CASE Killed
  BY <1>9 DEF Killed, ProgressInv, Inside, stored
<1>10. CASE OutageBegins \/ OutageEnds \/ Repair \/ LoadReference \/ UNCHANGED vars
  <2>1. UNCHANGED <<lake, complete, loaded, pc, driver, child>>
    BY <1>10 DEF OutageBegins, OutageEnds, Repair, LoadReference, vars, stored
  <2>2. QED
    BY <2>1 DEF driver, child, ProgressInv, CallDone, Done, Astray, AtEntity, Here, Object
<1>11. QED
  BY <1>1, <1>2, <1>3, <1>4, <1>5, <1>6, <1>7, <1>8, <1>9, <1>10 DEF Next, Step

(***************************************************************************)
(* A backfill that exits 0 has loaded every season, except work that an    *)
(* earlier run landed in another partition: for any seasons, entities,     *)
(* partitions and stop rule, and any history of runs that died or failed.  *)
(***************************************************************************)
THEOREM ExitZeroHolds == Spec => []ExitZeroMeansBackfilled
<1>1. ProgressInv => ExitZeroMeansBackfilled
  BY DEF ProgressInv, ExitZeroMeansBackfilled
<1>2. QED
  BY <1>1, InitTypes, StepTypes, InitProgress, StepProgress, PTL DEF Spec

-----------------------------------------------------------------------------
(***************************************************************************)
(* A run of the backfill comes to an end whatever fails in it: the driver  *)
(* never goes back to a season or to a call, and the child never to an     *)
(* entity.  Every step lowers what is left: seasons and calls, and then    *)
(* the entities of the call and the stages of the entity.                  *)
(***************************************************************************)
CallsLeft == IF pc = "season" THEN 0 ELSE Len(Phases) + 1 - call
EntitiesLeft == IF AtEntity THEN Len(Phases[call]) + 1 - pos ELSE 0
Turn == IF pc = "entity" THEN 2 ELSE IF pc = "checkpoint" THEN 1 ELSE 0
Rank == <<<<season, CallsLeft>>, <<EntitiesLeft, Turn>>>>

Pairs == LexPairOrdering(OpToRel(<, Nat), OpToRel(<, Nat), Nat, Nat)
Lower == LexPairOrdering(Pairs, Pairs, Nat \X Nat, Nat \X Nat)

Descends ==
    pc # "idle" /\ pc' # "idle" /\ <<pc, driver, child>>' # <<pc, driver, child>> =>
        <<Rank', Rank>> \in Lower

\* No run goes down forever.
LEMMA LowerIsWellFounded == IsWellFoundedOn(Lower, (Nat \X Nat) \X (Nat \X Nat))
<1>1. IsWellFoundedOn(Pairs, Nat \X Nat)
  BY NatLessThanWellFounded, WFLexPairOrdering DEF Pairs
<1>2. QED
  BY <1>1, WFLexPairOrdering DEF Lower

Below(a, b, c, d, w, x, y, z) ==
    \/ a < w
    \/ a = w /\ b < x
    \/ a = w /\ b = x /\ (c < y \/ (c = y /\ d < z))

LEMMA LowerRank ==
  ASSUME NEW a \in Nat, NEW b \in Nat, NEW c \in Nat, NEW d \in Nat,
         NEW w \in Nat, NEW x \in Nat, NEW y \in Nat, NEW z \in Nat,
         Below(a, b, c, d, w, x, y, z)
  PROVE  <<<<<<a, b>>, <<c, d>>>>, <<<<w, x>>, <<y, z>>>>>> \in Lower
<1>1. CASE a < w \/ (a = w /\ b < x)
  <2>1. <<<<a, b>>, <<w, x>>>> \in Pairs
    BY <1>1 DEF Pairs, LexPairOrdering, OpToRel
  <2>2. QED BY <2>1 DEF Lower, LexPairOrdering
<1>2. CASE a = w /\ b = x /\ (c < y \/ (c = y /\ d < z))
  <2>1. <<<<c, d>>, <<y, z>>>> \in Pairs
    BY <1>2 DEF Pairs, LexPairOrdering, OpToRel
  <2>2. QED BY <1>2, <2>1 DEF Lower, LexPairOrdering
<1>3. QED BY <1>1, <1>2 DEF Below

RankNat == season \in Nat /\ CallsLeft \in Nat /\ EntitiesLeft \in Nat /\ Turn \in Nat

LEMMA RankTypes == TypeOK => RankNat
<1> SUFFICES ASSUME TypeOK PROVE RankNat
  OBVIOUS
<1>1. season \in Nat
  BY SeasonAssumption DEF TypeOK
<1>2. /\ call \in 1 .. Len(Phases) /\ Len(Phases) \in Nat
      /\ Len(Phases[call]) \in Nat /\ pos \in Nat
  BY PhaseTypes DEF TypeOK
<1>3. QED BY <1>1, <1>2 DEF RankNat, CallsLeft, EntitiesLeft, AtEntity, Turn

Falls == Below(season', CallsLeft', EntitiesLeft', Turn', season, CallsLeft, EntitiesLeft, Turn)

LEMMA Falling ==
  ASSUME RankNat, RankNat', Falls
  PROVE  <<Rank', Rank>> \in Lower
<1>1. /\ season \in Nat /\ CallsLeft \in Nat /\ EntitiesLeft \in Nat /\ Turn \in Nat
      /\ season' \in Nat /\ CallsLeft' \in Nat /\ EntitiesLeft' \in Nat /\ Turn' \in Nat
  BY DEF RankNat
<1>2. QED
  BY ZenonT(30), <1>1, LowerRank DEF Falls, Rank

(***************************************************************************)
(* A backfill ends: each step of a run of tasks.py backfill lowers its     *)
(* rank, whatever fails in it, since every child passes over its entities  *)
(* once, every season makes its calls once and the seasons count down.     *)
(***************************************************************************)
THEOREM RunDescends == Spec => [][Descends]_vars
<1>1. TypeOK /\ TypeOK' /\ RankNat /\ RankNat' /\ [Next]_vars => [Descends]_vars
  <2> SUFFICES ASSUME TypeOK, TypeOK', RankNat, RankNat', [Next]_vars, pc # "idle", pc' # "idle",
                      <<pc, driver, child>>' # <<pc, driver, child>>
               PROVE  <<Rank', Rank>> \in Lower
    BY DEF Descends
  <2>1. SUFFICES Falls
    BY Falling
  <2>2. /\ call \in Nat /\ pos \in Nat /\ Len(Phases) \in Nat /\ Len(Phases[call]) \in Nat
        /\ call <= Len(Phases) /\ DOMAIN Phases[call] = 1 .. Len(Phases[call])
    BY PhaseTypes DEF TypeOK
  <2>3. CASE NoRounds \/ ExtractFails \/ Load
    <3>1. AtEntity /\ pc # "season"
      BY <2>2, <2>3 DEF NoRounds, ExtractFails, CanExtract, Load, TypeOK, AtEntity
    <3>2. season' = season /\ call' = call /\ pos' = pos + 1 /\ pc' = "entity"
      BY <2>3 DEF NoRounds, ExtractFails, Load, NextEntity, driver
    <3>3. CallsLeft' = CallsLeft
      BY <3>1, <3>2 DEF CallsLeft
    <3>4. EntitiesLeft = Len(Phases[call]) + 1 - pos /\ 0 < EntitiesLeft
      BY <2>2, <3>1 DEF EntitiesLeft, AtEntity
    <3>5. EntitiesLeft' = IF pos + 1 <= Len(Phases[call]) THEN Len(Phases[call]) + 1 - (pos + 1) ELSE 0
      BY <3>2 DEF EntitiesLeft, AtEntity
    <3>6. EntitiesLeft' < EntitiesLeft
      <4>1. CASE pos + 1 <= Len(Phases[call])
        <5>1. EntitiesLeft' = Len(Phases[call]) + 1 - (pos + 1)
          BY <3>5, <4>1
        <5>2. \A l, i \in Nat : l + 1 - (i + 1) < l + 1 - i
          OBVIOUS
        <5>3. QED BY <2>2, <3>4, <5>1, <5>2
      <4>2. CASE ~(pos + 1 <= Len(Phases[call]))
        <5>1. EntitiesLeft' = 0
          BY <3>5, <4>2
        <5>2. QED BY <3>4, <5>1
      <4>3. QED BY <4>1, <4>2
    <3>7. QED BY <3>2, <3>3, <3>6 DEF Falls, Below
  <2>4. CASE SkipComplete \/ Land \/ SaveCheckpoint
    <3>1. /\ pc' # "season" /\ pc # "season" /\ UNCHANGED <<season, call, pos>>
          /\ \/ pc = "entity" /\ pc' \in {"checkpoint", "load"}
             \/ pc = "checkpoint" /\ pc' = "load"
      BY <2>4 DEF SkipComplete, Land, SaveCheckpoint, CanExtract, driver, child
    <3>2. CallsLeft' = CallsLeft /\ EntitiesLeft' = EntitiesLeft /\ Turn' < Turn
      BY <3>1 DEF CallsLeft, EntitiesLeft, AtEntity, Turn
    <3>3. QED BY <3>1, <3>2 DEF Falls, Below
  <2>5. CASE ChildEnds \/ ChildDies
    <3>1. /\ pc # "season" /\ season' = season
          /\ pc' = "season" \/ (pc' = "entity" /\ call' = call + 1)
      BY <2>5, ReturnedTypes DEF ChildEnds, ChildDies, Inside
    <3>2. CallsLeft' < CallsLeft
      BY <2>2, <3>1 DEF CallsLeft
    <3>3. QED BY <3>1, <3>2 DEF Falls, Below
  <2>6. CASE SeasonOk \/ SeasonFailed
    <3>1. \E failures : NextSeason(failures)
      BY <2>6 DEF SeasonOk, SeasonFailed
    <3>2. season' = season - 1
      BY <3>1 DEF NextSeason
    <3>3. QED BY <3>2 DEF RankNat, Falls, Below
  <2>7. CASE Start \/ Killed
    BY <2>7 DEF Start, Killed
  <2>8. CASE OutageBegins \/ OutageEnds \/ Repair \/ LoadReference \/ UNCHANGED vars
    BY <2>8 DEF OutageBegins, OutageEnds, Repair, LoadReference, vars
  <2>9. QED
    BY <2>3, <2>4, <2>5, <2>6, <2>7, <2>8 DEF Next, Step
<1>2. Spec => [](TypeOK /\ RankNat)
  BY TypeCorrect, RankTypes, PTL
<1>3. QED
  BY <1>1, <1>2, PTL DEF Spec
=============================================================================
