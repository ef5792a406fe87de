-------------------------- MODULE Migrations_proofs --------------------------
(***************************************************************************)
(* Theorems about Migrations, for any runners, versions, command lines and *)
(* files, and any number of edits and deaths.                              *)
(***************************************************************************)
EXTENDS Migrations, TLAPS

-----------------------------------------------------------------------------
(***************************************************************************)
(* Facts about single operators.                                           *)
(***************************************************************************)
LEMMA NoneIsNoChecksum == None \notin Nat
  BY DEF None

LEMMA TailsOfMarks ==
  ASSUME NEW s \in Seq(Nat), s # <<>>
  PROVE  /\ Tail(s) \in Seq(Nat) /\ Head(s) \in Nat
         /\ Named(Tail(s)) \subseteq Named(s)
         /\ Head(s) \in Named(s)
         /\ Named(s) \subseteq {Head(s)} \cup Named(Tail(s))
  <1>1. Tail(s) \in Seq(Nat) /\ Head(s) \in Nat /\ Len(s) \in Nat \ {0}
    OBVIOUS
  <1>2. Len(Tail(s)) = Len(s) - 1 /\ \A i \in 1..Len(s) - 1 : Tail(s)[i] = s[i + 1]
    OBVIOUS
  <1>3. Named(Tail(s)) \subseteq Named(s)
    BY <1>1, <1>2 DEF Named
  <1>4. Head(s) \in Named(s)
    BY <1>1 DEF Named
  <1>5. ASSUME NEW i \in DOMAIN s
        PROVE  s[i] \in {Head(s)} \cup Named(Tail(s))
    <2>1. CASE i = 1
      BY <2>1
    <2>2. CASE i # 1
      <3>1. i - 1 \in DOMAIN Tail(s) /\ Tail(s)[i - 1] = s[i]
        BY <2>2, <1>1, <1>2
      <3> QED  BY <3>1 DEF Named
    <2> QED  BY <2>1, <2>2
  <1> QED  BY <1>1, <1>3, <1>4, <1>5 DEF Named

-----------------------------------------------------------------------------
(***************************************************************************)
(* Type correctness.                                                       *)
(***************************************************************************)
LEMMA TypeInit == Init => TypeOK
  BY VersionsAssumption, CommandsAssumption DEF Init, TypeOK, Versions

LEMMA TypeEnd ==
  ASSUME TypeOK, NEW p \in Runners, NEW how \in {"ok", "failed", "crashed"}, End(p, how),
         UNCHANGED <<repository, database, reading>>, crashes' \in Nat
  PROVE  TypeOK'
  BY DEF End, TypeOK, repository, database, reading

\* The steps that end a runner leave the files and the database alone.
LEMMA EndingSteps ==
  ASSUME TypeOK, NEW p \in Runners,
         \/ MarkCollides(p) \/ MarkUnknown(p) \/ MarkDone(p)
         \/ Finish(p) \/ ExecuteFails(p) \/ Collide(p) \/ Crash(p)
  PROVE  /\ UNCHANGED <<repository, database, reading>>
         /\ crashes' \in Nat
         /\ \E how \in {"ok", "failed", "crashed"} :
               /\ End(p, how)
               /\ how = "ok" => (MarkDone(p) \/ Finish(p))
  <1>1. CASE MarkCollides(p)
    BY <1>1 DEF MarkCollides, TypeOK
  <1>2. CASE MarkUnknown(p)
    BY <1>2 DEF MarkUnknown, GiveUp, TypeOK
  <1>3. CASE MarkDone(p)
    BY <1>3 DEF MarkDone, TypeOK
  <1>4. CASE Finish(p)
    BY <1>4 DEF Finish, TypeOK
  <1>5. CASE ExecuteFails(p)
    BY <1>5 DEF ExecuteFails, GiveUp, TypeOK
  <1>6. CASE Collide(p)
    BY <1>6 DEF Collide, GiveUp, TypeOK
  <1>7. CASE Crash(p)
    BY <1>7 DEF Crash, TypeOK
  <1> QED  BY <1>1, <1>2, <1>3, <1>4, <1>5, <1>6, <1>7

LEMMA TypeWorld ==
  ASSUME TypeOK, AddFile \/ EditFile \/ RepairFile
  PROVE  TypeOK'
  <1>1. CASE AddFile
    BY <1>1 DEF AddFile, TypeOK, database, reading, listed
  <1>2. CASE EditFile
    BY <1>2 DEF EditFile, Edit, TypeOK, database, reading, listed
  <1>3. CASE RepairFile
    BY <1>3 DEF RepairFile, TypeOK, database, reading, listed
  <1> QED  BY <1>1, <1>2, <1>3

LEMMA TypeMarks ==
  ASSUME TypeOK, NEW p \in Runners, MarkRecorded(p) \/ MarkInsert(p)
  PROVE  TypeOK'
  <1>1. marks' = [marks EXCEPT ![p] = Tail(@)] /\ marks[p] # <<>>
    BY DEF MarkRecorded, MarkInsert, MarkNext
  <1>2. marks' \in [Runners -> Seq(Nat)]
    <2>1. marks \in [Runners -> Seq(Nat)]
      BY DEF TypeOK
    <2>2. Tail(marks[p]) \in Seq(Nat)
      BY <1>1, <2>1, TailsOfMarks
    <2> QED  BY <1>1, <2>1, <2>2
  <1>3. ledger' \in [Versions -> Nat \cup {None}]
    <2>1. CASE MarkRecorded(p)
      BY <2>1 DEF MarkRecorded, TypeOK
    <2>2. CASE MarkInsert(p)
      <3>1. PICK v \in files[p] : ledger' = [ledger EXCEPT ![v] = content[v]]
        BY <2>2 DEF MarkInsert
      <3>2. v \in Versions /\ content[v] \in Nat
        BY DEF TypeOK
      <3> QED  BY <3>1, <3>2 DEF TypeOK
    <2> QED  BY <2>1, <2>2
  <1> QED
    <2>1. UNCHANGED <<disk, content, broken, swapped, command, files, applied, digest, changed,
                      script, effect, executed, pc, pending, exit, crashes>>
      BY DEF MarkRecorded, MarkInsert, MarkNext, repository, reading, listed
    <2> QED  BY <1>2, <1>3, <2>1 DEF TypeOK

LEMMA TypeApply ==
  ASSUME TypeOK, NEW p \in Runners, List(p) \/ Execute(p) \/ Commit(p)
  PROVE  TypeOK'
  <1>1. CASE List(p)
    BY <1>1 DEF List, Pending, TypeOK, repository, database, reading
  <1>2. CASE Execute(p)
    <2>1. script' \in [Runners -> Nat]
      BY <1>2 DEF Execute, TypeOK
    <2> QED  BY <1>2, <2>1 DEF Execute, TypeOK, repository, database, reading
  <1>3. CASE Commit(p)
    <2>1. PICK v \in Versions : /\ Record(p, v) /\ effect' = effect \cup {v}
                                /\ executed' = [executed EXCEPT ![v] = Append(@, script[p])]
                                /\ pending' = [pending EXCEPT ![p] = @ \ {v}]
      BY <1>3 DEF Commit
    <2>2. ledger' \in [Versions -> Nat \cup {None}]
      BY <2>1 DEF Record, TypeOK
    <2>3. executed' \in [Versions -> Seq(Nat)]
      BY <2>1 DEF TypeOK
    <2>4. /\ pending' \in [Runners -> SUBSET Versions]
          /\ \A q \in Runners : pending'[q] \subseteq pending[q]
      BY <2>1 DEF TypeOK
    <2>5. /\ UNCHANGED <<disk, content, broken, swapped, command, files, applied, digest,
                         changed, marks, exit, crashes>>
          /\ script' = [script EXCEPT ![p] = 0] /\ pc' = [pc EXCEPT ![p] = "applying"]
      BY <1>3 DEF Commit, repository, reading
    <2> QED  BY <2>1, <2>2, <2>3, <2>4, <2>5 DEF TypeOK
  <1> QED  BY <1>1, <1>2, <1>3

LEMMA TypeStep == TypeOK /\ [Next]_vars => TypeOK'
  <1> SUFFICES ASSUME TypeOK, [Next]_vars
               PROVE  TypeOK'
    OBVIOUS
  <1>1. CASE AddFile \/ EditFile \/ RepairFile
    BY <1>1, TypeWorld
  <1>2. ASSUME NEW p \in Runners, NEW c \in Commands, Start(p, c)
        PROVE  TypeOK'
    BY <1>2 DEF Start, TypeOK, repository, database, listed
  <1>3. ASSUME NEW p \in Runners, ReadLedger(p)
        PROVE  TypeOK'
    <2>1. /\ applied' = [applied EXCEPT ![p] = Recorded]
          /\ pc' = [pc EXCEPT ![p] = IF Mode(p) = "mark" THEN "marking" ELSE "listing"]
          /\ marks' = [marks EXCEPT ![p] = command[p].marks]
          /\ UNCHANGED <<disk, content, broken, swapped, effect, ledger, executed, command,
                         files, digest, changed, script, pending, exit, crashes>>
          /\ pc[p] = "connected"
      BY <1>3 DEF ReadLedger, repository, database, reading
    <2>2. command[p].marks \in Seq(Nat)
      BY CommandsAssumption DEF TypeOK
    <2>3. pending[p] = {}
      BY <2>1 DEF TypeOK
    <2> QED  BY <2>1, <2>2, <2>3 DEF TypeOK, Recorded
  <1>4. ASSUME NEW p \in Runners, MarkRecorded(p) \/ MarkInsert(p)
        PROVE  TypeOK'
    BY <1>4, TypeMarks
  <1>5. ASSUME NEW p \in Runners, List(p) \/ Execute(p) \/ Commit(p)
        PROVE  TypeOK'
    BY <1>5, TypeApply
  <1>6. ASSUME NEW p \in Runners, \/ MarkCollides(p) \/ MarkUnknown(p) \/ MarkDone(p)
                                \/ Finish(p) \/ ExecuteFails(p) \/ Collide(p) \/ Crash(p)
        PROVE  TypeOK'
    BY <1>6, EndingSteps, TypeEnd
  <1>7. CASE UNCHANGED vars
    BY <1>7 DEF vars, TypeOK, repository, database, reading, listed
  <1> QED  BY <1>1, <1>2, <1>3, <1>4, <1>5, <1>6, <1>7 DEF Next, Work

THEOREM TypeCorrect == Spec => []TypeOK
  BY TypeInit, TypeStep, PTL DEF Spec

-----------------------------------------------------------------------------
(***************************************************************************)
(* The invariants.  What the properties say of one runner, to be proved    *)
(* runner by runner together with what it has read.                        *)
(***************************************************************************)
Reports(p) ==
    pc[p] \in {"applying", "executing"} =>
        \A v \in (files[p] \cap applied[p]) \ swapped : executed[v] # <<>> =>
            (v \in changed[p] <=> digest[p][v] # executed[v][1])

Truthful(p) ==
    exit[p] = "ok" =>
        /\ Mode(p) = "apply" => files[p] \subseteq Recorded
        /\ Mode(p) = "mark" => Named(command[p].marks) \subseteq Recorded

Knows(p) == ReadingInv(p) /\ ProgressInv(p) /\ Reports(p) /\ Truthful(p)
DatabaseInv == AppliedOnce /\ LedgerIsTrue
IInv == TypeOK /\ DatabaseInv /\ \A p \in Runners : Knows(p)

Local(p) == <<pc[p], command[p], files[p], applied[p], digest[p], changed[p], pending[p],
              marks[p], script[p], exit[p]>>

LEMMA InvInit == Init => IInv
  <1> SUFFICES ASSUME Init PROVE IInv
    OBVIOUS
  <1>1. TypeOK
    BY TypeInit
  <1>2. DatabaseInv
    BY DEF Init, DatabaseInv, AppliedOnce, LedgerIsTrue, Recorded
  <1>3. ASSUME NEW p \in Runners
        PROVE  Knows(p)
    BY DEF Init, Knows, ReadingInv, ProgressInv, Reports, Truthful
  <1> QED  BY <1>1, <1>2, <1>3 DEF IInv

(***************************************************************************)
(* What the steps do to the database.                                      *)
(***************************************************************************)
\* Only two actions write to it.
LEMMA Writers ==
  ASSUME TypeOK, [Next]_vars
  PROVE  \/ UNCHANGED <<effect, ledger, executed>>
         \/ \E p \in Runners : MarkInsert(p) \/ Commit(p)
  <1>1. CASE AddFile \/ EditFile \/ RepairFile \/ UNCHANGED vars
    BY <1>1 DEF AddFile, EditFile, RepairFile, vars, database
  <1>2. ASSUME NEW p \in Runners, NEW c \in Commands, Start(p, c)
        PROVE  UNCHANGED <<effect, ledger, executed>>
    BY <1>2 DEF Start, database
  <1>3. ASSUME NEW p \in Runners, ReadLedger(p) \/ List(p) \/ Execute(p)
        PROVE  UNCHANGED <<effect, ledger, executed>>
    BY <1>3 DEF ReadLedger, List, Execute, database
  <1>4. ASSUME NEW p \in Runners, MarkRecorded(p)
        PROVE  UNCHANGED <<effect, ledger, executed>>
    BY <1>4 DEF MarkRecorded, MarkNext
  <1>5. ASSUME NEW p \in Runners, \/ MarkCollides(p) \/ MarkUnknown(p) \/ MarkDone(p)
                                \/ Finish(p) \/ ExecuteFails(p) \/ Collide(p) \/ Crash(p)
        PROVE  UNCHANGED <<effect, ledger, executed>>
    BY <1>5, EndingSteps DEF database
  <1> QED  BY <1>1, <1>2, <1>3, <1>4, <1>5 DEF Next, Work

\* The version that is marked.
LEMMA Marking ==
  ASSUME TypeOK, NEW p \in Runners, ProgressInv(p), MarkInsert(p)
  PROVE  \E v \in Versions \cap Claimed :
            /\ v = Head(marks[p]) /\ ledger[v] = None
            /\ ledger' = [ledger EXCEPT ![v] = content[v]] /\ ledger'[v] \in Nat
            /\ UNCHANGED <<content, swapped, effect, executed>>
  <1>1. /\ pc[p] = "marking" /\ marks[p] # <<>>
        /\ Head(marks[p]) \in files[p] \ applied[p] /\ ledger[Head(marks[p])] = None
        /\ ledger' = [ledger EXCEPT ![Head(marks[p])] = content[Head(marks[p])]]
        /\ UNCHANGED <<content, swapped, effect, executed>>
    BY DEF MarkInsert, MarkNext, Admits, repository
  <1>2. Head(marks[p]) \in Named(command[p].marks)
    BY <1>1, TailsOfMarks DEF ProgressInv, TypeOK
  <1>3. Head(marks[p]) \in Claimed
    BY <1>2 DEF Claimed, Named, TypeOK
  <1>4. Head(marks[p]) \in Versions
    BY <1>1 DEF TypeOK
  <1>5. ledger'[Head(marks[p])] = content[Head(marks[p])] /\ content[Head(marks[p])] \in Nat
    BY <1>1, <1>4 DEF TypeOK
  <1> QED  BY <1>1, <1>3, <1>4, <1>5

\* The version that is committed.
LEMMA Committing ==
  ASSUME TypeOK, NEW p \in Runners, Commit(p)
  PROVE  \E v \in Versions :
            /\ pc[p] = "executing" /\ IsNext(p, v) /\ ledger[v] = None
            /\ ledger' = [ledger EXCEPT ![v] = digest[p][v]] /\ ledger'[v] \in Nat
            /\ effect' = effect \cup {v}
            /\ executed' = [executed EXCEPT ![v] = Append(@, script[p])]
            /\ pending' = [pending EXCEPT ![p] = @ \ {v}]
            /\ script' = [script EXCEPT ![p] = 0] /\ pc' = [pc EXCEPT ![p] = "applying"]
            /\ UNCHANGED <<content, swapped, command, files, applied, digest, changed, marks,
                           exit>>
  <1>1. PICK v \in Versions :
          /\ IsNext(p, v) /\ ledger[v] = None
          /\ ledger' = [ledger EXCEPT ![v] = digest[p][v]]
          /\ effect' = effect \cup {v}
          /\ executed' = [executed EXCEPT ![v] = Append(@, script[p])]
          /\ pending' = [pending EXCEPT ![p] = @ \ {v}]
    BY DEF Commit, Admits, Record
  <1>2. ledger'[v] = digest[p][v] /\ digest[p][v] \in Nat
    BY <1>1 DEF TypeOK
  <1>3. /\ pc[p] = "executing"
        /\ script' = [script EXCEPT ![p] = 0] /\ pc' = [pc EXCEPT ![p] = "applying"]
        /\ UNCHANGED <<content, swapped, command, files, applied, digest, changed, marks, exit>>
    BY DEF Commit, repository, reading
  <1> QED  BY <1>1, <1>2, <1>3

\* Nothing is ever taken out of the ledger, and what is in it is not executed again.
Settled(v) == ledger[v] # None => ledger'[v] = ledger[v] /\ executed'[v] = executed[v]

LEMMA LedgerGrows ==
  ASSUME TypeOK, \A p \in Runners : ProgressInv(p), [Next]_vars, NEW v \in Versions
  PROVE  Settled(v)
  <1>1. CASE UNCHANGED <<effect, ledger, executed>>
    BY <1>1 DEF Settled
  <1>2. ASSUME NEW p \in Runners, MarkInsert(p)
        PROVE  Settled(v)
    BY <1>2, Marking DEF Settled, TypeOK
  <1>3. ASSUME NEW p \in Runners, Commit(p)
        PROVE  Settled(v)
    BY <1>3, Committing DEF Settled, TypeOK
  <1> QED  BY <1>1, <1>2, <1>3, Writers

LEMMA RecordedGrows ==
  ASSUME TypeOK, \A v \in Versions : Settled(v)
  PROVE  Recorded \subseteq Recorded'
  BY DEF Settled, Recorded

\* Only an edit changes what a file says, and marks the versions it catches pending.
LEMMA Editing ==
  ASSUME TypeOK, [Next]_vars
  PROVE  \/ UNCHANGED <<content, swapped>>
         \/ /\ EditFile
            /\ swapped \subseteq swapped'
            /\ \A p \in Runners : \A w \in pending[p] \ swapped' : content'[w] = content[w]
  <1>1. CASE EditFile
    <2>1. PICK v \in Versions : Edit(v)
      BY <1>1 DEF EditFile, TypeOK
    <2>2. swapped \subseteq swapped'
      BY <2>1 DEF Edit
    <2>3. ASSUME NEW p \in Runners, NEW w \in pending[p] \ swapped'
          PROVE  content'[w] = content[w]
      BY <2>1, <2>3 DEF Edit, TypeOK
    <2> QED  BY <1>1, <2>2, <2>3
  <1>2. CASE AddFile \/ RepairFile \/ UNCHANGED vars
    BY <1>2 DEF AddFile, RepairFile, vars, repository
  <1>3. ASSUME NEW p \in Runners, NEW c \in Commands, Start(p, c)
        PROVE  UNCHANGED <<content, swapped>>
    BY <1>3 DEF Start, repository
  <1>4. ASSUME NEW p \in Runners, ReadLedger(p) \/ List(p) \/ Execute(p) \/ Commit(p)
        PROVE  UNCHANGED <<content, swapped>>
    BY <1>4 DEF ReadLedger, List, Execute, Commit, repository
  <1>5. ASSUME NEW p \in Runners, MarkRecorded(p) \/ MarkInsert(p)
        PROVE  UNCHANGED <<content, swapped>>
    BY <1>5 DEF MarkRecorded, MarkInsert, MarkNext, repository
  <1>6. ASSUME NEW p \in Runners, \/ MarkCollides(p) \/ MarkUnknown(p) \/ MarkDone(p)
                                \/ Finish(p) \/ ExecuteFails(p) \/ Collide(p) \/ Crash(p)
        PROVE  UNCHANGED <<content, swapped>>
    BY <1>6, EndingSteps DEF repository
  <1> QED  BY <1>1, <1>2, <1>3, <1>4, <1>5, <1>6 DEF Next, Work

LEMMA DatabaseStep ==
  ASSUME IInv, TypeOK', [Next]_vars
  PROVE  DatabaseInv'
  <1> USE DEF IInv, DatabaseInv
  <1>1. CASE UNCHANGED <<effect, ledger, executed>>
    <2>1. swapped \subseteq swapped'
      BY Editing
    <2> QED  BY <1>1, <2>1 DEF AppliedOnce, LedgerIsTrue, Recorded
  <1>2. ASSUME NEW p \in Runners, MarkInsert(p)
        PROVE  DatabaseInv'
    <2>1. ProgressInv(p)
      BY DEF Knows
    <2>2. PICK w \in Versions \cap Claimed :
            /\ ledger[w] = None
            /\ ledger' = [ledger EXCEPT ![w] = content[w]] /\ ledger'[w] \in Nat
            /\ UNCHANGED <<content, swapped, effect, executed>>
      BY <1>2, <2>1, Marking
    <2>3. AppliedOnce'
      BY <2>2 DEF AppliedOnce
    <2>4. Recorded' = Recorded \cup {w}
      <3>1. ledger'[w] # None /\ \A v \in Versions \ {w} : ledger'[v] = ledger[v]
        BY <2>2, NoneIsNoChecksum DEF TypeOK
      <3> QED  BY <3>1 DEF Recorded
    <2>5. executed[w] = <<>>
      BY <2>2 DEF LedgerIsTrue, Recorded
    <2>6. ASSUME NEW v \in Versions, executed[v] # <<>>
          PROVE  v \in Recorded' /\ (v \notin swapped => ledger'[v] = executed[v][1])
      <3>1. v # w /\ v \in Recorded /\ (v \notin swapped => ledger[v] = executed[v][1])
        BY <2>5, <2>6 DEF LedgerIsTrue
      <3> QED  BY <2>2, <2>4, <3>1 DEF TypeOK
    <2>7. Recorded' \subseteq effect' \cup Claimed
      BY <2>2, <2>4 DEF LedgerIsTrue
    <2> QED  BY <2>2, <2>3, <2>6, <2>7 DEF LedgerIsTrue
  <1>3. ASSUME NEW p \in Runners, Commit(p)
        PROVE  DatabaseInv'
    <2>1. PICK w \in Versions :
            /\ pc[p] = "executing" /\ IsNext(p, w) /\ ledger[w] = None
            /\ ledger' = [ledger EXCEPT ![w] = digest[p][w]] /\ ledger'[w] \in Nat
            /\ effect' = effect \cup {w}
            /\ executed' = [executed EXCEPT ![w] = Append(@, script[p])]
            /\ UNCHANGED <<content, swapped>>
      BY <1>3, Committing
    <2>2. executed[w] = <<>>
      BY <2>1 DEF LedgerIsTrue, Recorded
    <2>3. executed'[w] = <<script[p]>> /\ Len(executed'[w]) <= 1 /\ executed'[w][1] = script[p]
      BY <2>1, <2>2 DEF TypeOK
    <2>4. Recorded' = Recorded \cup {w}
      BY <2>1, NoneIsNoChecksum DEF Recorded, TypeOK
    <2>5. w \notin swapped => ledger'[w] = script[p]
      BY <2>1 DEF Knows, ReadingInv, IsNext, TypeOK
    <2>6. \A v \in Versions \ {w} : executed'[v] = executed[v] /\ ledger'[v] = ledger[v]
      BY <2>1 DEF TypeOK
    <2>7. AppliedOnce'
      <3>1. ASSUME NEW v \in Versions
            PROVE  Len(executed'[v]) <= 1
        <4>1. CASE v = w
          BY <2>3, <4>1, Zenon
        <4>2. CASE v # w
          <5>1. executed'[v] = executed[v] /\ Len(executed[v]) <= 1
            BY <2>6, <4>2, Zenon DEF AppliedOnce
          <5> QED  BY <5>1
        <4> QED  BY <4>1, <4>2
      <3> QED  BY <3>1 DEF AppliedOnce
    <2>8. LedgerIsTrue'
      BY <2>1, <2>3, <2>4, <2>5, <2>6 DEF LedgerIsTrue
    <2> QED  BY <2>7, <2>8
  <1> QED  BY <1>1, <1>2, <1>3, Writers

(***************************************************************************)
(* What the steps do to the runners.                                       *)
(***************************************************************************)
LEMMA Undisturbed ==
  ASSUME NEW q \in Runners, Knows(q), \A v \in Versions : Settled(v), TypeOK,
         UNCHANGED Local(q), UNCHANGED <<content, swapped>>
  PROVE  Knows(q)'
  <1>1. Recorded \subseteq Recorded'
    BY RecordedGrows
  <1>2. /\ pc'[q] = pc[q] /\ command'[q] = command[q] /\ files'[q] = files[q]
        /\ applied'[q] = applied[q] /\ digest'[q] = digest[q] /\ changed'[q] = changed[q]
        /\ pending'[q] = pending[q] /\ marks'[q] = marks[q] /\ script'[q] = script[q]
        /\ exit'[q] = exit[q] /\ content' = content /\ swapped' = swapped
    BY DEF Local
  <1>3. ReadingInv(q)'
    BY <1>1, <1>2 DEF Knows, ReadingInv, IsNext
  <1>4. ProgressInv(q)'
    <2>1. /\ Named(marks[q])' = Named(marks[q]) /\ Mode(q)' = Mode(q)
          /\ Named(command[q].marks)' = Named(command[q].marks)
      BY <1>2 DEF Named, Mode
    <2> QED  BY <1>1, <1>2, <2>1 DEF Knows, ProgressInv
  <1>5. \A v \in applied[q] : executed'[v] = executed[v]
    BY DEF Knows, ReadingInv, Settled, Recorded
  <1>6. Reports(q)'
    BY <1>2, <1>5 DEF Knows, Reports
  <1>7. Truthful(q)'
    BY <1>1, <1>2 DEF Knows, Truthful, Mode, Named
  <1> QED  BY <1>3, <1>4, <1>6, <1>7 DEF Knows

\* A step of one runner leaves the others what they know.
LEMMA Others ==
  ASSUME TypeOK, NEW p \in Runners, Work(p) \/ Crash(p) \/ \E c \in Commands : Start(p, c),
         NEW q \in Runners, q # p
  PROVE  UNCHANGED Local(q)
  <1> USE DEF Local, TypeOK
  <1>1. CASE \E c \in Commands : Start(p, c)
    BY <1>1 DEF Start, listed
  <1>2. CASE ReadLedger(p)
    BY <1>2 DEF ReadLedger, reading
  <1>3. CASE MarkRecorded(p) \/ MarkInsert(p)
    BY <1>3 DEF MarkRecorded, MarkInsert, MarkNext, reading, listed
  <1>4. CASE List(p)
    BY <1>4 DEF List, reading
  <1>5. CASE Execute(p)
    BY <1>5 DEF Execute, reading
  <1>6. CASE Commit(p)
    BY <1>6, Committing
  <1>7. CASE \/ MarkCollides(p) \/ MarkUnknown(p) \/ MarkDone(p)
            \/ Finish(p) \/ ExecuteFails(p) \/ Collide(p) \/ Crash(p)
    <2>1. PICK how \in {"ok", "failed", "crashed"} : End(p, how)
      BY <1>7, EndingSteps
    <2>2. UNCHANGED <<command, files>>
      BY <1>7, EndingSteps DEF reading
    <2>3. /\ pc'[q] = pc[q] /\ applied'[q] = applied[q] /\ digest'[q] = digest[q]
          /\ changed'[q] = changed[q] /\ pending'[q] = pending[q] /\ marks'[q] = marks[q]
          /\ script'[q] = script[q] /\ exit'[q] = exit[q]
      BY <2>1 DEF End
    <2> QED  BY <2>2, <2>3
  <1> QED  BY <1>1, <1>2, <1>3, <1>4, <1>5, <1>6, <1>7 DEF Work

(***************************************************************************)
(* What a runner's own steps do to what it knows.                          *)
(***************************************************************************)
LEMMA OwnStart ==
  ASSUME TypeOK, NEW p \in Runners, NEW c \in Commands, Knows(p), Start(p, c)
  PROVE  Knows(p)'
  <1>1. /\ pc'[p] = "connected" /\ exit'[p] = "none" /\ pending'[p] = {}
        /\ applied'[p] = applied[p] /\ ledger' = ledger
    BY DEF Start, TypeOK, database, listed
  <1>2. ReadingInv(p)'
    BY <1>1 DEF Knows, ReadingInv, Recorded
  <1> QED  BY <1>1, <1>2 DEF Knows, ProgressInv, Reports, Truthful

LEMMA OwnReading ==
  ASSUME TypeOK, NEW p \in Runners, Knows(p), ReadLedger(p)
  PROVE  Knows(p)'
  <1>1. /\ applied'[p] = Recorded /\ marks'[p] = command[p].marks /\ pending'[p] = {}
        /\ pc'[p] = IF Mode(p) = "mark" THEN "marking" ELSE "listing"
        /\ command'[p] = command[p] /\ ledger' = ledger /\ exit' = exit /\ files' = files
    BY DEF ReadLedger, TypeOK, repository, database, reading
  <1>2. Recorded' = Recorded
    BY <1>1 DEF Recorded
  <1>3. ReadingInv(p)'
    BY <1>1, <1>2 DEF ReadingInv
  <1>4. ProgressInv(p)'
    BY <1>1, <1>2 DEF ProgressInv, Mode, Named
  <1>5. Truthful(p)'
    BY <1>1, <1>2 DEF Knows, Truthful, Mode, Named
  <1> QED  BY <1>1, <1>3, <1>4, <1>5 DEF Knows, Reports

\* The head of what is left to mark is recorded before the rest goes on.
LEMMA OwnMark ==
  ASSUME TypeOK, NEW p \in Runners, Knows(p), MarkRecorded(p) \/ MarkInsert(p),
         \A v \in Versions : Settled(v)
  PROVE  Knows(p)'
  <1>1. /\ pc[p] = "marking" /\ marks[p] # <<>> /\ marks'[p] = Tail(marks[p])
        /\ pc'[p] = pc[p] /\ exit'[p] = exit[p] /\ pending'[p] = {} /\ command' = command
        /\ files' = files /\ applied' = applied
    <2>1. /\ pc[p] = "marking" /\ marks[p] # <<>> /\ marks' = [marks EXCEPT ![p] = Tail(@)]
          /\ UNCHANGED <<command, files, applied, pc, exit, pending>>
      BY DEF MarkRecorded, MarkInsert, MarkNext, repository, reading, listed
    <2>2. pending[p] = {} /\ marks'[p] = Tail(marks[p])
      BY <2>1 DEF TypeOK
    <2> QED  BY <2>1, <2>2
  <1>2. Recorded \subseteq Recorded'
    BY RecordedGrows
  <1>3. Named(marks[p]) = Named(Tail(marks[p])) \cup {Head(marks[p])}
    <2>1. marks[p] \in Seq(Nat)
      BY DEF TypeOK
    <2> QED  BY <1>1, <2>1, TailsOfMarks
  <1>4. Head(marks[p]) \in Recorded'
    <2>1. CASE MarkRecorded(p)
      BY <2>1, <1>2 DEF MarkRecorded, Knows, ReadingInv
    <2>2. CASE MarkInsert(p)
      <3>1. ProgressInv(p)
        BY DEF Knows
      <3>2. PICK v \in Versions \cap Claimed : v = Head(marks[p]) /\ ledger'[v] \in Nat
        BY <2>2, <3>1, Marking
      <3> QED  BY <3>2, NoneIsNoChecksum DEF Recorded
    <2> QED  BY <2>1, <2>2
  <1>5. ReadingInv(p)'
    BY <1>1, <1>2 DEF Knows, ReadingInv
  <1>6. ProgressInv(p)'
    <2>1. /\ Mode(p) = "mark" /\ Named(marks[p]) \subseteq Named(command[p].marks)
          /\ Named(command[p].marks) \subseteq Recorded \cup Named(marks[p])
      BY <1>1 DEF Knows, ProgressInv
    <2>2. Mode(p)' = Mode(p) /\ Named(command[p].marks)' = Named(command[p].marks)
      BY <1>1 DEF Mode, Named
    <2>3. Named(marks[p])' = Named(Tail(marks[p]))
      BY <1>1 DEF Named
    <2>4. /\ Named(Tail(marks[p])) \subseteq Named(command[p].marks)
          /\ Named(command[p].marks) \subseteq Recorded' \cup Named(Tail(marks[p]))
      BY <1>2, <1>3, <1>4, <2>1
    <2> QED  BY <1>1, <2>1, <2>2, <2>3, <2>4 DEF ProgressInv
  <1>7. Truthful(p)'
    BY <1>1, <1>2 DEF Knows, Truthful, Mode, Named
  <1> QED  BY <1>1, <1>5, <1>6, <1>7 DEF Knows, Reports

LEMMA OwnList ==
  ASSUME TypeOK, LedgerIsTrue, NEW p \in Runners, Knows(p), List(p)
  PROVE  Knows(p)'
  <1>1. /\ pc[p] = "listing" /\ pc'[p] = "applying" /\ exit'[p] = exit[p]
        /\ digest'[p] = content /\ pending'[p] = files[p] \ applied[p]
        /\ changed'[p] = {v \in files[p] \cap applied[p] : ledger[v] # content[v]}
        /\ UNCHANGED <<content, swapped, ledger, executed, command, files, applied>>
    BY DEF List, Pending, Differs, TypeOK, repository, database, reading
  <1>2. Recorded' = Recorded
    BY <1>1 DEF Recorded
  <1>3. ReadingInv(p)'
    BY <1>1, <1>2 DEF Knows, ReadingInv
  <1>4. ProgressInv(p)'
    BY <1>1, <1>2 DEF Knows, ReadingInv, ProgressInv, Mode
  <1>5. Reports(p)'
    <2> SUFFICES ASSUME NEW v \in (files[p] \cap applied[p]) \ swapped, executed[v] # <<>>
                 PROVE  v \in changed'[p] <=> content[v] # executed[v][1]
      BY <1>1 DEF Reports
    <2>1. ledger[v] = executed[v][1]
      BY DEF LedgerIsTrue, TypeOK
    <2> QED  BY <1>1, <2>1
  <1>6. Truthful(p)'
    BY <1>1, <1>2 DEF Knows, Truthful, Mode, Named
  <1> QED  BY <1>3, <1>4, <1>5, <1>6 DEF Knows

LEMMA OwnExecute ==
  ASSUME TypeOK, NEW p \in Runners, Knows(p), Execute(p)
  PROVE  Knows(p)'
  <1>1. PICK v \in Versions : IsNext(p, v) /\ script' = [script EXCEPT ![p] = content[v]]
    BY DEF Execute
  <1>2. /\ pc[p] = "applying" /\ pc'[p] = "executing" /\ script'[p] = content[v]
        /\ UNCHANGED <<content, swapped, ledger, executed, command, files, applied, digest,
                       changed, pending, exit>>
    BY <1>1 DEF Execute, TypeOK, repository, database, reading
  <1>3. Recorded' = Recorded
    BY <1>2 DEF Recorded
  <1>4. \A w \in Versions : IsNext(p, w)' => w = v
    BY <1>1, <1>2 DEF IsNext, Versions
  <1>5. ReadingInv(p)'
    BY <1>2, <1>3, <1>4 DEF Knows, ReadingInv
  <1>6. ProgressInv(p)'
    BY <1>2, <1>3 DEF Knows, ProgressInv, Mode
  <1>7. Reports(p)'
    BY <1>2 DEF Knows, Reports
  <1>8. Truthful(p)'
    BY <1>2, <1>3 DEF Knows, Truthful, Mode, Named
  <1> QED  BY <1>5, <1>6, <1>7, <1>8 DEF Knows

LEMMA OwnCommit ==
  ASSUME TypeOK, NEW p \in Runners, Knows(p), Commit(p), \A v \in Versions : Settled(v)
  PROVE  Knows(p)'
  <1>1. PICK v \in Versions :
          /\ pc[p] = "executing" /\ ledger'[v] \in Nat
          /\ pending' = [pending EXCEPT ![p] = @ \ {v}] /\ pc' = [pc EXCEPT ![p] = "applying"]
          /\ UNCHANGED <<content, swapped, command, files, applied, digest, changed, exit>>
    BY Committing
  <1>2. pending'[p] = pending[p] \ {v} /\ pc'[p] = "applying"
    BY <1>1 DEF TypeOK
  <1>3. Recorded \subseteq Recorded' /\ v \in Recorded'
    BY <1>1, RecordedGrows, NoneIsNoChecksum DEF Recorded
  <1>4. ReadingInv(p)'
    BY <1>1, <1>2, <1>3 DEF Knows, ReadingInv
  <1>5. ProgressInv(p)'
    BY <1>1, <1>2, <1>3 DEF Knows, ProgressInv, Mode
  <1>6. \A w \in applied[p] : executed'[w] = executed[w]
    BY DEF Knows, ReadingInv, Settled, Recorded
  <1>7. Reports(p)'
    BY <1>1, <1>2, <1>6 DEF Knows, Reports
  <1>8. Truthful(p)'
    BY <1>1, <1>3 DEF Knows, Truthful, Mode, Named
  <1> QED  BY <1>4, <1>5, <1>7, <1>8 DEF Knows

\* A runner that ends with 0 has recorded what it had to.
LEMMA OwnEnd ==
  ASSUME TypeOK, NEW p \in Runners, Knows(p),
         \/ MarkCollides(p) \/ MarkUnknown(p) \/ MarkDone(p)
         \/ Finish(p) \/ ExecuteFails(p) \/ Collide(p) \/ Crash(p)
  PROVE  Knows(p)'
  <1>1. PICK how \in {"ok", "failed", "crashed"} :
          End(p, how) /\ (how = "ok" => MarkDone(p) \/ Finish(p))
    BY EndingSteps
  <1>2. UNCHANGED <<command, files, ledger>>
    BY EndingSteps DEF reading, database
  <1>3. Recorded' = Recorded
    BY <1>2 DEF Recorded
  <1>4. pc'[p] = "down" /\ applied'[p] = {} /\ pending'[p] = {} /\ exit'[p] = how
    BY <1>1 DEF End, TypeOK
  <1>5. how = "ok" => /\ Mode(p) = "apply" => files[p] \subseteq Recorded
                      /\ Mode(p) = "mark" => Named(command[p].marks) \subseteq Recorded
    <2>1. CASE MarkDone(p)
      BY <2>1 DEF MarkDone, Knows, ProgressInv, Named
    <2>2. CASE Finish(p)
      BY <2>2 DEF Finish, Knows, ProgressInv
    <2> QED  BY <1>1, <2>1, <2>2
  <1>6. Truthful(p)'
    BY <1>2, <1>3, <1>4, <1>5 DEF Truthful, Mode, Named
  <1> QED  BY <1>4, <1>6 DEF Knows, ReadingInv, ProgressInv, Reports

-----------------------------------------------------------------------------
(***************************************************************************)
(* The invariant is inductive.                                             *)
(***************************************************************************)
\* An edit marks the pending versions it changes, so that nobody's knowledge suffers.
LEMMA Edited ==
  ASSUME TypeOK, NEW q \in Runners, Knows(q), EditFile
  PROVE  Knows(q)'
  <1>1. PICK v \in Versions : Edit(v)
    BY DEF EditFile, TypeOK
  <1>2. swapped \subseteq swapped' /\ \A w \in pending[q] \ swapped' : content'[w] = content[w]
    <2>1. swapped \subseteq swapped'
      BY <1>1 DEF Edit
    <2>2. ASSUME NEW w \in pending[q] \ swapped'
          PROVE  content'[w] = content[w]
      BY <1>1, <2>2 DEF Edit, TypeOK
    <2> QED  BY <2>1, <2>2
  <1>3. UNCHANGED <<ledger, executed, command, files, applied, digest, changed, script, pc,
                    pending, marks, exit>>
    BY DEF EditFile, database, reading, listed
  <1>4. Recorded' = Recorded
    BY <1>3 DEF Recorded
  <1>5. ReadingInv(q)'
    BY <1>2, <1>3, <1>4 DEF Knows, ReadingInv, IsNext
  <1>6. ProgressInv(q)'
    BY <1>3, <1>4 DEF Knows, ProgressInv, Mode, Named
  <1>7. Reports(q)'
    BY <1>2, <1>3 DEF Knows, Reports
  <1>8. Truthful(q)'
    BY <1>3, <1>4 DEF Knows, Truthful, Mode, Named
  <1> QED  BY <1>5, <1>6, <1>7, <1>8 DEF Knows

LEMMA InvStep == IInv /\ [Next]_vars => IInv'
  <1> SUFFICES ASSUME IInv, [Next]_vars
               PROVE  IInv'
    OBVIOUS
  <1>1. TypeOK /\ TypeOK' /\ LedgerIsTrue /\ \A p \in Runners : Knows(p)
    BY TypeStep DEF IInv, DatabaseInv
  <1>2. DatabaseInv'
    BY <1>1, DatabaseStep
  <1>3. \A p \in Runners : ProgressInv(p)
    BY <1>1 DEF Knows
  <1>4. \A v \in Versions : Settled(v)
    BY <1>1, <1>3, LedgerGrows
  <1>5. ASSUME NEW q \in Runners
        PROVE  Knows(q)'
    <2>1. CASE EditFile
      BY <1>1, <2>1, Edited
    <2>2. CASE AddFile \/ RepairFile \/ UNCHANGED vars
      <3>1. UNCHANGED Local(q) /\ UNCHANGED <<content, swapped>>
        BY <2>2 DEF AddFile, RepairFile, vars, Local, repository, reading, listed
      <3> QED  BY <1>1, <1>4, <3>1, Undisturbed
    <2>3. ASSUME NEW p \in Runners, Work(p) \/ Crash(p) \/ \E c \in Commands : Start(p, c)
          PROVE  Knows(q)'
      <3>1. CASE p # q
        <4>1. UNCHANGED Local(q)
          BY <1>1, <2>3, <3>1, Others
        <4>2. CASE UNCHANGED <<content, swapped>>
          BY <1>1, <1>4, <4>1, <4>2, Undisturbed
        <4> QED  BY <2>1, <4>2, <1>1, Editing
      <3>2. CASE p = q
        <4>1. CASE \E c \in Commands : Start(q, c)
          BY <1>1, <4>1, OwnStart
        <4>2. CASE ReadLedger(q)
          BY <1>1, <4>2, OwnReading
        <4>3. CASE MarkRecorded(q) \/ MarkInsert(q)
          BY <1>1, <1>4, <4>3, OwnMark
        <4>4. CASE List(q)
          BY <1>1, <4>4, OwnList
        <4>5. CASE Execute(q)
          BY <1>1, <4>5, OwnExecute
        <4>6. CASE Commit(q)
          BY <1>1, <1>4, <4>6, OwnCommit
        <4>7. CASE \/ MarkCollides(q) \/ MarkUnknown(q) \/ MarkDone(q)
                   \/ Finish(q) \/ ExecuteFails(q) \/ Collide(q) \/ Crash(q)
          BY <1>1, <4>7, OwnEnd
        <4> QED  BY <2>3, <3>2, <4>1, <4>2, <4>3, <4>4, <4>5, <4>6, <4>7 DEF Work
      <3> QED  BY <3>1, <3>2
    <2> QED  BY <2>1, <2>2, <2>3 DEF Next
  <1> QED  BY <1>1, <1>2, <1>5 DEF IInv

THEOREM Invariant == Spec => []IInv
  BY InvInit, InvStep, PTL DEF Spec

-----------------------------------------------------------------------------
(***************************************************************************)
(* What a careful operator relies on, for any number of runners, of        *)
(* versions, of commands, of edits and of crashes.                         *)
(***************************************************************************)
\* No version's SQL commits twice, whichever runners race (apply.py:1).
THEOREM AppliedOnceHolds == Spec => []AppliedOnce
  BY Invariant, PTL DEF IInv, DatabaseInv

\* What is executed is recorded with the content that ran, and what is recorded
\* has its effect or was claimed with --mark-applied (apply.py:18).
THEOREM LedgerHolds == Spec => []LedgerIsTrue
  BY Invariant, PTL DEF IInv, DatabaseInv

\* A listing reports exactly the applied files whose content is not what ran
\* (apply.py:78).
THEOREM EditsReported == Spec => []EditsAreReported
  <1>1. IInv => EditsAreReported
    BY DEF IInv, Knows, Reports, EditsAreReported
  <1> QED  BY <1>1, Invariant, PTL

\* After exit code 0 what an apply found, and what was named, is in the ledger
\* (apply.py:166, apply.py:204).
THEOREM ExitZeroHolds == Spec => []ExitZeroMeansRecorded
  <1>1. IInv => ExitZeroMeansRecorded
    BY DEF IInv, Knows, Truthful, Named, ExitZeroMeansRecorded
  <1> QED  BY <1>1, Invariant, PTL

\* A version commits only when every earlier one its runner found is recorded
\* (apply.py:1).
THEOREM InOrderHolds == Spec => InOrder
  <1>1. ASSUME IInv, NEW p \in Runners, Commit(p), NEW v \in Recorded' \ Recorded,
               NEW u \in files[p], u < v
        PROVE  u \in Recorded
    <2>1. TypeOK /\ ProgressInv(p)
      BY <1>1 DEF IInv, Knows
    <2>2. PICK w \in Versions : /\ pc[p] = "executing" /\ IsNext(p, w)
                                /\ ledger' = [ledger EXCEPT ![w] = digest[p][w]]
      BY <1>1, <2>1, Committing
    <2>3. v = w
      BY <1>1, <2>1, <2>2 DEF Recorded, TypeOK
    <2>4. u \in Versions
      BY <1>1, <2>1 DEF TypeOK
    <2>5. u \notin pending[p]
      BY <1>1, <2>2, <2>3, <2>4 DEF IsNext, Versions
    <2> QED  BY <1>1, <2>1, <2>2, <2>5 DEF ProgressInv
  <1>2. IInv /\ [Next]_vars => [\A p \in Runners : Commit(p) =>
          \A v \in Recorded' \ Recorded : {u \in files[p] : u < v} \subseteq Recorded]_vars
    BY <1>1
  <1> QED  BY <1>2, Invariant, PTL DEF Spec, InOrder

=============================================================================
