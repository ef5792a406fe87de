----------------------------- MODULE Migrations -----------------------------
(***************************************************************************)
(* migrations/apply.py: runners that bring a database up to the migration  *)
(* files on disk, and record each version in the ledger                    *)
(* raw.schema_migrations in the transaction that executes it.              *)
(*                                                                         *)
(* Nothing keeps two runners apart but the ledger's primary key.  Files    *)
(* are added, edited and repaired while runners work, early versions were  *)
(* applied by hand before the ledger existed, and a runner may die         *)
(* anywhere.                                                               *)
(***************************************************************************)
EXTENDS Integers, Sequences, FiniteSets

CONSTANTS
    Runners,        \* processes running apply.py
    NVersions,      \* versions that may come to exist
    FirstOnDisk,    \* versions on disk at the start
    ByHand,         \* versions whose SQL an operator ran in a console
    Rerunnable,     \* versions whose SQL succeeds on what it already made
    Faulty,         \* versions whose SQL fails until the file is repaired
    Commands,       \* command lines in use
    MaxEdits,       \* bound on the files that are edited, once each, for TLC
    MaxCrashes      \* bound on runners that die, for TLC

Versions == 1..NVersions
None == -1

ASSUME VersionsAssumption ==
    /\ NVersions \in Nat /\ MaxEdits \in Nat /\ MaxCrashes \in Nat
    /\ FirstOnDisk \subseteq Versions /\ FirstOnDisk # {}
    /\ ByHand \subseteq Versions /\ Faulty \subseteq Versions
ASSUME CommandsAssumption ==
    /\ Commands # {}
    /\ \A c \in Commands : /\ c.mode \in {"apply", "list", "mark"}
                           /\ c.marks \in Seq(Nat)

VARIABLES
    disk,           \* versions with a file in migrations/
    content,        \* content[v]: its content, which the checksum tells apart
    broken,         \* versions whose SQL still fails
    effect,         \* versions whose objects the database holds
    ledger,         \* ledger[v]: the recorded checksum, or None
    executed,       \* executed[v]: the contents of v that were committed, in order
    swapped,        \* versions edited while a runner had them pending
    pc,             \* where each runner is
    command,        \* its command line
    files,          \* the versions discover() returned to it
    applied,        \* the recorded versions it has read
    digest,         \* the checksums it took when it listed the files
    changed,        \* versions it reports as changed since they were applied
    pending,        \* versions it has still to apply
    marks,          \* arguments of --mark-applied it has still to record
    script,         \* the content it is executing in its open transaction
    exit,           \* how it ended
    crashes         \* runners that died so far

repository == <<disk, content, broken, swapped>>
database == <<effect, ledger, executed>>
reading == <<command, files>>
listed == <<applied, digest, changed, script>>
vars == <<repository, database, reading, listed, pc, pending, marks, exit, crashes>>

Recorded == {v \in Versions : ledger[v] # None}
Mode(p) == command[p].mode

TypeOK ==
    /\ disk \subseteq Versions /\ broken \subseteq Versions
    /\ effect \subseteq Versions /\ swapped \subseteq Versions
    /\ content \in [Versions -> Nat]
    /\ ledger \in [Versions -> Nat \cup {None}]
    /\ executed \in [Versions -> Seq(Nat)]
    /\ pc \in [Runners -> {"down", "connected", "marking", "listing", "applying", "executing"}]
    /\ command \in [Runners -> Commands]
    /\ files \in [Runners -> SUBSET Versions]
    /\ applied \in [Runners -> SUBSET Versions]
    /\ digest \in [Runners -> [Versions -> Nat]]
    /\ changed \in [Runners -> SUBSET Versions]
    /\ pending \in [Runners -> SUBSET Versions]
    /\ \A p \in Runners : pending[p] \subseteq
          IF pc[p] \in {"applying", "executing"} THEN files[p] \ applied[p] ELSE {}
    /\ marks \in [Runners -> Seq(Nat)]
    /\ script \in [Runners -> Nat]
    /\ exit \in [Runners -> {"none", "ok", "failed", "crashed"}]
    /\ crashes \in Nat

Init ==
    /\ disk = FirstOnDisk /\ broken = Faulty /\ effect = ByHand /\ swapped = {}
    /\ content = [v \in Versions |-> 0]
    /\ ledger = [v \in Versions |-> None]
    /\ executed = [v \in Versions |-> <<>>]
    /\ pc = [p \in Runners |-> "down"]
    /\ command = [p \in Runners |-> CHOOSE c \in Commands : TRUE]
    /\ files = [p \in Runners |-> {}]
    /\ applied = [p \in Runners |-> {}]
    /\ digest = [p \in Runners |-> [v \in Versions |-> 0]]
    /\ changed = [p \in Runners |-> {}]
    /\ pending = [p \in Runners |-> {}]
    /\ marks = [p \in Runners |-> <<>>]
    /\ script = [p \in Runners |-> 0]
    /\ exit = [p \in Runners |-> "none"]
    /\ crashes = 0

-----------------------------------------------------------------------------
(***************************************************************************)
(* The repository: files arrive, are edited, and are repaired when their   *)
(* SQL fails.                                                              *)
(***************************************************************************)
Edit(v) ==
    /\ content[v] = 0 /\ Cardinality({w \in Versions : content[w] # 0}) < MaxEdits
    /\ content' = [content EXCEPT ![v] = 1]
    /\ swapped' = IF \E p \in Runners : v \in pending[p] THEN swapped \cup {v} ELSE swapped

AddFile ==
    /\ \E v \in Versions \ disk : disk' = disk \cup {v}
    /\ UNCHANGED <<content, broken, swapped, database, reading, listed, pc, pending,
                   marks, exit, crashes>>

EditFile ==
    /\ \E v \in disk : Edit(v)
    /\ UNCHANGED <<disk, broken, database, reading, listed, pc, pending, marks, exit,
                   crashes>>

RepairFile ==
    /\ \E v \in broken : broken' = broken \ {v}
    /\ UNCHANGED <<disk, content, swapped, database, reading, listed, pc, pending, marks,
                   exit, crashes>>

-----------------------------------------------------------------------------
(***************************************************************************)
(* main, up to the choice of what to do.                                   *)
(***************************************************************************)
\* main returns, or dies, and its locals with it: `how` is its exit.
End(p, how) ==
    /\ pc' = [pc EXCEPT ![p] = "down"]
    /\ exit' = [exit EXCEPT ![p] = how]
    /\ applied' = [applied EXCEPT ![p] = {}]
    /\ digest' = [digest EXCEPT ![p] = [v \in Versions |-> 0]]
    /\ changed' = [changed EXCEPT ![p] = {}]
    /\ pending' = [pending EXCEPT ![p] = {}]
    /\ marks' = [marks EXCEPT ![p] = <<>>]
    /\ script' = [script EXCEPT ![p] = 0]

\* discover() reads the directory before the connection is opened.
Start(p, c) ==
    /\ pc[p] = "down"
    /\ pc' = [pc EXCEPT ![p] = "connected"]
    /\ command' = [command EXCEPT ![p] = c]
    /\ files' = [files EXCEPT ![p] = disk]
    /\ exit' = [exit EXCEPT ![p] = "none"]
    /\ UNCHANGED <<repository, database, listed, pending, marks, crashes>>

\* applied_versions: one read of the ledger, which the runner never repeats.
ReadLedger(p) ==
    /\ pc[p] = "connected"
    /\ applied' = [applied EXCEPT ![p] = Recorded]
    /\ pc' = [pc EXCEPT ![p] = IF Mode(p) = "mark" THEN "marking" ELSE "listing"]
    /\ marks' = [marks EXCEPT ![p] = command[p].marks]
    /\ UNCHANGED <<repository, database, reading, digest, changed, script, pending, exit, crashes>>

\* Mutated: main breaks out of its loop, and returns 0 at its end.
MutGiveUp(p) == End(p, "ok")
GiveUp(p) == End(p, "failed")

\* The primary key of the ledger.  Mutated: an insert with on conflict do nothing.
MutAdmits(v) == TRUE
Admits(v) == ledger[v] = None

-----------------------------------------------------------------------------
(***************************************************************************)
(* --mark-applied: one commit for each version that is named.              *)
(***************************************************************************)
MarkNext(p) ==
    /\ pc[p] = "marking" /\ marks[p] # <<>>
    /\ marks' = [marks EXCEPT ![p] = Tail(@)]
    /\ UNCHANGED <<repository, reading, listed, effect, executed, pc, pending, exit, crashes>>

MarkRecorded(p) ==
    /\ MarkNext(p)
    /\ Head(marks[p]) \in files[p] \cap applied[p]
    /\ UNCHANGED ledger

MarkInsert(p) ==
    /\ MarkNext(p)
    /\ LET v == Head(marks[p]) IN
          /\ v \in files[p] \ applied[p] /\ Admits(v)
          /\ ledger' = [ledger EXCEPT ![v] = content[v]]

\* The version has been recorded since the ledger was read, by another runner
\* or by this command line: the insert violates the primary key, uncaught.
MarkCollides(p) ==
    /\ pc[p] = "marking" /\ marks[p] # <<>>
    /\ Head(marks[p]) \in files[p] \ applied[p] /\ ~Admits(Head(marks[p]))
    /\ End(p, "crashed")
    /\ UNCHANGED <<repository, database, reading, crashes>>

MarkUnknown(p) ==
    /\ pc[p] = "marking" /\ marks[p] # <<>> /\ Head(marks[p]) \notin files[p]
    /\ GiveUp(p)
    /\ UNCHANGED <<repository, database, reading, crashes>>

MarkDone(p) ==
    /\ pc[p] = "marking" /\ marks[p] = <<>>
    /\ End(p, "ok")
    /\ UNCHANGED <<repository, database, reading, crashes>>

-----------------------------------------------------------------------------
(***************************************************************************)
(* Listing and applying.                                                   *)
(***************************************************************************)
\* The recorded checksum, which never changes once it is read.  Mutated: the
\* checksum that is compared is the recorded one.
MutDiffers(v) == FALSE
Differs(v) == ledger[v] # content[v]

\* Mutated: the branch of the recorded versions does not skip.
MutPending(p) == files[p]
Pending(p) == files[p] \ applied[p]

List(p) ==
    /\ pc[p] = "listing"
    /\ digest' = [digest EXCEPT ![p] = content]
    /\ changed' = [changed EXCEPT ![p] = {v \in files[p] \cap applied[p] : Differs(v)}]
    /\ pending' = [pending EXCEPT ![p] = Pending(p)]
    /\ pc' = [pc EXCEPT ![p] = "applying"]
    /\ UNCHANGED <<repository, database, reading, applied, script, marks, exit, crashes>>

\* --status and --dry-run ("list"), or nothing pending (any more).
Finish(p) ==
    /\ pc[p] = "applying" /\ (Mode(p) # "apply" \/ pending[p] = {})
    /\ End(p, "ok")
    /\ UNCHANGED <<repository, database, reading, crashes>>

\* Mutated: the pending versions in reverse order.
MutIsNext(p, v) == v \in pending[p] /\ \A w \in pending[p] : v >= w
IsNext(p, v) == v \in pending[p] /\ \A w \in pending[p] : v <= w

\* The file is read again, after the checksum was taken.
Succeeds(v) == v \notin broken /\ (v \in effect => v \in Rerunnable)

Execute(p) ==
    /\ pc[p] = "applying" /\ Mode(p) = "apply"
    /\ \E v \in Versions : IsNext(p, v) /\ Succeeds(v)
                           /\ script' = [script EXCEPT ![p] = content[v]]
    /\ pc' = [pc EXCEPT ![p] = "executing"]
    /\ UNCHANGED <<repository, database, reading, applied, digest, changed, pending, marks, exit, crashes>>

ExecuteFails(p) ==
    /\ pc[p] = "applying" /\ Mode(p) = "apply"
    /\ \E v \in Versions : IsNext(p, v) /\ ~Succeeds(v)
    /\ GiveUp(p)
    /\ UNCHANGED <<repository, database, reading, crashes>>

\* Mutated: the ledger row is lost, as if it had a transaction of its own.
MutRecord(p, v) == UNCHANGED ledger
Record(p, v) == ledger' = [ledger EXCEPT ![v] = digest[p][v]]

\* The SQL and its ledger row commit together.
Commit(p) ==
    /\ pc[p] = "executing"
    /\ \E v \in Versions :
          /\ IsNext(p, v) /\ Admits(v)
          /\ Record(p, v)
          /\ effect' = effect \cup {v}
          /\ executed' = [executed EXCEPT ![v] = Append(@, script[p])]
          /\ pending' = [pending EXCEPT ![p] = @ \ {v}]
    /\ script' = [script EXCEPT ![p] = 0]
    /\ pc' = [pc EXCEPT ![p] = "applying"]
    /\ UNCHANGED <<repository, reading, applied, digest, changed, marks, exit, crashes>>

\* Another runner committed the version first: roll back, report, stop.
Collide(p) ==
    /\ pc[p] = "executing"
    /\ \E v \in Versions : IsNext(p, v) /\ ~Admits(v)
    /\ GiveUp(p)
    /\ UNCHANGED <<repository, database, reading, crashes>>

\* Killed, or the connection is lost: the server rolls back.
Crash(p) ==
    /\ pc[p] # "down" /\ crashes < MaxCrashes
    /\ End(p, "crashed")
    /\ crashes' = crashes + 1
    /\ UNCHANGED <<repository, database, reading>>

Work(p) ==
    \/ ReadLedger(p)
    \/ MarkRecorded(p) \/ MarkInsert(p) \/ MarkCollides(p) \/ MarkUnknown(p) \/ MarkDone(p)
    \/ List(p) \/ Finish(p) \/ Execute(p) \/ ExecuteFails(p) \/ Commit(p) \/ Collide(p)

Next ==
    \/ AddFile \/ EditFile \/ RepairFile
    \/ \E p \in Runners : Work(p) \/ Crash(p) \/ \E c \in Commands : Start(p, c)

Spec == Init /\ [][Next]_vars

(***************************************************************************)
(* Fairness: a runner that can go on does, files that fail get repaired,   *)
(* and the operator gives every command again and again.  An apply runner  *)
(* that always meets another one, or an edit, is not unfair: SF on Start.  *)
(***************************************************************************)
FairSpec ==
    /\ Spec
    /\ WF_vars(RepairFile)
    /\ \A p \in Runners : WF_vars(Work(p)) /\ \A c \in Commands : SF_vars(Start(p, c))
-----------------------------------------------------------------------------
(***************************************************************************)
(* Exactly once (apply.py:1): whichever runners race on what they read as  *)
(* pending, no version's SQL commits twice.                                *)
(***************************************************************************)
AppliedOnce == \A v \in Versions : Len(executed[v]) <= 1

(***************************************************************************)
(* A failure leaves neither the change nor a record of it (apply.py:18-19):*)
(* what has been executed is recorded, with the content that was executed  *)
(* unless the file was edited under the runner, and what is recorded has   *)
(* its effect, unless an operator claimed so with --mark-applied.          *)
(***************************************************************************)
Claimed == UNION {{c.marks[i] : i \in DOMAIN c.marks} : c \in Commands}
LedgerIsTrue ==
    /\ \A v \in Versions : executed[v] # <<>> =>
          v \in Recorded /\ (v \notin swapped => ledger[v] = executed[v][1])
    /\ Recorded \subseteq effect \cup Claimed

(***************************************************************************)
(* An edit of an applied migration is detected (apply.py:78-83): a listing *)
(* reports exactly the applied files whose content is not what ran.        *)
(***************************************************************************)
EditsAreReported ==
    \A p \in Runners : pc[p] \in {"applying", "executing"} =>
        \A v \in (files[p] \cap applied[p]) \ swapped : executed[v] # <<>> =>
            (v \in changed[p] <=> digest[p][v] # executed[v][1])

(***************************************************************************)
(* In order (apply.py:1): a version is committed only when every earlier   *)
(* one the runner found on disk is recorded, also when another runner, or  *)
(* a failure, came between.                                                *)
(***************************************************************************)
InOrder ==
    [][\A p \in Runners : Commit(p) =>
          \A v \in Recorded' \ Recorded : {u \in files[p] : u < v} \subseteq Recorded]_vars

(***************************************************************************)
(* Exit code 0 is the truth: after it every file that an apply found, and  *)
(* every version that --mark-applied named, is in the ledger.              *)
(***************************************************************************)
ExitZeroMeansRecorded ==
    \A p \in Runners : exit[p] = "ok" =>
        /\ Mode(p) = "apply" => files[p] \subseteq Recorded
        /\ Mode(p) = "mark" => \A i \in DOMAIN command[p].marks :
                                  command[p].marks[i] \in Recorded

(***************************************************************************)
(* Every migration on disk is recorded in the end, if what fails gets      *)
(* repaired, what was made by hand is marked, and runners are started      *)
(* again, however they collide and die.                                    *)
(***************************************************************************)
EventuallyRecorded == \A v \in Versions : v \in disk ~> v \in Recorded

-----------------------------------------------------------------------------
(***************************************************************************)
(* The inductive invariant: the two invariants of the database, and what   *)
(* each runner knows of it.  A runner's reading of the ledger gets old but *)
(* never wrong, because nothing is ever taken out of the ledger; what is   *)
(* not pending any more is recorded; and a checksum or a script is the     *)
(* file's content unless the file was edited under the runner.             *)
(***************************************************************************)
Named(s) == {s[i] : i \in DOMAIN s}

ReadingInv(p) ==
    /\ applied[p] \subseteq Recorded
    /\ \A v \in pending[p] \ swapped : digest[p][v] = content[v]
    /\ pc[p] = "executing" =>
          \A v \in Versions \ swapped : IsNext(p, v) => script[p] = content[v]

ProgressInv(p) ==
    /\ pc[p] \in {"applying", "executing"} => files[p] \ pending[p] \subseteq Recorded
    /\ pc[p] \in {"listing", "applying", "executing"} => Mode(p) # "mark"
    /\ pc[p] = "marking" =>
          /\ Mode(p) = "mark"
          /\ Named(marks[p]) \subseteq Named(command[p].marks)
          /\ Named(command[p].marks) \subseteq Recorded \cup Named(marks[p])

RunnersInv == \A p \in Runners : ReadingInv(p) /\ ProgressInv(p)
=============================================================================
