------------------------------ MODULE Loading ------------------------------
(***************************************************************************)
(* ingestion/pipeline.py, load_from_lake: the landed objects of one entity *)
(* are parsed one after the other, records are upserted, what cannot be    *)
(* used is dead-lettered, and all of it commits at the end.  Then the same *)
(* partition is loaded once more.                                          *)
(***************************************************************************)
EXTENDS Records, FiniteSets

CONSTANTS
    Names,          \* entities to load
    Objects(_),     \* Objects(name): what a landed object of it may hold
    MaxObjects      \* bound on the objects of a partition, for TLC

Garbage == [t |-> "garbage", v |-> "", kids |-> <<>>]   \* not JSON

\* The lists of a payload are finite: those that parse_records walks over.
IsList(s) == Len(s) \in Nat /\ DOMAIN s = 1..Len(s)
ASSUME LoadingAssumption ==
    /\ Names \subseteq DOMAIN ENTITIES /\ MaxObjects \in Nat
    /\ \A n \in Names : \A payload \in Objects(n) \ {Garbage} :
          LET parents == Elements(At(payload, ENTITIES[n].container))
          IN /\ IsList(parents)
             /\ \A j \in DOMAIN parents : IsList(Children(ENTITIES[n], parents[j]))

VARIABLES
    name,           \* the entity
    lake,           \* its objects, in the order list_keys sorts them
    at,             \* the object that is loaded, 0 before the first
    records,        \* its records
    next,           \* the one that is upserted next
    table,          \* the raw table, as this transaction sees it
    letters,        \* rows of raw.failed_ingestions: <<object, fragment>>
    outcome,        \* the counts of LoadOutcome
    committed,      \* table and letters as committed
    first,          \* what the first load left and counted, once it is done
    exit            \* "loading", "ok", "reloaded" or "died"

vars == <<name, lake, at, records, next, table, letters, outcome, committed, first, exit>>
Entity == ENTITIES[name]
NoOutcome == [parsed |-> 0, inserted |-> 0, updated |-> 0, failed |-> 0]

Init ==
    /\ name \in Names
    /\ lake \in SeqOf(Objects(name), MaxObjects)
    /\ at = 0 /\ records = <<>> /\ next = 1 /\ table = {} /\ letters = <<>> /\ outcome = NoOutcome
    /\ committed = [table |-> {}, letters |-> <<>>]
    /\ first = [done |-> FALSE, table |-> {}, letters |-> <<>>, outcome |-> NoOutcome]
    /\ exit = "loading"

\* The loop over the objects, when every record of the last one is upserted.
Upserted == exit = "loading" /\ next \notin DOMAIN records
object == at + 1
Opens == Upserted /\ object \in DOMAIN lake

\* One object is parsed: its failures are dead-lettered, its records come next.
ParseObject ==
    /\ Opens /\ lake[object] # Garbage /\ ~Raises(Entity, lake[object])
    /\ LET parsed == ParseRecords(Entity, lake[object])
       IN /\ records' = parsed.records
          /\ letters' = letters \o [i \in DOMAIN parsed.failures |->
                                       <<object, parsed.failures[i].payload>>]
          /\ outcome' = [outcome EXCEPT !.parsed = @ + Len(parsed.records),
                                        !.failed = @ + Len(parsed.failures)]
    /\ at' = object /\ next' = 1
    /\ UNCHANGED <<name, lake, table, committed, first, exit>>

\* `where payload is distinct from excluded.payload`.  Mutated: without it.
MutDistinct(old, record) == TRUE
Distinct(old, record) == old.payload # record.payload

\* The statement that upsert executes for each record.
UpsertRecord ==
    /\ exit = "loading" /\ next \in DOMAIN records
    /\ LET record == records[next]
           old == {row \in table : row.keys = record.keys}
           new == [keys |-> record.keys, payload |-> record.payload]
       IN \/ /\ old = {}
             /\ table' = table \cup {new}
             /\ outcome' = [outcome EXCEPT !.inserted = @ + 1]
          \/ /\ \E row \in old : Distinct(row, record)
             /\ table' = (table \ old) \cup {new}
             /\ outcome' = [outcome EXCEPT !.updated = @ + 1]
          \/ /\ old # {} /\ ~\E row \in old : Distinct(row, record)
             /\ UNCHANGED <<table, outcome>>
    /\ next' = next + 1
    /\ UNCHANGED <<name, lake, at, records, letters, committed, first, exit>>

\* parse_lake_object raises ValueError: the object is dead-lettered as a whole.
LoadGarbage ==
    /\ Opens /\ lake[object] = Garbage
    /\ letters' = Append(letters, <<object, Garbage>>)
    /\ outcome' = [outcome EXCEPT !.failed = @ + 1]
    /\ at' = object /\ records' = <<>> /\ next' = 1
    /\ UNCHANGED <<name, lake, table, committed, first, exit>>

\* Any other exception ends the process, and the transaction with it.
Die ==
    /\ Opens /\ lake[object] # Garbage /\ Raises(Entity, lake[object])
    /\ table' = committed.table /\ letters' = committed.letters
    /\ exit' = "died"
    /\ UNCHANGED <<name, lake, at, records, next, outcome, committed, first>>

Commit ==
    /\ Upserted /\ at = Len(lake)
    /\ committed' = [table |-> table, letters |-> letters]
    /\ first' = IF first.done THEN first
                ELSE [done |-> TRUE, table |-> table, letters |-> letters, outcome |-> outcome]
    /\ exit' = IF first.done THEN "reloaded" ELSE "ok"
    /\ UNCHANGED <<name, lake, at, records, next, table, letters, outcome>>

\* The next run of the day loads the partition again.
Reload ==
    /\ exit = "ok"
    /\ at' = 0 /\ records' = <<>> /\ next' = 1 /\ outcome' = NoOutcome /\ exit' = "loading"
    /\ UNCHANGED <<name, lake, table, letters, committed, first>>

Next == ParseObject \/ UpsertRecord \/ LoadGarbage \/ Die \/ Commit \/ Reload
Spec == Init /\ [][Next]_vars /\ WF_vars(Next)

-----------------------------------------------------------------------------
(***************************************************************************)
(* Loading a partition again converges to the same table, and is a no-op   *)
(* there (load_warehouse.py:78-80) unless two of its records disagree on a *)
(* row.  Its dead letters are inserted once more.                          *)
(***************************************************************************)
AllRecords ==
    UNION {ToSet(ParseRecords(Entity, lake[i]).records) :
              i \in {k \in DOMAIN lake : lake[k] # Garbage}}
Disagree == \E r, s \in AllRecords : r.keys = s.keys /\ r.payload # s.payload
RerunConverges ==
    exit = "reloaded" =>
        /\ table = first.table
        /\ outcome.inserted = 0 /\ (Disagree \/ outcome.updated = 0)

(***************************************************************************)
(* The objects that a payload holds at the measured place, one by one: the *)
(* k-th child of the j-th parent.  An object that cannot be read is its own*)
(* fragment, and has no keys.                                              *)
(***************************************************************************)
Parents(i) == Elements(At(lake[i], Entity.container))
Places(i) ==
    IF lake[i] = Garbage THEN {<<0, 0>>}
    ELSE UNION {{<<j, k>> : k \in {k \in DOMAIN Children(Entity, Parents(i)[j]) :
                                     IsDict(Children(Entity, Parents(i)[j])[k])}} :
                   j \in {j \in DOMAIN Parents(i) : IsDict(Parents(i)[j])}}
Fragment(i, place) ==
    IF lake[i] = Garbage THEN Garbage ELSE Children(Entity, Parents(i)[place[1]])[place[2]]

\* What a key may be: the object's own value, or the one that its parent gives.
Says(n) == n # Null /\ n # Text("")
Values(i, place, path) ==
    LET own == At(Fragment(i, place), path)
        inherited == Get(Parents(i)[place[1]], path[1])
    IN IF Says(own) THEN {own.v}
       ELSE IF Entity.child # "" /\ path \in {<<"season">>, <<"round">>} /\ Says(inherited)
       THEN {inherited.v} ELSE {}
Complete(i, place) ==
    lake[i] # Garbage /\ \A n \in DOMAIN Entity.keys : Values(i, place, Entity.keys[n]) # {}
IsAt(i, place, row) ==
    \A n \in DOMAIN Entity.keys : row.keys[n] \in Values(i, place, Entity.keys[n])

(***************************************************************************)
(* A number (or true) in the place of the children ends the load.          *)
(***************************************************************************)
Kills(i) ==
    /\ lake[i] # Garbage /\ Entity.child # ""
    /\ \E j \in DOMAIN Parents(i) :
          LET children == Get(Parents(i)[j], Entity.child)
          IN children.t = "number" /\ children.v # "0"

(***************************************************************************)
(* "ARCHITECTURE 5 requires that one bad record never kills a run and     *)
(* never vanishes silently" (entities.py:214-216), with the two exceptions *)
(* that the code makes.  After a load every object that a payload holds at *)
(* the measured place has the row of its keys or is a dead letter of its   *)
(* own, every landed object that cannot be read is a dead letter, nothing  *)
(* else is in either, so that what is no object (entities.py:232-233) is   *)
(* in neither, and the counts that the run reports are those.  And the run *)
(* is killed for one cause only, what Kills says of one of the objects, is *)
(* killed whenever there is that cause, and then leaves nothing of the     *)
(* partition: a load that has passed once is never killed on it again.     *)
(***************************************************************************)
NothingVanishes ==
    /\ exit \in {"ok", "reloaded"} => ~\E i \in DOMAIN lake : Kills(i)
    /\ exit = "died" => (\E i \in DOMAIN lake : Kills(i)) /\ table = {} /\ letters = <<>>
    /\ exit = "ok" =>
        /\ \A i \in DOMAIN lake : \A place \in Places(i) : Complete(i, place) =>
              \E row \in first.table : \A other \in first.table :
                  IsAt(i, place, other) <=> other = row
        /\ \A row \in first.table : \E i \in DOMAIN lake : \E place \in Places(i) :
              Complete(i, place) /\ IsAt(i, place, row) /\ row.payload = Fragment(i, place)
        /\ \A i \in DOMAIN lake :
              \A fragment \in {Fragment(i, place) : place \in Places(i)} :
                  Cardinality({l \in DOMAIN first.letters : first.letters[l] = <<i, fragment>>})
                  = Cardinality({place \in Places(i) :
                                    ~Complete(i, place) /\ Fragment(i, place) = fragment})
        /\ \A letter \in ToSet(first.letters) : letter[1] \in DOMAIN lake
              /\ \E place \in Places(letter[1]) : letter[2] = Fragment(letter[1], place)
        /\ first.outcome.failed = Len(first.letters)
        /\ first.outcome.inserted = Cardinality(first.table)
=============================================================================
