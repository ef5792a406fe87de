------------------------------ MODULE Records ------------------------------
(***************************************************************************)
(* ingestion/entities.py: where the records of an endpoint are in its      *)
(* payload and what their keys are.  Probe has the walk that measured it.  *)
(*                                                                         *)
(* A payload is a tree of nodes.  A dict's kids are <<key, node>>, a       *)
(* list's have the key "[]", which is also how a path marks "each element  *)
(* of the list": the probe's "Races[].Results" is <<"Races", "[]",         *)
(* "Results">> here.                                                       *)
(***************************************************************************)
EXTENDS Integers, Sequences, SequencesExt

Dict(kids) == [t |-> "dict", v |-> "", kids |-> kids]
List(nodes) == [t |-> "list", v |-> "", kids |-> [i \in DOMAIN nodes |-> <<"[]", nodes[i]>>]]
Text(s) == [t |-> "text", v |-> s, kids |-> <<>>]
Number(s) == [t |-> "number", v |-> s, kids |-> <<>>]
Null == [t |-> "null", v |-> "", kids |-> <<>>]

IsDict(n) == n.t = "dict"
Elements(n) == IF n.t = "list" THEN [i \in DOMAIN n.kids |-> n.kids[i][2]] ELSE <<>>

\* dict.get, and Null for what is not a dict.
Get(n, key) ==
    IF IsDict(n) /\ \E i \in DOMAIN n.kids : n.kids[i][1] = key
    THEN n.kids[CHOOSE i \in DOMAIN n.kids : n.kids[i][1] = key][2]
    ELSE Null

At(n, path) == FoldLeft(Get, n, path)

-----------------------------------------------------------------------------
(***************************************************************************)
(* The table of entities.  A key is the path of its value in a record; the *)
(* entities with a child list inherit season and round from the parent.    *)
(***************************************************************************)
Reference(list, keys) ==
    [scope |-> "global", container |-> <<"MRData">> \o list, child |-> "", keys |-> keys]
Nested(scope, list, child, keys) ==
    [scope |-> scope, container |-> <<"MRData">> \o list, child |-> child,
     keys |-> <<<<"season">>, <<"round">>>> \o keys]

RaceTable == <<"RaceTable", "Races">>
StandingsTable == <<"StandingsTable", "StandingsLists">>
\* Mutated: the flat key of a pit stop, where the results nest it.
MutDriver == <<"driverId">>
Driver == <<"Driver", "driverId">>

ENTITIES == [
    seasons      |-> Reference(<<"SeasonTable", "Seasons">>, <<<<"season">>>>),
    circuits     |-> Reference(<<"CircuitTable", "Circuits">>, <<<<"circuitId">>>>),
    drivers      |-> Reference(<<"DriverTable", "Drivers">>, <<<<"driverId">>>>),
    constructors |-> Reference(<<"ConstructorTable", "Constructors">>, <<<<"constructorId">>>>),
    status       |-> Reference(<<"StatusTable", "Status">>, <<<<"statusId">>>>),
    races        |-> Reference(RaceTable, <<<<"season">>, <<"round">>>>),
    results      |-> Nested("season", RaceTable, "Results", <<Driver>>),
    qualifying   |-> Nested("season", RaceTable, "QualifyingResults", <<Driver>>),
    sprint       |-> Nested("season", RaceTable, "SprintResults", <<Driver>>),
    pitstops     |-> Nested("race", RaceTable, "PitStops", <<<<"driverId">>, <<"stop">>>>),
    driverstandings |-> Nested("race", StandingsTable, "DriverStandings", <<Driver>>),
    constructorstandings |-> Nested("race", StandingsTable, "ConstructorStandings",
                                    <<<<"Constructor", "constructorId">>>>)]

ParentFields(spec) == IF spec.child = "" THEN {} ELSE {"season", "round"}

-----------------------------------------------------------------------------
(***************************************************************************)
(* parse_records.                                                          *)
(***************************************************************************)
\* value in (None, "").  Mutated: is None.
MutAbsent(n) == n = Null
Absent(n) == n = Null \/ n = Text("")

\* The record first, then the context its parent gives.
Resolve(spec, path, record, parent) ==
    LET own == At(record, path) IN
    IF ~Absent(own) THEN own
    ELSE IF \E field \in ParentFields(spec) : path = <<field>> THEN Get(parent, path[1])
    ELSE Null

\* `parent.get(child_key) or []`, and the loop over it: the keys of a dict and
\* the letters of a text are not dicts, so they are skipped.
Children(spec, parent) == IF spec.child = "" THEN <<parent>> ELSE Elements(Get(parent, spec.child))

\* A number, or true, where the children should be cannot be iterated, and nothing
\* catches it; 0 and false are as good as no children.  (Numbers stand for both.)
Raises(spec, payload) ==
    spec.child # "" /\ \E parent \in ToSet(Elements(At(payload, spec.container))) :
        LET children == Get(parent, spec.child)
        IN children.t = "number" /\ children.v # "0"

ParseChild(spec, child, parent) ==
    LET values == [i \in DOMAIN spec.keys |-> Resolve(spec, spec.keys[i], child, parent)] IN
    [ok |-> \A i \in DOMAIN values : ~Absent(values[i]),
     keys |-> [i \in DOMAIN values |-> values[i].v], payload |-> child]

Sorted(parsed, result) ==
    IF result.ok THEN [parsed EXCEPT !.records = Append(@, result)]
    ELSE [parsed EXCEPT !.failures = Append(@, result)]

\* The loop over the children of one parent.  It goes on from what is parsed already.
ParseParent(spec, parent, parsed) ==
    LET children == Children(spec, parent)
        upTo[k \in 0 .. Len(children)] ==
            IF k = 0 THEN parsed
            ELSE IF IsDict(children[k])
                 THEN Sorted(upTo[k - 1], ParseChild(spec, children[k], parent))
                 ELSE upTo[k - 1]
    IN upTo[Len(children)]

\* The records and the failures of a payload, in its order.
ParseRecords(spec, payload) ==
    LET parents == Elements(At(payload, spec.container))
        upTo[j \in 0 .. Len(parents)] ==
            IF j = 0 THEN [records |-> <<>>, failures |-> <<>>]
            ELSE IF IsDict(parents[j]) THEN ParseParent(spec, parents[j], upTo[j - 1])
                 ELSE upTo[j - 1]
    IN upTo[Len(parents)]
=============================================================================
