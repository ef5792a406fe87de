------------------------------ MODULE Evidence ------------------------------
(***************************************************************************)
(* What the table of entities was written from: the measurements of the    *)
(* probe, and the grains of the raw tables.                                *)
(***************************************************************************)
EXTENDS Loading, Probe

(***************************************************************************)
(* discovery/findings/source_probe.md: for each endpoint that is loaded,   *)
(* the path of the records that it counts; and the columns of the primary  *)
(* key of its raw table (migrations 003 to 005), in their order, each by   *)
(* the path at which the measured sample record has it.  What a record     *)
(* does not have, season and round, comes from the object it is nested in. *)
(***************************************************************************)
Reported(list, own) == [grain |-> <<"MRData">> \o list, context |-> <<>>, own |-> own]
Under(list, child, own) ==
    [grain |-> <<"MRData">> \o list \o <<"[]", child>>, context |-> <<"season", "round">>, own |-> own]

Measured == [
    seasons      |-> Reported(<<"SeasonTable", "Seasons">>, <<<<"season">>>>),
    circuits     |-> Reported(<<"CircuitTable", "Circuits">>, <<<<"circuitId">>>>),
    races        |-> Reported(<<"RaceTable", "Races">>, <<<<"season">>, <<"round">>>>),
    drivers      |-> Reported(<<"DriverTable", "Drivers">>, <<<<"driverId">>>>),
    constructors |-> Reported(<<"ConstructorTable", "Constructors">>, <<<<"constructorId">>>>),
    results      |-> Under(<<"RaceTable", "Races">>, "Results", <<<<"Driver", "driverId">>>>),
    qualifying   |-> Under(<<"RaceTable", "Races">>, "QualifyingResults", <<<<"Driver", "driverId">>>>),
    sprint       |-> Under(<<"RaceTable", "Races">>, "SprintResults", <<<<"Driver", "driverId">>>>),
    pitstops     |-> Under(<<"RaceTable", "Races">>, "PitStops", <<<<"driverId">>, <<"stop">>>>),
    driverstandings |-> Under(<<"StandingsTable", "StandingsLists">>, "DriverStandings",
                              <<<<"Driver", "driverId">>>>),
    constructorstandings |-> Under(<<"StandingsTable", "StandingsLists">>, "ConstructorStandings",
                                   <<<<"Constructor", "constructorId">>>>),
    status       |-> Reported(<<"StatusTable", "Status">>, <<<<"statusId">>>>)]

Measure == Measured[name]
IsNested(m) == m.context # <<>>
Above(m) == IF IsNested(m) THEN SubSeq(m.grain, 1, Len(m.grain) - 2) ELSE <<>>

\* The records that the endpoint counts, and those of one object they are nested in.
Counted(o) == CollectRecords(o, Measure.grain)
Outer(o) == CollectRecords(o, Above(Measure))
Within(parent) == CollectRecords(parent, <<Last(Measure.grain)>>)

\* A payload whose records are all as the sample is.
IsText(n) == n.t = "text" /\ n.v # ""
AsMeasured(o) ==
    /\ o # Garbage
    /\ \A record \in ToSet(Counted(o)) :
          /\ \A i \in DOMAIN Measure.own : IsText(At(record, Measure.own[i]))
          /\ \A i \in DOMAIN Measure.context : Get(record, Measure.context[i]) = Null
    /\ IsNested(Measure) => \A parent \in ToSet(Outer(o)) :
          \A i \in DOMAIN Measure.context : IsText(Get(parent, Measure.context[i]))

\* The grains of its records.
Own(record) == [i \in DOMAIN Measure.own |-> At(record, Measure.own[i]).v]
Context(parent) == [i \in DOMAIN Measure.context |-> Get(parent, Measure.context[i]).v]
Grains(o) ==
    IF IsNested(Measure)
    THEN UNION {{Context(parent) \o Own(record) : record \in ToSet(Within(parent))} :
                   parent \in ToSet(Outer(o))}
    ELSE {Own(record) : record \in ToSet(Counted(o))}

(***************************************************************************)
(* The table of entities says what was measured (entities.py:3-6, 81): the *)
(* list that the probe finds to be counted on a page is the one that       *)
(* parse_records reads - unless the page holds as many parents as records, *)
(* which the probe cannot tell apart - and a load of pages that are as     *)
(* measured has one row for each grain on them, under that very grain, and *)
(* no dead letter.                                                         *)
(***************************************************************************)
EvidenceAgrees ==
    /\ at = 0 => \A i \in DOMAIN lake :
          LET count == Len(Counted(lake[i])) IN
          /\ AsMeasured(lake[i]) /\ count > 0
          /\ IsNested(Measure) => count # Len(Outer(lake[i]))
          => PickGrainPath(FindRecordLists(lake[i], <<>>), count, 100) = GrainPath(Entity)
    /\ exit = "ok" /\ (\A i \in DOMAIN lake : AsMeasured(lake[i])) =>
          /\ {row.keys : row \in table} = UNION {Grains(lake[i]) : i \in DOMAIN lake}
          /\ Cardinality(table) = Cardinality({row.keys : row \in table})
          /\ letters = <<>>
=============================================================================
