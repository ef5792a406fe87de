----------------------------- MODULE MCLoading -----------------------------
(***************************************************************************)
(* Payloads for TLC, built from what was measured and not from the table   *)
(* of entities: up to two parents with up to two records each.  For three  *)
(* entities their keys collide, are missing, are empty or are their own,   *)
(* and other things lie where records should be.                           *)
(***************************************************************************)
EXTENDS Evidence

Odd == {"circuits", "pitstops", "driverstandings"}
MCNames == DOMAIN Measured

Nest(path, node) ==
    <<Head(path), FoldRight(LAMBDA key, inner : Dict(<<<<key, inner>>>>), Tail(path), node)>>

\* A record with `value` at its last key and text at its others.
Child(m, value, more) ==
    Dict([i \in DOMAIN m.own |-> Nest(m.own[i], IF i = Len(m.own) THEN value ELSE Text("x"))] \o more)

\* A driver standing lists the constructors of the driver: one, as it was measured,
\* so that the page has as many of them as records, or more.
Lists(n) == <<"Constructors", List([i \in 1..n |-> Dict(<<>>)])>>
Inner == Lists(3)
Kids(m) ==
    {Child(m, Text("a"), <<Inner>>), Child(m, Text("a"), <<>>), Child(m, Text(""), <<>>),
     Child(m, Null, <<>>), Child(m, Text("b"), <<<<"season", Text("1950")>>>>), Text("junk")}

ChildNodes(m) ==
    {Null, Number("7"), Number("0"), Dict(<<>>)} \cup {List(s) : s \in SeqOf(Kids(m), 1)}
    \cup {List(<<Child(m, Text("a"), <<Inner>>), k>>) : k \in Kids(m)}

Parent(m, season, node) ==
    Dict(<<<<"season", season>>, <<"round", Text("1")>>, <<Last(m.grain), node>>>>)
ParentNodes(m) ==
    IF ~IsNested(m) THEN Kids(m)
    ELSE {Parent(m, s, node) : s \in {Text("2024"), Null}, node \in ChildNodes(m)} \cup {Text("junk")}

Envelope(m, node) ==
    Dict(<<Nest(IF IsNested(m) THEN Above(m) ELSE m.grain, node)>>)

\* Pages as they were measured: records, nested in one object or in two, of which
\* each has a list of its own, as a driver standing does.
Regular(m, values) == [i \in DOMAIN values |-> Child(m, Text(values[i]), <<Lists(1)>>)]
Page(m, seasons, values) ==
    Envelope(m, IF IsNested(m)
                THEN List([i \in DOMAIN seasons |-> Parent(m, Text(seasons[i]), List(Regular(m, values)))])
                ELSE List(Regular(m, values)))
AsSampled(m) ==
    {Page(m, s, v) : s \in {<<>>, <<"2024">>, <<"2024", "2025">>},
                     v \in {<<>>, <<"a">>, <<"a", "b">>, <<"b", "c">>}}

MCObjects(n) ==
    LET m == Measured[n]
        good == Parent(m, Text("2025"), List(<<Child(m, Text("a"), <<Inner>>), Child(m, Text("b"), <<Inner>>)>>))
    IN IF n \notin Odd THEN AsSampled(m)
       ELSE {Garbage, Null, Envelope(m, Null)}
            \cup {Envelope(m, List(s)) : s \in SeqOf(ParentNodes(m), 1)}
            \cup {Envelope(m, List(<<good, p>>)) : p \in ParentNodes(m)}
=============================================================================
