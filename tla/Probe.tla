------------------------------- MODULE Probe -------------------------------
(***************************************************************************)
(* discovery/probe_source.py: the walk over a payload that measured where  *)
(* the records of an endpoint are.  Paths are as in Records.               *)
(***************************************************************************)
EXTENDS Records, Bags

(***************************************************************************)
(* The probe: which lists of objects a payload has, how many objects each  *)
(* holds over all its parents, and which of them the endpoint counts.      *)
(***************************************************************************)
RECURSIVE FindRecordLists(_, _)
FindRecordLists(n, prefix) ==
    LET here == IF n.t = "list" /\ n.kids # <<>> /\ IsDict(n.kids[1][2])
                THEN [p \in {prefix} |-> Len(n.kids)] ELSE EmptyBag
    IN FoldLeft(LAMBDA found, kid : found (+) FindRecordLists(kid[2], Append(prefix, kid[1])),
                here, n.kids)

RECURSIVE CollectRecords(_, _)
CollectRecords(n, path) ==
    IF path = <<>> THEN Elements(n)
    ELSE IF Head(path) # "[]" THEN CollectRecords(Get(n, Head(path)), Tail(path))
    ELSE FlattenSeq([i \in DOMAIN Elements(n) |-> CollectRecords(Elements(n)[i], Tail(path))])

\* The third tie-break, the length of the path as text, is left out: no payload that
\* is loaded here has two lists that differ in nothing else.
Brackets(path) == Len(SelectSeq(path, LAMBDA part : part = "[]"))
Dots(path) == Len(path) - Brackets(path)
Shallower(p, q) == Brackets(p) < Brackets(q) \/ (Brackets(p) = Brackets(q) /\ Dots(p) <= Dots(q))

\* <<>> stands for None.
PickGrainPath(lists, total, limit) ==
    LET expected == IF total # 0 /\ limit # 0 THEN IF total < limit THEN total ELSE limit
                    ELSE total + limit
        matches == {p \in DOMAIN lists : lists[p] = expected}
    IN IF lists = EmptyBag THEN <<>>
       ELSE IF matches # {} THEN CHOOSE p \in matches : \A q \in matches : Shallower(p, q)
       ELSE CHOOSE p \in DOMAIN lists : \A q \in DOMAIN lists : Shallower(q, p)

\* The path of the records of an entity, as the probe writes it.
GrainPath(spec) == spec.container \o IF spec.child = "" THEN <<>> ELSE <<"[]", spec.child>>
=============================================================================
