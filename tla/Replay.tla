------------------------------ MODULE Replay ------------------------------
(***************************************************************************)
(* One scope of one entity while its source changes: rows are amended,     *)
(* inserted and removed as a run pages through them, the pages go to the   *)
(* partition of the run's date, and the objects of a partition are         *)
(* replayed into the raw table in key order.  A row is a <<name, version>>.*)
(*                                                                         *)
(* Ingestion has every page of a source that never changes a row; here is  *)
(* what upsert is for (ingestion/load_warehouse.py:72-80).                 *)
(***************************************************************************)
EXTENDS Integers, Sequences, FiniteSets

CONSTANTS
    Start,          \* the rows of the source at the start, in its order
    Names,          \* rows that may come to exist
    PageSize,       \* rows of a page
    ListSize,       \* keys that one call of list_objects_v2 returns
    MaxChanges, MaxDeaths   \* bounds on the source's changes and on dead runs, for TLC

Partitions == {"today", "earlier"}
ASSUME ReplayAssumption ==
    /\ PageSize \in Nat \ {0} /\ ListSize \in Nat \ {0}
    /\ MaxChanges \in Nat /\ MaxDeaths \in Nat
    /\ Start \in Seq(Names)
    /\ \A i, j \in DOMAIN Start : Start[i] = Start[j] => i = j

VARIABLES
    source,         \* the rows of the source, in its order
    latest,         \* latest[n]: the version of the row last seen at the source
    changes,
    lake,           \* lake[d]: offset -> page, for today's and the last partition
    shrunk,         \* partitions in use when a row was removed
    raw,            \* raw[n]: version (0 without the row), and updated_at > ingested_at
    pc, part,       \* where the run is, and its partition
    only,           \* does it run with --load-only?
    offset,         \* of the page it fetches
    keys,           \* the keys it has listed and not replayed
    token,          \* the last key it has listed
    tx, born,       \* raw in its transaction, and the rows that were inserted by it
    floor,          \* floor[n]: the version the source had when it began or fetched n
    exit, deaths

world == <<source, latest, changes>>
objects == <<lake, shrunk>>
load == <<keys, token, tx, born>>
vars == <<world, objects, raw, pc, part, only, offset, load, floor, exit, deaths>>

None == -1
Empty == [o \in {} |-> <<>>]
Init ==
    /\ source = [i \in DOMAIN Start |-> <<Start[i], 1>>]
    /\ latest = [n \in Names |-> IF \E i \in DOMAIN Start : Start[i] = n THEN 1 ELSE 0]
    /\ changes = 0
    /\ lake = [d \in Partitions |-> Empty] /\ shrunk = {}
    /\ raw = [n \in Names |-> [version |-> 0, amended |-> FALSE]]
    /\ pc = "down" /\ part = "today" /\ only = FALSE /\ offset = 0
    /\ keys = {} /\ token = None /\ tx = raw /\ born = {}
    /\ floor = [n \in Names |-> 0]
    /\ exit = "none" /\ deaths = 0

-----------------------------------------------------------------------------
Change == changes < MaxChanges /\ changes' = changes + 1
Amend ==
    /\ Change
    /\ \E i \in DOMAIN source :
          /\ source' = [source EXCEPT ![i][2] = @ + 1]
          /\ latest' = [latest EXCEPT ![source[i][1]] = @ + 1]
    /\ UNCHANGED <<objects, raw, pc, part, only, offset, load, floor, exit, deaths>>

Insert ==
    /\ Change
    /\ \E n \in Names, i \in 0..Len(source) :
          /\ \A j \in DOMAIN source : source[j][1] # n
          /\ source' = SubSeq(source, 1, i) \o <<<<n, latest[n] + 1>>>> \o SubSeq(source, i + 1, Len(source))
          /\ latest' = [latest EXCEPT ![n] = @ + 1]
    /\ UNCHANGED <<objects, raw, pc, part, only, offset, load, floor, exit, deaths>>

Remove ==
    /\ Change
    /\ \E i \in DOMAIN source :
          source' = SubSeq(source, 1, i - 1) \o SubSeq(source, i + 1, Len(source))
    /\ shrunk' = shrunk \cup {"today", part}
    /\ UNCHANGED <<latest, lake, raw, pc, part, only, offset, load, floor, exit, deaths>>

\* A run keeps the date it began with.
NextDay ==
    /\ pc = "down" \/ part = "today"
    /\ lake' = [lake EXCEPT !["earlier"] = lake["today"], !["today"] = Empty]
    /\ shrunk' = IF "today" \in shrunk THEN {"earlier"} ELSE {}
    /\ part' = IF pc = "down" THEN part ELSE "earlier"
    /\ UNCHANGED <<world, raw, pc, only, offset, load, floor, exit, deaths>>

-----------------------------------------------------------------------------
Down(how) ==
    /\ pc' = "down" /\ exit' = how /\ offset' = 0
    /\ keys' = {} /\ token' = None /\ born' = {}
    /\ tx' = raw /\ floor' = [n \in Names |-> 0] /\ part' = "today" /\ only' = FALSE

\* The schedule runs without --resume.  Mutated: with it, and a complete checkpoint.
MutFirstStep == IF \E n \in Names : raw[n].version # 0 THEN "listing" ELSE "fetching"
FirstStep == "fetching"

Daily ==
    /\ pc = "down"
    /\ pc' = FirstStep /\ part' = "today" /\ only' = FALSE /\ exit' = "none"
    /\ floor' = [n \in Names |-> IF \E i \in DOMAIN source : source[i][1] = n THEN latest[n] ELSE 0]
    /\ UNCHANGED <<world, objects, raw, offset, load, deaths>>

\* --load-only, of any day.
LoadOnly(d) ==
    /\ pc = "down"
    /\ pc' = "listing" /\ part' = d /\ only' = TRUE /\ exit' = "none"
    /\ UNCHANGED <<world, objects, raw, offset, load, floor, deaths>>

\* One page, as the source is now, replaces the object of the same key.
Fetch ==
    /\ pc = "fetching"
    /\ LET end == IF offset + PageSize < Len(source) THEN offset + PageSize ELSE Len(source)
           page == SubSeq(source, offset + 1, end)
       IN lake' = [lake EXCEPT ![part] = [o \in DOMAIN @ \cup {offset} |->
                                             IF o = offset THEN page ELSE @[o]]]
          /\ floor' = [n \in Names |-> IF \E i \in DOMAIN page : page[i][1] = n
                                       THEN latest[n] ELSE floor[n]]
    /\ IF offset + PageSize >= Len(source) THEN pc' = "listing" /\ offset' = 0
       ELSE pc' = "fetching" /\ offset' = offset + PageSize
    /\ UNCHANGED <<world, shrunk, raw, part, only, load, exit, deaths>>

\* list_keys follows the continuation token.
Truncated(left) == Cardinality(left) > ListSize

List ==
    /\ pc = "listing"
    /\ LET left == {o \in DOMAIN lake[part] : o > token}
           batch == {o \in left : Cardinality({q \in left : q < o}) < ListSize}
       IN /\ keys' = keys \cup batch
          /\ IF Truncated(left)
             THEN pc' = "listing" /\ token' = (CHOOSE o \in batch : \A q \in batch : q <= o)
             ELSE pc' = "replaying" /\ UNCHANGED token
    /\ UNCHANGED <<world, objects, raw, part, only, offset, tx, born, floor, exit, deaths>>

\* Mutated: `where payload is distinct from excluded.payload` is missing.
MutDistinct(row, version) == TRUE
Distinct(row, version) == row.version # version

\* upsert: now() is the time of the transaction, so a row is amended by a later
\* transaction than the one that inserted it, or not at all.
Upsert(n, version) ==
    IF tx[n].version = 0 THEN [version |-> version, amended |-> FALSE]
    ELSE IF Distinct(tx[n], version) THEN [version |-> version, amended |-> n \notin born]
    ELSE tx[n]

\* Mutated: the keys sort in the reverse order.
MutIsNext(o) == \A q \in keys : q <= o
IsNext(o) == \A q \in keys : o <= q

ReplayObject ==
    /\ pc = "replaying"
    /\ \E o \in keys :
          LET page == lake[part][o]
              at(n) == {i \in DOMAIN page : page[i][1] = n}
          IN /\ IsNext(o)
             /\ keys' = keys \ {o}
             /\ tx' = [n \in Names |-> IF at(n) = {} THEN tx[n]
                                       ELSE Upsert(n, page[CHOOSE i \in at(n) : TRUE][2])]
             /\ born' = born \cup {n \in Names : at(n) # {} /\ tx[n].version = 0}
    /\ UNCHANGED <<world, objects, raw, pc, part, only, offset, token, floor, exit, deaths>>

Commit ==
    /\ pc = "replaying" /\ keys = {}
    /\ raw' = tx
    /\ pc' = "done" /\ exit' = "ok"
    /\ UNCHANGED <<world, objects, part, only, offset, load, floor, deaths>>

Finish == pc = "done" /\ Down("ok") /\ UNCHANGED <<world, objects, raw, deaths>>

Die ==
    /\ pc \in {"fetching", "listing", "replaying"} /\ deaths < MaxDeaths
    /\ deaths' = deaths + 1
    /\ UNCHANGED <<world, objects, raw>>
    /\ Down("died")

Run == Fetch \/ List \/ ReplayObject \/ Commit \/ Finish
Next ==
    \/ Amend \/ Insert \/ Remove \/ NextDay
    \/ Daily \/ (\E d \in Partitions : LoadOnly(d)) \/ Run \/ Die

(***************************************************************************)
(* Fairness: a run goes on, days pass, and every day that a run is not in  *)
(* progress may be the one on which the schedule starts one.               *)
(***************************************************************************)
Spec ==
    /\ Init /\ [][Next]_vars
    /\ WF_vars(Run) /\ SF_vars(Daily) /\ SF_vars(pc = "down" /\ NextDay)

-----------------------------------------------------------------------------
(***************************************************************************)
(* updated_at > ingested_at means that the row was amended upstream        *)
(* (load_warehouse.py:76-80), never that the pipeline ran twice, whatever  *)
(* is fetched and replayed again, of any day.                              *)
(***************************************************************************)
AmendedUpstream == \A n \in Names : raw[n].amended => latest[n] >= 2

(***************************************************************************)
(* A daily run leaves no row older than it was at the source when the run  *)
(* began or saw it last, though the source changes under its pages and     *)
(* older versions are in the same partition (load_lake.py:53-54): unless   *)
(* a row was removed since that day began, which moves others to pages     *)
(* that were fetched already, and leaves an object that is replayed last.  *)
(***************************************************************************)
NothingStale ==
    pc = "done" /\ ~only /\ part \notin shrunk => \A n \in Names : raw[n].version >= floor[n]

(***************************************************************************)
(* A correction at the source reaches the warehouse: again and again it    *)
(* holds what the source holds, also after removals, dead runs and replays *)
(* of older days.                                                          *)
(***************************************************************************)
UpToDate == \A i \in DOMAIN source : raw[source[i][1]].version = source[i][2]
EventuallyCorrected == []<>UpToDate
=============================================================================
