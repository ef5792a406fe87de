---------------------------- MODULE Replay_proofs ----------------------------
(***************************************************************************)
(* The meaning of updated_at, and that a daily run leaves nothing stale,   *)
(* for any source, any changes of it, any page size and any runs.          *)
(***************************************************************************)
EXTENDS Replay, FiniteSetTheorems, SequenceTheorems, WellFoundedInduction, TLAPS

\* The rows, in a version of them, that the source has shown so far.
Seen == {row \in Names \X Nat : 1 <= row[2] /\ row[2] <= latest[row[1]]}

Honest(row, n) ==
    /\ row.version \in Nat /\ row.version <= latest[n]
    /\ row.amended => latest[n] >= 2

\* Whatever is anywhere was at the source, and what is marked was there twice.
WorldInv == latest \in [Names -> Nat] /\ source \in Seq(Seen)
LakeInv ==
    /\ offset \in Nat /\ part \in Partitions /\ lake = [d \in Partitions |-> lake[d]]
    /\ \A d \in Partitions : \A o \in DOMAIN lake[d] : lake[d][o] \in Seq(Seen)
    /\ keys \subseteq DOMAIN lake[part] /\ (pc = "down" => keys = {})
TableInv ==
    /\ raw = [n \in Names |-> raw[n]] /\ tx = [n \in Names |-> tx[n]]
    /\ \A n \in Names : Honest(raw[n], n) /\ Honest(tx[n], n)

IInv == WorldInv /\ LakeInv /\ TableInv

LEMMA InvInit == Init => IInv
  <1> SUFFICES ASSUME Init PROVE IInv
    OBVIOUS
  <1>1. \A i \in DOMAIN Start : Start[i] \in Names
    BY ReplayAssumption
  <1>2. latest \in [Names -> Nat] /\ \A i \in DOMAIN Start : latest[Start[i]] = 1
    BY <1>1 DEF Init
  <1>3. \A i \in DOMAIN Start : <<Start[i], 1>> \in Seen
    BY <1>1, <1>2 DEF Seen
  <1>4. source \in Seq(Seen)
    <2>1. source = [i \in 1..Len(Start) |-> <<Start[i], 1>>] /\ Len(Start) \in Nat
      BY ReplayAssumption DEF Init
    <2>2. \A i \in 1..Len(Start) : <<Start[i], 1>> \in Seen
      BY <1>3, ReplayAssumption
    <2> QED  BY <2>1, <2>2
  <1>5. LakeInv
    BY DEF Init, LakeInv, Partitions, Empty
  <1>6. TableInv
    BY <1>2 DEF Init, TableInv, Honest
  <1> QED  BY <1>2, <1>4, <1>5, <1>6 DEF IInv, WorldInv

(***************************************************************************)
(* The source shows more and more.                                         *)
(***************************************************************************)
Grows == latest' \in [Names -> Nat] /\ \A n \in Names : latest[n] <= latest'[n]

LEMMA Replaced ==
  ASSUME NEW S, NEW s \in Seq(S), NEW i \in DOMAIN s, NEW e \in S
  PROVE  [s EXCEPT ![i] = e] \in Seq(S)
  OBVIOUS

LEMMA OfSeen ==
  ASSUME NEW row \in Seen
  PROVE  /\ row[1] \in Names /\ row[2] \in Nat
         /\ 1 <= row[2] /\ row[2] <= latest[row[1]]
  BY DEF Seen

LEMMA NextVersion ==
  ASSUME NEW a, NEW b \in Nat
  PROVE  [<<a, b>> EXCEPT ![2] = @ + 1] = <<a, b + 1>>
  OBVIOUS

LEMMA SeenGrows ==
  ASSUME IInv, Grows
  PROVE  Seen \subseteq Seen' /\ Seq(Seen) \subseteq Seq(Seen')
  <1>1. ASSUME NEW row \in Seen
        PROVE  row \in Seen'
    BY <1>1 DEF Seen, Grows, IInv, WorldInv
  <1> QED  BY <1>1

LEMMA Rest ==
  ASSUME IInv, Grows, UNCHANGED <<lake, raw, part, tx, offset, keys, pc>>
  PROVE  LakeInv' /\ TableInv'
  <1>1. LakeInv'
    BY SeenGrows DEF IInv, LakeInv
  <1>2. \A n \in Names : latest[n] \in Nat /\ latest'[n] \in Nat /\ latest[n] <= latest'[n]
    BY DEF IInv, WorldInv, Grows
  <1>3. TableInv'
    BY <1>2 DEF IInv, TableInv, Honest
  <1> QED  BY <1>1, <1>3

LEMMA Changing ==
  ASSUME IInv, Amend \/ Insert \/ Remove
  PROVE  IInv'
  <1>1. UNCHANGED <<lake, raw, part, tx, offset, keys, pc>>
    BY DEF Amend, Insert, Remove, objects, load
  <1>2. CASE Amend
    <2>1. PICK i \in DOMAIN source : /\ source' = [source EXCEPT ![i][2] = @ + 1]
                                     /\ latest' = [latest EXCEPT ![source[i][1]] = @ + 1]
      BY <1>2 DEF Amend
    <2>2. source[i] \in Seen /\ source \in Seq(Seen)
      BY <2>1 DEF IInv, WorldInv
    <2>3. /\ source[i][1] \in Names /\ source[i][2] \in Nat
          /\ 1 <= source[i][2] /\ source[i][2] <= latest[source[i][1]]
      BY <2>2, OfSeen
    <2>4. latest \in [Names -> Nat]
      BY DEF IInv, WorldInv
    <2>5. Grows
      BY <2>1, <2>3, <2>4 DEF Grows
    <2>6. <<source[i][1], source[i][2] + 1>> \in Seen'
      <3>1. latest'[source[i][1]] = latest[source[i][1]] + 1
        BY <2>1, <2>3, <2>4
      <3> QED  BY <2>3, <2>4, <3>1 DEF Seen
    <2>7. source' = [source EXCEPT ![i] = <<source[i][1], source[i][2] + 1>>]
      <3>1. source[i] = <<source[i][1], source[i][2]>> /\ source[i][2] \in Nat
        BY <2>2 DEF Seen
      <3>2. [source[i] EXCEPT ![2] = @ + 1] = <<source[i][1], source[i][2] + 1>>
        BY <3>1, NextVersion
      <3>3. source' = [source EXCEPT ![i] = [source[i] EXCEPT ![2] = @ + 1]]
        BY <2>1
      <3> QED  BY <3>2, <3>3
    <2>8. source' \in Seq(Seen')
      <3>1. source \in Seq(Seen')
        BY <2>2, <2>5, SeenGrows
      <3> QED  BY <2>6, <2>7, <3>1, Replaced
    <2> QED  BY <1>1, <2>5, <2>8, Rest DEF IInv, WorldInv, Grows
  <1>3. CASE Insert
    <2>1. PICK n \in Names, i \in 0..Len(source) :
            /\ source' = SubSeq(source, 1, i) \o <<<<n, latest[n] + 1>>>>
                         \o SubSeq(source, i + 1, Len(source))
            /\ latest' = [latest EXCEPT ![n] = @ + 1]
      BY <1>3 DEF Insert
    <2>2. Grows
      BY <2>1 DEF Grows, IInv, WorldInv
    <2>3. <<n, latest[n] + 1>> \in Seen'
      BY <2>1 DEF Seen, IInv, WorldInv
    <2>4. source \in Seq(Seen') /\ i \in 0..Len(source)
      BY <2>1, <2>2, SeenGrows DEF IInv, WorldInv
    <2>5. SubSeq(source, 1, i) \in Seq(Seen') /\ SubSeq(source, i + 1, Len(source)) \in Seq(Seen')
      BY <2>4
    <2>6. source' \in Seq(Seen')
      BY <2>1, <2>3, <2>5
    <2> QED  BY <1>1, <2>2, <2>6, Rest DEF IInv, WorldInv, Grows
  <1>4. CASE Remove
    <2>1. PICK i \in DOMAIN source :
            source' = SubSeq(source, 1, i - 1) \o SubSeq(source, i + 1, Len(source))
      BY <1>4 DEF Remove
    <2>2. latest' = latest
      BY <1>4 DEF Remove
    <2>3. Grows
      BY <2>2 DEF Grows, IInv, WorldInv
    <2>4. source \in Seq(Seen') /\ i \in 1..Len(source)
      BY <2>1, <2>3, SeenGrows DEF IInv, WorldInv
    <2>5. SubSeq(source, 1, i - 1) \in Seq(Seen') /\ SubSeq(source, i + 1, Len(source)) \in Seq(Seen')
      BY <2>4
    <2>6. source' \in Seq(Seen')
      BY <2>1, <2>5
    <2> QED  BY <1>1, <2>3, <2>6, Rest DEF IInv, WorldInv, Grows
  <1> QED  BY <1>2, <1>3, <1>4

(***************************************************************************)
(* Days and runs.                                                          *)
(***************************************************************************)
LEMMA Stays ==
  ASSUME IInv, UNCHANGED <<source, latest>>
  PROVE  WorldInv' /\ Seen' = Seen /\ \A row, n : Honest(row, n)' <=> Honest(row, n)
  BY DEF IInv, WorldInv, Seen, Honest

\* The lake is read as the run goes on, and today's becomes yesterday's.
LEMMA NextDayStep ==
  ASSUME IInv, NextDay
  PROVE  IInv'
  <1>1. /\ lake' = [lake EXCEPT !["earlier"] = lake["today"], !["today"] = Empty]
        /\ IF pc = "down" THEN part' = part ELSE part = "today" /\ part' = "earlier"
        /\ UNCHANGED <<source, latest, raw, tx, offset, keys, pc>>
    BY DEF NextDay, world, load
  <1>2. Seen' = Seen /\ WorldInv'
    BY <1>1, Stays
  <1>3. /\ lake' = [d \in Partitions |-> IF d = "today" THEN Empty ELSE lake["today"]]
        /\ DOMAIN Empty = {}
    BY <1>1 DEF IInv, LakeInv, Partitions, Empty
  <1>4. keys \subseteq DOMAIN lake'[part']
    <2>1. CASE pc = "down"
      BY <2>1 DEF IInv, LakeInv
    <2>2. CASE pc # "down"
      BY <1>1, <1>3, <2>2 DEF IInv, LakeInv, Partitions
    <2> QED  BY <2>1, <2>2
  <1>5. LakeInv'
    BY <1>1, <1>2, <1>3, <1>4 DEF IInv, LakeInv, Partitions
  <1>6. TableInv'
    BY <1>1 DEF IInv, TableInv, Honest
  <1> QED  BY <1>2, <1>5, <1>6 DEF IInv

LEMMA FetchStep ==
  ASSUME IInv, Fetch
  PROVE  IInv'
  <1> DEFINE end == IF offset + PageSize < Len(source) THEN offset + PageSize ELSE Len(source)
             page == SubSeq(source, offset + 1, end)
  <1>1. /\ lake' = [lake EXCEPT ![part] = [o \in DOMAIN @ \cup {offset} |->
                                             IF o = offset THEN page ELSE @[o]]]
        /\ pc = "fetching" /\ pc' # "down" /\ offset' \in {0, offset + PageSize}
        /\ UNCHANGED <<source, latest, raw, tx, part, keys>>
    BY DEF Fetch, world, load
  <1>2. Seen' = Seen /\ WorldInv'
    BY <1>1, Stays
  <1>3. page \in Seq(Seen)
    <2>1. source \in Seq(Seen) /\ offset + 1 \in Nat \ {0} /\ end \in Int /\ end <= Len(source)
      BY ReplayAssumption DEF IInv, WorldInv, LakeInv
    <2> HIDE DEF end
    <2> QED  BY <2>1
  <1> HIDE DEF page
  <1>4. LakeInv'
    <2>1. offset' \in Nat
      BY <1>1, ReplayAssumption DEF IInv, LakeInv
    <2> QED  BY <1>1, <1>2, <1>3, <2>1 DEF IInv, LakeInv
  <1>5. TableInv'
    BY <1>1 DEF IInv, TableInv, Honest
  <1> QED  BY <1>2, <1>4, <1>5 DEF IInv

\* Two distinct versions of a row: the source has shown both.
LEMMA Upserted ==
  ASSUME IInv, NEW n \in Names, NEW v \in Nat, 1 <= v, v <= latest[n]
  PROVE  Honest(Upsert(n, v), n)
  <1>1. Honest(tx[n], n) /\ latest[n] \in Nat
    BY DEF IInv, TableInv, WorldInv
  <1>2. CASE tx[n].version = 0
    BY <1>1, <1>2 DEF Upsert, Honest
  <1>3. CASE tx[n].version # 0 /\ Distinct(tx[n], v)
    BY <1>1, <1>3 DEF Upsert, Distinct, Honest
  <1>4. CASE tx[n].version # 0 /\ ~Distinct(tx[n], v)
    BY <1>1, <1>4 DEF Upsert
  <1> QED  BY <1>2, <1>3, <1>4

LEMMA ReplayStep ==
  ASSUME IInv, ReplayObject
  PROVE  IInv'
  <1> DEFINE at(page, n) == {i \in DOMAIN page : page[i][1] = n}
  <1>1. PICK o \in keys :
          /\ keys' = keys \ {o}
          /\ tx' = [n \in Names |-> IF at(lake[part][o], n) = {} THEN tx[n]
                   ELSE Upsert(n, lake[part][o][CHOOSE i \in at(lake[part][o], n) : TRUE][2])]
    BY DEF ReplayObject
  <1>2. pc' = pc /\ pc # "down" /\ UNCHANGED <<source, latest, lake, raw, part, offset>>
    BY DEF ReplayObject, world, objects
  <1>3. lake[part][o] \in Seq(Seen)
    BY <1>1 DEF IInv, LakeInv
  <1>4. ASSUME NEW n \in Names
        PROVE  Honest(tx'[n], n)
    <2>1. CASE at(lake[part][o], n) = {}
      BY <1>1, <2>1 DEF IInv, TableInv
    <2>2. CASE at(lake[part][o], n) # {}
      <3> DEFINE j == CHOOSE i \in at(lake[part][o], n) : TRUE
      <3>1. j \in at(lake[part][o], n)
        BY <2>2
      <3>2. lake[part][o][j] \in Seen /\ lake[part][o][j][1] = n
        <4>1. j \in DOMAIN lake[part][o] /\ lake[part][o][j][1] = n
          BY <3>1
        <4> HIDE DEF j
        <4> QED  BY <1>3, <4>1
      <3>3. /\ lake[part][o][j][2] \in Nat
            /\ 1 <= lake[part][o][j][2] /\ lake[part][o][j][2] <= latest[n]
        BY <3>2, OfSeen
      <3>4. tx'[n] = Upsert(n, lake[part][o][j][2])
        BY <1>1, <2>2
      <3> HIDE DEF j
      <3> QED  BY <3>3, <3>4, Upserted
    <2> QED  BY <2>1, <2>2
  <1>5. WorldInv' /\ Seen' = Seen
    BY <1>2, Stays
  <1>6. LakeInv'
    BY <1>1, <1>2, <1>5 DEF IInv, LakeInv
  <1>7. TableInv'
    <2>1. tx' = [n \in Names |-> tx'[n]]
      BY <1>1
    <2>2. \A n \in Names : Honest(raw[n], n)' /\ Honest(tx[n], n)'
      BY <1>2, <1>4 DEF IInv, TableInv, Honest
    <2> QED  BY <1>2, <2>1, <2>2 DEF IInv, TableInv, Honest
  <1> QED  BY <1>5, <1>6, <1>7 DEF IInv

\* The other steps of a run move what is there.
LEMMA RunStep ==
  ASSUME IInv, Daily \/ (\E d \in Partitions : LoadOnly(d)) \/ List \/ Commit \/ Finish \/ Die
  PROVE  IInv'
  <1>1. UNCHANGED <<source, latest, lake>>
    BY DEF Daily, LoadOnly, List, Commit, Finish, Die, world, objects
  <1>2. raw' \in {raw, tx} /\ tx' \in {tx, raw} /\ offset' \in {offset, 0}
    BY DEF Daily, LoadOnly, List, Commit, Finish, Die, Down, load
  <1>3. /\ part' \in Partitions /\ keys' \subseteq DOMAIN lake[part']
        /\ pc' = "down" => keys' = {}
    <2>1. CASE Daily \/ (\E d \in Partitions : LoadOnly(d))
      BY <2>1 DEF Daily, LoadOnly, load, Partitions, IInv, LakeInv, FirstStep
    <2>2. CASE List
      BY <2>2 DEF List, IInv, LakeInv
    <2>3. CASE Commit
      BY <2>3 DEF Commit, load, IInv, LakeInv
    <2>4. CASE Finish \/ Die
      BY <2>4 DEF Finish, Die, Down, Partitions
    <2> QED  BY <2>1, <2>2, <2>3, <2>4
  <1>4. WorldInv' /\ Seen' = Seen
    BY <1>1, Stays
  <1>5. LakeInv'
    BY <1>1, <1>2, <1>3, <1>4 DEF IInv, LakeInv
  <1>6. TableInv'
    BY <1>1, <1>2 DEF IInv, TableInv, Honest
  <1> QED  BY <1>4, <1>5, <1>6 DEF IInv

LEMMA InvStep == IInv /\ [Next]_vars => IInv'
  <1> SUFFICES ASSUME IInv, [Next]_vars
               PROVE  IInv'
    OBVIOUS
  <1>1. CASE UNCHANGED vars
    <2>1. UNCHANGED <<source, latest, lake, raw, tx, part, offset, keys, pc>>
      BY <1>1 DEF vars, world, objects, load
    <2>2. WorldInv' /\ Seen' = Seen
      BY <2>1, Stays
    <2> QED  BY <2>1, <2>2 DEF IInv, LakeInv, TableInv, Honest
  <1> QED  BY <1>1, Changing, NextDayStep, FetchStep, ReplayStep, RunStep DEF Next, Run

THEOREM Invariant == Spec => []IInv
  BY InvInit, InvStep, PTL DEF Spec

-----------------------------------------------------------------------------
\* updated_at > ingested_at means that the row was amended upstream, never that
\* the pipeline ran twice (load_warehouse.py:76).
THEOREM AmendedHolds == Spec => []AmendedUpstream
  <1>1. IInv => AmendedUpstream
    BY DEF IInv, TableInv, Honest, AmendedUpstream
  <1> QED  BY <1>1, Invariant, PTL

-----------------------------------------------------------------------------
(***************************************************************************)
(* Why a daily run leaves nothing stale.  A row is in the source once, and *)
(* as the source showed it last; a page that is fetched later holds no     *)
(* older version of it, and is replayed later.                             *)
(***************************************************************************)
SourceInv ==
    /\ \A i, j \in DOMAIN source : source[i][1] = source[j][1] => i = j
    /\ \A i \in DOMAIN source : source[i][2] = latest[source[i][1]]
FloorInv == \A n \in Names : floor[n] \in Nat /\ floor[n] <= latest[n]

\* The objects of a partition are pages of a source that only grew.
Multiple(o) == \E k \in 0 .. o : o = k * PageSize
InUse(d) == d = "today" \/ (d = part /\ ~only)
PagesInv == \A d \in Partitions :
    /\ IsFiniteSet(DOMAIN lake[d])
    /\ \A o \in DOMAIN lake[d] : o \in Nat /\ Multiple(o)
    /\ d \notin shrunk /\ InUse(d) => \A o \in DOMAIN lake[d] : o = 0 \/ o < Len(source)

\* Where the run is: at a page that the source has, or between two batches of keys.
PlaceInv ==
    /\ pc \in {"down", "fetching", "listing", "replaying", "done"}
    /\ Multiple(offset)
    /\ pc = "down" => part = "today"
    /\ pc = "fetching" => ~only /\ (part \notin shrunk => offset = 0 \/ offset < Len(source))
    /\ pc # "fetching" => offset = 0
    /\ pc \in {"down", "fetching"} => keys = {} /\ token = None
    /\ pc = "listing" => token \in Nat \cup {None} /\ keys = {o \in DOMAIN lake[part] : o <= token}

\* Replaying the objects ks of these pages leaves row n at version v or a later one.
Holds(page, n) == \E i \in DOMAIN page : page[i][1] = n
NoOlder(page, n, v) == \A i \in DOMAIN page : page[i][1] = n => page[i][2] >= v
Leaves(pages, ks, n, v) ==
    \E o \in ks : Holds(pages[o], n) /\ \A q \in ks : o <= q => NoOlder(pages[q], n, v)
Before(pages, o) == {q \in DOMAIN pages : q < o}
Comes(rows, o, n) == \E i \in DOMAIN rows : i > o /\ rows[i][1] = n

\* Where the version that the run must not fall behind is.
Fresh(n) ==
    /\ pc = "fetching" =>
          Leaves(lake[part], Before(lake[part], offset), n, floor[n]) \/ Comes(source, offset, n)
    /\ pc = "listing" => Leaves(lake[part], DOMAIN lake[part], n, floor[n])
    /\ pc = "replaying" =>
          \/ Leaves(lake[part], keys, n, floor[n])
          \/ tx[n].version >= floor[n] /\ \A o \in keys : NoOlder(lake[part][o], n, floor[n])
    /\ pc = "done" => raw[n].version >= floor[n]
FreshInv == ~only /\ part \notin shrunk => \A n \in Names : floor[n] > 0 => Fresh(n)

StaleInv == SourceInv /\ FloorInv /\ PagesInv /\ PlaceInv /\ FreshInv
Known == IInv /\ StaleInv

-----------------------------------------------------------------------------
(***************************************************************************)
(* Naturals, listings and sequences.                                       *)
(***************************************************************************)
LEMMA Least ==
  ASSUME NEW S \in SUBSET Nat, S # {}
  PROVE  \E n \in S : \A m \in S : n <= m
  <1>1. PICK n \in S : \A m \in S : <<m, n>> \notin OpToRel(<, Nat)
    BY NatLessThanWellFounded, WFMin
  <1>2. \A m \in S : ~(m < n)
    BY <1>1 DEF OpToRel
  <1>3. QED BY <1>2

LEMMA Greatest ==
  ASSUME NEW S \in SUBSET Nat, S # {}, NEW b \in Nat, \A n \in S : n <= b
  PROVE  \E n \in S : \A m \in S : m <= n
  <1> DEFINE T == {b - n : n \in S}
  <1>1. T \in SUBSET Nat
    <2>1. \A n \in S : n \in Nat /\ b - n \in Nat
      OBVIOUS
    <2>2. QED BY <2>1
  <1>2. T # {}
    <2>1. PICK n \in S : TRUE
      OBVIOUS
    <2>2. b - n \in T
      OBVIOUS
    <2>3. QED BY <2>2
  <1>3. PICK t \in T : \A u \in T : t <= u
    BY <1>1, <1>2, Least
  <1>4. PICK n \in S : t = b - n
    BY <1>3
  <1>5. ASSUME NEW m \in S PROVE m <= n
    <2>1. b - n <= b - m
      BY <1>3, <1>4
    <2>2. n \in Nat /\ m \in Nat
      OBVIOUS
    <2>3. QED BY <2>1, <2>2
  <1>6. QED BY <1>5

LEMMA Apart ==
  ASSUME NEW P \in Nat, NEW j \in Nat, NEW k \in Nat, j * P < k * P
  PROVE  j * P + P <= k * P
  <1>1. j < k
    <2>1. CASE k <= j
      <3>1. PICK m \in Nat : j = k + m
        BY <2>1
      <3>2. j * P = k * P + m * P /\ m * P >= 0
        BY <3>1
      <3>3. QED BY <3>2
    <2>2. QED BY <2>1
  <1>2. PICK m \in Nat : k = j + 1 + m
    BY <1>1
  <1>3. k * P = j * P + P + m * P /\ m * P >= 0
    BY <1>2
  <1>4. QED BY <1>3

\* A sequence with one element more, after its first i, and one without its i-th.
With(s, i, e) == SubSeq(s, 1, i) \o <<e>> \o SubSeq(s, i + 1, Len(s))
Without(s, i) == SubSeq(s, 1, i - 1) \o SubSeq(s, i + 1, Len(s))

LEMMA Inserted ==
  ASSUME NEW S, NEW s \in Seq(S), NEW e \in S, NEW i \in 0 .. Len(s)
  PROVE  /\ Len(With(s, i, e)) = Len(s) + 1 /\ With(s, i, e) \in Seq(S)
         /\ \A j \in 1 .. i : With(s, i, e)[j] = s[j]
         /\ \A j \in i + 1 .. i + 1 : With(s, i, e)[j] = e
         /\ \A j \in i + 1 .. Len(s) : With(s, i, e)[j + 1] = s[j]
  <1> DEFINE t == With(s, i, e)
  <1> DEFINE u == SubSeq(s, 1, i)
             v == SubSeq(s, i + 1, Len(s))
             w == u \o <<e>>
  <1>1. u \in Seq(S) /\ Len(u) = i /\ \A j \in 1 .. i : u[j] = s[j]
    OBVIOUS
  <1>2. v \in Seq(S) /\ Len(v) = Len(s) - i /\ \A j \in 1 .. Len(s) - i : v[j] = s[i + j]
    OBVIOUS
  <1>3. <<e>> \in Seq(S) /\ Len(<<e>>) = 1 /\ <<e>>[1] = e
    OBVIOUS
  <1> HIDE DEF u, v
  <1>4. w \in Seq(S) /\ Len(w) = i + 1 /\ \A j \in 1 .. i + 1 : w[j] = IF j <= i THEN s[j] ELSE e
    <2> DEFINE x == <<e>>
    <2>1. x \in Seq(S) /\ Len(x) = 1 /\ x[1] = e /\ w = u \o x
      BY <1>3
    <2> HIDE DEF x, w
    <2>2. /\ u \o x \in Seq(S) /\ Len(u \o x) = Len(u) + Len(x)
          /\ \A j \in 1 .. Len(u) + Len(x) : (u \o x)[j] = IF j <= Len(u) THEN u[j] ELSE x[j - Len(u)]
      BY <1>1, <2>1, ConcatProperties
    <2>3. \A j \in 1 .. i + 1 : ~(j <= i) => j - i = 1
      OBVIOUS
    <2>4. QED BY <1>1, <2>1, <2>2, <2>3
  <1> HIDE DEF w, t
  <1>5. /\ t = w \o v /\ t \in Seq(S) /\ Len(t) = Len(s) + 1
        /\ \A j \in 1 .. Len(s) + 1 : t[j] = IF j <= i + 1 THEN w[j] ELSE v[j - (i + 1)]
    <2>1. t = w \o v
      BY DEF t, u, v, w, With
    <2>2. /\ w \o v \in Seq(S) /\ Len(w \o v) = Len(w) + Len(v)
          /\ \A j \in 1 .. Len(w) + Len(v) : (w \o v)[j] = IF j <= Len(w) THEN w[j] ELSE v[j - Len(w)]
      BY <1>2, <1>4, ConcatProperties
    <2>3. Len(w) + Len(v) = Len(s) + 1
      BY <1>2, <1>4
    <2>4. QED BY <1>4, <2>1, <2>2, <2>3
  <1>6. ASSUME NEW j \in i + 1 .. Len(s) PROVE t[j + 1] = s[j]
    <2>1. j + 1 \in 1 .. Len(s) + 1 /\ ~(j + 1 <= i + 1) /\ j - i \in 1 .. Len(s) - i
      OBVIOUS
    <2>2. t[j + 1] = v[(j + 1) - (i + 1)]
      BY <1>5, <2>1
    <2>3. (j + 1) - (i + 1) = j - i /\ i + (j - i) = j
      OBVIOUS
    <2>4. v[j - i] = s[i + (j - i)]
      BY <1>2, <2>1
    <2>5. QED BY <2>2, <2>3, <2>4
  <1>7. ASSUME NEW j \in 1 .. i + 1 PROVE t[j] = IF j <= i THEN s[j] ELSE e
    <2>1. j \in 1 .. Len(s) + 1 /\ j <= i + 1
      OBVIOUS
    <2>2. t[j] = w[j]
      BY <1>5, <2>1
    <2>3. QED BY <1>4, <2>2
  <1>8. t[i + 1] = e
    <2>1. i + 1 \in 1 .. i + 1 /\ ~(i + 1 <= i)
      OBVIOUS
    <2>2. QED BY <1>7, <2>1
  <1>9. \A j \in 1 .. i : t[j] = s[j]
    <2>1. \A j \in 1 .. i : j \in 1 .. i + 1 /\ j <= i
      OBVIOUS
    <2>2. QED BY <1>7, <2>1
  <1>10. \A j \in i + 1 .. i + 1 : t[j] = e
    <2>1. \A j \in i + 1 .. i + 1 : j = i + 1
      OBVIOUS
    <2>2. QED BY <1>8, <2>1
  <1>11. QED BY <1>5, <1>6, <1>9, <1>10 DEF t

LEMMA Removed ==
  ASSUME NEW S, NEW s \in Seq(S), NEW i \in 1 .. Len(s)
  PROVE  /\ Len(Without(s, i)) = Len(s) - 1 /\ Without(s, i) \in Seq(S)
         /\ \A j \in 1 .. Len(s) - 1 :
               Without(s, i)[j] = IF j < i THEN s[j] ELSE s[j + 1]
  <1> DEFINE t == Without(s, i)
  <1> DEFINE u == SubSeq(s, 1, i - 1)
             v == SubSeq(s, i + 1, Len(s))
  <1>1. u \in Seq(S) /\ Len(u) = i - 1 /\ \A j \in 1 .. i - 1 : u[j] = s[j]
    OBVIOUS
  <1>2. v \in Seq(S) /\ Len(v) = Len(s) - i /\ \A j \in 1 .. Len(s) - i : v[j] = s[i + j]
    OBVIOUS
  <1>3. t = u \o v
    BY DEF Without
  <1> HIDE DEF t, u, v
  <1>4. /\ u \o v \in Seq(S) /\ Len(u \o v) = Len(u) + Len(v)
        /\ \A j \in 1 .. Len(u) + Len(v) : (u \o v)[j] = IF j <= Len(u) THEN u[j] ELSE v[j - Len(u)]
    BY <1>1, <1>2, ConcatProperties
  <1>5. Len(u) + Len(v) = Len(s) - 1
    BY <1>1, <1>2
  <1>6. ASSUME NEW j \in 1 .. Len(s) - 1 PROVE t[j] = IF j < i THEN s[j] ELSE s[j + 1]
    <2>1. t[j] = IF j <= i - 1 THEN u[j] ELSE v[j - (i - 1)]
      BY <1>1, <1>3, <1>4, <1>5
    <2>2. CASE j < i
      <3>1. j \in 1 .. i - 1 /\ j <= i - 1
        BY <2>2
      <3>2. QED BY <1>1, <2>1, <2>2, <3>1
    <2>3. CASE ~(j < i)
      <3>1. j - (i - 1) \in 1 .. Len(s) - i /\ ~(j <= i - 1) /\ i + (j - (i - 1)) = j + 1
        BY <2>3
      <3>2. v[j - (i - 1)] = s[i + (j - (i - 1))]
        BY <1>2, <3>1
      <3>3. QED BY <2>1, <2>3, <3>1, <3>2
    <2>4. QED BY <2>2, <2>3
  <1>7. t \in Seq(S) /\ Len(t) = Len(s) - 1
    BY <1>3, <1>4, <1>5
  <1>8. QED BY <1>6, <1>7 DEF t

\* The first keys of a set, as a call of list_objects_v2 returns them.
FirstKeys(S, L) == {o \in S : Cardinality({q \in S : q < o}) < L}

LEMMA Batches ==
  ASSUME NEW S \in SUBSET Nat, IsFiniteSet(S), NEW L \in Nat \ {0}
  PROVE  /\ Cardinality(S) <= L => FirstKeys(S, L) = S
         /\ Cardinality(S) > L => \E m \in FirstKeys(S, L) : \A q \in FirstKeys(S, L) : q <= m
         /\ \A m \in FirstKeys(S, L) : \A o \in S : o <= m => o \in FirstKeys(S, L)
  <1> DEFINE B == FirstKeys(S, L)
  <1> DEFINE Below(o) == {q \in S : q < o}
             C(o) == Cardinality(Below(o))
  <1>1. ASSUME NEW o \in S PROVE C(o) \in Nat /\ C(o) < Cardinality(S) /\ IsFiniteSet(Below(o))
    <2>1. Below(o) \in SUBSET S /\ Below(o) # S
      <3>1. o \notin Below(o)
        OBVIOUS
      <3>2. QED BY <3>1
    <2> HIDE DEF Below
    <2>2. QED BY <2>1, FS_Subset, FS_CardinalityType
  <1>2. ASSUME NEW o \in S, NEW p \in S
        PROVE  (o <= p => C(o) <= C(p)) /\ (o < p => C(o) < C(p))
    <2>1. ASSUME o <= p, NEW q \in Below(o) PROVE q \in Below(p)
      <3>1. q \in S /\ q \in Nat /\ q < o /\ o \in Nat /\ p \in Nat
        BY <2>1
      <3>2. QED BY <2>1, <3>1
    <2>2. ASSUME o < p PROVE Below(o) # Below(p)
      <3>1. o \in Below(p) /\ o \notin Below(o)
        BY <2>2
      <3>2. QED BY <3>1
    <2>3. IsFiniteSet(Below(p)) /\ C(o) \in Nat /\ C(p) \in Nat
      BY <1>1
    <2>4. o <= p => Below(o) \in SUBSET Below(p)
      BY <2>1
    <2> HIDE DEF Below
    <2>5. o <= p => C(o) <= C(p) /\ (C(o) = C(p) => Below(o) = Below(p))
      BY <2>3, <2>4, FS_Subset
    <2>6. o \in Nat /\ p \in Nat
      OBVIOUS
    <2> HIDE DEF C
    <2>7. QED BY <2>2, <2>3, <2>5, <2>6
  <1>3. B = {o \in S : C(o) < L} /\ Cardinality(S) \in Nat
    BY FS_CardinalityType DEF FirstKeys
  <1> HIDE DEF B
  <1>4. ASSUME Cardinality(S) > L PROVE \E m \in B : \A q \in B : q <= m
    <2>1. S # {}
      BY <1>3, <1>4, FS_EmptySet
    <2>2. PICK n \in S : \A m \in S : n <= m
      BY <2>1, Least
    <2>3. n \in B
      <3>1. \A q \in S : q \in Nat /\ ~(q < n)
        BY <2>2
      <3>2. Below(n) = {}
        BY <3>1
      <3>3. C(n) = 0
        BY <3>2, FS_EmptySet
      <3>4. QED BY <1>3, <3>3
    <2> HIDE DEF C
    <2> DEFINE T == {C(o) : o \in B}
    <2>4. T \in SUBSET Nat /\ C(n) \in T
      BY <1>1, <1>3, <2>3
    <2>5. \A c \in T : c <= Cardinality(S)
      <3>1. \A o \in B : o \in S
        BY <1>3
      <3>2. ASSUME NEW o \in B PROVE C(o) <= Cardinality(S)
        <4>1. C(o) \in Nat /\ C(o) < Cardinality(S)
          BY <1>1, <3>1
        <4>2. QED BY <1>3, <4>1
      <3>3. QED BY <3>2
    <2>6. PICK c \in T : \A d \in T : d <= c
      <3> HIDE DEF T
      <3>1. T # {}
        BY <2>4
      <3>2. QED BY <1>3, <2>4, <2>5, <3>1, Greatest
    <2>7. PICK m \in B : c = C(m)
      BY <2>6
    <2>8. ASSUME NEW q \in B PROVE q <= m
      <3>1. C(q) <= C(m) /\ q \in S /\ m \in S /\ C(q) \in Nat /\ C(m) \in Nat
        BY <1>1, <1>3, <2>6, <2>7
      <3>2. m < q => C(m) < C(q)
        BY <1>2, <3>1
      <3>3. QED BY <3>1, <3>2
    <2>9. QED BY <2>8
  <1> HIDE DEF C
  <1>5. ASSUME Cardinality(S) <= L PROVE B = S
    <2>1. ASSUME NEW o \in S PROVE C(o) < L
      <3>1. C(o) \in Nat /\ C(o) < Cardinality(S)
        BY <1>1
      <3>2. QED BY <1>3, <1>5, <3>1
    <2>2. QED BY <1>3, <2>1
  <1>6. ASSUME NEW m \in B, NEW o \in S, o <= m PROVE o \in B
    <2>1. m \in S /\ C(m) < L /\ C(m) \in Nat /\ C(o) \in Nat
      BY <1>1, <1>3
    <2>2. C(o) <= C(m)
      BY <1>2, <1>6, <2>1
    <2>3. QED BY <1>3, <2>1, <2>2
  <1>7. QED BY <1>4, <1>5, <1>6 DEF B

-----------------------------------------------------------------------------
(***************************************************************************)
(* The source: every change keeps its rows apart, and what was not removed *)
(* never moves towards pages that were fetched already.                    *)
(***************************************************************************)
Stretches ==
    /\ Len(source) <= Len(source')
    /\ \A o \in Nat, n \in Names : Comes(source, o, n) => Comes(source', o, n)

LEMMA SourceFacts ==
  ASSUME Known
  PROVE  /\ Len(source) \in Nat /\ DOMAIN source = 1 .. Len(source)
         /\ latest \in [Names -> Nat]
         /\ \A i \in DOMAIN source : /\ source[i] = <<source[i][1], source[i][2]>>
                                     /\ source[i][1] \in Names /\ source[i][2] \in Nat
                                     /\ source[i][2] = latest[source[i][1]]
  <1>1. source \in Seq(Seen) /\ latest \in [Names -> Nat] /\ SourceInv
    BY DEF Known, IInv, WorldInv, StaleInv
  <1>2. ASSUME NEW i \in DOMAIN source
        PROVE  /\ source[i] = <<source[i][1], source[i][2]>>
               /\ source[i][1] \in Names /\ source[i][2] \in Nat
    <2>1. source[i] \in Seen
      BY <1>1
    <2>2. QED BY <2>1 DEF Seen
  <1>3. QED BY <1>1, <1>2 DEF SourceInv

LEMMA Amending ==
  ASSUME Known, Amend
  PROVE  SourceInv' /\ Grows /\ Stretches
  <1>1. PICK i \in DOMAIN source : /\ source' = [source EXCEPT ![i][2] = @ + 1]
                                   /\ latest' = [latest EXCEPT ![source[i][1]] = @ + 1]
    BY DEF Amend
  <1>2. source' = [source EXCEPT ![i] = <<source[i][1], source[i][2] + 1>>]
    <2>1. [source[i] EXCEPT ![2] = @ + 1] = <<source[i][1], source[i][2] + 1>>
      BY SourceFacts, NextVersion
    <2>2. source' = [source EXCEPT ![i] = [source[i] EXCEPT ![2] = @ + 1]]
      BY <1>1
    <2>3. QED BY <2>1, <2>2
  <1>3. /\ DOMAIN source' = DOMAIN source /\ Len(source') = Len(source)
        /\ \A j \in DOMAIN source : source'[j][1] = source[j][1]
        /\ source'[i][2] = source[i][2] + 1
        /\ \A j \in DOMAIN source : j # i => source'[j] = source[j]
    <2>1. source \in Seq(Seen)
      BY DEF Known, IInv, WorldInv
    <2>2. /\ <<source[i][1], source[i][2] + 1>>[1] = source[i][1]
          /\ <<source[i][1], source[i][2] + 1>>[2] = source[i][2] + 1
      OBVIOUS
    <2>3. DOMAIN source' = DOMAIN source /\ Len(source') = Len(source)
      BY <1>2, <2>1
    <2>4. source'[i] = <<source[i][1], source[i][2] + 1>>
      BY <1>2
    <2>5. \A j \in DOMAIN source : j # i => source'[j] = source[j]
      BY <1>2
    <2>6. QED BY <2>2, <2>3, <2>4, <2>5
  <1>4. Grows
    BY <1>1, SourceFacts DEF Grows
  <1>5. ASSUME NEW j \in DOMAIN source PROVE source'[j][2] = latest'[source'[j][1]]
    <2>1. source[j][2] = latest[source[j][1]] /\ source[j][1] \in Names
      BY SourceFacts
    <2>2. CASE j = i
      BY <1>1, <1>3, <2>1, <2>2, SourceFacts
    <2>3. CASE j # i
      <3>1. source[j][1] # source[i][1]
        BY <2>3 DEF Known, StaleInv, SourceInv
      <3>2. latest'[source[j][1]] = latest[source[j][1]]
        BY <1>1, <2>1, <3>1, SourceFacts
      <3>3. QED BY <1>3, <2>1, <2>3, <3>2
    <2>4. QED BY <2>2, <2>3
  <1>6. SourceInv'
    BY <1>3, <1>5 DEF Known, StaleInv, SourceInv
  <1>7. Stretches
    BY <1>3, SourceFacts DEF Stretches, Comes
  <1>8. QED BY <1>4, <1>6, <1>7

LEMMA Inserting ==
  ASSUME Known, Insert
  PROVE  SourceInv' /\ Grows /\ Stretches
  <1>1. PICK n \in Names, i \in 0 .. Len(source) :
           /\ \A j \in DOMAIN source : source[j][1] # n
           /\ source' = SubSeq(source, 1, i) \o <<<<n, latest[n] + 1>>>> \o SubSeq(source, i + 1, Len(source))
           /\ latest' = [latest EXCEPT ![n] = @ + 1]
    BY DEF Insert
  <1>2. /\ Len(source) \in Nat /\ DOMAIN source = 1 .. Len(source)
        /\ latest \in [Names -> Nat]
    BY SourceFacts
  <1>3. Grows
    BY <1>1, <1>2 DEF Grows
  <1>4. DEFINE new == <<n, latest[n] + 1>>
  <1>5. /\ Len(source') = Len(source) + 1 /\ DOMAIN source' = 1 .. Len(source) + 1
        /\ \A j \in 1 .. i : source'[j] = source[j]
        /\ source'[i + 1] = new
        /\ \A j \in i + 1 .. Len(source) : source'[j + 1] = source[j]
    <2> DEFINE rows == Names \X Nat
               longer == With(source, i, new)
    <2>1. source \in Seq(rows) /\ new \in rows
      <3>1. source \in Seq(Seen) /\ Seen \subseteq Names \X Nat
        BY DEF Known, IInv, WorldInv, Seen
      <3>2. QED BY <1>2, <3>1
    <2>2. source' = longer
      BY <1>1 DEF With
    <2> HIDE DEF new, rows, longer
    <2>3. /\ Len(longer) = Len(source) + 1 /\ longer \in Seq(rows)
          /\ \A j \in 1 .. i : longer[j] = source[j]
          /\ longer[i + 1] = new
          /\ \A j \in i + 1 .. Len(source) : longer[j + 1] = source[j]
      <3>1. /\ Len(longer) = Len(source) + 1 /\ longer \in Seq(rows)
            /\ \A j \in 1 .. i : longer[j] = source[j]
            /\ \A j \in i + 1 .. i + 1 : longer[j] = new
            /\ \A j \in i + 1 .. Len(source) : longer[j + 1] = source[j]
        <4>1. Len(longer) = Len(source) + 1 /\ longer \in Seq(rows)
          BY <2>1, Inserted DEF longer
        <4>2. \A j \in 1 .. i : longer[j] = source[j]
          BY <2>1, Inserted DEF longer
        <4>3. \A j \in i + 1 .. i + 1 : longer[j] = new
          BY <2>1, Inserted DEF longer
        <4>4. \A j \in i + 1 .. Len(source) : longer[j + 1] = source[j]
          BY <2>1, Inserted DEF longer
        <4>5. QED BY <4>1, <4>2, <4>3, <4>4
      <3>2. i + 1 \in i + 1 .. i + 1
        BY <1>2
      <3>3. QED BY <3>1, <3>2
    <2>4. DOMAIN longer = 1 .. Len(source) + 1
      BY <1>2, <2>3
    <2>5. QED BY <2>2, <2>3, <2>4
  <1>6. new[1] = n /\ new[2] = latest[n] + 1
    OBVIOUS
  <1> HIDE DEF new
  \* Every row but the new one was there before.
  <1>7. DEFINE was(j) == IF j <= i THEN j ELSE j - 1
  <1>8. ASSUME NEW j \in DOMAIN source', j # i + 1
        PROVE  was(j) \in DOMAIN source /\ source'[j] = source[was(j)]
    <2>1. CASE j <= i
      <3>1. j \in 1 .. i /\ was(j) = j /\ j \in 1 .. Len(source)
        BY <1>2, <1>5, <2>1
      <3>2. QED BY <1>2, <1>5, <3>1
    <2>2. CASE ~(j <= i)
      <3>1. j - 1 \in i + 1 .. Len(source) /\ was(j) = j - 1 /\ (j - 1) + 1 = j
            /\ j - 1 \in 1 .. Len(source)
        BY <1>2, <1>5, <1>8, <2>2
      <3>2. source'[(j - 1) + 1] = source[j - 1]
        BY <1>5, <3>1
      <3>3. QED BY <1>2, <3>1, <3>2
    <2>3. QED BY <2>1, <2>2
  <1>9. ASSUME NEW j \in DOMAIN source' PROVE source'[j][2] = latest'[source'[j][1]]
    <2>1. CASE j = i + 1
      <3>1. source'[j][1] = n /\ source'[j][2] = latest[n] + 1
        BY <1>5, <1>6, <2>1
      <3>2. latest'[n] = latest[n] + 1
        BY <1>1, <1>2
      <3>3. QED BY <3>1, <3>2
    <2>2. CASE j # i + 1
      <3>1. /\ source[was(j)][1] \in Names /\ source[was(j)][1] # n
            /\ source[was(j)][2] = latest[source[was(j)][1]]
        BY <1>1, <1>8, <2>2, SourceFacts
      <3>2. latest'[source[was(j)][1]] = latest[source[was(j)][1]]
        BY <1>1, <1>2, <3>1
      <3>3. QED BY <1>8, <2>2, <3>1, <3>2
    <2>3. QED BY <2>1, <2>2
  <1>10. ASSUME NEW j \in DOMAIN source', NEW k \in DOMAIN source', source'[j][1] = source'[k][1]
         PROVE  j = k
    <2>1. j = i + 1 <=> k = i + 1
      <3>1. ASSUME NEW x \in DOMAIN source' PROVE x = i + 1 <=> source'[x][1] = n
        <4>1. CASE x = i + 1
          BY <1>5, <1>6, <4>1
        <4>2. CASE x # i + 1
          <5>1. was(x) \in DOMAIN source /\ source'[x] = source[was(x)]
            BY <1>8, <4>2
          <5>2. source'[x][1] # n
            BY <1>1, <5>1
          <5>3. QED BY <4>2, <5>2
        <4>3. QED BY <4>1, <4>2
      <3>2. QED BY <1>10, <3>1
    <2>2. CASE j # i + 1
      <3>1. was(j) = was(k)
        BY <1>8, <1>10, <2>1, <2>2 DEF Known, StaleInv, SourceInv
      <3>2. j \in Nat /\ k \in Nat /\ i \in Nat /\ k # i + 1
        BY <1>2, <1>5, <2>1, <2>2
      <3>3. QED BY <2>2, <3>1, <3>2
    <2>3. QED BY <2>1, <2>2
  <1>11. SourceInv'
    BY <1>9, <1>10 DEF SourceInv
  <1>12. ASSUME NEW o \in Nat, NEW m \in Names, Comes(source, o, m) PROVE Comes(source', o, m)
    <2>1. PICK j \in DOMAIN source : j > o /\ source[j][1] = m
      BY <1>12 DEF Comes
    <2>2. CASE j <= i
      <3>1. j \in 1 .. i /\ j \in DOMAIN source'
        BY <1>2, <1>5, <2>2
      <3>2. QED BY <1>5, <2>1, <3>1 DEF Comes
    <2>3. CASE ~(j <= i)
      <3>1. j \in i + 1 .. Len(source) /\ j + 1 \in DOMAIN source'
        BY <1>2, <1>5, <2>3
      <3>2. j + 1 > o
        BY <1>2, <2>1
      <3>3. QED BY <1>5, <2>1, <3>1, <3>2 DEF Comes
    <2>4. QED BY <2>2, <2>3
  <1>13. Stretches
    BY <1>2, <1>5, <1>12 DEF Stretches
  <1>14. QED BY <1>3, <1>11, <1>13

LEMMA Removing ==
  ASSUME Known, Remove
  PROVE  SourceInv' /\ Grows
  <1>1. PICK i \in DOMAIN source :
           source' = SubSeq(source, 1, i - 1) \o SubSeq(source, i + 1, Len(source))
    BY DEF Remove
  <1>2. /\ Len(source) \in Nat /\ DOMAIN source = 1 .. Len(source)
        /\ latest \in [Names -> Nat] /\ latest' = latest
    BY SourceFacts DEF Remove
  <1>3. /\ DOMAIN source' = 1 .. Len(source) - 1
        /\ \A j \in 1 .. Len(source) - 1 : source'[j] = IF j < i THEN source[j] ELSE source[j + 1]
    <2> DEFINE rows == Seen
               shorter == Without(source, i)
    <2>1. source \in Seq(rows) /\ i \in 1 .. Len(source)
      BY <1>2 DEF Known, IInv, WorldInv
    <2>2. source' = shorter
      BY <1>1 DEF Without
    <2> HIDE DEF rows, shorter
    <2>3. /\ Len(shorter) = Len(source) - 1 /\ shorter \in Seq(rows)
          /\ \A j \in 1 .. Len(source) - 1 :
                shorter[j] = IF j < i THEN source[j] ELSE source[j + 1]
      BY <2>1, Removed DEF shorter
    <2>4. DOMAIN shorter = 1 .. Len(source) - 1
      BY <1>2, <2>3
    <2>5. QED BY <2>2, <2>3, <2>4
  <1>4. DEFINE was(j) == IF j < i THEN j ELSE j + 1
  <1>5. ASSUME NEW j \in DOMAIN source'
        PROVE  was(j) \in DOMAIN source /\ source'[j] = source[was(j)]
    <2>1. was(j) \in DOMAIN source
      BY <1>2, <1>3
    <2>2. QED BY <1>3, <2>1
  <1>6. \A j, k \in DOMAIN source' : was(j) = was(k) => j = k
    BY <1>2, <1>3
  <1> HIDE DEF was
  <1>7. SourceInv'
    BY <1>2, <1>5, <1>6 DEF Known, StaleInv, SourceInv
  <1>8. QED BY <1>2, <1>7 DEF Grows

-----------------------------------------------------------------------------
(***************************************************************************)
(* The initial states, the days and the changes of the source.             *)
(***************************************************************************)
LEMMA StaleInit == Init => StaleInv
  <1> SUFFICES ASSUME Init PROVE StaleInv
    OBVIOUS
  <1>1. /\ PageSize \in Nat /\ DOMAIN Start = 1 .. Len(Start) /\ Len(Start) \in Nat
        /\ \A i \in DOMAIN Start : Start[i] \in Names
        /\ \A i, j \in DOMAIN Start : Start[i] = Start[j] => i = j
    BY ReplayAssumption
  <1>2. /\ DOMAIN source = DOMAIN Start
        /\ \A i \in DOMAIN Start : source[i] = <<Start[i], 1>>
        /\ \A n \in Names : latest[n] \in Nat
        /\ \A i \in DOMAIN Start : latest[Start[i]] = 1
    BY <1>1 DEF Init
  <1>3. SourceInv
    <2>1. \A i \in DOMAIN Start : source[i][1] = Start[i] /\ source[i][2] = 1
      BY <1>2
    <2> QED  BY <1>1, <1>2, <2>1 DEF SourceInv
  <1>4. FloorInv
    BY <1>2 DEF Init, FloorInv
  <1>5. PagesInv
    <2>1. \A d \in Partitions : DOMAIN lake[d] = {}
      BY DEF Init, Empty
    <2> QED  BY <2>1, FS_EmptySet DEF PagesInv
  <1>6. PlaceInv
    <2>1. Multiple(0)
      BY <1>1 DEF Multiple
    <2> QED  BY <2>1 DEF Init, PlaceInv
  <1>7. FreshInv
    BY DEF Init, FreshInv
  <1> QED  BY <1>3, <1>4, <1>5, <1>6, <1>7 DEF StaleInv

LEMMA FloorGrows ==
  ASSUME Known, Grows, UNCHANGED floor
  PROVE  FloorInv'
  <1>1. ASSUME NEW n \in Names
        PROVE  floor'[n] \in Nat /\ floor'[n] <= latest'[n]
    <2>1. floor[n] \in Nat /\ latest[n] \in Nat /\ latest'[n] \in Nat
      BY DEF Known, StaleInv, FloorInv, Grows, IInv, WorldInv
    <2>2. floor[n] <= latest[n] /\ latest[n] <= latest'[n]
      BY DEF Known, StaleInv, FloorInv, Grows
    <2> QED  BY <2>1, <2>2
  <1> QED  BY <1>1 DEF FloorInv

LEMMA StretchStep ==
  ASSUME Known, Amend \/ Insert
  PROVE  StaleInv'
  <1>1. UNCHANGED <<lake, shrunk, raw, pc, part, only, offset, keys, token, tx, floor>>
    BY DEF Amend, Insert, objects, load
  <1>2. SourceInv' /\ Grows /\ Stretches
    BY Amending, Inserting
  <1>3. FloorInv'
    BY <1>1, <1>2, FloorGrows
  <1>4. /\ Len(source) \in Nat /\ Len(source') \in Nat /\ Len(source) <= Len(source')
        /\ offset \in Nat
    <2>1. Len(source') \in Nat
      BY Changing DEF Known, IInv, WorldInv
    <2> QED  BY <1>2, <2>1, SourceFacts DEF Stretches, Known, IInv, LakeInv
  <1>5. PagesInv'
    <2>1. PagesInv
      BY DEF Known, StaleInv
    <2> QED  BY <1>1, <1>4, <2>1 DEF PagesInv, InUse
  <1>6. PlaceInv'
    BY <1>1, <1>4 DEF Known, StaleInv, PlaceInv
  <1>7. FreshInv'
    <2> SUFFICES ASSUME ~only, part \notin shrunk, NEW n \in Names, floor[n] > 0
                 PROVE  Fresh(n)'
      BY <1>1 DEF FreshInv
    <2>1. Fresh(n)
      BY DEF Known, StaleInv, FreshInv
    <2>2. Comes(source, offset, n) => Comes(source', offset', n)
      BY <1>1, <1>2, <1>4 DEF Stretches
    <2> QED  BY <1>1, <2>1, <2>2 DEF Fresh
  <1> QED  BY <1>2, <1>3, <1>5, <1>6, <1>7 DEF StaleInv

\* Nothing is promised to the run that pages while a row is removed.
LEMMA RemoveStep ==
  ASSUME Known, Remove
  PROVE  StaleInv'
  <1>1. /\ UNCHANGED <<lake, raw, pc, part, only, offset, keys, token, tx, floor>>
        /\ shrunk' = shrunk \cup {"today", part}
    BY DEF Remove, load
  <1>2. SourceInv' /\ Grows
    BY Removing
  <1>3. FloorInv'
    BY <1>1, <1>2, FloorGrows
  <1>4. \A d \in Partitions : InUse(d)' => d \in shrunk'
    BY <1>1 DEF InUse
  <1>5. PagesInv'
    <2>1. PagesInv
      BY DEF Known, StaleInv
    <2> QED  BY <1>1, <1>4, <2>1 DEF PagesInv
  <1>6. PlaceInv'
    BY <1>1 DEF Known, StaleInv, PlaceInv
  <1>7. FreshInv'
    BY <1>1 DEF FreshInv
  <1> QED  BY <1>2, <1>3, <1>5, <1>6, <1>7 DEF StaleInv

LEMMA StaleNextDay ==
  ASSUME Known, NextDay
  PROVE  StaleInv'
  <1>1. /\ lake' = [lake EXCEPT !["earlier"] = lake["today"], !["today"] = Empty]
        /\ shrunk' = IF "today" \in shrunk THEN {"earlier"} ELSE {}
        /\ IF pc = "down" THEN part' = part ELSE part = "today" /\ part' = "earlier"
        /\ UNCHANGED <<source, latest, raw, pc, only, offset, keys, token, tx, floor>>
    BY DEF NextDay, world, load
  <1>2. /\ lake'["earlier"] = lake["today"] /\ DOMAIN lake'["today"] = {}
    BY <1>1 DEF Known, IInv, LakeInv, Partitions, Empty
  <1>3. part = "today" /\ (pc # "down" => part' = "earlier" /\ lake'[part'] = lake[part])
    BY <1>1, <1>2 DEF Known, StaleInv, PlaceInv
  <1>4. pc # "down" /\ part' \notin shrunk' => part \notin shrunk
    BY <1>1, <1>3
  <1>5. SourceInv' /\ FloorInv'
    BY <1>1 DEF Known, StaleInv, SourceInv, FloorInv
  <1>6. PagesInv'
    <2>1. "today" \in Partitions /\ PagesInv
      BY DEF Known, StaleInv, Partitions
    <2>2. /\ IsFiniteSet(DOMAIN lake["today"])
          /\ \A o \in DOMAIN lake["today"] : o \in Nat /\ Multiple(o)
          /\ "today" \notin shrunk =>
                \A o \in DOMAIN lake["today"] : o = 0 \/ o < Len(source)
      BY <2>1 DEF PagesInv, InUse
    <2>3. InUse("earlier")' => pc # "down" /\ part' = "earlier"
      BY <1>1, <1>3 DEF InUse
    <2>4. "earlier" \notin shrunk' => "today" \notin shrunk
      BY <1>1
    <2> QED  BY <1>1, <1>2, <2>2, <2>3, <2>4, FS_EmptySet DEF PagesInv, Partitions
  <1>7. PlaceInv'
    <2>1. CASE pc = "down"
      BY <1>1, <2>1 DEF Known, StaleInv, PlaceInv
    <2>2. CASE pc # "down"
      BY <1>1, <1>3, <1>4, <2>2 DEF Known, StaleInv, PlaceInv
    <2> QED  BY <2>1, <2>2
  <1>8. FreshInv'
    <2>1. CASE pc = "down"
      BY <1>1, <2>1 DEF FreshInv, Fresh
    <2>2. CASE pc # "down"
      BY <1>1, <1>3, <1>4, <2>2 DEF Known, StaleInv, FreshInv, Fresh
    <2> QED  BY <2>1, <2>2
  <1> QED  BY <1>5, <1>6, <1>7, <1>8 DEF StaleInv

-----------------------------------------------------------------------------
(***************************************************************************)
(* A run begins, lists, replays, commits and ends.                         *)
(***************************************************************************)
LEMMA SourceSame ==
  ASSUME Known, UNCHANGED <<source, latest>>
  PROVE  SourceInv'
  BY DEF Known, StaleInv, SourceInv

LEMMA FloorSame ==
  ASSUME Known, UNCHANGED <<latest, floor>>
  PROVE  FloorInv'
  BY DEF Known, StaleInv, FloorInv

LEMMA PagesSame ==
  ASSUME Known, UNCHANGED <<source, lake, shrunk>>,
         \A d \in Partitions : InUse(d)' => InUse(d)
  PROVE  PagesInv'
  <1>1. PagesInv
    BY DEF Known, StaleInv
  <1> QED  BY <1>1 DEF PagesInv

LEMMA StaleDaily ==
  ASSUME Known, Daily
  PROVE  StaleInv'
  <1>1. /\ pc = "down" /\ pc' = "fetching" /\ part' = "today" /\ only' = FALSE
        /\ floor' = [n \in Names |-> IF \E i \in DOMAIN source : source[i][1] = n
                                     THEN latest[n] ELSE 0]
        /\ UNCHANGED <<source, latest, lake, shrunk, raw, offset, keys, token, tx>>
    BY DEF Daily, FirstStep, world, objects, load
  <1>2. offset' = 0
    BY <1>1 DEF Known, StaleInv, PlaceInv
  <1>3. FloorInv'
    <2>1. \A n \in Names : latest[n] \in Nat
      BY SourceFacts
    <2> QED  BY <1>1, <2>1 DEF FloorInv
  <1>4. PagesInv'
    <2>1. \A d \in Partitions : InUse(d)' => InUse(d)
      BY <1>1 DEF InUse
    <2> QED  BY <1>1, <2>1, PagesSame
  <1>5. PlaceInv'
    BY <1>1, <1>2 DEF Known, StaleInv, PlaceInv
  <1>6. FreshInv'
    <2> SUFFICES ASSUME NEW n \in Names, floor'[n] > 0
                 PROVE  Comes(source, 0, n)
      BY <1>1, <1>2 DEF FreshInv, Fresh
    <2>1. PICK i \in DOMAIN source : source[i][1] = n
      BY <1>1
    <2>2. i > 0
      BY SourceFacts
    <2> QED  BY <2>1, <2>2 DEF Comes
  <1> QED  BY <1>1, <1>3, <1>4, <1>5, <1>6, SourceSame DEF StaleInv

LEMMA StaleLoadOnly ==
  ASSUME Known, \E d \in Partitions : LoadOnly(d)
  PROVE  StaleInv'
  <1>1. /\ pc = "down" /\ pc' = "listing" /\ part' \in Partitions /\ only' = TRUE
        /\ UNCHANGED <<source, latest, lake, shrunk, raw, offset, keys, token, tx, floor>>
    BY DEF LoadOnly, world, objects, load
  <1>2. PagesInv'
    <2>1. \A d \in Partitions : InUse(d)' => InUse(d)
      BY <1>1 DEF InUse
    <2> QED  BY <1>1, <2>1, PagesSame
  <1>3. PlaceInv'
    <2>1. keys = {} /\ token = -1 /\ offset = 0 /\ Multiple(offset)
      BY <1>1 DEF Known, StaleInv, PlaceInv, None
    <2>2. \A o \in DOMAIN lake[part'] : ~(o <= -1)
      <3>1. \A o \in DOMAIN lake[part'] : o \in Nat
        BY <1>1 DEF Known, StaleInv, PagesInv
      <3> QED  BY <3>1
    <2> QED  BY <1>1, <2>1, <2>2 DEF PlaceInv, None
  <1>4. FreshInv'
    BY <1>1 DEF FreshInv
  <1> QED  BY <1>1, <1>2, <1>3, <1>4, SourceSame, FloorSame DEF StaleInv

LEMMA StaleDown ==
  ASSUME Known, Finish \/ Die
  PROVE  StaleInv'
  <1>1. /\ pc' = "down" /\ offset' = 0 /\ keys' = {} /\ token' = None
        /\ floor' = [n \in Names |-> 0] /\ part' = "today" /\ only' = FALSE
        /\ UNCHANGED <<source, latest, lake, shrunk>>
    BY DEF Finish, Die, Down, world, objects
  <1>2. FloorInv'
    <2>1. \A n \in Names : latest[n] \in Nat
      BY SourceFacts
    <2> QED  BY <1>1, <2>1 DEF FloorInv
  <1>3. PagesInv'
    <2>1. \A d \in Partitions : InUse(d)' => InUse(d)
      BY <1>1 DEF InUse
    <2> QED  BY <1>1, <2>1, PagesSame
  <1>4. PlaceInv'
    <2>1. Multiple(0)
      BY ReplayAssumption DEF Multiple
    <2> QED  BY <1>1, <2>1 DEF PlaceInv
  <1>5. FreshInv'
    BY <1>1 DEF FreshInv, Fresh
  <1> QED  BY <1>1, <1>2, <1>3, <1>4, <1>5, SourceSame DEF StaleInv

LEMMA StaleCommit ==
  ASSUME Known, Commit
  PROVE  StaleInv'
  <1>1. /\ pc = "replaying" /\ keys = {} /\ raw' = tx /\ pc' = "done"
        /\ UNCHANGED <<source, latest, lake, shrunk, part, only, offset, keys, token, tx, floor>>
    BY DEF Commit, world, objects, load
  <1>2. PagesInv'
    <2>1. \A d \in Partitions : InUse(d)' => InUse(d)
      BY <1>1 DEF InUse
    <2> QED  BY <1>1, <2>1, PagesSame
  <1>3. PlaceInv'
    BY <1>1 DEF Known, StaleInv, PlaceInv
  <1>4. FreshInv'
    BY <1>1 DEF Known, StaleInv, FreshInv, Fresh, Leaves
  <1> QED  BY <1>1, <1>2, <1>3, <1>4, SourceSame, FloorSame DEF StaleInv

\* The keys up to the token are listed, and with the last batch all of them.
LEMMA StaleList ==
  ASSUME Known, List
  PROVE  StaleInv'
  <1> DEFINE all == DOMAIN lake[part]
             left == {o \in all : o > token}
             batch == FirstKeys(left, ListSize)
  <1>1. /\ pc = "listing" /\ keys' = keys \cup batch
        /\ IF Truncated(left)
           THEN pc' = "listing" /\ token' = (CHOOSE o \in batch : \A q \in batch : q <= o)
           ELSE pc' = "replaying" /\ token' = token
        /\ UNCHANGED <<source, latest, lake, shrunk, raw, part, only, offset, tx, floor>>
    BY DEF List, FirstKeys, world, objects
  <1>2. /\ IsFiniteSet(all) /\ all \subseteq Nat /\ ListSize \in Nat \ {0}
        /\ token \in Nat \cup {-1} /\ keys = {o \in all : o <= token}
    <2>1. /\ part \in Partitions /\ PagesInv /\ PlaceInv
      BY DEF Known, StaleInv, IInv, LakeInv
    <2> QED  BY <1>1, <2>1, ReplayAssumption DEF PagesInv, PlaceInv, None
  <1> HIDE DEF all
  <1>3. left \in SUBSET Nat /\ IsFiniteSet(left)
    BY <1>2, FS_Subset
  <1>4. left = {o \in all : o > token}
    OBVIOUS
  <1> HIDE DEF left
  <1>5. /\ Cardinality(left) <= ListSize => batch = left
        /\ Cardinality(left) > ListSize => \E m \in batch : \A q \in batch : q <= m
        /\ \A m \in batch : \A o \in left : o <= m => o \in batch
    BY <1>2, <1>3, Batches
  <1>6. batch \subseteq left /\ Cardinality(left) \in Nat
    BY <1>3, FS_CardinalityType DEF FirstKeys
  <1> HIDE DEF batch
  <1>7. ASSUME Truncated(left)
        PROVE  PlaceInv' /\ FreshInv'
    <2>1. pc' = "listing" /\ token' \in batch /\ \A q \in batch : q <= token'
      BY <1>1, <1>2, <1>5, <1>6, <1>7 DEF Truncated
    <2>2. token' \in Nat /\ token' > token
      BY <1>2, <1>4, <1>6, <2>1
    <2>3. ASSUME NEW o \in all
          PROVE  o \in keys' <=> o <= token'
      <3>1. o \in Nat /\ (o \in keys <=> o <= token) /\ (o \in left <=> o > token)
        BY <1>2, <1>4
      <3>2. o <= token => o <= token'
        BY <1>2, <2>2, <3>1
      <3>3. o \in left => (o \in batch <=> o <= token')
        BY <1>5, <2>1
      <3>4. o \in batch => o \in left
        BY <1>6
      <3>5. o <= token \/ o > token
        BY <1>2, <3>1
      <3> QED  BY <1>1, <2>1, <3>1, <3>2, <3>3, <3>4, <3>5
    <2>4. keys' = {o \in all : o <= token'}
      <3>1. keys' \subseteq all
        BY <1>1, <1>2, <1>4, <1>6
      <3> QED  BY <2>3, <3>1
    <2>5. PlaceInv'
      BY <1>1, <2>1, <2>2, <2>4 DEF Known, StaleInv, PlaceInv, all
    <2>6. FreshInv'
      BY <1>1, <2>1 DEF Known, StaleInv, FreshInv, Fresh
    <2> QED  BY <2>5, <2>6
  <1>8. ASSUME ~Truncated(left)
        PROVE  PlaceInv' /\ FreshInv'
    <2>1. pc' = "replaying" /\ batch = left
      BY <1>1, <1>2, <1>5, <1>6, <1>8 DEF Truncated
    <2>2. keys' = all
      <3>1. \A o \in all : o <= token \/ o > token
        BY <1>2
      <3> QED  BY <1>1, <1>2, <1>4, <2>1, <3>1
    <2>3. PlaceInv'
      BY <1>1, <2>1 DEF Known, StaleInv, PlaceInv
    <2>4. FreshInv'
      BY <1>1, <2>1, <2>2 DEF Known, StaleInv, FreshInv, Fresh, all
    <2> QED  BY <2>3, <2>4
  <1>9. PlaceInv' /\ FreshInv'
    BY <1>7, <1>8
  <1>10. PagesInv'
    <2>1. \A d \in Partitions : InUse(d)' => InUse(d)
      BY <1>1 DEF InUse
    <2> QED  BY <1>1, <2>1, PagesSame
  <1> QED  BY <1>1, <1>9, <1>10, SourceSame, FloorSame DEF StaleInv

LEMMA UpsertVersion ==
  ASSUME NEW n \in Names, NEW v
  PROVE  Upsert(n, v).version = v
  <1>1. CASE tx[n].version = 0 \/ Distinct(tx[n], v)
    BY <1>1 DEF Upsert
  <1>2. CASE tx[n].version # 0 /\ ~Distinct(tx[n], v)
    BY <1>2 DEF Upsert, Distinct
  <1> QED  BY <1>1, <1>2

\* The objects are replayed in key order: what follows a version is no older.
LEMMA StaleReplay ==
  ASSUME Known, ReplayObject
  PROVE  StaleInv'
  <1> DEFINE pages == lake[part]
             at(page, n) == {i \in DOMAIN page : page[i][1] = n}
  <1>1. PICK o \in keys :
          /\ \A q \in keys : o <= q
          /\ keys' = keys \ {o}
          /\ tx' = [n \in Names |-> IF at(pages[o], n) = {} THEN tx[n]
                   ELSE Upsert(n, pages[o][CHOOSE i \in at(pages[o], n) : TRUE][2])]
    BY DEF ReplayObject, IsNext
  <1>2. /\ pc = "replaying" /\ pc' = pc
        /\ UNCHANGED <<source, latest, lake, shrunk, raw, part, only, offset, token, floor>>
    BY DEF ReplayObject, world, objects
  <1> HIDE DEF pages
  <1>3. ASSUME NEW n \in Names
        PROVE  /\ ~Holds(pages[o], n) => tx'[n] = tx[n]
               /\ \A v : NoOlder(pages[o], n, v) /\ Holds(pages[o], n) => tx'[n].version >= v
    <2>1. Holds(pages[o], n) <=> at(pages[o], n) # {}
      BY DEF Holds
    <2>2. ASSUME Holds(pages[o], n), NEW v, NoOlder(pages[o], n, v)
          PROVE  tx'[n].version >= v
      <3> DEFINE j == CHOOSE i \in at(pages[o], n) : TRUE
      <3>1. j \in DOMAIN pages[o] /\ pages[o][j][1] = n
        BY <2>1, <2>2
      <3>2. tx'[n] = Upsert(n, pages[o][j][2])
        BY <1>1, <2>1, <2>2
      <3> HIDE DEF j
      <3>3. pages[o][j][2] >= v
        BY <2>2, <3>1 DEF NoOlder
      <3>4. tx'[n].version = pages[o][j][2]
        BY <3>2, UpsertVersion
      <3> QED  BY <3>3, <3>4
    <2>3. ~Holds(pages[o], n) => tx'[n] = tx[n]
      BY <1>1, <2>1
    <2> QED  BY <2>2, <2>3
  <1>4. FreshInv'
    <2> SUFFICES ASSUME ~only, part \notin shrunk, NEW n \in Names, floor[n] > 0
                 PROVE  \/ Leaves(pages, keys', n, floor[n])
                        \/ /\ tx'[n].version >= floor[n]
                           /\ \A q \in keys' : NoOlder(pages[q], n, floor[n])
      BY <1>2 DEF FreshInv, Fresh, pages
    <2> DEFINE v == floor[n]
    <2>1. \/ Leaves(pages, keys, n, v)
          \/ tx[n].version >= v /\ \A q \in keys : NoOlder(pages[q], n, v)
      BY <1>2 DEF Known, StaleInv, FreshInv, Fresh, pages
    <2> HIDE DEF v
    <2>2. CASE Leaves(pages, keys, n, v)
      <3>1. PICK w \in keys : /\ Holds(pages[w], n)
                              /\ \A q \in keys : w <= q => NoOlder(pages[q], n, v)
        BY <2>2 DEF Leaves
      <3>2. CASE w # o
        <4>1. w \in keys' /\ keys' \subseteq keys
          BY <1>1, <3>2
        <4>2. Leaves(pages, keys', n, v)
          BY <3>1, <4>1 DEF Leaves
        <4> QED  BY <4>2 DEF v
      <3>3. CASE w = o
        <4>1. \A q \in keys : NoOlder(pages[q], n, v)
          BY <1>1, <3>1, <3>3
        <4>2. tx'[n].version >= v
          BY <1>3, <3>1, <3>3, <4>1
        <4>3. \A q \in keys' : NoOlder(pages[q], n, v)
          BY <1>1, <4>1
        <4> QED  BY <4>2, <4>3 DEF v
      <3> QED  BY <3>2, <3>3
    <2>3. CASE tx[n].version >= v /\ \A q \in keys : NoOlder(pages[q], n, v)
      <3>1. tx'[n].version >= v
        BY <1>1, <1>3, <2>3
      <3>2. \A q \in keys' : NoOlder(pages[q], n, v)
        BY <1>1, <2>3
      <3> QED  BY <3>1, <3>2 DEF v
    <2> QED  BY <2>1, <2>2, <2>3
  <1>5. PagesInv'
    <2>1. \A d \in Partitions : InUse(d)' => InUse(d)
      BY <1>2 DEF InUse
    <2> QED  BY <1>2, <2>1, PagesSame
  <1>6. PlaceInv'
    BY <1>2 DEF Known, StaleInv, PlaceInv
  <1> QED  BY <1>2, <1>4, <1>5, <1>6, SourceSame, FloorSame DEF StaleInv

-----------------------------------------------------------------------------
(***************************************************************************)
(* A page is fetched.                                                      *)
(***************************************************************************)
Stored(pages, o, page) ==
    [q \in DOMAIN pages \cup {o} |-> IF q = o THEN page ELSE pages[q]]

\* What the objects before the new one hold stays, if it holds nothing older.
LEMMA LeavesKept ==
  ASSUME NEW pages, NEW o, NEW page, NEW n, NEW v, DOMAIN pages \subseteq Nat, o \in Nat,
         Leaves(pages, Before(pages, o), n, v), NoOlder(page, n, v)
  PROVE  Leaves(Stored(pages, o, page), Before(pages, o) \cup {o}, n, v)
  <1> DEFINE more == Stored(pages, o, page)
  <1>1. PICK w \in Before(pages, o) :
          /\ Holds(pages[w], n)
          /\ \A q \in Before(pages, o) : w <= q => NoOlder(pages[q], n, v)
    BY DEF Leaves
  <1>2. /\ \A q \in Before(pages, o) : more[q] = pages[q]
        /\ more[o] = page
    BY DEF Before, Stored
  <1> HIDE DEF more
  <1>3. \A q \in Before(pages, o) \cup {o} : w <= q => NoOlder(more[q], n, v)
    BY <1>1, <1>2
  <1>4. Holds(more[w], n)
    BY <1>1, <1>2
  <1> QED  BY <1>1, <1>3, <1>4 DEF Leaves, more

\* Or the new one holds it.
LEMMA LeavesNew ==
  ASSUME NEW pages, NEW o, NEW page, NEW n, NEW v, DOMAIN pages \subseteq Nat, o \in Nat,
         Holds(page, n), NoOlder(page, n, v)
  PROVE  Leaves(Stored(pages, o, page), Before(pages, o) \cup {o}, n, v)
  <1> DEFINE more == Stored(pages, o, page)
  <1>1. more[o] = page
    BY DEF Stored
  <1> HIDE DEF more
  <1>2. \A q \in Before(pages, o) \cup {o} : o <= q => q = o
    BY DEF Before
  <1>3. \A q \in Before(pages, o) \cup {o} : o <= q => NoOlder(more[q], n, v)
    BY <1>1, <1>2
  <1> QED  BY <1>1, <1>3 DEF Leaves, more

\* Pages do not overlap.
LEMMA Offsets ==
  ASSUME NEW o \in Nat, NEW q \in Nat, Multiple(o), Multiple(q)
  PROVE  /\ Multiple(o + PageSize)
         /\ q < o + PageSize => q <= o
  <1>1. PageSize \in Nat \ {0}
    BY ReplayAssumption
  <1>2. PICK k \in 0 .. o : o = k * PageSize
    BY DEF Multiple
  <1>3. PICK j \in 0 .. q : q = j * PageSize
    BY DEF Multiple
  <1>4. k \in Nat /\ j \in Nat
    OBVIOUS
  <1>5. Multiple(o + PageSize)
    <2>1. o + PageSize = (k + 1) * PageSize
      BY <1>1, <1>2, <1>4
    <2>2. k + 1 \in 0 .. o + PageSize
      BY <1>1, <1>2
    <2> QED  BY <2>1, <2>2 DEF Multiple
  <1>6. ASSUME q < o + PageSize, o < q
        PROVE  FALSE
    <2>1. k * PageSize < j * PageSize
      BY <1>2, <1>3, <1>6
    <2>2. k * PageSize + PageSize <= j * PageSize
      BY <1>1, <1>4, <2>1, Apart
    <2>3. o + PageSize <= q
      BY <1>2, <1>3, <2>2
    <2> QED  BY <1>1, <1>6, <2>3
  <1> QED  BY <1>1, <1>5, <1>6

\* The rows of a page are those of the source from the offset on.
LEMMA PageRows ==
  ASSUME NEW S, NEW s \in Seq(S), NEW a \in Nat, NEW b \in Nat, b <= Len(s), a <= b
  PROVE  /\ DOMAIN SubSeq(s, a + 1, b) = 1 .. b - a
         /\ \A i \in 1 .. b - a : SubSeq(s, a + 1, b)[i] = s[a + i]
  OBVIOUS

LEMMA StaleFetch ==
  ASSUME Known, Fetch
  PROVE  StaleInv'
  <1> DEFINE next == offset + PageSize
             end == IF next < Len(source) THEN next ELSE Len(source)
             page == SubSeq(source, offset + 1, end)
             pages == lake[part]
             more == Stored(pages, offset, page)
             upTo == Before(pages, offset) \cup {offset}
  <1>1. /\ pc = "fetching"
        /\ lake' = [lake EXCEPT ![part] = more]
        /\ floor' = [n \in Names |-> IF Holds(page, n) THEN latest[n] ELSE floor[n]]
        /\ IF next >= Len(source) THEN pc' = "listing" /\ offset' = 0
           ELSE pc' = "fetching" /\ offset' = next
        /\ UNCHANGED <<source, latest, shrunk, raw, part, only, keys, token, tx>>
    BY DEF Fetch, Stored, Holds, world, load
  <1>2. /\ PageSize \in Nat \ {0} /\ Len(source) \in Nat /\ DOMAIN source = 1 .. Len(source)
        /\ offset \in Nat /\ Multiple(offset) /\ part \in Partitions /\ ~only
        /\ keys = {} /\ token = None
        /\ part \notin shrunk => offset = 0 \/ offset < Len(source)
    BY <1>1, SourceFacts, ReplayAssumption DEF Known, StaleInv, PlaceInv, IInv, LakeInv
  <1>3. /\ IsFiniteSet(DOMAIN pages)
        /\ \A o \in DOMAIN pages : o \in Nat /\ Multiple(o)
        /\ part \notin shrunk => \A o \in DOMAIN pages : o = 0 \/ o < Len(source)
    BY <1>2 DEF Known, StaleInv, PagesInv, InUse
  <1>4. lake'[part] = more /\ \A d \in Partitions : d # part => lake'[d] = lake[d]
    BY <1>1, <1>2 DEF Known, IInv, LakeInv
  <1>5. DOMAIN more = DOMAIN pages \cup {offset}
    BY DEF Stored
  <1>6. next \in Nat /\ Multiple(next) /\ Multiple(0)
    <2>1. Multiple(0)
      BY <1>2 DEF Multiple
    <2> QED  BY <1>2, <2>1, Offsets
  <1>7. FloorInv'
    <2>1. \A n \in Names : latest[n] \in Nat /\ floor[n] \in Nat /\ floor[n] <= latest[n]
      BY SourceFacts DEF Known, StaleInv, FloorInv
    <2> HIDE DEF page
    <2> QED  BY <1>1, <2>1 DEF FloorInv
  <1> HIDE DEF page, more, pages
  <1>8. PagesInv'
    <2> SUFFICES ASSUME NEW d \in Partitions
                 PROVE  /\ IsFiniteSet(DOMAIN lake'[d])
                        /\ \A o \in DOMAIN lake'[d] : o \in Nat /\ Multiple(o)
                        /\ d \notin shrunk' /\ InUse(d)' =>
                              \A o \in DOMAIN lake'[d] : o = 0 \/ o < Len(source')
      BY DEF PagesInv
    <2>1. InUse(d)' => InUse(d)
      BY <1>1 DEF InUse
    <2>2. CASE d # part
      BY <1>1, <1>4, <2>1, <2>2 DEF Known, StaleInv, PagesInv
    <2>3. CASE d = part
      <3>1. IsFiniteSet(DOMAIN lake'[d])
        BY <1>3, <1>4, <1>5, <2>3, FS_AddElement
      <3> QED  BY <1>1, <1>2, <1>3, <1>4, <1>5, <2>3, <3>1
    <2> QED  BY <2>2, <2>3
  <1>9. PlaceInv'
    <2>1. CASE next >= Len(source)
      <3>1. pc' = "listing" /\ offset' = 0 /\ token' = -1 /\ keys' = {}
        BY <1>1, <1>2, <2>1 DEF None
      <3>2. \A o \in DOMAIN lake'[part'] : ~(o <= -1)
        <4>1. \A o \in DOMAIN lake'[part'] : o \in Nat
          BY <1>1, <1>2, <1>3, <1>4, <1>5
        <4> QED  BY <4>1
      <3> QED  BY <1>6, <3>1, <3>2 DEF PlaceInv, None
    <2>2. CASE ~(next >= Len(source))
      <3>1. pc' = "fetching" /\ offset' = next /\ next < Len(source)
        BY <1>1, <1>2, <1>6, <2>2
      <3> HIDE DEF next
      <3> QED  BY <1>1, <1>2, <1>6, <3>1 DEF PlaceInv
    <2> QED  BY <2>1, <2>2
  <1>10. FreshInv'
    <2> SUFFICES ASSUME part \notin shrunk, NEW n \in Names, floor'[n] > 0
                 PROVE  Fresh(n)'
      BY <1>1 DEF FreshInv
    <2>1. end \in Nat /\ offset <= end /\ end <= Len(source) /\ end <= next
      BY <1>2
    <2>2. /\ DOMAIN page = 1 .. end - offset
          /\ \A i \in 1 .. end - offset : page[i] = source[offset + i]
      <3>1. source \in Seq(Seen)
        BY DEF Known, IInv, WorldInv
      <3> HIDE DEF end
      <3> QED  BY <1>2, <2>1, <3>1, PageRows DEF page
    <2>3. NoOlder(page, n, latest[n])
      <3> SUFFICES ASSUME NEW i \in DOMAIN page, page[i][1] = n
                   PROVE  page[i][2] >= latest[n]
        BY DEF NoOlder
      <3>1. offset + i \in DOMAIN source
        BY <1>2, <2>1, <2>2
      <3>2. page[i] = source[offset + i]
        BY <2>2
      <3>3. page[i][2] = latest[n] /\ latest[n] \in Nat
        BY <3>1, <3>2, SourceFacts
      <3> QED  BY <3>3
    \* The row is in the pages up to this one, or comes after it.
    <2>4. \/ Leaves(more, upTo, n, floor'[n])
          \/ Comes(source, next, n) /\ next < Len(source)
      <3>1. CASE Holds(page, n)
        <4>1. floor'[n] = latest[n]
          BY <1>1, <3>1
        <4>2. DOMAIN pages \subseteq Nat
          BY <1>3
        <4> QED  BY <1>2, <2>3, <3>1, <4>1, <4>2, LeavesNew DEF more
      <3>2. CASE ~Holds(page, n)
        <4>1. floor'[n] = floor[n]
          BY <1>1, <3>2
        <4>2. \/ Leaves(pages, Before(pages, offset), n, floor[n])
              \/ Comes(source, offset, n)
          BY <1>1, <1>2, <4>1 DEF Known, StaleInv, FreshInv, Fresh, pages
        <4>3. ASSUME Leaves(pages, Before(pages, offset), n, floor[n])
              PROVE  Leaves(more, upTo, n, floor'[n])
          <5>1. NoOlder(page, n, floor[n])
            BY <3>2 DEF Holds, NoOlder
          <5>2. DOMAIN pages \subseteq Nat
            BY <1>3
          <5> QED  BY <1>2, <4>1, <4>3, <5>1, <5>2, LeavesKept DEF more
        <4>4. ASSUME Comes(source, offset, n)
              PROVE  Comes(source, next, n) /\ next < Len(source)
          <5>1. PICK i \in DOMAIN source : i > offset /\ source[i][1] = n
            BY <4>4 DEF Comes
          <5>2. ~(i <= end)
            <6> SUFFICES ASSUME i <= end PROVE FALSE
              OBVIOUS
            <6>1. i - offset \in 1 .. end - offset /\ offset + (i - offset) = i
              BY <1>2, <2>1, <5>1
            <6>2. page[i - offset] = source[offset + (i - offset)]
              BY <2>2, <6>1
            <6> QED  BY <2>2, <3>2, <5>1, <6>1, <6>2 DEF Holds
          <5>3. next < Len(source) /\ i > next
            BY <1>2, <1>6, <5>2
          <5> QED  BY <5>1, <5>3 DEF Comes
        <4> QED  BY <4>2, <4>3, <4>4
      <3> QED  BY <3>1, <3>2
    \* The pages up to this one are the pages before the next one.
    <2>5. \A q \in DOMAIN more : q < next <=> q \in upTo
      <3> SUFFICES ASSUME NEW q \in DOMAIN more
                   PROVE  q < next <=> q \in upTo
        OBVIOUS
      <3>1. q \in Nat /\ Multiple(q)
        BY <1>2, <1>3, <1>5
      <3>2. q < next => q <= offset
        BY <1>2, <3>1, Offsets
      <3>3. q \in upTo <=> q <= offset
        BY <1>2, <1>5, <3>1 DEF Before
      <3>4. q <= offset => q < next
        BY <1>2, <3>1
      <3> QED  BY <3>2, <3>3, <3>4
    <2>6. upTo \subseteq DOMAIN more
      BY <1>5 DEF Before
    <2> HIDE DEF upTo, next, end
    <2>7. CASE next >= Len(source)
      <3>1. \A q \in DOMAIN more : q < next
        <4> SUFFICES ASSUME NEW q \in DOMAIN more PROVE q < next
          OBVIOUS
        <4>1. offset < next /\ 0 < next
          BY <1>2 DEF next
        <4>2. q = offset \/ q = 0 \/ q < Len(source)
          BY <1>3, <1>5
        <4>3. q \in Nat
          BY <1>2, <1>3, <1>5
        <4> QED  BY <1>2, <1>6, <2>7, <4>1, <4>2, <4>3
      <3>2. upTo = DOMAIN more
        BY <2>5, <2>6, <3>1
      <3>3. Leaves(more, DOMAIN more, n, floor'[n])
        BY <1>2, <1>6, <2>4, <2>7, <3>2
      <3> QED  BY <1>1, <1>4, <2>7, <3>3 DEF Fresh
    <2>8. CASE ~(next >= Len(source))
      <3>1. upTo = Before(more, next)
        BY <2>5, <2>6 DEF Before
      <3> QED  BY <1>1, <1>4, <2>4, <2>8, <3>1 DEF Fresh
    <2> QED  BY <2>7, <2>8
  <1> QED  BY <1>1, <1>7, <1>8, <1>9, <1>10, SourceSame DEF StaleInv

-----------------------------------------------------------------------------
LEMMA StaleSame ==
  ASSUME Known, UNCHANGED vars
  PROVE  StaleInv'
  <1>1. UNCHANGED <<source, latest, lake, shrunk, raw, pc, part, only, offset, keys, token,
                    tx, floor>>
    BY DEF vars, world, objects, load
  <1>2. SourceInv' /\ FloorInv'
    BY <1>1, SourceSame, FloorSame
  <1>3. PagesInv'
    <2>1. \A d \in Partitions : InUse(d)' => InUse(d)
      BY <1>1 DEF InUse
    <2> QED  BY <1>1, <2>1, PagesSame
  <1>4. PlaceInv'
    BY <1>1 DEF Known, StaleInv, PlaceInv
  <1>5. FreshInv'
    BY <1>1 DEF Known, StaleInv, FreshInv, Fresh
  <1> QED  BY <1>2, <1>3, <1>4, <1>5 DEF StaleInv

LEMMA StaleStep == Known /\ [Next]_vars => StaleInv'
  BY StretchStep, RemoveStep, StaleNextDay, StaleDaily, StaleLoadOnly, StaleFetch,
     StaleList, StaleReplay, StaleCommit, StaleDown, StaleSame DEF Next, Run

THEOREM StaleInvariant == Spec => []Known
  <1>1. Init => Known
    BY InvInit, StaleInit DEF Known
  <1>2. Known /\ [Next]_vars => Known'
    BY InvStep, StaleStep DEF Known
  <1> QED  BY <1>1, <1>2, PTL DEF Spec

\* A daily run leaves no row older than the source had it when the run began or
\* fetched it, whatever else is in the partition (load_lake.py:53-54), unless a
\* row was removed under its pages.
THEOREM NothingStaleHolds == Spec => []NothingStale
  <1>1. Known => NothingStale
    <2> SUFFICES ASSUME Known, pc = "done", ~only, part \notin shrunk, NEW n \in Names
                 PROVE  raw[n].version >= floor[n]
      BY DEF NothingStale
    <2>1. raw[n].version \in Nat /\ floor[n] \in Nat
      BY DEF Known, IInv, TableInv, Honest, StaleInv, FloorInv
    <2>2. CASE floor[n] > 0
      BY <2>2 DEF Known, StaleInv, FreshInv, Fresh
    <2>3. CASE floor[n] = 0
      BY <2>1, <2>3
    <2> QED  BY <2>1, <2>2, <2>3
  <1> QED  BY <1>1, StaleInvariant, PTL

(***************************************************************************)
(* What EventuallyCorrected says of a state: a daily run that saw the last *)
(* version of every row the source holds, and under which none was removed *)
(* since its day began, leaves the warehouse up to date.  That such a run  *)
(* comes about again and again is left to the run that checks it.          *)
(***************************************************************************)
SawTheLast == \A i \in DOMAIN source : floor[source[i][1]] = latest[source[i][1]]
Corrected == pc = "done" /\ ~only /\ part \notin shrunk /\ SawTheLast => UpToDate

\* A daily run that saw the last version of every row leaves the warehouse
\* as the source is, corrections of rows that were loaded before included.
THEOREM CorrectedHolds == Spec => []Corrected
  <1>1. Known /\ NothingStale => Corrected
    <2> SUFFICES ASSUME Known, NothingStale, pc = "done", ~only, part \notin shrunk, SawTheLast,
                        NEW i \in DOMAIN source
                 PROVE  raw[source[i][1]].version = source[i][2]
      BY DEF Corrected, UpToDate
    <2> DEFINE n == source[i][1]
    <2>1. n \in Names /\ source[i][2] = latest[n]
      <3>1. source[i] \in Seen
        BY DEF Known, IInv, WorldInv
      <3> QED  BY <3>1, OfSeen DEF Known, StaleInv, SourceInv
    <2>2. raw[n].version \in Nat /\ latest[n] \in Nat /\ raw[n].version <= latest[n]
      BY <2>1 DEF Known, IInv, WorldInv, TableInv, Honest
    <2>3. raw[n].version >= latest[n]
      BY <2>1 DEF NothingStale, SawTheLast
    <2> QED  BY <2>1, <2>2, <2>3
  <1> QED  BY <1>1, StaleInvariant, NothingStaleHolds, PTL
=============================================================================
