--------------------------- MODULE Loading_proofs ---------------------------
(***************************************************************************)
(* What load_from_lake leaves, whatever its objects hold and however many  *)
(* they are: nothing of a payload vanishes, and loading a partition again  *)
(* converges.  First what parse_records makes of one payload, then the     *)
(* dead letters, then the table.                                           *)
(***************************************************************************)
EXTENDS Loading, FiniteSetTheorems, SequenceTheorems, WellFoundedInduction, NaturalsInduction, TLAPS

(***************************************************************************)
(* A set that has 0 and is closed under successor up to n has n.           *)
(***************************************************************************)
LEMMA Induction ==
  ASSUME NEW n \in Nat, NEW S, 0 \in S, \A k \in 1 .. n : k - 1 \in S => k \in S
  PROVE  \A k \in 0 .. n : k \in S
  <1> DEFINE Missing == {k \in 0 .. n : k \notin S}
  <1> SUFFICES ASSUME Missing # {} PROVE FALSE
    OBVIOUS
  <1>1. PICK k \in Missing : \A m \in Missing : <<m, k>> \notin OpToRel(<, Nat)
    <2>1. Missing \subseteq Nat
      OBVIOUS
    <2> QED  BY <2>1, NatLessThanWellFounded, WFMin
  <1>2. k \in 1 .. n /\ k - 1 \in 0 .. n
    OBVIOUS
  <1>3. k - 1 \notin Missing
    <2>1. k - 1 \in Nat /\ k \in Nat /\ k - 1 < k
      BY <1>2
    <2>2. <<k - 1, k>> \in OpToRel(<, Nat)
      BY <2>1 DEF OpToRel
    <2> QED  BY <1>1, <2>2
  <1> QED  BY <1>2, <1>3

(***************************************************************************)
(* A loop of n turns, each a step from one state to the next, is defined.  *)
(***************************************************************************)
Turns(f, m, b, step, X) ==
    /\ f \in [0 .. m -> X] /\ f[0] = b
    /\ \A k \in 1 .. m : f[k] = step[<<k, f[k - 1]>>]

LEMMA Recursion ==
  ASSUME NEW n \in Nat, NEW X, NEW b \in X, NEW step,
         \A k \in 1 .. n, x \in X : step[<<k, x>>] \in X
  PROVE  \E f : Turns(f, n, b, step, X)
  <1> DEFINE S == {m \in 0 .. n : \E f : Turns(f, m, b, step, X)}
  <1>1. 0 \in S
    <2> DEFINE f == [k \in 0 .. 0 |-> b]
    <2>1. Turns(f, 0, b, step, X)
      BY DEF Turns
    <2> HIDE DEF f
    <2> QED  BY <2>1
  <1>2. ASSUME NEW m \in 1 .. n, m - 1 \in S PROVE m \in S
    <2>1. PICK f : Turns(f, m - 1, b, step, X)
      BY <1>2
    <2> DEFINE g == [k \in 0 .. m |-> IF k = m THEN step[<<m, f[m - 1]>>] ELSE f[k]]
    <2>2. \A k \in 0 .. m - 1 : g[k] = f[k]
      OBVIOUS
    <2>3. g[m] = step[<<m, g[m - 1]>>]
      <3>1. m - 1 \in 0 .. m - 1 /\ m \in 0 .. m
        OBVIOUS
      <3>2. g[m - 1] = f[m - 1]
        BY <2>2, <3>1
      <3>3. g[m] = step[<<m, f[m - 1]>>]
        BY <3>1
      <3> HIDE DEF g
      <3> QED  BY <3>2, <3>3
    <2>4. \A k \in 1 .. m : g[k] = step[<<k, g[k - 1]>>]
      <3>1. ASSUME NEW k \in 1 .. m - 1
            PROVE  g[k] = step[<<k, g[k - 1]>>]
        <4>1. k \in 0 .. m - 1 /\ k - 1 \in 0 .. m - 1
          OBVIOUS
        <4>2. g[k] = f[k] /\ g[k - 1] = f[k - 1]
          BY <2>2, <4>1
        <4> HIDE DEF g
        <4> QED  BY <2>1, <4>2 DEF Turns
      <3> HIDE DEF g
      <3> QED  BY <2>3, <3>1
    <2>5. g \in [0 .. m -> X]
      <3>1. f[m - 1] \in X
        BY <2>1 DEF Turns
      <3>2. step[<<m, f[m - 1]>>] \in X
        BY <3>1
      <3> QED  BY <2>1, <3>2 DEF Turns
    <2>6. g[0] = b
      BY <2>1, <2>2 DEF Turns
    <2> HIDE DEF g
    <2>7. Turns(g, m, b, step, X)
      BY <2>4, <2>5, <2>6 DEF Turns
    <2> QED  BY <2>7
  <1> HIDE DEF S
  <1>3. n \in S
    BY <1>1, <1>2, Induction
  <1> USE DEF S
  <1> QED  BY <1>3

-----------------------------------------------------------------------------
(***************************************************************************)
(* What is parsed of a set of places is what parse_record makes of each.   *)
(***************************************************************************)
Parsed(X) == [records : Seq(X), failures : Seq(X)]

Count(s, c) == Cardinality({l \in DOMAIN s : s[l].payload = c})

\* The results of the places D are all there, and nothing else.
Covers(parsed, result, D) ==
    /\ IsFiniteSet(D)
    /\ \A l \in DOMAIN parsed.records :
          \E p \in D : result[p].ok /\ parsed.records[l] = result[p]
    /\ \A l \in DOMAIN parsed.failures :
          \E p \in D : ~result[p].ok /\ parsed.failures[l] = result[p]
    /\ \A p \in D : result[p].ok => \E l \in DOMAIN parsed.records : parsed.records[l] = result[p]
    /\ \A c : Count(parsed.failures, c) =
                 Cardinality({p \in D : ~result[p].ok /\ result[p].payload = c})

LEMMA SortedTypes ==
  ASSUME NEW X, NEW parsed \in Parsed(X), NEW r \in X
  PROVE  Sorted(parsed, r) \in Parsed(X)
  <1>1. parsed.records \in Seq(X) /\ parsed.failures \in Seq(X)
    BY DEF Parsed
  <1>2. Append(parsed.records, r) \in Seq(X) /\ Append(parsed.failures, r) \in Seq(X)
    BY <1>1
  <1> QED  BY <1>1, <1>2 DEF Parsed, Sorted

LEMMA CountAppend ==
  ASSUME NEW X, NEW s \in Seq(X), NEW r \in X, NEW c
  PROVE  /\ IsFiniteSet({l \in DOMAIN s : s[l].payload = c})
         /\ Count(Append(s, r), c) = Count(s, c) + IF r.payload = c THEN 1 ELSE 0
  <1> DEFINE old == {l \in DOMAIN s : s[l].payload = c}
             n == Len(s) + 1
  <1>1. Len(s) \in Nat /\ DOMAIN s = 1 .. Len(s) /\ DOMAIN Append(s, r) = 1 .. n
        /\ Append(s, r)[n] = r /\ \A l \in 1 .. Len(s) : Append(s, r)[l] = s[l]
    OBVIOUS
  <1>2. IsFiniteSet(old)
    <2>1. IsFiniteSet(1 .. Len(s))
      BY <1>1, FS_Interval
    <2> QED  BY <1>1, <2>1, FS_Subset
  <1>3. {l \in DOMAIN Append(s, r) : Append(s, r)[l].payload = c}
        = IF r.payload = c THEN old \cup {n} ELSE old
    <2>1. DOMAIN Append(s, r) = (DOMAIN s) \cup {n}
      BY <1>1
    <2> QED  BY <1>1, <2>1
  <1>4. n \notin old
    BY <1>1
  <1>5. Cardinality(old \cup {n}) = Cardinality(old) + 1
    BY <1>2, <1>4, FS_AddElement
  <1>6. Cardinality(old) \in Nat
    BY <1>2, FS_CardinalityType
  <1>7. Count(s, c) = Cardinality(old)
    BY DEF Count
  <1>8. Count(Append(s, r), c) = Cardinality(IF r.payload = c THEN old \cup {n} ELSE old)
    BY <1>3 DEF Count
  <1>9. Count(Append(s, r), c) = Cardinality(old) + IF r.payload = c THEN 1 ELSE 0
    <2> HIDE DEF old, n
    <2>1. CASE r.payload = c
      BY <1>5, <1>8, <2>1
    <2>2. CASE r.payload # c
      BY <1>6, <1>8, <2>2
    <2> QED  BY <2>1, <2>2
  <1> QED  BY <1>2, <1>7, <1>9

LEMMA OnePlace ==
  ASSUME NEW X, NEW parsed \in Parsed(X), NEW result, NEW D, NEW p, p \notin D,
         result[p] \in X, result[p].ok \in BOOLEAN, Covers(parsed, result, D)
  PROVE  Covers(Sorted(parsed, result[p]), result, D \cup {p})
  <1> DEFINE r == result[p]
             more == Sorted(parsed, r)
             Bad(E, c) == {q \in E : ~result[q].ok /\ result[q].payload = c}
  <1>1. IsFiniteSet(D \cup {p})
    BY FS_AddElement DEF Covers
  <1>2. CASE r.ok
    <2>1. more.records = Append(parsed.records, r) /\ more.failures = parsed.failures
      BY <1>2 DEF Sorted, Parsed
    <2>2. parsed.records \in Seq(X)
      BY DEF Parsed
    <2>3. /\ DOMAIN more.records = 1 .. Len(parsed.records) + 1
          /\ DOMAIN parsed.records = 1 .. Len(parsed.records)
          /\ Len(parsed.records) \in Nat
          /\ more.records[Len(parsed.records) + 1] = r
          /\ \A l \in DOMAIN parsed.records : more.records[l] = parsed.records[l]
      BY <2>1, <2>2
    <2>4. \A c : Bad(D \cup {p}, c) = Bad(D, c)
      BY <1>2
    <2>5. ASSUME NEW l \in DOMAIN more.records
          PROVE  \E q \in D \cup {p} : result[q].ok /\ more.records[l] = result[q]
      <3>1. CASE l = Len(parsed.records) + 1
        BY <1>2, <2>3, <3>1
      <3>2. CASE l \in DOMAIN parsed.records
        BY <2>3, <3>2 DEF Covers
      <3> QED  BY <2>3, <3>1, <3>2
    <2>6. ASSUME NEW q \in D \cup {p}, result[q].ok
          PROVE  \E l \in DOMAIN more.records : more.records[l] = result[q]
      <3>1. CASE q = p
        <4>1. Len(parsed.records) + 1 \in DOMAIN more.records
          BY <2>3
        <4> QED  BY <2>3, <3>1, <4>1
      <3>2. CASE q \in D
        <4>1. PICK l \in DOMAIN parsed.records : parsed.records[l] = result[q]
          BY <2>6, <3>2 DEF Covers
        <4>2. l \in DOMAIN more.records
          BY <2>3
        <4> QED  BY <2>3, <4>1, <4>2
      <3> QED  BY <3>1, <3>2
    <2>7. \A c : Count(more.failures, c) = Cardinality(Bad(D \cup {p}, c))
      BY <2>1, <2>4 DEF Covers
    <2>8. \A l \in DOMAIN more.failures :
             \E q \in D \cup {p} : ~result[q].ok /\ more.failures[l] = result[q]
      BY <2>1 DEF Covers
    <2> QED  BY <1>1, <2>5, <2>6, <2>7, <2>8 DEF Covers
  <1>3. CASE ~r.ok
    <2>1. more.failures = Append(parsed.failures, r) /\ more.records = parsed.records
      BY <1>3 DEF Sorted, Parsed
    <2>2. parsed.failures \in Seq(X)
      BY DEF Parsed
    <2>3. /\ DOMAIN more.failures = 1 .. Len(parsed.failures) + 1
          /\ DOMAIN parsed.failures = 1 .. Len(parsed.failures)
          /\ Len(parsed.failures) \in Nat
          /\ more.failures[Len(parsed.failures) + 1] = r
          /\ \A l \in DOMAIN parsed.failures : more.failures[l] = parsed.failures[l]
      BY <2>1, <2>2
    <2>4. ASSUME NEW l \in DOMAIN more.failures
          PROVE  \E q \in D \cup {p} : ~result[q].ok /\ more.failures[l] = result[q]
      <3>1. CASE l = Len(parsed.failures) + 1
        BY <1>3, <2>3, <3>1
      <3>2. CASE l \in DOMAIN parsed.failures
        BY <2>3, <3>2 DEF Covers
      <3> QED  BY <2>3, <3>1, <3>2
    <2>5. ASSUME NEW q \in D \cup {p}, result[q].ok
          PROVE  \E l \in DOMAIN more.records : more.records[l] = result[q]
      BY <1>3, <2>1, <2>5 DEF Covers
    <2>6. \A l \in DOMAIN more.records :
             \E q \in D \cup {p} : result[q].ok /\ more.records[l] = result[q]
      BY <2>1 DEF Covers
    <2>7. ASSUME NEW c
          PROVE  Count(more.failures, c) = Cardinality(Bad(D \cup {p}, c))
      <3>1. Count(more.failures, c) = Count(parsed.failures, c) + IF r.payload = c THEN 1 ELSE 0
        <4> HIDE DEF r, more
        <4>1. r \in X
          BY DEF r
        <4>2. Count(Append(parsed.failures, r), c)
              = Count(parsed.failures, c) + IF r.payload = c THEN 1 ELSE 0
          BY <2>2, <4>1, CountAppend
        <4> QED  BY <2>1, <4>2
      <3>2. Count(parsed.failures, c) = Cardinality(Bad(D, c))
        BY DEF Covers
      <3>3. IsFiniteSet(Bad(D, c))
        BY FS_Subset DEF Covers
      <3>4. p \notin Bad(D, c)
        OBVIOUS
      <3>5. Cardinality(Bad(D, c) \cup {p}) = Cardinality(Bad(D, c)) + 1
        BY <3>3, <3>4, FS_AddElement
      <3>6. Bad(D \cup {p}, c) = IF r.payload = c THEN Bad(D, c) \cup {p} ELSE Bad(D, c)
        BY <1>3
      <3>7. Cardinality(Bad(D, c)) \in Nat
        BY <3>3, FS_CardinalityType
      <3> HIDE DEF Bad
      <3> QED  BY <3>1, <3>2, <3>5, <3>6, <3>7
    <2> QED  BY <1>1, <2>4, <2>5, <2>6, <2>7 DEF Covers
  <1> QED  BY <1>2, <1>3

-----------------------------------------------------------------------------
(***************************************************************************)
(* The two loops of parse_records.                                         *)
(***************************************************************************)
ChildStep(spec, parent, parsed, child) ==
    IF IsDict(child) THEN Sorted(parsed, ParseChild(spec, child, parent)) ELSE parsed

\* The states of the loop over the children of one parent.
ChildRun(f, spec, parent, parsed, X) ==
    LET children == Children(spec, parent)
    IN /\ f \in [0 .. Len(children) -> Parsed(X)]
       /\ f[0] = parsed /\ f[Len(children)] = ParseParent(spec, parent, parsed)
       /\ \A k \in 1 .. Len(children) : f[k] = ChildStep(spec, parent, f[k - 1], children[k])

LEMMA ChildLoop ==
  ASSUME NEW spec, NEW parent, NEW X, NEW parsed \in Parsed(X),
         IsList(Children(spec, parent)),
         \A k \in DOMAIN Children(spec, parent) :
            IsDict(Children(spec, parent)[k]) =>
               ParseChild(spec, Children(spec, parent)[k], parent) \in X
  PROVE  \E f : ChildRun(f, spec, parent, parsed, X)
  <1> DEFINE children == Children(spec, parent)
             n == Len(children)
             upTo[k \in 0 .. n] ==
               IF k = 0 THEN parsed
               ELSE IF IsDict(children[k])
                    THEN Sorted(upTo[k - 1], ParseChild(spec, children[k], parent))
                    ELSE upTo[k - 1]
             step == [turn \in (1 .. n) \X Parsed(X) |->
                        ChildStep(spec, parent, turn[2], children[turn[1]])]
  <1>1. n \in Nat /\ DOMAIN children = 1 .. n
    BY DEF IsList
  <1>2. \A k \in 1 .. n, x \in Parsed(X) :
           ChildStep(spec, parent, x, children[k]) \in Parsed(X)
    BY <1>1, SortedTypes DEF ChildStep
  <1>3. \A k \in 1 .. n, x \in Parsed(X) :
           step[<<k, x>>] = ChildStep(spec, parent, x, children[k]) /\ step[<<k, x>>] \in Parsed(X)
    BY <1>2
  <1> HIDE DEF step
  <1>4. PICK f : Turns(f, n, parsed, step, Parsed(X))
    <2>1. \A k \in 1 .. n, x \in Parsed(X) : step[<<k, x>>] \in Parsed(X)
      BY <1>3
    <2> HIDE DEF n, children
    <2> QED  BY <1>1, <2>1, Recursion
  <1>5. f[0] = parsed /\ f \in [0 .. n -> Parsed(X)]
    BY <1>4 DEF Turns
  <1>6. ASSUME NEW k \in 1 .. n
        PROVE  f[k] = ChildStep(spec, parent, f[k - 1], children[k])
    <2>1. k - 1 \in 0 .. n /\ k \in 0 .. n /\ k # 0
      BY <1>1
    <2>2. f[k] = step[<<k, f[k - 1]>>]
      BY <1>4 DEF Turns
    <2>3. f[k - 1] \in Parsed(X)
      BY <1>5, <2>1
    <2> QED  BY <1>3, <2>2, <2>3
  <1>7. f = [k \in 0 .. n |->
               IF k = 0 THEN parsed
               ELSE IF IsDict(children[k])
                    THEN Sorted(f[k - 1], ParseChild(spec, children[k], parent))
                    ELSE f[k - 1]]
    <2>1. \A k \in 0 .. n :
             f[k] = IF k = 0 THEN parsed
                    ELSE IF IsDict(children[k])
                         THEN Sorted(f[k - 1], ParseChild(spec, children[k], parent))
                         ELSE f[k - 1]
      BY <1>1, <1>5, <1>6 DEF ChildStep
    <2> HIDE DEF n, children
    <2> QED  BY <1>5, <2>1
  <1>8. upTo = [k \in 0 .. n |->
               IF k = 0 THEN parsed
               ELSE IF IsDict(children[k])
                    THEN Sorted(upTo[k - 1], ParseChild(spec, children[k], parent))
                    ELSE upTo[k - 1]]
    <2> HIDE DEF n, children
    <2> QED  BY <1>7, Zenon
  <1> HIDE DEF upTo
  <1>9. \A k \in 0 .. n : k \in {m \in 0 .. n : upTo[m] = f[m]}
    <2> DEFINE S == {m \in 0 .. n : upTo[m] = f[m]}
    <2>1. 0 \in S
      <3>1. upTo[0] = parsed
        BY <1>1, <1>8
      <3> QED  BY <1>1, <1>5, <3>1
    <2>2. ASSUME NEW k \in 1 .. n, k - 1 \in S
          PROVE  k \in S
      <3>1. k \in 0 .. n /\ k # 0
        BY <1>1
      <3>2. upTo[k] = ChildStep(spec, parent, upTo[k - 1], children[k])
        <4> HIDE DEF n, children
        <4> QED  BY <1>8, <3>1 DEF ChildStep
      <3>3. upTo[k - 1] = f[k - 1]
        BY <2>2
      <3>4. upTo[k] = f[k]
        BY <1>6, <3>2, <3>3
      <3> QED  BY <3>1, <3>4
    <2> HIDE DEF S
    <2> QED  BY <1>1, <2>1, <2>2, Induction DEF S
  <1>10. f[n] = upTo[n]
    BY <1>1, <1>9
  <1>11. ParseParent(spec, parent, parsed) = upTo[n]
    BY DEF ParseParent, upTo
  <1>12. ChildRun(f, spec, parent, parsed, X)
    BY <1>5, <1>6, <1>10, <1>11 DEF ChildRun
  <1> QED  BY <1>12

ParentStep(spec, parsed, parent) ==
    IF IsDict(parent) THEN ParseParent(spec, parent, parsed) ELSE parsed

Nothing == [records |-> <<>>, failures |-> <<>>]

\* What a loop over the parents and their children needs to know of a payload.
WellFormed(spec, payload) ==
    LET parents == Elements(At(payload, spec.container))
    IN IsList(parents) /\ \A j \in DOMAIN parents : IsList(Children(spec, parents[j]))
Made(spec, payload, X) ==
    LET parents == Elements(At(payload, spec.container))
    IN \A j \in DOMAIN parents : \A k \in DOMAIN Children(spec, parents[j]) :
          ParseChild(spec, Children(spec, parents[j])[k], parents[j]) \in X

\* The states of the loop over the parents.
ParentRun(f, spec, payload, X) ==
    LET parents == Elements(At(payload, spec.container))
    IN /\ f \in [0 .. Len(parents) -> Parsed(X)]
       /\ f[0] = Nothing /\ f[Len(parents)] = ParseRecords(spec, payload)
       /\ \A j \in 1 .. Len(parents) : f[j] = ParentStep(spec, f[j - 1], parents[j])

LEMMA ParentLoop ==
  ASSUME NEW spec, NEW payload, NEW X, WellFormed(spec, payload), Made(spec, payload, X)
  PROVE  \E f : ParentRun(f, spec, payload, X)
  <1> DEFINE parents == Elements(At(payload, spec.container))
             n == Len(parents)
             upTo[j \in 0 .. n] ==
               IF j = 0 THEN [records |-> <<>>, failures |-> <<>>]
               ELSE IF IsDict(parents[j]) THEN ParseParent(spec, parents[j], upTo[j - 1])
                    ELSE upTo[j - 1]
             step == [turn \in (1 .. n) \X Parsed(X) |->
                        ParentStep(spec, turn[2], parents[turn[1]])]
  <1>1. n \in Nat /\ DOMAIN parents = 1 .. n
    BY DEF WellFormed, IsList
  <1>2. ASSUME NEW j \in 1 .. n, NEW x \in Parsed(X)
        PROVE  ParentStep(spec, x, parents[j]) \in Parsed(X)
    <2> DEFINE children == Children(spec, parents[j])
    <2>1. IsList(children) /\ \A k \in DOMAIN children :
             ParseChild(spec, children[k], parents[j]) \in X
      BY <1>1 DEF WellFormed, Made
    <2>2. PICK f : ChildRun(f, spec, parents[j], x, X)
      <3> HIDE DEF parents
      <3> QED  BY <2>1, ChildLoop
    <2>3. Len(children) \in 0 .. Len(children)
      BY <2>1 DEF IsList
    <2>4. ParseParent(spec, parents[j], x) \in Parsed(X)
      <3> HIDE DEF parents
      <3> QED  BY <2>2, <2>3 DEF ChildRun
    <2> QED  BY <2>4 DEF ParentStep
  <1>3. \A j \in 1 .. n, x \in Parsed(X) : step[<<j, x>>] = ParentStep(spec, x, parents[j])
    OBVIOUS
  <1> HIDE DEF step
  <1>4. Nothing \in Parsed(X)
    BY DEF Nothing, Parsed
  <1>5. PICK f : Turns(f, n, Nothing, step, Parsed(X))
    <2>1. \A j \in 1 .. n, x \in Parsed(X) : step[<<j, x>>] \in Parsed(X)
      BY <1>2, <1>3
    <2> HIDE DEF n, parents
    <2> QED  BY <1>1, <1>4, <2>1, Recursion
  <1>6. f[0] = Nothing /\ f \in [0 .. n -> Parsed(X)]
    BY <1>5 DEF Turns
  <1>7. ASSUME NEW j \in 1 .. n
        PROVE  f[j] = ParentStep(spec, f[j - 1], parents[j])
    <2>1. j - 1 \in 0 .. n
      BY <1>1
    <2>2. f[j] = step[<<j, f[j - 1]>>]
      BY <1>5 DEF Turns
    <2>3. f[j - 1] \in Parsed(X)
      BY <1>6, <2>1
    <2> QED  BY <1>3, <2>2, <2>3
  <1>8. f = [j \in 0 .. n |->
               IF j = 0 THEN [records |-> <<>>, failures |-> <<>>]
               ELSE IF IsDict(parents[j]) THEN ParseParent(spec, parents[j], f[j - 1])
                    ELSE f[j - 1]]
    <2>1. \A j \in 0 .. n :
             f[j] = IF j = 0 THEN Nothing
                    ELSE IF IsDict(parents[j]) THEN ParseParent(spec, parents[j], f[j - 1])
                         ELSE f[j - 1]
      BY <1>1, <1>6, <1>7 DEF ParentStep
    <2> HIDE DEF n, parents
    <2> QED  BY <1>6, <2>1 DEF Nothing
  <1>9. upTo = [j \in 0 .. n |->
               IF j = 0 THEN [records |-> <<>>, failures |-> <<>>]
               ELSE IF IsDict(parents[j]) THEN ParseParent(spec, parents[j], upTo[j - 1])
                    ELSE upTo[j - 1]]
    <2> HIDE DEF n, parents
    <2> QED  BY <1>8, Zenon
  <1> HIDE DEF upTo
  <1>10. \A j \in 0 .. n : j \in {m \in 0 .. n : upTo[m] = f[m]}
    <2> DEFINE S == {m \in 0 .. n : upTo[m] = f[m]}
    <2>1. 0 \in S
      <3>1. upTo[0] = Nothing
        BY <1>1, <1>9 DEF Nothing
      <3> QED  BY <1>1, <1>6, <3>1
    <2>2. ASSUME NEW j \in 1 .. n, j - 1 \in S
          PROVE  j \in S
      <3>1. j \in 0 .. n /\ j # 0
        BY <1>1
      <3>2. upTo[j] = ParentStep(spec, upTo[j - 1], parents[j])
        <4> HIDE DEF n, parents
        <4> QED  BY <1>9, <3>1 DEF ParentStep
      <3>3. upTo[j - 1] = f[j - 1]
        BY <2>2
      <3>4. upTo[j] = f[j]
        BY <1>7, <3>2, <3>3
      <3> QED  BY <3>1, <3>4
    <2> HIDE DEF S
    <2> QED  BY <1>1, <2>1, <2>2, Induction DEF S
  <1>11. f[n] = upTo[n]
    BY <1>1, <1>10
  <1>12. ParseRecords(spec, payload) = upTo[n]
    BY DEF ParseRecords, upTo
  <1>13. ParentRun(f, spec, payload, X)
    BY <1>6, <1>7, <1>11, <1>12 DEF ParentRun
  <1> QED  BY <1>13

-----------------------------------------------------------------------------
(***************************************************************************)
(* parse_records makes of every place its result, and nothing else.        *)
(***************************************************************************)
Inside(spec, parent, j) ==
    {<<j, k>> : k \in {k \in DOMAIN Children(spec, parent) : IsDict(Children(spec, parent)[k])}}
Spots(spec, payload) ==
    LET parents == Elements(At(payload, spec.container))
    IN UNION {Inside(spec, parents[j], j) : j \in {j \in DOMAIN parents : IsDict(parents[j])}}
Results(spec, payload) ==
    LET parents == Elements(At(payload, spec.container))
    IN [spot \in Spots(spec, payload) |->
           ParseChild(spec, Children(spec, parents[spot[1]])[spot[2]], parents[spot[1]])]

LEMMA ChildrenCovered ==
  ASSUME NEW spec, NEW parent, NEW j, NEW X, NEW parsed \in Parsed(X), NEW result, NEW D,
         IsList(Children(spec, parent)), Covers(parsed, result, D),
         \A k \in DOMAIN Children(spec, parent) : <<j, k>> \notin D,
         \A k \in DOMAIN Children(spec, parent) : IsDict(Children(spec, parent)[k]) =>
            /\ ParseChild(spec, Children(spec, parent)[k], parent) \in X
            /\ result[<<j, k>>] = ParseChild(spec, Children(spec, parent)[k], parent)
  PROVE  /\ ParseParent(spec, parent, parsed) \in Parsed(X)
         /\ Covers(ParseParent(spec, parent, parsed), result, D \cup Inside(spec, parent, j))
  <1> DEFINE children == Children(spec, parent)
             n == Len(children)
             In(m) == {<<j, k>> : k \in {k \in 1 .. m : IsDict(children[k])}}
  <1>1. n \in Nat /\ DOMAIN children = 1 .. n
    BY DEF IsList
  <1>2. PICK f : /\ f \in [0 .. n -> Parsed(X)]
                 /\ f[0] = parsed /\ f[n] = ParseParent(spec, parent, parsed)
                 /\ \A k \in 1 .. n : f[k] = ChildStep(spec, parent, f[k - 1], children[k])
    <2>1. PICK f : ChildRun(f, spec, parent, parsed, X)
      BY ChildLoop
    <2> QED  BY <2>1 DEF ChildRun
  <1>3. \A k \in DOMAIN children : ParseChild(spec, children[k], parent).ok \in BOOLEAN
    BY DEF ParseChild
  <1>4. \A m \in 0 .. n : m \in {l \in 0 .. n : Covers(f[l], result, D \cup In(l))}
    <2> DEFINE T == {l \in 0 .. n : Covers(f[l], result, D \cup In(l))}
    <2>1. 0 \in T
      <3>1. In(0) = {}
        OBVIOUS
      <3>2. D \cup In(0) = D
        BY <3>1
      <3>3. f[0] = parsed /\ 0 \in 0 .. n
        BY <1>1, <1>2
      <3> HIDE DEF In, n
      <3>4. Covers(f[0], result, D \cup In(0))
        BY <3>2, <3>3
      <3> QED  BY <3>3, <3>4
    <2>2. ASSUME NEW k \in 1 .. n, k - 1 \in T
          PROVE  k \in T
      <3> DEFINE p == <<j, k>>
      <3>1. k - 1 \in 0 .. n /\ k \in 0 .. n /\ k \in DOMAIN children
            /\ f[k - 1] \in Parsed(X) /\ Covers(f[k - 1], result, D \cup In(k - 1))
        BY <1>1, <1>2, <2>2
      <3>2. CASE IsDict(children[k])
        <4>1. In(k) = In(k - 1) \cup {p}
          <5>1. \A l : l \in 1 .. k <=> (l \in 1 .. k - 1 \/ l = k)
            BY <1>1
          <5> QED  BY <3>2, <5>1
        <4>2. p \notin D \cup In(k - 1)
          BY <1>1, <3>1
        <4>3. result[p] = ParseChild(spec, children[k], parent) /\ result[p] \in X
              /\ result[p].ok \in BOOLEAN
          BY <1>3, <3>1, <3>2
        <4>4. f[k] = Sorted(f[k - 1], result[p])
          BY <1>2, <3>2, <4>3 DEF ChildStep
        <4>5. D \cup In(k) = (D \cup In(k - 1)) \cup {p}
          BY <4>1
        <4> HIDE DEF In, p, children
        <4>6. Covers(f[k], result, (D \cup In(k - 1)) \cup {p})
          <5>1. Covers(Sorted(f[k - 1], result[p]), result, (D \cup In(k - 1)) \cup {p})
            BY <3>1, <4>2, <4>3, OnePlace
          <5> QED  BY <4>4, <5>1
        <4> QED  BY <3>1, <4>5, <4>6
      <3>3. CASE ~IsDict(children[k])
        <4>1. In(k) = In(k - 1)
          <5>1. \A l : l \in 1 .. k <=> (l \in 1 .. k - 1 \/ l = k)
            BY <1>1
          <5> QED  BY <3>3, <5>1
        <4>2. f[k] = f[k - 1]
          BY <1>2, <3>3 DEF ChildStep
        <4> HIDE DEF In
        <4> QED  BY <3>1, <4>1, <4>2
      <3> QED  BY <3>2, <3>3
    <2> HIDE DEF T
    <2> QED  BY <1>1, <2>1, <2>2, Induction DEF T
  <1>5. n \in 0 .. n
    BY <1>1
  <1>6. In(n) = Inside(spec, parent, j)
    BY <1>1 DEF Inside
  <1>7. Covers(f[n], result, D \cup In(n)) /\ f[n] \in Parsed(X)
    <2> HIDE DEF In, n
    <2> QED  BY <1>2, <1>4, <1>5
  <1> HIDE DEF In
  <1> QED  BY <1>2, <1>6, <1>7

LEMMA EverythingParsed ==
  ASSUME NEW spec, NEW payload, NEW X, WellFormed(spec, payload), Made(spec, payload, X)
  PROVE  /\ ParseRecords(spec, payload) \in Parsed(X)
         /\ Covers(ParseRecords(spec, payload), Results(spec, payload), Spots(spec, payload))
  <1> DEFINE parents == Elements(At(payload, spec.container))
             n == Len(parents)
             result == Results(spec, payload)
             In(m) == UNION {Inside(spec, parents[j], j) : j \in {j \in 1 .. m : IsDict(parents[j])}}
  <1>1. n \in Nat /\ DOMAIN parents = 1 .. n
    BY DEF WellFormed, IsList
  <1>2. PICK f : /\ f \in [0 .. n -> Parsed(X)]
                 /\ f[0] = Nothing /\ f[n] = ParseRecords(spec, payload)
                 /\ \A j \in 1 .. n : f[j] = ParentStep(spec, f[j - 1], parents[j])
    <2>1. PICK f : ParentRun(f, spec, payload, X)
      BY ParentLoop
    <2> QED  BY <2>1 DEF ParentRun
  <1>3. \A m \in 0 .. n : m \in {l \in 0 .. n : Covers(f[l], result, In(l))}
    <2> DEFINE T == {l \in 0 .. n : Covers(f[l], result, In(l))}
    <2>1. 0 \in T
      <3>1. In(0) = {}
        OBVIOUS
      <3>2. Covers(Nothing, result, {})
        <4>1. IsFiniteSet({}) /\ Cardinality({}) = 0
          BY FS_EmptySet
        <4>2. \A c : {l \in DOMAIN <<>> : <<>>[l].payload = c} = {}
          OBVIOUS
        <4>3. \A c : {p \in {} : ~result[p].ok /\ result[p].payload = c} = {}
          OBVIOUS
        <4> HIDE DEF result
        <4>4. \A c : Count(<<>>, c) = Cardinality({p \in {} : ~result[p].ok /\ result[p].payload = c})
          BY <4>2, <4>3 DEF Count
        <4> QED  BY <4>1, <4>4 DEF Nothing, Covers
      <3>3. f[0] = Nothing /\ 0 \in 0 .. n
        BY <1>1, <1>2
      <3> HIDE DEF In, result, n
      <3>4. Covers(f[0], result, In(0))
        BY <3>1, <3>2, <3>3
      <3> QED  BY <3>3, <3>4
    <2>2. ASSUME NEW j \in 1 .. n, j - 1 \in T
          PROVE  j \in T
      <3> DEFINE children == Children(spec, parents[j])
      <3>1. j - 1 \in 0 .. n /\ j \in 0 .. n /\ j \in DOMAIN parents
            /\ f[j - 1] \in Parsed(X) /\ Covers(f[j - 1], result, In(j - 1))
        BY <1>1, <1>2, <2>2
      <3>2. IsList(children)
        BY <3>1 DEF WellFormed
      <3>3. \A l : l \in 1 .. j <=> (l \in 1 .. j - 1 \/ l = j)
        BY <1>1
      <3>4. CASE IsDict(parents[j])
        <4>1. In(j) = In(j - 1) \cup Inside(spec, parents[j], j)
          BY <3>3, <3>4
        <4>2. \A k \in DOMAIN children : <<j, k>> \notin In(j - 1)
          BY <1>1 DEF Inside
        <4>3. ASSUME NEW k \in DOMAIN children, IsDict(children[k])
              PROVE  /\ ParseChild(spec, children[k], parents[j]) \in X
                     /\ result[<<j, k>>] = ParseChild(spec, children[k], parents[j])
          <5>1. <<j, k>> \in Spots(spec, payload)
            <6>1. <<j, k>> \in Inside(spec, parents[j], j)
              BY <4>3 DEF Inside
            <6> QED  BY <3>1, <3>4, <6>1 DEF Spots
          <5> QED  BY <3>1, <5>1 DEF Made, Results
        <4>4. f[j] = ParseParent(spec, parents[j], f[j - 1])
          BY <1>2, <3>4 DEF ParentStep
        <4> HIDE DEF In, result, parents
        <4>5. Covers(ParseParent(spec, parents[j], f[j - 1]), result,
                     In(j - 1) \cup Inside(spec, parents[j], j))
          <5>1. /\ IsList(Children(spec, parents[j]))
                /\ \A k \in DOMAIN Children(spec, parents[j]) : <<j, k>> \notin In(j - 1)
                /\ \A k \in DOMAIN Children(spec, parents[j]) :
                      IsDict(Children(spec, parents[j])[k]) =>
                         /\ ParseChild(spec, Children(spec, parents[j])[k], parents[j]) \in X
                         /\ result[<<j, k>>]
                            = ParseChild(spec, Children(spec, parents[j])[k], parents[j])
            BY <3>2, <4>2, <4>3
          <5> HIDE DEF children
          <5> QED  BY <3>1, <5>1, ChildrenCovered
        <4>6. Covers(f[j], result, In(j - 1) \cup Inside(spec, parents[j], j))
          BY <4>4, <4>5
        <4> QED  BY <3>1, <4>1, <4>6
      <3>5. CASE ~IsDict(parents[j])
        <4>1. In(j) = In(j - 1)
          BY <3>3, <3>5
        <4>2. f[j] = f[j - 1]
          BY <1>2, <3>5 DEF ParentStep
        <4> HIDE DEF In, result
        <4> QED  BY <3>1, <4>1, <4>2
      <3> QED  BY <3>4, <3>5
    <2> HIDE DEF T
    <2> QED  BY <1>1, <2>1, <2>2, Induction DEF T
  <1>4. n \in 0 .. n
    BY <1>1
  <1>5. In(n) = Spots(spec, payload)
    BY <1>1 DEF Spots
  <1>6. Covers(f[n], result, In(n)) /\ f[n] \in Parsed(X)
    <2> HIDE DEF In, n, result
    <2> QED  BY <1>2, <1>3, <1>4
  <1> HIDE DEF In
  <1> QED  BY <1>2, <1>5, <1>6

\* All that parse_record may return for a child of the payload.
ResultsOf(spec, payload) ==
    LET parents == Elements(At(payload, spec.container))
    IN UNION {{ParseChild(spec, Children(spec, parents[j])[k], parents[j]) :
                  k \in DOMAIN Children(spec, parents[j])} : j \in DOMAIN parents}

LEMMA Makes ==
  ASSUME NEW spec, NEW payload
  PROVE  Made(spec, payload, ResultsOf(spec, payload))
  BY DEF Made, ResultsOf

-----------------------------------------------------------------------------
(***************************************************************************)
(* The dead letters: what they say of the objects up to a, when frags are  *)
(* the fragments of each object and bad the places that lack a key.        *)
(***************************************************************************)
Pairs(frags, a) == UNION {{<<i, frags[i][p]>> : p \in DOMAIN frags[i]} : i \in 1 .. a}
Lettered(frags, bad, seq, a) ==
    /\ seq \in Seq(Pairs(frags, a))
    /\ \A i \in 1 .. a : \A c : Cardinality({l \in DOMAIN seq : seq[l] = <<i, c>>})
                                 = Cardinality({p \in bad[i] : frags[i][p] = c})

\* The letters of one more object follow those of the objects before it.
Follow(frags, bad, seq, a, f) ==
    LET more == seq \o [m \in DOMAIN f |-> <<a + 1, f[m]>>]
    IN /\ Lettered(frags, bad, more, a + 1)
       /\ Len(more) = Len(seq) + Len(f) /\ Len(seq) \in Nat

LEMMA MoreLetters ==
  ASSUME NEW frags, NEW bad, NEW seq, NEW a \in Nat, NEW f, NEW V, f \in Seq(V),
         Lettered(frags, bad, seq, a),
         \A m \in DOMAIN f : \E p \in DOMAIN frags[a + 1] : f[m] = frags[a + 1][p],
         \A c : Cardinality({m \in DOMAIN f : f[m] = c})
                = Cardinality({p \in bad[a + 1] : frags[a + 1][p] = c})
  PROVE  Follow(frags, bad, seq, a, f)
  <1> DEFINE new == [m \in DOMAIN f |-> <<a + 1, f[m]>>]
             more == seq \o new
             S == Pairs(frags, a + 1)
             n == Len(seq)
             k == Len(f)
  <1>1. k \in Nat /\ DOMAIN f = 1 .. k
    OBVIOUS
  <1>2. new \in Seq(S) /\ Len(new) = k
    <2>1. \A m \in 1 .. k : <<a + 1, f[m]>> \in S
      <3> SUFFICES ASSUME NEW m \in 1 .. k PROVE <<a + 1, f[m]>> \in S
        OBVIOUS
      <3>1. PICK p \in DOMAIN frags[a + 1] : f[m] = frags[a + 1][p]
        BY <1>1
      <3>2. a + 1 \in 1 .. a + 1
        OBVIOUS
      <3> QED  BY <3>1, <3>2 DEF Pairs
    <2>2. new \in [1 .. k -> S]
      BY <1>1, <2>1
    <2> HIDE DEF new, S, k
    <2>3. new \in Seq(S)
      BY <1>1, <2>2, SeqDef
    <2> QED  BY <1>1, <2>2, <2>3
  <1>3. seq \in Seq(S)
    <2>1. Pairs(frags, a) \subseteq S
      BY DEF Pairs
    <2> HIDE DEF S
    <2>2. seq \in [1 .. n -> Pairs(frags, a)] /\ n \in Nat
      BY DEF Lettered
    <2>3. seq \in [1 .. n -> S]
      BY <2>1, <2>2
    <2> QED  BY <2>2, <2>3, SeqDef
  <1>4. /\ more \in Seq(S) /\ Len(more) = n + k /\ n \in Nat /\ DOMAIN more = 1 .. n + k
        /\ \A l \in 1 .. n + k : more[l] = IF l <= n THEN seq[l] ELSE new[l - n]
    <2> HIDE DEF new, S, k, n
    <2>1. n \in Nat
      BY <1>3 DEF n
    <2>2. /\ more \in Seq(S) /\ Len(more) = Len(seq) + Len(new)
          /\ \A l \in 1 .. Len(seq) + Len(new) :
                more[l] = IF l <= Len(seq) THEN seq[l] ELSE new[l - Len(seq)]
      BY <1>2, <1>3, ConcatProperties
    <2> HIDE DEF more
    <2>3. DOMAIN more = 1 .. Len(more)
      BY <2>2
    <2> QED  BY <1>2, <2>1, <2>2, <2>3 DEF n
  <1>5. DOMAIN seq = 1 .. n
    BY <1>3
  <1>6. \A l \in 1 .. n : \E i \in 1 .. a : seq[l][1] = i
    BY <1>5 DEF Lettered, Pairs
  <1>7. \A m \in 1 .. k : new[m] = <<a + 1, f[m]>>
    BY <1>1
  <1> HIDE DEF new, more, S, n, k
  <1>8. ASSUME NEW i \in 1 .. a + 1, NEW c
        PROVE  Cardinality({l \in DOMAIN more : more[l] = <<i, c>>})
               = Cardinality({p \in bad[i] : frags[i][p] = c})
    <2>1. CASE i # a + 1
      <3>1. i \in 1 .. a
        BY <2>1
      <3>2. {l \in DOMAIN more : more[l] = <<i, c>>} = {l \in DOMAIN seq : seq[l] = <<i, c>>}
        <4>1. ASSUME NEW l \in 1 .. n + k, ~(l <= n) PROVE more[l] # <<i, c>>
          <5>1. l - n \in 1 .. k
            BY <1>1, <1>4, <4>1
          <5>2. more[l] = <<a + 1, f[l - n]>>
            BY <1>4, <1>7, <4>1, <5>1
          <5> QED  BY <2>1, <5>2
        <4>2. \A l \in 1 .. n : l \in 1 .. n + k /\ l <= n
          BY <1>1, <1>4
        <4>3. \A l \in 1 .. n + k : l <= n => l \in 1 .. n
          BY <1>1, <1>4
        <4>4. ASSUME NEW l
              PROVE  l \in DOMAIN more /\ more[l] = <<i, c>>
                     <=> l \in DOMAIN seq /\ seq[l] = <<i, c>>
          <5>1. l \in DOMAIN seq => l \in DOMAIN more /\ more[l] = seq[l]
            BY <1>4, <1>5, <4>2
          <5>2. l \in DOMAIN more /\ more[l] = <<i, c>> => l \in DOMAIN seq
            BY <1>4, <1>5, <4>1, <4>3
          <5> QED  BY <5>1, <5>2
        <4> QED  BY <4>4
      <3>3. Cardinality({l \in DOMAIN seq : seq[l] = <<i, c>>})
            = Cardinality({p \in bad[i] : frags[i][p] = c})
        BY <3>1 DEF Lettered
      <3> QED  BY <3>2, <3>3
    <2>2. CASE i = a + 1
      <3> DEFINE A == {m \in 1 .. k : f[m] = c}
                 B == {l \in 1 .. n + k : more[l] = <<a + 1, c>>}
                 shift == [m \in A |-> m + n]
      <3>1. ASSUME NEW l \in B
            PROVE  l - n \in A /\ l = (l - n) + n
        <4>1. ~(l <= n)
          <5> SUFFICES ASSUME l <= n PROVE FALSE
            OBVIOUS
          <5>1. l \in 1 .. n
            BY <1>1, <1>4
          <5>2. seq[l] = <<a + 1, c>>
            BY <1>4
          <5>3. PICK j \in 1 .. a : seq[l][1] = j
            BY <1>6, <5>1
          <5> QED  BY <5>2, <5>3
        <4>2. l - n \in 1 .. k /\ l = (l - n) + n
          BY <1>1, <1>4, <4>1
        <4>3. more[l] = <<a + 1, f[l - n]>>
          BY <1>4, <1>7, <4>1, <4>2
        <4> QED  BY <4>2, <4>3
      <3>2. ASSUME NEW m \in A
            PROVE  m + n \in B
        <4>1. m + n \in 1 .. n + k /\ ~(m + n <= n) /\ (m + n) - n = m
          BY <1>1, <1>4
        <4>2. more[m + n] = <<a + 1, f[m]>>
          BY <1>4, <1>7, <4>1
        <4> QED  BY <4>1, <4>2
      <3>3. shift \in Bijection(A, B)
        <4>1. shift \in [A -> B]
          BY <3>2
        <4>2. \A m, o \in A : shift[m] = shift[o] => m = o
          BY <1>1, <1>4
        <4>3. \A l \in B : \E m \in A : shift[m] = l
          BY <3>1
        <4> HIDE DEF A, B, shift
        <4> QED  BY <4>1, <4>2, <4>3 DEF Bijection, Injection, Surjection, IsInjective
      <3>4. IsFiniteSet(A)
        <4>1. IsFiniteSet(1 .. k)
          BY <1>1, FS_Interval
        <4> QED  BY <4>1, FS_Subset
      <3>5. Cardinality(B) = Cardinality(A)
        <4> HIDE DEF A, B, shift
        <4> QED  BY <3>3, <3>4, FS_Bijection DEF ExistsBijection
      <3>6. {l \in DOMAIN more : more[l] = <<i, c>>} = B
        BY <1>4, <2>2
      <3>7. Cardinality(A) = Cardinality({p \in bad[a + 1] : frags[a + 1][p] = c})
        BY <1>1
      <3> HIDE DEF A, B
      <3> QED  BY <2>2, <3>5, <3>6, <3>7
    <2> QED  BY <2>1, <2>2
  <1>9. Lettered(frags, bad, more, a + 1)
    BY <1>4, <1>8 DEF Lettered, S
  <1> QED  BY <1>4, <1>9 DEF Follow, more, new, n, k

-----------------------------------------------------------------------------
(***************************************************************************)
(* The table.                                                              *)
(***************************************************************************)
\* The records of the objects of the partition, as every load parses them.
Recs == [i \in DOMAIN lake |->
            IF lake[i] = Garbage THEN <<>> ELSE ParseRecords(Entity, lake[i]).records]
Row(record) == [keys |-> record.keys, payload |-> record.payload]

\* Record j of object i is done by a load that is at record n of object a.
Done(recs, i, j, a, n) ==
    i \in DOMAIN recs /\ j \in DOMAIN recs[i] /\ (i < a \/ (i = a /\ j < n))
Earlier(i, j, k, l) == i < k \/ (i = k /\ j < l)

\* It made this row, and what was done later with the same keys says the same.
Wins(recs, row, i, j, a, n) ==
    /\ Done(recs, i, j, a, n) /\ Row(recs[i][j]) = row
    /\ \A k, l : Done(recs, k, l, a, n) /\ Earlier(i, j, k, l) /\ recs[k][l].keys = row.keys
                 => recs[k][l].payload = row.payload

\* The table t of such a load, that began with the rows old.
Loaded(recs, t, old, a, n) ==
    /\ \A row \in t : row = [keys |-> row.keys, payload |-> row.payload]
    /\ \A r, s \in t : r.keys = s.keys => r = s
    /\ \A i, j : Done(recs, i, j, a, n) => \E row \in t : row.keys = recs[i][j].keys
    /\ \A row \in t : \/ \E i, j : Wins(recs, row, i, j, a, n)
                      \/ /\ row \in old
                         /\ \A i, j : Done(recs, i, j, a, n) => recs[i][j].keys # row.keys

TypeInv ==
    /\ Len(lake) \in Nat /\ DOMAIN lake = 1 .. Len(lake)
    /\ \A i \in DOMAIN lake : lake[i] # Garbage => WellFormed(Entity, lake[i])
    /\ \A i \in DOMAIN lake : Len(Recs[i]) \in Nat /\ DOMAIN Recs[i] = 1 .. Len(Recs[i])
    /\ at \in 0 .. Len(lake) /\ next \in Nat \ {0}
    /\ outcome = [parsed |-> outcome.parsed, inserted |-> outcome.inserted,
                  updated |-> outcome.updated, failed |-> outcome.failed]
PlaceInv ==
    exit = "loading" => records = IF at = 0 THEN <<>> ELSE Recs[at]
TableInv ==
    /\ exit = "loading" => Loaded(Recs, table, committed.table, at, next)
    /\ ~first.done => committed.table = {}

\* The second load: the last writer of a row wins again.
End == Len(lake) + 1
AgainInv ==
    /\ exit \in {"ok", "reloaded"} => first.done
    /\ first.done =>
          /\ committed.table = first.table
          /\ Loaded(Recs, first.table, {}, End, 1)
          /\ exit = "ok" => table = first.table
          /\ exit = "loading" =>
                /\ outcome.inserted = 0
                /\ \A row \in first.table : \E same \in table : same.keys = row.keys
                /\ Disagree \/ (outcome.updated = 0 /\ table = first.table)
    /\ RerunConverges
IInv == TypeInv /\ PlaceInv /\ TableInv /\ AgainInv

-----------------------------------------------------------------------------
(***************************************************************************)
(* One record, and one object after the other.                             *)
(***************************************************************************)
LEMMA OneMore ==
  ASSUME NEW recs, NEW t, NEW old, NEW a \in Nat, NEW n \in Nat,
         a \in DOMAIN recs, DOMAIN recs \subseteq Nat,
         \A i \in DOMAIN recs : DOMAIN recs[i] \subseteq Nat,
         n \in DOMAIN recs[a], Loaded(recs, t, old, a, n)
  PROVE  LET new == Row(recs[a][n])
         IN Loaded(recs, {row \in t : row.keys # new.keys} \cup {new}, old, a, n + 1)
  <1> DEFINE record == recs[a][n]
             new == Row(record)
             more == {row \in t : row.keys # new.keys} \cup {new}
  <1>1. new.keys = record.keys /\ new.payload = record.payload
        /\ new = [keys |-> new.keys, payload |-> new.payload]
    BY DEF Row
  <1>2. \A i, j : Done(recs, i, j, a, n + 1) <=> Done(recs, i, j, a, n) \/ (i = a /\ j = n)
    BY DEF Done
  <1>3. \A row \in more : row = [keys |-> row.keys, payload |-> row.payload]
    BY <1>1 DEF Loaded
  <1>4. \A r, s \in more : r.keys = s.keys => r = s
    BY DEF Loaded
  <1>5. ASSUME NEW i, NEW j, Done(recs, i, j, a, n + 1)
        PROVE  \E row \in more : row.keys = recs[i][j].keys
    <2>1. CASE recs[i][j].keys = new.keys
      BY <2>1
    <2>2. CASE recs[i][j].keys # new.keys
      <3>1. Done(recs, i, j, a, n)
        BY <1>1, <1>2, <1>5, <2>2
      <3> QED  BY <2>2, <3>1 DEF Loaded
    <2> QED  BY <2>1, <2>2
  <1>6. Wins(recs, new, a, n, a, n + 1)
    <2>1. Done(recs, a, n, a, n + 1)
      BY <1>2
    <2>2. ASSUME NEW k, NEW l, Done(recs, k, l, a, n + 1), Earlier(a, n, k, l)
          PROVE  FALSE
      BY <2>2 DEF Done, Earlier
    <2> QED  BY <2>1, <2>2 DEF Wins
  <1> HIDE DEF new
  <1>7. ASSUME NEW row \in t, row.keys # new.keys
        PROVE  \/ \E i, j : Wins(recs, row, i, j, a, n + 1)
               \/ /\ row \in old
                  /\ \A i, j : Done(recs, i, j, a, n + 1) => recs[i][j].keys # row.keys
    <2>1. CASE \E i, j : Wins(recs, row, i, j, a, n)
      <3>1. PICK i, j : Wins(recs, row, i, j, a, n)
        BY <2>1
      <3>2. Wins(recs, row, i, j, a, n + 1)
        BY <1>1, <1>2, <1>7, <3>1 DEF Wins
      <3> QED  BY <3>2
    <2>2. CASE /\ row \in old
               /\ \A i, j : Done(recs, i, j, a, n) => recs[i][j].keys # row.keys
      BY <1>1, <1>2, <1>7, <2>2
    <2> QED  BY <2>1, <2>2 DEF Loaded
  <1>8. Loaded(recs, more, old, a, n + 1)
    BY <1>3, <1>4, <1>5, <1>6, <1>7 DEF Loaded
  <1> QED  BY <1>8 DEF new

\* Where the load is matters only for what is done.
LEMMA SameDone ==
  ASSUME NEW recs, NEW t, NEW old, NEW a, NEW n, NEW b, NEW m,
         \A i, j : Done(recs, i, j, a, n) <=> Done(recs, i, j, b, m),
         Loaded(recs, t, old, a, n)
  PROVE  Loaded(recs, t, old, b, m)
  <1>1. \A row, i, j : Wins(recs, row, i, j, a, n) <=> Wins(recs, row, i, j, b, m)
    BY DEF Wins
  <1> QED  BY <1>1 DEF Loaded

\* Two rows that win have different keys.
LEMMA OneWinner ==
  ASSUME NEW recs, NEW r, NEW s, NEW a, NEW n, NEW i, NEW j, NEW k, NEW l,
         DOMAIN recs \subseteq Nat, \A o \in DOMAIN recs : DOMAIN recs[o] \subseteq Nat,
         Wins(recs, r, i, j, a, n), Wins(recs, s, k, l, a, n), r.keys = s.keys
  PROVE  r = s
  <1>1. /\ i \in Nat /\ j \in Nat /\ k \in Nat /\ l \in Nat
        /\ Row(recs[i][j]) = r /\ Row(recs[k][l]) = s
        /\ Done(recs, i, j, a, n) /\ Done(recs, k, l, a, n)
    BY DEF Wins, Done
  <1>2. /\ recs[i][j].keys = r.keys /\ recs[i][j].payload = r.payload
        /\ recs[k][l].keys = s.keys /\ recs[k][l].payload = s.payload
    BY <1>1 DEF Row
  <1>3. r.payload = s.payload
    <2>1. CASE Earlier(i, j, k, l)
      BY <1>1, <1>2, <2>1 DEF Wins
    <2>2. CASE Earlier(k, l, i, j)
      BY <1>1, <1>2, <2>2 DEF Wins
    <2>3. CASE i = k /\ j = l
      BY <1>1, <2>3
    <2> QED  BY <1>1, <2>1, <2>2, <2>3 DEF Earlier
  <1> QED  BY <1>1, <1>2, <1>3 DEF Row

\* A load that began with what the whole partition makes ends with the same.
LEMMA Converges ==
  ASSUME NEW recs, NEW t, NEW u, NEW a, NEW n,
         DOMAIN recs \subseteq Nat, \A o \in DOMAIN recs : DOMAIN recs[o] \subseteq Nat,
         Loaded(recs, t, {}, a, n), Loaded(recs, u, t, a, n)
  PROVE  u = t
  <1>1. ASSUME NEW row \in t
        PROVE  \E i, j : Wins(recs, row, i, j, a, n)
    BY <1>1 DEF Loaded
  <1>2. ASSUME NEW row \in u
        PROVE  \E i, j : Wins(recs, row, i, j, a, n)
    <2>1. CASE /\ row \in t
               /\ \A i, j : Done(recs, i, j, a, n) => recs[i][j].keys # row.keys
      <3>1. PICK i, j : Wins(recs, row, i, j, a, n)
        BY <1>1, <2>1
      <3> QED  BY <3>1
    <2> QED  BY <1>2, <2>1 DEF Loaded
  <1>3. ASSUME NEW row \in t, NEW same \in u, same.keys = row.keys
        PROVE  same = row
    <2>1. PICK i, j : Wins(recs, row, i, j, a, n)
      BY <1>1
    <2>2. PICK k, l : Wins(recs, same, k, l, a, n)
      BY <1>2
    <2> QED  BY <1>3, <2>1, <2>2, OneWinner
  <1>4. ASSUME NEW row, \E i, j : Wins(recs, row, i, j, a, n)
        PROVE  \E i, j : Done(recs, i, j, a, n) /\ recs[i][j].keys = row.keys
    BY <1>4 DEF Wins, Row
  <1>5. ASSUME NEW row \in t PROVE row \in u
    <2>1. \E same \in u : same.keys = row.keys
      BY <1>1, <1>4 DEF Loaded
    <2> QED  BY <1>3, <2>1
  <1>6. ASSUME NEW row \in u PROVE row \in t
    <2>1. \E other \in t : other.keys = row.keys
      BY <1>2, <1>4 DEF Loaded
    <2> QED  BY <1>3, <2>1
  <1> QED  BY <1>5, <1>6

-----------------------------------------------------------------------------
(***************************************************************************)
(* The steps.                                                              *)
(***************************************************************************)
LEMMA RecsFacts ==
  ASSUME TypeInv
  PROVE  /\ DOMAIN Recs = DOMAIN lake /\ DOMAIN Recs \subseteq Nat
         /\ \A i \in DOMAIN Recs : DOMAIN Recs[i] \subseteq Nat
  <1>1. DOMAIN Recs = DOMAIN lake
    BY DEF Recs
  <1> QED  BY <1>1 DEF TypeInv

\* A partition does not change, nor what is parsed from it.
LEMMA SameLake ==
  ASSUME UNCHANGED <<name, lake>>
  PROVE  Entity' = Entity /\ Recs' = Recs /\ End' = End /\ (Disagree' <=> Disagree)
  BY DEF Recs, Entity, End, Disagree, AllRecords

LEMMA TypeInit == Init => TypeInv
  <1> SUFFICES ASSUME Init PROVE TypeInv
    OBVIOUS
  <1>1. PICK m \in 0 .. MaxObjects : lake \in [1 .. m -> Objects(name)]
    BY DEF Init, SeqOf
  <1>2. m \in Nat /\ DOMAIN lake = 1 .. m
    BY <1>1, LoadingAssumption
  <1>3. Len(lake) = m
    BY <1>1, <1>2
  <1>4. \A i \in DOMAIN lake : lake[i] # Garbage => WellFormed(Entity, lake[i])
    <2> SUFFICES ASSUME NEW i \in DOMAIN lake, lake[i] # Garbage
                 PROVE  WellFormed(Entity, lake[i])
      OBVIOUS
    <2>1. lake[i] \in Objects(name) \ {Garbage} /\ name \in Names
      BY <1>1 DEF Init
    <2> QED  BY <2>1, LoadingAssumption DEF WellFormed, Entity
  <1>5. ASSUME NEW i \in DOMAIN lake
        PROVE  Len(Recs[i]) \in Nat /\ DOMAIN Recs[i] = 1 .. Len(Recs[i])
    <2>1. lake[i] \in Objects(name) /\ name \in Names
      BY <1>1, <1>5 DEF Init
    <2>2. CASE lake[i] = Garbage
      <3>1. Recs[i] = <<>>
        BY <1>5, <2>2 DEF Recs
      <3> QED  BY <3>1
    <2>3. CASE lake[i] # Garbage
      <3>2. ParseRecords(Entity, lake[i]) \in Parsed(ResultsOf(Entity, lake[i]))
        BY <1>4, <1>5, <2>3, Makes, EverythingParsed
      <3>3. Recs[i] \in Seq(ResultsOf(Entity, lake[i]))
        BY <1>5, <2>3, <3>2 DEF Recs, Parsed
      <3> QED  BY <3>3
    <2> QED  BY <2>2, <2>3
  <1> QED  BY <1>2, <1>3, <1>4, <1>5 DEF Init, TypeInv, NoOutcome

LEMMA InvInit == Init => IInv
  <1> SUFFICES ASSUME Init PROVE IInv
    OBVIOUS
  <1>1. TypeInv
    BY TypeInit
  <1>2. PlaceInv
    BY DEF Init, PlaceInv
  <1>3. \A i, j : ~Done(Recs, i, j, at, next)
    BY <1>1, RecsFacts DEF Init, Done, TypeInv
  <1>4. table = {} /\ committed.table = {} /\ first.done = FALSE /\ exit = "loading"
    BY DEF Init
  <1>5. Loaded(Recs, table, committed.table, at, next)
    BY <1>3, <1>4 DEF Loaded
  <1> QED  BY <1>1, <1>2, <1>4, <1>5 DEF IInv, TableInv, AgainInv, RerunConverges

\* When an object is upserted, the load is as good as at the next one.
LEMMA ObjectDone ==
  ASSUME IInv, Upserted, NEW t, NEW old
  PROVE  Loaded(Recs, t, old, at, next) <=> Loaded(Recs, t, old, at + 1, 1)
  <1>1. ASSUME NEW i, NEW j
        PROVE  Done(Recs, i, j, at, next) <=> Done(Recs, i, j, at + 1, 1)
    <2> SUFFICES ASSUME i \in DOMAIN Recs, j \in DOMAIN Recs[i]
                 PROVE  i < at \/ (i = at /\ j < next) <=> i < at + 1 \/ (i = at + 1 /\ j < 1)
      BY DEF Done
    <2>1. /\ i \in Nat /\ at \in Nat /\ i > 0 /\ j \in 1 .. Len(Recs[i]) /\ Len(Recs[i]) \in Nat
          /\ next \in Nat \ {0}
      BY RecsFacts DEF IInv, TypeInv
    <2>2. i = at => j < next
      <3> SUFFICES ASSUME i = at PROVE j < next
        OBVIOUS
      <3>1. records = Recs[at]
        BY <2>1 DEF IInv, PlaceInv, Upserted
      <3>2. next \notin 1 .. Len(Recs[at])
        BY <3>1, RecsFacts DEF IInv, TypeInv, Upserted
      <3> QED  BY <2>1, <3>2
    <2> QED  BY <2>1, <2>2
  <1> QED  BY <1>1, SameDone

LEMMA NextObject ==
  ASSUME IInv, ParseObject \/ LoadGarbage
  PROVE  IInv'
  <1>1. /\ Upserted /\ exit = "loading" /\ exit' = exit /\ at + 1 \in DOMAIN lake
        /\ at' = at + 1 /\ next' = 1
        /\ UNCHANGED <<name, lake, table, committed, first>>
    BY DEF ParseObject, LoadGarbage, Opens, Upserted, object
  <1>2. outcome'.inserted = outcome.inserted /\ outcome'.updated = outcome.updated
    BY DEF ParseObject, LoadGarbage, IInv, TypeInv
  <1>3. Entity' = Entity /\ Recs' = Recs /\ End' = End /\ (Disagree' <=> Disagree)
    BY <1>1, SameLake
  <1>4. TypeInv'
    <2>1. at + 1 \in 0 .. Len(lake)
      BY <1>1 DEF IInv, TypeInv
    <2>2. outcome' = [parsed |-> outcome'.parsed, inserted |-> outcome'.inserted,
                      updated |-> outcome'.updated, failed |-> outcome'.failed]
      BY DEF ParseObject, LoadGarbage, IInv, TypeInv
    <2> HIDE DEF Recs
    <2> QED  BY <1>1, <1>3, <2>1, <2>2 DEF IInv, TypeInv
  <1>5. PlaceInv'
    <2>1. records' = Recs[at + 1]
      BY <1>1 DEF ParseObject, LoadGarbage, object, Recs
    <2> QED  BY <1>1, <1>3, <2>1 DEF PlaceInv, IInv, TypeInv
  <1>6. TableInv'
    <2>1. Loaded(Recs, table, committed.table, at + 1, 1)
      BY <1>1, ObjectDone DEF IInv, TableInv
    <2> QED  BY <1>1, <1>3, <2>1 DEF IInv, TableInv
  <1>7. AgainInv'
    BY <1>1, <1>2, <1>3 DEF IInv, AgainInv, RerunConverges
  <1> QED  BY <1>4, <1>5, <1>6, <1>7 DEF IInv

\* The row that a record makes replaces the one with its keys.
LEMMA Upserting ==
  ASSUME IInv, UpsertRecord
  PROVE  /\ next \in DOMAIN Recs[at] /\ at \in DOMAIN Recs
         /\ table' = {row \in table : row.keys # Recs[at][next].keys} \cup {Row(Recs[at][next])}
         /\ (\E row \in table : row.keys = Recs[at][next].keys) =>
               outcome'.inserted = outcome.inserted
         /\ (\E row \in table : row.keys = Recs[at][next].keys) /\
            (\A row \in table : row.keys = Recs[at][next].keys =>
                                row.payload = Recs[at][next].payload) =>
               outcome' = outcome /\ table' = table
  <1> DEFINE record == records[next]
             old == {row \in table : row.keys = record.keys}
             new == [keys |-> record.keys, payload |-> record.payload]
  <1>1. /\ exit = "loading" /\ next \in DOMAIN records
        /\ \/ old = {} /\ table' = table \cup {new}
           \/ /\ \E row \in old : Distinct(row, record)
              /\ table' = (table \ old) \cup {new}
              /\ outcome' = [outcome EXCEPT !.updated = @ + 1]
           \/ /\ old # {} /\ ~\E row \in old : Distinct(row, record)
              /\ table' = table /\ outcome' = outcome
    BY DEF UpsertRecord
  <1>2. at # 0 /\ records = Recs[at] /\ at \in DOMAIN Recs
    BY <1>1, RecsFacts DEF IInv, TypeInv, PlaceInv
  <1>3. \A row \in table : row = [keys |-> row.keys, payload |-> row.payload]
    BY <1>1 DEF IInv, TableInv, Loaded
  <1>4. new = Row(record)
    BY DEF Row
  <1> HIDE DEF record
  <1>5. table' = (table \ old) \cup {new}
    <2>1. CASE old # {} /\ ~\E row \in old : Distinct(row, record)
      <3>1. \A row \in old : row = new
        BY <1>3, <2>1 DEF Distinct
      <3>2. new \in table /\ old = {new}
        BY <2>1, <3>1
      <3>3. table' = table
        BY <1>1, <2>1
      <3> QED  BY <3>2, <3>3
    <2>2. CASE old = {} \/ \E row \in old : Distinct(row, record)
      BY <1>1, <2>2
    <2> QED  BY <2>1, <2>2
  <1>6. table \ old = {row \in table : row.keys # record.keys}
    OBVIOUS
  <1>7. outcome.inserted = [outcome EXCEPT !.updated = @ + 1].inserted
    BY DEF IInv, TypeInv
  <1>8. (\E row \in table : row.keys = record.keys) => outcome'.inserted = outcome.inserted
    BY <1>1, <1>7
  <1>9. (\E row \in table : row.keys = record.keys)
        /\ (\A row \in table : row.keys = record.keys => row.payload = record.payload)
        => outcome' = outcome /\ table' = table
    BY <1>1 DEF Distinct
  <1> QED  BY <1>1, <1>2, <1>4, <1>5, <1>6, <1>8, <1>9 DEF record

\* The records of the partition are those of its objects.
LEMMA RecordsOf ==
  ASSUME TypeInv
  PROVE  /\ \A i \in DOMAIN Recs : \A j \in DOMAIN Recs[i] : Recs[i][j] \in AllRecords
         /\ \A r \in AllRecords : \E i \in DOMAIN Recs : \E j \in DOMAIN Recs[i] : r = Recs[i][j]
  <1>1. ASSUME NEW i \in DOMAIN Recs, NEW j \in DOMAIN Recs[i]
        PROVE  Recs[i][j] \in AllRecords
    <2>1. i \in DOMAIN lake
      BY RecsFacts
    <2>2. lake[i] # Garbage
      <3> SUFFICES ASSUME lake[i] = Garbage PROVE FALSE
        OBVIOUS
      <3>1. Recs[i] = <<>>
        BY <2>1 DEF Recs
      <3> QED  BY <3>1
    <2>3. Recs[i] = ParseRecords(Entity, lake[i]).records
      BY <2>1, <2>2 DEF Recs
    <2> QED  BY <2>1, <2>2, <2>3 DEF AllRecords, ToSet
  <1>2. ASSUME NEW r \in AllRecords
        PROVE  \E i \in DOMAIN Recs : \E j \in DOMAIN Recs[i] : r = Recs[i][j]
    <2>1. PICK i \in DOMAIN lake : /\ lake[i] # Garbage
                                   /\ r \in ToSet(ParseRecords(Entity, lake[i]).records)
      BY DEF AllRecords
    <2>2. i \in DOMAIN Recs /\ Recs[i] = ParseRecords(Entity, lake[i]).records
      BY <2>1 DEF Recs
    <2> QED  BY <2>1, <2>2 DEF ToSet
  <1> QED  BY <1>1, <1>2

\* Where nothing disagrees, a row that won has the payload of every record of its keys.
LEMMA Agreeing ==
  ASSUME IInv, ~Disagree, NEW row \in first.table, NEW i \in DOMAIN Recs, NEW j \in DOMAIN Recs[i],
         first.done, row.keys = Recs[i][j].keys
  PROVE  row.payload = Recs[i][j].payload
  <1>1. PICK k, l : Wins(Recs, row, k, l, End, 1)
    BY DEF IInv, AgainInv, Loaded
  <1>2. k \in DOMAIN Recs /\ l \in DOMAIN Recs[k] /\ Row(Recs[k][l]) = row
    BY <1>1 DEF Wins, Done
  <1>3. Recs[k][l].keys = row.keys /\ Recs[k][l].payload = row.payload
    BY <1>2 DEF Row
  <1>4. Recs[k][l] \in AllRecords /\ Recs[i][j] \in AllRecords
    BY <1>2, RecordsOf DEF IInv
  <1>5. Recs[k][l].keys = Recs[i][j].keys => Recs[k][l].payload = Recs[i][j].payload
    BY <1>2, <1>4 DEF Disagree
  <1> QED  BY <1>3, <1>5

LEMMA RecordStep ==
  ASSUME IInv, UpsertRecord
  PROVE  IInv'
  <1>1. /\ exit = "loading" /\ next' = next + 1
        /\ UNCHANGED <<name, lake, at, records, committed, first, exit>>
    BY DEF UpsertRecord
  <1>2. Entity' = Entity /\ Recs' = Recs /\ End' = End /\ (Disagree' <=> Disagree)
    BY <1>1, SameLake
  <1> DEFINE record == Recs[at][next]
  <1>3. /\ at \in DOMAIN Recs /\ next \in DOMAIN Recs[at] /\ at \in Nat /\ next \in Nat
        /\ DOMAIN Recs \subseteq Nat /\ \A i \in DOMAIN Recs : DOMAIN Recs[i] \subseteq Nat
    BY Upserting, RecsFacts DEF IInv, TypeInv
  <1>4. TypeInv'
    <2>1. outcome' = [parsed |-> outcome'.parsed, inserted |-> outcome'.inserted,
                      updated |-> outcome'.updated, failed |-> outcome'.failed]
      BY DEF UpsertRecord, IInv, TypeInv
    <2> HIDE DEF Recs
    <2> QED  BY <1>1, <1>2, <1>3, <2>1 DEF IInv, TypeInv
  <1>5. PlaceInv'
    BY <1>1, <1>2 DEF IInv, PlaceInv
  <1>6. TableInv'
    <2>1. Loaded(Recs, table, committed.table, at, next)
      BY <1>1 DEF IInv, TableInv
    <2>2. Loaded(Recs, {row \in table : row.keys # Row(record).keys} \cup {Row(record)},
                 committed.table, at, next + 1)
      BY <1>3, <2>1, OneMore
    <2>3. Row(record).keys = record.keys
      BY DEF Row
    <2>4. Loaded(Recs, table', committed.table, at, next + 1)
      BY <2>2, <2>3, Upserting
    <2> QED  BY <1>1, <1>2, <2>4 DEF IInv, TableInv
  <1>7. AgainInv'
    <2> SUFFICES ASSUME first.done
                 PROVE  /\ outcome'.inserted = 0
                        /\ \A row \in first.table : \E same \in table' : same.keys = row.keys
                        /\ Disagree \/ (outcome'.updated = 0 /\ table' = first.table)
      BY <1>1, <1>2 DEF IInv, AgainInv, RerunConverges
    <2>1. /\ outcome.inserted = 0 /\ Loaded(Recs, first.table, {}, End, 1)
          /\ \A row \in first.table : \E same \in table : same.keys = row.keys
          /\ Disagree \/ (outcome.updated = 0 /\ table = first.table)
      BY <1>1 DEF IInv, AgainInv
    <2>2. Done(Recs, at, next, End, 1)
      <3>1. at < End
        BY <1>3, RecsFacts DEF IInv, TypeInv, End
      <3> QED  BY <1>3, <3>1 DEF Done
    <2>3. PICK row \in first.table : row.keys = record.keys
      BY <2>1, <2>2 DEF Loaded
    <2>4. outcome'.inserted = 0
      BY <2>1, <2>3, Upserting
    <2>5. ASSUME NEW r \in first.table
          PROVE  \E same \in table' : same.keys = r.keys
      <3>1. PICK same \in table : same.keys = r.keys
        BY <2>1
      <3>2. Row(record).keys = record.keys
        BY DEF Row
      <3> QED  BY <3>1, <3>2, Upserting
    <2>6. ASSUME ~Disagree
          PROVE  outcome'.updated = 0 /\ table' = first.table
      <3>1. \A r \in table : r.keys = record.keys => r.payload = record.payload
        BY <1>3, <2>1, <2>6, Agreeing
      <3>2. \E r \in table : r.keys = record.keys
        BY <2>1, <2>3
      <3>3. outcome' = outcome /\ table' = table
        BY <3>1, <3>2, Upserting
      <3> QED  BY <2>1, <2>6, <3>3
    <2> QED  BY <2>4, <2>5, <2>6
  <1> QED  BY <1>4, <1>5, <1>6, <1>7 DEF IInv

LEMMA CommitStep ==
  ASSUME IInv, Commit
  PROVE  IInv'
  <1>1. /\ Upserted /\ at = Len(lake) /\ exit = "loading"
        /\ committed'.table = table
        /\ first'.done = TRUE
        /\ IF first.done THEN first' = first /\ exit' = "reloaded"
           ELSE first'.table = table /\ exit' = "ok"
        /\ UNCHANGED <<name, lake, at, records, next, table, outcome>>
    BY DEF Commit, Upserted
  <1>2. Entity' = Entity /\ Recs' = Recs /\ End' = End /\ (Disagree' <=> Disagree)
    BY <1>1, SameLake
  <1>3. Loaded(Recs, table, committed.table, End, 1)
    BY <1>1, ObjectDone DEF IInv, TableInv, End
  <1>4. first'.table = table /\ Loaded(Recs, table, {}, End, 1)
    <2>1. CASE first.done
      <3>1. Loaded(Recs, first.table, {}, End, 1) /\ committed.table = first.table
        BY <2>1 DEF IInv, AgainInv
      <3>2. table = first.table
        BY <1>3, <3>1, RecsFacts, Converges DEF IInv
      <3> QED  BY <1>1, <2>1, <3>1, <3>2
    <2>2. CASE ~first.done
      BY <1>1, <1>3, <2>2 DEF IInv, TableInv
    <2> QED  BY <2>1, <2>2
  <1>5. TypeInv'
    BY <1>1, <1>2 DEF IInv, TypeInv
  <1>6. PlaceInv' /\ TableInv'
    BY <1>1 DEF PlaceInv, TableInv
  <1>7. RerunConverges'
    BY <1>1, <1>2, <1>4 DEF IInv, AgainInv, RerunConverges
  <1>8. AgainInv'
    <2>1. exit' # "loading"
      BY <1>1
    <2> QED  BY <1>1, <1>2, <1>4, <1>7, <2>1 DEF AgainInv
  <1> QED  BY <1>5, <1>6, <1>8 DEF IInv

LEMMA ReloadStep ==
  ASSUME IInv, Reload
  PROVE  IInv'
  <1>1. /\ exit = "ok" /\ exit' = "loading" /\ at' = 0 /\ next' = 1 /\ records' = <<>>
        /\ outcome' = NoOutcome
        /\ UNCHANGED <<name, lake, table, committed, first>>
    BY DEF Reload
  <1>2. Entity' = Entity /\ Recs' = Recs /\ End' = End /\ (Disagree' <=> Disagree)
    BY <1>1, SameLake
  <1>3. /\ first.done /\ table = first.table /\ committed.table = first.table
        /\ Loaded(Recs, first.table, {}, End, 1)
    BY <1>1 DEF IInv, AgainInv
  <1>4. Loaded(Recs, table, committed.table, 0, 1)
    <2>1. \A i, j : ~Done(Recs, i, j, 0, 1)
      BY RecsFacts DEF Done, IInv, TypeInv
    <2> QED  BY <1>3, <2>1 DEF Loaded
  <1>5. TypeInv'
    BY <1>1, <1>2 DEF IInv, TypeInv, NoOutcome
  <1>6. PlaceInv' /\ TableInv'
    BY <1>1, <1>2, <1>3, <1>4 DEF PlaceInv, TableInv
  <1>7. outcome'.inserted = 0 /\ outcome'.updated = 0
    BY <1>1 DEF NoOutcome
  <1>8. AgainInv'
    BY <1>1, <1>2, <1>3, <1>7 DEF AgainInv, RerunConverges
  <1> QED  BY <1>5, <1>6, <1>8 DEF IInv

LEMMA DieStep ==
  ASSUME IInv, Die
  PROVE  IInv'
  <1>1. /\ exit = "loading" /\ exit' = "died" /\ table' = committed.table
        /\ UNCHANGED <<name, lake, at, records, next, outcome, committed, first>>
    BY DEF Die, Opens, Upserted
  <1>2. Entity' = Entity /\ Recs' = Recs /\ End' = End
    BY <1>1, SameLake
  <1>3. TypeInv'
    BY <1>1, <1>2 DEF IInv, TypeInv
  <1>4. PlaceInv' /\ TableInv'
    BY <1>1 DEF PlaceInv, IInv, TableInv
  <1>5. AgainInv'
    BY <1>1, <1>2 DEF IInv, AgainInv, RerunConverges
  <1> QED  BY <1>3, <1>4, <1>5 DEF IInv

LEMMA InvStep == IInv /\ [Next]_vars => IInv'
  <1> SUFFICES ASSUME IInv, [Next]_vars PROVE IInv'
    OBVIOUS
  <1>1. CASE UNCHANGED vars
    <2>1. UNCHANGED <<name, lake, at, records, next, table, outcome, committed, first, exit>>
      BY <1>1 DEF vars
    <2>2. Entity' = Entity /\ Recs' = Recs /\ End' = End /\ (Disagree' <=> Disagree)
      BY <2>1, SameLake
    <2>3. TypeInv' /\ PlaceInv' /\ TableInv'
      BY <2>1, <2>2 DEF IInv, TypeInv, PlaceInv, TableInv
    <2>4. AgainInv'
      BY <2>1, <2>2 DEF IInv, AgainInv, RerunConverges
    <2> QED  BY <2>3, <2>4 DEF IInv
  <1> QED  BY <1>1, NextObject, RecordStep, CommitStep, ReloadStep, DieStep DEF Next

\* Loading a partition again leaves the table as the first load left it, inserts
\* nothing, and updates nothing unless two records of it disagree on a row
\* (load_warehouse.py:78-80), for any partition.
THEOREM RerunConvergesHolds == Spec => []RerunConverges
  <1>1. IInv => RerunConverges
    BY DEF IInv, AgainInv
  <1> QED  BY <1>1, InvInit, InvStep, PTL DEF Spec

-----------------------------------------------------------------------------
(***************************************************************************)
(* What a load leaves and counts.                                          *)
(***************************************************************************)
CountInv ==
    /\ exit = "loading" /\ ~first.done =>
          IsFiniteSet(table) /\ outcome.inserted = Cardinality(table)
    /\ first.done => first.outcome.inserted = Cardinality(first.table)

LEMMA CountRecord ==
  ASSUME IInv, CountInv, UpsertRecord
  PROVE  CountInv'
  <1> DEFINE record == records[next]
             old == {row \in table : row.keys = record.keys}
             new == [keys |-> record.keys, payload |-> record.payload]
  <1>1. /\ exit = "loading"
        /\ \/ /\ old = {} /\ table' = table \cup {new}
              /\ outcome' = [outcome EXCEPT !.inserted = @ + 1]
           \/ /\ \E row \in old : Distinct(row, record)
              /\ table' = (table \ old) \cup {new}
              /\ outcome' = [outcome EXCEPT !.updated = @ + 1]
           \/ table' = table /\ outcome' = outcome
        /\ first' = first
    BY DEF UpsertRecord
  <1> SUFFICES ASSUME ~first.done
               PROVE  IsFiniteSet(table') /\ outcome'.inserted = Cardinality(table')
    BY <1>1 DEF CountInv
  <1>2. IsFiniteSet(table) /\ outcome.inserted = Cardinality(table)
    BY <1>1 DEF CountInv
  <1>3. new.keys = record.keys
    OBVIOUS
  <1>4. outcome = [parsed |-> outcome.parsed, inserted |-> outcome.inserted,
                   updated |-> outcome.updated, failed |-> outcome.failed]
    BY DEF IInv, TypeInv
  <1>5. \A r, s \in table : r.keys = s.keys => r = s
    BY <1>1 DEF IInv, TableInv, Loaded
  <1> HIDE DEF record, new
  <1>6. CASE /\ old = {} /\ table' = table \cup {new}
             /\ outcome' = [outcome EXCEPT !.inserted = @ + 1]
    <2>1. new \notin table
      BY <1>3, <1>6
    <2>2. outcome'.inserted = outcome.inserted + 1
      BY <1>4, <1>6
    <2>3. IsFiniteSet(table') /\ Cardinality(table') = Cardinality(table) + 1
      BY <1>2, <1>6, <2>1, FS_AddElement
    <2> QED  BY <1>2, <2>2, <2>3
  <1>7. CASE /\ \E row \in old : Distinct(row, record)
             /\ table' = (table \ old) \cup {new}
             /\ outcome' = [outcome EXCEPT !.updated = @ + 1]
    <2>1. PICK row \in old : TRUE
      BY <1>7
    <2>2. old = {row}
      BY <1>5, <2>1
    <2>3. row \in table
      BY <2>1
    <2>4. /\ IsFiniteSet(table \ {row})
          /\ Cardinality(table \ {row}) = Cardinality(table) - 1
      BY <1>2, <2>3, FS_RemoveElement
    <2>5. new \notin table \ {row}
      <3>1. \A r \in table \ {row} : r.keys # record.keys
        BY <2>2
      <3> QED  BY <1>3, <3>1
    <2>6. table' = (table \ {row}) \cup {new}
      BY <1>7, <2>2
    <2>7. IsFiniteSet(table') /\ Cardinality(table') = Cardinality(table \ {row}) + 1
      BY <2>4, <2>5, <2>6, FS_AddElement
    <2>8. Cardinality(table) \in Nat
      BY <1>2, FS_CardinalityType
    <2>9. outcome'.inserted = outcome.inserted
      BY <1>4, <1>7
    <2> QED  BY <1>2, <2>4, <2>7, <2>8, <2>9
  <1>8. CASE table' = table /\ outcome' = outcome
    BY <1>2, <1>8
  <1> QED  BY <1>1, <1>6, <1>7, <1>8

LEMMA CountStep == IInv /\ CountInv /\ [Next]_vars => CountInv'
  <1> SUFFICES ASSUME IInv, CountInv, [Next]_vars PROVE CountInv'
    OBVIOUS
  <1>1. CASE ParseObject \/ LoadGarbage
    <2>1. /\ exit = "loading" /\ table' = table /\ first' = first
          /\ outcome'.inserted = outcome.inserted
      BY <1>1 DEF ParseObject, LoadGarbage, Opens, Upserted, IInv, TypeInv
    <2> QED  BY <2>1 DEF CountInv
  <1>2. CASE Commit
    <2>1. /\ exit = "loading" /\ exit' # "loading"
          /\ IF first.done THEN first' = first
             ELSE first'.table = table /\ first'.outcome = outcome
      BY <1>2 DEF Commit, Upserted
    <2> QED  BY <2>1 DEF CountInv
  <1>3. CASE Reload
    <2>1. first.done /\ first' = first
      BY <1>3 DEF Reload, IInv, AgainInv
    <2> QED  BY <2>1 DEF CountInv
  <1>4. CASE Die
    BY <1>4 DEF Die, CountInv
  <1>5. CASE UNCHANGED vars
    BY <1>5 DEF vars, CountInv
  <1> QED  BY <1>1, <1>2, <1>3, <1>4, <1>5, CountRecord DEF Next

\* One row for each key of the records of the partition, and no other row.
Landed ==
    /\ \A r \in AllRecords : \E row \in first.table : row.keys = r.keys
    /\ \A row \in first.table : \E r \in AllRecords : row = Row(r)
    /\ \A row, same \in first.table : row.keys = same.keys => row = same

LEMMA RecordsLand ==
  ASSUME IInv, first.done
  PROVE  Landed
  <1>1. Loaded(Recs, first.table, {}, End, 1) /\ TypeInv
    BY DEF IInv, AgainInv
  <1>2. ASSUME NEW r \in AllRecords
        PROVE  \E row \in first.table : row.keys = r.keys
    <2>1. PICK i \in DOMAIN Recs : \E j \in DOMAIN Recs[i] : r = Recs[i][j]
      BY <1>1, RecordsOf
    <2>2. PICK j \in DOMAIN Recs[i] : r = Recs[i][j]
      BY <2>1
    <2>3. i < End
      BY <1>1, RecsFacts DEF TypeInv, End
    <2>4. Done(Recs, i, j, End, 1)
      BY <2>3 DEF Done
    <2> QED  BY <1>1, <2>2, <2>4 DEF Loaded
  <1>3. ASSUME NEW row \in first.table
        PROVE  \E r \in AllRecords : row = Row(r)
    <2>1. PICK i, j : Wins(Recs, row, i, j, End, 1)
      BY <1>1 DEF Loaded
    <2>2. i \in DOMAIN Recs /\ j \in DOMAIN Recs[i] /\ Row(Recs[i][j]) = row
      BY <2>1 DEF Wins, Done
    <2>3. Recs[i][j] \in AllRecords
      BY <1>1, <2>2, RecordsOf
    <2> QED  BY <2>2, <2>3
  <1>4. \A row, same \in first.table : row.keys = same.keys => row = same
    BY <1>1 DEF Loaded
  <1> QED  BY <1>2, <1>3, <1>4 DEF Landed

-----------------------------------------------------------------------------
(***************************************************************************)
(* The result of a place is what the place says.                           *)
(***************************************************************************)
Result(i) == Results(Entity, lake[i])

LEMMA PlaceResult ==
  ASSUME NEW i, lake[i] # Garbage, NEW place \in Places(i)
  PROVE  /\ Places(i) = Spots(Entity, lake[i])
         /\ Result(i)[place] = ParseChild(Entity, Fragment(i, place), Parents(i)[place[1]])
         /\ Result(i)[place].payload = Fragment(i, place)
  <1>1. Places(i) = Spots(Entity, lake[i])
    BY DEF Places, Spots, Inside, Parents
  <1>2. Result(i)[place] = ParseChild(Entity, Fragment(i, place), Parents(i)[place[1]])
    BY <1>1 DEF Result, Results, Fragment, Parents
  <1> QED  BY <1>1, <1>2 DEF ParseChild

\* A key that is there has one value, which is the key's in the result.
LEMMA OneValue ==
  ASSUME NEW i, lake[i] # Garbage, NEW place \in Places(i), NEW path
  PROVE  LET value == Resolve(Entity, path, Fragment(i, place), Parents(i)[place[1]])
         IN Values(i, place, path) = IF Absent(value) THEN {} ELSE {value.v}
  <1> DEFINE own == At(Fragment(i, place), path)
             inherited == Get(Parents(i)[place[1]], path[1])
             value == Resolve(Entity, path, Fragment(i, place), Parents(i)[place[1]])
             given == Entity.child # "" /\ path \in {<<"season">>, <<"round">>}
  <1>1. \A n : Says(n) <=> ~Absent(n)
    BY DEF Says, Absent
  <1>2. given <=> \E field \in ParentFields(Entity) : path = <<field>>
    BY DEF ParentFields
  <1>3. value = IF ~Absent(own) THEN own ELSE IF given THEN inherited ELSE Null
    BY <1>2 DEF Resolve
  <1>4. Values(i, place, path) = IF Says(own) THEN {own.v}
                                 ELSE IF given /\ Says(inherited) THEN {inherited.v} ELSE {}
    BY DEF Values
  <1>5. Absent(Null)
    BY DEF Absent
  <1> HIDE DEF own, inherited, value, given
  <1>6. Values(i, place, path) = IF Absent(value) THEN {} ELSE {value.v}
    BY <1>1, <1>3, <1>4, <1>5
  <1> QED  BY <1>6 DEF value

LEMMA CompleteResult ==
  ASSUME NEW i, lake[i] # Garbage, NEW place \in Places(i)
  PROVE  /\ Complete(i, place) <=> Result(i)[place].ok
         /\ DOMAIN Result(i)[place].keys = DOMAIN Entity.keys
         /\ Result(i)[place].keys
            = [n \in DOMAIN Entity.keys |-> Result(i)[place].keys[n]]
         /\ Complete(i, place) => \A n \in DOMAIN Entity.keys :
               Values(i, place, Entity.keys[n]) = {Result(i)[place].keys[n]}
  <1> DEFINE value(n) == Resolve(Entity, Entity.keys[n], Fragment(i, place), Parents(i)[place[1]])
             values == [n \in DOMAIN Entity.keys |-> value(n)]
             result == Result(i)[place]
  <1>1. /\ result.ok <=> \A n \in DOMAIN values : ~Absent(values[n])
        /\ result.keys = [n \in DOMAIN values |-> values[n].v]
    <2>1. result = ParseChild(Entity, Fragment(i, place), Parents(i)[place[1]])
      BY PlaceResult
    <2>2. result = [ok |-> \A n \in DOMAIN values : ~Absent(values[n]),
                    keys |-> [n \in DOMAIN values |-> values[n].v],
                    payload |-> Fragment(i, place)]
      BY <2>1 DEF ParseChild
    <2> HIDE DEF values, result
    <2> QED  BY <2>2
  <1>2. DOMAIN values = DOMAIN Entity.keys /\ \A n \in DOMAIN Entity.keys : values[n] = value(n)
    OBVIOUS
  <1>3. \A n \in DOMAIN Entity.keys : Values(i, place, Entity.keys[n])
                                      = IF Absent(value(n)) THEN {} ELSE {value(n).v}
    BY OneValue
  <1> HIDE DEF value, values, result
  <1>4. \A n \in DOMAIN Entity.keys : result.keys[n] = value(n).v
    BY <1>1, <1>2
  <1>5. result.ok <=> \A n \in DOMAIN Entity.keys : ~Absent(value(n))
    BY <1>1, <1>2
  <1>6. Complete(i, place) <=> result.ok
    BY <1>3, <1>5 DEF Complete
  <1>7. DOMAIN result.keys = DOMAIN Entity.keys
        /\ result.keys = [n \in DOMAIN Entity.keys |-> result.keys[n]]
    BY <1>1, <1>2, <1>4
  <1> QED  BY <1>3, <1>4, <1>5, <1>6, <1>7 DEF result

\* What parse_records covers, for an object of the partition.
LEMMA ObjectParsed ==
  ASSUME TypeInv, NEW i \in DOMAIN lake, lake[i] # Garbage
  PROVE  /\ ParseRecords(Entity, lake[i]) \in Parsed(ResultsOf(Entity, lake[i]))
         /\ Covers(ParseRecords(Entity, lake[i]), Result(i), Places(i))
  <1>1. WellFormed(Entity, lake[i])
    BY DEF TypeInv
  <1>2. Places(i) = Spots(Entity, lake[i])
    BY DEF Places, Spots, Inside, Parents
  <1> QED  BY <1>1, <1>2, Makes, EverythingParsed DEF Result

-----------------------------------------------------------------------------
(***************************************************************************)
(* The dead letters of the first load are the places that lack a key.      *)
(***************************************************************************)
Frags == [i \in DOMAIN lake |-> [place \in Places(i) |-> Fragment(i, place)]]
Lost == [i \in DOMAIN lake |-> {place \in Places(i) : ~Complete(i, place)}]

LettersInv ==
    /\ exit = "loading" /\ ~first.done =>
          Lettered(Frags, Lost, letters, at) /\ outcome.failed = Len(letters)
    /\ first.done =>
          /\ Lettered(Frags, Lost, first.letters, Len(lake))
          /\ first.outcome.failed = Len(first.letters)

LEMMA SamePlaces ==
  ASSUME UNCHANGED <<name, lake>>
  PROVE  Frags' = Frags /\ Lost' = Lost
  <1>1. Entity' = Entity /\ \A i : Parents(i)' = Parents(i)
    BY DEF Entity, Parents
  <1>2. \A i : Places(i)' = Places(i)
    BY DEF Places, Parents, Entity
  <1>3. \A i, p : Fragment(i, p)' = Fragment(i, p)
    BY <1>1 DEF Fragment
  <1>4. \A i, p, path : Values(i, p, path)' = Values(i, p, path)
    BY DEF Values, Fragment, Parents, Entity
  <1>5. \A i, p : Complete(i, p)' <=> Complete(i, p)
    BY <1>1, <1>4 DEF Complete
  <1> QED  BY <1>2, <1>3, <1>5 DEF Frags, Lost

LEMMA LettersParsed ==
  ASSUME IInv, LettersInv, ParseObject, ~first.done
  PROVE  Lettered(Frags, Lost, letters', at + 1) /\ outcome'.failed = Len(letters')
  <1> DEFINE i == at + 1
             failures == ParseRecords(Entity, lake[i]).failures
             f == [m \in DOMAIN failures |-> failures[m].payload]
             X == ResultsOf(Entity, lake[i])
             V == {r.payload : r \in X}
  <1>1. /\ exit = "loading" /\ i \in DOMAIN lake /\ lake[i] # Garbage
        /\ letters' = letters \o [m \in DOMAIN failures |-> <<i, failures[m].payload>>]
        /\ outcome'.failed = outcome.failed + Len(failures)
    BY DEF ParseObject, Opens, Upserted, object, IInv, TypeInv
  <1>2. /\ Lettered(Frags, Lost, letters, at) /\ outcome.failed = Len(letters)
        /\ at \in Nat /\ DOMAIN Frags = DOMAIN lake /\ DOMAIN Lost = DOMAIN lake
    BY <1>1 DEF LettersInv, IInv, TypeInv, Frags, Lost
  <1>3. failures \in Seq(X) /\ Covers(ParseRecords(Entity, lake[i]), Result(i), Places(i))
    BY <1>1, ObjectParsed DEF IInv, Parsed
  <1>4. f \in Seq(V) /\ Len(f) = Len(failures) /\ DOMAIN f = DOMAIN failures
    <2>1. Len(failures) \in Nat /\ DOMAIN failures = 1 .. Len(failures)
          /\ \A m \in DOMAIN failures : failures[m] \in X
      BY <1>3
    <2>2. f \in [1 .. Len(failures) -> V]
      BY <2>1
    <2> HIDE DEF failures, f, V
    <2>3. f \in Seq(V)
      BY <2>1, <2>2, SeqDef
    <2> QED  BY <2>1, <2>2, <2>3
  <1>5. \A place \in Places(i) : Frags[i][place] = Fragment(i, place)
        /\ DOMAIN Frags[i] = Places(i) /\ Result(i)[place].payload = Fragment(i, place)
        /\ (Complete(i, place) <=> Result(i)[place].ok)
    BY <1>1, PlaceResult, CompleteResult DEF Frags
  <1>6. ASSUME NEW m \in DOMAIN f
        PROVE  \E place \in DOMAIN Frags[i] : f[m] = Frags[i][place]
    <2>1. PICK place \in Places(i) : failures[m] = Result(i)[place]
      BY <1>3, <1>4 DEF Covers
    <2> QED  BY <1>4, <1>5, <2>1
  <1>7. ASSUME NEW c
        PROVE  Cardinality({m \in DOMAIN f : f[m] = c})
               = Cardinality({place \in Lost[i] : Frags[i][place] = c})
    <2>1. {m \in DOMAIN f : f[m] = c} = {m \in DOMAIN failures : failures[m].payload = c}
      BY <1>4
    <2>2. {place \in Lost[i] : Frags[i][place] = c}
          = {place \in Places(i) : ~Result(i)[place].ok /\ Result(i)[place].payload = c}
      BY <1>1, <1>5 DEF Lost
    <2>3. Count(failures, c) = Cardinality({place \in Places(i) :
                                  ~Result(i)[place].ok /\ Result(i)[place].payload = c})
      BY <1>3 DEF Covers
    <2> QED  BY <2>1, <2>2, <2>3 DEF Count
  <1>8. letters' = letters \o [m \in DOMAIN f |-> <<i, f[m]>>]
    <2>1. [m \in DOMAIN f |-> <<i, f[m]>>] = [m \in DOMAIN failures |-> <<i, failures[m].payload>>]
      BY <1>4
    <2> QED  BY <1>1, <2>1
  <1> HIDE DEF failures, f, V, X
  <1>9. Follow(Frags, Lost, letters, at, f)
    BY <1>2, <1>4, <1>6, <1>7, MoreLetters
  <1> QED  BY <1>1, <1>2, <1>4, <1>8, <1>9 DEF Follow

LEMMA LettersGarbage ==
  ASSUME IInv, LettersInv, LoadGarbage, ~first.done
  PROVE  Lettered(Frags, Lost, letters', at + 1) /\ outcome'.failed = Len(letters')
  <1> DEFINE i == at + 1
             f == <<Garbage>>
  <1>1. /\ exit = "loading" /\ i \in DOMAIN lake /\ lake[i] = Garbage
        /\ letters' = Append(letters, <<i, Garbage>>)
        /\ outcome'.failed = outcome.failed + 1
    BY DEF LoadGarbage, Opens, Upserted, object, IInv, TypeInv
  <1>2. /\ Lettered(Frags, Lost, letters, at) /\ outcome.failed = Len(letters) /\ at \in Nat
    BY <1>1 DEF LettersInv, IInv, TypeInv
  <1>3. Frags[i] = [place \in {<<0, 0>>} |-> Garbage] /\ Lost[i] = {<<0, 0>>}
    BY <1>1 DEF Frags, Lost, Places, Fragment, Complete
  <1>4. f \in Seq({Garbage}) /\ DOMAIN f = {1} /\ f[1] = Garbage /\ Len(f) = 1
    OBVIOUS
  <1>5. \A m \in DOMAIN f : \E place \in DOMAIN Frags[i] : f[m] = Frags[i][place]
    BY <1>3, <1>4
  <1>6. ASSUME NEW c
        PROVE  Cardinality({m \in DOMAIN f : f[m] = c})
               = Cardinality({place \in Lost[i] : Frags[i][place] = c})
    <2>1. CASE c = Garbage
      <3>1. {m \in DOMAIN f : f[m] = c} = {1}
        BY <1>4, <2>1
      <3>2. {place \in Lost[i] : Frags[i][place] = c} = {<<0, 0>>}
        BY <1>3, <2>1
      <3>3. Cardinality({1}) = 1 /\ Cardinality({<<0, 0>>}) = 1
        BY FS_Singleton
      <3> QED  BY <3>1, <3>2, <3>3
    <2>2. CASE c # Garbage
      <3>1. {m \in DOMAIN f : f[m] = c} = {}
        BY <1>4, <2>2
      <3>2. {place \in Lost[i] : Frags[i][place] = c} = {}
        BY <1>3, <2>2
      <3> QED  BY <3>1, <3>2
    <2> QED  BY <2>1, <2>2
  <1> DEFINE new == [m \in DOMAIN f |-> <<i, f[m]>>]
  <1>7. new = <<<<i, Garbage>>>>
    BY <1>4
  <1>8. letters' = letters \o new
    <2>1. letters \in Seq(Pairs(Frags, at))
      BY <1>2 DEF Lettered
    <2>2. Append(letters, <<i, Garbage>>) = letters \o <<<<i, Garbage>>>>
      <3> DEFINE S == Pairs(Frags, at) \cup {<<i, Garbage>>}
                 x == <<i, Garbage>>
      <3>1. letters \in Seq(S)
        <4>1. letters \in [1 .. Len(letters) -> Pairs(Frags, at)] /\ Len(letters) \in Nat
          BY <2>1
        <4>2. letters \in [1 .. Len(letters) -> S]
          BY <4>1
        <4> QED  BY <4>1, <4>2, SeqDef
      <3>2. x \in S
        OBVIOUS
      <3> HIDE DEF S, x
      <3>3. Append(letters, x) = letters \o <<x>>
        BY <3>1, <3>2, AppendIsConcat
      <3> QED  BY <3>3 DEF x
    <2> QED  BY <1>1, <1>7, <2>2
  <1> HIDE DEF f
  <1>9. Follow(Frags, Lost, letters, at, f)
    BY <1>2, <1>4, <1>5, <1>6, MoreLetters
  <1> QED  BY <1>1, <1>2, <1>4, <1>8, <1>9 DEF Follow

LEMMA LettersStep == IInv /\ LettersInv /\ [Next]_vars => LettersInv'
  <1> SUFFICES ASSUME IInv, LettersInv, [Next]_vars PROVE LettersInv'
    OBVIOUS
  <1>1. UNCHANGED <<name, lake>>
    BY DEF Next, ParseObject, UpsertRecord, LoadGarbage, Die, Commit, Reload, vars
  <1>2. Frags' = Frags /\ Lost' = Lost
    BY <1>1, SamePlaces
  <1>3. CASE ParseObject \/ LoadGarbage
    <2>1. at' = at + 1 /\ first' = first
      BY <1>3 DEF ParseObject, LoadGarbage, object
    <2> QED  BY <1>1, <1>2, <1>3, <2>1, LettersParsed, LettersGarbage DEF LettersInv
  <1>4. CASE UpsertRecord
    <2>1. /\ exit = "loading" /\ letters' = letters /\ at' = at /\ first' = first
          /\ outcome'.failed = outcome.failed
      BY <1>4 DEF UpsertRecord, IInv, TypeInv
    <2> QED  BY <1>1, <1>2, <2>1 DEF LettersInv
  <1>5. CASE Commit
    <2>1. /\ exit = "loading" /\ exit' # "loading" /\ at = Len(lake)
          /\ IF first.done THEN first' = first
             ELSE first'.letters = letters /\ first'.outcome = outcome
      BY <1>5 DEF Commit, Upserted
    <2> QED  BY <1>1, <1>2, <2>1 DEF LettersInv
  <1>6. CASE Reload
    <2>1. first.done /\ first' = first
      BY <1>6 DEF Reload, IInv, AgainInv
    <2> QED  BY <1>1, <1>2, <2>1 DEF LettersInv
  <1>7. CASE Die
    <2>1. exit' # "loading" /\ first' = first
      BY <1>7 DEF Die
    <2> QED  BY <1>1, <1>2, <2>1 DEF LettersInv
  <1>8. CASE UNCHANGED vars
    BY <1>2, <1>8 DEF vars, LettersInv
  <1> QED  BY <1>3, <1>4, <1>5, <1>6, <1>7, <1>8 DEF Next

LEMMA LettersInit == Init => LettersInv
  <1> SUFFICES ASSUME Init PROVE LettersInv
    OBVIOUS
  <1>1. <<>> \in Seq(Pairs(Frags, 0))
    OBVIOUS
  <1>2. Lettered(Frags, Lost, <<>>, 0)
    BY <1>1 DEF Lettered
  <1> QED  BY <1>2 DEF Init, LettersInv, NoOutcome

-----------------------------------------------------------------------------
(***************************************************************************)
(* The loads that are killed.                                              *)
(***************************************************************************)
KillInv ==
    /\ ~first.done => /\ \A i \in 1 .. at : ~Kills(i)
                      /\ committed = [table |-> {}, letters |-> <<>>]
    /\ first.done => \A i \in DOMAIN lake : ~Kills(i)
    /\ exit = "died" => (\E i \in DOMAIN lake : Kills(i)) /\ table = {} /\ letters = <<>>

\* What kills is what nothing catches.
LEMMA KillsRaises ==
  ASSUME NEW i \in DOMAIN lake
  PROVE  Kills(i) <=> lake[i] # Garbage /\ Raises(Entity, lake[i])
  BY DEF Kills, Raises, Parents, ToSet

LEMMA SameKills ==
  ASSUME UNCHANGED <<name, lake>>
  PROVE  \A i : Kills(i)' <=> Kills(i)
  BY DEF Kills, Parents, Entity

LEMMA KillInit == Init => KillInv
  BY DEF Init, KillInv

LEMMA KillStep == IInv /\ KillInv /\ [Next]_vars => KillInv'
  <1> SUFFICES ASSUME IInv, KillInv, [Next]_vars PROVE KillInv'
    OBVIOUS
  <1>1. lake' = lake /\ \A i : Kills(i)' <=> Kills(i)
    <2>1. UNCHANGED <<name, lake>>
      BY DEF Next, vars, ParseObject, UpsertRecord, LoadGarbage, Die, Commit, Reload
    <2> QED  BY <2>1, SameKills
  <1>2. at \in 0 .. Len(lake) /\ Len(lake) \in Nat /\ DOMAIN lake = 1 .. Len(lake)
    BY DEF IInv, TypeInv
  <1>3. CASE ParseObject \/ LoadGarbage
    <2>1. /\ object \in DOMAIN lake /\ at' = at + 1 /\ exit = "loading"
          /\ UNCHANGED <<committed, first, exit>>
      BY <1>3 DEF ParseObject, LoadGarbage, Opens, Upserted, object
    <2>2. ~Kills(object)
      BY <1>3, <2>1, KillsRaises DEF ParseObject, LoadGarbage
    <2>3. \A i \in 1 .. at' : i \in 1 .. at \/ i = object
      BY <1>2, <2>1 DEF object
    <2> QED  BY <1>1, <2>1, <2>2, <2>3 DEF KillInv
  <1>4. CASE Die
    <2>1. /\ object \in DOMAIN lake /\ exit' = "died"
          /\ table' = committed.table /\ letters' = committed.letters
          /\ UNCHANGED <<at, committed, first>>
      BY <1>4 DEF Die, Opens
    <2>2. Kills(object)
      BY <1>4, <2>1, KillsRaises DEF Die
    <2>3. ~first.done /\ table' = {} /\ letters' = <<>>
      BY <2>1, <2>2 DEF KillInv
    <2> QED  BY <1>1, <2>1, <2>2, <2>3 DEF KillInv
  <1>5. CASE Commit
    <2>1. /\ at = Len(lake) /\ exit' \in {"ok", "reloaded"}
          /\ IF first.done THEN first' = first ELSE first'.done
      BY <1>5 DEF Commit
    <2>2. \A i \in DOMAIN lake : ~Kills(i)
      BY <1>2, <2>1 DEF KillInv
    <2> QED  BY <1>1, <2>1, <2>2 DEF KillInv
  <1>6. CASE Reload
    <2>1. first.done /\ first' = first /\ exit' = "loading"
      BY <1>6 DEF Reload, IInv, AgainInv
    <2> QED  BY <1>1, <2>1 DEF KillInv
  <1>7. CASE UpsertRecord
    <2>1. exit = "loading" /\ UNCHANGED <<at, committed, first, exit>>
      BY <1>7 DEF UpsertRecord
    <2> QED  BY <1>1, <2>1 DEF KillInv
  <1>8. CASE UNCHANGED vars
    <2>1. UNCHANGED <<at, table, letters, committed, first, exit>>
      BY <1>8 DEF vars
    <2> QED  BY <1>1, <2>1 DEF KillInv
  <1> QED  BY <1>3, <1>4, <1>5, <1>6, <1>7, <1>8 DEF Next

-----------------------------------------------------------------------------
(***************************************************************************)
(* The table: a row for each complete place, and a complete place for each *)
(* row.                                                                    *)
(***************************************************************************)
\* The record of a complete place, and the place of a record.
LEMMA RecordOfPlace ==
  ASSUME TypeInv, NEW i \in DOMAIN lake, NEW place \in Places(i), Complete(i, place)
  PROVE  lake[i] # Garbage /\ Result(i)[place] \in AllRecords
  <1>1. lake[i] # Garbage
    BY DEF Complete
  <1>2. Result(i)[place].ok
    BY <1>1, CompleteResult
  <1>3. PICK l \in DOMAIN ParseRecords(Entity, lake[i]).records :
           ParseRecords(Entity, lake[i]).records[l] = Result(i)[place]
    BY <1>1, <1>2, ObjectParsed DEF Covers
  <1>4. Result(i)[place] \in ToSet(ParseRecords(Entity, lake[i]).records)
    BY <1>3 DEF ToSet
  <1> QED  BY <1>1, <1>4 DEF AllRecords

LEMMA PlaceOfRecord ==
  ASSUME TypeInv, NEW r \in AllRecords
  PROVE  \E i \in DOMAIN lake : \E place \in Places(i) :
            lake[i] # Garbage /\ Complete(i, place) /\ r = Result(i)[place]
  <1>1. PICK i \in DOMAIN lake : /\ lake[i] # Garbage
                                 /\ r \in ToSet(ParseRecords(Entity, lake[i]).records)
    BY DEF AllRecords
  <1>2. PICK l \in DOMAIN ParseRecords(Entity, lake[i]).records :
           r = ParseRecords(Entity, lake[i]).records[l]
    BY <1>1 DEF ToSet
  <1>3. PICK place \in Places(i) : Result(i)[place].ok /\ r = Result(i)[place]
    BY <1>1, <1>2, ObjectParsed DEF Covers
  <1> QED  BY <1>1, <1>3, CompleteResult

\* A row is at a complete place if and only if it has the keys of its result.
LEMMA AtPlace ==
  ASSUME TypeInv, Landed, NEW i \in DOMAIN lake, NEW place \in Places(i), Complete(i, place),
         NEW row \in first.table
  PROVE  IsAt(i, place, row) <=> row.keys = Result(i)[place].keys
  <1> DEFINE keys == Result(i)[place].keys
  <1>1. /\ \A n \in DOMAIN Entity.keys : Values(i, place, Entity.keys[n]) = {keys[n]}
        /\ keys = [n \in DOMAIN Entity.keys |-> keys[n]]
    BY CompleteResult DEF Complete
  <1>2. PICK r \in AllRecords : row = Row(r)
    BY DEF Landed
  <1>3. PICK k \in DOMAIN lake : \E other \in Places(k) :
           lake[k] # Garbage /\ Complete(k, other) /\ r = Result(k)[other]
    BY PlaceOfRecord
  <1>4. PICK other \in Places(k) : lake[k] # Garbage /\ r = Result(k)[other]
    BY <1>3
  <1>5. row.keys = r.keys
    BY <1>2 DEF Row
  <1>6. row.keys = [n \in DOMAIN Entity.keys |-> row.keys[n]]
    <2>1. r.keys = [n \in DOMAIN Entity.keys |-> r.keys[n]]
      BY <1>4, CompleteResult
    <2> QED  BY <1>5, <2>1
  <1> HIDE DEF keys
  <1>7. IsAt(i, place, row) <=> \A n \in DOMAIN Entity.keys : row.keys[n] = keys[n]
    BY <1>1 DEF IsAt
  <1>8. row.keys = keys <=> \A n \in DOMAIN Entity.keys : row.keys[n] = keys[n]
    BY <1>1, <1>6
  <1> QED  BY <1>7, <1>8 DEF keys

LEMMA NothingLost ==
  ASSUME IInv, CountInv, LettersInv, KillInv, exit = "ok"
  PROVE  NothingVanishes
  <1>1. first.done /\ TypeInv /\ Landed
    BY RecordsLand DEF IInv, AgainInv
  <1>2. ASSUME NEW i \in DOMAIN lake, NEW place \in Places(i), Complete(i, place)
        PROVE  \E row \in first.table : \A other \in first.table :
                  IsAt(i, place, other) <=> other = row
    <2>1. Result(i)[place] \in AllRecords
      BY <1>1, <1>2, RecordOfPlace
    <2>2. PICK row \in first.table : row.keys = Result(i)[place].keys
      BY <1>1, <2>1 DEF Landed
    <2>3. ASSUME NEW other \in first.table
          PROVE  IsAt(i, place, other) <=> other = row
      <3>1. IsAt(i, place, other) <=> other.keys = Result(i)[place].keys
        BY <1>1, <1>2, AtPlace
      <3>2. other.keys = row.keys => other = row
        BY <1>1 DEF Landed
      <3> QED  BY <2>2, <3>1, <3>2
    <2> QED  BY <2>3
  <1>3. ASSUME NEW row \in first.table
        PROVE  \E i \in DOMAIN lake : \E place \in Places(i) :
                  Complete(i, place) /\ IsAt(i, place, row) /\ row.payload = Fragment(i, place)
    <2>1. PICK r \in AllRecords : row = Row(r)
      BY <1>1 DEF Landed
    <2>2. PICK i \in DOMAIN lake : \E place \in Places(i) :
             lake[i] # Garbage /\ Complete(i, place) /\ r = Result(i)[place]
      BY <1>1, PlaceOfRecord
    <2>3. PICK place \in Places(i) :
             lake[i] # Garbage /\ Complete(i, place) /\ r = Result(i)[place]
      BY <2>2
    <2>4. row.keys = r.keys /\ row.payload = r.payload
      BY <2>1 DEF Row
    <2>5. IsAt(i, place, row)
      BY <1>1, <2>3, <2>4, AtPlace
    <2>6. row.payload = Fragment(i, place)
      BY <2>3, <2>4, PlaceResult
    <2> QED  BY <2>3, <2>5, <2>6
  <1>4. /\ Lettered(Frags, Lost, first.letters, Len(lake))
        /\ first.outcome.failed = Len(first.letters)
        /\ first.outcome.inserted = Cardinality(first.table)
        /\ DOMAIN lake = 1 .. Len(lake)
    BY <1>1 DEF LettersInv, CountInv, TypeInv
  <1>5. ASSUME NEW i \in DOMAIN lake, NEW fragment
        PROVE  Cardinality({l \in DOMAIN first.letters : first.letters[l] = <<i, fragment>>})
               = Cardinality({place \in Places(i) :
                                 ~Complete(i, place) /\ Fragment(i, place) = fragment})
    <2>1. {place \in Places(i) : ~Complete(i, place) /\ Fragment(i, place) = fragment}
          = {place \in Lost[i] : Frags[i][place] = fragment}
      BY DEF Lost, Frags
    <2>2. Cardinality({l \in DOMAIN first.letters : first.letters[l] = <<i, fragment>>})
          = Cardinality({place \in Lost[i] : Frags[i][place] = fragment})
      <3>1. \A o \in 1 .. Len(lake) : \A c :
               Cardinality({l \in DOMAIN first.letters : first.letters[l] = <<o, c>>})
               = Cardinality({place \in Lost[o] : Frags[o][place] = c})
        BY <1>4, Zenon DEF Lettered
      <3>2. i \in 1 .. Len(lake)
        BY <1>4
      <3> QED  BY <3>1, <3>2, Zenon
    <2> QED  BY <2>1, <2>2
  <1>6. ASSUME NEW letter \in ToSet(first.letters)
        PROVE  /\ letter[1] \in DOMAIN lake
               /\ \E place \in Places(letter[1]) : letter[2] = Fragment(letter[1], place)
    <2>1. letter \in Pairs(Frags, Len(lake))
      BY <1>4 DEF Lettered, ToSet
    <2>2. PICK i \in 1 .. Len(lake) : \E p \in DOMAIN Frags[i] : letter = <<i, Frags[i][p]>>
      BY <2>1 DEF Pairs
    <2>3. PICK p \in DOMAIN Frags[i] : letter = <<i, Frags[i][p]>>
      BY <2>2
    <2>4. p \in Places(i) /\ Frags[i][p] = Fragment(i, p)
      BY <1>4, <2>3 DEF Frags
    <2> QED  BY <1>4, <2>3, <2>4
  <1>7. ~\E i \in DOMAIN lake : Kills(i)
    BY <1>1 DEF KillInv
  <1> QED  BY <1>2, <1>3, <1>4, <1>5, <1>6, <1>7 DEF NothingVanishes

\* The loads that are not over, or were killed.
LEMMA NothingLeft ==
  ASSUME IInv, KillInv, exit # "ok"
  PROVE  NothingVanishes
  <1>1. exit = "reloaded" => ~\E i \in DOMAIN lake : Kills(i)
    BY DEF IInv, AgainInv, KillInv
  <1> QED  BY <1>1 DEF NothingVanishes, KillInv

\* Nothing of a payload vanishes (entities.py:214-216): after a load every object
\* at the measured place has the row of its keys or a dead letter of its own, and
\* nothing else is in either; and a load is killed if and only if a number is in
\* the place of the children, and then leaves nothing.  For any partition of any
\* payloads.
THEOREM NothingVanishesHolds == Spec => []NothingVanishes
  <1>1. Init => CountInv
    <2> SUFFICES ASSUME Init PROVE CountInv
      OBVIOUS
    <2>1. IsFiniteSet({}) /\ Cardinality({}) = 0
      BY FS_EmptySet
    <2> QED  BY <2>1 DEF Init, CountInv, NoOutcome
  <1>2. IInv /\ CountInv /\ LettersInv /\ KillInv => NothingVanishes
    BY NothingLost, NothingLeft
  <1> QED  BY <1>1, <1>2, CountStep, LettersInit, LettersStep, KillInit, KillStep, InvInit, InvStep,
              PTL DEF Spec
=============================================================================
