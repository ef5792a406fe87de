--------------------------- MODULE Drivers_proofs ---------------------------
(***************************************************************************)
(* What the drivers of the pipeline promise, for any number of warehouses, *)
(* seasons, retries, edits and failures.                                   *)
(***************************************************************************)
EXTENDS Drivers, FiniteSetTheorems, TLAPS

DagStep == [kind : {"reference", "season", "race", "build"}, season : {0, Newest}]

Shape ==
    /\ todo = [d \in Who |-> todo[d]] /\ todo["dag"] \in Seq(DagStep)
    /\ used = [d \in Who |-> used[d]]
    /\ edited = [d \in Who |-> edited[d]]
    /\ result = [d \in Who |-> result[d]]

\* A run of the DAG that goes on has not failed yet, and nobody was told so.
AlertInv == OneAlert /\ (todo["dag"] # <<>> => result["dag"] = "none")

\* Where the steps of a run have worked: the DAG's where the containers, the
\* operator's where the shell say, unless it is an exception of OneWarehouse.
Home(d) == Loaded(IF d = "dag" THEN container.host ELSE shell)
Excused(d) == edited[d] \/ (d = "operator" /\ Says(shell) /\ shell # file.host)
HomeInv == \A d \in Who : Excused(d) \/ used[d] \subseteq {Home(d)}

IInv == Shape /\ AlertInv /\ HomeInv

LEMMA InvInit == Init => IInv
  BY DEF Init, IInv, Shape, AlertInv, OneAlert, HomeInv, Who

LEMMA StepsOfDag == DagSteps \in Seq(DagStep) /\ DagSteps # <<>>
  BY DEF DagSteps, DagStep, Step, Sweep

LEMMA TailOfOne ==
  ASSUME NEW S, NEW s \in Seq(S), s # <<>>
  PROVE  Tail(s) \in Seq(S) /\ (Len(s) = 1 => Tail(s) = <<>>)
  <1>1. Tail(s) \in Seq(S) /\ Len(Tail(s)) = Len(s) - 1
    OBVIOUS
  <1>2. \A t \in Seq(S) : Len(t) = 0 => t = <<>>
    OBVIOUS
  <1> QED  BY <1>1, <1>2

\* A step that is ready works where its run does.
LEMMA AtHome ==
  ASSUME Shape, NEW d \in Who, todo[d] # <<>>, Ready(d, Head(todo[d])),
         Head(todo[d]).kind # "deps", ~Excused(d)
  PROVE  Target(d, Head(todo[d])) = Home(d)
  <1> DEFINE step == Head(todo[d])
  <1>1. Says(Target(d, step))
    BY DEF Ready
  <1>2. CASE d = "dag"
    <2>1. step \in DagStep
      BY <1>2 DEF Shape
    <2>2. step.kind # "migrate"
      BY <2>1 DEF DagStep
    <2>3. CASE step.kind = "build"
      BY <1>1, <1>2, <2>3 DEF Target, DbtEnvironment, Home, Loaded
    <2>4. CASE step.kind # "build"
      BY <1>2, <2>2, <2>4 DEF Target, Home
    <2> QED  BY <2>3, <2>4
  <1>3. CASE d = "operator"
    <2>1. Says(shell) => shell = file.host
      BY <1>3 DEF Excused
    <2>2. CASE step.kind = "migrate"
      BY <1>1, <1>3, <2>1, <2>2 DEF Target, Home, Loaded
    <2>3. CASE step.kind = "build"
      BY <1>1, <1>3, <2>1, <2>3 DEF Target, DbtEnvironment, Home, Loaded, Says
    <2>4. CASE step.kind \notin {"migrate", "build"}
      BY <1>3, <2>4 DEF Target, Home
    <2> QED  BY <2>2, <2>3, <2>4
  <1> QED  BY <1>2, <1>3 DEF Who

(***************************************************************************)
(* The steps.                                                              *)
(***************************************************************************)
LEMMA Starting ==
  ASSUME IInv, NEW d \in Who, Start(d)
  PROVE  IInv'
  <1>1. Shape'
    BY StepsOfDag DEF IInv, Shape, Start, Who
  <1>2. AlertInv'
    <2>1. CASE d = "dag"
      BY <2>1 DEF Start, IInv, Shape, AlertInv, OneAlert, Who
    <2>2. CASE d = "operator"
      BY <2>2 DEF Start, IInv, Shape, AlertInv, OneAlert, Who
    <2> QED  BY <2>1, <2>2 DEF Who
  <1>3. HomeInv'
    <2>1. ASSUME NEW e \in Who
          PROVE  Excused(e)' \/ used'[e] \subseteq {Home(e)'}
      <3>1. UNCHANGED <<file, shell, container>>
        BY DEF Start, settings
      <3>2. CASE e = d
        BY <3>2 DEF Start, IInv, Shape
      <3>3. CASE e # d
        <4>1. used'[e] = used[e] /\ edited'[e] = edited[e]
          BY <2>1, <3>3 DEF Start, IInv, Shape
        <4> QED  BY <2>1, <3>1, <4>1 DEF IInv, HomeInv, Excused, Home, Loaded
      <3> QED  BY <3>2, <3>3
    <2> QED  BY <2>1 DEF HomeInv
  <1> QED  BY <1>1, <1>2, <1>3 DEF IInv

LEMMA Succeeding ==
  ASSUME IInv, NEW d \in Who, Succeed(d)
  PROVE  IInv'
  <1>1. /\ todo[d] # <<>> /\ Ready(d, Head(todo[d]))
        /\ todo' = [todo EXCEPT ![d] = Tail(@)]
        /\ result' = [result EXCEPT ![d] = IF Len(todo[d]) = 1 THEN "ok" ELSE @]
        /\ UNCHANGED <<file, shell, container, alerts, edited>>
    BY DEF Succeed, settings
  <1>2. used' = IF Head(todo[d]).kind = "deps" THEN used
                ELSE [used EXCEPT ![d] = @ \cup {Target(d, Head(todo[d]))}]
    BY DEF Succeed
  <1>3. Shape'
    <2>1. /\ todo' = [e \in Who |-> todo'[e]] /\ result' = [e \in Who |-> result'[e]]
          /\ used' = [e \in Who |-> used'[e]]
      BY <1>1, <1>2 DEF IInv, Shape
    <2>2. todo["dag"] \in Seq(DagStep) /\ todo'["dag"] = IF d = "dag" THEN Tail(todo["dag"])
                                                          ELSE todo["dag"]
      BY <1>1 DEF IInv, Shape, Who
    <2>3. todo'["dag"] \in Seq(DagStep)
      BY <1>1, <2>2, TailOfOne
    <2> QED  BY <1>1, <2>1, <2>3 DEF IInv, Shape
  <1>4. AlertInv'
    <2>1. CASE d = "dag"
      <3>1. result["dag"] = "none" /\ alerts = 0
        BY <1>1, <2>1 DEF IInv, AlertInv, OneAlert
      <3>2. /\ todo'["dag"] = Tail(todo["dag"]) /\ todo["dag"] \in Seq(DagStep)
            /\ result'["dag"] = IF Len(todo["dag"]) = 1 THEN "ok" ELSE "none"
        BY <1>1, <2>1, <3>1 DEF IInv, Shape, Who
      <3>3. todo'["dag"] # <<>> => result'["dag"] = "none"
        <4>1. Len(todo["dag"]) = 1 => Tail(todo["dag"]) = <<>>
          BY <1>1, <2>1, <3>2, TailOfOne
        <4> QED  BY <3>2, <4>1
      <3> QED  BY <1>1, <3>1, <3>2, <3>3 DEF AlertInv, OneAlert
    <2>2. CASE d = "operator"
      <3>1. todo'["dag"] = todo["dag"] /\ result'["dag"] = result["dag"]
        BY <1>1, <2>2 DEF IInv, Shape, Who
      <3> QED  BY <1>1, <3>1 DEF IInv, AlertInv, OneAlert
    <2> QED  BY <2>1, <2>2 DEF Who
  <1>5. HomeInv'
    <2>1. ASSUME NEW e \in Who, ~Excused(e)
          PROVE  used'[e] \subseteq {Home(e)}
      <3>1. used[e] \subseteq {Home(e)}
        BY <2>1 DEF IInv, HomeInv
      <3>2. CASE e = d /\ Head(todo[d]).kind # "deps"
        <4>1. Target(d, Head(todo[d])) = Home(e)
          BY <1>1, <2>1, <3>2, AtHome DEF IInv
        <4> QED  BY <1>2, <3>1, <3>2, <4>1 DEF IInv, Shape
      <3>3. CASE ~(e = d /\ Head(todo[d]).kind # "deps")
        BY <1>2, <2>1, <3>1, <3>3 DEF IInv, Shape
      <3> QED  BY <3>2, <3>3
    <2>2. \A e \in Who : Home(e)' = Home(e) /\ (Excused(e)' <=> Excused(e))
      BY <1>1 DEF Home, Loaded, Excused
    <2> QED  BY <2>1, <2>2 DEF HomeInv
  <1> QED  BY <1>3, <1>4, <1>5 DEF IInv

LEMMA Failing ==
  ASSUME IInv, NEW d \in Who, todo[d] # <<>>, Fail(d)
  PROVE  IInv'
  <1> DEFINE final == d = "operator" \/ tries[d] = Retries
  <1>1. /\ todo' = [todo EXCEPT ![d] = IF final THEN <<>> ELSE @]
        /\ result' = [result EXCEPT ![d] = IF final THEN "failed" ELSE @]
        /\ alerts' = IF d = "dag" THEN Alert(final) ELSE alerts
        /\ UNCHANGED <<file, shell, container, used, edited>>
    BY DEF Fail, settings
  <1>2. Shape'
    <2>1. todo' = [e \in Who |-> todo'[e]] /\ result' = [e \in Who |-> result'[e]]
      BY <1>1 DEF IInv, Shape
    <2>2. todo'["dag"] \in {todo["dag"], <<>>} /\ todo["dag"] \in Seq(DagStep)
      BY <1>1 DEF IInv, Shape, Who
    <2>3. todo'["dag"] \in Seq(DagStep)
      <3>1. <<>> \in Seq(DagStep)
        OBVIOUS
      <3> QED  BY <2>2, <3>1
    <2> QED  BY <1>1, <2>1, <2>3 DEF IInv, Shape
  <1>3. AlertInv'
    <2>1. CASE d = "dag" /\ final
      BY <1>1, <2>1 DEF IInv, Shape, AlertInv, OneAlert, Alert, Who
    <2>2. CASE d = "dag" /\ ~final
      BY <1>1, <2>2 DEF IInv, Shape, AlertInv, OneAlert, Alert, Who
    <2>3. CASE d = "operator"
      BY <1>1, <2>3 DEF IInv, Shape, AlertInv, OneAlert, Who
    <2> QED  BY <2>1, <2>2, <2>3 DEF Who
  <1>4. HomeInv'
    BY <1>1 DEF IInv, HomeInv, Excused, Home, Loaded
  <1> QED  BY <1>2, <1>3, <1>4 DEF IInv

\* Whoever works with what is edited is excused; the others do not see it.
LEMMA Editing ==
  ASSUME IInv, CreateContainers \/ \E new \in [host : Hosts, limits : {"ok", "zero"}] : EditFile(new)
  PROVE  IInv'
  <1>1. UNCHANGED <<shell, todo, used, result, alerts>>
    BY DEF CreateContainers, EditFile, runs
  <1>2. Shape' /\ AlertInv'
    <2>1. edited' = [d \in Who |-> edited'[d]]
      BY DEF CreateContainers, EditFile, IInv, Shape
    <2> QED  BY <1>1, <2>1 DEF IInv, Shape, AlertInv, OneAlert
  <1>3. CASE CreateContainers
    <2>1. Excused("dag")'
      BY <1>3 DEF CreateContainers, IInv, Shape, Excused, Who
    <2>2. Home("operator")' = Home("operator") /\ (Excused("operator")' <=> Excused("operator"))
      BY <1>3 DEF CreateContainers, IInv, Shape, Home, Loaded, Excused, Who
    <2> QED  BY <1>1, <1>2, <2>1, <2>2 DEF IInv, HomeInv, Who
  <1>4. ASSUME NEW new \in [host : Hosts, limits : {"ok", "zero"}], EditFile(new)
        PROVE  IInv'
    <2>1. Excused("operator")'
      BY <1>4 DEF EditFile, Excused, Who
    <2>2. Excused("dag")' \/ (~Excused("dag") /\ Home("dag")' = Home("dag"))
      BY <1>4 DEF EditFile, Excused, Home, Loaded, Who
    <2> QED  BY <1>1, <1>2, <2>1, <2>2 DEF IInv, HomeInv, Who
  <1> QED  BY <1>3, <1>4

LEMMA InvStep == IInv /\ [Next]_vars => IInv'
  <1> SUFFICES ASSUME IInv, [Next]_vars
               PROVE  IInv'
    OBVIOUS
  <1>1. CASE Correct \/ UNCHANGED vars
    <2>1. UNCHANGED <<file, shell, container, todo, used, result, alerts, edited>>
      BY <1>1 DEF Correct, vars, settings, runs
    <2> QED  BY <2>1 DEF IInv, Shape, AlertInv, OneAlert, HomeInv, Excused, Home, Loaded
  <1>2. ASSUME NEW d \in Who, Refused(d) \/ Fault(d)
        PROVE  IInv'
    BY <1>2, Failing DEF Refused, Fault
  <1> QED  BY <1>1, <1>2, Starting, Succeeding, Editing DEF Next, Work

THEOREM Invariant == Spec => []IInv
  BY InvInit, InvStep, PTL DEF Spec

-----------------------------------------------------------------------------
\* All steps of a run work on one warehouse, unless the shell contradicts .env or
\* the settings change under it (config.py:3).
THEOREM OneWarehouseHolds == Spec => []OneWarehouse
  <1>1. IInv => OneWarehouse
    <2> SUFFICES ASSUME IInv, NEW d \in Who, ~Excused(d)
                 PROVE  Cardinality(used[d]) <= 1
      BY DEF OneWarehouse, Excused
    <2>1. used[d] \subseteq {Home(d)}
      BY DEF IInv, HomeInv
    <2>2. IsFiniteSet({Home(d)}) /\ Cardinality({Home(d)}) = 1
      BY FS_Singleton
    <2> QED  BY <2>1, <2>2, FS_Subset
  <1> QED  BY <1>1, Invariant, PTL

\* A failed run of the DAG is reported once, however often its tasks were tried
\* again (callbacks.py:3).
THEOREM OneAlertHolds == Spec => []OneAlert
  <1>1. IInv => OneAlert
    BY DEF IInv, AlertInv
  <1> QED  BY <1>1, Invariant, PTL

=============================================================================
