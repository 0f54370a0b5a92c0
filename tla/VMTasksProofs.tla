---------------------------- MODULE VMTasksProofs ----------------------------
(***************************************************************************)
(* Proofs about task sessions, for every number of tasks, ring size,       *)
(* counter width, deadline range and pump budget.                          *)
(***************************************************************************)
EXTENDS VMTasks, FiniteSetTheorems, TLAPS

Outcomes == {"INVALID"} \cup Terminals
Executions == {"NULL", "YIELDED", "WAITING"}
Errors == {"none", "own", "child"}

\* The requests outstanding in the session.
Outstanding == {t \in Used : pending[t]}

\* Any set of slots is finite, so that it has a cardinality.
LEMMA SlotsFinite ==
    ASSUME NEW S \in SUBSET Slots
    PROVE  IsFiniteSet(S) /\ Cardinality(S) \in Nat
  <1>1. IsFiniteSet(Slots)
    BY LimitsAssumption, FS_Interval DEF Slots
  <1> QED
    BY <1>1, FS_Subset, FS_CardinalityType

\* release_request keeps the types of what it changes.
LEMMA ReleaseTypes ==
    ASSUME TypeOK, NEW S \in SUBSET Slots, release_request(S)
    PROVE  /\ pending' \in [Slots -> BOOLEAN]
           /\ queued' \in [Slots -> BOOLEAN]
           /\ released' \in Nat
  <1>1. Cardinality({t \in S : pending[t]}) \in Nat
    BY SlotsFinite
  <1>2. released' \in Nat
    BY <1>1 DEF TypeOK, release_request
  <1>3. pending' \in [Slots -> BOOLEAN]
    BY DEF TypeOK, release_request
  <1>4. queued' \in [Slots -> BOOLEAN]
    BY DEF TypeOK, release_request
  <1> QED
    BY <1>2, <1>3, <1>4

\* finish_body keeps the types of what it changes.
LEMMA FinishTypes ==
    ASSUME TypeOK,
           NEW C \in SUBSET Slots, NEW B \in SUBSET Slots,
           NEW o \in Terminals, NEW e \in Errors, NEW s \in [Slots -> Statuses],
           FinishBodies(C, B, o, e, s)
    PROVE  /\ status' \in [Slots -> Statuses]
           /\ outcome' \in [Slots -> Outcomes]
           /\ execution' \in [Slots -> Executions]
           /\ result' \in [Slots -> BOOLEAN]
           /\ error' \in [Slots -> Errors]
           /\ pending' \in [Slots -> BOOLEAN]
           /\ queued' \in [Slots -> BOOLEAN]
           /\ released' \in Nat
           /\ generation' = generation
           /\ registered' = registered
  <1>1. status' \in [Slots -> Statuses]
    BY DEF FinishBodies, Statuses, Terminals
  <1>2. outcome' \in [Slots -> Outcomes]
    BY DEF TypeOK, FinishBodies, Outcomes, Terminals
  <1>3. execution' \in [Slots -> Executions]
    BY DEF TypeOK, FinishBodies, Executions
  <1>4. result' \in [Slots -> BOOLEAN]
    BY DEF TypeOK, FinishBodies
  <1>5. error' \in [Slots -> Errors]
    BY DEF TypeOK, FinishBodies, Errors
  <1>6. /\ pending' \in [Slots -> BOOLEAN]
        /\ queued' \in [Slots -> BOOLEAN]
        /\ released' \in Nat
    BY ReleaseTypes DEF FinishBodies
  <1> QED
    BY <1>1, <1>2, <1>3, <1>4, <1>5, <1>6 DEF FinishBodies

\* What is admitted, or live, or cancelled by a call, is a set of slots.
LEMMA SlotSets ==
    ASSUME TypeOK
    PROVE  /\ Used \subseteq Slots
           /\ \A t : t \in Ready => t \in Used
           /\ Expired \subseteq Used
           /\ \A R : cancel_tree(R) \subseteq Used
           /\ \A p : cancel_children(p) \subseteq Used
  <1>1. Used \subseteq Slots
    BY LimitsAssumption DEF TypeOK, Used, Slots
  <1>2. \A t : t \in Ready => t \in Used
    BY DEF Ready
  <1>3. Expired \subseteq Used
    BY DEF Expired, Live
  <1>4. \A R : cancel_tree(R) \subseteq Used
    BY DEF cancel_tree, Live, Tree
  <1>5. \A p : cancel_children(p) \subseteq Used
    BY DEF cancel_children, Live, Tree
  <1> QED
    BY <1>1, <1>2, <1>3, <1>4, <1>5

\* The completion delivered next is about a task.
LEMMA FirstCompletion ==
    ASSUME TypeOK, deliver_completions
    PROVE  Head(events) \in Completions /\ Head(events).task \in Slots
  <1>1. events \in Seq(Completions)
    BY DEF TypeOK
  <1>2. events # << >>
    BY DEF deliver_completions
  <1>3. Head(events) \in Completions
    BY <1>1, <1>2
  <1> QED
    BY <1>3 DEF Completions

\* A visit of settle() is of a slot, and leaves the tree as it is.
LEMMA VisitedSlot ==
    ASSUME TypeOK, SettleVisit
    PROVE  /\ visit \in Slots /\ visit' = visit - 1 /\ visit' \in 0 .. TaskLimit
           /\ pc = "settle" /\ pc' = pc /\ UNCHANGED treeVars
  <1>1. visit \in 0 .. TaskLimit /\ visit > 0
    BY DEF SettleVisit, TypeOK
  <1>2. /\ visit' = visit - 1 /\ pc = "settle" /\ pc' = pc
        /\ UNCHANGED treeVars
    BY DEF SettleVisit
  <1>3. visit \in Slots /\ visit' \in 0 .. TaskLimit
    BY <1>1, <1>2, LimitsAssumption DEF Slots
  <1> QED
    BY <1>2, <1>3

\* vm_tasks_spawn takes the slot after the last one in use.
LEMMA SpawnedSlot ==
    ASSUME TypeOK, NEW p, NEW async, NEW d, vm_tasks_spawn(p, async, d)
    PROVE  /\ count' = count + 1 /\ count + 1 \in Slots
           /\ Used' = Used \cup {count + 1} /\ count + 1 \notin Used
  <1>1. count \in 0 .. TaskLimit /\ count < TaskLimit /\ count' = count + 1
    BY DEF vm_tasks_spawn, TypeOK
  <1>2. count + 1 \in Slots
    BY <1>1, LimitsAssumption DEF Slots
  <1>3. Used' = Used \cup {count + 1} /\ count + 1 \notin Used
    BY <1>1, LimitsAssumption DEF Used
  <1> QED
    BY <1>1, <1>2, <1>3

\* A body that ends keeps the types of what it changes.
LEMMA EndBodyTypes ==
    ASSUME TypeOK, NEW t \in Slots, NEW o \in Terminals,
           NEW where \in {"deliver", "dispatch"}, EndBody(t, o, where)
    PROVE  /\ status' \in [Slots -> Statuses]
           /\ outcome' \in [Slots -> Outcomes]
           /\ execution' \in [Slots -> Executions]
           /\ result' \in [Slots -> BOOLEAN]
           /\ error' \in [Slots -> Errors]
           /\ pending' \in [Slots -> BOOLEAN]
           /\ queued' \in [Slots -> BOOLEAN]
           /\ released' \in Nat
           /\ generation' = generation
           /\ registered' = registered
           /\ pc' = "settle" /\ return' = where /\ visit' \in 0 .. TaskLimit
  <1> DEFINE C == IF o = "COMPLETED" THEN {} ELSE cancel_children(t)
             e == IF o = "TRAPPED" THEN "own" ELSE error[t]
  <1>1. C \in SUBSET Slots /\ {t} \in SUBSET Slots
    BY SlotSets
  <1>2. e \in Errors /\ status \in [Slots -> Statuses]
    BY DEF TypeOK, Errors
  <1>3. FinishBodies(C, {t}, o, e, status)
    BY DEF EndBody
  <1>4. pc' = "settle" /\ return' = where /\ visit' \in 0 .. TaskLimit
    BY DEF EndBody, StartSettle, TypeOK
  <1> HIDE DEF C, e
  <1> QED
    BY <1>1, <1>2, <1>3, <1>4, FinishTypes

\* The scan stops at an admitted task and leaves the cursor on an admitted one.
LEMMA ScanTypes ==
    ASSUME TypeOK, NEW t \in Slots, Scan(t)
    PROVE  /\ t \in Used
           /\ cursor' \in 0 .. TaskLimit - 1
           /\ budget' \in 0 .. MaxBudget
  <1>1. t \in Used /\ count \in 1 .. TaskLimit
    BY LimitsAssumption DEF Scan, Ready, Used, TypeOK, Slots
  <1>2. t % count \in 0 .. count - 1
    BY <1>1 DEF Used
  <1>3. cursor' = t % count /\ budget > 0 /\ budget' = budget - 1
    BY DEF Scan
  <1>4. cursor' \in 0 .. TaskLimit - 1
    BY <1>1, <1>2, <1>3, LimitsAssumption
  <1>5. budget' \in 0 .. MaxBudget
    BY <1>3, LimitsAssumption DEF TypeOK
  <1> QED
    BY <1>1, <1>4, <1>5

-----------------------------------------------------------------------------
(* Type correctness.                                                        *)

\* Every step of every call keeps the types.
LEMMA TypeStep ==
    TypeOK /\ [Next]_vars => TypeOK'
  <1> SUFFICES ASSUME TypeOK, [Next]_vars
               PROVE  TypeOK'
    OBVIOUS
  <1> USE LimitsAssumption
  <1>0. Used \subseteq Slots /\ Expired \subseteq Slots
        /\ (\A R : cancel_tree(R) \in SUBSET Slots)
        /\ (\A p : cancel_children(p) \in SUBSET Slots)
    BY SlotSets
  <1>1. ASSUME NEW p \in {0} \cup Used, NEW async \in AsyncModes, NEW d \in Ticks,
               vm_tasks_spawn(p, async, d)
        PROVE  TypeOK'
    <2>1. /\ count' \in 0 .. TaskLimit
          /\ count + 1 \in Slots
      BY <1>1 DEF TypeOK, vm_tasks_spawn, Slots
    <2>2. /\ parent' \in [Slots -> {0} \cup Slots]
          /\ deadline' \in [Slots -> Ticks]
          /\ async_read' \in [Slots -> BOOLEAN]
      BY <1>0, <1>1, <2>1 DEF TypeOK, vm_tasks_spawn
    <2>3. /\ status' \in [Slots -> Statuses]
          /\ execution' \in [Slots -> {"NULL", "YIELDED", "WAITING"}]
      BY <1>1, <2>1 DEF TypeOK, vm_tasks_spawn, Statuses
    <2> QED
      BY <1>1, <2>1, <2>2, <2>3 DEF TypeOK, vm_tasks_spawn, requestVars, controlVars
  <1>2. ASSUME NEW t \in Used, vm_tasks_cancel(t)
        PROVE  TypeOK'
    <2>1. FinishBodies(cancel_tree({t}), {}, "CANCELLED", "none", status)
      BY <1>2 DEF vm_tasks_cancel
    <2>2. status \in [Slots -> Statuses] /\ "CANCELLED" \in Terminals /\ "none" \in Errors
      BY DEF TypeOK, Terminals, Errors
    <2>3. cancel_tree({t}) \in SUBSET Slots
      BY <1>0
    <2> QED
      BY <1>2, <2>1, <2>2, <2>3, FinishTypes
         DEF TypeOK, vm_tasks_cancel, StartSettle, treeVars, Outcomes, Executions, Errors
  <1>3. ASSUME NEW t \in Used, NEW g \in 1 .. MaxGeneration,
               NEW a \in PrintAnswers \cup ReadAnswers, complete(t, g, a)
        PROVE  TypeOK'
    <2>1. [task |-> t, generation |-> g, answer |-> a] \in Completions
      BY <1>0 DEF Completions
    <2>2. events' \in Seq(Completions) /\ Len(events') <= EventLimit
      BY <1>3, <2>1 DEF TypeOK, complete, Accepts
    <2>3. queued' \in [Slots -> BOOLEAN]
      BY <1>3 DEF TypeOK, complete
    <2> QED
      BY <1>3, <2>2, <2>3 DEF TypeOK, complete, treeVars, bodyVars, controlVars
  <1>4. ASSUME NEW n \in Ticks, NEW b \in 0 .. MaxBudget, PumpBegin(n, b)
        PROVE  TypeOK'
    BY <1>4 DEF TypeOK, PumpBegin, treeVars, bodyVars, requestVars
  <1>5. CASE vm_tasks_destroy
    <2>1. release_request(Used)
      BY <1>5 DEF vm_tasks_destroy
    <2>2. /\ pending' \in [Slots -> BOOLEAN]
          /\ queued' \in [Slots -> BOOLEAN]
          /\ released' \in Nat
      BY <1>0, <2>1, ReleaseTypes
    <2>3. /\ execution' \in [Slots -> {"NULL", "YIELDED", "WAITING"}]
          /\ result' \in [Slots -> BOOLEAN]
          /\ events' \in Seq(Completions) /\ Len(events') <= EventLimit
      BY <1>5 DEF vm_tasks_destroy
    <2> QED
      BY <1>5, <2>2, <2>3 DEF TypeOK, vm_tasks_destroy, treeVars
  <1>6. CASE SettleVisit
    <2> DEFINE t == visit
               s == IF Joined(t) THEN [status EXCEPT ![t] = outcome[t]] ELSE status
    <2>1. t \in Slots /\ visit' \in 0 .. TaskLimit
      BY <1>6, VisitedSlot
    <2>2. s \in [Slots -> Statuses]
      BY <2>1 DEF TypeOK, Statuses
    <2>3. CASE TrapsParent(t, s[t])
      <3>1. FinishBodies(cancel_children(parent[t]) \ {t}, {parent[t]}, "TRAPPED", "child", s)
        BY <1>6, <2>3 DEF SettleVisit
      <3>2. {parent[t]} \in SUBSET Slots
        BY <2>1, <2>3 DEF TypeOK, TrapsParent
      <3>3. cancel_children(parent[t]) \ {t} \in SUBSET Slots
        BY <1>0
      <3>4. "TRAPPED" \in Terminals /\ "child" \in Errors
        BY DEF Terminals, Errors
      <3> HIDE DEF s
      <3>5. /\ status' \in [Slots -> Statuses]
            /\ outcome' \in [Slots -> Outcomes]
            /\ execution' \in [Slots -> Executions]
            /\ result' \in [Slots -> BOOLEAN]
            /\ error' \in [Slots -> Errors]
            /\ pending' \in [Slots -> BOOLEAN]
            /\ queued' \in [Slots -> BOOLEAN]
            /\ released' \in Nat
            /\ generation' = generation
            /\ registered' = registered
        BY <2>2, <3>1, <3>2, <3>3, <3>4, FinishTypes
      <3> QED
        BY <1>6, <2>1, <3>5 DEF TypeOK, SettleVisit, treeVars, Outcomes, Executions, Errors
    <2>4. CASE ~TrapsParent(t, s[t])
      <3>1. status' \in [Slots -> Statuses]
        BY <1>6, <2>2, <2>4 DEF SettleVisit
      <3> QED
        BY <1>6, <2>1, <2>4, <3>1 DEF TypeOK, SettleVisit, treeVars
    <2> QED
      BY <2>3, <2>4
  <1>7. CASE SettleReturn
    BY <1>7 DEF TypeOK, SettleReturn, treeVars, bodyVars, requestVars
  <1>8. CASE deliver_completions
    <2> DEFINE e == Head(events)
               t == e.task
    <2>1. /\ events' \in Seq(Completions) /\ Len(events') <= EventLimit
          /\ e \in Completions
      BY <1>8 DEF deliver_completions, TypeOK
    <2>2. t \in Slots
      BY <2>1 DEF Completions
    <2> HIDE DEF t
    <2>3. CASE UNCHANGED <<bodyVars, generation, pending, queued, registered,
                           released, pc, return, visit>>
      BY <1>8, <2>1, <2>3 DEF deliver_completions, TypeOK, treeVars, bodyVars
    <2>4. CASE EndBody(t, "TRAPPED", "deliver")
      <3>1. /\ status' \in [Slots -> Statuses] /\ outcome' \in [Slots -> Outcomes]
            /\ execution' \in [Slots -> Executions] /\ result' \in [Slots -> BOOLEAN]
            /\ error' \in [Slots -> Errors] /\ pending' \in [Slots -> BOOLEAN]
            /\ queued' \in [Slots -> BOOLEAN] /\ released' \in Nat
            /\ generation' = generation /\ registered' = registered
            /\ pc' = "settle" /\ return' = "deliver" /\ visit' \in 0 .. TaskLimit
        BY <2>2, <2>4, EndBodyTypes DEF Terminals
      <3>2. UNCHANGED <<treeVars, cursor, now, budget>>
        BY <1>8 DEF deliver_completions
      <3> QED
        BY <2>1, <3>1, <3>2 DEF TypeOK, treeVars, Outcomes, Executions, Errors
    <2>5. CASE /\ release_request({t})
               /\ execution' = [execution EXCEPT ![t] = "YIELDED"]
               /\ status' = [status EXCEPT ![t] = "READY"]
               /\ UNCHANGED <<outcome, result, error, generation, registered,
                              pc, return, visit>>
      <3>1. /\ pending' \in [Slots -> BOOLEAN]
            /\ queued' \in [Slots -> BOOLEAN]
            /\ released' \in Nat
        BY <2>2, <2>5, ReleaseTypes
      <3>2. /\ execution' \in [Slots -> {"NULL", "YIELDED", "WAITING"}]
            /\ status' \in [Slots -> Statuses]
        BY <2>5 DEF TypeOK, Statuses
      <3> QED
        BY <1>8, <2>1, <2>5, <3>1, <3>2 DEF deliver_completions, TypeOK, treeVars
    <2> QED
      BY <1>8, <2>3, <2>4, <2>5 DEF deliver_completions, t
  <1>9. CASE ExpireDeadlines
    <2>1. FinishBodies(cancel_tree(Expired), {}, "CANCELLED", "none", status)
      BY <1>9 DEF ExpireDeadlines
    <2>2. status \in [Slots -> Statuses] /\ "CANCELLED" \in Terminals /\ "none" \in Errors
      BY DEF TypeOK, Terminals, Errors
    <2>3. cancel_tree(Expired) \in SUBSET Slots
      BY <1>0
    <2> QED
      BY <1>9, <2>1, <2>2, <2>3, FinishTypes
         DEF TypeOK, ExpireDeadlines, StartSettle, treeVars, Outcomes, Executions, Errors
  <1>10. ASSUME NEW t \in Slots, Dispatch(t)
         PROVE  TypeOK'
    <2>1. Scan(t)
      BY <1>10 DEF Dispatch, DispatchYield, DispatchWait, DispatchEnd
    <2>2. cursor' \in 0 .. TaskLimit - 1 /\ budget' \in 0 .. MaxBudget
      BY <2>1, ScanTypes
    <2>3. CASE DispatchYield(t)
      BY <2>2, <2>3 DEF DispatchYield, TypeOK, treeVars, bodyVars, requestVars
    <2>4. CASE DispatchWait(t)
      <3>1. /\ generation' \in [Slots -> 0 .. MaxGeneration]
            /\ registered' \in 0 .. MaxRegistered
        BY <2>4 DEF DispatchWait, Registers, TypeOK
      <3>2. /\ pending' \in [Slots -> BOOLEAN]
            /\ execution' \in [Slots -> {"NULL", "YIELDED", "WAITING"}]
            /\ status' \in [Slots -> Statuses]
        BY <2>4 DEF DispatchWait, TypeOK, Statuses
      <3> QED
        BY <2>2, <2>4, <3>1, <3>2 DEF DispatchWait, TypeOK, treeVars
    <2>5. ASSUME NEW o \in {"COMPLETED", "EXITED", "TRAPPED"}, DispatchEnd(t, o)
          PROVE  TypeOK'
      <3>1. EndBody(t, o, "dispatch") /\ o \in Terminals
        BY <2>5 DEF DispatchEnd, Terminals
      <3> QED
        BY <2>2, <2>5, <3>1, EndBodyTypes
           DEF DispatchEnd, TypeOK, treeVars, Outcomes, Executions, Errors
    <2> QED
      BY <1>10, <2>3, <2>4, <2>5 DEF Dispatch
  <1>11. CASE PumpEnd
    BY <1>11 DEF TypeOK, PumpEnd, treeVars, bodyVars, requestVars
  <1>12. CASE UNCHANGED vars
    BY <1>12 DEF TypeOK, vars, treeVars, bodyVars, requestVars, controlVars
  <1> QED
    BY <1>1, <1>2, <1>3, <1>4, <1>5, <1>6, <1>7, <1>8, <1>9, <1>10, <1>11, <1>12
       DEF Next, Continue

\* Type correctness of the session's state: counters stay below the value at
\* which they would wrap, the ring below its capacity, the cursor and every
\* parent link inside the task array.
THEOREM TypeCorrect == Spec => []TypeOK
  <1>1. Init => TypeOK
    <2> SUFFICES ASSUME Init PROVE TypeOK
      OBVIOUS
    <2> QED
      BY LimitsAssumption DEF Init, TypeOK, Ticks, Slots, Statuses
  <1> QED
    BY <1>1, TypeStep, PTL DEF Spec

-----------------------------------------------------------------------------
(* Admission: parents precede their children and unused slots are blank.    *)
(* settle and cancel_tree rely on the order ("Parent ids precede children").*)

Admission ==
    \A t \in Slots : /\ parent[t] < t
                     /\ t \notin Used => ~pending[t] /\ parent[t] = 0

\* Only spawn writes parent links, and only dispatch makes a request.
LEMMA AdmissionStep ==
    TypeOK /\ Admission /\ [Next]_vars => Admission'
  <1> SUFFICES ASSUME TypeOK, Admission, [Next]_vars
               PROVE  Admission'
    OBVIOUS
  <1> USE LimitsAssumption
  <1>a. ASSUME UNCHANGED treeVars, \A t \in Slots : t \notin Used /\ pending'[t] => pending[t]
        PROVE  Admission'
    BY <1>a DEF Admission, treeVars, Used
  <1>b. ASSUME NEW S, release_request(S)
        PROVE  \A t \in Slots : pending'[t] => pending[t]
    BY <1>b DEF release_request
  <1>c. ASSUME NEW C, NEW B, NEW o, NEW e, NEW s, FinishBodies(C, B, o, e, s)
        PROVE  \A t \in Slots : pending'[t] => pending[t]
    BY <1>b, <1>c DEF FinishBodies
  <1>d. ASSUME NEW t, NEW o, NEW where, EndBody(t, o, where)
        PROVE  \A u \in Slots : pending'[u] => pending[u]
    BY <1>c, <1>d DEF EndBody
  <1>1. ASSUME NEW p \in {0} \cup Used, NEW async \in AsyncModes, NEW d \in Ticks,
               vm_tasks_spawn(p, async, d)
        PROVE  Admission'
    <2>1. count' = count + 1 /\ pending' = pending /\ p < count + 1
      BY <1>1 DEF vm_tasks_spawn, requestVars, Used, TypeOK
    <2>2. \A t \in Slots : parent'[t] = IF t = count + 1 THEN p ELSE parent[t]
      BY <1>1 DEF vm_tasks_spawn, TypeOK
    <2> QED
      BY <2>1, <2>2 DEF Admission, Used, Slots, TypeOK
  <1>2. ASSUME NEW t \in Used, vm_tasks_cancel(t)
        PROVE  Admission'
    BY <1>2, <1>a, <1>c DEF vm_tasks_cancel
  <1>3. ASSUME NEW t \in Used, NEW g \in 1 .. MaxGeneration,
               NEW a \in PrintAnswers \cup ReadAnswers, complete(t, g, a)
        PROVE  Admission'
    BY <1>3, <1>a DEF complete
  <1>4. ASSUME NEW n \in Ticks, NEW b \in 0 .. MaxBudget, PumpBegin(n, b)
        PROVE  Admission'
    BY <1>4, <1>a DEF PumpBegin, requestVars
  <1>5. CASE vm_tasks_destroy
    BY <1>5, <1>a, <1>b DEF vm_tasks_destroy
  <1>6. CASE SettleVisit
    BY <1>6, <1>a, <1>c DEF SettleVisit
  <1>7. CASE SettleReturn
    BY <1>7, <1>a DEF SettleReturn, requestVars
  <1>8. CASE deliver_completions
    BY <1>8, <1>a, <1>b, <1>d DEF deliver_completions
  <1>9. CASE ExpireDeadlines
    BY <1>9, <1>a, <1>c DEF ExpireDeadlines
  <1>10. ASSUME NEW t \in Slots, Dispatch(t)
         PROVE  Admission'
    <2>1. CASE DispatchYield(t)
      BY <2>1, <1>a DEF DispatchYield, requestVars
    <2>2. CASE DispatchWait(t)
      <3>1. t \in Used
        BY <2>2, ScanTypes DEF DispatchWait
      <3> QED
        BY <2>2, <3>1, <1>a DEF DispatchWait, TypeOK
    <2>3. ASSUME NEW o \in {"COMPLETED", "EXITED", "TRAPPED"}, DispatchEnd(t, o)
          PROVE  Admission'
      BY <2>3, <1>a, <1>d DEF DispatchEnd
    <2> QED
      BY <1>10, <2>1, <2>2, <2>3 DEF Dispatch
  <1>11. CASE PumpEnd
    BY <1>11, <1>a DEF PumpEnd, requestVars
  <1>12. CASE UNCHANGED vars
    BY <1>12, <1>a DEF vars, requestVars
  <1> QED
    BY <1>1, <1>2, <1>3, <1>4, <1>5, <1>6, <1>7, <1>8, <1>9, <1>10, <1>11, <1>12
       DEF Next, Continue

\* Parents precede their children in every reachable state.
LEMMA Admitted == Spec => [](TypeOK /\ Admission)
  <1>1. Init => TypeOK /\ Admission
    <2> SUFFICES ASSUME Init PROVE TypeOK /\ Admission
      OBVIOUS
    <2>1. TypeOK
      BY LimitsAssumption DEF Init, TypeOK, Ticks, Slots, Statuses
    <2>2. Admission
      BY LimitsAssumption DEF Init, Admission, Slots
    <2> QED
      BY <2>1, <2>2
  <1>2. TypeOK /\ Admission /\ [Next]_vars => (TypeOK /\ Admission)'
    BY TypeStep, AdmissionStep
  <1> QED
    BY <1>1, <1>2, PTL DEF Spec

-----------------------------------------------------------------------------
(* Requests: what is registered and not released is outstanding.            *)

\* release_request on admitted tasks keeps the balance: it counts exactly the
\* requests that stop being outstanding.
LEMMA ReleaseBalance ==
    ASSUME TypeOK, NEW S \in SUBSET Used, release_request(S),
           count' = count, registered' = registered,
           registered - released = Cardinality(Outstanding)
    PROVE  /\ registered' - released' = Cardinality(Outstanding')
           /\ S = Used => Outstanding' = {}
  <1> DEFINE K == {t \in S : pending[t]}
  <1>1. Used \subseteq Slots
    BY SlotSets
  <1>2. Outstanding' = Outstanding \ K
    BY <1>1 DEF Outstanding, release_request, Used
  <1>3. Outstanding \cap K = K
    BY DEF Outstanding
  <1>4. IsFiniteSet(Outstanding) /\ Cardinality(K) \in Nat /\ Cardinality(Outstanding) \in Nat
    BY <1>1, SlotsFinite DEF Outstanding
  <1>6. released' = released + Cardinality(K)
    BY DEF release_request
  <1>7. S = Used => Outstanding' = {}
    BY <1>1 DEF Outstanding, release_request, Used
  <1> HIDE DEF K
  <1>5. Cardinality(Outstanding') = Cardinality(Outstanding) - Cardinality(K)
    <2>1. Cardinality(Outstanding \ K) = Cardinality(Outstanding) - Cardinality(Outstanding \cap K)
      BY <1>4, FS_Difference
    <2> QED
      BY <1>2, <1>3, <2>1
  <1> QED
    BY <1>4, <1>5, <1>6, <1>7 DEF TypeOK

\* Steps that touch no request and admit no task keep the balance.
LEMMA BalanceFrame ==
    ASSUME RequestsBalance, UNCHANGED <<count, pending, registered, released>>,
           pc' # "destroyed"
    PROVE  RequestsBalance'
  BY DEF RequestsBalance, Used

LEMMA BalanceStep ==
    TypeOK /\ Admission /\ RequestsBalance /\ [Next]_vars => RequestsBalance'
  <1> SUFFICES ASSUME TypeOK, Admission, RequestsBalance, [Next]_vars
               PROVE  RequestsBalance'
    OBVIOUS
  <1> USE LimitsAssumption
  <1>0. Used \subseteq Slots /\ Expired \subseteq Used
        /\ (\A R : cancel_tree(R) \subseteq Used)
        /\ (\A p : cancel_children(p) \subseteq Used)
    BY SlotSets
  <1>a. registered - released = Cardinality(Outstanding)
    BY DEF RequestsBalance, Outstanding
  <1>b. ASSUME NEW S \in SUBSET Used, release_request(S), UNCHANGED <<count, registered>>,
               pc' # "destroyed"
        PROVE  RequestsBalance'
    BY <1>a, <1>b, ReleaseBalance DEF RequestsBalance, Outstanding
  <1>c. ASSUME NEW C \in SUBSET Used, NEW B \in SUBSET Used, NEW o, NEW e, NEW s,
               FinishBodies(C, B, o, e, s), UNCHANGED treeVars, pc' # "destroyed"
        PROVE  RequestsBalance'
    BY <1>b, <1>c DEF FinishBodies, treeVars
  <1>d. ASSUME NEW t \in Used, NEW o, NEW where, EndBody(t, o, where), UNCHANGED treeVars
        PROVE  RequestsBalance'
    <2> DEFINE C == IF o = "COMPLETED" THEN {} ELSE cancel_children(t)
               e == IF o = "TRAPPED" THEN "own" ELSE error[t]
    <2>1. C \in SUBSET Used /\ {t} \in SUBSET Used
      BY <1>0, <1>d
    <2>2. FinishBodies(C, {t}, o, e, status) /\ pc' # "destroyed"
      BY <1>d DEF EndBody, StartSettle
    <2> HIDE DEF C, e
    <2> QED
      BY <1>c, <1>d, <2>1, <2>2
  <1>1. ASSUME NEW p \in {0} \cup Used, NEW async \in AsyncModes, NEW d \in Ticks,
               vm_tasks_spawn(p, async, d)
        PROVE  RequestsBalance'
    <2>1. /\ count' = count + 1 /\ count + 1 \in Slots /\ count + 1 \notin Used
          /\ UNCHANGED <<pending, registered, released, pc>> /\ pc = "idle"
      BY <1>1 DEF vm_tasks_spawn, requestVars, controlVars, TypeOK, Slots, Used
    <2>2. ~pending[count + 1]
      BY <2>1 DEF Admission
    <2>3. {t \in Used' : pending'[t]} = {t \in Used : pending[t]}
      BY <2>1, <2>2 DEF Used, TypeOK
    <2> QED
      BY <2>1, <2>3 DEF RequestsBalance
  <1>2. ASSUME NEW t \in Used, vm_tasks_cancel(t)
        PROVE  RequestsBalance'
    <2>1. cancel_tree({t}) \in SUBSET Used /\ {} \in SUBSET Used
      BY <1>0
    <2> QED
      BY <1>2, <1>c, <2>1 DEF vm_tasks_cancel, StartSettle
  <1>3. ASSUME NEW t \in Used, NEW g \in 1 .. MaxGeneration,
               NEW a \in PrintAnswers \cup ReadAnswers, complete(t, g, a)
        PROVE  RequestsBalance'
    BY <1>3, BalanceFrame DEF complete, treeVars, controlVars
  <1>4. ASSUME NEW n \in Ticks, NEW b \in 0 .. MaxBudget, PumpBegin(n, b)
        PROVE  RequestsBalance'
    BY <1>4, BalanceFrame DEF PumpBegin, treeVars, requestVars
  <1>5. CASE vm_tasks_destroy
    <2>1. release_request(Used) /\ UNCHANGED <<count, registered>>
      BY <1>5 DEF vm_tasks_destroy, treeVars
    <2>2. registered' - released' = Cardinality(Outstanding') /\ Outstanding' = {}
      BY <1>a, <2>1, ReleaseBalance
    <2>3. registered' \in Nat /\ released' \in Nat
      BY <1>0, <2>1, ReleaseTypes DEF TypeOK
    <2>4. registered' = released'
      BY <2>2, <2>3, FS_EmptySet
    <2> QED
      BY <2>2, <2>4 DEF RequestsBalance, Outstanding
  <1>6. CASE SettleVisit
    <2> DEFINE t == visit
               s == IF Joined(t) THEN [status EXCEPT ![t] = outcome[t]] ELSE status
    <2>1. UNCHANGED <<treeVars, pc>> /\ pc # "destroyed" /\ t \in Slots
      BY <1>6, VisitedSlot
    <2>2. CASE TrapsParent(t, s[t])
      <3>1. FinishBodies(cancel_children(parent[t]) \ {t}, {parent[t]}, "TRAPPED", "child", s)
        BY <1>6, <2>2 DEF SettleVisit
      <3>2. t \in Used
        BY <2>1, <2>2 DEF TrapsParent, Admission
      <3>3. parent[t] \in Used
        BY <1>0, <2>1, <2>2, <3>2 DEF TrapsParent, TypeOK, Admission, Used, Slots
      <3>4. cancel_children(parent[t]) \ {t} \in SUBSET Used /\ {parent[t]} \in SUBSET Used
        BY <1>0, <3>3
      <3> HIDE DEF s, t
      <3> QED
        BY <1>c, <2>1, <3>1, <3>4
    <2>3. CASE ~TrapsParent(t, s[t])
      BY <1>6, <2>1, <2>3, BalanceFrame DEF SettleVisit, treeVars
    <2> QED
      BY <2>2, <2>3
  <1>7. CASE SettleReturn
    BY <1>7, BalanceFrame DEF SettleReturn, treeVars, requestVars, TypeOK
  <1>8. CASE deliver_completions
    <2> DEFINE t == Head(events).task
    <2>1. UNCHANGED treeVars /\ pc # "destroyed" /\ t \in Slots
      <3>1. t \in Slots
        BY <1>8, FirstCompletion
      <3> QED
        BY <1>8, <3>1 DEF deliver_completions
    <2>2. pending[t] => t \in Used
      BY <2>1 DEF Admission
    <2>3. CASE ~(pending[t] /\ generation[t] = Head(events).generation)
      BY <1>8, <2>1, <2>3, BalanceFrame DEF deliver_completions, treeVars
    <2>4. CASE pending[t] /\ EndBody(t, "TRAPPED", "deliver")
      BY <1>d, <2>1, <2>2, <2>4
    <2>5. CASE pending[t] /\ release_request({t}) /\ UNCHANGED <<registered, pc>>
      BY <1>b, <2>1, <2>2, <2>5 DEF treeVars
    <2> QED
      BY <1>8, <2>3, <2>4, <2>5 DEF deliver_completions
  <1>9. CASE ExpireDeadlines
    <2>1. cancel_tree(Expired) \in SUBSET Used /\ {} \in SUBSET Used
      BY <1>0
    <2> QED
      BY <1>9, <1>c, <2>1 DEF ExpireDeadlines, StartSettle
  <1>10. ASSUME NEW t \in Slots, Dispatch(t)
         PROVE  RequestsBalance'
    <2>1. Scan(t)
      BY <1>10 DEF Dispatch, DispatchYield, DispatchWait, DispatchEnd
    <2>2. t \in Used /\ pc = "dispatch"
      BY <2>1, ScanTypes DEF Scan
    <2>3. CASE DispatchYield(t)
      BY <2>2, <2>3, BalanceFrame DEF DispatchYield, treeVars, requestVars
    <2>4. CASE DispatchWait(t)
      <3>1. Outstanding' = Outstanding \cup {t} /\ t \notin Outstanding
        BY <1>0, <2>2, <2>4 DEF DispatchWait, Registers, Outstanding, Used, treeVars, TypeOK
      <3>2. IsFiniteSet(Outstanding) /\ Cardinality(Outstanding) \in Nat
        BY <1>0, SlotsFinite DEF Outstanding
      <3>3. Cardinality(Outstanding') = Cardinality(Outstanding) + 1
        BY <3>1, <3>2, FS_AddElement
      <3>4. registered' = registered + 1 /\ released' = released /\ pc' = "dispatch"
        BY <2>2, <2>4 DEF DispatchWait
      <3> QED
        BY <1>a, <3>2, <3>3, <3>4 DEF RequestsBalance, Outstanding, TypeOK
    <2>5. ASSUME NEW o \in {"COMPLETED", "EXITED", "TRAPPED"}, DispatchEnd(t, o)
          PROVE  RequestsBalance'
      BY <2>2, <2>5, <1>d DEF DispatchEnd
    <2> QED
      BY <1>10, <2>3, <2>4, <2>5 DEF Dispatch
  <1>11. CASE PumpEnd
    BY <1>11, BalanceFrame DEF PumpEnd, treeVars, requestVars
  <1>12. CASE UNCHANGED vars
    BY <1>12 DEF vars, treeVars, requestVars, controlVars, RequestsBalance, Used
  <1> QED
    BY <1>1, <1>2, <1>3, <1>4, <1>5, <1>6, <1>7, <1>8, <1>9, <1>10, <1>11, <1>12
       DEF Next, Continue

\* Every registered request is released exactly once, for every session size:
\* registered and not released is exactly outstanding, and nothing is left
\* when the session is destroyed (release_request, vm_tasks_destroy).
THEOREM RequestsAccounted == Spec => []RequestsBalance
  <1>1. Init => RequestsBalance
    <2> SUFFICES ASSUME Init PROVE RequestsBalance
      OBVIOUS
    <2>1. {t \in Used : pending[t]} = {}
      BY LimitsAssumption DEF Init, Used
    <2>2. Cardinality({t \in Used : pending[t]}) = 0
      BY <2>1, FS_EmptySet
    <2> QED
      BY <2>2 DEF Init, RequestsBalance
  <1> QED
    BY <1>1, BalanceStep, Admitted, PTL DEF Spec

-----------------------------------------------------------------------------
(* Waiting: status, request and execution agree.                            *)

\* Task t waits in all three of its records, or in none.
WaitAgrees(t) ==
    /\ status[t] = "WAITING" <=> pending[t]
    /\ status[t] = "WAITING" <=> execution[t] = "WAITING"

\* A step that leaves the three records of every admitted task alone.
LEMMA WaitFrame ==
    ASSUME NoLostWait, pc # "destroyed", UNCHANGED <<count, status, pending, execution>>
    PROVE  NoLostWait'
  BY DEF NoLostWait, Used

\* Bodies that end stop waiting; the other tasks keep agreeing when s gives
\* nobody a new wait.
LEMMA FinishWait ==
    ASSUME TypeOK, NoLostWait, pc # "destroyed", count' = count,
           NEW C \in SUBSET Used, NEW B \in SUBSET Used, NEW o, NEW e, NEW s,
           \A t \in Used : s[t] = "WAITING" <=> status[t] = "WAITING",
           FinishBodies(C, B, o, e, s)
    PROVE  NoLostWait'
  <1>1. Used \subseteq Slots /\ Used' = Used
    BY SlotSets DEF Used
  <1>2. ASSUME NEW t \in Used PROVE WaitAgrees(t)'
    <2>1. /\ status'[t] = IF t \in C THEN "CANCELLED"
                           ELSE IF t \in B THEN "JOINING" ELSE s[t]
          /\ execution'[t] = IF t \in C \cup B THEN "NULL" ELSE execution[t]
          /\ pending'[t] <=> t \notin C \cup B /\ pending[t]
      BY <1>1, <1>2 DEF FinishBodies, release_request
    <2>2. WaitAgrees(t)
      BY <1>2 DEF NoLostWait, WaitAgrees
    <2>3. s[t] = "WAITING" <=> status[t] = "WAITING"
      BY <1>2
    <2>4. CASE t \in C \cup B
      BY <2>1, <2>4 DEF WaitAgrees
    <2>5. CASE t \notin C \cup B
      BY <2>1, <2>2, <2>3, <2>5 DEF WaitAgrees
    <2> QED
      BY <2>4, <2>5
  <1> QED
    BY <1>1, <1>2 DEF NoLostWait, WaitAgrees

LEMMA WaitStep ==
    TypeOK /\ Admission /\ NoLostWait /\ [Next]_vars => NoLostWait'
  <1> SUFFICES ASSUME TypeOK, Admission, NoLostWait, [Next]_vars
               PROVE  NoLostWait'
    OBVIOUS
  <1> USE LimitsAssumption
  <1>0. Used \subseteq Slots /\ Expired \subseteq Used
        /\ (\A R : cancel_tree(R) \subseteq Used)
        /\ (\A p : cancel_children(p) \subseteq Used)
    BY SlotSets
  <1>a. ASSUME NEW C \in SUBSET Used, NEW B \in SUBSET Used, NEW o, NEW e,
               FinishBodies(C, B, o, e, status), UNCHANGED treeVars, pc # "destroyed"
        PROVE  NoLostWait'
    BY <1>a, FinishWait DEF treeVars
  <1>b. ASSUME NEW t \in Used, NEW o, NEW where, EndBody(t, o, where), UNCHANGED treeVars,
               pc # "destroyed"
        PROVE  NoLostWait'
    <2> DEFINE C == IF o = "COMPLETED" THEN {} ELSE cancel_children(t)
               e == IF o = "TRAPPED" THEN "own" ELSE error[t]
    <2>1. C \in SUBSET Used /\ {t} \in SUBSET Used
      BY <1>0, <1>b
    <2>2. FinishBodies(C, {t}, o, e, status)
      BY <1>b DEF EndBody
    <2> HIDE DEF C, e
    <2> QED
      BY <1>a, <1>b, <2>1, <2>2
  <1>1. ASSUME NEW p \in {0} \cup Used, NEW async \in AsyncModes, NEW d \in Ticks,
               vm_tasks_spawn(p, async, d)
        PROVE  NoLostWait'
    <2> DEFINE n == count + 1
    <2>1. n \in Slots /\ Used' = Used \cup {n} /\ n \notin Used
      BY <1>1, SpawnedSlot
    <2>2. /\ \A t \in Slots : status'[t] = IF t = n THEN "READY" ELSE status[t]
          /\ \A t \in Slots : execution'[t] = IF t = n THEN "YIELDED" ELSE execution[t]
          /\ pending' = pending /\ pc = "idle"
      BY <1>1 DEF vm_tasks_spawn, TypeOK, requestVars
    <2>3. ~pending[n]
      BY <2>1 DEF Admission
    <2> QED
      BY <1>0, <2>1, <2>2, <2>3 DEF NoLostWait
  <1>2. ASSUME NEW t \in Used, vm_tasks_cancel(t)
        PROVE  NoLostWait'
    <2>1. cancel_tree({t}) \in SUBSET Used /\ {} \in SUBSET Used
      BY <1>0
    <2> QED
      BY <1>2, <1>a, <2>1 DEF vm_tasks_cancel
  <1>3. ASSUME NEW t \in Used, NEW g \in 1 .. MaxGeneration,
               NEW a \in PrintAnswers \cup ReadAnswers, complete(t, g, a)
        PROVE  NoLostWait'
    BY <1>3, WaitFrame DEF complete, treeVars, bodyVars
  <1>4. ASSUME NEW n \in Ticks, NEW b \in 0 .. MaxBudget, PumpBegin(n, b)
        PROVE  NoLostWait'
    BY <1>4, WaitFrame DEF PumpBegin, treeVars, bodyVars, requestVars
  <1>5. CASE vm_tasks_destroy
    BY <1>5 DEF vm_tasks_destroy, NoLostWait
  <1>6. CASE SettleVisit
    <2> DEFINE t == visit
               s == IF Joined(t) THEN [status EXCEPT ![t] = outcome[t]] ELSE status
    <2>1. UNCHANGED treeVars /\ t \in Slots /\ pc # "destroyed"
      BY <1>6, VisitedSlot
    <2>2. outcome[t] # "WAITING" /\ (Joined(t) => status[t] # "WAITING")
      BY <2>1 DEF TypeOK, Terminals, Joined
    <2>3. \A u \in Used : s[u] = "WAITING" <=> status[u] = "WAITING"
      BY <1>0, <2>1, <2>2 DEF TypeOK
    <2>4. CASE TrapsParent(t, s[t])
      <3>1. FinishBodies(cancel_children(parent[t]) \ {t}, {parent[t]}, "TRAPPED", "child", s)
        BY <1>6, <2>4 DEF SettleVisit
      <3>2. t \in Used
        BY <2>1, <2>4 DEF TrapsParent, Admission
      <3>3. parent[t] \in Used
        BY <1>0, <2>1, <2>4, <3>2 DEF TrapsParent, TypeOK, Admission, Used, Slots
      <3>4. cancel_children(parent[t]) \ {t} \in SUBSET Used /\ {parent[t]} \in SUBSET Used
        BY <1>0, <3>3
      <3>5. count' = count
        BY <2>1 DEF treeVars
      <3> HIDE DEF s, t
      <3> QED
        BY <2>1, <2>3, <3>1, <3>4, <3>5, FinishWait
    <2>5. CASE ~TrapsParent(t, s[t])
      <3>1. status' = s /\ UNCHANGED <<count, pending, execution, pc>>
        BY <1>6, <2>5 DEF SettleVisit, treeVars
      <3> HIDE DEF s, t
      <3> QED
        BY <2>1, <2>3, <3>1 DEF NoLostWait, Used
    <2> QED
      BY <2>4, <2>5
  <1>7. CASE SettleReturn
    BY <1>7, WaitFrame DEF SettleReturn, treeVars, bodyVars, requestVars
  <1>8. CASE deliver_completions
    <2> DEFINE t == Head(events).task
    <2>1. UNCHANGED treeVars /\ t \in Slots /\ pc # "destroyed"
      <3>1. t \in Slots
        BY <1>8, FirstCompletion
      <3> QED
        BY <1>8, <3>1 DEF deliver_completions
    <2>2. pending[t] => t \in Used
      BY <2>1 DEF Admission
    <2>3. CASE ~(pending[t] /\ generation[t] = Head(events).generation)
      BY <1>8, <2>1, <2>3, WaitFrame DEF deliver_completions, treeVars, bodyVars
    <2>4. CASE pending[t] /\ EndBody(t, "TRAPPED", "deliver")
      BY <1>b, <2>1, <2>2, <2>4
    <2>5. CASE /\ pending[t] /\ release_request({t})
               /\ execution' = [execution EXCEPT ![t] = "YIELDED"]
               /\ status' = [status EXCEPT ![t] = "READY"]
      <3> HIDE DEF t
      <3>1. Used' = Used
        BY <2>1 DEF treeVars, Used
      <3>2. ASSUME NEW u \in Used PROVE WaitAgrees(u)'
        <4>1. /\ status'[u] = IF u = t THEN "READY" ELSE status[u]
              /\ execution'[u] = IF u = t THEN "YIELDED" ELSE execution[u]
              /\ pending'[u] <=> u # t /\ pending[u]
          BY <1>0, <2>5, <3>2 DEF TypeOK, release_request
        <4>2. WaitAgrees(u)
          BY <2>1, <3>2 DEF NoLostWait, WaitAgrees
        <4>3. CASE u = t
          BY <4>1, <4>3 DEF WaitAgrees
        <4>4. CASE u # t
          BY <4>1, <4>2, <4>4 DEF WaitAgrees
        <4> QED
          BY <4>3, <4>4
      <3> QED
        BY <3>1, <3>2 DEF NoLostWait, WaitAgrees
    <2> QED
      BY <1>8, <2>3, <2>4, <2>5 DEF deliver_completions
  <1>9. CASE ExpireDeadlines
    <2>1. cancel_tree(Expired) \in SUBSET Used /\ {} \in SUBSET Used
      BY <1>0
    <2> QED
      BY <1>9, <1>a, <2>1 DEF ExpireDeadlines
  <1>10. ASSUME NEW t \in Slots, Dispatch(t)
         PROVE  NoLostWait'
    <2>1. Scan(t)
      BY <1>10 DEF Dispatch, DispatchYield, DispatchWait, DispatchEnd
    <2>2. t \in Used /\ pc # "destroyed"
      BY <2>1, ScanTypes DEF Scan
    <2>3. CASE DispatchYield(t)
      BY <2>2, <2>3, WaitFrame DEF DispatchYield, treeVars, bodyVars, requestVars
    <2>4. CASE DispatchWait(t)
      <3>1. \A u \in Slots : /\ status'[u] = IF u = t THEN "WAITING" ELSE status[u]
                             /\ execution'[u] = IF u = t THEN "WAITING" ELSE execution[u]
                             /\ pending'[u] = IF u = t THEN TRUE ELSE pending[u]
        BY <2>4 DEF DispatchWait, TypeOK
      <3>2. Used' = Used
        BY <2>4 DEF DispatchWait, treeVars, Used
      <3> QED
        BY <1>0, <2>2, <3>1, <3>2 DEF NoLostWait
    <2>5. ASSUME NEW o \in {"COMPLETED", "EXITED", "TRAPPED"}, DispatchEnd(t, o)
          PROVE  NoLostWait'
      BY <2>2, <2>5, <1>b DEF DispatchEnd
    <2> QED
      BY <1>10, <2>3, <2>4, <2>5 DEF Dispatch
  <1>11. CASE PumpEnd
    BY <1>11, WaitFrame DEF PumpEnd, treeVars, bodyVars, requestVars
  <1>12. CASE UNCHANGED vars
    BY <1>12 DEF vars, treeVars, bodyVars, requestVars, controlVars, NoLostWait, Used
  <1> QED
    BY <1>1, <1>2, <1>3, <1>4, <1>5, <1>6, <1>7, <1>8, <1>9, <1>10, <1>11, <1>12
       DEF Next, Continue

\* No wait is lost, for every session: the status, the outstanding request and
\* the suspended execution of a task agree until the session is destroyed.
THEOREM WaitsKept == Spec => []NoLostWait
  <1>1. Init => NoLostWait
    BY LimitsAssumption DEF Init, NoLostWait, Used
  <1> QED
    BY <1>1, WaitStep, Admitted, PTL DEF Spec

-----------------------------------------------------------------------------
(* Scopes.                                                                  *)

\* With statuses s, no task outlives its parent.
Nested(s) ==
    \A t \in Used : s[t] \in Terminals => \A c \in Children(t) : s[c] \in Terminals

\* C is closed downwards: below a task of C, what has not ended is in C.
ClosedBelow(C, s) ==
    \A t \in C : \A c \in Children(t) : s[c] \in Terminals \/ c \in C

\* A descendant never precedes its root: the walk goes to smaller slots.
LEMMA DescendantsAreLater ==
    ASSUME TypeOK, Admission, NEW t \in Slots, NEW r, descendant(t, r)
    PROVE  r \in 1 .. t
  <1>1. 1 .. t \in SUBSET Slots /\ t \in 1 .. t
    BY LimitsAssumption DEF Slots
  <1>2. \A s \in 1 .. t : parent[s] = 0 \/ parent[s] \in 1 .. t
    <2> TAKE s \in 1 .. t
    <2>1. s \in Slots /\ parent[s] \in {0} \cup Slots /\ parent[s] < s
      BY <1>1 DEF TypeOK, Admission
    <2> QED
      BY <2>1 DEF Slots
  <1> QED
    BY <1>1, <1>2 DEF descendant

\* The children of a task of a tree are in the tree, and are not its root.
LEMMA TreeClosed ==
    ASSUME TypeOK, Admission, NEW r, NEW u \in Tree(r), NEW c \in Children(u)
    PROVE  c \in Tree(r) \ {r}
  <1>1. c \in Used /\ c \in Slots /\ u \in Used /\ u \in Slots /\ parent[c] = u
    BY SlotSets DEF Tree, Children
  <1>2. descendant(u, r)
    BY DEF Tree
  <1>3. descendant(c, r)
    <2> SUFFICES ASSUME NEW S \in SUBSET Slots, c \in S,
                        \A s \in S : parent[s] = 0 \/ parent[s] \in S
                 PROVE  r \in S
      BY DEF descendant
    <2>1. u \in S
      BY <1>1 DEF Slots
    <2> QED
      BY <1>2, <2>1 DEF descendant
  <1>4. u < c
    BY <1>1 DEF Admission
  <1>5. r \in 1 .. u
    BY <1>1, <1>2, DescendantsAreLater
  <1>6. c # r
    BY <1>1, <1>4, <1>5 DEF Slots
  <1> QED
    BY <1>1, <1>3, <1>6 DEF Tree

\* So the two cancellations take everything that has not ended below what
\* they cancel.
LEMMA CancellationsClosed ==
    ASSUME TypeOK, Admission
    PROVE  /\ \A R : ClosedBelow(cancel_tree(R), status)
           /\ \A p : ClosedBelow(cancel_children(p), status)
  <1>1. ASSUME NEW R, NEW t \in cancel_tree(R), NEW c \in Children(t)
        PROVE  status[c] \in Terminals \/ c \in cancel_tree(R)
    <2>1. PICK r \in R : t \in Tree(r)
      BY DEF cancel_tree, Live
    <2>2. c \in Tree(r)
      BY <2>1, TreeClosed
    <2> QED
      BY <2>2 DEF cancel_tree, Live, terminal
  <1>2. ASSUME NEW p, NEW t \in cancel_children(p), NEW c \in Children(t)
        PROVE  status[c] \in Terminals \/ c \in cancel_children(p)
    <2>1. t \in Tree(p)
      BY DEF cancel_children, Live
    <2>2. c \in Tree(p) \ {p}
      BY <2>1, TreeClosed
    <2> QED
      BY <2>2 DEF cancel_children, Live, terminal
  <1> QED
    BY <1>1, <1>2 DEF ClosedBelow

\* Ending the bodies of live tasks, closed below, keeps scopes nested and
\* changes the status of no task that has ended.
LEMMA FinishNests ==
    ASSUME TypeOK, NEW s, Nested(s), UNCHANGED treeVars,
           NEW C \in SUBSET Used, NEW B \in SUBSET Used, NEW o, NEW e,
           \A t \in C \cup B : s[t] \notin Terminals,
           ClosedBelow(C, s), FinishBodies(C, B, o, e, s)
    PROVE  /\ ScopesNest'
           /\ \A t \in Slots : s[t] \in Terminals => status'[t] = s[t]
  <1>1. Used \subseteq Slots /\ Used' = Used
    BY SlotSets DEF treeVars, Used
  <1>2. \A t \in Slots : status'[t] = IF t \in C THEN "CANCELLED"
                                       ELSE IF t \in B THEN "JOINING" ELSE s[t]
    BY DEF FinishBodies
  <1>3. "CANCELLED" \in Terminals /\ "JOINING" \notin Terminals
    BY DEF Terminals
  <1>4. \A t \in Slots : s[t] \in Terminals => status'[t] = s[t]
    BY <1>1, <1>2
  <1>5. ASSUME NEW t \in Used, status'[t] \in Terminals,
               NEW c \in Children(t)
        PROVE  status'[c] \in Terminals
    <2>1. c \in Slots /\ c \in Used /\ t \in Slots
      BY <1>1 DEF Children
    <2>2. CASE t \in C
      BY <1>2, <1>3, <1>4, <2>1, <2>2 DEF ClosedBelow
    <2>3. CASE t \notin C
      <3>1. s[t] \in Terminals
        BY <1>2, <1>3, <1>5, <2>1, <2>3
      <3> QED
        BY <1>4, <2>1, <3>1 DEF Nested
    <2> QED
      BY <2>2, <2>3
  <1>6. \A t : Children(t)' = Children(t)
    BY <1>1 DEF Children, treeVars
  <1> QED
    BY <1>1, <1>4, <1>5, <1>6 DEF ScopesNest, terminal

\* What a step may do to statuses.
Final == \A t \in Used : terminal(t) => status'[t] = status[t]

\* Steps that leave statuses and the tree alone keep both.
LEMMA ScopesFrame ==
    ASSUME ScopesNest, UNCHANGED <<status, treeVars>>
    PROVE  ScopesNest' /\ Final
  BY DEF ScopesNest, Final, terminal, Children, Used, treeVars

\* A step that gives one live task a status that is not terminal keeps both.
LEMMA ScopesLiveStep ==
    ASSUME TypeOK, ScopesNest, UNCHANGED treeVars, NEW t \in Slots, ~terminal(t),
           NEW st, st \notin Terminals, status' = [status EXCEPT ![t] = st]
    PROVE  ScopesNest' /\ Final
  <1>1. \A u \in Slots : status'[u] \in Terminals <=> status[u] \in Terminals
    BY DEF TypeOK, terminal
  <1>2. Used \subseteq Slots /\ Used' = Used /\ \A u : Children(u)' = Children(u)
    BY SlotSets DEF treeVars, Used, Children
  <1>3. ScopesNest'
    BY <1>1, <1>2 DEF ScopesNest, terminal, Children
  <1>4. Final
    BY <1>2 DEF Final, TypeOK, terminal
  <1> QED
    BY <1>3, <1>4

LEMMA ScopesStep ==
    TypeOK /\ Admission /\ ScopesNest /\ NoLostWait /\ [Next]_vars
        => ScopesNest' /\ Final
  <1> SUFFICES ASSUME TypeOK, Admission, ScopesNest, NoLostWait, [Next]_vars
               PROVE  ScopesNest' /\ Final
    OBVIOUS
  <1> USE LimitsAssumption
  <1>0. Used \subseteq Slots /\ Expired \subseteq Used
        /\ (\A R : cancel_tree(R) \subseteq Used)
        /\ (\A p : cancel_children(p) \subseteq Used)
    BY SlotSets
  <1>a. Nested(status)
    BY DEF ScopesNest, Nested, terminal
  <1>b. ASSUME NEW C \in SUBSET Used, NEW B \in SUBSET Used, NEW o, NEW e,
               FinishBodies(C, B, o, e, status), UNCHANGED treeVars,
               \A t \in C \cup B : status[t] \notin Terminals,
               ClosedBelow(C, status)
        PROVE  ScopesNest' /\ Final
    BY <1>0, <1>a, <1>b, FinishNests DEF Final, terminal
  <1>c. /\ \A R : \A t \in cancel_tree(R) : status[t] \notin Terminals
        /\ \A p : \A t \in cancel_children(p) : status[t] \notin Terminals
    BY DEF cancel_tree, cancel_children, Live, terminal
  <1>d. ASSUME NEW t \in Used, ~terminal(t), NEW o, NEW where, EndBody(t, o, where),
               UNCHANGED treeVars
        PROVE  ScopesNest' /\ Final
    <2> DEFINE C == IF o = "COMPLETED" THEN {} ELSE cancel_children(t)
               e == IF o = "TRAPPED" THEN "own" ELSE error[t]
    <2>1. C \in SUBSET Used /\ {t} \in SUBSET Used
      BY <1>0, <1>d
    <2>2. FinishBodies(C, {t}, o, e, status)
      BY <1>d DEF EndBody
    <2>3. ClosedBelow(C, status)
      BY CancellationsClosed DEF ClosedBelow
    <2>4. \A u \in C \cup {t} : status[u] \notin Terminals
      BY <1>c, <1>d DEF terminal
    <2> HIDE DEF C, e
    <2> QED
      BY <1>b, <1>d, <2>1, <2>2, <2>3, <2>4
  <1>1. ASSUME NEW p \in {0} \cup Used, NEW async \in AsyncModes, NEW d \in Ticks,
               vm_tasks_spawn(p, async, d)
        PROVE  ScopesNest' /\ Final
    <2> DEFINE n == count + 1
    <2>1. count' = n /\ n \in Slots /\ Used' = Used \cup {n} /\ n \notin Used
      BY <1>1, SpawnedSlot
    <2>2. /\ \A t \in Slots : status'[t] = IF t = n THEN "READY" ELSE status[t]
          /\ \A t \in Slots : parent'[t] = IF t = n THEN p ELSE parent[t]
      BY <1>1 DEF vm_tasks_spawn, TypeOK
    <2>3. p # 0 => ~terminal(p)
      BY <1>1 DEF vm_tasks_spawn, Spawnable, terminal, Terminals
    <2>4. ASSUME NEW t \in Used', status'[t] \in Terminals,
                 NEW c \in Used', parent'[c] = t
          PROVE  status'[c] \in Terminals
      <3>1. t \in Used /\ t # n /\ status[t] \in Terminals
        BY <1>0, <2>1, <2>2, <2>4 DEF Terminals
      <3>2. c # n
        BY <1>1, <2>1, <2>2, <2>3, <2>4, <3>1 DEF terminal, Used
      <3>3. c \in Used /\ parent[c] = t
        BY <1>0, <2>1, <2>2, <2>4, <3>2
      <3> QED
        BY <1>0, <2>2, <3>1, <3>2, <3>3 DEF ScopesNest, terminal, Children
    <2>5. ScopesNest'
      BY <2>4 DEF ScopesNest, terminal, Children
    <2>6. Final
      BY <1>0, <2>1, <2>2 DEF Final
    <2> QED
      BY <2>5, <2>6
  <1>2. ASSUME NEW t \in Used, vm_tasks_cancel(t)
        PROVE  ScopesNest' /\ Final
    <2>1. cancel_tree({t}) \in SUBSET Used /\ {} \in SUBSET Used
      BY <1>0
    <2>2. ClosedBelow(cancel_tree({t}), status)
      BY CancellationsClosed
    <2> QED
      BY <1>2, <1>b, <1>c, <2>1, <2>2 DEF vm_tasks_cancel
  <1>3. ASSUME NEW t \in Used, NEW g \in 1 .. MaxGeneration,
               NEW a \in PrintAnswers \cup ReadAnswers, complete(t, g, a)
        PROVE  ScopesNest' /\ Final
    BY <1>3, ScopesFrame DEF complete, bodyVars
  <1>4. ASSUME NEW n \in Ticks, NEW b \in 0 .. MaxBudget, PumpBegin(n, b)
        PROVE  ScopesNest' /\ Final
    BY <1>4, ScopesFrame DEF PumpBegin, bodyVars
  <1>5. CASE vm_tasks_destroy
    BY <1>5, ScopesFrame DEF vm_tasks_destroy
  <1>6. CASE SettleVisit
    <2> DEFINE t == visit
               s == IF Joined(t) THEN [status EXCEPT ![t] = outcome[t]] ELSE status
    <2>1. UNCHANGED treeVars /\ t \in Slots
      BY <1>6, VisitedSlot
    <2>2. \A u \in Slots : u # t => s[u] = status[u]
      BY <2>1 DEF TypeOK
    <2>3. status[t] \in Terminals => s = status
      BY DEF Joined, Terminals
    <2>4. Nested(s)
      <3>1. CASE ~Joined(t)
        BY <1>a, <3>1
      <3>2. CASE Joined(t)
        <4> SUFFICES ASSUME NEW u \in Used, s[u] \in Terminals, NEW c \in Children(u)
                     PROVE  s[c] \in Terminals
          BY DEF Nested
        <4>1. c \in Slots /\ u \in Slots /\ c \in Used
          BY <1>0 DEF Children
        <4>2. CASE u = t
          <5>1. status[c] \in Terminals
            BY <3>2, <4>2 DEF Joined, terminal
          <5> QED
            BY <2>2, <2>3, <4>1, <5>1
        <4>3. CASE u # t
          <5>1. status[u] \in Terminals
            BY <2>2, <4>1, <4>3
          <5>2. status[c] \in Terminals
            BY <1>a, <5>1 DEF Nested
          <5> QED
            BY <2>2, <2>3, <4>1, <5>2
        <4> QED
          BY <4>2, <4>3
      <3> QED
        BY <3>1, <3>2
    <2>5. \A u \in Slots : status[u] \in Terminals => s[u] = status[u]
      BY <2>2, <2>3
    <2>6. CASE TrapsParent(t, s[t])
      <3> DEFINE p == parent[t]
                 C == cancel_children(p) \ {t}
      <3>1. FinishBodies(C, {p}, "TRAPPED", "child", s)
        BY <1>6, <2>6 DEF SettleVisit
      <3>2. p # 0 /\ ~terminal(p) /\ s[t] \in Terminals
        BY <2>6 DEF TrapsParent
      <3>3. t \in Used /\ p \in Slots /\ p < t
        BY <2>1, <3>2 DEF Admission, TypeOK
      <3>4. p \in Used
        BY <3>3 DEF Used, Slots, TypeOK
      <3>5. C \in SUBSET Used /\ {p} \in SUBSET Used
        BY <1>0, <3>4
      <3>6. \A u \in C \cup {p} : s[u] \notin Terminals
        <4>1. \A u \in C \cup {p} : u \in Slots /\ u # t /\ status[u] \notin Terminals
          <5>1. \A u \in C : u \in Slots /\ u # t /\ status[u] \notin Terminals
            BY <1>0, <1>c
          <5>2. p \in Slots /\ p # t /\ status[p] \notin Terminals
            BY <2>1, <3>2, <3>3 DEF terminal, Slots
          <5> HIDE DEF C, p
          <5> QED
            BY <5>1, <5>2
        <4> HIDE DEF s, C, p, t
        <4> QED
          BY <2>2, <4>1
      <3>7. ClosedBelow(C, s)
        <4> SUFFICES ASSUME NEW u \in C, NEW c \in Children(u)
                     PROVE  s[c] \in Terminals \/ c \in C
          BY DEF ClosedBelow
        <4>1. status[c] \in Terminals \/ c \in cancel_children(p)
          BY CancellationsClosed DEF ClosedBelow
        <4>2. c \in Slots
          BY <1>0 DEF Children
        <4> QED
          BY <2>5, <3>2, <4>1, <4>2
      <3> HIDE DEF s, C, p
      <3>8. ScopesNest' /\ \A u \in Slots : s[u] \in Terminals => status'[u] = s[u]
        BY <2>1, <2>4, <3>1, <3>5, <3>6, <3>7, FinishNests
      <3>9. Final
        BY <1>0, <2>5, <3>8 DEF Final, terminal
      <3> QED
        BY <3>8, <3>9
    <2>7. CASE ~TrapsParent(t, s[t])
      <3>1. status' = s
        BY <1>6, <2>7 DEF SettleVisit
      <3>2. Used' = Used /\ \A u : Children(u)' = Children(u)
        BY <2>1 DEF treeVars, Used, Children
      <3> HIDE DEF s
      <3>3. ScopesNest'
        BY <2>4, <3>1, <3>2 DEF ScopesNest, Nested, terminal
      <3>4. Final
        BY <1>0, <2>5, <3>1 DEF Final, terminal
      <3> QED
        BY <3>3, <3>4
    <2> QED
      BY <2>6, <2>7
  <1>7. CASE SettleReturn
    BY <1>7, ScopesFrame DEF SettleReturn, bodyVars
  <1>8. CASE deliver_completions
    <2> DEFINE t == Head(events).task
    <2>1. UNCHANGED treeVars /\ t \in Slots
      <3>1. t \in Slots
        BY <1>8, FirstCompletion
      <3> QED
        BY <1>8, <3>1 DEF deliver_completions
    <2>2. pending[t] => t \in Used /\ ~terminal(t)
      <3>1. pending[t] => t \in Used
        BY <2>1 DEF Admission
      <3>2. pc # "destroyed"
        BY <1>8 DEF deliver_completions
      <3> QED
        BY <3>1, <3>2 DEF NoLostWait, terminal, Terminals
    <2>3. CASE ~(pending[t] /\ generation[t] = Head(events).generation)
      BY <1>8, <2>1, <2>3, ScopesFrame DEF deliver_completions, bodyVars
    <2>4. CASE pending[t] /\ EndBody(t, "TRAPPED", "deliver")
      BY <1>d, <2>1, <2>2, <2>4
    <2>5. CASE pending[t] /\ status' = [status EXCEPT ![t] = "READY"]
      <3>1. "READY" \notin Terminals
        BY DEF Terminals
      <3> QED
        BY <2>1, <2>2, <2>5, <3>1, ScopesLiveStep
    <2> QED
      BY <1>8, <2>3, <2>4, <2>5 DEF deliver_completions
  <1>9. CASE ExpireDeadlines
    <2>1. cancel_tree(Expired) \in SUBSET Used /\ {} \in SUBSET Used
      BY <1>0
    <2>2. ClosedBelow(cancel_tree(Expired), status)
      BY CancellationsClosed
    <2> QED
      BY <1>9, <1>b, <1>c, <2>1, <2>2 DEF ExpireDeadlines
  <1>10. ASSUME NEW t \in Slots, Dispatch(t)
         PROVE  ScopesNest' /\ Final
    <2>1. Scan(t)
      BY <1>10 DEF Dispatch, DispatchYield, DispatchWait, DispatchEnd
    <2>2. t \in Used /\ ~terminal(t)
      BY <2>1, ScanTypes DEF Scan, Ready, terminal, Terminals
    <2>3. CASE DispatchYield(t)
      BY <2>3, ScopesFrame DEF DispatchYield, bodyVars
    <2>4. CASE DispatchWait(t)
      <3>1. "WAITING" \notin Terminals
        BY DEF Terminals
      <3> QED
        BY <2>2, <2>4, <3>1, ScopesLiveStep DEF DispatchWait
    <2>5. ASSUME NEW o \in {"COMPLETED", "EXITED", "TRAPPED"}, DispatchEnd(t, o)
          PROVE  ScopesNest' /\ Final
      BY <2>2, <2>5, <1>d DEF DispatchEnd
    <2> QED
      BY <1>10, <2>3, <2>4, <2>5 DEF Dispatch
  <1>11. CASE PumpEnd
    BY <1>11, ScopesFrame DEF PumpEnd, bodyVars
  <1>12. CASE UNCHANGED vars
    BY <1>12, ScopesFrame DEF vars, bodyVars
  <1> QED
    BY <1>1, <1>2, <1>3, <1>4, <1>5, <1>6, <1>7, <1>8, <1>9, <1>10, <1>11, <1>12
       DEF Next, Continue

\* No task outlives its parent, for every tree of tasks and at every step of
\* every call (cancel_tree, cancel_children and settle leave no orphan).
THEOREM ScopesAlwaysNest == Spec => []ScopesNest
  <1>1. Init => ScopesNest
    BY LimitsAssumption DEF Init, ScopesNest, Used
  <1>2. TypeOK /\ Admission /\ NoLostWait /\ ScopesNest /\ [Next]_vars => ScopesNest'
    BY ScopesStep
  <1> QED
    BY <1>1, <1>2, WaitsKept, Admitted, PTL DEF Spec

\* A task that has ended keeps its status through every later step: records
\* stay inspectable as they ended.
THEOREM TerminalStatusesAreFinal == Spec => TerminalIsFinal
  <1>1. TypeOK /\ Admission /\ NoLostWait /\ ScopesNest /\ [Next]_vars
            => [\A t \in Used : terminal(t) => status'[t] = status[t]]_vars
    BY ScopesStep DEF Final
  <1> QED
    BY <1>1, ScopesAlwaysNest, WaitsKept, Admitted, PTL DEF Spec, TerminalIsFinal
================================================================================
