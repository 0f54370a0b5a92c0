------------------------- MODULE VMTasksSettleProofs -------------------------
(***************************************************************************)
(* Proofs about task sessions, continued: deadlines, the completion ring,  *)
(* the reverse pass of settle, and the refinement of TaskScopes.  All hold *)
(* for every number of tasks, ring size, counter width and pump budget.    *)
(***************************************************************************)
EXTENDS VMTasksProofs

\* What the earlier proofs establish of every reachable state.
Known == TypeOK /\ Admission /\ NoLostWait /\ ScopesNest

\* The session always has the types, tree, waits and scopes proved before.
LEMMA AlwaysKnown == Spec => []Known
  BY Admitted, WaitsKept, ScopesAlwaysNest, PTL DEF Known

\* No step ends the record of a task that has ended, or unnests a scope.
LEMMA KnownStep ==
    ASSUME Known, [Next]_vars
    PROVE  Final /\ ScopesNest'
  BY ScopesStep DEF Known

-----------------------------------------------------------------------------
(* Deadlines.                                                               *)

\* Every task that still runs has time left.
InTime ==
    \A t \in Used : ~terminal(t) => deadline[t] = NoDeadline \/ deadline[t] > now

\* From the deadline loop of a pump to its end, through every settle of it.
DeadlinesKept ==
    pc = "dispatch" \/ (pc = "settle" /\ return = "dispatch") => InTime

\* A step that neither admits a task nor moves time leaves those in time that
\* were, because no task comes back to life.
LEMMA InTimeFrame ==
    ASSUME InTime, Final, UNCHANGED <<treeVars, now>>
    PROVE  InTime'
  BY DEF InTime, Final, terminal, treeVars, Used

\* A task belongs to its own tree, so the deadline loop cancels it itself.
LEMMA ExpiredAreCancelled ==
    ASSUME TypeOK
    PROVE  Expired \subseteq cancel_tree(Expired)
  <1> SUFFICES ASSUME NEW t \in Expired
               PROVE  t \in cancel_tree(Expired)
    OBVIOUS
  <1>1. t \in Used /\ ~terminal(t)
    BY DEF Expired, Live
  <1>2. t \in Tree(t)
    BY <1>1 DEF Tree, descendant
  <1> QED
    BY <1>1, <1>2 DEF cancel_tree, Live

\* Every step keeps the deadlines of the pump it belongs to.
LEMMA DeadlinesStep ==
    Known /\ DeadlinesKept /\ [Next]_vars => DeadlinesKept'
  <1> SUFFICES ASSUME Known, DeadlinesKept, [Next]_vars
               PROVE  DeadlinesKept'
    OBVIOUS
  <1>0. Final /\ TypeOK
    BY KnownStep DEF Known
  <1>1. ASSUME NEW p \in {0} \cup Used, NEW async \in AsyncModes, NEW d \in Ticks,
               vm_tasks_spawn(p, async, d)
        PROVE  DeadlinesKept'
    BY <1>1 DEF vm_tasks_spawn, controlVars, DeadlinesKept
  <1>2. ASSUME NEW t \in Used, vm_tasks_cancel(t)
        PROVE  DeadlinesKept'
    BY <1>2 DEF vm_tasks_cancel, StartSettle, DeadlinesKept
  <1>3. ASSUME NEW t \in Used, NEW g \in 1 .. MaxGeneration,
               NEW a \in PrintAnswers \cup ReadAnswers, complete(t, g, a)
        PROVE  DeadlinesKept'
    BY <1>3 DEF complete, controlVars, DeadlinesKept
  <1>4. ASSUME NEW n \in Ticks, NEW b \in 0 .. MaxBudget, PumpBegin(n, b)
        PROVE  DeadlinesKept'
    BY <1>4 DEF PumpBegin, DeadlinesKept
  <1>5. CASE vm_tasks_destroy
    BY <1>5 DEF vm_tasks_destroy, DeadlinesKept
  <1>6. CASE SettleVisit
    BY <1>0, <1>6, InTimeFrame DEF SettleVisit, DeadlinesKept
  <1>7. CASE SettleReturn
    BY <1>0, <1>7, InTimeFrame DEF SettleReturn, DeadlinesKept
  <1>8. CASE deliver_completions
    <2>1. pc' = "deliver" \/ (pc' = "settle" /\ return' = "deliver")
      BY <1>8 DEF deliver_completions, EndBody, StartSettle
    <2> QED
      BY <2>1 DEF DeadlinesKept
  <1>9. CASE ExpireDeadlines
    <2>1. \A t \in Slots : status'[t] = IF t \in cancel_tree(Expired) THEN "CANCELLED"
                                        ELSE status[t]
      BY <1>9 DEF ExpireDeadlines, FinishBodies
    <2>2. UNCHANGED <<treeVars, now>> /\ Used' = Used
      BY <1>9 DEF ExpireDeadlines, treeVars, Used
    <2>3. ASSUME NEW t \in Used, status'[t] \notin Terminals
          PROVE  deadline[t] = NoDeadline \/ deadline[t] > now
      <3>1. t \in Slots /\ deadline[t] \in Ticks /\ now \in Ticks
        BY <1>0, SlotSets DEF TypeOK
      <3>2. t \notin cancel_tree(Expired) /\ status[t] \notin Terminals
        BY <2>1, <2>3, <3>1 DEF Terminals
      <3>3. t \notin Expired
        BY <1>0, <3>2, ExpiredAreCancelled
      <3> QED
        BY <3>1, <3>2, <3>3, LimitsAssumption DEF Expired, Live, terminal, Ticks
    <2>4. InTime'
      BY <2>2, <2>3 DEF InTime, terminal, treeVars
    <2> QED
      BY <2>4 DEF DeadlinesKept
  <1>10. ASSUME NEW t \in Slots, Dispatch(t)
         PROVE  DeadlinesKept'
    <2>1. pc = "dispatch" /\ UNCHANGED <<treeVars, now>>
      BY <1>10 DEF Dispatch, DispatchYield, DispatchWait, DispatchEnd, Scan
    <2> QED
      BY <1>0, <2>1, InTimeFrame DEF DeadlinesKept
  <1>11. CASE PumpEnd
    BY <1>11 DEF PumpEnd, DeadlinesKept
  <1>12. CASE UNCHANGED vars
    BY <1>12 DEF vars, treeVars, bodyVars, controlVars, DeadlinesKept, InTime, terminal, Used
  <1> QED
    BY <1>1, <1>2, <1>3, <1>4, <1>5, <1>6, <1>7, <1>8, <1>9, <1>10, <1>11, <1>12
       DEF Next, Continue

\* No bytecode runs on behalf of an expired task, for every tree of deadlines
\* and every sequence of pumps: vm_tasks_pump dispatches only after the
\* deadline loop, and nothing that settles in between brings a task back.
THEOREM ExpiredTasksNeverRun == Spec => []ExpiredNeverRuns
  <1>1. Init => DeadlinesKept
    BY DEF Init, DeadlinesKept
  <1>2. DeadlinesKept => ExpiredNeverRuns
    BY DEF DeadlinesKept, InTime, ExpiredNeverRuns
  <1> QED
    BY <1>1, <1>2, DeadlinesStep, AlwaysKnown, PTL DEF Spec

-----------------------------------------------------------------------------
(* The completion ring.                                                     *)

\* Entry i of the ring answers the latest request of task t.
Answers(i, t) == events[i].task = t /\ events[i].generation = generation[t]

\* A completion is marked queued only for an outstanding request.
QueuedIsPending == \A t \in Slots : queued[t] => pending[t]

\* No entry is ahead of its task's operation counter.
NoneAhead ==
    \A i \in DOMAIN events : events[i].generation <= generation[events[i].task]

\* No two entries, stale ones included, answer the same request.
NoTwins ==
    \A i, j \in DOMAIN events :
        events[i].task = events[j].task /\ events[i].generation = events[j].generation
            => i = j

\* The mark says whether the ring holds an answer.
MarksAgree ==
    \A t \in Slots : pending[t] => (queued[t] <=> \E i \in DOMAIN events : Answers(i, t))

RingKept == QueuedIsPending /\ NoneAhead /\ NoTwins /\ MarksAgree

\* Steps that touch neither the ring, its marks, the requests nor the counters.
LEMMA RingFrame ==
    ASSUME RingKept, UNCHANGED <<generation, pending, queued, events>>
    PROVE  RingKept'
  BY DEF RingKept, QueuedIsPending, NoneAhead, NoTwins, MarksAgree, Answers

\* release_request leaves the marks of the other tasks, and none of its own.
LEMMA ReleaseMarks ==
    ASSUME TypeOK, QueuedIsPending, NEW S \in SUBSET Slots, release_request(S),
           NEW t \in Slots
    PROVE  /\ pending'[t] => pending[t] /\ t \notin S /\ queued'[t] = queued[t]
           /\ queued'[t] => pending'[t]
  <1>1. /\ pending'[t] <=> t \notin S /\ pending[t]
        /\ queued'[t] <=> (t \in S => ~pending[t]) /\ queued[t]
    BY DEF release_request
  <1>2. queued[t] => pending[t]
    BY DEF QueuedIsPending
  <1>3. queued[t] \in BOOLEAN /\ queued'[t] \in BOOLEAN
    BY ReleaseTypes DEF TypeOK
  <1>4. CASE t \in S
    BY <1>1, <1>2, <1>4
  <1>5. CASE t \notin S
    BY <1>1, <1>2, <1>3, <1>5
  <1> QED
    BY <1>4, <1>5

\* Releasing requests while the ring stays as it is.
LEMMA RingRelease ==
    ASSUME TypeOK, RingKept, NEW S \in SUBSET Slots, release_request(S),
           UNCHANGED <<generation, events>>
    PROVE  RingKept'
  <1>1. \A t \in Slots : /\ pending'[t] => pending[t] /\ t \notin S /\ queued'[t] = queued[t]
                         /\ queued'[t] => pending'[t]
    BY ReleaseMarks DEF RingKept
  <1>2. QueuedIsPending'
    BY <1>1 DEF QueuedIsPending
  <1>3. NoneAhead' /\ NoTwins'
    BY DEF RingKept, NoneAhead, NoTwins
  <1>4. MarksAgree'
    BY <1>1 DEF RingKept, MarksAgree, Answers
  <1> QED
    BY <1>2, <1>3, <1>4 DEF RingKept

\* Taking the oldest entry away shifts the others.
LEMMA TailEntries ==
    ASSUME TypeOK, events # << >>, events' = Tail(events)
    PROVE  /\ 1 \in DOMAIN events /\ Head(events) = events[1]
           /\ \A i \in DOMAIN events' : /\ i + 1 \in DOMAIN events
                                        /\ events'[i] = events[i + 1]
           /\ \A i \in DOMAIN events : i # 1 => i - 1 \in DOMAIN events'
           /\ DOMAIN events \subseteq Nat /\ DOMAIN events' \subseteq Nat
  <1>1. /\ Len(events) \in Nat /\ Len(events) # 0
        /\ DOMAIN events = 1 .. Len(events)
        /\ DOMAIN events' = 1 .. Len(events) - 1
    BY DEF TypeOK
  <1>2. \A i \in 1 .. Len(events) - 1 : events'[i] = events[i + 1]
    BY DEF TypeOK
  <1>3. Head(events) = events[1]
    BY DEF TypeOK
  <1> QED
    BY <1>1, <1>2, <1>3

\* Delivery takes the oldest entry.  Either it answered a request, which is
\* released with it, or it answered none that is outstanding.
LEMMA RingTail ==
    ASSUME TypeOK, RingKept, events # << >>, events' = Tail(events),
           generation' = generation,
           \A t \in Slots : pending'[t] => /\ pending[t] /\ queued'[t] = queued[t]
                                           /\ ~Answers(1, t),
           \A t \in Slots : queued'[t] => pending'[t]
    PROVE  RingKept'
  <1>1. /\ \A i \in DOMAIN events' : i + 1 \in DOMAIN events /\ events'[i] = events[i + 1]
        /\ \A i \in DOMAIN events : i # 1 => i - 1 \in DOMAIN events'
        /\ DOMAIN events \subseteq Nat /\ DOMAIN events' \subseteq Nat
    BY TailEntries
  <1>2. QueuedIsPending'
    BY DEF QueuedIsPending
  <1>3. NoneAhead'
    BY <1>1 DEF RingKept, NoneAhead
  <1>4. NoTwins'
    <2> SUFFICES ASSUME NEW i \in DOMAIN events', NEW j \in DOMAIN events',
                        events'[i].task = events'[j].task,
                        events'[i].generation = events'[j].generation
                 PROVE  i = j
      BY DEF NoTwins
    <2>1. i + 1 = j + 1
      BY <1>1 DEF RingKept, NoTwins
    <2> QED
      BY <1>1, <2>1
  <1>5. ASSUME NEW t \in Slots, pending'[t]
        PROVE  queued'[t] <=> \E i \in DOMAIN events' : Answers(i, t)'
    <2>1. queued[t] <=> \E i \in DOMAIN events : Answers(i, t)
      BY <1>5 DEF RingKept, MarksAgree
    <2>2. \A i \in DOMAIN events' : Answers(i, t)' <=> Answers(i + 1, t)
      BY <1>1 DEF Answers
    <2>3. \A i \in DOMAIN events : Answers(i, t) => i # 1 /\ i = (i - 1) + 1
      BY <1>1, <1>5
    <2>4. (\E i \in DOMAIN events : Answers(i, t)) <=> \E i \in DOMAIN events' : Answers(i, t)'
      <3>1. ASSUME NEW i \in DOMAIN events, Answers(i, t)
            PROVE  \E j \in DOMAIN events' : Answers(j, t)'
        BY <1>1, <2>2, <2>3, <3>1
      <3>2. ASSUME NEW j \in DOMAIN events', Answers(j, t)'
            PROVE  \E i \in DOMAIN events : Answers(i, t)
        BY <1>1, <2>2, <3>2
      <3> QED
        BY <3>1, <3>2
    <2> QED
      BY <1>5, <2>1, <2>4
  <1>6. MarksAgree'
    BY <1>5 DEF MarksAgree
  <1> QED
    BY <1>2, <1>3, <1>4, <1>6 DEF RingKept

\* What a session call does to the ring when it ends bodies.
LEMMA RingFinish ==
    ASSUME TypeOK, RingKept, NEW C \in SUBSET Slots, NEW B \in SUBSET Slots,
           NEW o, NEW e, NEW s, FinishBodies(C, B, o, e, s), UNCHANGED events
    PROVE  RingKept'
  <1>1. C \cup B \in SUBSET Slots /\ release_request(C \cup B) /\ generation' = generation
    BY DEF FinishBodies
  <1> HIDE DEF FinishBodies
  <1> QED
    BY <1>1, RingRelease

\* An accepted completion is the first answer to its request.
LEMMA RingAppend ==
    ASSUME TypeOK, RingKept, NEW t \in Used, NEW g \in 1 .. MaxGeneration,
           NEW a \in PrintAnswers \cup ReadAnswers, complete(t, g, a)
    PROVE  RingKept'
  <1> DEFINE n == Len(events) + 1
  <1>0. t \in Slots
    BY SlotSets
  <1>1. /\ pending[t] /\ ~queued[t] /\ generation[t] = g
        /\ generation' = generation /\ pending' = pending
        /\ \A u \in Slots : queued'[u] = IF u = t THEN TRUE ELSE queued[u]
    BY <1>0 DEF complete, Accepts, TypeOK
  <1>2. /\ DOMAIN events' = DOMAIN events \cup {n} /\ n \notin DOMAIN events
        /\ \A i \in DOMAIN events : events'[i] = events[i]
        /\ events'[n].task = t /\ events'[n].generation = g
    <2>1. events' = Append(events, [task |-> t, generation |-> g, answer |-> a])
      BY DEF complete
    <2>2. /\ DOMAIN events = 1 .. Len(events) /\ Len(events) \in Nat
          /\ DOMAIN events' = 1 .. n
      BY <2>1 DEF TypeOK
    <2>3. /\ \A i \in 1 .. Len(events) : events'[i] = events[i]
          /\ events'[n] = [task |-> t, generation |-> g, answer |-> a]
      BY <2>1 DEF TypeOK
    <2> QED
      BY <2>2, <2>3
  <1> HIDE DEF n
  <1>3. \A i \in DOMAIN events : ~Answers(i, t)
    BY <1>0, <1>1 DEF RingKept, MarksAgree
  <1>4. QueuedIsPending'
    BY <1>0, <1>1 DEF RingKept, QueuedIsPending
  <1>5. NoneAhead'
    BY <1>0, <1>1, <1>2 DEF RingKept, NoneAhead
  <1>6. NoTwins'
    BY <1>1, <1>2, <1>3 DEF RingKept, NoTwins, Answers
  <1>7. MarksAgree'
    <2> SUFFICES ASSUME NEW u \in Slots, pending'[u]
                 PROVE  queued'[u] <=> \E i \in DOMAIN events' : Answers(i, u)'
      BY DEF MarksAgree
    <2>1. CASE u = t
      BY <1>0, <1>1, <1>2, <2>1 DEF Answers
    <2>2. CASE u # t
      <3>1. queued[u] <=> \E i \in DOMAIN events : Answers(i, u)
        BY <1>1 DEF RingKept, MarksAgree
      <3>2. queued'[u] = queued[u]
        BY <1>1, <2>2
      <3>3. (\E i \in DOMAIN events : Answers(i, u))
                <=> \E i \in DOMAIN events' : Answers(i, u)'
        BY <1>1, <1>2, <2>2 DEF Answers
      <3> QED
        BY <3>1, <3>2, <3>3
    <2> QED
      BY <2>1, <2>2
  <1> QED
    BY <1>4, <1>5, <1>6, <1>7 DEF RingKept

\* A new request has a generation no entry of the ring carries.
LEMMA RingWait ==
    ASSUME TypeOK, RingKept, NEW t \in Slots, DispatchWait(t)
    PROVE  RingKept'
  <1>1. /\ ~pending[t] /\ events' = events /\ queued' = queued
        /\ \A u \in Slots : /\ generation'[u] = IF u = t THEN generation[u] + 1
                                                ELSE generation[u]
                            /\ pending'[u] = IF u = t THEN TRUE ELSE pending[u]
    BY DEF DispatchWait, Registers, TypeOK
  <1>2. /\ \A u \in Slots : generation[u] \in Nat
        /\ \A i \in DOMAIN events : events[i].task \in Slots /\ events[i].generation \in Nat
    <2>1. \A i \in DOMAIN events : events[i] \in Completions
      BY DEF TypeOK
    <2> QED
      BY SMTT(40), <2>1 DEF TypeOK, Completions
  <1>3. ~queued[t]
    BY <1>1 DEF RingKept, QueuedIsPending
  <1>4. QueuedIsPending'
    BY <1>1 DEF RingKept, QueuedIsPending
  <1>a. ASSUME NEW i \in DOMAIN events
        PROVE  /\ events[i].generation <= generation'[events[i].task]
               /\ events[i].task = t => events[i].generation < generation'[t]
    <2> DEFINE u == events[i].task
               g == events[i].generation
    <2>1. u \in Slots /\ g \in Nat /\ generation[u] \in Nat /\ g <= generation[u]
      BY <1>2 DEF RingKept, NoneAhead
    <2>2. generation'[u] = IF u = t THEN generation[u] + 1 ELSE generation[u]
      BY <1>1, <2>1
    <2> HIDE DEF u, g
    <2>3. g <= generation'[u] /\ (u = t => g < generation'[t])
      BY <2>1, <2>2
    <2> QED
      BY <2>3 DEF u, g
  <1>5. NoneAhead'
    BY <1>1, <1>a DEF NoneAhead
  <1>6. NoTwins'
    BY <1>1 DEF RingKept, NoTwins
  <1>7. MarksAgree'
    <2> SUFFICES ASSUME NEW u \in Slots, pending'[u]
                 PROVE  queued'[u] <=> \E i \in DOMAIN events' : Answers(i, u)'
      BY DEF MarksAgree
    <2>1. CASE u = t
      <3>1. \A i \in DOMAIN events : ~Answers(i, t)'
        <4>1. ASSUME NEW i \in DOMAIN events, events[i].task = t,
                     events[i].generation = generation'[t]
              PROVE  FALSE
          BY <1>1, <1>2, <1>a, <4>1
        <4> QED
          BY <1>1, <4>1 DEF Answers
      <3> QED
        BY <1>1, <1>3, <2>1, <3>1
    <2>2. CASE u # t
      <3>1. \A i : Answers(i, u)' <=> Answers(i, u)
        BY <1>1, <2>2 DEF Answers
      <3>2. queued[u] <=> \E i \in DOMAIN events : Answers(i, u)
        BY <1>1, <2>2 DEF RingKept, MarksAgree
      <3> QED
        BY <1>1, <3>1, <3>2
    <2> QED
      BY <2>1, <2>2
  <1> QED
    BY <1>4, <1>5, <1>6, <1>7 DEF RingKept

\* One round of deliver_completions.
LEMMA RingDelivery ==
    ASSUME TypeOK, RingKept, deliver_completions
    PROVE  RingKept'
  <1> DEFINE t == Head(events).task
  <1>1. /\ events # << >> /\ events' = Tail(events) /\ Head(events) = events[1]
        /\ t \in Slots
    <2>1. events # << >> /\ events' = Tail(events)
      BY DEF deliver_completions
    <2>2. Head(events) \in Completions /\ t \in Slots
      BY FirstCompletion
    <2> QED
      BY <2>1, <2>2, TailEntries
  <1>2. CASE ~(pending[t] /\ generation[t] = Head(events).generation)
    <2>1. UNCHANGED <<pending, queued, generation>>
      BY <1>2 DEF deliver_completions
    <2>2. \A u \in Slots : pending'[u] => ~Answers(1, u)
      BY <1>1, <1>2, <2>1 DEF Answers
    <2>3. \A u \in Slots : queued'[u] => pending'[u]
      BY <2>1 DEF RingKept, QueuedIsPending
    <2> QED
      BY <1>1, <2>1, <2>2, <2>3, RingTail
  <1>3. ASSUME NEW S \in SUBSET Slots, t \in S, release_request(S), generation' = generation
        PROVE  RingKept'
    <2>1. \A u \in Slots : /\ pending'[u] => pending[u] /\ u \notin S /\ queued'[u] = queued[u]
                           /\ queued'[u] => pending'[u]
      BY <1>3, ReleaseMarks DEF RingKept
    <2>2. \A u \in Slots : pending'[u] => ~Answers(1, u)
      BY <1>1, <1>3, <2>1 DEF Answers
    <2> QED
      BY <1>1, <1>3, <2>1, <2>2, RingTail
  <1>4. CASE EndBody(t, "TRAPPED", "deliver")
    <2>1. release_request(cancel_children(t) \cup {t}) /\ generation' = generation
      BY <1>4 DEF EndBody, FinishBodies
    <2>2. cancel_children(t) \cup {t} \in SUBSET Slots
      BY <1>1, SlotSets
    <2> QED
      BY <1>3, <2>1, <2>2
  <1>5. CASE release_request({t}) /\ generation' = generation
    BY <1>1, <1>3, <1>5
  <1> QED
    BY <1>2, <1>4, <1>5 DEF deliver_completions

\* Every step keeps the ring's accounting.
LEMMA RingStep ==
    Known /\ RingKept /\ [Next]_vars => RingKept'
  <1> SUFFICES ASSUME Known, RingKept, [Next]_vars
               PROVE  RingKept'
    OBVIOUS
  <1>0. TypeOK /\ Used \in SUBSET Slots
    BY SlotSets DEF Known
  <1>a. /\ \A R : cancel_tree(R) \in SUBSET Slots
        /\ \A p : cancel_children(p) \in SUBSET Slots
    BY <1>0, SlotSets
  <1>1. ASSUME NEW p \in {0} \cup Used, NEW async \in AsyncModes, NEW d \in Ticks,
               vm_tasks_spawn(p, async, d)
        PROVE  RingKept'
    BY <1>1, RingFrame DEF vm_tasks_spawn, requestVars
  <1>2. ASSUME NEW t \in Used, vm_tasks_cancel(t)
        PROVE  RingKept'
    BY <1>0, <1>2, <1>a, RingFinish DEF vm_tasks_cancel
  <1>3. ASSUME NEW t \in Used, NEW g \in 1 .. MaxGeneration,
               NEW a \in PrintAnswers \cup ReadAnswers, complete(t, g, a)
        PROVE  RingKept'
    BY <1>0, <1>3, RingAppend
  <1>4. ASSUME NEW n \in Ticks, NEW b \in 0 .. MaxBudget, PumpBegin(n, b)
        PROVE  RingKept'
    BY <1>4, RingFrame DEF PumpBegin, requestVars
  <1>5. CASE vm_tasks_destroy
    <2>1. release_request(Used) /\ events' = << >> /\ generation' = generation
      BY <1>5 DEF vm_tasks_destroy
    <2>2. \A t \in Slots : /\ pending'[t] => pending[t] /\ t \notin Used
                           /\ queued'[t] => pending'[t]
      BY <1>0, <2>1, ReleaseMarks DEF RingKept
    <2>3. \A t \in Slots : ~pending'[t]
      BY <2>2 DEF Known, Admission
    <2> QED
      BY <2>1, <2>2, <2>3 DEF RingKept, QueuedIsPending, NoneAhead, NoTwins, MarksAgree
  <1>6. CASE SettleVisit
    <2>1. events' = events
      BY <1>6 DEF SettleVisit
    <2>2. CASE UNCHANGED <<generation, pending, queued>>
      BY <2>1, <2>2, RingFrame
    <2>3. ASSUME NEW s,
                 FinishBodies(cancel_children(parent[visit]) \ {visit}, {parent[visit]},
                              "TRAPPED", "child", s),
                 TrapsParent(visit, s[visit])
          PROVE  RingKept'
      <3>1. visit \in Slots
        BY <1>0, <1>6, VisitedSlot
      <3>2. parent[visit] \in Slots
        BY <1>0, <2>3, <3>1 DEF TypeOK, TrapsParent
      <3>3. /\ cancel_children(parent[visit]) \ {visit} \in SUBSET Slots
            /\ {parent[visit]} \in SUBSET Slots
        BY <1>a, <3>2
      <3> QED
        BY <1>0, <2>1, <2>3, <3>3, RingFinish
    <2> QED
      BY <1>6, <2>2, <2>3 DEF SettleVisit
  <1>7. CASE SettleReturn
    BY <1>7, RingFrame DEF SettleReturn, requestVars
  <1>8. CASE deliver_completions
    BY <1>0, <1>8, RingDelivery
  <1>9. CASE ExpireDeadlines
    BY <1>0, <1>9, <1>a, RingFinish DEF ExpireDeadlines
  <1>10. ASSUME NEW t \in Slots, Dispatch(t)
         PROVE  RingKept'
    <2>1. CASE DispatchYield(t)
      BY <2>1, RingFrame DEF DispatchYield, requestVars
    <2>2. CASE DispatchWait(t)
      BY <1>0, <2>2, RingWait
    <2>3. ASSUME NEW o \in {"COMPLETED", "EXITED", "TRAPPED"}, DispatchEnd(t, o)
          PROVE  RingKept'
      <3> DEFINE C == IF o = "COMPLETED" THEN {} ELSE cancel_children(t)
                 e == IF o = "TRAPPED" THEN "own" ELSE error[t]
      <3>1. FinishBodies(C, {t}, o, e, status) /\ events' = events
        BY <2>3 DEF DispatchEnd, EndBody
      <3>2. C \in SUBSET Slots /\ {t} \in SUBSET Slots
        BY <1>a
      <3> HIDE DEF C, e
      <3> QED
        BY <1>0, <3>1, <3>2, RingFinish
    <2> QED
      BY <1>10, <2>1, <2>2, <2>3 DEF Dispatch
  <1>11. CASE PumpEnd
    BY <1>11, RingFrame DEF PumpEnd, requestVars
  <1>12. CASE UNCHANGED vars
    BY <1>12, RingFrame DEF vars, requestVars
  <1> QED
    BY <1>1, <1>2, <1>3, <1>4, <1>5, <1>6, <1>7, <1>8, <1>9, <1>10, <1>11, <1>12
       DEF Next, Continue

\* The ring holds exactly one completion for a queued request and none for one
\* still to be answered, for every ring size and counter width: however often
\* and however late the host answers through vm_tasks_complete.
THEOREM OneCompletionEach == Spec => []OneCompletionPerRequest
  <1>1. Init => RingKept
    BY DEF Init, RingKept, QueuedIsPending, NoneAhead, NoTwins, MarksAgree
  <1>2. TypeOK /\ RingKept => OneCompletionPerRequest
    <2> SUFFICES ASSUME TypeOK, RingKept, NEW t \in Used, pending[t]
                 PROVE  Cardinality({i \in DOMAIN events :
                                        /\ events[i].task = t
                                        /\ events[i].generation = generation[t]})
                            = (IF queued[t] THEN 1 ELSE 0)
      BY DEF OneCompletionPerRequest
    <2> DEFINE S == {i \in DOMAIN events : /\ events[i].task = t
                                           /\ events[i].generation = generation[t]}
    <2>0. t \in Slots
      BY SlotSets
    <2>1. CASE queued[t]
      <3>1. PICK i \in DOMAIN events : Answers(i, t)
        BY <2>0, <2>1 DEF RingKept, MarksAgree
      <3>2. S = {i}
        BY <3>1 DEF RingKept, NoTwins, Answers
      <3> HIDE DEF S
      <3>3. Cardinality(S) = 1
        BY <3>2, FS_Singleton
      <3> QED
        BY <2>1, <3>3 DEF S
    <2>2. CASE ~queued[t]
      <3>1. S = {}
        BY <2>0, <2>2 DEF RingKept, MarksAgree, Answers
      <3> HIDE DEF S
      <3>2. Cardinality(S) = 0
        BY <3>1, FS_EmptySet
      <3> QED
        BY <2>2, <3>2 DEF S
    <2> QED
      BY <2>1, <2>2
  <1>3. Known => TypeOK
    BY DEF Known
  <1> QED
    BY <1>1, <1>2, <1>3, RingStep, AlwaysKnown, PTL DEF Spec

-----------------------------------------------------------------------------
(* The reverse pass of settle.                                              *)

Failed == Terminals \ {"COMPLETED"}
Failing == {"TRAPPED", "EXITED"}

\* With statuses s, what the outcome of a body says: none while it runs; a
\* body that failed left nothing running below it; and a task has completed
\* only if everything below it has.
BodyOf(t, s) ==
    /\ t \notin Used => s[t] = "INVALID"
    /\ s[t] \in {"INVALID", "READY", "WAITING"} => outcome[t] = "INVALID"
    /\ s[t] = "JOINING" => outcome[t] \in {"COMPLETED"} \cup Failing
    /\ s[t] = "JOINING" /\ outcome[t] \in Failing =>
           \A c \in Children(t) : s[c] \in Terminals
    /\ s[t] = "COMPLETED" => \A c \in Children(t) : s[c] = "COMPLETED"

Bodies == \A t \in Slots : BodyOf(t, status)

\* The walk from a task of a tree to its root stays in the tree.
LEMMA TreeUpwards ==
    ASSUME TypeOK, Admission, NEW r, NEW u \in Tree(r), u # r
    PROVE  parent[u] # 0 /\ parent[u] \in Tree(r) /\ u \in Children(parent[u])
  <1>1. u \in Used /\ u \in Slots /\ descendant(u, r)
    BY SlotSets DEF Tree
  <1>2. parent[u] # 0
    <2>1. SUFFICES ASSUME parent[u] = 0 PROVE FALSE
      OBVIOUS
    <2>2. {u} \in SUBSET Slots /\ u \in {u} /\ \A s \in {u} : parent[s] = 0
      BY <1>1, <2>1
    <2>3. r \in {u}
      BY <1>1, <2>2 DEF descendant
    <2> QED
      BY <2>3
  <1>3. parent[u] \in Slots /\ parent[u] < u
    BY <1>1, <1>2 DEF TypeOK, Admission
  <1>4. parent[u] \in Used
    BY <1>1, <1>3 DEF Used, Slots, TypeOK
  <1>5. descendant(parent[u], r)
    <2> SUFFICES ASSUME NEW S \in SUBSET Slots, parent[u] \in S,
                        \A s \in S : parent[s] = 0 \/ parent[s] \in S
                 PROVE  r \in S
      BY DEF descendant
    <2>1. S \cup {u} \in SUBSET Slots /\ u \in S \cup {u}
      BY <1>1
    <2>2. \A s \in S \cup {u} : parent[s] = 0 \/ parent[s] \in S \cup {u}
      OBVIOUS
    <2>3. r \in S \cup {u}
      BY <1>1, <2>1, <2>2 DEF descendant
    <2> QED
      BY <2>3
  <1> QED
    BY <1>1, <1>2, <1>4, <1>5 DEF Tree, Children

\* Ending the bodies of live tasks, with everything below a failed one, keeps
\* what outcomes say.
LEMMA FinishKeepsBodies ==
    ASSUME TypeOK, UNCHANGED treeVars, NEW s, \A t \in Slots : BodyOf(t, s),
           NEW C \in SUBSET Used, NEW B \in SUBSET Used, NEW o, NEW e,
           \A t \in C \cup B : s[t] \notin Terminals,
           \A t \in B : /\ o \in {"COMPLETED"} \cup Failing
                        /\ o \in Failing => \A c \in Children(t) : s[c] \in Terminals \/ c \in C,
           FinishBodies(C, B, o, e, s)
    PROVE  Bodies'
  <1>0. Used \subseteq Slots /\ Used' = Used /\ \A t : Children(t)' = Children(t)
    BY SlotSets DEF treeVars, Used, Children
  <1>1. \A t \in Slots : /\ status'[t] = IF t \in C THEN "CANCELLED"
                                         ELSE IF t \in B THEN "JOINING" ELSE s[t]
                         /\ outcome'[t] = IF t \in C THEN "CANCELLED"
                                          ELSE IF t \in B THEN o ELSE outcome[t]
    BY DEF FinishBodies
  <1>2. \A t \in Slots : s[t] \in Terminals => status'[t] = s[t]
    BY <1>1
  <1>3. \A t : \A c \in Children(t) : c \in Slots
    BY <1>0 DEF Children
  <1>4. ASSUME NEW t \in Slots
        PROVE  BodyOf(t, status)'
    <2>0. BodyOf(t, s)
      OBVIOUS
    <2>1. CASE t \in C
      <3>1. status'[t] = "CANCELLED" /\ t \in Used'
        BY <1>0, <1>1, <2>1
      <3> QED
        BY <3>1 DEF BodyOf
    <2>2. CASE t \in B /\ t \notin C
      <3>1. status'[t] = "JOINING" /\ outcome'[t] = o /\ t \in Used'
        BY <1>0, <1>1, <2>2
      <3>2. o \in Failing => \A c \in Children(t) : status'[c] \in Terminals
        <4> SUFFICES ASSUME o \in Failing, NEW c \in Children(t)
                     PROVE  status'[c] \in Terminals
          OBVIOUS
        <4>1. s[c] \in Terminals \/ c \in C
          BY <2>2
        <4> QED
          BY <1>1, <1>2, <1>3, <4>1 DEF Terminals
      <3> QED
        BY <1>0, <2>2, <3>1, <3>2 DEF BodyOf
    <2>3. CASE t \notin C \cup B
      <3>1. status'[t] = s[t] /\ outcome'[t] = outcome[t]
        BY <1>1, <2>3
      <3>2. \A c \in Children(t) : s[c] \in Terminals => status'[c] = s[c]
        BY <1>2, <1>3
      <3>3. "COMPLETED" \in Terminals
        BY DEF Terminals
      <3> QED
        BY SMTT(40), <1>0, <2>0, <3>1, <3>2, <3>3 DEF BodyOf
    <2> QED
      BY <2>1, <2>2, <2>3
  <1> QED
    BY <1>4 DEF Bodies

\* Steps that leave statuses, outcomes and the tree alone.
LEMMA BodiesFrame ==
    ASSUME Bodies, UNCHANGED <<status, outcome, treeVars>>
    PROVE  Bodies'
  BY DEF Bodies, BodyOf, Children, Used, treeVars

\* A running task that goes on running, or waits.
LEMMA BodiesLiveStep ==
    ASSUME TypeOK, Bodies, UNCHANGED <<treeVars, outcome>>, NEW t \in Used,
           status[t] \in {"READY", "WAITING"},
           NEW st \in {"READY", "WAITING"}, status' = [status EXCEPT ![t] = st]
    PROVE  Bodies'
  <1>0. Used \subseteq Slots /\ Used' = Used /\ \A u : Children(u)' = Children(u)
    BY SlotSets DEF treeVars, Used, Children
  <1>1. \A u \in Slots : status'[u] = IF u = t THEN st ELSE status[u]
    BY DEF TypeOK
  <1>2. \A u : \A c \in Children(u) : c \in Slots
    BY <1>0 DEF Children
  <1>3. \A u \in Slots : status[u] \in Terminals => status'[u] = status[u]
    BY <1>0, <1>1 DEF Terminals
  <1>4. ASSUME NEW u \in Slots PROVE BodyOf(u, status)'
    <2>1. BodyOf(u, status)
      BY DEF Bodies
    <2>2. \A c \in Children(u) : status[c] \in Terminals => status'[c] = status[c]
      BY <1>2, <1>3
    <2>3. "COMPLETED" \in Terminals
      BY DEF Terminals
    <2>4. CASE u = t
      BY <1>0, <1>1, <2>1, <2>4 DEF BodyOf
    <2>5. CASE u # t
      BY <1>0, <1>1, <2>1, <2>2, <2>3, <2>5 DEF BodyOf
    <2> QED
      BY <2>4, <2>5
  <1> QED
    BY <1>4 DEF Bodies

\* With statuses s, t waits only for a child that still runs ...
JoinDue(t, s) ==
    s[t] = "JOINING" =>
        outcome[t] = "COMPLETED" /\ \E c \in Children(t) : s[c] \notin Terminals

\* ... and if t failed, its parent has failed or is about to.
FailurePassed(t, s) ==
    s[t] \in Failed /\ parent[t] # 0 =>
        \/ s[parent[t]] \in Failed
        \/ s[parent[t]] = "JOINING" /\ outcome[parent[t]] \in Failing

SettledAt(t, s) == JoinDue(t, s) /\ FailurePassed(t, s)

\* The pass has settled every task it has visited; between passes, all tasks.
Pass == \A t \in Used : (pc = "settle" => t > visit) => SettledAt(t, status)

\* The statuses once settle has joined t, if its children are done.
AfterJoin(t) == IF Joined(t) THEN [status EXCEPT ![t] = outcome[t]] ELSE status

\* Joining t changes nothing else, and t becomes terminal.
LEMMA JoinChanges ==
    ASSUME TypeOK, Bodies, NEW t \in Slots
    PROVE  /\ \A u \in Slots : u # t => AfterJoin(t)[u] = status[u]
           /\ Joined(t) => AfterJoin(t)[t] = outcome[t] /\ outcome[t] \in {"COMPLETED"} \cup Failing
           /\ ~Joined(t) => AfterJoin(t)[t] = status[t]
           /\ \A u \in Slots : status[u] \in Terminals => AfterJoin(t)[u] = status[u]
           /\ \A u \in Slots : AfterJoin(t)[u] = "JOINING" => status[u] = "JOINING"
  <1>1. \A u \in Slots : AfterJoin(t)[u] = IF u = t /\ Joined(t) THEN outcome[t] ELSE status[u]
    BY DEF AfterJoin, TypeOK
  <1>2. Joined(t) => status[t] = "JOINING" /\ outcome[t] \in {"COMPLETED"} \cup Failing
    BY DEF Joined, Bodies, BodyOf
  <1>3. "JOINING" \notin Terminals /\ "JOINING" \notin {"COMPLETED"} \cup Failing
    BY DEF Terminals, Failing
  <1> HIDE DEF AfterJoin
  <1> QED
    BY <1>1, <1>2, <1>3

\* Joining keeps what outcomes say: when t completes, a child of t that had
\* failed was visited before and would have trapped t.
LEMMA JoinKeepsBodies ==
    ASSUME Known, Bodies, NEW t \in Slots,
           \A u \in Used : u > t => SettledAt(u, status)
    PROVE  \A u \in Slots : BodyOf(u, AfterJoin(t))
  <1> DEFINE s == AfterJoin(t)
  <1>0. TypeOK /\ Admission /\ Used \subseteq Slots
    BY SlotSets DEF Known
  <1>1. /\ \A u \in Slots : u # t => s[u] = status[u]
        /\ Joined(t) => s[t] = outcome[t] /\ outcome[t] \in {"COMPLETED"} \cup Failing
        /\ ~Joined(t) => s[t] = status[t]
        /\ \A u \in Slots : status[u] \in Terminals => s[u] = status[u]
        /\ \A u \in Slots : s[u] = "JOINING" => status[u] = "JOINING"
    BY <1>0, JoinChanges
  <1> HIDE DEF s
  <1>2. \A u : \A c \in Children(u) : c \in Slots /\ c \in Used /\ parent[c] = u /\ u < c
    BY <1>0 DEF Children, Admission
  <1> SUFFICES ASSUME NEW u \in Slots PROVE BodyOf(u, s)
    BY DEF s
  <1>3. BodyOf(u, status)
    BY DEF Bodies
  <1>4. /\ \A c \in Children(u) : status[c] \in Terminals => s[c] = status[c]
        /\ "COMPLETED" \in Terminals
    BY <1>1, <1>2 DEF Terminals
  <1>5. CASE u # t \/ ~Joined(t)
    <2>1. s[u] = status[u]
      BY <1>1, <1>5
    <2> QED
      BY <1>3, <1>4, <2>1 DEF BodyOf
  <1>6. CASE u = t /\ Joined(t)
    <2>1. status[t] = "JOINING" /\ \A c \in Children(t) : status[c] \in Terminals
      BY <1>6 DEF Joined, terminal
    <2>2. t \in Used
      BY <1>3, <1>6, <2>1 DEF BodyOf
    <2>3. ASSUME outcome[t] = "COMPLETED", NEW c \in Children(t)
          PROVE  status[c] = "COMPLETED"
      <3>1. FailurePassed(c, status) /\ parent[c] = t /\ parent[c] # 0
        BY <1>2 DEF SettledAt, Slots
      <3>2. status[c] \notin Failed
        BY <2>1, <2>3, <3>1 DEF FailurePassed, Failed, Failing, Terminals
      <3> QED
        BY <2>1, <3>2 DEF Failed
    <2>4. s[t] = outcome[t] /\ outcome[t] \in {"COMPLETED"} \cup Failing
      BY <1>1, <1>6
    <2> QED
      BY <1>4, <1>6, <2>2, <2>3, <2>4 DEF BodyOf, Failing
  <1> QED
    BY <1>5, <1>6

\* After joining t, the later tasks are settled still, t waits only if it must,
\* and t is settled too unless it traps its parent.
LEMMA JoinSettles ==
    ASSUME Known, Bodies, NEW t \in Slots,
           \A u \in Used : u > t => SettledAt(u, status)
    PROVE  /\ \A u \in Used : u > t => SettledAt(u, AfterJoin(t))
           /\ JoinDue(t, AfterJoin(t))
           /\ ~TrapsParent(t, AfterJoin(t)[t]) => FailurePassed(t, AfterJoin(t))
  <1> DEFINE s == AfterJoin(t)
  <1>0. TypeOK /\ Admission /\ Used \subseteq Slots /\ \A u \in Slots : BodyOf(u, s)
    BY SlotSets, JoinKeepsBodies DEF Known
  <1>1. /\ \A u \in Slots : u # t => s[u] = status[u]
        /\ Joined(t) => s[t] = outcome[t] /\ outcome[t] \in {"COMPLETED"} \cup Failing
        /\ ~Joined(t) => s[t] = status[t]
        /\ \A u \in Slots : status[u] \in Terminals => s[u] = status[u]
        /\ \A u \in Slots : s[u] = "JOINING" => status[u] = "JOINING"
    BY <1>0, JoinChanges
  <1> HIDE DEF s
  <1>2. \A u : \A c \in Children(u) : c \in Slots /\ c \in Used /\ parent[c] = u /\ u < c
    BY <1>0 DEF Children, Admission
  <1>a. /\ \A u \in Slots : u \in Nat
        /\ Failed \subseteq Terminals /\ Failing \subseteq Failed
    BY DEF Slots, Failed, Failing, Terminals
  <1>3. ASSUME NEW u \in Used, u > t
        PROVE  JoinDue(u, s)
    <2> SUFFICES ASSUME s[u] = "JOINING"
                 PROVE  outcome[u] = "COMPLETED" /\ \E c \in Children(u) : s[c] \notin Terminals
      BY DEF JoinDue
    <2>1. status[u] = "JOINING"
      BY <1>0, <1>1
    <2>2. PICK c \in Children(u) : status[c] \notin Terminals
      BY <1>3, <2>1 DEF SettledAt, JoinDue
    <2>3. c \in Slots /\ c # t
      BY <1>0, <1>2, <1>3, <1>a
    <2>4. s[c] \notin Terminals
      BY <1>1, <2>2, <2>3
    <2> QED
      BY <1>3, <2>1, <2>4 DEF SettledAt, JoinDue
  <1>4. ASSUME NEW u \in Used, u > t
        PROVE  FailurePassed(u, s)
    <2> SUFFICES ASSUME s[u] \in Failed, parent[u] # 0
                 PROVE  \/ s[parent[u]] \in Failed
                        \/ s[parent[u]] = "JOINING" /\ outcome[parent[u]] \in Failing
      BY DEF FailurePassed
    <2> DEFINE q == parent[u]
    <2>1. u \in Slots /\ q \in Slots /\ u # t
      BY <1>0, <1>4, <1>a DEF TypeOK
    <2>2. status[q] \in Failed \/ (status[q] = "JOINING" /\ outcome[q] \in Failing)
      BY <1>1, <1>4, <2>1 DEF SettledAt, FailurePassed
    <2> HIDE DEF q
    <2>3. CASE status[q] \in Failed
      BY <1>1, <1>a, <2>1, <2>3 DEF q
    <2>4. CASE status[q] = "JOINING" /\ outcome[q] \in Failing
      BY <1>1, <1>a, <2>1, <2>4 DEF q
    <2> QED
      BY <2>2, <2>3, <2>4
  <1>5. JoinDue(t, s)
    <2> SUFFICES ASSUME s[t] = "JOINING"
                 PROVE  outcome[t] = "COMPLETED" /\ \E c \in Children(t) : s[c] \notin Terminals
      BY DEF JoinDue
    <2>1. status[t] = "JOINING" /\ ~Joined(t)
      BY <1>1 DEF Failing
    <2>2. PICK c \in Children(t) : status[c] \notin Terminals
      BY <2>1 DEF Joined, terminal
    <2>3. outcome[t] = "COMPLETED"
      BY <2>1, <2>2 DEF Bodies, BodyOf
    <2>4. s[c] \notin Terminals
      <3>1. c \in Slots /\ c # t
        BY <1>2, <1>a
      <3> QED
        BY <1>1, <2>2, <3>1
    <2> QED
      BY <2>3, <2>4
  <1>6. ASSUME ~TrapsParent(t, s[t])
        PROVE  FailurePassed(t, s)
    <2> SUFFICES ASSUME s[t] \in Failed, parent[t] # 0
                 PROVE  \/ s[parent[t]] \in Failed
                        \/ s[parent[t]] = "JOINING" /\ outcome[parent[t]] \in Failing
      BY DEF FailurePassed
    <2> DEFINE q == parent[t]
    <2>0. t \in Used /\ q \in Slots /\ q # t
      BY SMTT(40), <1>0, <1>a DEF TypeOK, Admission
    <2>1. status[q] \in Terminals \/ outcome[q] \in Failing
      BY <1>6 DEF TrapsParent, Failed, Failing, terminal
    <2>2. s[q] = status[q] /\ BodyOf(q, s) /\ t \in Children(q)
      BY <1>0, <1>1, <2>0 DEF Children
    <2>3. s[q] # "COMPLETED"
      BY <2>2 DEF BodyOf, Failed
    <2>4. s[q] \in Statuses
      BY <1>0, <2>0, <2>2 DEF TypeOK
    <2> HIDE DEF q
    <2>5. s[q] \in Failed \/ (s[q] = "JOINING" /\ outcome[q] \in Failing)
      BY <2>1, <2>2, <2>3, <2>4 DEF BodyOf, Failed, Failing, Statuses
    <2> QED
      BY <2>5 DEF q
  <1> QED
    BY <1>3, <1>4, <1>5, <1>6 DEF SettledAt, s

\* With the statuses of AfterJoin, scopes nest still.
LEMMA JoinNests ==
    ASSUME Known, Bodies, NEW t \in Slots
    PROVE  Nested(AfterJoin(t))
  <1> DEFINE s == AfterJoin(t)
  <1>0. TypeOK /\ ScopesNest /\ Used \subseteq Slots
    BY SlotSets DEF Known
  <1>1. /\ \A u \in Slots : u # t => s[u] = status[u]
        /\ ~Joined(t) => s[t] = status[t]
        /\ \A u \in Slots : status[u] \in Terminals => s[u] = status[u]
    BY <1>0, JoinChanges
  <1> HIDE DEF s
  <1> SUFFICES ASSUME NEW u \in Used, s[u] \in Terminals, NEW c \in Children(u)
               PROVE  s[c] \in Terminals
    BY DEF Nested, s
  <1>2. c \in Slots /\ u \in Slots
    BY <1>0 DEF Children
  <1>3. status[c] \in Terminals
    <2>1. CASE u = t /\ Joined(t)
      BY <2>1 DEF Joined, terminal
    <2>2. CASE ~(u = t /\ Joined(t))
      BY <1>0, <1>1, <1>2, <2>2 DEF ScopesNest, terminal
    <2> QED
      BY <2>1, <2>2
  <1> QED
    BY <1>1, <1>2, <1>3

\* When t traps its parent p, what settle cancels below p takes with it every
\* parent on the way up to p; so all tasks from t on are settled.
LEMMA TrapSettles ==
    ASSUME Known, Bodies, NEW t \in Slots,
           \A u \in Used : u > t => SettledAt(u, status),
           TrapsParent(t, AfterJoin(t)[t]), UNCHANGED treeVars,
           FinishBodies(cancel_children(parent[t]) \ {t}, {parent[t]}, "TRAPPED", "child",
                        AfterJoin(t))
    PROVE  /\ Bodies'
           /\ \A u \in Used : u > t \/ u = t => SettledAt(u, status)'
  <1> DEFINE s == AfterJoin(t)
             p == parent[t]
             C == cancel_children(p) \ {t}
  <1>0. TypeOK /\ Admission /\ Used \subseteq Slots
    BY SlotSets DEF Known
  <1>1. /\ \A u \in Slots : u # t => s[u] = status[u]
        /\ \A u \in Slots : status[u] \in Terminals => s[u] = status[u]
    BY <1>0, JoinChanges
  <1>2. p \in Slots /\ p < t /\ p # 0 /\ t \in Used /\ p \in Used
    <2>1. p # 0 /\ p \in Slots
      BY <1>0 DEF TrapsParent, TypeOK
    <2>2. t \in Used /\ p < t
      BY <1>0, <2>1 DEF Admission
    <2> QED
      BY <1>0, <2>1, <2>2 DEF Used, Slots, TypeOK
  <1>3. s[t] \in Failed /\ s[t] \in Terminals /\ status[p] \notin Terminals
    BY DEF TrapsParent, Failed, terminal
  <1>4. \A u \in Slots : BodyOf(u, s)
    BY JoinKeepsBodies
  <1>5. /\ \A u \in Used : u > t => SettledAt(u, s)
        /\ JoinDue(t, s)
    BY JoinSettles
  <1>6. Nested(s)
    BY JoinNests
  <1>7. \A u : u \in C <=> /\ u \in Tree(p) /\ u # p /\ u # t
                           /\ u \in Used /\ status[u] \notin Terminals
    BY DEF cancel_children, Live, Tree, terminal
  <1>8. FinishBodies(C, {p}, "TRAPPED", "child", s)
    OBVIOUS
  <1>a. \A u \in Slots : u \in Nat
    BY DEF Slots
  <1>b. /\ t \in Tree(p) /\ p \in Tree(p)
        /\ \A u \in Tree(p) : \A c \in Children(u) : c \in Tree(p) /\ c # p
    <2>1. p \in Tree(p)
      BY <1>2 DEF Tree, descendant
    <2>2. \A u \in Tree(p) : \A c \in Children(u) : c \in Tree(p) /\ c # p
      BY <1>0, TreeClosed
    <2>3. t \in Children(p)
      BY <1>2 DEF Children
    <2> QED
      BY <2>1, <2>2, <2>3
  <1>c. \A u \in Tree(p) : u # p => /\ parent[u] # 0 /\ parent[u] \in Tree(p)
                                    /\ u \in Children(parent[u])
    BY <1>0, TreeUpwards
  <1>d. \A u : /\ u \in Tree(p) => u \in Used
               /\ \A c \in Children(u) : c \in Used /\ parent[c] = u
    BY DEF Tree, Children
  <1> HIDE DEF s, p, C
  <1>e. \A u \in C \cup {p} : u \in Slots /\ u # t /\ s[u] \notin Terminals
    <2>1. \A u \in C : u \in Slots /\ u # t /\ s[u] \notin Terminals
      BY <1>0, <1>1, <1>7
    <2>2. p \in Slots /\ p # t /\ s[p] \notin Terminals
      BY <1>1, <1>2, <1>3, <1>a
    <2> QED
      BY <2>1, <2>2
  <1>9. Bodies'
    <2>1. C \in SUBSET Used /\ {p} \in SUBSET Used
      BY <1>2, <1>7
    <2>2. \A c \in Children(p) : s[c] \in Terminals \/ c \in C
      BY <1>0, <1>1, <1>3, <1>7, <1>b, <1>d
    <2>3. "TRAPPED" \in Failing
      BY DEF Failing
    <2> QED
      BY <1>0, <1>4, <1>8, <1>e, <2>1, <2>2, <2>3, FinishKeepsBodies
  <1>10. /\ \A u \in Slots : /\ status'[u] = IF u \in C THEN "CANCELLED"
                                             ELSE IF u = p THEN "JOINING" ELSE s[u]
                             /\ outcome'[u] = IF u \in C THEN "CANCELLED"
                                              ELSE IF u = p THEN "TRAPPED" ELSE outcome[u]
         /\ parent' = parent /\ \A u : Children(u)' = Children(u)
    BY SMTT(40), <1>8 DEF FinishBodies, treeVars, Children, Used
  <1>11. ASSUME NEW u \in Used, u > t \/ u = t
         PROVE  JoinDue(u, status)'
    <2> SUFFICES ASSUME status'[u] = "JOINING"
                 PROVE  /\ outcome'[u] = "COMPLETED"
                        /\ \E c \in Children(u) : status'[c] \notin Terminals
      BY <1>10 DEF JoinDue
    <2>1. u \in Slots /\ u # p
      BY <1>0, <1>2, <1>11, <1>a
    <2>2. u \notin C /\ s[u] = "JOINING" /\ outcome'[u] = outcome[u]
      BY <1>10, <2>1
    <2>3. u # t
      BY <1>3, <2>2 DEF Terminals
    <2>4. outcome[u] = "COMPLETED" /\ \E c \in Children(u) : s[c] \notin Terminals
      BY <1>5, <1>11, <2>2, <2>3 DEF SettledAt, JoinDue
    <2>5. PICK c \in Children(u) : s[c] \notin Terminals
      BY <2>4
    <2>6. c \notin C
      <3>1. SUFFICES ASSUME c \in C PROVE FALSE
        OBVIOUS
      <3>2. u \in Tree(p)
        BY <1>7, <1>c, <1>d, <3>1
      <3>3. status[u] = "JOINING"
        BY <1>1, <2>1, <2>2, <2>3
      <3> QED
        BY <1>7, <2>1, <2>2, <2>3, <3>2, <3>3 DEF Terminals
    <2>7. status'[c] \notin Terminals
      BY <1>0, <1>10, <1>d, <2>5, <2>6 DEF Terminals
    <2> QED
      BY <2>2, <2>4, <2>7
  <1>12. ASSUME NEW u \in Used, u > t \/ u = t
         PROVE  FailurePassed(u, status)'
    <2> DEFINE q == parent[u]
    <2> SUFFICES ASSUME status'[u] \in Failed, q # 0
                 PROVE  status'[q] \in Failed \/ (status'[q] = "JOINING" /\ outcome'[q] \in Failing)
      BY <1>10 DEF FailurePassed
    <2>1. u \in Slots /\ u # p /\ q \in Slots
      BY SMTT(40), <1>0, <1>2, <1>12, <1>a DEF TypeOK
    <2>2. p \notin C /\ "CANCELLED" \in Failed /\ "TRAPPED" \in Failing
      BY <1>7 DEF Failed, Failing, Terminals
    <2>3. CASE q = p
      BY <1>10, <2>1, <2>2, <2>3
    <2>4. CASE u \in C /\ q # p
      <3>1. q \in Tree(p) /\ u \in Children(q) /\ q \in Used
        BY <1>7, <1>c, <1>d, <2>4
      <3>2. s[u] \notin Terminals
        BY <1>e, <2>4
      <3>3. s[q] \notin Terminals
        BY <1>6, <3>1, <3>2 DEF Nested
      <3>4. q # t
        BY <1>3, <3>3
      <3>5. q \in C
        BY <1>1, <1>7, <2>1, <2>4, <3>1, <3>3, <3>4
      <3> QED
        BY <1>10, <2>1, <2>2, <3>5
    <2>5. CASE u \notin C /\ q # p
      <3>1. s[u] \in Failed /\ u # t
        BY <1>10, <2>1, <2>5 DEF p
      <3>2. s[q] \in Failed \/ (s[q] = "JOINING" /\ outcome[q] \in Failing)
        BY <1>5, <1>12, <3>1 DEF SettledAt, FailurePassed
      <3> HIDE DEF q
      <3> QED
        BY <1>10, <2>1, <2>2, <2>5, <3>2
    <2> QED
      BY <2>3, <2>4, <2>5
  <1> QED
    BY <1>9, <1>11, <1>12 DEF SettledAt

\* One visit settles one task more.
LEMMA VisitStep ==
    ASSUME Known, Bodies, Pass, SettleVisit
    PROVE  Bodies' /\ Pass'
  <1> DEFINE t == visit
  <1>0. TypeOK /\ Used \subseteq Slots /\ t \in Slots /\ UNCHANGED treeVars
    <2>1. TypeOK
      BY DEF Known
    <2>2. Used \subseteq Slots
      BY <2>1, SlotSets
    <2>3. t \in Slots /\ UNCHANGED treeVars
      BY <2>1, VisitedSlot
    <2> QED
      BY <2>1, <2>2, <2>3
  <1>1. \A u \in Used : u > t => SettledAt(u, status)
    BY DEF Pass
  <1>2. /\ Used' = Used /\ \A u : Children(u)' = Children(u)
        /\ parent' = parent /\ visit' = t - 1
    BY <1>0 DEF treeVars, Used, Children, SettleVisit
  <1>3. Bodies' /\ \A u \in Used : u > t \/ u = t => SettledAt(u, status)'
    <2>1. CASE TrapsParent(t, AfterJoin(t)[t])
      <3>1. FinishBodies(cancel_children(parent[t]) \ {t}, {parent[t]}, "TRAPPED", "child",
                         AfterJoin(t))
        BY <2>1 DEF SettleVisit, AfterJoin
      <3> HIDE DEF t
      <3> QED
        BY <1>0, <1>1, <2>1, <3>1, TrapSettles
    <2>2. CASE ~TrapsParent(t, AfterJoin(t)[t])
      <3>1. status' = AfterJoin(t) /\ outcome' = outcome
        BY <2>2 DEF SettleVisit, AfterJoin
      <3> HIDE DEF t
      <3>2. Bodies'
        <4>1. \A u \in Slots : BodyOf(u, AfterJoin(t))
          BY <1>0, <1>1, JoinKeepsBodies
        <4> QED
          BY <1>2, <3>1, <4>1 DEF Bodies, BodyOf
      <3>3. \A u \in Used : u > t \/ u = t => SettledAt(u, AfterJoin(t))
        BY <1>0, <1>1, <2>2, JoinSettles DEF SettledAt
      <3> QED
        BY <1>2, <3>1, <3>2, <3>3 DEF SettledAt, JoinDue, FailurePassed
    <2> QED
      BY <2>1, <2>2
  <1>4. Pass'
    <2> SUFFICES ASSUME NEW u \in Used, u > t - 1
                 PROVE  SettledAt(u, status)'
      BY <1>2 DEF Pass, SettleVisit
    <2>1. u > t \/ u = t
      BY <1>0 DEF Slots
    <2> QED
      BY <1>3, <2>1
  <1> QED
    BY <1>3, <1>4

\* A pass that starts has settled nothing yet.
LEMMA PassStarts ==
    ASSUME TypeOK, UNCHANGED treeVars, NEW where, StartSettle(where)
    PROVE  Pass'
  <1>1. pc' = "settle" /\ visit' = count /\ Used' = Used /\ count \in Nat
    BY DEF StartSettle, treeVars, Used, TypeOK
  <1>2. \A u \in Used : ~(u > count)
    BY <1>1 DEF Used
  <1> QED
    BY <1>1, <1>2 DEF Pass

\* Cancelling live tasks keeps the bodies, and a pass follows.
LEMMA CancelStep ==
    ASSUME Known, Bodies, NEW R, NEW where, UNCHANGED treeVars,
           FinishBodies(cancel_tree(R), {}, "CANCELLED", "none", status),
           StartSettle(where)
    PROVE  Bodies' /\ Pass'
  <1> DEFINE C == cancel_tree(R)
             B == {}
             o == "CANCELLED"
  <1>0. TypeOK /\ C \in SUBSET Used /\ B \in SUBSET Used
    BY SlotSets DEF Known
  <1>1. \A t \in C \cup B : status[t] \notin Terminals
    BY DEF cancel_tree, Live, terminal
  <1>2. \A t \in Slots : BodyOf(t, status)
    BY DEF Bodies
  <1>a. \A t \in B : /\ o \in {"COMPLETED"} \cup Failing
                     /\ o \in Failing =>
                           \A c \in Children(t) : status[c] \in Terminals \/ c \in C
    OBVIOUS
  <1>b. FinishBodies(C, B, o, "none", status)
    OBVIOUS
  <1> HIDE DEF B, C, o
  <1>3. Bodies'
    BY <1>0, <1>1, <1>2, <1>a, <1>b, FinishKeepsBodies
  <1> QED
    BY <1>0, <1>3, PassStarts

\* A running body that ends keeps the bodies, and a pass follows.
LEMMA EndStep ==
    ASSUME Known, Bodies, NEW t \in Used, status[t] \in {"READY", "WAITING"},
           NEW o \in {"COMPLETED", "EXITED", "TRAPPED"}, NEW where,
           EndBody(t, o, where), UNCHANGED treeVars
    PROVE  Bodies' /\ Pass'
  <1> DEFINE B == {t}
             C == IF o = "COMPLETED" THEN {} ELSE cancel_children(t)
             e == IF o = "TRAPPED" THEN "own" ELSE error[t]
  <1>0. TypeOK /\ C \in SUBSET Used /\ B \in SUBSET Used
    BY SlotSets DEF Known
  <1>1. FinishBodies(C, B, o, e, status) /\ StartSettle(where)
    BY DEF EndBody
  <1>2. \A u \in Slots : BodyOf(u, status)
    BY DEF Bodies
  <1>3. \A u \in C \cup B : status[u] \notin Terminals
    BY DEF cancel_children, Live, terminal, Terminals
  <1>4. o \in Failing => \A c \in Children(t) : status[c] \in Terminals \/ c \in C
    <2> SUFFICES ASSUME o \in Failing, NEW c \in Children(t)
                 PROVE  status[c] \in Terminals \/ c \in cancel_children(t)
      BY DEF Failing
    <2>1. t \in Tree(t)
      BY DEF Tree, descendant
    <2>2. c \in Tree(t) \ {t}
      BY <1>0, <2>1, TreeClosed DEF Known
    <2> QED
      BY <2>2 DEF cancel_children, Live, terminal
  <1>5. \A u \in B : /\ o \in {"COMPLETED"} \cup Failing
                     /\ o \in Failing =>
                           \A c \in Children(u) : status[c] \in Terminals \/ c \in C
    BY <1>4 DEF Failing
  <1> HIDE DEF B, C, e
  <1>6. Bodies'
    BY <1>0, <1>1, <1>2, <1>3, <1>5, FinishKeepsBodies
  <1> QED
    BY <1>0, <1>1, <1>6, PassStarts

\* Steps that touch neither statuses, outcomes nor the tree, outside a pass or
\* at its end.
LEMMA PassFrame ==
    ASSUME Bodies, Pass, UNCHANGED <<status, outcome, treeVars>>,
           \/ pc # "settle" /\ pc' # "settle"
           \/ pc = "settle" /\ visit = 0 /\ pc' # "settle"
           \/ UNCHANGED <<pc, visit>>
    PROVE  Bodies' /\ Pass'
  <1>1. Used' = Used /\ parent' = parent /\ \A u : Children(u)' = Children(u)
    BY DEF treeVars, Used, Children
  <1>2. \A u \in Used : (pc' = "settle" => u > visit') => (pc = "settle" => u > visit)
    BY DEF Used
  <1>3. \A u : SettledAt(u, status)' <=> SettledAt(u, status)
    BY <1>1 DEF SettledAt, JoinDue, FailurePassed
  <1> QED
    BY <1>1, <1>2, <1>3, BodiesFrame DEF Pass

\* A running task that goes on running, or waits, outside a pass.
LEMMA PassLiveStep ==
    ASSUME TypeOK, Bodies, Pass, UNCHANGED <<treeVars, outcome, pc>>, pc # "settle",
           NEW t \in Used, status[t] \in {"READY", "WAITING"},
           NEW st \in {"READY", "WAITING"}, status' = [status EXCEPT ![t] = st]
    PROVE  Bodies' /\ Pass'
  <1>0. /\ Used \subseteq Slots /\ Used' = Used /\ parent' = parent
        /\ \A u : Children(u)' = Children(u)
    BY SlotSets DEF treeVars, Used, Children
  <1>1. \A u \in Slots : status'[u] = IF u = t THEN st ELSE status[u]
    BY DEF TypeOK
  <1>2. \A u \in Slots : /\ status'[u] \in Terminals <=> status[u] \in Terminals
                         /\ status'[u] \in Failed <=> status[u] \in Failed
                         /\ status'[u] = "JOINING" <=> status[u] = "JOINING"
    BY <1>0, <1>1 DEF Terminals, Failed
  <1>3. ASSUME NEW u \in Used
        PROVE  SettledAt(u, status)'
    <2>1. SettledAt(u, status) /\ u \in Slots
      BY <1>0 DEF Pass
    <2>2. \A c \in Children(u) : c \in Slots
      BY <1>0 DEF Children
    <2>3. JoinDue(u, status)'
      BY <1>0, <1>2, <2>1, <2>2 DEF SettledAt, JoinDue
    <2>4. parent[u] # 0 => parent[u] \in Slots
      BY <2>1 DEF TypeOK
    <2>5. FailurePassed(u, status)'
      BY <1>0, <1>2, <2>1, <2>4 DEF SettledAt, FailurePassed
    <2> QED
      BY <2>3, <2>5 DEF SettledAt
  <1>4. Bodies'
    BY BodiesLiveStep
  <1> QED
    BY <1>0, <1>3, <1>4 DEF Pass

\* A new task, under a parent whose body runs.
LEMMA SpawnStep ==
    ASSUME Known, Bodies, Pass, NEW p \in {0} \cup Used, NEW async, NEW d,
           vm_tasks_spawn(p, async, d)
    PROVE  Bodies' /\ Pass'
  <1> DEFINE n == count + 1
  <1>0. TypeOK /\ Admission /\ Used \subseteq Slots
    BY SlotSets DEF Known
  <1>1. n \in Slots /\ Used' = Used \cup {n} /\ n \notin Used
    BY <1>0, SpawnedSlot
  <1>2. /\ \A t \in Slots : status'[t] = IF t = n THEN "READY" ELSE status[t]
        /\ \A t \in Slots : parent'[t] = IF t = n THEN p ELSE parent[t]
        /\ outcome' = outcome /\ pc' = pc /\ pc = "idle"
    BY <1>0 DEF vm_tasks_spawn, TypeOK, controlVars
  <1>3. p # 0 => status[p] \in {"READY", "WAITING"}
    BY DEF vm_tasks_spawn, Spawnable
  <1>4. outcome[n] = "INVALID"
    BY <1>1 DEF Bodies, BodyOf
  <1> HIDE DEF n
  <1>5. \A u \in Used : /\ u \in Slots /\ u # n
                        /\ u # p => Children(u)' = Children(u)
                        /\ \A c \in Children(u) : c \in Used /\ c \in Children(u)'
    <2>1. \A u \in Used : u \in Slots /\ u # n
      BY <1>0, <1>1
    <2>2. \A c \in Used : parent'[c] = parent[c]
      BY <1>2, <2>1
    <2>3. parent'[n] = p
      BY <1>1, <1>2
    <2> QED
      BY <1>1, <2>1, <2>2, <2>3 DEF Children
  <1>6. ASSUME NEW u \in Slots PROVE BodyOf(u, status)'
    <2>1. BodyOf(u, status)
      BY DEF Bodies
    <2>2. CASE u = n
      BY <1>1, <1>2, <1>4, <2>2 DEF BodyOf
    <2>3. CASE u # n /\ u \notin Used
      BY <1>1, <1>2, <2>1, <2>3 DEF BodyOf
    <2>4. CASE u \in Used /\ u = p
      <3>1. status'[u] = status[u] /\ u \in Used' /\ status[u] \in {"READY", "WAITING"}
        BY <1>1, <1>2, <1>3, <1>5, <2>4 DEF Slots
      <3> QED
        BY <1>2, <2>1, <3>1 DEF BodyOf
    <2>5. CASE u \in Used /\ u # p
      <3>1. /\ status'[u] = status[u] /\ u \in Used' /\ Children(u)' = Children(u)
            /\ \A c \in Children(u) : status'[c] = status[c]
        BY <1>1, <1>2, <1>5, <2>5
      <3> QED
        BY <1>2, <2>1, <3>1 DEF BodyOf
    <2> QED
      BY <2>2, <2>3, <2>4, <2>5
  <1>7. ASSUME NEW u \in Used' PROVE SettledAt(u, status)'
    <2>1. CASE u = n
      BY <1>1, <1>2, <2>1 DEF SettledAt, JoinDue, FailurePassed, Failed, Terminals
    <2>2. CASE u # n
      <3>1. u \in Used /\ SettledAt(u, status)
        BY <1>1, <1>2, <2>2 DEF Pass
      <3>2. /\ status'[u] = status[u] /\ parent'[u] = parent[u]
            /\ \A c \in Children(u) : status'[c] = status[c] /\ c \in Children(u)'
        BY <1>1, <1>2, <1>5, <3>1
      <3>3. JoinDue(u, status)'
        BY <1>2, <3>1, <3>2 DEF SettledAt, JoinDue
      <3>4. FailurePassed(u, status)'
        <4>1. CASE parent[u] = 0
          BY <3>2, <4>1 DEF FailurePassed
        <4>2. CASE parent[u] # 0
          <5>1. parent[u] \in Slots /\ parent[u] < u
            BY <1>0, <3>1, <4>2 DEF TypeOK, Admission
          <5>2. parent[u] \in Used
            BY SMTT(40), <1>0, <3>1, <5>1 DEF Used, Slots, TypeOK
          <5>3. status'[parent[u]] = status[parent[u]]
            BY <1>2, <1>5, <5>2
          <5> QED
            BY <1>2, <3>1, <3>2, <5>3 DEF SettledAt, FailurePassed
        <4> QED
          BY <4>1, <4>2
      <3> QED
        BY <3>3, <3>4 DEF SettledAt
    <2> QED
      BY <2>1, <2>2
  <1> QED
    BY <1>6, <1>7 DEF Bodies, Pass

\* Every step keeps the bodies and the progress of the pass.
LEMMA PassStep ==
    Known /\ Bodies /\ Pass /\ [Next]_vars => Bodies' /\ Pass'
  <1> SUFFICES ASSUME Known, Bodies, Pass, [Next]_vars
               PROVE  Bodies' /\ Pass'
    OBVIOUS
  <1>0. TypeOK
    BY DEF Known
  <1>1. ASSUME NEW p \in {0} \cup Used, NEW async \in AsyncModes, NEW d \in Ticks,
               vm_tasks_spawn(p, async, d)
        PROVE  Bodies' /\ Pass'
    BY <1>1, SpawnStep
  <1>2. ASSUME NEW t \in Used, vm_tasks_cancel(t)
        PROVE  Bodies' /\ Pass'
    BY <1>2, CancelStep DEF vm_tasks_cancel
  <1>3. ASSUME NEW t \in Used, NEW g \in 1 .. MaxGeneration,
               NEW a \in PrintAnswers \cup ReadAnswers, complete(t, g, a)
        PROVE  Bodies' /\ Pass'
    BY <1>3, PassFrame DEF complete, bodyVars, controlVars
  <1>4. ASSUME NEW n \in Ticks, NEW b \in 0 .. MaxBudget, PumpBegin(n, b)
        PROVE  Bodies' /\ Pass'
    BY <1>4, PassFrame DEF PumpBegin, bodyVars
  <1>5. CASE vm_tasks_destroy
    BY <1>5, PassFrame DEF vm_tasks_destroy
  <1>6. CASE SettleVisit
    BY <1>6, VisitStep
  <1>7. CASE SettleReturn
    <2>1. return # "settle"
      BY <1>0 DEF TypeOK
    <2> QED
      BY <1>7, <2>1, PassFrame DEF SettleReturn, bodyVars
  <1>8. CASE deliver_completions
    <2> DEFINE t == Head(events).task
    <2>1. UNCHANGED treeVars /\ t \in Slots /\ pc = "deliver"
      <3>1. t \in Slots
        BY <1>0, <1>8, FirstCompletion
      <3> QED
        BY <1>8, <3>1 DEF deliver_completions
    <2>2. pending[t] => t \in Used /\ status[t] = "WAITING"
      BY <2>1 DEF Known, Admission, NoLostWait
    <2>3. CASE ~(pending[t] /\ generation[t] = Head(events).generation)
      BY <1>8, <2>1, <2>3, PassFrame DEF deliver_completions, bodyVars
    <2>4. CASE pending[t] /\ EndBody(t, "TRAPPED", "deliver")
      BY <2>1, <2>2, <2>4, EndStep
    <2>5. CASE /\ pending[t] /\ status' = [status EXCEPT ![t] = "READY"]
               /\ UNCHANGED <<outcome, pc>>
      <3> HIDE DEF t
      <3> QED
        BY <1>0, <2>1, <2>2, <2>5, PassLiveStep
    <2> QED
      BY <1>8, <2>3, <2>4, <2>5 DEF deliver_completions
  <1>9. CASE ExpireDeadlines
    BY <1>9, CancelStep DEF ExpireDeadlines
  <1>10. ASSUME NEW t \in Slots, Dispatch(t)
         PROVE  Bodies' /\ Pass'
    <2>1. Scan(t)
      BY <1>10 DEF Dispatch, DispatchYield, DispatchWait, DispatchEnd
    <2>2. t \in Used /\ status[t] = "READY" /\ pc = "dispatch"
      BY <1>0, <2>1, ScanTypes DEF Scan, Ready
    <2>3. CASE DispatchYield(t)
      BY <2>2, <2>3, PassFrame DEF DispatchYield, bodyVars
    <2>4. CASE DispatchWait(t)
      BY <1>0, <2>2, <2>4, PassLiveStep DEF DispatchWait
    <2>5. ASSUME NEW o \in {"COMPLETED", "EXITED", "TRAPPED"}, DispatchEnd(t, o)
          PROVE  Bodies' /\ Pass'
      BY <2>2, <2>5, EndStep DEF DispatchEnd
    <2> QED
      BY <1>10, <2>3, <2>4, <2>5 DEF Dispatch
  <1>11. CASE PumpEnd
    BY <1>11, PassFrame DEF PumpEnd, bodyVars
  <1>12. CASE UNCHANGED vars
    BY <1>12, PassFrame DEF vars, bodyVars, controlVars
  <1> QED
    BY <1>1, <1>2, <1>3, <1>4, <1>5, <1>6, <1>7, <1>8, <1>9, <1>10, <1>11, <1>12
       DEF Next, Continue

\* In every reachable state the bodies and the pass are as stated.
LEMMA AlwaysSettling == Spec => [](Bodies /\ Pass)
  <1>1. Init => Bodies /\ Pass
    <2>1. Init => Used = {}
      BY DEF Init, Used
    <2> QED
      BY SMTT(40), <2>1 DEF Init, Bodies, BodyOf, Pass
  <1> QED
    BY <1>1, PassStep, AlwaysKnown, PTL DEF Spec

\* One reverse pass of settle is enough, for every tree of tasks: when it ends,
\* nobody waits for children that are done and no failure has stopped short of
\* the root it must reach.
THEOREM OnePassIsEnough == Spec => []OnePassSettles
  <1>1. Known /\ Bodies /\ Pass => OnePassSettles
    <2> SUFFICES ASSUME Known, Bodies, Pass, pc # "settle", NEW t \in Used
                 PROVE  /\ status[t] = "JOINING" =>
                              outcome[t] = "COMPLETED" /\ \E c \in Children(t) : ~terminal(c)
                        /\ (status[t] \in Failed /\ parent[t] # 0) => status[parent[t]] \in Failed
      BY DEF OnePassSettles, Failed
    <2>1. TypeOK /\ Admission /\ Used \subseteq Slots /\ SettledAt(t, status)
      BY SlotSets DEF Known, Pass
    <2>2. status[t] = "JOINING" =>
              outcome[t] = "COMPLETED" /\ \E c \in Children(t) : ~terminal(c)
      BY <2>1 DEF SettledAt, JoinDue, terminal
    <2>3. ASSUME status[t] \in Failed, parent[t] # 0
          PROVE  status[parent[t]] \in Failed
      <3>1. parent[t] \in Slots /\ parent[t] < t
        BY <2>1, <2>3 DEF TypeOK, Admission
      <3>2. parent[t] \in Used
        BY SMTT(40), <2>1, <3>1 DEF Used, Slots, TypeOK
      <3>3. JoinDue(parent[t], status)
        BY <3>2 DEF Pass, SettledAt
      <3> QED
        BY <2>1, <2>3, <3>3 DEF SettledAt, FailurePassed, JoinDue, Failing
    <2> QED
      BY <2>2, <2>3
  <1> QED
    BY <1>1, AlwaysKnown, AlwaysSettling, PTL

-----------------------------------------------------------------------------
(* The session implements TaskScopes.                                       *)

\* A scope's state, slot by slot.
ScopeOf(t) == IF t \notin Used THEN "absent"
              ELSE IF status[t] = "COMPLETED" THEN "done"
              ELSE IF terminal(t) THEN "failed" ELSE "live"

\* The refinement mapping is the function of those states.
LEMMA ScopeStates ==
    /\ ScopeState = [t \in Slots |-> ScopeOf(t)]
    /\ ScopeState' = [t \in Slots |-> ScopeOf(t)']
  BY DEF ScopeState, ScopeOf, terminal, Used

\* vm_tasks_spawn opens a scope.
LEMMA SpawnOpens ==
    ASSUME Known, NEW p \in {0} \cup Used, NEW async, NEW d,
           vm_tasks_spawn(p, async, d)
    PROVE  Abstract!Next
  <1> DEFINE n == count + 1
  <1>0. TypeOK /\ Used \subseteq Slots
    BY SlotSets DEF Known
  <1>1. n \in Slots /\ Used' = Used \cup {n} /\ n \notin Used /\ p \in {0} \cup Slots
    BY <1>0, SpawnedSlot
  <1>2. /\ \A t \in Slots : status'[t] = IF t = n THEN "READY" ELSE status[t]
        /\ parent' = [parent EXCEPT ![n] = p]
        /\ p # 0 => status[p] \in {"READY", "WAITING"}
    BY <1>0 DEF vm_tasks_spawn, TypeOK, Spawnable
  <1> HIDE DEF n
  <1>3. \A t \in Slots : ScopeOf(t)' = IF t = n THEN "live" ELSE ScopeOf(t)
    BY <1>0, <1>1, <1>2 DEF ScopeOf, terminal, Terminals
  <1>4. ScopeState[n] = "absent"
    BY <1>1, ScopeStates DEF ScopeOf
  <1>5. p # 0 => ScopeState[p] = "live"
    BY <1>0, <1>1, <1>2, ScopeStates DEF ScopeOf, terminal, Terminals
  <1>6. ScopeState' = [ScopeState EXCEPT ![n] = "live"]
    BY <1>1, <1>3, ScopeStates
  <1>7. Abstract!Open(n, p)
    BY <1>2, <1>4, <1>5, <1>6 DEF Abstract!Open
  <1> QED
    BY <1>1, <1>7 DEF Abstract!Next

\* Every other step closes the scopes that end in it, those that complete with
\* everything inside them complete, those that fail with everything ended.
LEMMA OthersClose ==
    ASSUME Known, UNCHANGED treeVars, Final, ScopesNest', Bodies'
    PROVE  Abstract!Next
  <1> DEFINE D == {t \in Used : ~terminal(t) /\ status'[t] = "COMPLETED"}
             F == {t \in Used : ~terminal(t) /\ status'[t] \in Failed}
  <1>0. /\ TypeOK /\ Used \subseteq Slots /\ Used' = Used /\ parent' = parent
        /\ \A t : Children(t)' = Children(t)
    BY SlotSets DEF Known, treeVars, Used, Children
  <1>1. D \in SUBSET Slots /\ F \in SUBSET Slots /\ D \cap F = {}
    BY <1>0 DEF Failed
  <1>2. \A t \in Slots : ScopeState[t] = ScopeOf(t) /\ ScopeState'[t] = ScopeOf(t)'
    BY ScopeStates
  <1>3. \A t \in D \cup F : ScopeState[t] = "live"
    BY <1>0, <1>2 DEF ScopeOf, terminal, Terminals
  <1>4. \A t \in Slots : ScopeOf(t)' = IF t \in D THEN "done"
                                       ELSE IF t \in F THEN "failed" ELSE ScopeOf(t)
    <2> SUFFICES ASSUME NEW t \in Slots
                 PROVE  ScopeOf(t)' = IF t \in D THEN "done"
                                      ELSE IF t \in F THEN "failed" ELSE ScopeOf(t)
      OBVIOUS
    <2>1. CASE t \notin Used
      BY <1>0, <2>1 DEF ScopeOf
    <2>2. CASE t \in Used /\ terminal(t)
      <3>1. status'[t] = status[t] /\ t \notin D /\ t \notin F
        BY <2>2 DEF Final
      <3> QED
        BY <1>0, <3>1 DEF ScopeOf, terminal
    <2>3. CASE t \in Used /\ ~terminal(t)
      <3>1. ScopeOf(t) = "live"
        BY <2>3 DEF ScopeOf, terminal, Terminals
      <3> QED
        BY <1>0, <2>3, <3>1 DEF ScopeOf, terminal, Failed, Terminals
    <2> QED
      BY <2>1, <2>2, <2>3
  <1>5. ScopeState' = [t \in Slots |-> IF t \in D THEN "done"
                                       ELSE IF t \in F THEN "failed" ELSE ScopeState[t]]
    BY <1>2, <1>4, ScopeStates
  <1>6. \A t \in D \cup F : \A c \in Abstract!Within(t) : c \in Children(t) /\ c \in Slots
    BY <1>0, <1>2 DEF Abstract!Within, Children, ScopeOf
  <1>7. ASSUME NEW t \in D, NEW c \in Abstract!Within(t)
        PROVE  ScopeState'[c] = "done"
    <2>1. status'[t] = "COMPLETED" /\ t \in Slots
      BY <1>0
    <2>2. BodyOf(t, status)' /\ c \in Children(t)'
      BY <1>0, <1>6, <2>1 DEF Bodies
    <2>3. status'[c] = "COMPLETED" /\ c \in Used'
      BY <2>1, <2>2 DEF BodyOf, Children
    <2> QED
      BY <1>2, <1>6, <2>3 DEF ScopeOf
  <1>8. ASSUME NEW t \in F, NEW c \in Abstract!Within(t)
        PROVE  ScopeState'[c] \in {"done", "failed"}
    <2>1. status'[t] \in Terminals /\ t \in Used'
      BY <1>0 DEF Failed
    <2>2. status'[c] \in Terminals /\ c \in Used'
      BY <1>0, <1>6, <2>1 DEF ScopesNest, terminal, Children
    <2> QED
      BY <1>2, <1>6, <2>2 DEF ScopeOf, terminal
  <1> HIDE DEF D, F
  <1>9. Abstract!Close(D, F)
    BY <1>0, <1>1, <1>3, <1>5, <1>7, <1>8 DEF Abstract!Close
  <1> QED
    BY <1>1, <1>9 DEF Abstract!Next

\* Every step of a session is a step of TaskScopes.
LEMMA ScopesRefine ==
    Known /\ Bodies /\ Pass /\ [Next]_vars => [Abstract!Next]_(Abstract!scopeVars)
  <1> SUFFICES ASSUME Known, Bodies, Pass, [Next]_vars
               PROVE  Abstract!Next
    OBVIOUS
  <1>0. Final /\ ScopesNest' /\ Bodies'
    BY KnownStep, PassStep
  <1>1. ASSUME NEW p \in {0} \cup Used, NEW async \in AsyncModes, NEW d \in Ticks,
               vm_tasks_spawn(p, async, d)
        PROVE  Abstract!Next
    BY <1>1, SpawnOpens
  <1>2. CASE UNCHANGED treeVars
    BY <1>0, <1>2, OthersClose
  <1>3. \/ \E p \in {0} \cup Used, async \in AsyncModes, d \in Ticks :
               vm_tasks_spawn(p, async, d)
        \/ UNCHANGED treeVars
    BY DEF Next, Continue, vars, vm_tasks_cancel, complete, PumpBegin, vm_tasks_destroy,
           SettleVisit, SettleReturn, deliver_completions, ExpireDeadlines, Dispatch,
           DispatchYield, DispatchWait, DispatchEnd, PumpEnd
  <1> QED
    BY <1>1, <1>2, <1>3

\* tasks.c implements structured concurrency, for every session: each call is a
\* sequence of scope openings and closings, a scope closes no earlier than what
\* was opened in it, for good, and is done only if all of it is.
THEOREM SessionImplementsScopes == Spec => ImplementsScopes
  <1>1. Init => Abstract!Init
    <2> SUFFICES ASSUME Init PROVE Abstract!Init
      OBVIOUS
    <2>1. Used = {}
      BY DEF Init, Used
    <2> QED
      BY <2>1, ScopeStates DEF Init, Abstract!Init, ScopeOf
  <1> QED
    BY <1>1, ScopesRefine, AlwaysKnown, AlwaysSettling, PTL
       DEF Spec, ImplementsScopes, Abstract!Spec
===============================================================================
