-------------------------- MODULE DetachedWorkProofs --------------------------
(***************************************************************************)
(* Proofs about detached console writes and file reads, for any number of  *)
(* operations and any limits on the active workers.                        *)
(***************************************************************************)
EXTENDS DetachedWork, FiniteSetTheorems, TLAPS

OwnerPlaces ==
    {"out", "load", "cas", "prepare", "held", "take", "wait", "test", "sleep", "asleep",
     "destroy", "mark", "check", "unlock", "free", "return", "gone"}
WorkerPlaces ==
    {"none", "work", "lock", "publish", "finish", "signal", "unlock", "free", "return", "exited"}

TypeOK ==
    /\ kind \in [Ops -> Kinds]
    /\ owner \in [Ops -> OwnerPlaces]
    /\ worker \in [Ops -> WorkerPlaces]
    /\ memory \in [Ops -> {"absent", "allocated", "freed"}]
    /\ admitted \in [Ops -> BOOLEAN]
    /\ done \in [Ops -> BOOLEAN]
    /\ abandoned \in [Ops -> BOOLEAN]
    /\ result \in [Ops -> BOOLEAN]
    /\ mutex \in [Ops -> {"free", "owner", "worker"}]
    /\ seen \in [Ops -> BOOLEAN]
    /\ orphan \in [Ops -> BOOLEAN]
    /\ count \in [Ops -> Nat]
    /\ active \in [Kinds -> Nat]

\* The mutex is held by whoever is between its lock and its unlock.
Locked(o) ==
    /\ mutex[o] = "owner" <=> owner[o] \in {"test", "sleep", "mark", "check", "unlock"}
    /\ mutex[o] = "worker" <=> worker[o] \in {"publish", "finish", "signal", "unlock"}

\* An operation without a worker is done once its owner holds it; one with a worker
\* is done from the moment the worker publishes, which comes after the result.
DoneWhen(o) ==
    /\ done[o] => result[o]
    /\ owner[o] \in {"out", "load", "cas", "prepare"} => ~done[o]
    /\ worker[o] \in {"work", "lock", "publish", "finish"} => ~done[o]
    /\ worker[o] = "finish" => result[o]
    /\ worker[o] \in {"signal", "unlock", "free", "return", "exited"} => done[o]
    /\ owner[o] = "take" => done[o]
    /\ owner[o] \in {"held", "wait", "test", "sleep", "asleep", "destroy", "mark", "check", "unlock"}
            /\ worker[o] = "none" => done[o]

\* Before the owner marks the operation abandoned the worker leaves it alone.
OwnerHolds(o) ==
    /\ owner[o] = "out" =>
         memory[o] = "absent" /\ worker[o] = "none" /\ ~admitted[o] /\ ~abandoned[o]
    /\ owner[o] \in {"load", "cas"} =>
         memory[o] = "allocated" /\ worker[o] = "none" /\ ~admitted[o] /\ ~abandoned[o]
    /\ owner[o] = "prepare" =>
         memory[o] = "allocated" /\ worker[o] = "none" /\ ~abandoned[o]
    /\ owner[o] \in {"held", "take", "wait", "test", "sleep", "asleep", "destroy", "mark"} =>
         /\ memory[o] = "allocated" /\ ~abandoned[o]
         /\ worker[o] \notin {"free", "return"}
         /\ worker[o] = "unlock" => ~orphan[o]

\* Once it is marked, the operation belongs to the owner if it was done by then
\* and to the worker if not.
LastFrees(o) ==
    /\ owner[o] \in {"check", "unlock"} =>
         /\ memory[o] = "allocated" /\ abandoned[o]
         /\ worker[o] \notin {"free", "return"}
    /\ owner[o] = "unlock" => seen[o] = done[o]
    /\ owner[o] = "free" => memory[o] = "allocated" /\ worker[o] \in {"none", "exited"}
    /\ owner[o] = "return" => memory[o] = "freed" /\ worker[o] \in {"none", "exited"}
    /\ owner[o] = "gone" =>
         /\ worker[o] \in {"none", "return", "exited"} => memory[o] # "allocated"
         /\ worker[o] \in {"work", "lock", "publish", "finish", "signal", "unlock", "free"} =>
              memory[o] = "allocated" /\ abandoned[o]
         /\ worker[o] = "unlock" => orphan[o]

\* What holds of each operation by itself.
OpInv(o) == Locked(o) /\ DoneWhen(o) /\ OwnerHolds(o) /\ LastFrees(o)

\* A counter loaded for a compare-and-exchange never exceeded the limit.
CountsBounded == \A o \in Ops : owner[o] = "cas" => count[o] <= Limit(kind[o])

IInv == TypeOK /\ (\A o \in Ops : OpInv(o)) /\ CountsBounded /\ PlacesCounted

-----------------------------------------------------------------------------
\* The steps of one operation, one by one.
OpNext(o) ==
    \/ Start(o)
    \/ LoadActive(o)
    \/ Admit(o)
    \/ RetryAdmission(o)
    \/ RefuseAdmission(o)
    \/ console_write_start(o)
    \/ root_read_start(o)
    \/ write_worker(o)
    \/ read_worker(o)
    \/ WorkerLock(o)
    \/ WorkerPublish(o)
    \/ WorkerSignal(o)
    \/ WorkerUnlock(o)
    \/ OwnerFrees(o)
    \/ WorkerFrees(o)
    \/ Poll(o)
    \/ TakeResult(o)
    \/ WaitLock(o)
    \/ WaitTest(o)
    \/ WaitSleep(o)
    \/ SpuriousWakeup(o)
    \/ AbandonExecution(o)
    \/ DestroyLock(o)
    \/ DestroyMark(o)
    \/ DestroyCheck(o)
    \/ DestroyUnlock(o)

\* Next is a step of some operation.
LEMMA NextIsOpNext ==
    ASSUME Next
    PROVE  \E o \in Ops : OpNext(o)
  BY DEF Next, OpNext, OwnerSteps, WorkerSteps

\* A step of one operation keeps the types.
LEMMA StepKeepsTypes ==
    ASSUME TypeOK, NEW o \in Ops, OpNext(o), active' \in [Kinds -> Nat]
    PROVE  TypeOK'
  <1> USE DEF TypeOK, OwnerPlaces, WorkerPlaces, fieldVars, localVars
  <1>1. CASE Start(o)
    BY <1>1, ZenonT(40) DEF Start, DoneAtOnce, OwnerTo
  <1>2. CASE LoadActive(o)
    BY <1>2 DEF LoadActive, OwnerTo
  <1>3. CASE Admit(o)
    BY <1>3 DEF Admit, OwnerTo
  <1>4. CASE RetryAdmission(o)
    BY <1>4 DEF RetryAdmission
  <1>5. CASE RefuseAdmission(o)
    BY <1>5 DEF RefuseAdmission, DoneAtOnce, OwnerTo
  <1>6. CASE console_write_start(o)
    BY <1>6 DEF console_write_start, PrepareFails, Launch, DoneAtOnce, OwnerTo, WorkerTo
  <1>7. CASE root_read_start(o)
    BY <1>7 DEF root_read_start, PrepareFails, Launch, DoneAtOnce, OwnerTo, WorkerTo
  <1>8. CASE write_worker(o)
    BY <1>8 DEF write_worker, WorkerTo
  <1>9. CASE read_worker(o)
    BY <1>9 DEF read_worker, WorkerTo
  <1>10. CASE WorkerLock(o)
    BY <1>10 DEF WorkerLock, WorkerTo
  <1>11. CASE WorkerPublish(o)
    BY <1>11 DEF WorkerPublish, WorkerTo
  <1>12. CASE WorkerSignal(o)
    BY <1>12 DEF WorkerSignal, WorkerTo
  <1>13. CASE WorkerUnlock(o)
    BY <1>13 DEF WorkerUnlock, WorkerTo
  <1>14. CASE OwnerFrees(o)
    BY <1>14 DEF OwnerFrees, FreeMemory, ReturnPlace, OwnerTo
  <1>15. CASE WorkerFrees(o)
    BY <1>15 DEF WorkerFrees, FreeMemory, ReturnPlace, WorkerTo
  <1>16. CASE Poll(o)
    BY <1>16 DEF Poll, OwnerTo
  <1>17. CASE TakeResult(o)
    BY <1>17 DEF TakeResult, OwnerTo
  <1>18. CASE WaitLock(o)
    BY <1>18 DEF WaitLock, OwnerTo
  <1>19. CASE WaitTest(o)
    BY <1>19 DEF WaitTest, OwnerTo
  <1>20. CASE WaitSleep(o)
    BY <1>20 DEF WaitSleep, OwnerTo
  <1>21. CASE SpuriousWakeup(o)
    BY <1>21 DEF SpuriousWakeup, OwnerTo
  <1>22. CASE AbandonExecution(o)
    BY <1>22 DEF AbandonExecution, OwnerTo
  <1>23. CASE DestroyLock(o)
    BY <1>23 DEF DestroyLock, OwnerTo
  <1>24. CASE DestroyMark(o)
    BY <1>24 DEF DestroyMark, OwnerTo
  <1>25. CASE DestroyCheck(o)
    BY <1>25 DEF DestroyCheck, OwnerTo
  <1>26. CASE DestroyUnlock(o)
    BY <1>26 DEF DestroyUnlock, OwnerTo
  <1> QED
    BY <1>1, <1>2, <1>3, <1>4, <1>5, <1>6, <1>7, <1>8, <1>9, <1>10, <1>11, <1>12, <1>13, <1>14, <1>15, <1>16, <1>17, <1>18, <1>19, <1>20, <1>21, <1>22, <1>23, <1>24, <1>25,
       <1>26 DEF OpNext

\* The fields of an operation that OpInv speaks of.
Fields(p) ==
    <<owner[p], worker[p], memory[p], admitted[p], done[p], abandoned[p], result[p],
      mutex[p], seen[p], orphan[p]>>

\* A step of one operation leaves every other alone.
LEMMA OthersUntouched ==
    ASSUME TypeOK, NEW o \in Ops, OpNext(o), NEW p \in Ops, p # o
    PROVE  Fields(p)' = Fields(p)
  <1> USE DEF TypeOK, Fields, fieldVars, localVars
  <1>1. CASE Start(o)
    BY <1>1 DEF Start, DoneAtOnce, OwnerTo
  <1>2. CASE LoadActive(o)
    BY <1>2 DEF LoadActive, OwnerTo
  <1>3. CASE Admit(o)
    BY <1>3 DEF Admit, OwnerTo
  <1>4. CASE RetryAdmission(o)
    BY <1>4 DEF RetryAdmission
  <1>5. CASE RefuseAdmission(o)
    BY <1>5 DEF RefuseAdmission, DoneAtOnce, OwnerTo
  <1>6. CASE console_write_start(o)
    BY <1>6 DEF console_write_start, PrepareFails, Launch, DoneAtOnce, OwnerTo, WorkerTo
  <1>7. CASE root_read_start(o)
    BY <1>7 DEF root_read_start, PrepareFails, Launch, DoneAtOnce, OwnerTo, WorkerTo
  <1>8. CASE write_worker(o)
    BY <1>8 DEF write_worker, WorkerTo
  <1>9. CASE read_worker(o)
    BY <1>9 DEF read_worker, WorkerTo
  <1>10. CASE WorkerLock(o)
    BY <1>10 DEF WorkerLock, WorkerTo
  <1>11. CASE WorkerPublish(o)
    BY <1>11 DEF WorkerPublish, WorkerTo
  <1>12. CASE WorkerSignal(o)
    BY <1>12 DEF WorkerSignal, WorkerTo
  <1>13. CASE WorkerUnlock(o)
    BY <1>13 DEF WorkerUnlock, WorkerTo
  <1>14. CASE OwnerFrees(o)
    BY <1>14 DEF OwnerFrees, FreeMemory, ReturnPlace, OwnerTo
  <1>15. CASE WorkerFrees(o)
    BY <1>15 DEF WorkerFrees, FreeMemory, ReturnPlace, WorkerTo
  <1>16. CASE Poll(o)
    BY <1>16 DEF Poll, OwnerTo
  <1>17. CASE TakeResult(o)
    BY <1>17 DEF TakeResult, OwnerTo
  <1>18. CASE WaitLock(o)
    BY <1>18 DEF WaitLock, OwnerTo
  <1>19. CASE WaitTest(o)
    BY <1>19 DEF WaitTest, OwnerTo
  <1>20. CASE WaitSleep(o)
    BY <1>20 DEF WaitSleep, OwnerTo
  <1>21. CASE SpuriousWakeup(o)
    BY <1>21 DEF SpuriousWakeup, OwnerTo
  <1>22. CASE AbandonExecution(o)
    BY <1>22 DEF AbandonExecution, OwnerTo
  <1>23. CASE DestroyLock(o)
    BY <1>23 DEF DestroyLock, OwnerTo
  <1>24. CASE DestroyMark(o)
    BY <1>24 DEF DestroyMark, OwnerTo
  <1>25. CASE DestroyCheck(o)
    BY <1>25 DEF DestroyCheck, OwnerTo
  <1>26. CASE DestroyUnlock(o)
    BY <1>26 DEF DestroyUnlock, OwnerTo
  <1> QED
    BY <1>1, <1>2, <1>3, <1>4, <1>5, <1>6, <1>7, <1>8, <1>9, <1>10, <1>11, <1>12, <1>13, <1>14, <1>15, <1>16, <1>17, <1>18, <1>19, <1>20, <1>21, <1>22, <1>23, <1>24, <1>25,
       <1>26 DEF OpNext

\* A step of an operation keeps what holds of it.
LEMMA StepKeepsOwn ==
    ASSUME TypeOK, NEW o \in Ops, OpInv(o), OpNext(o)
    PROVE  OpInv(o)'
  <1> USE DEF TypeOK, fieldVars, localVars, OpInv, Locked, DoneWhen, OwnerHolds, LastFrees
  <1>1. CASE Start(o)
    BY <1>1 DEF Start, DoneAtOnce, OwnerTo
  <1>2. CASE LoadActive(o)
    BY <1>2 DEF LoadActive, OwnerTo
  <1>3. CASE Admit(o)
    BY <1>3 DEF Admit, OwnerTo
  <1>4. CASE RetryAdmission(o)
    BY <1>4 DEF RetryAdmission
  <1>5. CASE RefuseAdmission(o)
    BY <1>5 DEF RefuseAdmission, DoneAtOnce, OwnerTo
  <1>6. CASE console_write_start(o)
    BY <1>6 DEF console_write_start, PrepareFails, Launch, DoneAtOnce, OwnerTo, WorkerTo
  <1>7. CASE root_read_start(o)
    BY <1>7 DEF root_read_start, PrepareFails, Launch, DoneAtOnce, OwnerTo, WorkerTo
  <1>8. CASE write_worker(o)
    BY <1>8 DEF write_worker, WorkerTo
  <1>9. CASE read_worker(o)
    BY <1>9 DEF read_worker, WorkerTo
  <1>10. CASE WorkerLock(o)
    BY <1>10 DEF WorkerLock, WorkerTo
  <1>11. CASE WorkerPublish(o)
    BY <1>11 DEF WorkerPublish, WorkerTo
  <1>12. CASE WorkerSignal(o)
    BY <1>12 DEF WorkerSignal, WorkerTo
  <1>13. CASE WorkerUnlock(o)
    BY <1>13 DEF WorkerUnlock, WorkerTo
  <1>14. CASE OwnerFrees(o)
    BY <1>14 DEF OwnerFrees, FreeMemory, ReturnPlace, OwnerTo
  <1>15. CASE WorkerFrees(o)
    BY <1>15 DEF WorkerFrees, FreeMemory, ReturnPlace, WorkerTo
  <1>16. CASE Poll(o)
    BY <1>16 DEF Poll, OwnerTo
  <1>17. CASE TakeResult(o)
    BY <1>17 DEF TakeResult, OwnerTo
  <1>18. CASE WaitLock(o)
    BY <1>18 DEF WaitLock, OwnerTo
  <1>19. CASE WaitTest(o)
    BY <1>19 DEF WaitTest, OwnerTo
  <1>20. CASE WaitSleep(o)
    BY <1>20 DEF WaitSleep, OwnerTo
  <1>21. CASE SpuriousWakeup(o)
    BY <1>21 DEF SpuriousWakeup, OwnerTo
  <1>22. CASE AbandonExecution(o)
    BY <1>22 DEF AbandonExecution, OwnerTo
  <1>23. CASE DestroyLock(o)
    BY <1>23 DEF DestroyLock, OwnerTo
  <1>24. CASE DestroyMark(o)
    BY <1>24 DEF DestroyMark, OwnerTo
  <1>25. CASE DestroyCheck(o)
    BY <1>25 DEF DestroyCheck, OwnerTo
  <1>26. CASE DestroyUnlock(o)
    <2>1. worker[o] \notin {"publish", "finish", "signal", "unlock", "free", "return"}
      BY <1>26 DEF DestroyUnlock
    <2>2. CASE seen[o]
      <3>1. worker[o] \in {"none", "exited"}
        BY <1>26, <2>1, <2>2 DEF DestroyUnlock, WorkerPlaces
      <3> QED
        BY <1>26, <2>2, <3>1 DEF DestroyUnlock, OwnerTo
    <2>3. CASE ~seen[o]
      <3>1. worker[o] \in {"work", "lock"}
        BY <1>26, <2>1, <2>3 DEF DestroyUnlock, WorkerPlaces
      <3> QED
        BY <1>26, <2>3, <3>1 DEF DestroyUnlock, OwnerTo
    <2> QED
      BY <2>2, <2>3
  <1> QED
    BY <1>1, <1>2, <1>3, <1>4, <1>5, <1>6, <1>7, <1>8, <1>9, <1>10, <1>11, <1>12, <1>13, <1>14, <1>15, <1>16, <1>17, <1>18, <1>19, <1>20, <1>21, <1>22, <1>23, <1>24, <1>25,
       <1>26 DEF OpNext

\* What holds of an operation by itself holds while its fields stay.
LEMMA FieldsDecide ==
    ASSUME NEW p \in Ops, OpInv(p), Fields(p)' = Fields(p)
    PROVE  OpInv(p)'
  <1>1. /\ owner'[p] = owner[p] /\ worker'[p] = worker[p] /\ memory'[p] = memory[p]
        /\ admitted'[p] = admitted[p] /\ done'[p] = done[p] /\ abandoned'[p] = abandoned[p]
        /\ result'[p] = result[p] /\ mutex'[p] = mutex[p] /\ seen'[p] = seen[p] /\ orphan'[p] = orphan[p]
    BY DEF Fields
  <1>2. Locked(p)'
    BY <1>1 DEF OpInv, Locked
  <1>3. DoneWhen(p)'
    BY <1>1 DEF OpInv, DoneWhen
  <1>4. OwnerHolds(p)'
    BY <1>1 DEF OpInv, OwnerHolds
  <1>5. LastFrees(p)'
    BY <1>1 DEF OpInv, LastFrees
  <1> QED
    BY <1>2, <1>3, <1>4, <1>5 DEF OpInv

\* So it keeps what holds of each operation by itself.
LEMMA StepKeepsOperations ==
    ASSUME TypeOK, \A p \in Ops : OpInv(p), NEW o \in Ops, OpNext(o)
    PROVE  \A p \in Ops : OpInv(p)'
  <1> TAKE p \in Ops
  <1>1. CASE p = o
    BY <1>1, StepKeepsOwn
  <1>2. CASE p # o
    BY <1>2, OthersUntouched, FieldsDecide
  <1> QED
    BY <1>1, <1>2

-----------------------------------------------------------------------------
(* The places.                                                              *)

\* The operations of kind k that hold a place.
Holding(k) == {o \in Ops : kind[o] = k /\ HoldsPlace(o)}

\* They are finitely many.
LEMMA HoldingFinite ==
    ASSUME NEW k
    PROVE  IsFiniteSet(Holding(k)) /\ Cardinality(Holding(k)) \in Nat
  <1>1. Holding(k) \in SUBSET Ops
    BY DEF Holding
  <1> QED
    BY <1>1, WorkAssumption, FS_Subset, FS_CardinalityType

\* A step that changes neither who holds a place nor the counters.
LEMMA PlacesKept ==
    ASSUME PlacesCounted, kind' = kind, active' = active,
           \A p \in Ops : HoldsPlace(p)' <=> HoldsPlace(p)
    PROVE  PlacesCounted'
  <1>1. ASSUME NEW k \in Kinds
        PROVE  {o \in Ops : kind[o] = k /\ HoldsPlace(o)}' = {o \in Ops : kind[o] = k /\ HoldsPlace(o)}
    OBVIOUS
  <1> QED
    BY <1>1 DEF PlacesCounted, Limit

\* The compare-and-exchange adds one operation and one to its counter.
LEMMA PlaceTaken ==
    ASSUME TypeOK, PlacesCounted, kind' = kind,
           NEW o \in Ops, ~HoldsPlace(o), HoldsPlace(o)',
           \A p \in Ops \ {o} : HoldsPlace(p)' <=> HoldsPlace(p),
           active[kind[o]] < Limit(kind[o]),
           active' = [active EXCEPT ![kind[o]] = active[kind[o]] + 1]
    PROVE  PlacesCounted' /\ active' \in [Kinds -> Nat]
  <1>1. active' \in [Kinds -> Nat]
    BY DEF TypeOK
  <1>2. ASSUME NEW k \in Kinds
        PROVE  active'[k] = Cardinality(Holding(k)') /\ active'[k] <= Limit(k)
    <2>1. active[k] = Cardinality(Holding(k)) /\ active[k] <= Limit(k)
      BY DEF PlacesCounted, Holding
    <2>2. CASE k = kind[o]
      <3>1. Holding(k)' = Holding(k) \cup {o} /\ o \notin Holding(k)
        BY <2>2 DEF Holding
      <3>2. Cardinality(Holding(k)') = Cardinality(Holding(k)) + 1
        BY <3>1, HoldingFinite, FS_AddElement
      <3>3. active'[k] = active[k] + 1
        BY <2>2 DEF TypeOK
      <3>4. active[k] \in Nat /\ Limit(k) \in Nat
        BY WorkAssumption DEF TypeOK, Limit
      <3> QED
        BY <2>1, <2>2, <3>2, <3>3, <3>4
    <2>3. CASE k # kind[o]
      <3>1. Holding(k)' = Holding(k)
        BY <2>3 DEF Holding
      <3>2. active'[k] = active[k]
        BY <2>3 DEF TypeOK
      <3> QED
        BY <2>1, <3>1, <3>2
    <2> QED
      BY <2>2, <2>3
  <1> QED
    BY <1>1, <1>2 DEF PlacesCounted, Holding, Limit

\* The end of free_write and free_read takes one operation and one from its counter.
LEMMA PlaceReturned ==
    ASSUME TypeOK, PlacesCounted, kind' = kind,
           NEW o \in Ops, HoldsPlace(o), ~HoldsPlace(o)',
           \A p \in Ops \ {o} : HoldsPlace(p)' <=> HoldsPlace(p),
           active' = [active EXCEPT ![kind[o]] = active[kind[o]] - 1]
    PROVE  PlacesCounted' /\ active' \in [Kinds -> Nat]
  <1>2. ASSUME NEW k \in Kinds
        PROVE  /\ active'[k] = Cardinality(Holding(k)')
               /\ active'[k] <= Limit(k)
               /\ active'[k] \in Nat
    <2>1. active[k] = Cardinality(Holding(k)) /\ active[k] <= Limit(k) /\ active[k] \in Nat
      BY DEF PlacesCounted, Holding, TypeOK
    <2>2. CASE k = kind[o]
      <3>1. Holding(k)' = Holding(k) \ {o} /\ o \in Holding(k)
        BY <2>2 DEF Holding
      <3>2. IsFiniteSet(Holding(k)')
            /\ Cardinality(Holding(k)') = Cardinality(Holding(k)) - 1
        BY <3>1, HoldingFinite, FS_RemoveElement
      <3>3. Cardinality(Holding(k)') \in Nat
        BY <3>2, FS_CardinalityType
      <3>4. active'[k] = active[k] - 1
        BY <2>2 DEF TypeOK
      <3>5. Limit(k) \in Nat
        BY WorkAssumption DEF Limit
      <3> QED
        BY <2>1, <3>2, <3>3, <3>4, <3>5
    <2>3. CASE k # kind[o]
      <3>1. Holding(k)' = Holding(k)
        BY <2>3 DEF Holding
      <3>2. active'[k] = active[k]
        BY <2>3 DEF TypeOK
      <3> QED
        BY <2>1, <3>1, <3>2
    <2> QED
      BY <2>2, <2>3
  <1>3. active' \in [Kinds -> Nat]
    BY <1>2 DEF TypeOK
  <1> QED
    BY <1>2, <1>3 DEF PlacesCounted, Holding, Limit
\* A step that neither admits an operation nor gives back a place.
Quiet(o) ==
    \/ Start(o)
    \/ LoadActive(o)
    \/ RetryAdmission(o)
    \/ RefuseAdmission(o)
    \/ console_write_start(o)
    \/ root_read_start(o)
    \/ write_worker(o)
    \/ read_worker(o)
    \/ WorkerLock(o)
    \/ WorkerPublish(o)
    \/ WorkerSignal(o)
    \/ WorkerUnlock(o)
    \/ Poll(o)
    \/ TakeResult(o)
    \/ WaitLock(o)
    \/ WaitTest(o)
    \/ WaitSleep(o)
    \/ SpuriousWakeup(o)
    \/ AbandonExecution(o)
    \/ DestroyLock(o)
    \/ DestroyMark(o)
    \/ DestroyCheck(o)
    \/ DestroyUnlock(o)

\* Such a step changes neither who holds a place nor the counters.
LEMMA QuietKeepsPlaces ==
    ASSUME TypeOK, NEW o \in Ops, OpInv(o), Quiet(o)
    PROVE  /\ kind' = kind /\ active' = active
           /\ \A p \in Ops : HoldsPlace(p)' <=> HoldsPlace(p)
  <1> USE DEF TypeOK, HoldsPlace, fieldVars, localVars
  <1>1. CASE Start(o)
    BY <1>1 DEF Start, DoneAtOnce, OwnerTo, OpInv, OwnerHolds
  <1>2. CASE LoadActive(o)
    BY <1>2 DEF LoadActive, OwnerTo
  <1>3. CASE RetryAdmission(o)
    BY <1>3 DEF RetryAdmission
  <1>4. CASE RefuseAdmission(o)
    BY <1>4 DEF RefuseAdmission, DoneAtOnce, OwnerTo
  <1>5. CASE console_write_start(o)
    <2>1. kind' = kind /\ active' = active /\ admitted' = admitted /\ memory' = memory
      BY <1>5 DEF console_write_start
    <2>2. owner' = [owner EXCEPT ![o] = "free"] \/ owner' = [owner EXCEPT ![o] = "held"]
      BY <1>5 DEF console_write_start, PrepareFails, Launch, DoneAtOnce, OwnerTo
    <2>3. worker' = worker \/ worker' = [worker EXCEPT ![o] = "work"]
      BY <1>5 DEF console_write_start, PrepareFails, Launch, WorkerTo
    <2>4. owner[o] = "prepare" /\ worker[o] = "none"
      BY <1>5 DEF console_write_start, OpInv, OwnerHolds
    <2>5. /\ \A p \in Ops : owner'[p] = "return" <=> owner[p] = "return"
          /\ \A p \in Ops : worker'[p] = "return" <=> worker[p] = "return"
      BY <2>2, <2>3, <2>4
    <2> QED
      BY <2>1, <2>5
  <1>6. CASE root_read_start(o)
    <2>1. kind' = kind /\ active' = active /\ admitted' = admitted /\ memory' = memory
      BY <1>6 DEF root_read_start
    <2>2. owner' = [owner EXCEPT ![o] = "free"] \/ owner' = [owner EXCEPT ![o] = "held"]
      BY <1>6 DEF root_read_start, PrepareFails, Launch, DoneAtOnce, OwnerTo
    <2>3. worker' = worker \/ worker' = [worker EXCEPT ![o] = "work"]
      BY <1>6 DEF root_read_start, PrepareFails, Launch, WorkerTo
    <2>4. owner[o] = "prepare" /\ worker[o] = "none"
      BY <1>6 DEF root_read_start, OpInv, OwnerHolds
    <2>5. /\ \A p \in Ops : owner'[p] = "return" <=> owner[p] = "return"
          /\ \A p \in Ops : worker'[p] = "return" <=> worker[p] = "return"
      BY <2>2, <2>3, <2>4
    <2> QED
      BY <2>1, <2>5
  <1>7. CASE write_worker(o)
    BY <1>7 DEF write_worker, WorkerTo
  <1>8. CASE read_worker(o)
    BY <1>8 DEF read_worker, WorkerTo
  <1>9. CASE WorkerLock(o)
    BY <1>9 DEF WorkerLock, WorkerTo
  <1>10. CASE WorkerPublish(o)
    BY <1>10 DEF WorkerPublish, WorkerTo
  <1>11. CASE WorkerSignal(o)
    BY <1>11 DEF WorkerSignal, WorkerTo
  <1>12. CASE WorkerUnlock(o)
    BY <1>12 DEF WorkerUnlock, WorkerTo
  <1>13. CASE Poll(o)
    BY <1>13 DEF Poll, OwnerTo
  <1>14. CASE TakeResult(o)
    BY <1>14 DEF TakeResult, OwnerTo
  <1>15. CASE WaitLock(o)
    BY <1>15 DEF WaitLock, OwnerTo
  <1>16. CASE WaitTest(o)
    BY <1>16 DEF WaitTest, OwnerTo
  <1>17. CASE WaitSleep(o)
    BY <1>17 DEF WaitSleep, OwnerTo
  <1>18. CASE SpuriousWakeup(o)
    BY <1>18 DEF SpuriousWakeup, OwnerTo
  <1>19. CASE AbandonExecution(o)
    BY <1>19 DEF AbandonExecution, OwnerTo
  <1>20. CASE DestroyLock(o)
    BY <1>20 DEF DestroyLock, OwnerTo
  <1>21. CASE DestroyMark(o)
    BY <1>21 DEF DestroyMark, OwnerTo
  <1>22. CASE DestroyCheck(o)
    BY <1>22 DEF DestroyCheck, OwnerTo
  <1>23. CASE DestroyUnlock(o)
    BY <1>23 DEF DestroyUnlock, OwnerTo
  <1> QED
    BY <1>1, <1>2, <1>3, <1>4, <1>5, <1>6, <1>7, <1>8, <1>9, <1>10, <1>11, <1>12, <1>13, <1>14, <1>15, <1>16, <1>17, <1>18, <1>19, <1>20, <1>21, <1>22,
       <1>23 DEF Quiet

\* The end of free_write and free_read, on either thread, gives back the place of an
\* admitted operation and nothing for one that was refused.
LEMMA FreeingKeepsPlaces ==
    ASSUME TypeOK, PlacesCounted, NEW o \in Ops, OpInv(o), kind' = kind, admitted' = admitted,
           ReturnPlace(o), memory' = memory, memory[o] # "allocated",
           owner[o] = "return" \/ worker[o] = "return",
           owner'[o] # "return" /\ worker'[o] # "return",
           \A p \in Ops \ {o} : owner'[p] = owner[p] /\ worker'[p] = worker[p]
    PROVE  PlacesCounted' /\ active' \in [Kinds -> Nat]
  <1>1. \A p \in Ops \ {o} : HoldsPlace(p)' <=> HoldsPlace(p)
    BY DEF HoldsPlace
  <1>2. ~HoldsPlace(o)'
    BY DEF HoldsPlace
  <1>3. CASE admitted[o]
    <2>1. HoldsPlace(o)
      BY <1>3 DEF HoldsPlace
    <2>2. active' = [active EXCEPT ![kind[o]] = active[kind[o]] - 1]
      BY <1>3 DEF ReturnPlace, TypeOK
    <2> QED
      BY <1>1, <1>2, <2>1, <2>2, PlaceReturned
  <1>4. CASE ~admitted[o]
    <2>1. active' = active
      BY <1>4 DEF ReturnPlace, TypeOK
    <2>2. ~HoldsPlace(o)
      BY <1>4 DEF HoldsPlace
    <2>3. \A p \in Ops : HoldsPlace(p)' <=> HoldsPlace(p)
      BY <1>1, <1>2, <2>2
    <2> QED
      BY <2>1, <2>3, PlacesKept DEF TypeOK
  <1> QED
    BY <1>3, <1>4

\* Every step keeps the counters exact and within their limits.
LEMMA StepKeepsPlaces ==
    ASSUME TypeOK, PlacesCounted, NEW o \in Ops, OpInv(o), OpNext(o)
    PROVE  PlacesCounted' /\ active' \in [Kinds -> Nat]
  <1>1. CASE Quiet(o)
    BY <1>1, QuietKeepsPlaces, PlacesKept DEF TypeOK
  <1>2. CASE Admit(o)
    <2>1. kind' = kind /\ (\A p \in Ops \ {o} : HoldsPlace(p)' <=> HoldsPlace(p))
      BY <1>2 DEF Admit, OwnerTo, TypeOK, HoldsPlace, localVars
    <2>2. ~HoldsPlace(o) /\ HoldsPlace(o)'
      BY <1>2 DEF Admit, OwnerTo, TypeOK, HoldsPlace, localVars, OpInv, OwnerHolds
    <2>3. active[kind[o]] < Limit(kind[o])
      BY <1>2 DEF Admit
    <2>4. active' = [active EXCEPT ![kind[o]] = active[kind[o]] + 1]
      BY <1>2 DEF Admit
    <2> QED
      BY <2>1, <2>2, <2>3, <2>4, PlaceTaken
  <1>3. CASE OwnerFrees(o) /\ owner[o] = "free"
    <2>1. kind' = kind /\ active' = active
      BY <1>3 DEF OwnerFrees, localVars
    <2>2. \A p \in Ops : HoldsPlace(p)' <=> HoldsPlace(p)
      BY <1>3 DEF OwnerFrees, FreeMemory, OwnerTo, TypeOK, HoldsPlace, fieldVars, OpInv, LastFrees
    <2> QED
      BY <2>1, <2>2, PlacesKept DEF TypeOK
  <1>4. CASE OwnerFrees(o) /\ owner[o] = "return"
    <2>1. /\ kind' = kind /\ admitted' = admitted /\ memory' = memory
          /\ ReturnPlace(o)
      BY <1>4 DEF OwnerFrees, localVars, fieldVars
    <2>2. /\ owner'[o] # "return" /\ worker'[o] # "return"
          /\ \A p \in Ops \ {o} : owner'[p] = owner[p] /\ worker'[p] = worker[p]
      BY <1>4 DEF OwnerFrees, OwnerTo, TypeOK, OpInv, LastFrees
    <2>3. memory[o] # "allocated"
      BY <1>4 DEF OpInv, LastFrees
    <2> QED
      BY <1>4, <2>1, <2>2, <2>3, FreeingKeepsPlaces
  <1>5. CASE WorkerFrees(o) /\ worker[o] = "free"
    <2>1. kind' = kind /\ active' = active
      BY <1>5 DEF WorkerFrees, localVars
    <2>2. memory[o] = "allocated"
      BY <1>5 DEF TypeOK, OwnerPlaces, OpInv, OwnerHolds, LastFrees
    <2>3. \A p \in Ops : HoldsPlace(p)' <=> HoldsPlace(p)
      BY <1>5, <2>2 DEF WorkerFrees, FreeMemory, WorkerTo, TypeOK, HoldsPlace, fieldVars
    <2> QED
      BY <2>1, <2>3, PlacesKept DEF TypeOK
  <1>6. CASE WorkerFrees(o) /\ worker[o] = "return"
    <2>1. /\ kind' = kind /\ admitted' = admitted /\ memory' = memory
          /\ ReturnPlace(o)
      BY <1>6 DEF WorkerFrees, localVars, fieldVars
    <2>2. owner[o] = "gone"
      BY <1>6 DEF TypeOK, OwnerPlaces, OpInv, OwnerHolds, LastFrees
    <2>3. /\ owner'[o] # "return" /\ worker'[o] # "return"
          /\ \A p \in Ops \ {o} : owner'[p] = owner[p] /\ worker'[p] = worker[p]
      BY <1>6, <2>2 DEF WorkerFrees, WorkerTo, TypeOK
    <2>4. memory[o] # "allocated"
      BY <1>6, <2>2 DEF OpInv, LastFrees
    <2> QED
      BY <1>6, <2>1, <2>3, <2>4, FreeingKeepsPlaces
  <1> QED
    BY <1>1, <1>2, <1>3, <1>4, <1>5, <1>6 DEF OpNext, Quiet, OwnerFrees, WorkerFrees

\* A loaded counter was within its limit, and the limit does not change.
LEMMA StepKeepsCounts ==
    ASSUME TypeOK, PlacesCounted, CountsBounded, NEW o \in Ops, OpNext(o)
    PROVE  CountsBounded'
  <1> USE DEF TypeOK, CountsBounded, fieldVars, localVars
  <1>0. active[kind[o]] <= Limit(kind[o])
    BY DEF PlacesCounted
  <1>1. CASE Start(o)
    BY <1>1 DEF Start, DoneAtOnce, OwnerTo, Limit
  <1>2. CASE LoadActive(o)
    BY <1>0, <1>2 DEF LoadActive, OwnerTo, Limit
  <1>3. CASE Admit(o)
    BY <1>3 DEF Admit, OwnerTo, Limit
  <1>4. CASE RetryAdmission(o)
    BY <1>0, <1>4 DEF RetryAdmission, Limit
  <1>5. CASE RefuseAdmission(o)
    BY <1>5 DEF RefuseAdmission, DoneAtOnce, OwnerTo, Limit
  <1>6. CASE console_write_start(o)
    BY <1>6 DEF console_write_start, PrepareFails, Launch, DoneAtOnce, OwnerTo, WorkerTo, Limit
  <1>7. CASE root_read_start(o)
    BY <1>7 DEF root_read_start, PrepareFails, Launch, DoneAtOnce, OwnerTo, WorkerTo, Limit
  <1>8. CASE write_worker(o)
    BY <1>8 DEF write_worker, WorkerTo, Limit
  <1>9. CASE read_worker(o)
    BY <1>9 DEF read_worker, WorkerTo, Limit
  <1>10. CASE WorkerLock(o)
    BY <1>10 DEF WorkerLock, WorkerTo, Limit
  <1>11. CASE WorkerPublish(o)
    BY <1>11 DEF WorkerPublish, WorkerTo, Limit
  <1>12. CASE WorkerSignal(o)
    BY <1>12 DEF WorkerSignal, WorkerTo, Limit
  <1>13. CASE WorkerUnlock(o)
    BY <1>13 DEF WorkerUnlock, WorkerTo, Limit
  <1>14. CASE OwnerFrees(o)
    BY <1>14 DEF OwnerFrees, FreeMemory, ReturnPlace, OwnerTo, Limit
  <1>15. CASE WorkerFrees(o)
    BY <1>15 DEF WorkerFrees, FreeMemory, ReturnPlace, WorkerTo, Limit
  <1>16. CASE Poll(o)
    BY <1>16 DEF Poll, OwnerTo, Limit
  <1>17. CASE TakeResult(o)
    BY <1>17 DEF TakeResult, OwnerTo, Limit
  <1>18. CASE WaitLock(o)
    BY <1>18 DEF WaitLock, OwnerTo, Limit
  <1>19. CASE WaitTest(o)
    BY <1>19 DEF WaitTest, OwnerTo, Limit
  <1>20. CASE WaitSleep(o)
    BY <1>20 DEF WaitSleep, OwnerTo, Limit
  <1>21. CASE SpuriousWakeup(o)
    BY <1>21 DEF SpuriousWakeup, OwnerTo, Limit
  <1>22. CASE AbandonExecution(o)
    BY <1>22 DEF AbandonExecution, OwnerTo, Limit
  <1>23. CASE DestroyLock(o)
    BY <1>23 DEF DestroyLock, OwnerTo, Limit
  <1>24. CASE DestroyMark(o)
    BY <1>24 DEF DestroyMark, OwnerTo, Limit
  <1>25. CASE DestroyCheck(o)
    BY <1>25 DEF DestroyCheck, OwnerTo, Limit
  <1>26. CASE DestroyUnlock(o)
    BY <1>26 DEF DestroyUnlock, OwnerTo, Limit
  <1> QED
    BY <1>1, <1>2, <1>3, <1>4, <1>5, <1>6, <1>7, <1>8, <1>9, <1>10, <1>11, <1>12, <1>13, <1>14, <1>15, <1>16, <1>17, <1>18, <1>19, <1>20, <1>21, <1>22, <1>23, <1>24, <1>25,
       <1>26 DEF OpNext

-----------------------------------------------------------------------------
(* The theorems.                                                            *)

\* The invariant holds of the first state, before any console_write_start or
\* root_read_start.
LEMMA InitEstablishes ==
    ASSUME Init
    PROVE  IInv
  <1>1. TypeOK
    BY DEF Init, TypeOK, OwnerPlaces, WorkerPlaces, Kinds
  <1>2. \A o \in Ops : OpInv(o)
    BY DEF Init, OpInv, Locked, DoneWhen, OwnerHolds, LastFrees
  <1>3. CountsBounded
    BY DEF Init, CountsBounded
  <1>4. ASSUME NEW k \in Kinds
        PROVE  active[k] = Cardinality({o \in Ops : kind[o] = k /\ HoldsPlace(o)}) /\ active[k] <= Limit(k)
    <2>1. {o \in Ops : kind[o] = k /\ HoldsPlace(o)} = {}
      BY DEF Init, HoldsPlace
    <2>2. active[k] = 0 /\ Limit(k) \in Nat
      BY WorkAssumption DEF Init, Limit
    <2> QED
      BY <2>1, <2>2, FS_EmptySet
  <1> QED
    BY <1>1, <1>2, <1>3, <1>4 DEF IInv, PlacesCounted

\* Every step of an owner or a worker keeps it.
LEMMA StepKeeps ==
    ASSUME IInv, [Next]_vars
    PROVE  IInv'
  <1>1. CASE Next
    <2>1. PICK o \in Ops : OpNext(o)
      BY <1>1, NextIsOpNext
    <2>2. OpInv(o)
      BY DEF IInv
    <2>3. PlacesCounted' /\ active' \in [Kinds -> Nat]
      BY <2>1, <2>2, StepKeepsPlaces DEF IInv
    <2>4. TypeOK'
      BY <2>1, <2>3, StepKeepsTypes DEF IInv
    <2>5. \A p \in Ops : OpInv(p)'
      BY <2>1, StepKeepsOperations DEF IInv
    <2>6. CountsBounded'
      BY <2>1, StepKeepsCounts DEF IInv
    <2> QED
      BY <2>3, <2>4, <2>5, <2>6 DEF IInv
  <1>2. CASE UNCHANGED vars
    <2> USE <1>2 DEF vars, fieldVars, localVars
    <2>1. TypeOK' /\ CountsBounded'
      BY DEF IInv, TypeOK, CountsBounded, Limit
    <2>2. \A p \in Ops : OpInv(p)'
      BY FieldsDecide DEF IInv, Fields
    <2>3. PlacesCounted'
      BY PlacesKept DEF IInv, HoldsPlace
    <2> QED
      BY <2>1, <2>2, <2>3 DEF IInv
  <1> QED
    BY <1>1, <1>2

\* The invariant holds of every reachable state.
LEMMA AlwaysIInv == Spec => []IInv
  BY InitEstablishes, StepKeeps, PTL DEF Spec

\* However destruction and completion interleave, whoever touches an operation of
\* console_write.c or root_read.c finds it allocated, and an owner that reads the
\* result finds it there.
THEOREM OperationsAlwaysSafe == Spec => []MemorySafe
  <1>1. ASSUME IInv PROVE MemorySafe
    BY <1>1 DEF IInv, TypeOK, OwnerPlaces, WorkerPlaces, MemorySafe, OpInv, DoneWhen, OwnerHolds, LastFrees
  <1> QED
    BY <1>1, AlwaysIInv, PTL

\* active_writes and active_reads count the operations that hold a place, and never
\* exceed CONSOLE_WORKERS and ROOT_READ_WORKERS.
THEOREM WorkersAlwaysBounded == Spec => []PlacesCounted
  <1>1. ASSUME IInv PROVE PlacesCounted
    BY <1>1 DEF IInv
  <1> QED
    BY <1>1, AlwaysIInv, PTL
===============================================================================
