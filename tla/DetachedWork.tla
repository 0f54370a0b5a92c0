----------------------------- MODULE DetachedWork -----------------------------
(***************************************************************************)
(* Asynchronous console writes (src/vm/console_write.c) and file reads     *)
(* (src/vm/root_read.c).  The owner, an execution of execute.c, starts an  *)
(* operation, polls or waits for it and destroys it; a detached worker     *)
(* thread does the I/O and publishes the result under the operation's      *)
(* mutex.  Whichever of the two comes last frees the operation, and only   *)
(* then gives back its place among the bounded active workers.             *)
(*                                                                         *)
(* Each access to shared state is a step.  Operations have owners on       *)
(* different threads, so that starts race on the counters too.             *)
(***************************************************************************)
EXTENDS Integers, FiniteSets

CONSTANTS
    Ops,                \* operations of console_write_start and root_read_start
    ConsoleWorkers,     \* CONSOLE_WORKERS
    RootReadWorkers     \* ROOT_READ_WORKERS

ASSUME WorkAssumption ==
    /\ IsFiniteSet(Ops)
    /\ ConsoleWorkers \in Nat
    /\ RootReadWorkers \in Nat

Kinds == {"write", "read"}
Limit(k) == IF k = "write" THEN ConsoleWorkers ELSE RootReadWorkers

VARIABLES
    kind,       \* operation -> what it is, a console write or a file read
    owner,      \* operation -> where its owner stands
    worker,     \* operation -> where its worker stands
    memory,     \* operation -> "absent", "allocated" or "freed"
    admitted, done, abandoned, result,      \* fields of the operation
    fd,         \* operation -> does the field hold a descriptor?
    open,       \* operation -> descriptors it has open
    mutex,      \* operation -> "free", or who holds it
    seen,       \* operation -> done, as read by its owner's console_write_destroy
    orphan,     \* operation -> abandoned, as read by its worker
    count,      \* operation -> active, as loaded by its owner's start
    active      \* kind -> active_writes, active_reads

fieldVars == <<admitted, done, abandoned, result, fd>>
localVars == <<kind, seen, orphan, count>>
vars == <<owner, worker, memory, fieldVars, open, mutex, localVars, active>>

Init ==
    /\ kind \in [Ops -> Kinds]
    /\ owner = [o \in Ops |-> "out"]
    /\ worker = [o \in Ops |-> "none"]
    /\ memory = [o \in Ops |-> "absent"]
    /\ admitted = [o \in Ops |-> FALSE]
    /\ done = [o \in Ops |-> FALSE]
    /\ abandoned = [o \in Ops |-> FALSE]
    /\ result = [o \in Ops |-> FALSE]
    /\ fd = [o \in Ops |-> FALSE]
    /\ open = [o \in Ops |-> 0]
    /\ mutex = [o \in Ops |-> "free"]
    /\ seen = [o \in Ops |-> FALSE]
    /\ orphan = [o \in Ops |-> FALSE]
    /\ count = [o \in Ops |-> 0]
    /\ active = [k \in Kinds |-> 0]

OwnerTo(o, place) == owner' = [owner EXCEPT ![o] = place]
WorkerTo(o, place) == worker' = [worker EXCEPT ![o] = place]

-----------------------------------------------------------------------------
(* Starting, on the owner's thread.                                         *)

\* The operation gets its result without a worker.
DoneAtOnce(o) ==
    /\ OwnerTo(o, "held")
    /\ result' = [result EXCEPT ![o] = TRUE]
    /\ done' = [done EXCEPT ![o] = TRUE]

\* Argument checks and allocation: a trap or a failed allocation leaves no
\* operation, an argument out of range one that is done, else admission begins.
Start(o) ==
    /\ owner[o] = "out"
    /\ \/ /\ OwnerTo(o, "gone")
          /\ UNCHANGED <<memory, result, done>>
       \/ /\ memory' = [memory EXCEPT ![o] = "allocated"]
          /\ DoneAtOnce(o)
       \/ /\ memory' = [memory EXCEPT ![o] = "allocated"]
          /\ OwnerTo(o, "load")
          /\ UNCHANGED <<result, done>>
    /\ UNCHANGED <<worker, admitted, abandoned, fd, open, mutex, localVars, active>>

\* atomic_load of the counter.
LoadActive(o) ==
    /\ owner[o] = "load"
    /\ count' = [count EXCEPT ![o] = active[kind[o]]]
    /\ OwnerTo(o, "cas")
    /\ UNCHANGED <<worker, memory, fieldVars, open, mutex, kind, seen, orphan, active>>

\* The compare-and-exchange succeeds.
Admit(o) ==
    /\ owner[o] = "cas"
    /\ count[o] < Limit(kind[o])
    /\ active[kind[o]] = count[o]
    /\ active' = [active EXCEPT ![kind[o]] = count[o] + 1]
    /\ admitted' = [admitted EXCEPT ![o] = TRUE]
    /\ OwnerTo(o, "prepare")
    /\ UNCHANGED <<worker, memory, done, abandoned, result, fd, open, mutex, localVars>>

\* It fails, because the counter moved or spuriously, and reloads the counter.
RetryAdmission(o) ==
    /\ owner[o] = "cas"
    /\ count[o] < Limit(kind[o])
    /\ count' = [count EXCEPT ![o] = active[kind[o]]]
    /\ UNCHANGED <<owner, worker, memory, fieldVars, open, mutex, kind, seen, orphan, active>>

\* Every place is taken: the operation fails with resource_limit.
RefuseAdmission(o) ==
    /\ owner[o] = "cas"
    /\ count[o] = Limit(kind[o])
    /\ DoneAtOnce(o)
    /\ UNCHANGED <<worker, memory, admitted, abandoned, fd, open, mutex,
                   localVars, active>>

\* A copy or the thread attributes could not be made: start frees and fails.
PrepareFails(o) ==
    /\ OwnerTo(o, "free")
    /\ UNCHANGED <<worker, result, done>>

\* pthread_create fails, and the operation is done; or the worker runs.
Launch(o) ==
    \/ /\ DoneAtOnce(o)
       /\ UNCHANGED worker
    \/ /\ OwnerTo(o, "held")
       /\ WorkerTo(o, "work")
       /\ UNCHANGED <<result, done>>

\* The rest of console_write_start: copy the bytes, duplicate the descriptor
\* (a failure leaves the operation done), start the worker.
console_write_start(o) ==
    /\ kind[o] = "write"
    /\ owner[o] = "prepare"
    /\ \/ PrepareFails(o) /\ UNCHANGED <<fd, open>>
       \/ DoneAtOnce(o) /\ UNCHANGED <<worker, fd, open>>
       \/ /\ PrepareFails(o) \/ Launch(o)
          /\ fd' = [fd EXCEPT ![o] = TRUE]
          /\ open' = [open EXCEPT ![o] = @ + 1]
    /\ UNCHANGED <<memory, admitted, abandoned, mutex, localVars, active>>

\* The rest of root_read_start: copy the arguments, start the worker.
root_read_start(o) ==
    /\ kind[o] = "read"
    /\ owner[o] = "prepare"
    /\ PrepareFails(o) \/ Launch(o)
    /\ UNCHANGED <<memory, admitted, abandoned, fd, open, mutex, localVars, active>>

-----------------------------------------------------------------------------
(* The worker.                                                              *)

\* The write loop ends, with an error or not, and the descriptor is closed.
write_worker(o) ==
    /\ kind[o] = "write"
    /\ worker[o] = "work"
    /\ open' = [open EXCEPT ![o] = @ - 1]
    /\ fd' = [fd EXCEPT ![o] = FALSE]
    /\ WorkerTo(o, "lock")
    /\ UNCHANGED <<owner, memory, admitted, done, abandoned, result, mutex,
                   localVars, active>>

\* host_capability_call on the copied arguments returns.
read_worker(o) ==
    /\ kind[o] = "read"
    /\ worker[o] = "work"
    /\ WorkerTo(o, "lock")
    /\ UNCHANGED <<owner, memory, fieldVars, open, mutex, localVars, active>>

\* Mutant: the worker does not take the mutex.
WorkerLock_none(o) ==
    /\ worker[o] = "lock"
    /\ WorkerTo(o, "publish")
    /\ UNCHANGED <<owner, memory, fieldVars, open, mutex, localVars, active>>

WorkerLock(o) ==
    /\ worker[o] = "lock"
    /\ mutex[o] = "free"
    /\ mutex' = [mutex EXCEPT ![o] = "worker"]
    /\ WorkerTo(o, "publish")
    /\ UNCHANGED <<owner, memory, fieldVars, open, localVars, active>>

\* First the result, then done.
WorkerPublish(o) ==
    /\ \/ /\ worker[o] = "publish"
          /\ result' = [result EXCEPT ![o] = TRUE]
          /\ WorkerTo(o, "finish")
          /\ UNCHANGED done
       \/ /\ worker[o] = "finish"
          /\ done' = [done EXCEPT ![o] = TRUE]
          /\ WorkerTo(o, "signal")
          /\ UNCHANGED result
    /\ UNCHANGED <<owner, memory, admitted, abandoned, fd, open, mutex,
                   localVars, active>>

\* Mutant: nobody is woken.
WorkerSignal_mute(o) ==
    /\ worker[o] = "signal"
    /\ orphan' = [orphan EXCEPT ![o] = abandoned[o]]
    /\ WorkerTo(o, "unlock")
    /\ UNCHANGED <<owner, memory, fieldVars, open, mutex, kind, seen, count, active>>

\* Read abandoned, wake the owner if it sleeps on the condition.
WorkerSignal(o) ==
    /\ worker[o] = "signal"
    /\ orphan' = [orphan EXCEPT ![o] = abandoned[o]]
    /\ owner' = [owner EXCEPT ![o] = IF @ = "asleep" THEN "wait" ELSE @]
    /\ WorkerTo(o, "unlock")
    /\ UNCHANGED <<memory, fieldVars, open, mutex, kind, seen, count, active>>

WorkerUnlock(o) ==
    /\ worker[o] = "unlock"
    /\ mutex' = [mutex EXCEPT ![o] = "free"]
    /\ WorkerTo(o, IF orphan[o] THEN "free" ELSE "exited")
    /\ UNCHANGED <<owner, memory, fieldVars, open, localVars, active>>

-----------------------------------------------------------------------------
(* free_write and free_read, by either thread: first the memory, with the   *)
(* descriptor it still holds, then the place among the active workers.      *)

\* Mutant: an operation that was never admitted gives back a place.
ReturnPlace_always(o) == active' = [active EXCEPT ![kind[o]] = @ - 1]

FreeMemory(o) ==
    /\ memory' = [memory EXCEPT ![o] = "freed"]
    /\ open' = [open EXCEPT ![o] = IF fd[o] THEN @ - 1 ELSE @]

ReturnPlace(o) == active' = [active EXCEPT ![kind[o]] = IF admitted[o] THEN @ - 1 ELSE @]

\* On the owner's thread.
OwnerFrees(o) ==
    \/ /\ owner[o] = "free"
       /\ FreeMemory(o)
       /\ OwnerTo(o, "return")
       /\ UNCHANGED <<worker, fieldVars, mutex, localVars, active>>
    \/ /\ owner[o] = "return"
       /\ ReturnPlace(o)
       /\ OwnerTo(o, "gone")
       /\ UNCHANGED <<worker, memory, fieldVars, open, mutex, localVars>>

\* On the worker's thread.
WorkerFrees(o) ==
    \/ /\ worker[o] = "free"
       /\ FreeMemory(o)
       /\ WorkerTo(o, "return")
       /\ UNCHANGED <<owner, fieldVars, mutex, localVars, active>>
    \/ /\ worker[o] = "return"
       /\ ReturnPlace(o)
       /\ WorkerTo(o, "exited")
       /\ UNCHANGED <<owner, memory, fieldVars, open, mutex, localVars>>

-----------------------------------------------------------------------------
(* The owner: vm_execution_poll_console, vm_execution_poll_filesystem, the  *)
(* waits of execute and vm_execution_destroy.                               *)

\* console_write_poll, root_read_poll: once done, the result is pushed (or the
\* execution traps) and the operation destroyed.
Poll(o) ==
    /\ owner[o] = "held"
    /\ mutex[o] = "free"
    /\ done[o]
    /\ OwnerTo(o, "take")
    /\ UNCHANGED <<worker, memory, fieldVars, open, mutex, localVars, active>>

\* The result is read outside the mutex, then the operation is destroyed.
TakeResult(o) ==
    /\ owner[o] = "take"
    /\ OwnerTo(o, "destroy")
    /\ UNCHANGED <<worker, memory, fieldVars, open, mutex, localVars, active>>

\* console_write_wait, root_read_wait.
WaitLock(o) ==
    /\ owner[o] \in {"held", "wait"}
    /\ mutex[o] = "free"
    /\ mutex' = [mutex EXCEPT ![o] = "owner"]
    /\ OwnerTo(o, "test")
    /\ UNCHANGED <<worker, memory, fieldVars, open, localVars, active>>

WaitTest(o) ==
    /\ owner[o] = "test"
    /\ IF done[o]
       THEN OwnerTo(o, "take") /\ mutex' = [mutex EXCEPT ![o] = "free"]
       ELSE OwnerTo(o, "sleep") /\ UNCHANGED mutex
    /\ UNCHANGED <<worker, memory, fieldVars, open, localVars, active>>

\* pthread_cond_wait releases the mutex and sleeps; it may wake for no reason.
WaitSleep(o) ==
    /\ owner[o] = "sleep"
    /\ mutex' = [mutex EXCEPT ![o] = "free"]
    /\ OwnerTo(o, "asleep")
    /\ UNCHANGED <<worker, memory, fieldVars, open, localVars, active>>

SpuriousWakeup(o) ==
    /\ owner[o] = "asleep"
    /\ OwnerTo(o, "wait")
    /\ UNCHANGED <<worker, memory, fieldVars, open, mutex, localVars, active>>

\* vm_execution_destroy, or the end of execute, with the operation in flight.
AbandonExecution(o) ==
    /\ owner[o] = "held"
    /\ OwnerTo(o, "destroy")
    /\ UNCHANGED <<worker, memory, fieldVars, open, mutex, localVars, active>>

\* console_write_destroy, root_read_destroy.
DestroyLock(o) ==
    /\ owner[o] = "destroy"
    /\ mutex[o] = "free"
    /\ mutex' = [mutex EXCEPT ![o] = "owner"]
    /\ OwnerTo(o, "mark")
    /\ UNCHANGED <<worker, memory, fieldVars, open, localVars, active>>

\* Mutant: abandoned is never set.
DestroyMark_silent(o) ==
    /\ owner[o] = "mark"
    /\ OwnerTo(o, "check")
    /\ UNCHANGED <<worker, memory, fieldVars, open, mutex, localVars, active>>

DestroyMark(o) ==
    /\ owner[o] = "mark"
    /\ abandoned' = [abandoned EXCEPT ![o] = TRUE]
    /\ OwnerTo(o, "check")
    /\ UNCHANGED <<worker, memory, admitted, done, result, fd, open, mutex,
                   localVars, active>>

DestroyCheck(o) ==
    /\ owner[o] = "check"
    /\ seen' = [seen EXCEPT ![o] = done[o]]
    /\ OwnerTo(o, "unlock")
    /\ UNCHANGED <<worker, memory, fieldVars, open, mutex, kind, orphan, count, active>>

DestroyUnlock(o) ==
    /\ owner[o] = "unlock"
    /\ mutex' = [mutex EXCEPT ![o] = "free"]
    /\ OwnerTo(o, IF seen[o] THEN "free" ELSE "gone")
    /\ UNCHANGED <<worker, memory, fieldVars, open, localVars, active>>

-----------------------------------------------------------------------------
\* Code that runs to its end once it has begun.
OwnerSteps(o) ==
    \/ LoadActive(o) \/ Admit(o) \/ RefuseAdmission(o)
    \/ console_write_start(o) \/ root_read_start(o)
    \/ OwnerFrees(o) \/ TakeResult(o)
    \/ WaitTest(o) \/ WaitSleep(o)
    \/ DestroyLock(o) \/ DestroyMark(o) \/ DestroyCheck(o) \/ DestroyUnlock(o)

WorkerSteps(o) ==
    \/ WorkerLock(o) \/ WorkerPublish(o) \/ WorkerSignal(o) \/ WorkerUnlock(o)
    \/ WorkerFrees(o)

Next ==
    \E o \in Ops :
        \/ Start(o) \/ OwnerSteps(o) \/ RetryAdmission(o)
        \/ Poll(o) \/ WaitLock(o) \/ SpuriousWakeup(o) \/ AbandonExecution(o)
        \/ write_worker(o) \/ read_worker(o) \/ WorkerSteps(o)

Spec == Init /\ [][Next]_vars

-----------------------------------------------------------------------------
(* Properties.                                                              *)

\* No use after free, no double free and no half result: whoever still reads,
\* writes, locks or frees an operation finds it allocated, however destruction
\* and completion interleave; and the owner, which reads the result outside the
\* mutex on the strength of done alone (console_write_result, root_read_result),
\* finds it there.
MemorySafe ==
    \A o \in Ops :
        /\ (owner[o] \notin {"out", "return", "gone"}
                \/ worker[o] \notin {"none", "return", "exited"})
                    => memory[o] = "allocated"
        /\ owner[o] = "take" => result[o]

\* The operation holds a place among the active workers.
HoldsPlace(o) ==
    admitted[o] /\ (memory[o] = "allocated" \/ owner[o] = "return" \/ worker[o] = "return")

\* The counters count exactly the admitted operations that are not yet freed
\* and given back, never more than the limit, through races between starts,
\* completions and destructions; so detached threads stay bounded.
PlacesCounted ==
    \A k \in Kinds :
        /\ active[k] = Cardinality({o \in Ops : kind[o] = k /\ HoldsPlace(o)})
        /\ active[k] <= Limit(k)

-----------------------------------------------------------------------------
(* Progress.  A thread that has begun a piece of straight-line code goes    *)
(* on, and gets a mutex that is free again and again; nothing makes the     *)
(* operating system finish an I/O operation.                                *)

FairSpec ==
    /\ Spec
    /\ \A o \in Ops : /\ WF_vars(OwnerSteps(o))
                      /\ WF_vars(owner[o] = "wait" /\ WaitLock(o))
                      /\ WF_vars(WorkerSteps(o))
                      /\ SF_vars(WorkerLock(o))

\* No wake-up is lost: an owner in console_write_wait or root_read_wait gets
\* the result once the worker's I/O is over.
WaitReturns ==
    \A o \in Ops :
        (owner[o] \in {"test", "sleep", "asleep", "wait"} /\ worker[o] \notin {"none", "work"})
            ~> (owner[o] = "take")

\* Nothing leaks: an operation its owner has let go of is freed, its descriptor
\* closed and its place given back, once the worker's I/O is over.
AbandonedIsFreed ==
    \A o \in Ops :
        (owner[o] = "gone" /\ worker[o] # "work") ~> (memory[o] # "allocated" /\ open[o] = 0 /\ ~HoldsPlace(o))
===============================================================================
