------------------------------- MODULE VMTasks -------------------------------
(***************************************************************************)
(* Task sessions of the Panackelty VM (src/vm/tasks.c): a single owning    *)
(* thread spawns tasks in parent/child scopes, answers their pending host  *)
(* requests through a bounded completion ring, cancels them, and pumps     *)
(* virtual time and bytecode steps through all of them.                    *)
(*                                                                         *)
(* Every API call runs to completion on the owning thread.  The loops of a *)
(* call (the completions and dispatches of vm_tasks_pump, the reverse pass *)
(* of settle) are unrolled into steps of the control variable pc; nothing  *)
(* but the next step of the call is enabled until pc is "idle" again.      *)
(* Calls the code rejects change nothing and are stuttering steps.         *)
(***************************************************************************)
EXTENDS Integers, Sequences, FiniteSets

CONSTANTS
    TaskLimit,      \* task_limit of vm_tasks_create: admissions per session
    EventLimit,     \* event_limit of vm_tasks_create: completion ring slots
    MaxGeneration,  \* UINT64_MAX for the per-task operation counter
    MaxRegistered,  \* SIZE_MAX for the session's request counter
    NoDeadline,     \* UINT64_MAX for ticks: the value that means "none"
    MaxBudget,      \* largest dispatch budget a caller passes to pump
    AsyncModes      \* is_async of the functions a session may spawn

ASSUME LimitsAssumption ==
    /\ TaskLimit \in Nat \ {0}
    /\ EventLimit \in Nat \ {0}
    /\ MaxGeneration \in Nat
    /\ MaxRegistered \in Nat
    /\ NoDeadline \in Nat
    /\ MaxBudget \in Nat
    /\ AsyncModes \subseteq BOOLEAN

Slots == 1 .. TaskLimit
Ticks == 0 .. NoDeadline

\* VMTaskStatus.
Terminals == {"COMPLETED", "TRAPPED", "EXITED", "CANCELLED"}
Statuses == {"INVALID", "READY", "WAITING", "JOINING"} \cup Terminals

\* What a host may answer: a print is acknowledged or fails, a read yields a
\* well-typed value or one whose delivery traps.
PrintAnswers == {"ack", "error"}
ReadAnswers == {"value", "invalid"}
Completions == [task : Slots, generation : 0 .. MaxGeneration,
                answer : PrintAnswers \cup ReadAnswers]

VARIABLES
    count,       \* admitted tasks; slots 1..count are in use
    parent,      \* slot -> parent slot, 0 for a root
    deadline,    \* slot -> tick
    async_read,  \* slot -> does the task wait for reads (else for prints)?
    status,      \* slot -> VMTaskStatus
    outcome,     \* slot -> how the body ended, "INVALID" while it runs
    execution,   \* slot -> "NULL", or the VMExecution is "YIELDED" / "WAITING"
    result,      \* slot -> does the task hold a result value?
    error,       \* slot -> "none", its "own" trap, or a "child" that failed
    generation,  \* slot -> number of its latest request
    pending,     \* slot -> is a request outstanding?
    queued,      \* slot -> is its completion in the ring?
    events,      \* the completion ring, oldest first
    registered,  \* requests ever registered in the session
    released,    \* requests ever released
    cursor,      \* round-robin position, a zero-based index
    now,         \* virtual time of the latest pump
    pc,          \* "idle", or where the running call stands
    return,      \* where settle goes back to
    visit,       \* settle: next slot of the reverse pass
    budget       \* pump: dispatches left

treeVars == <<count, parent, deadline, async_read>>
bodyVars == <<status, outcome, execution, result, error>>
requestVars == <<generation, pending, queued, events, registered, released>>
controlVars == <<cursor, now, pc, return, visit, budget>>
vars == <<treeVars, bodyVars, requestVars, controlVars>>

Used == 1 .. count
terminal(t) == status[t] \in Terminals
Children(t) == {c \in Used : parent[c] = t}

\* r lies on the walk from t along parent links: it belongs to every set of
\* slots that holds t and is closed under taking parents.
descendant(t, r) ==
    \A S \in SUBSET Slots :
        (t \in S /\ \A s \in S : parent[s] = 0 \/ parent[s] \in S) => r \in S

Live(S) == {t \in S : ~terminal(t)}
Tree(r) == {t \in Used : descendant(t, r)}

-----------------------------------------------------------------------------
(* Helpers shared by the API calls.                                         *)

\* Mutant: a task with no outstanding request is counted as well.
release_request_always(S) ==
    /\ pending' = [t \in Slots |-> t \notin S /\ pending[t]]
    /\ queued' = [t \in Slots |-> (t \in S => ~pending[t]) /\ queued[t]]
    /\ released' = released + Cardinality(S)

\* Mutant: the request is counted but stays outstanding.
release_request_kept(S) ==
    /\ released' = released + Cardinality({t \in S : pending[t]})
    /\ UNCHANGED <<pending, queued>>

\* release_request on each task of S: only an outstanding request counts.
release_request(S) ==
    /\ pending' = [t \in Slots |-> t \notin S /\ pending[t]]
    /\ queued' = [t \in Slots |-> (t \in S => ~pending[t]) /\ queued[t]]
    /\ released' = released + Cardinality({t \in S : pending[t]})

\* finish_body on every task of C (which then becomes CANCELLED) and of B
\* (which waits in JOINING with outcome o and error e); s is the status the
\* other tasks have.
FinishBodies(C, B, o, e, s) ==
    /\ status' = [t \in Slots |-> IF t \in C THEN "CANCELLED"
                                  ELSE IF t \in B THEN "JOINING" ELSE s[t]]
    /\ outcome' = [t \in Slots |-> IF t \in C THEN "CANCELLED"
                                   ELSE IF t \in B THEN o ELSE outcome[t]]
    /\ execution' = [t \in Slots |-> IF t \in C \cup B THEN "NULL" ELSE execution[t]]
    /\ result' = [t \in Slots |-> IF t \in C THEN FALSE
                                  ELSE IF t \in B THEN o = "COMPLETED" ELSE result[t]]
    /\ error' = [t \in Slots |-> IF t \in B THEN e ELSE error[t]]
    /\ release_request(C \cup B)
    /\ UNCHANGED <<generation, registered>>

\* Mutant: grandchildren are missed.
cancel_children_direct(p) == Live(Children(p))

\* cancel_tree for each root in R, and cancel_children for one parent.
cancel_tree(R) == Live(UNION {Tree(r) : r \in R})
cancel_children(p) == Live(Tree(p) \ {p})

\* Mutant: the pass misses the newest task.
StartSettle_short(where) ==
    /\ pc' = "settle"
    /\ visit' = IF count = 0 THEN 0 ELSE count - 1
    /\ return' = where

\* Start the reverse pass of settle; it resumes the call at where.
StartSettle(where) ==
    /\ pc' = "settle"
    /\ visit' = count
    /\ return' = where

\* The body of t ended with outcome o, and with it, unless it completed, every
\* task below it.
EndBody(t, o, where) ==
    /\ FinishBodies(IF o = "COMPLETED" THEN {} ELSE cancel_children(t), {t}, o,
                    IF o = "TRAPPED" THEN "own" ELSE error[t], status)
    /\ StartSettle(where)

-----------------------------------------------------------------------------
(* vm_tasks_create: an empty session.                                       *)

Init ==
    /\ count = 0
    /\ parent = [t \in Slots |-> 0]
    /\ deadline = [t \in Slots |-> 0]
    /\ async_read = [t \in Slots |-> FALSE]
    /\ status = [t \in Slots |-> "INVALID"]
    /\ outcome = [t \in Slots |-> "INVALID"]
    /\ execution = [t \in Slots |-> "NULL"]
    /\ result = [t \in Slots |-> FALSE]
    /\ error = [t \in Slots |-> "none"]
    /\ generation = [t \in Slots |-> 0]
    /\ pending = [t \in Slots |-> FALSE]
    /\ queued = [t \in Slots |-> FALSE]
    /\ events = << >>
    /\ registered = 0
    /\ released = 0
    /\ cursor = 0
    /\ now = 0
    /\ pc = "idle"
    /\ return = "idle"
    /\ visit = 0
    /\ budget = 0

\* Only a task whose body runs may open a scope inside its own.
Spawnable(p) == p # 0 => status[p] \in {"READY", "WAITING"}

\* vm_tasks_spawn under parent p (0 for a root).  A failed creation of the
\* execution leaves the slot unused and is a rejected call.
vm_tasks_spawn(p, async, d) ==
    /\ pc = "idle"
    /\ count < TaskLimit
    /\ Spawnable(p)
    /\ LET t == count + 1 IN
        /\ count' = t
        /\ parent' = [parent EXCEPT ![t] = p]
        /\ deadline' = [deadline EXCEPT ![t] =
                            IF p # 0 /\ deadline[p] < d THEN deadline[p] ELSE d]
        /\ async_read' = [async_read EXCEPT ![t] = async]
        /\ status' = [status EXCEPT ![t] = "READY"]
        /\ execution' = [execution EXCEPT ![t] = "YIELDED"]
    /\ UNCHANGED <<outcome, result, error, requestVars, controlVars>>

vm_tasks_cancel(t) ==
    /\ pc = "idle"
    /\ FinishBodies(cancel_tree({t}), {}, "CANCELLED", "none", status)
    /\ StartSettle("idle")
    /\ UNCHANGED <<treeVars, events, cursor, now, budget>>

\* Mutant: no look at queued.
Accepts_again(t, g, answer) ==
    /\ async_read[t] <=> answer \in ReadAnswers
    /\ pending[t] /\ generation[t] = g
    /\ Len(events) < EventLimit

\* Is this the answer task t waits for, not yet queued, and is there room?
Accepts(t, g, answer) ==
    /\ async_read[t] <=> answer \in ReadAnswers
    /\ pending[t]
    /\ ~queued[t]
    /\ generation[t] = g
    /\ Len(events) < EventLimit

\* vm_tasks_complete and vm_tasks_complete_read of operation g of task t: the
\* host may hold the id of any request the task ever made.
complete(t, g, answer) ==
    /\ pc = "idle"
    /\ Accepts(t, g, answer)
    /\ events' = Append(events, [task |-> t, generation |-> g, answer |-> answer])
    /\ queued' = [queued EXCEPT ![t] = TRUE]
    /\ UNCHANGED <<treeVars, bodyVars, generation, pending, registered, released,
                   controlVars>>

\* vm_tasks_destroy: executions, requests, results and queued events go.
vm_tasks_destroy ==
    /\ pc = "idle"
    /\ pc' = "destroyed"
    /\ execution' = [t \in Slots |-> "NULL"]
    /\ result' = [t \in Slots |-> FALSE]
    /\ release_request(Used)
    /\ events' = << >>
    /\ UNCHANGED <<treeVars, status, outcome, error, generation, registered,
                   cursor, now, return, visit, budget>>

-----------------------------------------------------------------------------
(* settle: one pass over the tasks, children before parents.                *)

Joined(t) == status[t] = "JOINING" /\ \A c \in Children(t) : terminal(c)

\* Does task t, having status s, trap its parent?
TrapsParent(t, s) ==
    /\ s \in Terminals \ {"COMPLETED"}
    /\ parent[t] # 0
    /\ ~terminal(parent[t])
    /\ outcome[parent[t]] \notin {"TRAPPED", "EXITED"}

\* Visit one task: join it when its children are done, then let a failure
\* trap the parent and cancel what else the parent owns.
SettleVisit ==
    /\ pc = "settle"
    /\ visit > 0
    /\ LET t == visit
           s == IF Joined(t) THEN [status EXCEPT ![t] = outcome[t]] ELSE status
       IN  IF TrapsParent(t, s[t])
           THEN FinishBodies(cancel_children(parent[t]) \ {t}, {parent[t]},
                             "TRAPPED", "child", s)
           ELSE /\ status' = s
                /\ UNCHANGED <<outcome, execution, result, error, generation,
                               pending, queued, registered, released>>
    /\ visit' = visit - 1
    /\ UNCHANGED <<treeVars, events, cursor, now, pc, return, budget>>

SettleReturn ==
    /\ pc = "settle"
    /\ visit = 0
    /\ pc' = return
    /\ return' = "idle"
    /\ UNCHANGED <<treeVars, bodyVars, requestVars, cursor, now, visit, budget>>

-----------------------------------------------------------------------------
(* vm_tasks_pump: completions, deadlines, then round-robin dispatch.        *)

PumpBegin(n, b) ==
    /\ pc = "idle"
    /\ n >= now
    /\ now' = n
    /\ budget' = b
    /\ pc' = "deliver"
    /\ UNCHANGED <<treeVars, bodyVars, requestVars, cursor, return, visit>>

\* Does the delivered answer trap the execution?
Traps(e) ==
    IF async_read[e.task] THEN e.answer # "value" ELSE e.answer = "error"

\* One round of deliver_completions.  A stale completion is dropped.
deliver_completions ==
    /\ pc = "deliver"
    /\ events # << >>
    /\ events' = Tail(events)
    /\ LET e == Head(events)
           t == e.task
       IN  \/ /\ ~pending[t] \/ generation[t] # e.generation
              /\ UNCHANGED <<bodyVars, generation, pending, queued, registered,
                             released, pc, return, visit>>
           \/ /\ pending[t] /\ generation[t] = e.generation
              /\ Traps(e)
              /\ EndBody(t, "TRAPPED", "deliver")
           \/ /\ pending[t] /\ generation[t] = e.generation
              /\ ~Traps(e)
              /\ release_request({t})
              /\ execution' = [execution EXCEPT ![t] = "YIELDED"]
              /\ status' = [status EXCEPT ![t] = "READY"]
              /\ UNCHANGED <<outcome, result, error, generation, registered,
                             pc, return, visit>>
    /\ UNCHANGED <<treeVars, cursor, now, budget>>

\* Mutant: a deadline of exactly now has not passed.
Expired_strict == {t \in Live(Used) : deadline[t] # NoDeadline /\ deadline[t] < now}

Expired == {t \in Live(Used) : deadline[t] # NoDeadline /\ deadline[t] <= now}

\* The deadline loop, then settle.
ExpireDeadlines ==
    /\ pc = "deliver"
    /\ events = << >>
    /\ FinishBodies(cancel_tree(Expired), {}, "CANCELLED", "none", status)
    /\ StartSettle("dispatch")
    /\ UNCHANGED <<treeVars, events, cursor, now, budget>>

\* Mutant: every scan starts at the first slot.
ScanDistance_first(t) == t - 1

\* How many slots the round-robin scan passes before it looks at t.
ScanDistance(t) == (t - 1 - cursor + count) % count

Ready == {t \in Used : status[t] = "READY"}

\* The scan from the cursor stops at t and leaves the cursor just after it.
Scan(t) ==
    /\ pc = "dispatch"
    /\ budget > 0
    /\ t \in Ready
    /\ \A u \in Ready : ScanDistance(t) <= ScanDistance(u)
    /\ cursor' = t % count
    /\ budget' = budget - 1

\* vm_execution_advance(t, 1) yields.
DispatchYield(t) ==
    /\ Scan(t)
    /\ UNCHANGED <<treeVars, bodyVars, requestVars, now, pc, return, visit>>

\* register_request accepts a request while neither counter can wrap.
Registers(t) ==
    /\ ~pending[t]
    /\ generation[t] # MaxGeneration
    /\ registered # MaxRegistered

\* The bytecode step awaits the host and register_request accepts.
DispatchWait(t) ==
    /\ Scan(t)
    /\ Registers(t)
    /\ generation' = [generation EXCEPT ![t] = @ + 1]
    /\ pending' = [pending EXCEPT ![t] = TRUE]
    /\ registered' = registered + 1
    /\ execution' = [execution EXCEPT ![t] = "WAITING"]
    /\ status' = [status EXCEPT ![t] = "WAITING"]
    /\ UNCHANGED <<treeVars, outcome, result, error, queued, events, released,
                   now, pc, return, visit>>

\* The bytecode step ends the body: it completes, exits, or traps (a rejected
\* register_request included).
DispatchEnd(t, o) ==
    /\ Scan(t)
    /\ EndBody(t, o, "dispatch")
    /\ UNCHANGED <<treeVars, events, now>>

PumpEnd ==
    /\ pc = "dispatch"
    /\ budget = 0 \/ Ready = {}
    /\ pc' = "idle"
    /\ budget' = 0
    /\ UNCHANGED <<treeVars, bodyVars, requestVars, cursor, now, return, visit>>

-----------------------------------------------------------------------------
Dispatch(t) ==
    \/ DispatchYield(t)
    \/ DispatchWait(t)
    \/ \E o \in {"COMPLETED", "EXITED", "TRAPPED"} : DispatchEnd(t, o)

\* The rest of a call that has begun.
Continue ==
    \/ SettleVisit
    \/ SettleReturn
    \/ deliver_completions
    \/ ExpireDeadlines
    \/ \E t \in Slots : Dispatch(t)
    \/ PumpEnd

Next ==
    \/ \E p \in {0} \cup Used, async \in AsyncModes, d \in Ticks :
            vm_tasks_spawn(p, async, d)
    \/ \E t \in Used : vm_tasks_cancel(t)
    \/ \E t \in Used, g \in 1 .. MaxGeneration, a \in PrintAnswers \cup ReadAnswers :
            complete(t, g, a)
    \/ \E n \in Ticks, b \in 0 .. MaxBudget : PumpBegin(n, b)
    \/ vm_tasks_destroy
    \/ Continue

Spec == Init /\ [][Next]_vars

-----------------------------------------------------------------------------
(* Properties.                                                              *)

\* The state has the types the C structures give it.
TypeOK ==
    /\ count \in 0 .. TaskLimit
    /\ parent \in [Slots -> {0} \cup Slots]
    /\ deadline \in [Slots -> Ticks]
    /\ async_read \in [Slots -> BOOLEAN]
    /\ status \in [Slots -> Statuses]
    /\ outcome \in [Slots -> {"INVALID"} \cup Terminals]
    /\ execution \in [Slots -> {"NULL", "YIELDED", "WAITING"}]
    /\ result \in [Slots -> BOOLEAN]
    /\ error \in [Slots -> {"none", "own", "child"}]
    /\ generation \in [Slots -> 0 .. MaxGeneration]
    /\ pending \in [Slots -> BOOLEAN]
    /\ queued \in [Slots -> BOOLEAN]
    /\ events \in Seq(Completions) /\ Len(events) <= EventLimit
    /\ registered \in 0 .. MaxRegistered
    /\ released \in Nat
    /\ cursor \in 0 .. TaskLimit - 1
    /\ now \in Ticks
    /\ pc \in {"idle", "settle", "deliver", "dispatch", "destroyed"}
    /\ return \in {"idle", "deliver", "dispatch"}
    /\ visit \in 0 .. TaskLimit
    /\ budget \in 0 .. MaxBudget

\* Every registered request is released exactly once: what is registered and
\* not released is exactly what tasks still wait for, through cancellation,
\* traps, deadlines and deliveries, and nothing is left after destruction
\* (release_request, and the promise of vm_tasks_destroy).
RequestsBalance ==
    /\ registered - released = Cardinality({t \in Used : pending[t]})
    /\ pc = "destroyed" => registered = released

\* No wait is lost: a task is WAITING exactly while it has an outstanding
\* request and its execution is suspended, so a host that answers what
\* vm_tasks_pending shows can always resume it.
NoLostWait ==
    pc # "destroyed" =>
        \A t \in Used : /\ status[t] = "WAITING" <=> pending[t]
                        /\ status[t] = "WAITING" <=> execution[t] = "WAITING"

\* The ring holds exactly one completion for a queued request and none for one
\* that is still to be answered: duplicate, stale and late answers stay out.
OneCompletionPerRequest ==
    \A t \in Used : pending[t] =>
        Cardinality({i \in DOMAIN events : /\ events[i].task = t
                                           /\ events[i].generation = generation[t]})
            = (IF queued[t] THEN 1 ELSE 0)

\* Scopes nest: no task outlives its parent, at no step of any call.
ScopesNest ==
    \A t \in Used : terminal(t) => \A c \in Children(t) : terminal(c)

\* One reverse pass of settle is enough, for joins and for failures: between
\* passes a task waits in JOINING only for a child that still runs, and only if
\* its body completed; and the parent of a task that did not complete has itself
\* failed.
OnePassSettles ==
    pc # "settle" =>
        \A t \in Used :
            /\ status[t] = "JOINING" =>
                   outcome[t] = "COMPLETED" /\ \E c \in Children(t) : ~terminal(c)
            /\ (status[t] \in Terminals \ {"COMPLETED"} /\ parent[t] # 0) =>
                   status[parent[t]] \in Terminals \ {"COMPLETED"}

\* No bytecode runs on behalf of an expired task, even one whose completion
\* was delivered by the same pump.
ExpiredNeverRuns ==
    pc = "dispatch" =>
        \A t \in Used : ~terminal(t) => deadline[t] = NoDeadline \/ deadline[t] > now

\* A terminal status is final: records stay inspectable as they ended.
TerminalIsFinal ==
    [][\A t \in Used : terminal(t) => status'[t] = status[t]]_vars

\* The session implements structured concurrency: each call is a sequence of
\* scope openings and closings (see TaskScopes).
ScopeState == [t \in Slots |-> IF t \notin Used THEN "absent"
                               ELSE IF status[t] = "COMPLETED" THEN "done"
                               ELSE IF terminal(t) THEN "failed" ELSE "live"]
Abstract == INSTANCE TaskScopes WITH Scopes <- Slots, owner <- parent, state <- ScopeState

\* tasks.c refines TaskScopes.
ImplementsScopes == Abstract!Spec

-----------------------------------------------------------------------------
(* Progress, for an embedder that lets calls run and keeps pumping.         *)

FairSpec ==
    /\ Spec
    /\ WF_vars(Continue)
    /\ SF_vars(\E n \in Ticks, b \in 1 .. MaxBudget : PumpBegin(n, b))

\* Round robin starves nobody: a task that stays READY is dispatched again and
\* again, whatever its siblings do.
ReadyIsDispatched ==
    \A t \in Slots : \/ <>(pc = "destroyed")
                     \/ []<>(status[t] # "READY")
                     \/ []<><<Dispatch(t)>>_vars
==============================================================================
