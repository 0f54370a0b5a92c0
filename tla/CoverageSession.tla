--------------------------- MODULE CoverageSession ---------------------------
(***************************************************************************)
(* A coverage session (src/vm/coverage_session.c): a tree of executions,   *)
(* some in the process of their parent, some in processes of their own,    *)
(* that record in one directory what they expect, claim and observed.      *)
(* Processes run concurrently and may be killed at any time; they share    *)
(* the file `budget' under a POSIX lock, which ends with its holder.  The  *)
(* reader (coverage_session_read) accepts a directory or refuses it.       *)
(*                                                                         *)
(* An execution is named by its place: << >> is the root, Append(r, k) the *)
(* k-th child of r.  The size of a record is that of the program, which     *)
(* here goes with the kind of execution.                                   *)
(***************************************************************************)
EXTENDS Integers, Sequences, FiniteSets, FiniteSetsExt, SequencesExt, Functions, TLC

CONSTANTS
    MaxChildren,    \* SESSION_CHILDREN, for one parent
    MaxExecutions,  \* SESSION_CHILDREN, for the session
    MaxDepth,       \* where SESSION_ID is full
    Size,           \* kind -> bytes of a record
    MaxBytes,       \* bytes of all records
    MaxCrashes      \* bound: processes killed

ASSUME CoverageAssumption ==
    /\ {MaxChildren, MaxExecutions, MaxDepth} \subseteq Nat \ {0}
    /\ Size \in [{"root", "nested", "task", "server", "server-ready", "process"} -> Nat \ {0}]
    /\ {MaxBytes, MaxCrashes} \subseteq Nat

VARIABLES
    expect,     \* id -> kind, the files expect-id
    claims,     \* ids of the files claim-id
    raw,        \* id -> what the file raw-id says
    closed,     \* the file closed
    budget,     \* what the file budget says
    lock,       \* the process that holds its lock, as a set
    run,        \* id -> VMCoverageRun, in the process of its nearest process ancestor
    op,         \* process -> what it is in the middle of
    opened,     \* id -> number of runs that ever had the name
    unseen,     \* an execution took place that no run observes
    crashes

vars == <<expect, claims, raw, closed, budget, lock, run, op, opened, unseen, crashes>>
disk == <<expect, claims, raw, closed>>

Ids == SeqOf(1 .. MaxChildren, MaxDepth)
Root == << >>
Parent(id) == Front(id)

NoRun == [state |-> "none", children |-> 0, gap |-> FALSE]
NoRecord == NoRun @@ [ended |-> FALSE]      \* ended: its terminal is 1, 2 or 3
Nothing == [count |-> 0, size |-> 0]
Idle == [step |-> "idle", id |-> Root, kind |-> "none", adds |-> Nothing, seen |-> Nothing]

Kinds == {"nested", "task", "server", "server-ready", "process"}

\* The process an execution runs in: that of the nearest execution on the way
\* to the root that was launched as a process.
Process(id) ==
    LET above == {n \in 0 .. Len(id) : n = 0 \/
                    \E c \in DOMAIN expect : c = SubSeq(id, 1, n) /\ expect[c] = "process"}
    IN  SubSeq(id, 1, Max(above))

\* vm_coverage_session_create, up to the root's claim.
Init ==
    /\ expect = [id \in {Root} |-> "root"]
    /\ claims = {} /\ raw = [id \in Ids |-> NoRecord] /\ closed = FALSE
    /\ budget = [count |-> 1, size |-> 0] /\ lock = {}
    /\ run = [id \in Ids |-> NoRun]
    /\ op = [p \in Ids |-> IF p = Root THEN [Idle EXCEPT !.step = "claim", !.kind = "root"] ELSE Idle]
    /\ opened = [id \in Ids |-> 0] /\ unseen = FALSE /\ crashes = 0

Free(p) == op[p].step = "idle"
Open(id) == run[id].state = "open"

\* r may act: a nested program runs to its end inside one call, which holds up
\* everything else in its process.
Running(r) ==
    /\ Open(r) /\ Free(Process(r))
    /\ \A n \in DOMAIN expect :
        (Open(n) /\ expect[n] = "nested" /\ Process(n) = Process(r)) => IsPrefix(n, r)

\* What p was about fails.  Its parent run notes the gap, and what was to be
\* observed takes place all the same; but a process that is refused its place in
\* the session ends at once.
Fails(p) ==
    /\ op' = [op EXCEPT ![p] = Idle]
    /\ IF op[p].id = p THEN UNCHANGED <<run, unseen>>
       ELSE run' = [run EXCEPT ![Parent(op[p].id)].gap = TRUE] /\ unseen' = TRUE

-----------------------------------------------------------------------------
(* The budget.                                                              *)

Locks == lock = {}

\* F_SETLKW succeeds and the two numbers are read.
BudgetLocks(p) ==
    /\ op[p].step = "lock"
    /\ Locks
    /\ lock' = {p}
    /\ op' = [op EXCEPT ![p].step = "update", ![p].seen = budget]
    /\ UNCHANGED <<disk, budget, run, opened, unseen, crashes>>

\* Mutant: the limit of executions is compared with what is there already.
Allowed_late(seen, adds) == seen.count <= MaxExecutions /\ seen.size + adds.size <= MaxBytes

Allowed(seen, adds) ==
    /\ adds.count <= MaxExecutions - seen.count
    /\ adds.size <= MaxBytes - seen.size

\* fclose writes the new numbers, if they are allowed, and lets go of the lock.
BudgetUpdates(p) ==
    LET o == op[p] IN
    /\ o.step = "update"
    /\ lock' = lock \ {p}
    /\ IF Allowed(o.seen, o.adds)
       THEN /\ budget' = [count |-> o.seen.count + o.adds.count, size |-> o.seen.size + o.adds.size]
            /\ op' = [op EXCEPT ![p].step = IF o.adds.count = 1 THEN "expect" ELSE "open"]
            /\ UNCHANGED <<run, unseen>>
       ELSE Fails(p) /\ UNCHANGED budget
    /\ UNCHANGED <<disk, opened, crashes>>

-----------------------------------------------------------------------------
(* Names.                                                                   *)

\* What execute() runs to the end before the record is closed.
ByExecute == {"root", "nested", "process"}

\* reserve: the next child of r, up to its budget.  Tasks are spawned by the embedder,
\* below its own run or below a task.
reserve(r, kind) ==
    LET p == Process(r)
        id == Append(r, run[r].children + 1)
    IN  /\ Running(r)
        /\ kind = "task" => expect[r] \in {"root", "process", "task"}
        /\ IF run[r].children = MaxChildren \/ Len(r) = MaxDepth
           THEN /\ run' = [run EXCEPT ![r].gap = TRUE, ![r].children = Min({MaxChildren, @ + 1})]
                /\ unseen' = TRUE
                /\ UNCHANGED op
           ELSE /\ run' = [run EXCEPT ![r].children = @ + 1]
                /\ op' = [op EXCEPT ![p] = [Idle EXCEPT !.step = "lock", !.id = id, !.kind = kind,
                                                        !.adds = [count |-> 1, size |-> 0]]]
                /\ UNCHANGED unseen
        /\ UNCHANGED <<disk, budget, lock, opened, crashes>>

\* Mutant: nobody notes that the process is not observed.
RunsIsolated_silent(r) ==
    /\ Running(r)
    /\ unseen' = TRUE
    /\ UNCHANGED <<disk, budget, lock, run, op, opened, crashes>>

\* An isolated process is launched without a ticket.
RunsIsolated(r) ==
    /\ Running(r)
    /\ run' = [run EXCEPT ![r].gap = TRUE]
    /\ unseen' = TRUE
    /\ UNCHANGED <<disk, budget, lock, op, opened, crashes>>

\* The expect marker; for a process that is all, and its ticket is ready.
MarkerExpects(p) ==
    LET o == op[p] IN
    /\ o.step = "expect"
    /\ \/ /\ expect' = expect @@ (o.id :> o.kind)
          /\ op' = [op EXCEPT ![p] = IF o.kind = "process" THEN Idle ELSE [o EXCEPT !.step = "claim"]]
          /\ UNCHANGED <<run, unseen>>
       \/ Fails(p) /\ UNCHANGED expect
    /\ UNCHANGED <<claims, raw, closed, budget, lock, opened, crashes>>

\* vm_coverage_session_inherit in a process launched with the ticket for id; the
\* environment may hand the same ticket to more than one.
Inherits(id) ==
    /\ id \in DOMAIN expect /\ expect[id] = "process" /\ Free(id)
    /\ op' = [op EXCEPT ![id] = [Idle EXCEPT !.step = "claim", !.id = id, !.kind = "process"]]
    /\ UNCHANGED <<disk, budget, lock, run, opened, unseen, crashes>>

Claimable(id) == id \notin claims

\* claim, up to its budget.  It fails before the marker when the program is not
\* one of the session's.
Claims(p) ==
    LET o == op[p] IN
    /\ o.step = "claim"
    /\ \/ /\ Claimable(o.id)
          /\ claims' = claims \cup {o.id}
          /\ op' = [op EXCEPT ![p].step = "lock", ![p].adds = [count |-> 0, size |-> Size[o.kind]]]
          /\ UNCHANGED <<run, unseen>>
       \/ Fails(p) /\ UNCHANGED claims
    /\ UNCHANGED <<expect, raw, closed, budget, lock, opened, crashes>>

\* The run is there and its program executes.
Opens(p) ==
    /\ op[p].step = "open"
    /\ run' = [run EXCEPT ![op[p].id] = [NoRun EXCEPT !.state = "open"]]
    /\ opened' = [opened EXCEPT ![op[p].id] = Min({2, @ + 1})]
    /\ op' = [op EXCEPT ![p] = Idle]
    /\ UNCHANGED <<disk, budget, lock, unseen, crashes>>

-----------------------------------------------------------------------------
(* vm_coverage_run_close.                                                   *)

\* The record is begun once nothing below r in its process is open; but the body
\* of a task may end, and its record with it, while tasks it spawned go on.
CloseBegins(r) ==
    LET p == Process(r) IN
    /\ Running(r)
    /\ \A c \in DOMAIN expect :
        (Open(c) /\ IsStrictPrefix(r, c) /\ Process(c) = p)
        => expect[r] = "task" /\ expect[SubSeq(c, 1, Len(r) + 1)] = "task"
    /\ raw' = [raw EXCEPT ![r].state = "part"]
    /\ op' = [op EXCEPT ![p] = [Idle EXCEPT !.step = "write", !.id = r]]
    /\ UNCHANGED <<expect, claims, closed, budget, lock, run, opened, unseen, crashes>>

\* The record is complete, of an execution that ended or of one that was left in the
\* middle (a task cancelled, a client dropped), or it cannot be written.  Only the
\* caller of a nested program notes that; tasks and servers have no collector to
\* note it in.
CloseWrites(p) ==
    LET r == op[p].id IN
    /\ op[p].step = "write"
    /\ \/ /\ \E ended \in IF expect[r] \in ByExecute THEN {TRUE} ELSE BOOLEAN :
                raw' = [raw EXCEPT ![r] = [state |-> "whole", children |-> run[r].children,
                                           gap |-> run[r].gap, ended |-> ended]]
          /\ run' = [run EXCEPT ![r].state = "closed"]
          /\ op' = [op EXCEPT ![p] = IF r = Root THEN [@ EXCEPT !.step = "finish"] ELSE Idle]
       \/ /\ run' = [q \in Ids |->
                IF q = r THEN [run[q] EXCEPT !.state = "closed"]
                ELSE IF expect[r] = "nested" /\ q = Parent(r) THEN [run[q] EXCEPT !.gap = TRUE]
                ELSE run[q]]
          /\ op' = [op EXCEPT ![p] = Idle]
          /\ UNCHANGED raw
    /\ UNCHANGED <<expect, claims, closed, budget, lock, opened, unseen, crashes>>

MarkerCloses ==
    /\ op[Root].step = "finish"
    /\ closed' \in BOOLEAN
    /\ op' = [op EXCEPT ![Root] = Idle]
    /\ UNCHANGED <<expect, claims, raw, budget, lock, run, opened, unseen, crashes>>

\* A process is killed or exits in the middle (process_exit); the kernel takes its lock away.
Crash(p) ==
    /\ crashes < MaxCrashes
    /\ ~Free(p) \/ Open(p)
    /\ crashes' = crashes + 1
    /\ lock' = lock \ {p}
    /\ op' = [op EXCEPT ![p] = Idle]
    /\ run' = [r \in Ids |-> IF Open(r) /\ Process(r) = p THEN [run[r] EXCEPT !.state = "dead"] ELSE run[r]]
    /\ UNCHANGED <<disk, budget, opened, unseen>>

Next ==
    \/ MarkerCloses
    \/ \E x \in Ids :
        \/ \E kind \in Kinds : reserve(x, kind)
        \/ RunsIsolated(x) \/ BudgetLocks(x) \/ BudgetUpdates(x) \/ MarkerExpects(x)
        \/ Inherits(x) \/ Claims(x) \/ Opens(x)
        \/ CloseBegins(x) \/ CloseWrites(x) \/ Crash(x)

Spec == Init /\ [][Next]_vars

-----------------------------------------------------------------------------
(* coverage_session_read.                                                   *)

\* The records decode_coverage_at takes for valid.
Whole == {id \in DOMAIN expect : raw[id].state = "whole" /\ raw[id].ended /\ ~raw[id].gap}

\* The kinds the reader knows.
KnownKinds == {"nested", "task", "server", "process"}

\* The bytes of the records of S.
Bytes(S) == MapThenSumSet(LAMBDA id : Size[expect[id]], S)

\* Everything expected is there, nothing else is, and the sums agree.
Accepted ==
    /\ closed
    /\ DOMAIN expect = Whole
    /\ \A id \in DOMAIN expect : IF id = Root THEN expect[id] = "root" ELSE expect[id] \in KnownKinds
    /\ claims = DOMAIN expect
    /\ \A id \in Ids : raw[id].state # "none" => id \in DOMAIN expect
    /\ \A id \in DOMAIN expect : \A k \in 1 .. raw[id].children : Append(id, k) \in DOMAIN expect
    /\ Cardinality(DOMAIN expect) =
            1 + MapThenSumSet(LAMBDA id : raw[id].children, DOMAIN expect)
    /\ budget = [count |-> Cardinality(DOMAIN expect), size |-> Bytes(Whole)]

-----------------------------------------------------------------------------
(* Properties.                                                              *)

\* "A shared reservation budget bounds the complete process tree": the markers
\* and records of all processes, whatever order they came in and whoever was
\* killed on the way, are paid for, and the budget is never overdrawn.  What is paid
\* for once runs once: a ticket serves one run, although several processes may
\* inherit it.
WithinBudget ==
    /\ Cardinality(DOMAIN expect) <= budget.count
    /\ Bytes({id \in Ids : raw[id].state # "none"}) <= budget.size
    /\ budget.count <= MaxExecutions /\ budget.size <= MaxBytes
    /\ \A id \in Ids : opened[id] <= 1

\* "Aggregate complete ... execution trees": what the reader accepts leaves out
\* no execution of the session, not even one that could not be registered, and
\* none is still running, was killed or was left in the middle.  And the reader
\* refuses for no other reason: when every record is valid and of a kind it knows,
\* the markers, the numbers of children and the budget agree with the records,
\* whatever order processes and tasks came and went in.
AcceptedIffComplete ==
    /\ Accepted => /\ ~unseen
                   /\ \A id \in Ids : opened[id] > 0 => id \in Whole
                   /\ \A id \in Ids : run[id].state \in {"none", "closed"}
    /\ (closed /\ DOMAIN expect = Whole /\ \A id \in DOMAIN expect \ {Root} : expect[id] \in KnownKinds)
        => Accepted

===============================================================================
