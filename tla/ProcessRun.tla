----------------------------- MODULE ProcessRun -----------------------------
(***************************************************************************)
(* process.run and process.run_isolated (hc_process of                     *)
(* src/vm/host_capabilities.c): the VM launches a program with four pipes, *)
(* feeds its input, drains its two outputs and reaps it, until all streams *)
(* have ended, the deadline passes or something fails.                     *)
(*                                                                         *)
(* The program, a descendant it may leave behind and the kernel are        *)
(* external: they take the steps of setup.child and setup.heir one by one, *)
(* concurrently with the VM.  Pipes hold Cap bytes, a read or a write      *)
(* moves at most Chunk; only numbers of bytes matter.  An interrupted      *)
(* system call is repeated at once.                                        *)
(***************************************************************************)
EXTENDS Integers, Sequences, FiniteSets, FiniteSetsExt, SequencesExt

CONSTANTS
    Setups,     \* what the call is given, see SetupOK
    Cap,        \* bytes a pipe holds
    Chunk,      \* bytes of one read or write
    MaxBytes    \* HC_MAX_BYTES

Ops == {"drain", "close", "out", "err", "fork", "leave", "hang", "abort"}
Entries == {"A", "B", "TICKET"} \X {"old", "new", "ticket"}

SetupOK(s) ==
    /\ s.input \in Nat /\ s.limit \in Nat /\ s.timeout \in Nat
    /\ s.child \in Seq(Ops) /\ s.heir \in Seq(Ops \ {"fork"})
    /\ \A i, j \in DOMAIN s.child : s.child[i] = "fork" /\ s.child[j] = "fork" => i = j
    /\ s.inherited \in Seq(Entries) /\ s.explicit \in Seq(Entries)
    /\ s.isolated \in BOOLEAN /\ s.coverage \in BOOLEAN

ASSUME ProcessAssumption ==
    /\ {Cap, Chunk} \subseteq Nat \ {0} /\ MaxBytes \in Nat
    /\ \A s \in Setups : SetupOK(s)

VARIABLES
    setup,      \* the arguments of the call and what the program will do
    pc,         \* where hc_process is
    vm,         \* its local variables
    fds,        \* process -> ends of pipes it has open
    buffer,     \* pipe -> bytes in it
    life,       \* process -> what has become of it
    todo,       \* process -> steps it still takes
    group,      \* processes in the child's process group
    status,     \* how the child ended
    expired,    \* the timeout has passed
    wrote,      \* output -> bytes ever written to it
    executed    \* execve succeeded

vars == <<setup, pc, vm, fds, buffer, life, todo, group, status, expired, wrote, executed>>
programs == <<life, todo, group, status, wrote, executed>>

Outputs == {"out", "err"}
Pipes == <<"in", "out", "err", "fail">>         \* pipes[0] .. pipes[3]
Offspring == {"child", "heir"}
Read(p) == <<p, "r">>
Write(p) == <<p, "w">>
Held(end) == \E q \in Offspring \cup {"vm"} : end \in fds[q]
Alive(q) == life[q] \in {"new", "set", "failed", "running"}

\* The arguments are refused before anything is launched.
Refusal(s) ==
    IF s.limit > MaxBytes \/ s.input > MaxBytes THEN "out_of_range"
    ELSE IF \E i, j \in DOMAIN s.explicit : i < j /\ s.explicit[i][1] = s.explicit[j][1]
         THEN "invalid_environment"
    ELSE IF s.timeout = 0 THEN "timeout"
    ELSE "none"

Names(entries) == {entries[i][1] : i \in DOMAIN entries}

\* The entries of the VM's environment that no explicit entry replaces, then the
\* explicit ones.
Merged(s) ==
    LET Remains(entry) == entry[1] \notin Names(s.explicit)
    IN  (IF s.isolated THEN << >> ELSE SelectSeq(s.inherited, Remains)) \o s.explicit

\* A ticket of the coverage session takes the place of any other.
Unticketed(entries) ==
    LET Other(entry) == entry[1] # "TICKET"
    IN  SelectSeq(entries, Other)

Init ==
    /\ setup \in Setups
    /\ pc = "start"
    /\ vm = [env |-> << >>, sent |-> 0, got |-> [o \in Outputs |-> 0], ready |-> {},
             reaped |-> FALSE, gap |-> FALSE, problem |-> "none", result |-> "none"]
    /\ fds = [q \in Offspring \cup {"vm"} |-> {}]
    /\ buffer = [p \in ToSet(Pipes) |-> 0]
    /\ life = [q \in Offspring |-> "none"]
    /\ todo = [child |-> setup.child, heir |-> setup.heir]
    /\ group = {} /\ status = "none" /\ expired = FALSE
    /\ wrote = [o \in Outputs |-> 0] /\ executed = FALSE

Return(result) == pc' = "done" /\ vm' = [vm EXCEPT !.result = result]

\* goto finish
Finish(problem) == pc' = "finish" /\ vm' = [vm EXCEPT !.problem = problem]

Refuse ==
    /\ pc = "start" /\ Refusal(setup) # "none"
    /\ Return(Refusal(setup))
    /\ UNCHANGED <<setup, fds, buffer, programs, expired>>

\* argv and env are built, or memory runs out.  The session may have no ticket, or
\* the entry for it no memory; without it the session has a gap.
Prepare ==
    /\ pc = "start" /\ Refusal(setup) = "none"
    /\ \/ Return("NULL")
       \/ \E ticket \in {"none", "lost", "given"} :
            /\ ticket # "none" => setup.coverage /\ ~setup.isolated
            /\ vm' = [vm EXCEPT !.env = CASE ticket = "none" -> Merged(setup)
                                          [] ticket = "lost" -> Unticketed(Merged(setup))
                                          [] ticket = "given" -> Append(Unticketed(Merged(setup)),
                                                                        <<"TICKET", "ticket">>),
                                !.gap = setup.coverage /\ ticket # "given"]
            /\ pc' = "pipes"
    /\ UNCHANGED <<setup, fds, buffer, programs, expired>>

\* The clock is read and the pipes are opened, each with descriptors that are
\* moved and marked; a failure may come before or after a pipe exists.
OpenPipe ==
    /\ pc = "pipes"
    /\ LET opened == {p \in ToSet(Pipes) : Read(p) \in fds["vm"]}
           p == Pipes[Cardinality(opened) + 1]
       IN  \/ /\ fds' = [fds EXCEPT !["vm"] = @ \cup {Read(p), Write(p)}]
              /\ \/ pc' = (IF p = "fail" THEN "fork" ELSE "pipes") /\ UNCHANGED vm
                 \/ Finish("error")
           \/ Finish("error") /\ UNCHANGED fds
    /\ UNCHANGED <<setup, buffer, programs, expired>>

Fork ==
    /\ pc = "fork"
    /\ \/ /\ fds' = [fds EXCEPT !["child"] = fds["vm"]]
          /\ life' = [life EXCEPT !["child"] = "new"]
          /\ pc' = "forked"
          /\ UNCHANGED vm
       \/ Finish("error") /\ UNCHANGED <<fds, life>>
    /\ UNCHANGED <<setup, buffer, todo, group, status, wrote, executed, expired>>

\* Mutant: an end of the output is left open.
Kept_writing == {Write("in"), Read("out"), Read("err"), Read("fail"), Write("out")}

\* The ends the VM keeps.
Kept == {Write("in"), Read("out"), Read("err"), Read("fail")}

\* The parent sets the group too, closes the child's ends and makes its own
\* nonblocking.
Forked ==
    /\ pc = "forked"
    /\ group' = IF life["child"] \in {"new", "set", "failed"} THEN group \cup {"child"} ELSE group
    /\ fds' = [fds EXCEPT !["vm"] = Kept]
    /\ \/ pc' = "loop" /\ UNCHANGED vm
       \/ Finish("error")
    /\ UNCHANGED <<setup, buffer, life, todo, status, wrote, executed, expired>>

\* Mutant: the end of the child ends the streams.
Streaming_reaped == ~vm.reaped

\* The child or one of its streams has not ended.
Streaming == ~vm.reaped \/ \E p \in {"out", "err", "fail"} : Read(p) \in fds["vm"]

\* The head of the loop: it ends, or the deadline is looked at and the input,
\* when all of it is sent, is closed.
Check ==
    /\ pc = "loop"
    /\ \/ ~Streaming /\ pc' = "close" /\ UNCHANGED <<vm, fds>>
       \/ Streaming /\ Finish("clock_unavailable") /\ UNCHANGED fds
       \/ Streaming /\ expired /\ Finish("timeout") /\ UNCHANGED fds
       \/ /\ Streaming /\ ~expired
          /\ fds' = [fds EXCEPT !["vm"] = IF vm.sent = setup.input THEN @ \ {Write("in")} ELSE @]
          /\ pc' = "poll"
          /\ UNCHANGED vm
    /\ UNCHANGED <<setup, buffer, programs, expired>>

Writable == buffer["in"] < Cap \/ ~Held(Read("in"))
Readable(p) == buffer[p] > 0 \/ ~Held(Write(p))

\* poll waits for at most 10 ms, so it may also find nothing ready.
Poll ==
    /\ pc = "poll"
    /\ \/ /\ vm' = [vm EXCEPT !.ready =
                {p \in {"in"} : Write(p) \in fds["vm"] /\ Writable}
                \cup {p \in {"out", "err", "fail"} : Read(p) \in fds["vm"] /\ Readable(p)}]
          /\ pc' = "send"
       \/ Finish("error")
    /\ UNCHANGED <<setup, fds, buffer, programs, expired>>

\* One write of the input.  EPIPE, when nobody can read it any more, closes it;
\* the signal that comes with it is blocked and consumed.
Send ==
    /\ pc = "send"
    /\ \/ /\ "in" \notin vm.ready
          /\ pc' = "receive" /\ UNCHANGED <<vm, fds, buffer>>
       \/ /\ "in" \in vm.ready /\ Held(Read("in"))
          /\ \E n \in {Min({setup.input - vm.sent, Chunk, Cap - buffer["in"]})} :
                /\ vm' = [vm EXCEPT !.sent = @ + n, !.ready = @ \ {"in"}]
                /\ buffer' = [buffer EXCEPT !["in"] = @ + n]
          /\ pc' = "receive" /\ UNCHANGED fds
       \/ /\ "in" \in vm.ready /\ ~Held(Read("in"))
          /\ fds' = [fds EXCEPT !["vm"] = @ \ {Write("in")}]
          /\ vm' = [vm EXCEPT !.ready = @ \ {"in"}]
          /\ pc' = "receive" /\ UNCHANGED buffer
       \/ "in" \in vm.ready /\ Finish("error") /\ UNCHANGED <<fds, buffer>>
    /\ UNCHANGED <<setup, programs, expired>>

Exceeds(n) == vm.got["out"] + vm.got["err"] + n > setup.limit

\* The first pipe that poll found ready, in the order of pipes[].
FirstReady == Pipes[Min({i \in DOMAIN Pipes : Pipes[i] \in vm.ready})]

\* One read from it.
Receive ==
    /\ pc = "receive" /\ vm.ready # {}
    /\ LET p == FirstReady
           n == Min({buffer[p], Chunk})
           rest == [vm EXCEPT !.ready = @ \ {p}]
       IN  \/ /\ n = 0                                      \* end of file
              /\ fds' = [fds EXCEPT !["vm"] = @ \ {Read(p)}]
              /\ vm' = rest
              /\ UNCHANGED <<pc, buffer>>
           \/ /\ n > 0 /\ p = "fail"
              /\ Finish("launch_failed") /\ UNCHANGED <<fds, buffer>>
           \/ /\ n > 0 /\ p # "fail" /\ Exceeds(n)
              /\ Finish("output_limit") /\ UNCHANGED <<fds, buffer>>
           \/ /\ n > 0 /\ p # "fail" /\ ~Exceeds(n)
              /\ buffer' = [buffer EXCEPT ![p] = @ - n]
              /\ vm' = [rest EXCEPT !.got[p] = @ + n]
              /\ UNCHANGED <<pc, fds>>
           \/ Finish("error") /\ UNCHANGED <<fds, buffer>>
    /\ UNCHANGED <<setup, programs, expired>>

\* waitpid(child, &status, WNOHANG), once nothing is left to read.
Wait ==
    /\ pc = "receive" /\ vm.ready = {}
    /\ \/ /\ pc' = "loop"
          /\ vm' = [vm EXCEPT !.reaped = @ \/ life["child"] = "zombie"]
          /\ life' = IF life["child"] = "zombie" THEN [life EXCEPT !["child"] = "gone"] ELSE life
       \/ ~vm.reaped /\ Finish("error") /\ UNCHANGED life
    /\ UNCHANGED <<setup, fds, buffer, todo, group, status, wrote, executed, expired>>

\* Mutant: nothing is killed once the child is reaped.
Killed_unreaped == {q \in Offspring : Alive(q) /\ ~vm.reaped /\ (q \in group \/ q = "child")}

\* What the SIGKILLs of finish reach: the group, and the child if it is not
\* reaped yet.
Killed == {q \in Offspring : Alive(q) /\ (q \in group \/ (q = "child" /\ ~vm.reaped))}

\* finish, after an error.  A process that is killed drops its descriptors.
Kill ==
    /\ pc = "finish"
    /\ life' = [q \in Offspring |-> IF q \notin Killed THEN life[q]
                                    ELSE IF q = "child" THEN "zombie" ELSE "gone"]
    /\ fds' = [q \in DOMAIN fds |-> IF q \in Killed THEN {} ELSE fds[q]]
    /\ status' = IF "child" \in Killed THEN "signal" ELSE status
    /\ pc' = "reap"
    /\ UNCHANGED <<setup, vm, buffer, todo, group, wrote, executed, expired>>

\* waitpid until it does not say EINTR: it reaps the child, or there is none.
Reap ==
    /\ pc = "reap" /\ ~Alive("child")
    /\ life' = IF life["child"] = "zombie" THEN [life EXCEPT !["child"] = "gone"] ELSE life
    /\ pc' = "close"
    /\ UNCHANGED <<setup, vm, fds, buffer, todo, group, status, wrote, executed, expired>>

\* The descriptors are closed and the result is made.
Close ==
    /\ pc = "close"
    /\ fds' = [fds EXCEPT !["vm"] = {}]
    /\ Return(IF vm.problem = "none" THEN "Ok" ELSE vm.problem)
    /\ UNCHANGED <<setup, buffer, programs, expired>>

VMStep ==
    \/ Refuse \/ Prepare \/ OpenPipe \/ Fork \/ Forked \/ Check \/ Poll
    \/ Send \/ Receive \/ Wait \/ Kill \/ Reap \/ Close

-----------------------------------------------------------------------------
(* The child before execve.                                                *)

\* setpgid, chdir, dup2; all ends but its own are closed.
ChildSetup ==
    /\ life["child"] = "new"
    /\ fds' = [fds EXCEPT !["child"] = {Read("in"), Write("out"), Write("err"), Write("fail")}]
    /\ \/ life' = [life EXCEPT !["child"] = "set"] /\ group' = group \cup {"child"}
       \/ life' = [life EXCEPT !["child"] = "failed"] /\ group' \in {group, group \cup {"child"}}
    /\ UNCHANGED <<setup, pc, vm, buffer, todo, status, wrote, executed, expired>>

\* execve closes pipes[3], or it fails.
ChildExec ==
    /\ life["child"] = "set"
    /\ \/ /\ life' = [life EXCEPT !["child"] = "running"]
          /\ fds' = [fds EXCEPT !["child"] = @ \ {Write("fail")}]
          /\ executed' = TRUE
       \/ life' = [life EXCEPT !["child"] = "failed"] /\ UNCHANGED <<fds, executed>>
    /\ UNCHANGED <<setup, pc, vm, buffer, todo, group, status, wrote, expired>>

\* A process ends; the child stays a zombie until it is reaped.
Ends(q, how) ==
    /\ life' = [life EXCEPT ![q] = IF q = "child" THEN "zombie" ELSE "gone"]
    /\ fds' = [fds EXCEPT ![q] = {}]
    /\ status' = IF q = "child" THEN how ELSE status

\* The error is sent, then _exit(127).
ChildFails ==
    /\ life["child"] = "failed"
    /\ IF buffer["fail"] = 0
       THEN /\ buffer' = [buffer EXCEPT !["fail"] = 1]
            /\ UNCHANGED <<life, fds, status>>
       ELSE Ends("child", "exit") /\ UNCHANGED buffer
    /\ UNCHANGED <<setup, pc, vm, todo, group, wrote, executed, expired>>

-----------------------------------------------------------------------------
(* The program and its descendant, external to the VM.                     *)

Doing(q, op) == life[q] = "running" /\ todo[q] # << >> /\ Head(todo[q]) = op
Done(q) == todo' = [todo EXCEPT ![q] = Tail(@)]

\* Reads its input to the end.
Drain(q) ==
    /\ Doing(q, "drain")
    /\ \/ /\ buffer["in"] > 0
          /\ buffer' = [buffer EXCEPT !["in"] = @ - 1] /\ UNCHANGED todo
       \/ buffer["in"] = 0 /\ ~Held(Write("in")) /\ Done(q) /\ UNCHANGED buffer
    /\ UNCHANGED <<setup, pc, vm, fds, life, group, status, wrote, executed, expired>>

\* Writes a byte, waits for room, or dies of SIGPIPE.
Produce(q) ==
    \E o \in Outputs :
        /\ Doing(q, o)
        /\ \/ /\ Held(Read(o)) /\ buffer[o] < Cap
              /\ buffer' = [buffer EXCEPT ![o] = @ + 1]
              /\ wrote' = [wrote EXCEPT ![o] = @ + 1]
              /\ Done(q)
              /\ UNCHANGED <<fds, life, status>>
           \/ ~Held(Read(o)) /\ Ends(q, "signal") /\ UNCHANGED <<buffer, todo, wrote>>
        /\ UNCHANGED <<setup, pc, vm, group, executed, expired>>

CloseInput(q) ==
    /\ Doing(q, "close") /\ Done(q)
    /\ fds' = [fds EXCEPT ![q] = @ \ {Read("in")}]
    /\ UNCHANGED <<setup, pc, vm, buffer, life, group, status, wrote, executed, expired>>

\* The descendant inherits descriptors and group.
ForkHeir ==
    /\ Doing("child", "fork") /\ Done("child")
    /\ fds' = [fds EXCEPT !["heir"] = fds["child"]]
    /\ life' = [life EXCEPT !["heir"] = "running"]
    /\ group' = IF "child" \in group THEN group \cup {"heir"} ELSE group
    /\ UNCHANGED <<setup, pc, vm, buffer, status, wrote, executed, expired>>

Leave(q) ==
    /\ Doing(q, "leave") /\ Done(q)
    /\ group' = group \ {q}
    /\ UNCHANGED <<setup, pc, vm, fds, buffer, life, status, wrote, executed, expired>>

Exit(q) ==
    /\ \/ life[q] = "running" /\ todo[q] = << >> /\ Ends(q, "exit")
       \/ Doing(q, "abort") /\ Ends(q, "signal")
    /\ UNCHANGED <<setup, pc, vm, buffer, todo, group, wrote, executed, expired>>

ProgramStep(q) == Drain(q) \/ Produce(q) \/ CloseInput(q) \/ Leave(q) \/ Exit(q)

OffspringStep ==
    ChildSetup \/ ChildExec \/ ChildFails \/ ForkHeir \/ \E q \in Offspring : ProgramStep(q)

\* The timeout passes while the call is under way.
Expire ==
    /\ ~expired /\ pc # "done" /\ pc # "start"
    /\ expired' = TRUE
    /\ UNCHANGED <<setup, pc, vm, fds, buffer, programs>>

Next == VMStep \/ OffspringStep \/ Expire

\* The VM's thread, the kernel and programs that can go on do so; nothing says
\* that the deadline passes.
Fairness ==
    /\ WF_vars(VMStep)
    /\ WF_vars(ChildSetup \/ ChildExec \/ ChildFails)
    /\ \A q \in Offspring : WF_vars(ProgramStep(q) \/ (q = "child" /\ ForkHeir))

Spec == Init /\ [][Next]_vars /\ Fairness

-----------------------------------------------------------------------------
(* Properties.                                                             *)

\* The value a lookup in the child's environment finds: the first entry.
Value(entries, name) ==
    LET hits == {i \in DOMAIN entries : entries[i][1] = name}
    IN  IF hits = {} THEN "unset" ELSE entries[Min(hits)][2]

\* The program finds its explicit entries and, unless isolated, what they leave
\* of the VM's; only a ticket issued for it takes precedence.
EnvironmentAsAsked ==
    \A name \in {"A", "B", "TICKET"} :
        LET asked == IF name \in Names(setup.explicit) THEN Value(setup.explicit, name)
                     ELSE IF setup.isolated THEN "unset" ELSE Value(setup.inherited, name)
        IN  IF name = "TICKET" /\ setup.coverage /\ ~setup.isolated
            THEN IF vm.gap THEN Value(vm.env, name) \in {asked, "unset"}
                 ELSE Value(vm.env, name) = "ticket"
            ELSE Value(vm.env, name) = asked

\* Ok: the child has ended, did not fail to launch, and everything that it and
\* its descendants ever wrote is in the result and within the limit.  An error:
\* launch_failed only if the program never ran, output_limit only if more was
\* written than allowed, timeout only after the deadline.
OutcomeIsTrue ==
    /\ vm.result = "Ok" =>
        /\ vm.got = wrote
        /\ wrote["out"] + wrote["err"] <= setup.limit
        /\ life["child"] = "gone"
        /\ executed /\ status \in {"exit", "signal"}
    /\ vm.result = "launch_failed" => ~executed
    /\ vm.result = "output_limit" => wrote["out"] + wrote["err"] > setup.limit
    /\ vm.result = "timeout" => expired \/ setup.timeout = 0

\* What process.run reports is what happened, and a program that ran was given
\* the environment asked for.
ResultIsTrue == OutcomeIsTrue /\ (executed => EnvironmentAsAsked)

\* When the call returns no zombie is left, the VM holds no end of a pipe, and
\* after an error no process of the child's group runs on, also when the child
\* was reaped before its descendants had let go of the streams.
NothingLeft ==
    pc = "done" =>
        /\ life["child"] \in {"none", "gone"}
        /\ fds["vm"] = {}
        /\ vm.result # "Ok" => \A q \in group : ~Alive(q)

\* The call returns if the program and its descendant end by themselves or the
\* deadline passes: the VM and the child never wait for each other's pipes.
Hangs == \E q \in Offspring : "hang" \in ToSet(setup[q])
CallReturns == (Hangs => <>expired) => <>(pc = "done")
=============================================================================
