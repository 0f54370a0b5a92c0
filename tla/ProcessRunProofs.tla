-------------------------- MODULE ProcessRunProofs ---------------------------
(***************************************************************************)
(* Proofs about process.run, for every set of calls, pipe capacity, chunk  *)
(* and byte limit, whatever the program and its descendant do and in any   *)
(* interleaving with the VM.                                               *)
(***************************************************************************)
EXTENDS ProcessRun, FiniteSetTheorems, TLAPS

VMFields == {"env", "sent", "got", "ready", "reaped", "gap", "problem", "result"}
PipeNames == {"in", "out", "err", "fail"}
Incoming == {"out", "err", "fail"}
AllEnds == PipeNames \X {"r", "w"}
Lifes == {"none", "new", "set", "failed", "running", "zombie", "gone"}

\* The places of hc_process before the fork, and those of its loop.
Early == {"start", "pipes", "fork"}
Busy == {"loop", "poll", "send", "receive"}
Places == Early \cup {"forked"} \cup Busy \cup {"finish", "reap", "close", "done"}

\* The ends of the first k pipes.
Opened(k) == {Pipes[i] : i \in 1 .. k} \X {"r", "w"}

\* The VM's local variables; of the environment nothing is needed here.
LocalTypes ==
    /\ pc \in Places
    /\ vm = [f \in VMFields |-> vm[f]]
    /\ vm.got \in [Outputs -> Nat]
    /\ vm.ready \subseteq PipeNames /\ (pc = "receive" => "in" \notin vm.ready)
    /\ vm.reaped \in BOOLEAN

\* Who has which ends open, and that the VM opens the pipes in order.
EndTypes ==
    /\ fds \in [Offspring \cup {"vm"} -> SUBSET AllEnds]
    /\ pc = "start" => fds["vm"] = {}
    /\ pc = "pipes" => \E k \in 0 .. 3 : fds["vm"] = Opened(k)
    /\ pc \in {"fork", "forked"} => fds["vm"] = AllEnds

\* The bytes in the pipes; of the input nothing is needed here.
BufferTypes ==
    /\ buffer = [p \in PipeNames |-> buffer[p]]
    /\ \A p \in Incoming : buffer[p] \in Nat

\* The processes and what they did.
ProgramTypes ==
    /\ life \in [Offspring -> Lifes]
    /\ group \subseteq Offspring
    /\ status \in {"none", "exit", "signal"}
    /\ executed \in BOOLEAN
    /\ wrote \in [Outputs -> Nat]

Types == /\ setup \in Setups /\ expired \in BOOLEAN
         /\ LocalTypes /\ EndTypes /\ BufferTypes /\ ProgramTypes

\* goto finish changes the place and the problem only.
LEMMA FinishVM ==
    ASSUME Types, NEW problem, Finish(problem)
    PROVE  /\ pc' = "finish" /\ vm' = [f \in VMFields |-> vm'[f]]
           /\ vm'.problem = problem /\ vm'.result = vm.result /\ vm'.got = vm.got
           /\ vm'.ready = vm.ready /\ vm'.reaped = vm.reaped
  BY DEF Types, LocalTypes, Finish, VMFields

\* A return changes the place and the result only.
LEMMA ReturnVM ==
    ASSUME Types, NEW result, Return(result)
    PROVE  /\ pc' = "done" /\ vm' = [f \in VMFields |-> vm'[f]]
           /\ vm'.problem = vm.problem /\ vm'.result = result /\ vm'.got = vm.got
           /\ vm'.ready = vm.ready /\ vm'.reaped = vm.reaped
  BY DEF Types, LocalTypes, Return, VMFields

\* The least of two numbers.
LEMMA MinOfTwo ==
    ASSUME NEW a \in Nat, NEW b \in Nat
    PROVE  Min({a, b}) \in {a, b} /\ Min({a, b}) <= a /\ Min({a, b}) <= b
  <1>1. \E x \in {a, b} : \A y \in {a, b} : x =< y
    <2>1. CASE a <= b
      BY <2>1
    <2>2. CASE ~(a <= b)
      BY <2>2
    <2> QED
      BY <2>1, <2>2
  <1> QED
    BY <1>1 DEF Min

\* Receive reads from a pipe that is ready.
LEMMA FirstIsReady ==
    ASSUME vm.ready \subseteq PipeNames, vm.ready # {}
    PROVE  FirstReady \in vm.ready
  <1> DEFINE S == {i \in DOMAIN Pipes : Pipes[i] \in vm.ready}
  <1>1. DOMAIN Pipes = 1 .. 4
    BY DEF Pipes
  <1>2. Pipes[1] = "in" /\ Pipes[2] = "out" /\ Pipes[3] = "err" /\ Pipes[4] = "fail"
    BY DEF Pipes
  <1>3. S \subseteq 1 .. 4 /\ (1 \in S \/ 2 \in S \/ 3 \in S \/ 4 \in S)
    BY <1>1, <1>2 DEF PipeNames
  <1> HIDE DEF S
  <1>4. \E x \in S : \A y \in S : x =< y
    <2>1. CASE 1 \in S
      BY <1>3, <2>1
    <2>2. CASE 1 \notin S /\ 2 \in S
      BY <1>3, <2>2
    <2>3. CASE 1 \notin S /\ 2 \notin S /\ 3 \in S
      BY <1>3, <2>3
    <2>4. CASE 1 \notin S /\ 2 \notin S /\ 3 \notin S
      BY <1>3, <2>4
    <2> QED
      BY <2>1, <2>2, <2>3, <2>4
  <1>5. Min(S) \in S
    BY <1>4 DEF Min
  <1> QED
    BY <1>5 DEF FirstReady, S

\* The fields of vm that matter, all unchanged.
SameVM == /\ vm' = [f \in VMFields |-> vm'[f]]
          /\ vm'.got = vm.got /\ vm'.ready = vm.ready /\ vm'.reaped = vm.reaped
          /\ vm'.problem = vm.problem /\ vm'.result = vm.result

\* Prepare returns NULL, or changes nothing of the VM that matters here.
LEMMA PrepareVM ==
    ASSUME Types, Prepare
    PROVE  \/ Return("NULL")
           \/ SameVM /\ pc' = "pipes"
  BY DEF Types, LocalTypes, Prepare, VMFields, SameVM

\* Poll notes the pipes that are ready.
LEMMA PollVM ==
    ASSUME Types, Poll
    PROVE  \/ Finish("error")
           \/ /\ pc' = "send" /\ vm' = [f \in VMFields |-> vm'[f]]
              /\ vm'.ready = {p \in {"in"} : Write(p) \in fds["vm"] /\ Writable}
                  \cup {p \in {"out", "err", "fail"} : Read(p) \in fds["vm"] /\ Readable(p)}
              /\ vm'.got = vm.got /\ vm'.reaped = vm.reaped
              /\ vm'.problem = vm.problem /\ vm'.result = vm.result
  BY DEF Types, LocalTypes, Poll, VMFields

\* Send deals with the input and nothing else.
LEMMA SendVM ==
    ASSUME Types, Send
    PROVE  \/ Finish("error") /\ fds' = fds /\ buffer' = buffer
           \/ /\ pc' = "receive" /\ vm' = [f \in VMFields |-> vm'[f]]
              /\ vm'.ready = vm.ready \ {"in"}
              /\ vm'.got = vm.got /\ vm'.reaped = vm.reaped
              /\ vm'.problem = vm.problem /\ vm'.result = vm.result
              /\ buffer' = [p \in PipeNames |-> buffer'[p]]
              /\ \A p \in Incoming : buffer'[p] = buffer[p]
              /\ fds' = fds \/ fds' = [fds EXCEPT !["vm"] = fds["vm"] \ {Write("in")}]
  <1>1. CASE "in" \notin vm.ready /\ pc' = "receive" /\ UNCHANGED <<vm, fds, buffer>>
    BY <1>1 DEF Types, LocalTypes, BufferTypes
  <1>2. ASSUME NEW n, vm' = [vm EXCEPT !.sent = @ + n, !.ready = @ \ {"in"}],
               buffer' = [buffer EXCEPT !["in"] = @ + n], pc' = "receive", UNCHANGED fds
        PROVE  /\ pc' = "receive" /\ vm' = [f \in VMFields |-> vm'[f]]
               /\ vm'.ready = vm.ready \ {"in"}
               /\ vm'.got = vm.got /\ vm'.reaped = vm.reaped
               /\ vm'.problem = vm.problem /\ vm'.result = vm.result
               /\ buffer' = [p \in PipeNames |-> buffer'[p]]
               /\ \A p \in Incoming : buffer'[p] = buffer[p]
               /\ fds' = fds
    BY <1>2 DEF Types, LocalTypes, BufferTypes, VMFields, PipeNames, Incoming
  <1>3. CASE /\ fds' = [fds EXCEPT !["vm"] = @ \ {Write("in")}]
             /\ vm' = [vm EXCEPT !.ready = @ \ {"in"}]
             /\ pc' = "receive" /\ UNCHANGED buffer
    BY <1>3 DEF Types, LocalTypes, BufferTypes, VMFields
  <1>4. CASE Finish("error") /\ UNCHANGED <<fds, buffer>>
    BY <1>4
  <1> QED
    BY <1>1, <1>2, <1>3, <1>4 DEF Send

\* What one read may do: it finds the end of the stream, takes some bytes, or
\* leads to finish.
ReadEnds(p) ==
    /\ buffer[p] = 0 /\ buffer' = buffer /\ pc' = pc
    /\ fds' = [fds EXCEPT !["vm"] = fds["vm"] \ {Read(p)}]
    /\ vm'.ready = vm.ready \ {p} /\ vm'.got = vm.got
ReadMore(p) ==
    /\ p # "fail" /\ fds' = fds /\ pc' = pc
    /\ \E n \in Nat \ {0} :
            /\ n <= buffer[p] /\ ~Exceeds(n)
            /\ buffer' = [buffer EXCEPT ![p] = buffer[p] - n]
            /\ vm'.got = [vm.got EXCEPT ![p] = vm.got[p] + n]
    /\ vm'.ready = vm.ready \ {p}
ReadFails(p) ==
    /\ fds' = fds /\ buffer' = buffer
    /\ \/ Finish("launch_failed") /\ p = "fail" /\ buffer["fail"] > 0
       \/ Finish("output_limit") /\ p # "fail" /\ \E n \in Nat : n <= buffer[p] /\ Exceeds(n)
       \/ Finish("error")

\* Receive reads once from a pipe of the child that is ready.
LEMMA ReceiveVM ==
    ASSUME Types, Receive
    PROVE  \E p \in Incoming :
                /\ p \in vm.ready
                /\ \/ ReadFails(p)
                   \/ /\ ReadEnds(p) \/ ReadMore(p)
                      /\ vm' = [f \in VMFields |-> vm'[f]]
                      /\ vm'.reaped = vm.reaped
                      /\ vm'.problem = vm.problem /\ vm'.result = vm.result
  <1> DEFINE p == FirstReady
             n == Min({buffer[p], Chunk})
  <1>1. p \in Incoming /\ p \in vm.ready
    BY FirstIsReady DEF Receive, Types, LocalTypes, PipeNames, Incoming
  <1>2. buffer[p] \in Nat /\ Chunk \in Nat \ {0}
    BY <1>1, ProcessAssumption DEF Types, BufferTypes
  <1>3. n \in Nat /\ n <= buffer[p] /\ (n = 0 <=> buffer[p] = 0)
    BY <1>2, MinOfTwo
  <1>4. \/ /\ n = 0
           /\ fds' = [fds EXCEPT !["vm"] = @ \ {Read(p)}]
           /\ vm' = [vm EXCEPT !.ready = @ \ {p}]
           /\ UNCHANGED <<pc, buffer>>
        \/ n > 0 /\ p = "fail" /\ Finish("launch_failed") /\ UNCHANGED <<fds, buffer>>
        \/ n > 0 /\ p # "fail" /\ Exceeds(n) /\ Finish("output_limit") /\ UNCHANGED <<fds, buffer>>
        \/ /\ n > 0 /\ p # "fail" /\ ~Exceeds(n)
           /\ buffer' = [buffer EXCEPT ![p] = @ - n]
           /\ vm' = [[vm EXCEPT !.ready = @ \ {p}] EXCEPT !.got[p] = @ + n]
           /\ UNCHANGED <<pc, fds>>
        \/ Finish("error") /\ UNCHANGED <<fds, buffer>>
    BY DEF Receive
  <1> HIDE DEF p, n
  <1> SUFFICES \/ ReadFails(p)
               \/ /\ ReadEnds(p) \/ ReadMore(p)
                  /\ vm' = [f \in VMFields |-> vm'[f]]
                  /\ vm'.reaped = vm.reaped
                  /\ vm'.problem = vm.problem /\ vm'.result = vm.result
    BY <1>1
  <1>5. CASE /\ n = 0
             /\ fds' = [fds EXCEPT !["vm"] = @ \ {Read(p)}]
             /\ vm' = [vm EXCEPT !.ready = @ \ {p}]
             /\ UNCHANGED <<pc, buffer>>
    BY <1>3, <1>5 DEF Types, LocalTypes, VMFields, ReadEnds
  <1>6. CASE n > 0 /\ p = "fail" /\ Finish("launch_failed") /\ UNCHANGED <<fds, buffer>>
    BY <1>2, <1>3, <1>6 DEF ReadFails
  <1>7. CASE n > 0 /\ p # "fail" /\ Exceeds(n) /\ Finish("output_limit") /\ UNCHANGED <<fds, buffer>>
    BY <1>3, <1>7 DEF ReadFails
  <1>8. CASE /\ n > 0 /\ p # "fail" /\ ~Exceeds(n)
             /\ buffer' = [buffer EXCEPT ![p] = @ - n]
             /\ vm' = [[vm EXCEPT !.ready = @ \ {p}] EXCEPT !.got[p] = @ + n]
             /\ UNCHANGED <<pc, fds>>
    <2>1. /\ vm' = [f \in VMFields |-> vm'[f]] /\ vm'.reaped = vm.reaped
          /\ vm'.problem = vm.problem /\ vm'.result = vm.result
          /\ vm'.ready = vm.ready \ {p}
          /\ vm'.got = [vm.got EXCEPT ![p] = vm.got[p] + n]
      BY <1>8 DEF Types, LocalTypes, VMFields
    <2>2. n \in Nat \ {0} /\ n <= buffer[p] /\ ~Exceeds(n)
      BY <1>3, <1>8
    <2> QED
      BY <1>8, <2>1, <2>2 DEF ReadMore
  <1>9. CASE Finish("error") /\ UNCHANGED <<fds, buffer>>
    BY <1>9 DEF ReadFails
  <1> QED
    BY <1>4, <1>5, <1>6, <1>7, <1>8, <1>9

\* Wait goes back to the loop, with the child reaped if it had ended.
LEMMA WaitVM ==
    ASSUME Types, Wait
    PROVE  \/ Finish("error") /\ life' = life
           \/ /\ pc' = "loop" /\ vm' = [f \in VMFields |-> vm'[f]]
              /\ vm'.reaped = (vm.reaped \/ life["child"] = "zombie")
              /\ vm'.ready = vm.ready /\ vm'.got = vm.got
              /\ vm'.problem = vm.problem /\ vm'.result = vm.result
              /\ life' = IF life["child"] = "zombie" THEN [life EXCEPT !["child"] = "gone"]
                         ELSE life
  BY DEF Types, LocalTypes, Wait, VMFields

-----------------------------------------------------------------------------
(* Types.                                                                  *)

\* The ends of the pipes, by name.
LEMMA EndNames ==
    /\ \A p \in PipeNames : Read(p) \in AllEnds /\ Write(p) \in AllEnds
    /\ \A p, o \in PipeNames : /\ Read(p) # Write(o)
                               /\ Read(p) = Read(o) => p = o
                               /\ Write(p) = Write(o) => p = o
    /\ Kept \subseteq AllEnds
  BY DEF Read, Write, AllEnds, PipeNames, Kept

\* OpenPipe opens the pipes in the order of pipes[].
LEMMA NextPipe ==
    ASSUME NEW k \in 0 .. 3, fds["vm"] = Opened(k)
    PROVE  LET p == Pipes[Cardinality({r \in ToSet(Pipes) : Read(r) \in fds["vm"]}) + 1]
           IN  /\ p = Pipes[k + 1] /\ (p = "fail" <=> k = 3)
               /\ fds["vm"] \cup {Read(p), Write(p)} = Opened(k + 1)
               /\ Opened(k + 1) \subseteq AllEnds /\ Opened(4) = AllEnds
  <1> DEFINE S == {r \in ToSet(Pipes) : Read(r) \in fds["vm"]}
  <1>1. /\ ToSet(Pipes) = PipeNames
        /\ Pipes[1] = "in" /\ Pipes[2] = "out" /\ Pipes[3] = "err" /\ Pipes[4] = "fail"
    BY DEF ToSet, Pipes, PipeNames
  <1>2. S = {Pipes[i] : i \in 1 .. k}
    BY <1>1 DEF Opened, Read, PipeNames
  <1>3. Cardinality(S) = k
    <2>1. Cardinality({}) = 0 /\ IsFiniteSet({})
      BY FS_EmptySet
    <2>2. Cardinality({"in"}) = 1 /\ IsFiniteSet({"in"})
      BY FS_Singleton
    <2>3. Cardinality({"in"} \cup {"out"}) = 2 /\ IsFiniteSet({"in"} \cup {"out"})
      BY <2>2, FS_AddElement
    <2>4. Cardinality({"in"} \cup {"out"} \cup {"err"}) = 3
      BY <2>3, FS_AddElement
    <2>5. CASE k = 0
      <3>1. S = {}
        BY <1>2, <2>5
      <3> QED
        BY <2>1, <2>5, <3>1
    <2>6. CASE k = 1
      <3>1. S = {"in"}
        BY <1>1, <1>2, <2>6
      <3> QED
        BY <2>2, <2>6, <3>1
    <2>7. CASE k = 2
      <3>1. S = {"in"} \cup {"out"}
        BY <1>1, <1>2, <2>7
      <3> QED
        BY <2>3, <2>7, <3>1
    <2>8. CASE k = 3
      <3>1. S = {"in"} \cup {"out"} \cup {"err"}
        BY <1>1, <1>2, <2>8
      <3> QED
        BY <2>4, <2>8, <3>1
    <2> QED
      BY <2>5, <2>6, <2>7, <2>8
  <1>4. Pipes[k + 1] = "fail" <=> k = 3
    BY <1>1
  <1>5. {Pipes[i] : i \in 1 .. k} \cup {Pipes[k + 1]} = {Pipes[i] : i \in 1 .. k + 1}
    BY SMT
  <1>6. fds["vm"] \cup {Read(Pipes[k + 1]), Write(Pipes[k + 1])} = Opened(k + 1)
    BY <1>5 DEF Opened, Read, Write
  <1>7. {Pipes[i] : i \in 1 .. k + 1} \subseteq PipeNames /\ {Pipes[i] : i \in 1 .. 4} = PipeNames
    BY <1>1 DEF PipeNames
  <1>8. Opened(k + 1) \subseteq AllEnds /\ Opened(4) = AllEnds
    BY <1>7 DEF Opened, AllEnds
  <1> QED
    BY <1>3, <1>4, <1>6, <1>8

\* A step that leaves the local variables of the VM alone.
LEMMA UnchangedVM ==
    ASSUME Types, vm' = vm
    PROVE  SameVM
  BY DEF Types, LocalTypes, SameVM

\* Every step keeps the types of the VM's local variables.
LEMMA LocalStep ==
    ASSUME Types, [Next]_vars
    PROVE  LocalTypes'
  <1> USE DEF Places, Early, Busy
  <1>a. ASSUME SameVM, pc' \in Places, pc' # "receive" PROVE LocalTypes'
    BY <1>a DEF SameVM, Types, LocalTypes
  <1>b. ASSUME NEW problem, Finish(problem) PROVE LocalTypes'
    BY <1>b, FinishVM DEF Types, LocalTypes
  <1>c. ASSUME NEW result, Return(result) PROVE LocalTypes'
    BY <1>c, ReturnVM DEF Types, LocalTypes
  <1>d. ASSUME UNCHANGED <<pc, vm>> PROVE LocalTypes'
    BY <1>d DEF Types, LocalTypes
  <1>e. UNCHANGED vm => SameVM
    BY UnchangedVM
  <1>1. CASE Refuse
    BY <1>1, <1>c DEF Refuse
  <1>2. CASE Prepare
    BY <1>2, <1>a, <1>c, PrepareVM
  <1>3. CASE OpenPipe
    BY <1>3, <1>a, <1>b, <1>e DEF OpenPipe
  <1>4. CASE Fork
    BY <1>4, <1>a, <1>b, <1>e DEF Fork
  <1>5. CASE Forked
    BY <1>5, <1>a, <1>b, <1>e DEF Forked
  <1>6. CASE Check
    BY <1>6, <1>a, <1>b, <1>e DEF Check
  <1>7. CASE Poll
    BY <1>7, <1>b, PollVM DEF Types, LocalTypes, PipeNames
  <1>8. CASE Send
    BY <1>8, <1>b, SendVM DEF Types, LocalTypes
  <1>9. CASE Receive
    <2>1. PICK p \in Incoming :
                \/ ReadFails(p)
                \/ /\ ReadEnds(p) \/ ReadMore(p)
                   /\ vm' = [f \in VMFields |-> vm'[f]]
                   /\ vm'.reaped = vm.reaped
      BY <1>9, ReceiveVM
    <2>2. CASE ReadFails(p)
      BY <1>b, <2>2 DEF ReadFails
    <2>3. CASE ReadEnds(p) /\ vm' = [f \in VMFields |-> vm'[f]] /\ vm'.reaped = vm.reaped
      BY <2>3 DEF Types, LocalTypes, ReadEnds
    <2>4. CASE ReadMore(p) /\ vm' = [f \in VMFields |-> vm'[f]] /\ vm'.reaped = vm.reaped
      <3>1. vm'.got \in [Outputs -> Nat]
        BY <2>4 DEF Types, LocalTypes, ReadMore, Outputs, Incoming
      <3> QED
        BY <2>4, <3>1 DEF Types, LocalTypes, ReadMore
    <2> QED
      BY <2>1, <2>2, <2>3, <2>4
  <1>10. CASE Wait
    BY <1>10, <1>b, WaitVM DEF Types, LocalTypes
  <1>11. CASE Kill
    BY <1>11, <1>a, <1>e DEF Kill
  <1>12. CASE Reap
    BY <1>12, <1>a, <1>e DEF Reap
  <1>13. CASE Close
    BY <1>13, <1>c DEF Close
  <1>14. CASE OffspringStep
    BY <1>14, <1>d DEF OffspringStep, ChildSetup, ChildExec, ChildFails, ForkHeir, ProgramStep,
       Drain, Produce, CloseInput, Leave, Exit
  <1>15. CASE Expire
    BY <1>15, <1>d DEF Expire
  <1>16. CASE UNCHANGED vars
    BY <1>16, <1>d DEF vars
  <1> QED
    BY <1>1, <1>2, <1>3, <1>4, <1>5, <1>6, <1>7, <1>8, <1>9, <1>10, <1>11, <1>12, <1>13,
       <1>14, <1>15, <1>16 DEF Next, VMStep

\* Every step keeps the types of the descriptors.
LEMMA EndsStep ==
    ASSUME Types, [Next]_vars
    PROVE  EndTypes'
  <1> DEFINE Rest == pc' \notin Early \cup {"forked"}
             Typed == fds' \in [Offspring \cup {"vm"} -> SUBSET AllEnds]
  <1> USE DEF Early
  <1>a. Rest /\ Typed => EndTypes'
    BY DEF EndTypes
  <1>b. UNCHANGED fds => Typed
    BY DEF Types, EndTypes
  <1>c. ASSUME UNCHANGED pc, Typed, fds'["vm"] = fds["vm"] PROVE EndTypes'
    BY <1>c DEF Types, EndTypes
  <1>d. \A problem : Finish(problem) => Rest
    BY DEF Finish
  <1>e. \A result : Return(result) => Rest
    BY DEF Return
  <1>1. CASE Refuse
    BY <1>1, <1>a, <1>b, <1>e DEF Refuse
  <1>2. CASE Prepare
    <2>1. CASE pc' = "pipes"
      <3>1. fds' = fds /\ fds["vm"] = {} /\ Opened(0) = {}
        BY <1>2 DEF Prepare, Types, EndTypes, Opened
      <3> QED
        BY <2>1, <3>1 DEF Types, EndTypes
    <2> QED
      BY <1>2, <1>a, <1>b, <1>e, <2>1, PrepareVM DEF Prepare
  <1>3. CASE OpenPipe
    <2>1. PICK k \in 0 .. 3 : fds["vm"] = Opened(k)
      BY <1>3 DEF OpenPipe, Types, EndTypes
    <2> DEFINE p == Pipes[Cardinality({r \in ToSet(Pipes) : Read(r) \in fds["vm"]}) + 1]
    <2>2. /\ p = "fail" <=> k = 3
          /\ fds["vm"] \cup {Read(p), Write(p)} = Opened(k + 1)
          /\ Opened(k + 1) \subseteq AllEnds /\ Opened(4) = AllEnds
      BY <2>1, NextPipe
    <2>3. /\ fds' = [fds EXCEPT !["vm"] = @ \cup {Read(p), Write(p)}] \/ fds' = fds
          /\ \/ Finish("error")
             \/ /\ fds' = [fds EXCEPT !["vm"] = @ \cup {Read(p), Write(p)}]
                /\ pc' = (IF p = "fail" THEN "fork" ELSE "pipes")
      BY <1>3 DEF OpenPipe
    <2> HIDE DEF p
    <2>4. Typed
      BY <2>2, <2>3 DEF Types, EndTypes
    <2>5. CASE /\ fds' = [fds EXCEPT !["vm"] = @ \cup {Read(p), Write(p)}]
               /\ pc' = (IF p = "fail" THEN "fork" ELSE "pipes")
      <3>1. fds'["vm"] = Opened(k + 1)
        BY <2>2, <2>5 DEF Types, EndTypes
      <3>2. CASE k = 3
        BY <2>2, <2>4, <2>5, <3>1, <3>2 DEF EndTypes
      <3>3. CASE k # 3
        <4>1. pc' = "pipes" /\ k + 1 \in 0 .. 3
          BY <2>2, <2>5, <3>3
        <4> QED
          BY <2>4, <3>1, <4>1 DEF EndTypes
      <3> QED
        BY <3>2, <3>3
    <2> QED
      BY <1>a, <1>d, <2>3, <2>4, <2>5
  <1>4. CASE Fork
    <2>1. Typed /\ fds'["vm"] = fds["vm"] /\ fds["vm"] = AllEnds
      BY <1>4 DEF Fork, Types, EndTypes, Offspring
    <2>2. Rest \/ pc' = "forked"
      BY <1>4, <1>d DEF Fork
    <2> QED
      BY <1>a, <2>1, <2>2 DEF EndTypes
  <1>5. CASE Forked
    <2>1. Typed
      BY <1>5, EndNames DEF Forked, Types, EndTypes
    <2>2. Rest
      BY <1>5, <1>d DEF Forked
    <2> QED
      BY <1>a, <2>1, <2>2
  <1>6. CASE Check
    <2>1. Typed
      BY <1>6 DEF Check, Types, EndTypes
    <2>2. Rest
      BY <1>6, <1>d DEF Check
    <2> QED
      BY <1>a, <2>1, <2>2
  <1>7. CASE Poll
    BY <1>7, <1>a, <1>b, <1>d DEF Poll
  <1>8. CASE Send
    <2>1. Typed
      BY <1>8 DEF Send, Types, EndTypes
    <2>2. Rest
      BY <1>8, <1>d DEF Send
    <2> QED
      BY <1>a, <2>1, <2>2
  <1>9. CASE Receive
    <2>1. PICK p \in Incoming : ReadFails(p) \/ ReadEnds(p) \/ ReadMore(p)
      BY <1>9, ReceiveVM
    <2>2. Typed
      BY <2>1 DEF Types, EndTypes, ReadFails, ReadEnds, ReadMore
    <2>3. Rest
      BY <1>9, <1>d, <2>1 DEF Receive, ReadFails, ReadEnds, ReadMore
    <2> QED
      BY <1>a, <2>2, <2>3
  <1>10. CASE Wait
    BY <1>10, <1>a, <1>b, <1>d DEF Wait
  <1>11. CASE Kill
    <2>1. Typed
      BY <1>11 DEF Kill, Types, EndTypes
    <2> QED
      BY <1>11, <1>a, <2>1 DEF Kill
  <1>12. CASE Reap
    BY <1>12, <1>a, <1>b DEF Reap
  <1>13. CASE Close
    <2>1. Typed
      BY <1>13 DEF Close, Types, EndTypes
    <2> QED
      BY <1>13, <1>a, <1>e, <2>1 DEF Close
  <1>14. CASE ChildSetup
    <2>1. Typed /\ fds'["vm"] = fds["vm"]
      BY <1>14, EndNames DEF ChildSetup, Types, EndTypes, Offspring, PipeNames
    <2> QED
      BY <1>14, <1>c, <2>1 DEF ChildSetup
  <1>15. CASE ChildExec
    <2>1. Typed /\ fds'["vm"] = fds["vm"]
      BY <1>15 DEF ChildExec, Types, EndTypes, Offspring
    <2> QED
      BY <1>15, <1>c, <2>1 DEF ChildExec
  <1>16. CASE ChildFails
    <2>1. Typed /\ fds'["vm"] = fds["vm"]
      BY <1>16 DEF ChildFails, Ends, Types, EndTypes, Offspring
    <2> QED
      BY <1>16, <1>c, <2>1 DEF ChildFails
  <1>17. CASE ForkHeir
    <2>1. Typed /\ fds'["vm"] = fds["vm"]
      BY <1>17 DEF ForkHeir, Types, EndTypes, Offspring
    <2> QED
      BY <1>17, <1>c, <2>1 DEF ForkHeir
  <1>18. ASSUME NEW q \in Offspring, ProgramStep(q) PROVE EndTypes'
    <2>1. Typed /\ fds'["vm"] = fds["vm"]
      BY <1>18 DEF ProgramStep, Drain, Produce, CloseInput, Leave, Exit, Ends, Types, EndTypes, Offspring
    <2>2. pc' = pc
      BY <1>18 DEF ProgramStep, Drain, Produce, CloseInput, Leave, Exit
    <2> QED
      BY <1>c, <2>1, <2>2
  <1>19. CASE Expire
    BY <1>19, <1>b, <1>c DEF Expire
  <1>20. CASE UNCHANGED vars
    BY <1>20, <1>b, <1>c DEF vars
  <1> QED
    BY <1>1, <1>2, <1>3, <1>4, <1>5, <1>6, <1>7, <1>8, <1>9, <1>10, <1>11, <1>12, <1>13,
       <1>14, <1>15, <1>16, <1>17, <1>18, <1>19, <1>20 DEF Next, VMStep, OffspringStep

\* Every step keeps the types of the pipes' contents.
LEMMA BuffersStep ==
    ASSUME Types, [Next]_vars
    PROVE  BufferTypes'
  <1>a. UNCHANGED buffer => BufferTypes'
    BY DEF Types, BufferTypes
  <1>b. ASSUME NEW p \in PipeNames, NEW n, p # "in" => n \in Nat,
               buffer' = [buffer EXCEPT ![p] = n]
        PROVE  BufferTypes'
    BY <1>b DEF Types, BufferTypes, PipeNames, Incoming
  <1>1. CASE Send
    BY <1>1, <1>a, SendVM DEF Types, BufferTypes
  <1>2. CASE Receive
    <2>1. PICK p \in Incoming : ReadFails(p) \/ ReadEnds(p) \/ ReadMore(p)
      BY <1>2, ReceiveVM
    <2>2. CASE ReadFails(p) \/ ReadEnds(p)
      BY <1>a, <2>2 DEF ReadFails, ReadEnds
    <2>3. CASE ReadMore(p)
      <3>1. PICK n \in Nat : n <= buffer[p] /\ buffer' = [buffer EXCEPT ![p] = buffer[p] - n]
        BY <2>3 DEF ReadMore
      <3>2. buffer[p] - n \in Nat /\ p \in PipeNames
        BY <3>1 DEF Types, BufferTypes, Incoming, PipeNames
      <3> QED
        BY <1>b, <3>1, <3>2
    <2> QED
      BY <2>1, <2>2, <2>3
  <1>3. CASE ChildFails
    BY <1>3, <1>a, <1>b DEF ChildFails, PipeNames
  <1>4. ASSUME NEW q \in Offspring, ProgramStep(q) PROVE BufferTypes'
    <2>1. CASE Drain(q)
      BY <1>a, <1>b, <2>1 DEF Drain, PipeNames
    <2>2. CASE Produce(q)
      <3>1. PICK o \in Outputs : UNCHANGED buffer \/ buffer' = [buffer EXCEPT ![o] = buffer[o] + 1]
        BY <2>2 DEF Produce
      <3>2. buffer[o] + 1 \in Nat /\ o \in PipeNames
        BY DEF Types, BufferTypes, Incoming, PipeNames, Outputs
      <3> QED
        BY <1>a, <1>b, <3>1, <3>2
    <2>3. CASE CloseInput(q) \/ Leave(q) \/ Exit(q)
      BY <1>a, <2>3 DEF CloseInput, Leave, Exit
    <2> QED
      BY <1>4, <2>1, <2>2, <2>3 DEF ProgramStep
  <1>5. CASE Refuse \/ Prepare \/ OpenPipe \/ Fork \/ Forked \/ Check \/ Poll
    BY <1>5, <1>a DEF Refuse, Prepare, OpenPipe, Fork, Forked, Check, Poll
  <1>6. CASE Wait \/ Kill \/ Reap \/ Close \/ ChildSetup \/ ChildExec \/ ForkHeir \/ Expire
             \/ UNCHANGED vars
    BY <1>6, <1>a DEF Wait, Kill, Reap, Close, ChildSetup, ChildExec, ForkHeir, Expire, vars
  <1> QED
    BY <1>1, <1>2, <1>3, <1>4, <1>5, <1>6 DEF Next, VMStep, OffspringStep

\* Every step keeps the types of what the programs did.
LEMMA ProgramsStep ==
    ASSUME Types, [Next]_vars
    PROVE  ProgramTypes'
  <1> USE DEF Types, ProgramTypes, Offspring, Lifes
  <1>1. CASE Refuse \/ Prepare \/ OpenPipe \/ Check \/ Poll \/ Send \/ Receive \/ Close \/ Expire
             \/ UNCHANGED vars
    <2>1. UNCHANGED programs
      BY <1>1 DEF Refuse, Prepare, OpenPipe, Check, Poll, Send, Receive, Close, Expire, programs, vars
    <2> QED
      BY <2>1 DEF programs
  <1>2. CASE Fork
    BY <1>2 DEF Fork
  <1>3. CASE Forked
    BY <1>3 DEF Forked
  <1>4. CASE Wait
    BY <1>4 DEF Wait
  <1>5. CASE Kill
    <2>1. life' \in [Offspring -> Lifes]
      BY <1>5 DEF Kill
    <2> QED
      BY <1>5, <2>1 DEF Kill
  <1>6. CASE Reap
    BY <1>6 DEF Reap
  <1>7. CASE ChildSetup
    BY <1>7 DEF ChildSetup
  <1>8. CASE ChildExec
    BY <1>8 DEF ChildExec
  <1>9. CASE ChildFails
    BY <1>9 DEF ChildFails, Ends
  <1>10. CASE ForkHeir
    BY <1>10 DEF ForkHeir
  <1>11. ASSUME NEW q \in Offspring, ProgramStep(q) PROVE ProgramTypes'
    <2>1. CASE Drain(q) \/ CloseInput(q)
      BY <2>1 DEF Drain, CloseInput
    <2>2. CASE Leave(q)
      BY <2>2 DEF Leave
    <2>3. CASE Exit(q)
      BY <2>3 DEF Exit, Ends
    <2>4. CASE Produce(q)
      BY <2>4 DEF Produce, Ends, Outputs
    <2> QED
      BY <1>11, <2>1, <2>2, <2>3, <2>4 DEF ProgramStep
  <1> QED
    BY <1>1, <1>2, <1>3, <1>4, <1>5, <1>6, <1>7, <1>8, <1>9, <1>10, <1>11
       DEF Next, VMStep, OffspringStep

\* The types hold at first.
LEMMA TypesInit ==
    ASSUME Init
    PROVE  Types
  <1>1. ToSet(Pipes) = PipeNames
    BY DEF ToSet, Pipes, PipeNames
  <1>2. LocalTypes
    BY DEF Init, LocalTypes, VMFields, Places, Early
  <1>3. EndTypes
    BY DEF Init, EndTypes, Early
  <1>4. BufferTypes
    BY <1>1 DEF Init, BufferTypes, PipeNames, Incoming
  <1>5. ProgramTypes
    BY DEF Init, ProgramTypes, Offspring, Lifes
  <1> QED
    BY <1>2, <1>3, <1>4, <1>5 DEF Types, Init

\* A call keeps its arguments and never gets time back.
LEMMA SetupKept ==
    ASSUME Types, [Next]_vars
    PROVE  setup' = setup /\ expired' \in BOOLEAN /\ (expired => expired')
  <1>1. CASE Refuse \/ Prepare \/ OpenPipe \/ Fork \/ Forked \/ Check \/ Poll
    BY <1>1 DEF Types, Refuse, Prepare, OpenPipe, Fork, Forked, Check, Poll
  <1>2. CASE Send \/ Receive \/ Wait \/ Kill \/ Reap \/ Close
    BY <1>2 DEF Types, Send, Receive, Wait, Kill, Reap, Close
  <1>3. CASE OffspringStep
    BY <1>3 DEF Types, OffspringStep, ChildSetup, ChildExec, ChildFails, ForkHeir, ProgramStep,
       Drain, Produce, CloseInput, Leave, Exit
  <1>4. CASE Expire \/ UNCHANGED vars
    BY <1>4 DEF Types, Expire, vars
  <1> QED
    BY <1>1, <1>2, <1>3, <1>4 DEF Next, VMStep

\* Every step keeps the types.
LEMMA TypesStep ==
    ASSUME Types, [Next]_vars
    PROVE  Types'
  <1>1. LocalTypes' /\ EndTypes' /\ BufferTypes' /\ ProgramTypes'
    BY LocalStep, EndsStep, BuffersStep, ProgramsStep
  <1> QED
    BY <1>1, SetupKept DEF Types

-----------------------------------------------------------------------------
(* What the call reports, by where it is.                                  *)

Problems == {"error", "clock_unavailable", "timeout", "launch_failed", "output_limit"}
Refusals == {"NULL", "out_of_range", "invalid_environment", "timeout"}

\* A problem is noted on the way to finish and nowhere else; the result is the
\* problem, Ok without one, or the reason why nothing was launched.
Course ==
    /\ pc \in Early \cup {"forked"} \cup Busy => vm.problem = "none"
    /\ pc \in {"finish", "reap"} => vm.problem \in Problems
    /\ pc \in {"close", "done"} => vm.problem \in Problems \cup {"none"}
    /\ pc # "done" => vm.result = "none"
    /\ pc = "done" =>
        \/ vm.result = IF vm.problem = "none" THEN "Ok" ELSE vm.problem
        \/ /\ vm.problem = "none" /\ vm.result \in Refusals
           /\ vm.result = "timeout" => setup.timeout = 0

\* Programs and the clock leave the VM's place, variables and descriptors alone.
LEMMA VMUntouched ==
    ASSUME Types, OffspringStep \/ Expire \/ UNCHANGED vars
    PROVE  pc' = pc /\ vm' = vm /\ fds'["vm"] = fds["vm"]
  <1>1. CASE Expire \/ UNCHANGED vars
    BY <1>1 DEF Expire, vars
  <1>2. CASE ChildSetup \/ ChildExec \/ ChildFails \/ ForkHeir
    BY <1>2 DEF ChildSetup, ChildExec, ChildFails, Ends, ForkHeir, Types, EndTypes, Offspring
  <1>3. ASSUME NEW q \in Offspring, ProgramStep(q)
        PROVE  pc' = pc /\ vm' = vm /\ fds'["vm"] = fds["vm"]
    BY <1>3 DEF ProgramStep, Drain, Produce, CloseInput, Leave, Exit, Ends, Types, EndTypes, Offspring
  <1> QED
    BY <1>1, <1>2, <1>3 DEF OffspringStep

\* What a refusal says.
LEMMA RefusalNames ==
    Refusal(setup) # "none" => /\ Refusal(setup) \in Refusals
                               /\ Refusal(setup) = "timeout" => setup.timeout = 0
  BY DEF Refusal, Refusals

\* Every step keeps the course of the call.
LEMMA CourseStep ==
    ASSUME Types, Course, [Next]_vars
    PROVE  Course'
  <1>a. setup' = setup
    BY SetupKept
  <1>b. ASSUME NEW problem \in Problems, Finish(problem), pc # "done" PROVE Course'
    BY <1>b, FinishVM DEF Course, Early, Busy
  <1>c. ASSUME NEW result \in Refusals, Return(result), pc = "start",
               result = "timeout" => setup.timeout = 0
        PROVE  Course'
    BY <1>a, <1>c, ReturnVM DEF Course, Early, Busy
  <1>d. ASSUME vm'.problem = vm.problem, vm'.result = vm.result,
               pc \in Early \cup {"forked"} \cup Busy,
               pc' \in Early \cup {"forked"} \cup Busy \cup {"close"}
        PROVE  Course'
    BY <1>d DEF Course, Early, Busy
  <1>e. UNCHANGED vm => vm'.problem = vm.problem /\ vm'.result = vm.result
    OBVIOUS
  <1>1. CASE Refuse
    BY <1>1, <1>c, RefusalNames DEF Refuse
  <1>2. CASE Prepare
    <2>1. pc = "start" /\ "NULL" \in Refusals
      BY <1>2 DEF Prepare, Refusals
    <2>2. CASE Return("NULL")
      BY <1>c, <2>1, <2>2
    <2>3. CASE SameVM /\ pc' = "pipes"
      BY <1>d, <2>1, <2>3 DEF SameVM, Early
    <2> QED
      BY <1>2, <2>2, <2>3, PrepareVM
  <1>3. CASE OpenPipe
    BY <1>3, <1>b, <1>d, <1>e DEF OpenPipe, Early, Problems
  <1>4. CASE Fork
    BY <1>4, <1>b, <1>d, <1>e DEF Fork, Early, Problems
  <1>5. CASE Forked
    BY <1>5, <1>b, <1>d, <1>e DEF Forked, Busy, Problems
  <1>6. CASE Check
    BY <1>6, <1>b, <1>d, <1>e DEF Check, Busy, Problems
  <1>7. CASE Poll
    <2>1. pc = "poll"
      BY <1>7 DEF Poll
    <2> QED
      BY <1>7, <1>b, <1>d, <2>1, PollVM DEF Busy, Problems
  <1>8. CASE Send
    <2>1. pc = "send"
      BY <1>8 DEF Send
    <2> QED
      BY <1>8, <1>b, <1>d, <2>1, SendVM DEF Busy, Problems
  <1>9. CASE Receive
    <2>1. pc = "receive"
      BY <1>9 DEF Receive
    <2>2. \/ \E problem \in Problems : Finish(problem)
          \/ pc' = pc /\ vm'.problem = vm.problem /\ vm'.result = vm.result
      BY <1>9, ReceiveVM DEF ReadFails, ReadEnds, ReadMore, Problems
    <2> QED
      BY <1>b, <1>d, <2>1, <2>2 DEF Busy
  <1>10. CASE Wait
    <2>1. pc = "receive"
      BY <1>10 DEF Wait
    <2> QED
      BY <1>10, <1>b, <1>d, <2>1, WaitVM DEF Busy, Problems
  <1>11. CASE Kill
    BY <1>11 DEF Kill, Course, Early, Busy
  <1>12. CASE Reap
    BY <1>12 DEF Reap, Course, Early, Busy
  <1>13. CASE Close
    <2>1. pc = "close" /\ Return(IF vm.problem = "none" THEN "Ok" ELSE vm.problem)
      BY <1>13 DEF Close
    <2>2. /\ pc' = "done" /\ vm'.problem = vm.problem
          /\ vm'.result = IF vm.problem = "none" THEN "Ok" ELSE vm.problem
      BY <2>1, ReturnVM
    <2> QED
      BY <2>1, <2>2 DEF Course, Early, Busy
  <1>14. CASE OffspringStep \/ Expire \/ UNCHANGED vars
    BY <1>14, <1>a, VMUntouched DEF Course
  <1> QED
    BY <1>1, <1>2, <1>3, <1>4, <1>5, <1>6, <1>7, <1>8, <1>9, <1>10, <1>11, <1>12, <1>13,
       <1>14 DEF Next, VMStep

-----------------------------------------------------------------------------
(* Who lives.                                                              *)

\* Nothing was launched.
Unstarted == /\ \A q \in Offspring : life[q] = "none" /\ fds[q] = {}
             /\ group = {}

\* The child exists from the fork on; reaped means gone; after a problem the
\* kill of finish leaves nobody of the group alive, and nobody is left to fork.
Lives ==
    /\ pc \in Early => Unstarted
    /\ pc \in {"forked"} \cup Busy => life["child"] # "none"
    /\ life["child"] = "none" => Unstarted
    /\ vm.reaped => life["child"] = "gone"
    /\ pc \in {"reap", "close", "done"} /\ vm.problem # "none" =>
            ~Alive("child") /\ \A q \in group : ~Alive(q)
    /\ pc \in {"close", "done"} => life["child"] \in {"none", "gone"}
    /\ pc = "done" => /\ fds["vm"] = {}
                      /\ vm.result = "Ok" \/ vm.problem # "none" \/ Unstarted

\* A step of the VM that leaves the programs and their descriptors alone.
LEMMA VMOnly ==
    ASSUME Types, Refuse \/ Prepare \/ OpenPipe \/ Check \/ Poll \/ Send \/ Receive \/ Close
    PROVE  /\ life' = life /\ group' = group /\ status' = status
           /\ wrote' = wrote /\ executed' = executed
           /\ \A q \in Offspring : fds'[q] = fds[q]
  <1>1. UNCHANGED programs
    BY DEF Refuse, Prepare, OpenPipe, Check, Poll, Send, Receive, Close
  <1>2. \A q \in Offspring : fds'[q] = fds[q]
    BY DEF Refuse, Prepare, OpenPipe, Check, Poll, Send, Receive, Close, Types, EndTypes, Offspring
  <1> QED
    BY <1>1, <1>2 DEF programs

\* Every step keeps Lives.
LEMMA LivesStep ==
    ASSUME Types, Course, Lives, [Next]_vars
    PROVE  Lives'
  <1> DEFINE Quiet == life' = life /\ group' = group /\ \A q \in Offspring : fds'[q] = fds[q]
  <1>a. Quiet => /\ Unstarted' <=> Unstarted
                 /\ \A q \in Offspring : Alive(q)' <=> Alive(q)
    BY DEF Unstarted, Alive
  <1>b. ASSUME Quiet, vm'.reaped = vm.reaped, pc \in Early, pc' \in Early PROVE Lives'
    BY <1>a, <1>b DEF Lives, Early, Busy
  <1>c. ASSUME Quiet, vm'.reaped = vm.reaped, pc \in {"forked"} \cup Busy, pc' \in Busy
        PROVE  Lives'
    BY <1>a, <1>c DEF Lives, Early, Busy
  <1>d. ASSUME Quiet, NEW problem, Finish(problem) PROVE Lives'
    BY <1>a, <1>d, FinishVM DEF Lives, Early, Busy
  <1>e. ASSUME Quiet, pc = "start", NEW result, Return(result), fds'["vm"] = fds["vm"] PROVE Lives'
    <2>1. pc' = "done" /\ vm'.reaped = vm.reaped /\ vm'.problem = vm.problem
      BY <1>e, ReturnVM
    <2>2. Unstarted /\ life["child"] = "none" /\ ~vm.reaped /\ vm.problem = "none"
      BY <1>e DEF Lives, Course, Early, Unstarted, Offspring
    <2>3. fds'["vm"] = {}
      BY <1>e DEF Types, EndTypes
    <2> QED
      BY <1>a, <1>e, <2>1, <2>2, <2>3 DEF Lives, Early, Busy
  <1>1. CASE Refuse
    BY <1>1, <1>e, VMOnly DEF Refuse
  <1>2. CASE Prepare
    <2>1. Quiet /\ pc = "start" /\ fds' = fds
      BY <1>2, VMOnly DEF Prepare
    <2> QED
      BY <1>2, <1>b, <1>e, <2>1, PrepareVM DEF SameVM, Early
  <1>3. CASE OpenPipe
    <2>1. Quiet
      BY <1>3, VMOnly
    <2> QED
      BY <1>3, <1>b, <1>d, <2>1 DEF OpenPipe, Early
  <1>4. CASE Fork
    <2>1. CASE Finish("error") /\ UNCHANGED <<fds, life>>
      BY <1>4, <1>d, <2>1 DEF Fork
    <2>2. CASE life' = [life EXCEPT !["child"] = "new"] /\ pc' = "forked" /\ UNCHANGED vm
      <3>1. life'["child"] = "new" /\ ~vm.reaped
        BY <1>4, <2>2 DEF Fork, Lives, Early, Unstarted, Types, ProgramTypes, Offspring
      <3> QED
        BY <2>2, <3>1 DEF Lives, Early, Busy
    <2> QED
      BY <1>4, <2>1, <2>2 DEF Fork
  <1>5. CASE Forked
    <2>1. life["child"] # "none" /\ UNCHANGED life /\ pc = "forked" /\ pc' \in {"loop", "finish"}
          /\ vm'.reaped = vm.reaped
      BY <1>5, FinishVM DEF Forked, Lives, Finish
    <2> QED
      BY <2>1 DEF Lives, Early, Busy
  <1>6. CASE Check
    <2>1. Quiet /\ pc = "loop"
      BY <1>6, VMOnly DEF Check
    <2>2. CASE ~Streaming /\ pc' = "close" /\ UNCHANGED <<vm, fds>>
      <3>1. vm.reaped /\ vm.problem = "none"
        BY <2>1, <2>2 DEF Streaming, Course, Busy
      <3> QED
        BY <1>a, <2>1, <2>2, <3>1 DEF Lives, Early, Busy
    <2>3. CASE pc' = "poll" /\ UNCHANGED vm
      BY <1>c, <2>1, <2>3 DEF Busy
    <2> QED
      BY <1>6, <1>d, <2>1, <2>2, <2>3 DEF Check
  <1>7. CASE Poll
    <2>1. Quiet /\ pc = "poll"
      BY <1>7, VMOnly DEF Poll
    <2> QED
      BY <1>7, <1>c, <1>d, <2>1, PollVM DEF Busy
  <1>8. CASE Send
    <2>1. Quiet /\ pc = "send"
      BY <1>8, VMOnly DEF Send
    <2> QED
      BY <1>8, <1>c, <1>d, <2>1, SendVM DEF Busy
  <1>9. CASE Receive
    <2>1. Quiet /\ pc = "receive"
      BY <1>9, VMOnly DEF Receive
    <2>2. (\E problem : Finish(problem)) \/ (pc' = pc /\ vm'.reaped = vm.reaped)
      <3>1. PICK p \in Incoming :
                ReadFails(p) \/ ((ReadEnds(p) \/ ReadMore(p)) /\ vm'.reaped = vm.reaped)
        BY <1>9, ReceiveVM
      <3>2. ReadFails(p) => \E problem : Finish(problem)
        BY DEF ReadFails
      <3> QED
        BY <3>1, <3>2 DEF ReadEnds, ReadMore
    <2> QED
      BY <1>c, <1>d, <2>1, <2>2 DEF Busy
  <1>10. CASE Wait
    <2>1. pc = "receive" /\ group' = group /\ fds' = fds
      BY <1>10 DEF Wait
    <2>2. CASE Finish("error") /\ life' = life
      BY <1>d, <2>1, <2>2
    <2>3. CASE /\ pc' = "loop" /\ vm'.reaped = (vm.reaped \/ life["child"] = "zombie")
               /\ life' = IF life["child"] = "zombie" THEN [life EXCEPT !["child"] = "gone"] ELSE life
      <3>1. life["child"] # "none"
        BY <2>1 DEF Lives, Busy
      <3>2. life'["child"] = IF life["child"] = "zombie" THEN "gone" ELSE life["child"]
        BY <2>3 DEF Types, ProgramTypes, Offspring
      <3>3. vm'.reaped => life'["child"] = "gone"
        BY <2>3, <3>2 DEF Lives, Types, LocalTypes
      <3> QED
        BY <2>3, <3>1, <3>2, <3>3 DEF Lives, Early, Busy
    <2> QED
      BY <1>10, <2>2, <2>3, WaitVM
  <1>11. CASE Kill
    <2>1. /\ pc = "finish" /\ pc' = "reap" /\ vm' = vm /\ group' = group
          /\ \A q \in Offspring :
                /\ life'[q] = IF q \notin Killed THEN life[q]
                              ELSE IF q = "child" THEN "zombie" ELSE "gone"
                /\ fds'[q] = IF q \in Killed THEN {} ELSE fds[q]
      BY <1>11 DEF Kill, Types, EndTypes, Offspring
    <2>2. ~Alive("child")' /\ \A q \in group' : ~Alive(q)'
      BY <2>1 DEF Killed, Alive, Lives, Types, ProgramTypes, Offspring
    <2>3. vm'.reaped => life'["child"] = "gone"
      BY <2>1 DEF Killed, Alive, Lives, Offspring
    <2>4. life'["child"] = "none" => Unstarted'
      BY <2>1 DEF Killed, Alive, Lives, Unstarted, Offspring
    <2> QED
      BY <2>1, <2>2, <2>3, <2>4 DEF Lives, Early, Busy
  <1>12. CASE Reap
    <2>1. /\ pc = "reap" /\ pc' = "close" /\ vm' = vm /\ group' = group /\ fds' = fds
          /\ ~Alive("child") /\ life'["heir"] = life["heir"]
          /\ life'["child"] = IF life["child"] = "zombie" THEN "gone" ELSE life["child"]
      BY <1>12 DEF Reap, Types, ProgramTypes, Offspring
    <2>2. life'["child"] \in {"none", "gone"}
      BY <2>1 DEF Alive, Types, ProgramTypes, Offspring, Lifes
    <2>3. ~Alive("child")' /\ (Alive("heir")' <=> Alive("heir"))
      BY <2>1, <2>2 DEF Alive
    <2>4. \A q \in group : ~Alive(q)
      BY <2>1 DEF Lives, Course, Problems
    <2>5. \A q \in group' : ~Alive(q)'
      BY <2>1, <2>3, <2>4 DEF Types, ProgramTypes, Offspring
    <2>6. life'["child"] = "none" => Unstarted'
      BY <2>1 DEF Lives, Unstarted, Offspring
    <2>7. vm'.reaped => life'["child"] = "gone"
      BY <2>1 DEF Lives
    <2> QED
      BY <2>1, <2>2, <2>3, <2>5, <2>6, <2>7 DEF Lives, Early, Busy
  <1>13. CASE Close
    <2>1. Quiet /\ pc = "close" /\ Return(IF vm.problem = "none" THEN "Ok" ELSE vm.problem)
          /\ fds'["vm"] = {}
      BY <1>13, VMOnly DEF Close, Types, EndTypes, Offspring
    <2>2. /\ pc' = "done" /\ vm'.problem = vm.problem /\ vm'.reaped = vm.reaped
          /\ vm'.result = IF vm.problem = "none" THEN "Ok" ELSE vm.problem
      BY <2>1, ReturnVM
    <2>3. vm.problem # "none" => ~Alive("child")' /\ \A q \in group' : ~Alive(q)'
      BY <1>a, <2>1 DEF Lives, Types, ProgramTypes, Offspring
    <2>4. life'["child"] = "none" => Unstarted'
      BY <1>a, <2>1 DEF Lives
    <2> QED
      BY <2>1, <2>2, <2>3, <2>4 DEF Lives, Early, Busy
  <1>14. CASE OffspringStep
    <2>1. pc' = pc /\ vm' = vm /\ fds'["vm"] = fds["vm"]
      BY <1>14, VMUntouched
    <2>2. ~Unstarted /\ life["child"] # "none" /\ life'["child"] # "none"
      BY <1>14 DEF OffspringStep, ChildSetup, ChildExec, ChildFails, ForkHeir, ProgramStep, Doing,
         Drain, Produce, CloseInput, Leave, Exit, Ends, Lives, Unstarted, Types, ProgramTypes, Offspring
    <2>3. /\ life["child"] = "gone" => life'["child"] = "gone"
          /\ ~Alive("child") => /\ ~Alive("child")' /\ group' \subseteq group
                                /\ ~Alive("heir") => ~Alive("heir")'
      BY <1>14 DEF OffspringStep, ChildSetup, ChildExec, ChildFails, ForkHeir, ProgramStep, Doing,
         Drain, Produce, CloseInput, Leave, Exit, Ends, Alive, Types, ProgramTypes, Offspring
    <2>4. /\ pc \notin Early
          /\ pc = "done" => vm.result = "Ok" \/ vm.problem # "none"
      BY <2>2 DEF Lives
    <2>5. pc \in {"reap", "close", "done"} /\ vm.problem # "none" => \A q \in group' : ~Alive(q)'
      BY <2>3 DEF Lives, Types, ProgramTypes, Offspring
    <2> QED
      BY <2>1, <2>2, <2>3, <2>4, <2>5 DEF Lives
  <1>15. CASE Expire \/ UNCHANGED vars
    BY <1>15 DEF Expire, programs, vars, Lives, Unstarted, Alive
  <1> QED
    BY <1>1, <1>2, <1>3, <1>4, <1>5, <1>6, <1>7, <1>8, <1>9, <1>10, <1>11, <1>12, <1>13,
       <1>14, <1>15 DEF Next, VMStep

\* Lives and Course hold at first.
LEMMA LivesInit ==
    ASSUME Init
    PROVE  Course /\ Lives
  BY DEF Init, Course, Lives, Unstarted, Alive, Early, Busy, Offspring

\* NothingLeft, of hc_process's finish and close: whatever goes wrong, and
\* whenever the programs take their steps, the call returns with its child
\* reaped, no pipe open and, after an error, nobody of the child's group alive.
THEOREM NothingIsLeft == Spec => []NothingLeft
  <1>1. Init => Types /\ Course /\ Lives
    BY TypesInit, LivesInit
  <1>2. Types /\ Course /\ Lives /\ [Next]_vars => (Types /\ Course /\ Lives)'
    BY TypesStep, CourseStep, LivesStep
  <1>3. Types /\ Course /\ Lives => NothingLeft
    <2> SUFFICES ASSUME Types, Course, Lives, pc = "done"
                 PROVE  /\ life["child"] \in {"none", "gone"}
                        /\ fds["vm"] = {}
                        /\ vm.result # "Ok" => \A q \in group : ~Alive(q)
      BY DEF NothingLeft
    <2>1. Unstarted => \A q \in group : ~Alive(q)
      BY DEF Unstarted
    <2> QED
      BY <2>1 DEF Lives
  <1> QED
    BY <1>1, <1>2, <1>3, PTL DEF Spec
===============================================================================
