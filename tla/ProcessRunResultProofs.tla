----------------------- MODULE ProcessRunResultProofs ------------------------
(***************************************************************************)
(* Proof that process.run reports what happened, for every set of calls,   *)
(* pipe capacity, chunk and byte limit: the outcome part of ResultIsTrue.  *)
(***************************************************************************)
EXTENDS ProcessRunProofs

-----------------------------------------------------------------------------
(* Who holds the ends of the pipes.                                        *)

\* The VM keeps no end that the child writes to.  Whoever is alive holds the
\* outputs, and the child holds pipes[3] exactly until execve.
Holds ==
    /\ pc \in Busy \/ (pc = "close" /\ vm.problem = "none") => fds["vm"] \subseteq Kept
    /\ \A q \in Offspring : IF Alive(q) THEN {Write("out"), Write("err")} \subseteq fds[q]
                            ELSE fds[q] = {}
    /\ life["child"] \in {"new", "set", "failed"} => Write("fail") \in fds["child"]
    /\ life["child"] = "running" => Write("fail") \notin fds["child"]
    /\ life["heir"] \in {"none", "running", "gone"} /\ Write("fail") \notin fds["heir"]

\* What is known of the call so far.
Before == Types /\ Course /\ Lives

\* The steps that leave life and the descriptors of the programs alone.
LEMMA HoldsQuiet ==
    ASSUME Before, Holds, life' = life, \A q \in Offspring : fds'[q] = fds[q],
           \/ pc' \notin Busy /\ (pc' = "close" => vm'.problem # "none")
           \/ fds'["vm"] \subseteq Kept
    PROVE  Holds'
  BY DEF Holds, Alive, Offspring

\* Every step keeps Holds.
LEMMA HoldsStep ==
    ASSUME Before, Holds, [Next]_vars
    PROVE  Holds'
  <1> USE DEF Before
  <1>0. /\ fds \in [Offspring \cup {"vm"} -> SUBSET AllEnds]
        /\ life \in [Offspring -> Lifes]
    BY DEF Types, EndTypes, ProgramTypes
  <1>a. \A problem : Finish(problem) => pc' = "finish"
    BY DEF Finish
  <1>b. \A result : Return(result) => pc' = "done"
    BY DEF Return
  <1>1. CASE Refuse \/ Prepare \/ OpenPipe
    <2>1. pc' \notin Busy \cup {"close"}
      BY <1>1, <1>a, <1>b DEF Refuse, Prepare, OpenPipe, Busy
    <2>2. life' = life /\ \A q \in Offspring : fds'[q] = fds[q]
      BY <1>1, VMOnly
    <2> QED
      BY <2>1, <2>2, HoldsQuiet
  <1>2. CASE Fork
    <2>1. pc' \notin Busy \cup {"close"}
      BY <1>2, <1>a DEF Fork, Busy
    <2>2. CASE UNCHANGED <<fds, life>>
      BY <2>1, <2>2, HoldsQuiet
    <2>3. CASE /\ fds' = [fds EXCEPT !["child"] = fds["vm"]]
               /\ life' = [life EXCEPT !["child"] = "new"]
      <3>1. /\ fds'["child"] = AllEnds /\ life'["child"] = "new"
            /\ fds'["heir"] = fds["heir"] /\ life'["heir"] = life["heir"]
        BY <1>0, <1>2, <2>3 DEF Fork, Types, EndTypes, Offspring
      <3>2. {Write("out"), Write("err"), Write("fail")} \subseteq AllEnds
        BY EndNames DEF PipeNames
      <3> QED
        BY <2>1, <3>1, <3>2 DEF Holds, Alive, Offspring
    <2> QED
      BY <1>2, <2>2, <2>3 DEF Fork
  <1>3. CASE Forked
    <2>1. life' = life /\ fds'["vm"] = Kept /\ \A q \in Offspring : fds'[q] = fds[q]
      BY <1>0, <1>3 DEF Forked, Offspring
    <2> QED
      BY <2>1, HoldsQuiet
  <1>4. CASE Check \/ Poll \/ Send \/ Receive \/ Close
    <2>1. life' = life /\ \A q \in Offspring : fds'[q] = fds[q]
      BY <1>4, VMOnly
    <2>2. fds'["vm"] \subseteq fds["vm"]
      BY <1>0, <1>4 DEF Check, Poll, Send, Receive, Close, Offspring
    <2>3. pc \in Busy \/ pc' = "done"
      BY <1>4, <1>b DEF Check, Poll, Send, Receive, Close, Busy
    <2>4. CASE pc \in Busy
      BY <2>1, <2>2, <2>4, HoldsQuiet DEF Holds
    <2>5. CASE pc' = "done"
      BY <2>1, <2>5, HoldsQuiet DEF Busy
    <2> QED
      BY <2>3, <2>4, <2>5
  <1>5. CASE Wait
    <2>1. /\ pc \in Busy /\ fds' = fds /\ life'["heir"] = life["heir"]
          /\ \/ life'["child"] = life["child"]
             \/ life["child"] = "zombie" /\ life'["child"] = "gone"
      BY <1>0, <1>5 DEF Wait, Busy, Offspring
    <2> QED
      BY <2>1 DEF Holds, Alive, Offspring
  <1>6. CASE Kill
    <2>1. /\ pc' = "reap"
          /\ \A q \in Offspring :
                /\ life'[q] = IF q \notin Killed THEN life[q]
                              ELSE IF q = "child" THEN "zombie" ELSE "gone"
                /\ fds'[q] = IF q \in Killed THEN {} ELSE fds[q]
      BY <1>6 DEF Kill, Types, EndTypes, Offspring
    <2>2. ASSUME NEW q \in Offspring
          PROVE  IF Alive(q)' THEN {Write("out"), Write("err")} \subseteq fds'[q] ELSE fds'[q] = {}
      BY <2>1 DEF Holds, Alive
    <2>3. /\ life'["child"] \in {"new", "set", "failed"} => Write("fail") \in fds'["child"]
          /\ life'["child"] = "running" => Write("fail") \notin fds'["child"]
          /\ life'["heir"] \in {"none", "running", "gone"} /\ Write("fail") \notin fds'["heir"]
      BY <2>1 DEF Holds, Offspring
    <2> QED
      BY <2>1, <2>2, <2>3 DEF Holds, Busy
  <1>7. CASE Reap
    <2>1. /\ vm.problem # "none" /\ vm' = vm /\ pc' = "close"
          /\ fds' = fds /\ life'["heir"] = life["heir"]
          /\ \/ life'["child"] = life["child"]
             \/ life["child"] = "zombie" /\ life'["child"] = "gone"
      BY <1>0, <1>7 DEF Reap, Course, Problems, Offspring
    <2> QED
      BY <2>1 DEF Holds, Alive, Offspring, Busy
  <1>8. CASE ChildSetup
    <2>1. /\ pc' = pc /\ vm' = vm /\ fds'["vm"] = fds["vm"]
          /\ fds'["child"] = {Read("in"), Write("out"), Write("err"), Write("fail")}
          /\ life'["child"] \in {"set", "failed"}
          /\ fds'["heir"] = fds["heir"] /\ life'["heir"] = life["heir"]
      BY <1>0, <1>8 DEF ChildSetup, Offspring
    <2> QED
      BY <2>1 DEF Holds, Alive, Offspring
  <1>9. CASE ChildExec
    <2>1. /\ pc' = pc /\ vm' = vm /\ fds'["vm"] = fds["vm"] /\ life["child"] = "set"
          /\ \/ fds'["child"] = fds["child"] \ {Write("fail")} /\ life'["child"] = "running"
             \/ fds'["child"] = fds["child"] /\ life'["child"] = "failed"
          /\ fds'["heir"] = fds["heir"] /\ life'["heir"] = life["heir"]
      BY <1>0, <1>9 DEF ChildExec, Offspring
    <2>2. Write("out") # Write("fail") /\ Write("err") # Write("fail")
      BY DEF Write
    <2> QED
      BY <2>1, <2>2 DEF Holds, Alive, Offspring
  <1>10. CASE ChildFails
    <2>1. /\ pc' = pc /\ vm' = vm /\ fds'["vm"] = fds["vm"]
          /\ \/ fds' = fds /\ life' = life
             \/ fds'["child"] = {} /\ life'["child"] = "zombie"
          /\ fds'["heir"] = fds["heir"] /\ life'["heir"] = life["heir"]
      BY <1>0, <1>10 DEF ChildFails, Ends, Offspring
    <2> QED
      BY <2>1 DEF Holds, Alive, Offspring
  <1>11. CASE ForkHeir
    <2>1. /\ pc' = pc /\ vm' = vm /\ fds'["vm"] = fds["vm"] /\ life["child"] = "running"
          /\ fds'["heir"] = fds["child"] /\ life'["heir"] = "running"
          /\ fds'["child"] = fds["child"] /\ life'["child"] = life["child"]
      BY <1>0, <1>11 DEF ForkHeir, Doing, Offspring
    <2> QED
      BY <2>1 DEF Holds, Alive, Offspring
  <1>12. ASSUME NEW q \in Offspring, ProgramStep(q) PROVE Holds'
    <2>1. /\ pc' = pc /\ vm' = vm /\ fds'["vm"] = fds["vm"] /\ life[q] = "running"
          /\ \/ fds'[q] \in {fds[q], fds[q] \ {Read("in")}} /\ life'[q] = life[q]
             \/ fds'[q] = {} /\ life'[q] = IF q = "child" THEN "zombie" ELSE "gone"
          /\ \A r \in Offspring \ {q} : fds'[r] = fds[r] /\ life'[r] = life[r]
      BY <1>0, <1>12 DEF ProgramStep, Drain, Produce, CloseInput, Leave, Exit, Ends, Doing, Offspring
    <2>2. \A p \in PipeNames : Write(p) # Read("in")
      BY EndNames DEF PipeNames
    <2>3. ASSUME NEW r \in Offspring
          PROVE  IF Alive(r)' THEN {Write("out"), Write("err")} \subseteq fds'[r] ELSE fds'[r] = {}
      BY <2>1, <2>2, <2>3 DEF Holds, Alive, PipeNames
    <2>4. /\ life'["child"] \in {"new", "set", "failed"} => Write("fail") \in fds'["child"]
          /\ life'["child"] = "running" => Write("fail") \notin fds'["child"]
          /\ life'["heir"] \in {"none", "running", "gone"} /\ Write("fail") \notin fds'["heir"]
      BY <2>1 DEF Holds, Offspring
    <2> QED
      BY <2>1, <2>3, <2>4 DEF Holds
  <1>13. CASE Expire \/ UNCHANGED vars
    BY <1>13 DEF Expire, programs, vars, Holds, Alive
  <1> QED
    BY <1>1, <1>2, <1>3, <1>4, <1>5, <1>6, <1>7, <1>8, <1>9, <1>10, <1>11, <1>12, <1>13
       DEF Next, VMStep, OffspringStep

-----------------------------------------------------------------------------
(* The streams.                                                            *)

\* Nobody can write to the pipe and it is empty.
Over(p) == ~Held(Write(p)) /\ buffer[p] = 0

\* No byte is lost: what was written has been received or is still in the pipe.
\* A pipe that poll found readable stays so until it is read, so a read of
\* nothing means the stream is over, and a stream the VM has left is over.
Streams ==
    /\ \A o \in Outputs : wrote[o] = vm.got[o] + buffer[o]
    /\ vm.got["out"] + vm.got["err"] <= setup.limit
    /\ pc \in {"send", "receive"} => \A p \in vm.ready \ {"in"} : Readable(p)
    /\ pc \in Busy => \A p \in Incoming : Read(p) \in fds["vm"] \/ Over(p)
    /\ (pc = "close" /\ vm.problem = "none") \/ vm.result = "Ok" => \A p \in Incoming : Over(p)

\* The holders of an end.
LEMMA HeldBy ==
    ASSUME NEW e
    PROVE  Held(e) <=> e \in fds["vm"] \/ e \in fds["child"] \/ e \in fds["heir"]
  BY DEF Held, Offspring

\* Once the child exists no process gets a writing end that it, or the child it
\* comes from, did not have.
LEMMA NoNewWriter ==
    ASSUME Before, Holds, [Next]_vars, pc \notin Early, NEW p \in Incoming
    PROVE  Held(Write(p))' => Held(Write(p))
  <1> USE DEF Before
  <1>0. /\ fds \in [Offspring \cup {"vm"} -> SUBSET AllEnds]
        /\ fds' \in [Offspring \cup {"vm"} -> SUBSET AllEnds]
    BY TypesStep DEF Types, EndTypes
  <1>a. Held(Write(p))' <=> \/ Write(p) \in fds'["vm"] \/ Write(p) \in fds'["child"]
                            \/ Write(p) \in fds'["heir"]
    BY DEF Held, Offspring
  <1>b. ASSUME \A q \in Offspring \cup {"vm"} : fds'[q] \subseteq fds[q] PROVE Held(Write(p))' => Held(Write(p))
    BY <1>b DEF Held
  <1>1. CASE Refuse \/ Prepare \/ OpenPipe \/ Fork
    BY <1>1 DEF Refuse, Prepare, OpenPipe, Fork, Early
  <1>2. CASE Forked
    <2>1. Write(p) \notin Kept
      BY DEF Kept, Write, Read, Incoming
    <2>2. fds'["vm"] = Kept /\ fds'["child"] = fds["child"] /\ fds'["heir"] = fds["heir"]
      BY <1>0, <1>2 DEF Forked, Offspring
    <2> QED
      BY <1>a, <2>1, <2>2, HeldBy
  <1>3. CASE Check \/ Poll \/ Send \/ Receive \/ Close
    <2>1. \A q \in Offspring \cup {"vm"} : fds'[q] \subseteq fds[q]
      BY <1>0, <1>3 DEF Check, Poll, Send, Receive, Close
    <2> QED
      BY <1>b, <2>1
  <1>4. CASE Wait \/ Reap \/ Expire \/ UNCHANGED vars
    <2>1. fds' = fds
      BY <1>4 DEF Wait, Reap, Expire, vars
    <2> QED
      BY <1>b, <2>1
  <1>5. CASE Kill
    <2>1. \A q \in Offspring \cup {"vm"} : fds'[q] \subseteq fds[q]
      BY <1>0, <1>5 DEF Kill
    <2> QED
      BY <1>b, <2>1
  <1>6. CASE ChildSetup
    <2>1. Write(p) \in fds["child"]
      BY <1>6 DEF ChildSetup, Holds, Alive, Offspring, Incoming
    <2> QED
      BY <2>1, HeldBy
  <1>7. CASE ChildExec \/ ChildFails
    <2>1. \A q \in Offspring \cup {"vm"} : fds'[q] \subseteq fds[q]
      BY <1>0, <1>7 DEF ChildExec, ChildFails, Ends
    <2> QED
      BY <1>b, <2>1
  <1>8. CASE ForkHeir
    <2>1. fds'["heir"] = fds["child"] /\ fds'["child"] = fds["child"] /\ fds'["vm"] = fds["vm"]
      BY <1>0, <1>8 DEF ForkHeir, Offspring
    <2> QED
      BY <1>a, <2>1, HeldBy
  <1>9. ASSUME NEW q \in Offspring, ProgramStep(q) PROVE Held(Write(p))' => Held(Write(p))
    <2>1. \A r \in Offspring \cup {"vm"} : fds'[r] \subseteq fds[r]
      BY <1>0, <1>9 DEF ProgramStep, Drain, Produce, CloseInput, Leave, Exit, Ends
    <2> QED
      BY <1>b, <2>1
  <1> QED
    BY <1>1, <1>2, <1>3, <1>4, <1>5, <1>6, <1>7, <1>8, <1>9 DEF Next, VMStep, OffspringStep

\* Only a holder adds to a pipe, and only Receive takes from one of the child's.
LEMMA PipeFills ==
    ASSUME Before, Holds, [Next]_vars, ~Receive, NEW p \in Incoming
    PROVE  buffer'[p] = buffer[p] \/ (buffer'[p] = buffer[p] + 1 /\ Held(Write(p)))
  <1> USE DEF Before
  <1>0. /\ buffer = [r \in PipeNames |-> buffer[r]]
        /\ \A r \in Incoming : r \in PipeNames /\ r # "in" /\ buffer[r] \in Nat
    BY DEF Types, BufferTypes, Incoming, PipeNames
  <1>1. CASE Send
    BY <1>1, SendVM
  <1>2. CASE ChildFails
    <2>1. Write("fail") \in fds["child"]
      BY <1>2 DEF ChildFails, Holds
    <2>2. buffer' = buffer \/ (buffer["fail"] = 0 /\ buffer' = [buffer EXCEPT !["fail"] = 1])
      BY <1>2 DEF ChildFails
    <2> QED
      BY <1>0, <2>1, <2>2, HeldBy
  <1>3. ASSUME NEW q \in Offspring, ProgramStep(q)
        PROVE  buffer'[p] = buffer[p] \/ (buffer'[p] = buffer[p] + 1 /\ Held(Write(p)))
    <2>1. CASE Drain(q)
      BY <1>0, <2>1 DEF Drain
    <2>2. CASE Produce(q)
      <3>1. PICK o \in Outputs : /\ Doing(q, o)
                                 /\ buffer' = buffer \/ buffer' = [buffer EXCEPT ![o] = buffer[o] + 1]
        BY <2>2 DEF Produce
      <3>2. Write(o) \in fds[q] /\ Held(Write(o))
        BY <3>1 DEF Doing, Holds, Alive, Outputs, Held
      <3> QED
        BY <1>0, <3>1, <3>2
    <2>3. CASE CloseInput(q) \/ Leave(q) \/ Exit(q)
      BY <2>3 DEF CloseInput, Leave, Exit
    <2> QED
      BY <1>3, <2>1, <2>2, <2>3 DEF ProgramStep
  <1>4. CASE Refuse \/ Prepare \/ OpenPipe \/ Fork \/ Forked \/ Check \/ Poll
    BY <1>4 DEF Refuse, Prepare, OpenPipe, Fork, Forked, Check, Poll
  <1>5. CASE Wait \/ Kill \/ Reap \/ Close \/ ChildSetup \/ ChildExec \/ ForkHeir \/ Expire
             \/ UNCHANGED vars
    BY <1>5 DEF Wait, Kill, Reap, Close, ChildSetup, ChildExec, ForkHeir, Expire, vars
  <1> QED
    BY <1>1, <1>2, <1>3, <1>4, <1>5 DEF Next, VMStep, OffspringStep

\* A stream that is over stays over, and a readable pipe readable until Receive.
LEMMA OverStays ==
    ASSUME Before, Holds, [Next]_vars, ~Receive, pc \notin Early, NEW p \in Incoming
    PROVE  (Over(p) => Over(p)') /\ (Readable(p) => Readable(p)')
  <1>1. buffer[p] \in Nat
    BY DEF Before, Types, BufferTypes
  <1>2. Held(Write(p))' => Held(Write(p))
    BY NoNewWriter
  <1>3. buffer'[p] = buffer[p] \/ (buffer'[p] = buffer[p] + 1 /\ Held(Write(p)))
    BY PipeFills
  <1>4. Over(p)' <=> ~Held(Write(p))' /\ buffer'[p] = 0
    BY DEF Over
  <1>5. Readable(p)' <=> buffer'[p] > 0 \/ ~Held(Write(p))'
    BY DEF Readable
  <1> QED
    BY <1>1, <1>2, <1>3, <1>4, <1>5 DEF Over, Readable

\* Only Receive changes what the VM has got.
LEMMA GotKept ==
    ASSUME Before, [Next]_vars, ~Receive
    PROVE  vm'.got = vm.got
  <1> USE DEF Before
  <1>a. \A problem : Finish(problem) => vm'.got = vm.got
    BY FinishVM
  <1>b. \A result : Return(result) => vm'.got = vm.got
    BY ReturnVM
  <1>1. CASE Refuse \/ OpenPipe \/ Fork \/ Forked \/ Check
    BY <1>1, <1>a, <1>b DEF Refuse, OpenPipe, Fork, Forked, Check
  <1>2. CASE Prepare
    BY <1>2, <1>b, PrepareVM DEF SameVM
  <1>3. CASE Poll
    BY <1>3, <1>a, PollVM
  <1>4. CASE Send
    BY <1>4, <1>a, SendVM
  <1>5. CASE Wait
    BY <1>5, <1>a, WaitVM
  <1>6. CASE Kill \/ Reap \/ Close
    BY <1>6, <1>b DEF Kill, Reap, Close
  <1>7. CASE OffspringStep \/ Expire \/ UNCHANGED vars
    BY <1>7, VMUntouched
  <1> QED
    BY <1>1, <1>2, <1>3, <1>4, <1>5, <1>6, <1>7 DEF Next, VMStep

\* What a step writes to an output goes into its pipe.
LEMMA WroteIntoPipe ==
    ASSUME Before, Holds, [Next]_vars, ~Receive, NEW o \in Outputs
    PROVE  \/ wrote'[o] = wrote[o] /\ buffer'[o] = buffer[o]
           \/ wrote'[o] = wrote[o] + 1 /\ buffer'[o] = buffer[o] + 1
  <1> USE DEF Before
  <1>0. /\ buffer = [r \in PipeNames |-> buffer[r]] /\ wrote \in [Outputs -> Nat]
        /\ \A r \in Outputs : r \in PipeNames /\ r # "in" /\ r # "fail" /\ r \in Incoming
    BY DEF Types, BufferTypes, ProgramTypes, Incoming, PipeNames, Outputs
  <1>1. CASE Send
    BY <1>0, <1>1, SendVM, VMOnly
  <1>2. CASE ChildFails
    BY <1>0, <1>2 DEF ChildFails
  <1>3. ASSUME NEW q \in Offspring, ProgramStep(q)
        PROVE  \/ wrote'[o] = wrote[o] /\ buffer'[o] = buffer[o]
               \/ wrote'[o] = wrote[o] + 1 /\ buffer'[o] = buffer[o] + 1
    <2>1. CASE Drain(q)
      BY <1>0, <2>1 DEF Drain
    <2>2. CASE Produce(q)
      <3>1. PICK r \in Outputs : \/ UNCHANGED <<buffer, wrote>>
                                 \/ /\ buffer' = [buffer EXCEPT ![r] = buffer[r] + 1]
                                    /\ wrote' = [wrote EXCEPT ![r] = wrote[r] + 1]
        BY <2>2 DEF Produce
      <3> QED
        BY <1>0, <3>1
    <2>3. CASE CloseInput(q) \/ Leave(q) \/ Exit(q)
      BY <2>3 DEF CloseInput, Leave, Exit
    <2> QED
      BY <1>3, <2>1, <2>2, <2>3 DEF ProgramStep
  <1>4. CASE Refuse \/ Prepare \/ OpenPipe \/ Check \/ Poll \/ Close
    <2>1. wrote' = wrote
      BY <1>4, VMOnly
    <2>2. buffer' = buffer
      BY <1>4 DEF Refuse, Prepare, OpenPipe, Check, Poll, Close
    <2> QED
      BY <2>1, <2>2
  <1>5. CASE Fork \/ Forked \/ Wait \/ Kill \/ Reap
    BY <1>5 DEF Fork, Forked, Wait, Kill, Reap
  <1>6. CASE ChildSetup \/ ChildExec \/ ForkHeir \/ Expire \/ UNCHANGED vars
    BY <1>6 DEF ChildSetup, ChildExec, ForkHeir, Expire, programs, vars
  <1> QED
    BY <1>1, <1>2, <1>3, <1>4, <1>5, <1>6 DEF Next, VMStep, OffspringStep

\* A call is allowed a number of bytes.
LEMMA LimitNumber ==
    ASSUME Before
    PROVE  setup.limit \in Nat
  BY ProcessAssumption DEF Before, Types, SetupOK

\* Every step keeps Streams.
LEMMA StreamsStep ==
    ASSUME Before, Holds, Streams, [Next]_vars
    PROVE  Streams'
  <1>0. /\ vm.got \in [Outputs -> Nat] /\ setup' = setup /\ setup.limit \in Nat
        /\ \A p \in Incoming : buffer[p] \in Nat
        /\ fds \in [Offspring \cup {"vm"} -> SUBSET AllEnds]
    BY LimitNumber, SetupKept DEF Before, Types, LocalTypes, BufferTypes, EndTypes
  <1> DEFINE Sums == /\ \A o \in Outputs : wrote[o] = vm.got[o] + buffer[o]
                     /\ vm.got["out"] + vm.got["err"] <= setup.limit
             Left(p) == Read(p) \in fds["vm"] \/ Over(p)
  <1>1. CASE Receive
    <2>1. PICK p \in Incoming :
                /\ p \in vm.ready
                /\ \/ ReadFails(p)
                   \/ /\ ReadEnds(p) \/ ReadMore(p)
                      /\ vm'.problem = vm.problem /\ vm'.result = vm.result
      BY <1>1, ReceiveVM DEF Before
    <2>2. pc = "receive" /\ vm.result = "none" /\ wrote' = wrote /\ Readable(p) /\ p # "in"
      BY <1>1, <2>1, VMOnly DEF Receive, Before, Course, Streams, Busy, Incoming
    <2>3. CASE ReadFails(p)
      <3>1. /\ fds' = fds /\ buffer' = buffer /\ pc' = "finish"
            /\ vm'.got = vm.got /\ vm'.result = vm.result
        BY <2>3, FinishVM DEF ReadFails, Before
      <3> QED
        BY <1>0, <2>2, <3>1 DEF Streams, Busy
    <2>4. CASE ReadEnds(p) /\ vm'.result = vm.result
      <3>1. /\ buffer' = buffer /\ pc' = "receive" /\ vm'.got = vm.got
            /\ vm'.ready = vm.ready \ {p} /\ buffer[p] = 0
            /\ fds' = [fds EXCEPT !["vm"] = fds["vm"] \ {Read(p)}]
        BY <2>2, <2>4 DEF ReadEnds
      <3>2. \A r \in Incoming : Held(Write(r))' => Held(Write(r))
        BY <2>2, NoNewWriter DEF Early
      <3>3. Sums'
        BY <1>0, <2>2, <3>1 DEF Streams
      <3>4. \A r \in vm'.ready \ {"in"} : r \in Incoming /\ Readable(r)
        BY <2>2, <3>1 DEF Streams, Before, Types, LocalTypes, Incoming, PipeNames
      <3>5. \A r \in vm'.ready \ {"in"} : Readable(r)'
        BY <3>1, <3>2, <3>4 DEF Readable
      <3>6. ASSUME NEW r \in Incoming PROVE Left(r)'
        <4>1. Read(r) \in fds["vm"] \/ Over(r)
          BY <2>2 DEF Streams, Busy
        <4>2. Over(r) => Over(r)'
          BY <3>1, <3>2 DEF Over
        <4>3. r = p => Over(r)
          BY <1>0, <2>2, <3>1 DEF Readable, Over
        <4>4. r # p /\ Read(r) \in fds["vm"] => Read(r) \in fds'["vm"]
          BY <1>0, <3>1 DEF Read
        <4> QED
          BY <4>1, <4>2, <4>3, <4>4
      <3> QED
        BY <2>2, <2>4, <3>1, <3>3, <3>5, <3>6 DEF Streams
    <2>5. CASE ReadMore(p) /\ vm'.result = vm.result
      <3>1. /\ fds' = fds /\ pc' = "receive" /\ vm'.ready = vm.ready \ {p} /\ p \in Outputs
        BY <2>2, <2>5 DEF ReadMore, Incoming, Outputs
      <3>2. PICK n \in Nat \ {0} :
                /\ n <= buffer[p] /\ ~Exceeds(n)
                /\ buffer' = [buffer EXCEPT ![p] = buffer[p] - n]
                /\ vm'.got = [vm.got EXCEPT ![p] = vm.got[p] + n]
        BY <2>5 DEF ReadMore
      <3>3. \A r \in Incoming : buffer'[r] = IF r = p THEN buffer[p] - n ELSE buffer[r]
        BY <3>2 DEF Before, Types, BufferTypes, Incoming, PipeNames
      <3>4. \A o \in Outputs : vm'.got[o] = IF o = p THEN vm.got[p] + n ELSE vm.got[o]
        BY <1>0, <3>2
      <3>5. Sums'
        <4>1. \A o \in Outputs : o \in Incoming /\ wrote[o] = vm.got[o] + buffer[o]
          BY DEF Streams, Outputs, Incoming
        <4>2. \A o \in Outputs : wrote'[o] = vm'.got[o] + buffer'[o]
          BY <1>0, <2>2, <3>2, <3>3, <3>4, <4>1
        <4>3. vm'.got["out"] + vm'.got["err"] <= setup.limit
          BY <1>0, <3>1, <3>2, <3>4 DEF Exceeds, Outputs
        <4> QED
          BY <1>0, <4>2, <4>3
      <3>6. \A r \in vm'.ready \ {"in"} : r \in Incoming /\ r # p /\ Readable(r)
        BY <2>2, <3>1 DEF Streams, Before, Types, LocalTypes, Incoming, PipeNames
      <3>7. \A r \in vm'.ready \ {"in"} : Readable(r)'
        BY <3>1, <3>3, <3>6 DEF Readable, Held
      <3>8. ASSUME NEW r \in Incoming PROVE Left(r)'
        <4>1. Read(r) \in fds["vm"] \/ Over(r)
          BY <2>2 DEF Streams, Busy
        <4>2. Over(r) => r # p
          BY <1>0, <3>2 DEF Over
        <4>3. r # p /\ Over(r) => Over(r)'
          BY <3>1, <3>3 DEF Over, Held
        <4> QED
          BY <3>1, <4>1, <4>2, <4>3
      <3> QED
        BY <2>2, <2>5, <3>1, <3>5, <3>7, <3>8 DEF Streams
    <2> QED
      BY <2>1, <2>3, <2>4, <2>5
  <1>2. CASE ~Receive
    <2>1. Sums'
      <3>1. vm'.got = vm.got
        BY <1>2, GotKept
      <3>2. \A o \in Outputs : wrote'[o] = vm'.got[o] + buffer'[o]
        <4> SUFFICES ASSUME NEW o \in Outputs PROVE wrote'[o] = vm'.got[o] + buffer'[o]
          OBVIOUS
        <4>1. wrote[o] = vm.got[o] + buffer[o] /\ buffer[o] \in Nat /\ vm.got[o] \in Nat
          BY <1>0 DEF Streams, Outputs, Incoming
        <4> QED
          BY <1>2, <3>1, <4>1, WroteIntoPipe
      <3> QED
        BY <1>0, <3>1, <3>2 DEF Streams
    <2>2. pc \notin Early => \A p \in Incoming : (Over(p) => Over(p)') /\ (Readable(p) => Readable(p)')
      BY <1>2, OverStays
    <2>a. ASSUME pc' \notin Busy, pc' = "close" => vm'.problem # "none", vm'.result # "Ok" PROVE Streams'
      BY <2>1, <2>a DEF Streams, Busy
    <2>b. ASSUME NEW problem, Finish(problem), pc # "done" PROVE Streams'
      <3>1. pc' = "finish" /\ vm'.result = "none"
        BY <2>b, FinishVM DEF Before, Course
      <3> QED
        BY <2>a, <3>1 DEF Busy
    <2>c. ASSUME NEW result, Return(result), result # "Ok" PROVE Streams'
      <3>1. pc' = "done" /\ vm'.result = result
        BY <2>c, ReturnVM DEF Before
      <3> QED
        BY <2>a, <2>c, <3>1 DEF Busy
    <2>3. CASE Refuse
      BY <2>3, <2>c, RefusalNames DEF Refuse, Refusals
    <2>4. CASE Prepare
      <3>1. pc = "start"
        BY <2>4 DEF Prepare
      <3>2. CASE SameVM /\ pc' = "pipes"
        <4>1. vm'.result = "none"
          BY <3>1, <3>2 DEF Before, Course, SameVM
        <4> QED
          BY <2>a, <3>2, <4>1 DEF Busy
      <3> QED
        BY <2>4, <2>c, <3>2, PrepareVM DEF Before
    <2>5. CASE OpenPipe \/ Fork
      <3>1. CASE pc' \in {"pipes", "fork", "forked"} /\ vm' = vm
        <4>1. vm'.result = "none"
          BY <2>5, <3>1 DEF OpenPipe, Fork, Before, Course
        <4> QED
          BY <2>a, <3>1, <4>1 DEF Busy
      <3> QED
        BY <2>5, <2>b, <3>1 DEF OpenPipe, Fork
    <2>6. CASE Forked
      <3>1. CASE pc' = "loop" /\ UNCHANGED vm
        <4>1. vm.result = "none" /\ fds'["vm"] = Kept
          BY <1>0, <2>6 DEF Forked, Before, Course
        <4>2. \A p \in Incoming : Read(p) \in Kept
          BY DEF Kept, Incoming
        <4> QED
          BY <2>1, <3>1, <4>1, <4>2 DEF Streams
      <3> QED
        BY <2>6, <2>b, <3>1 DEF Forked
    <2>7. CASE Check
      <3>1. pc = "loop" /\ vm.result = "none" /\ vm.problem = "none"
        BY <2>7 DEF Check, Before, Course, Busy
      <3>2. \A p \in Incoming : Left(p)
        BY <3>1 DEF Streams, Busy
      <3>3. CASE ~Streaming /\ pc' = "close" /\ UNCHANGED <<vm, fds>>
        <4>1. \A p \in Incoming : Over(p)'
          BY <2>2, <3>1, <3>2, <3>3 DEF Streaming, Incoming, Early
        <4> QED
          BY <2>1, <3>3, <4>1 DEF Streams, Busy
      <3>4. CASE pc' = "poll" /\ UNCHANGED vm
        <4>1. \A p \in Incoming : Read(p) \in fds["vm"] => Read(p) \in fds'["vm"]
          BY <1>0, <2>7 DEF Check, Read, Write
        <4>2. \A p \in Incoming : Left(p)'
          BY <2>2, <3>1, <3>2, <4>1 DEF Early
        <4> QED
          BY <2>1, <3>1, <3>4, <4>2 DEF Streams
      <3> QED
        BY <2>7, <2>b, <3>1, <3>3, <3>4 DEF Check
    <2>8. CASE Poll
      <3>1. pc = "poll" /\ vm.result = "none" /\ fds' = fds
        BY <2>8 DEF Poll, Before, Course
      <3>2. \A p \in Incoming : Left(p)'
        BY <2>2, <3>1 DEF Streams, Busy, Early
      <3>3. CASE /\ pc' = "send" /\ vm'.result = vm.result
                 /\ vm'.ready = {p \in {"in"} : Write(p) \in fds["vm"] /\ Writable}
                       \cup {p \in {"out", "err", "fail"} : Read(p) \in fds["vm"] /\ Readable(p)}
        <4>1. \A p \in vm'.ready \ {"in"} : Readable(p)'
          BY <2>2, <3>1, <3>3 DEF Incoming, Early
        <4> QED
          BY <2>1, <3>1, <3>2, <3>3, <4>1 DEF Streams
      <3> QED
        BY <2>8, <2>b, <3>1, <3>3, PollVM DEF Before
    <2>9. CASE Send
      <3>1. pc = "send" /\ vm.result = "none"
        BY <2>9 DEF Send, Before, Course
      <3>2. CASE /\ pc' = "receive" /\ vm'.ready = vm.ready \ {"in"} /\ vm'.result = vm.result
                 /\ fds' = fds \/ fds' = [fds EXCEPT !["vm"] = fds["vm"] \ {Write("in")}]
        <4>1. \A p \in Incoming : Read(p) \in fds["vm"] => Read(p) \in fds'["vm"]
          BY <1>0, <3>2 DEF Read, Write
        <4>2. \A p \in Incoming : Left(p)'
          BY <2>2, <3>1, <4>1 DEF Streams, Busy, Early
        <4>3. \A p \in vm'.ready \ {"in"} : p \in Incoming /\ Readable(p)
          BY <3>1, <3>2 DEF Streams, Before, Types, LocalTypes, PipeNames, Incoming
        <4>4. \A p \in vm'.ready \ {"in"} : Readable(p)'
          BY <2>2, <3>1, <4>3 DEF Early
        <4> QED
          BY <2>1, <3>1, <3>2, <4>2, <4>4 DEF Streams
      <3> QED
        BY <2>9, <2>b, <3>1, <3>2, SendVM DEF Before
    <2>10. CASE Wait
      <3>1. pc = "receive" /\ vm.result = "none" /\ fds' = fds
        BY <2>10 DEF Wait, Before, Course
      <3>2. \A p \in Incoming : Left(p)'
        BY <2>2, <3>1 DEF Streams, Busy, Early
      <3>3. CASE pc' = "loop" /\ vm'.result = vm.result
        BY <2>1, <3>1, <3>2, <3>3 DEF Streams
      <3> QED
        BY <2>10, <2>b, <3>1, <3>3, WaitVM DEF Before
    <2>11. CASE Kill \/ Reap
      <3>1. /\ pc \in {"finish", "reap"} /\ pc' \in {"reap", "close"} /\ vm' = vm
            /\ vm.result = "none" /\ vm.problem # "none"
        BY <2>11 DEF Kill, Reap, Before, Course, Problems
      <3> QED
        BY <2>a, <3>1 DEF Busy
    <2>12. CASE Close
      <3>1. pc = "close" /\ Return(IF vm.problem = "none" THEN "Ok" ELSE vm.problem)
        BY <2>12 DEF Close
      <3>2. pc' = "done" /\ vm'.result = IF vm.problem = "none" THEN "Ok" ELSE vm.problem
        BY <3>1, ReturnVM DEF Before
      <3>3. CASE vm.problem = "none"
        <4>1. \A p \in Incoming : Over(p)'
          BY <2>2, <3>1, <3>3 DEF Streams, Early
        <4> QED
          BY <2>1, <3>2, <4>1 DEF Streams, Busy
      <3>4. CASE vm.problem # "none"
        BY <2>c, <3>1, <3>4 DEF Before, Course, Problems
      <3> QED
        BY <3>3, <3>4
    <2>13. CASE OffspringStep \/ Expire \/ UNCHANGED vars
      <3>1. pc' = pc /\ vm' = vm /\ fds'["vm"] = fds["vm"]
        BY <2>13, VMUntouched DEF Before
      <3>2. pc \in Busy => \A p \in Incoming : Left(p)'
        BY <2>2, <3>1 DEF Streams, Busy, Early
      <3>3. pc \in {"send", "receive"} => \A p \in vm.ready \ {"in"} : Readable(p)'
        BY <2>2 DEF Streams, Early, Before, Types, LocalTypes, PipeNames, Incoming
      <3>4. (pc = "close" /\ vm.problem = "none") \/ vm.result = "Ok" => \A p \in Incoming : Over(p)'
        <4>1. vm.result = "Ok" => pc = "done"
          BY DEF Before, Course
        <4> QED
          BY <2>2, <4>1 DEF Streams, Early
      <3> QED
        BY <2>1, <3>1, <3>2, <3>3, <3>4 DEF Streams
    <2> QED
      BY <1>2, <2>3, <2>4, <2>5, <2>6, <2>7, <2>8, <2>9, <2>10, <2>11, <2>12, <2>13
         DEF Next, VMStep
  <1> QED
    BY <1>1, <1>2

-----------------------------------------------------------------------------
(* The outcome.                                                            *)

\* execve decides between executed and a message in pipes[3], never both, and an
\* end of the child by itself comes after one of them; each problem that is
\* reported has its cause.
Outcome ==
    /\ executed => life["child"] \in {"running", "zombie", "gone"}
    /\ life["child"] = "running" => executed
    /\ buffer["fail"] > 0 => ~executed /\ life["child"] \in {"failed", "zombie", "gone"}
    /\ vm.problem = "none" /\ life["child"] \in {"zombie", "gone"} => executed \/ buffer["fail"] > 0
    /\ life["child"] \in {"zombie", "gone"} => status \in {"exit", "signal"}
    /\ vm.problem = "launch_failed" => buffer["fail"] > 0
    /\ vm.problem = "output_limit" => wrote["out"] + wrote["err"] > setup.limit
    /\ vm.problem = "timeout" => expired
    /\ pc = "close" /\ vm.problem = "none" => life["child"] = "gone"
    /\ vm.result = "Ok" => life["child"] = "gone"

\* The part about the child of Outcome.
LEMMA ChildOutcome ==
    ASSUME Before, Holds, Outcome, [Next]_vars
    PROVE  /\ executed' => life'["child"] \in {"running", "zombie", "gone"}
           /\ life'["child"] = "running" => executed'
           /\ buffer'["fail"] > 0 => ~executed' /\ life'["child"] \in {"failed", "zombie", "gone"}
           /\ vm'.problem = "none" /\ life'["child"] \in {"zombie", "gone"} =>
                    executed' \/ buffer'["fail"] > 0
           /\ life'["child"] \in {"zombie", "gone"} => status' \in {"exit", "signal"}
           /\ buffer["fail"] > 0 => buffer'["fail"] > 0
  <1> DEFINE Facts == /\ executed' => life'["child"] \in {"running", "zombie", "gone"}
                      /\ life'["child"] = "running" => executed'
                      /\ buffer'["fail"] > 0 => ~executed' /\ life'["child"] \in {"failed", "zombie", "gone"}
                      /\ vm'.problem = "none" /\ life'["child"] \in {"zombie", "gone"} =>
                              executed' \/ buffer'["fail"] > 0
                      /\ life'["child"] \in {"zombie", "gone"} => status' \in {"exit", "signal"}
                      /\ buffer["fail"] > 0 => buffer'["fail"] > 0
  <1> SUFFICES Facts
    OBVIOUS
  <1>0. /\ life \in [Offspring -> Lifes] /\ executed \in BOOLEAN
        /\ buffer = [r \in PipeNames |-> buffer[r]] /\ buffer["fail"] \in Nat
        /\ fds \in [Offspring \cup {"vm"} -> SUBSET AllEnds]
    BY DEF Before, Types, ProgramTypes, BufferTypes, EndTypes, Incoming
  <1>a. ASSUME life'["child"] = life["child"], executed' = executed, status' = status,
               buffer'["fail"] = buffer["fail"], vm.problem = "none" \/ vm'.problem = vm.problem
        PROVE  Facts
    BY <1>a DEF Outcome
  <1>b. vm.problem = "none" \/ vm'.problem = vm.problem
    <2>1. pc \in Early \cup {"forked"} \cup Busy => vm.problem = "none"
      BY DEF Before, Course
    <2>2. CASE Kill \/ Reap
      BY <2>2 DEF Kill, Reap
    <2>3. CASE Close
      BY <2>3, ReturnVM DEF Close, Before
    <2>4. CASE OffspringStep \/ Expire \/ UNCHANGED vars
      BY <2>4, VMUntouched DEF Before
    <2> QED
      BY <2>1, <2>2, <2>3, <2>4 DEF Next, VMStep, Refuse, Prepare, OpenPipe, Fork, Forked, Check, Poll,
         Send, Receive, Wait, Early, Busy
  <1>1. CASE Refuse \/ Prepare \/ OpenPipe \/ Check \/ Poll \/ Send \/ Receive \/ Close
    <2>1. life' = life /\ executed' = executed /\ status' = status
      BY <1>1, VMOnly DEF Before
    <2>2. buffer'["fail"] = buffer["fail"]
      <3>1. CASE Send
        BY <3>1, SendVM DEF Before, Incoming
      <3>2. CASE Receive
        <4>1. PICK p \in Incoming : ReadFails(p) \/ ReadEnds(p) \/ ReadMore(p)
          BY <3>2, ReceiveVM DEF Before
        <4> QED
          BY <1>0, <4>1 DEF ReadFails, ReadEnds, ReadMore, PipeNames
      <3> QED
        BY <1>1, <3>1, <3>2 DEF Refuse, Prepare, OpenPipe, Check, Poll, Close
    <2> QED
      BY <1>a, <1>b, <2>1, <2>2
  <1>2. CASE Fork
    <2>1. /\ life["child"] = "none" /\ life'["child"] \in {"none", "new"}
          /\ executed' = executed /\ buffer' = buffer
      BY <1>0, <1>2 DEF Fork, Before, Lives, Early, Unstarted, Offspring
    <2> QED
      BY <2>1 DEF Outcome
  <1>3. CASE Forked \/ Expire \/ UNCHANGED vars
    <2>1. life' = life /\ executed' = executed /\ status' = status /\ buffer' = buffer
      BY <1>3 DEF Forked, Expire, programs, vars
    <2> QED
      BY <1>a, <1>b, <2>1
  <1>4. CASE Wait \/ Reap
    <2>1. /\ executed' = executed /\ status' = status /\ buffer' = buffer
          /\ \/ life'["child"] = life["child"]
             \/ life["child"] = "zombie" /\ life'["child"] = "gone"
      BY <1>0, <1>4 DEF Wait, Reap, Offspring
    <2> QED
      BY <1>a, <1>b, <2>1 DEF Outcome
  <1>5. CASE Kill
    <2>1. /\ executed' = executed /\ buffer' = buffer /\ vm' = vm /\ vm.problem # "none"
          /\ \/ life'["child"] = life["child"] /\ status' = status
             \/ life'["child"] = "zombie" /\ status' = "signal"
      BY <1>5 DEF Kill, Before, Course, Problems, Offspring
    <2> QED
      BY <2>1 DEF Outcome
  <1>6. CASE ChildSetup
    <2>1. /\ executed' = executed /\ buffer' = buffer /\ life["child"] = "new"
          /\ life'["child"] \in {"set", "failed"}
      BY <1>0, <1>6 DEF ChildSetup, Offspring
    <2> QED
      BY <2>1 DEF Outcome
  <1>7. CASE ChildExec
    <2>1. /\ buffer' = buffer /\ life["child"] = "set"
          /\ \/ life'["child"] = "running" /\ executed'
             \/ life'["child"] = "failed" /\ executed' = executed
      BY <1>0, <1>7 DEF ChildExec, Offspring
    <2> QED
      BY <2>1 DEF Outcome
  <1>8. CASE ChildFails
    <2>1. /\ executed' = executed /\ life["child"] = "failed"
          /\ \/ buffer["fail"] = 0 /\ buffer'["fail"] = 1 /\ life' = life
             \/ /\ buffer["fail"] # 0 /\ buffer' = buffer
                /\ life'["child"] = "zombie" /\ status' = "exit"
      BY <1>0, <1>8 DEF ChildFails, Ends, Offspring, PipeNames
    <2> QED
      BY <1>0, <2>1 DEF Outcome
  <1>9. CASE ForkHeir
    <2>1. life'["child"] = life["child"] /\ executed' = executed /\ status' = status /\ buffer' = buffer
      BY <1>0, <1>9 DEF ForkHeir, Offspring
    <2> QED
      BY <1>a, <1>b, <2>1
  <1>10. ASSUME NEW q \in Offspring, ProgramStep(q) PROVE Facts
    <2>1. buffer'["fail"] = buffer["fail"] /\ executed' = executed /\ vm' = vm
      BY <1>0, <1>10 DEF ProgramStep, Drain, Produce, CloseInput, Leave, Exit, Outputs, PipeNames
    <2>2. \/ life'["child"] = life["child"] /\ status' = status
          \/ life["child"] = "running" /\ life'["child"] = "zombie" /\ status' \in {"exit", "signal"}
      BY <1>0, <1>10 DEF ProgramStep, Drain, Produce, CloseInput, Leave, Exit, Ends, Doing, Offspring
    <2> QED
      BY <1>a, <2>1, <2>2 DEF Outcome
  <1> QED
    BY <1>1, <1>2, <1>3, <1>4, <1>5, <1>6, <1>7, <1>8, <1>9, <1>10 DEF Next, VMStep, OffspringStep

\* A problem that a step notes has its cause when it is noted.
LEMMA ProblemCaused ==
    ASSUME Before, Holds, Streams, [Next]_vars, vm'.problem # vm.problem
    PROVE  /\ vm'.problem = "launch_failed" => buffer["fail"] > 0
           /\ vm'.problem = "output_limit" => wrote["out"] + wrote["err"] > setup.limit
           /\ vm'.problem = "timeout" => expired
  <1>a. ASSUME NEW problem, Finish(problem) PROVE vm'.problem = problem
    BY <1>a, FinishVM DEF Before
  <1>b. \A result : ~Return(result)
    BY ReturnVM DEF Before
  <1>1. CASE Refuse \/ OpenPipe \/ Fork \/ Forked
    BY <1>1, <1>a, <1>b DEF Refuse, OpenPipe, Fork, Forked
  <1>2. CASE Prepare
    BY <1>2, <1>b, PrepareVM DEF SameVM, Before
  <1>3. CASE Check
    BY <1>3, <1>a DEF Check
  <1>4. CASE Poll
    BY <1>4, <1>a, PollVM DEF Before
  <1>5. CASE Send
    BY <1>5, <1>a, SendVM DEF Before
  <1>6. CASE Receive
    <2>1. PICK p \in Incoming : ReadFails(p)
      BY <1>6, ReceiveVM DEF Before
    <2>2. CASE Finish("launch_failed") /\ buffer["fail"] > 0
      BY <1>a, <2>2
    <2>3. CASE Finish("output_limit") /\ p # "fail" /\ \E n \in Nat : n <= buffer[p] /\ Exceeds(n)
      <3>1. PICK n \in Nat : n <= buffer[p] /\ vm.got["out"] + vm.got["err"] + n > setup.limit
        BY <2>3 DEF Exceeds
      <3>2. /\ buffer["out"] \in Nat /\ buffer["err"] \in Nat /\ setup.limit \in Nat
            /\ vm.got["out"] \in Nat /\ vm.got["err"] \in Nat /\ p \in {"out", "err"}
        BY <2>3, LimitNumber DEF Before, Types, BufferTypes, LocalTypes, Incoming, Outputs
      <3>3. wrote["out"] = vm.got["out"] + buffer["out"] /\ wrote["err"] = vm.got["err"] + buffer["err"]
        BY DEF Streams, Outputs
      <3>4. wrote["out"] + wrote["err"] > setup.limit
        BY <3>1, <3>2, <3>3
      <3> QED
        BY <1>a, <2>3, <3>4
    <2>4. CASE Finish("error")
      BY <1>a, <2>4
    <2> QED
      BY <2>1, <2>2, <2>3, <2>4 DEF ReadFails
  <1>7. CASE Wait
    BY <1>7, <1>a, WaitVM DEF Before
  <1>8. CASE Kill \/ Reap \/ Close
    BY <1>8, <1>b DEF Kill, Reap, Close
  <1>9. CASE OffspringStep \/ Expire \/ UNCHANGED vars
    BY <1>9, VMUntouched DEF Before
  <1> QED
    BY <1>1, <1>2, <1>3, <1>4, <1>5, <1>6, <1>7, <1>8, <1>9 DEF Next, VMStep

\* What is written stays written.
LEMMA WroteGrows ==
    ASSUME Before, Holds, [Next]_vars, NEW o \in Outputs
    PROVE  wrote[o] \in Nat /\ wrote'[o] \in Nat /\ wrote'[o] >= wrote[o]
  <1>1. wrote[o] \in Nat
    BY DEF Before, Types, ProgramTypes
  <1>2. CASE Receive
    BY <1>1, <1>2, VMOnly DEF Before
  <1>3. CASE ~Receive
    BY <1>1, <1>3, WroteIntoPipe
  <1> QED
    BY <1>2, <1>3

\* Every step keeps Outcome.
LEMMA OutcomeStep ==
    ASSUME Before, Holds, Streams, Outcome, [Next]_vars
    PROVE  Outcome'
  <1>0. setup' = setup /\ (expired => expired') /\ setup.limit \in Nat
    BY SetupKept, LimitNumber DEF Before
  <1>1. buffer["fail"] > 0 => buffer'["fail"] > 0
    BY ChildOutcome
  <1>2. vm'.problem = "launch_failed" => buffer'["fail"] > 0
    BY <1>1, ProblemCaused DEF Outcome
  <1>3. vm'.problem = "output_limit" => wrote'["out"] + wrote'["err"] > setup'.limit
    <2>1. vm'.problem = "output_limit" => wrote["out"] + wrote["err"] > setup.limit
      BY ProblemCaused DEF Outcome
    <2>2. /\ wrote["out"] \in Nat /\ wrote'["out"] \in Nat /\ wrote'["out"] >= wrote["out"]
          /\ wrote["err"] \in Nat /\ wrote'["err"] \in Nat /\ wrote'["err"] >= wrote["err"]
      BY WroteGrows DEF Outputs
    <2> QED
      BY <1>0, <2>1, <2>2
  <1>4. vm'.problem = "timeout" => expired'
    BY <1>0, ProblemCaused DEF Outcome
  <1>5. life["child"] = "gone" => life'["child"] = "gone"
    <2>1. CASE Refuse \/ Prepare \/ OpenPipe \/ Check \/ Poll \/ Send \/ Receive \/ Close
      BY <2>1, VMOnly DEF Before
    <2>2. CASE Fork
      BY <2>2 DEF Fork, Before, Lives, Early, Unstarted, Offspring
    <2>3. CASE Forked \/ Wait \/ Kill \/ Reap \/ Expire \/ UNCHANGED vars
      BY <2>3 DEF Forked, Wait, Kill, Killed, Alive, Reap, Expire, programs, vars, Offspring
    <2>4. CASE OffspringStep
      BY <2>4 DEF OffspringStep, ChildSetup, ChildExec, ChildFails, ForkHeir, ProgramStep, Doing,
         Drain, Produce, CloseInput, Leave, Exit, Ends, Before, Types, ProgramTypes, Offspring
    <2> QED
      BY <2>1, <2>2, <2>3, <2>4 DEF Next, VMStep
  <1>6. pc' = "close" /\ vm'.problem = "none" => life'["child"] = "gone"
    <2> SUFFICES ASSUME pc' = "close", vm'.problem = "none" PROVE life["child"] = "gone"
      BY <1>5
    <2>1. CASE Check
      BY <2>1 DEF Check, Finish, Streaming, Before, Lives
    <2>2. CASE OffspringStep \/ Expire \/ UNCHANGED vars
      BY <2>2, VMUntouched DEF Outcome, Before
    <2>3. CASE Reap
      BY <2>3 DEF Reap, Before, Course, Problems
    <2>4. ~(Refuse \/ Prepare \/ OpenPipe \/ Fork \/ Forked \/ Poll)
      BY DEF Refuse, Prepare, OpenPipe, Fork, Forked, Poll, Finish, Return
    <2>5. ~(Send \/ Receive \/ Wait \/ Kill \/ Close)
      BY DEF Send, Receive, Wait, Kill, Close, Finish, Return
    <2> QED
      BY <2>1, <2>2, <2>3, <2>4, <2>5 DEF Next, VMStep
  <1>7. vm'.result = "Ok" => life'["child"] = "gone"
    <2> SUFFICES ASSUME vm'.result = "Ok" PROVE life["child"] = "gone"
      BY <1>5
    <2>1. pc' = "done" /\ vm'.problem = "none"
      <3>1. Course'
        BY CourseStep DEF Before
      <3> QED
        BY <3>1 DEF Course, Problems, Refusals
    <2>2. CASE Close
      BY <2>1, <2>2, ReturnVM DEF Close, Outcome, Before
    <2>3. CASE OffspringStep \/ Expire \/ UNCHANGED vars
      BY <2>3, VMUntouched DEF Outcome, Before
    <2>4. ~Refuse /\ ~Prepare
      BY <2>1, ReturnVM, RefusalNames DEF Refuse, Prepare, Refusals, Before
    <2>5. ~(OpenPipe \/ Fork \/ Forked \/ Check \/ Poll)
      BY <2>1 DEF OpenPipe, Fork, Forked, Check, Poll, Finish
    <2>6. ~(Send \/ Receive \/ Wait \/ Kill \/ Reap)
      BY <2>1 DEF Send, Receive, Wait, Kill, Reap, Finish
    <2> QED
      BY <2>2, <2>3, <2>4, <2>5, <2>6 DEF Next, VMStep
  <1> QED
    BY <1>2, <1>3, <1>4, <1>6, <1>7, ChildOutcome DEF Outcome

\* The invariants hold at first.
LEMMA OutcomeInit ==
    ASSUME Init
    PROVE  Before /\ Holds /\ Streams /\ Outcome
  <1>1. Before
    BY TypesInit, LivesInit DEF Before
  <1>2. Holds
    BY DEF Init, Holds, Alive, Offspring, Busy
  <1>3. buffer["fail"] = 0 /\ \A o \in Outputs : buffer[o] = 0
    BY DEF Init, ToSet, Pipes, Outputs
  <1>4. Streams
    BY <1>1, <1>3, LimitNumber DEF Init, Streams, Busy, Outputs
  <1>5. Outcome
    BY <1>3 DEF Init, Outcome, Offspring
  <1> QED
    BY <1>1, <1>2, <1>4, <1>5

\* OutcomeIsTrue, of hc_process: the outcome that the call reports is what
\* happened, for all calls, sizes and programs and in every interleaving.
THEOREM OutcomeAlwaysTrue == Spec => []OutcomeIsTrue
  <1> DEFINE IInv == Before /\ Holds /\ Streams /\ Outcome
  <1>1. Init => IInv
    BY OutcomeInit
  <1>2. IInv /\ [Next]_vars => IInv'
    <2> SUFFICES ASSUME IInv, [Next]_vars PROVE IInv'
      OBVIOUS
    <2>1. Before'
      BY TypesStep, CourseStep, LivesStep DEF Before
    <2> QED
      BY <2>1, HoldsStep, StreamsStep, OutcomeStep
  <1>3. IInv => OutcomeIsTrue
    <2> SUFFICES ASSUME IInv PROVE OutcomeIsTrue
      OBVIOUS
    <2>1. vm.result \in {"Ok", "launch_failed", "output_limit", "timeout"} =>
            /\ pc = "done"
            /\ vm.result = "Ok" => vm.problem = "none"
            /\ vm.result \in {"launch_failed", "output_limit"} => vm.problem = vm.result
            /\ vm.result = "timeout" => vm.problem = "timeout" \/ setup.timeout = 0
      BY DEF Before, Course, Problems, Refusals
    <2>2. ASSUME vm.result = "Ok"
          PROVE  /\ vm.got = wrote /\ wrote["out"] + wrote["err"] <= setup.limit
                 /\ life["child"] = "gone" /\ executed /\ status \in {"exit", "signal"}
      <3>1. \A o \in Outputs : buffer[o] = 0 /\ wrote[o] = vm.got[o] + buffer[o]
        BY <2>2 DEF Streams, Over, Outputs, Incoming
      <3>2. vm.got \in [Outputs -> Nat] /\ wrote \in [Outputs -> Nat]
        BY DEF Before, Types, LocalTypes, ProgramTypes
      <3>3. \A o \in Outputs : wrote[o] = vm.got[o]
        BY <3>1, <3>2
      <3>4. vm.got = wrote
        BY <3>2, <3>3
      <3>5. vm.got["out"] + vm.got["err"] <= setup.limit
        BY DEF Streams
      <3>6. buffer["fail"] = 0
        BY <2>2 DEF Streams, Over, Incoming
      <3>7. life["child"] = "gone" /\ executed /\ status \in {"exit", "signal"}
        BY <2>1, <2>2, <3>6 DEF Outcome
      <3> QED
        BY <3>4, <3>5, <3>7
    <2>3. vm.result = "launch_failed" => ~executed
      BY <2>1 DEF Outcome
    <2>4. vm.result = "output_limit" => wrote["out"] + wrote["err"] > setup.limit
      BY <2>1 DEF Outcome
    <2>5. vm.result = "timeout" => expired \/ setup.timeout = 0
      BY <2>1 DEF Outcome
    <2> QED
      BY <2>2, <2>3, <2>4, <2>5 DEF OutcomeIsTrue
  <1> HIDE DEF IInv
  <1> QED
    BY <1>1, <1>2, <1>3, PTL DEF Spec
=============================================================================
