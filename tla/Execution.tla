------------------------------- MODULE Execution -------------------------------
(***************************************************************************)
(* One execution of a program (src/vm/execute.c), from the verification of  *)
(* the program to the end of its last resource.  The embedder, or the       *)
(* command line through execute(), advances it, polls what it waits for,     *)
(* answers the requests it registered, grants capabilities and may destroy  *)
(* it whenever it is not inside a call.  A slice of vm_execution_advance    *)
(* may end after any instruction, so every instruction is a step; a poll is *)
(* the steps of Exchange.  What callbacks do in turn is refused by the flag *)
(* `running' and is left out.  Coverage counters (coverage.c) count with it.*)
(***************************************************************************)
EXTENDS Program, Exchange

CONSTANTS
    Ceiling,        \* where coverage counters stop
    MaxHandles,     \* HTTP_STREAM_HANDLES
    Bounds          \* of the arguments of an exchange, for each kind

ASSUME ExecutionAssumption ==
    /\ {Ceiling, MaxHandles} \subseteq Nat \ {0}
    /\ Bounds \in [Kinds -> [port : Nat, length : Nat, limit : Nat, timeout : Nat]]

VARIABLES
    setup,      \* the program as bytecode, the embedder and the peer: never changes
    program,    \* the verified program
    status, frames, result, error, fault, exit_status,
    enabled,    \* capabilities granted
    registered, \* what a callback was asked to answer and has not
    waiting_read, fake_fail, tcp, http, root_read, console_write,
    streams,    \* handle -> exchange, or NoExchange once closed
    reading,    \* the stream a blocking read is in the middle of, or 0
    coverage,
    acted       \* the builtin called last, the functions it was called from, the exchange
                \* that was answered last, and whether a print was answered unasked

held == <<fake_fail, tcp, http, root_read, console_write, streams, reading>>
vars == <<setup, program, status, frames, result, error, fault, exit_status, enabled, registered,
          waiting_read, held, coverage, acted>>

NoExchange == [kind |-> "None", step |-> "idle", open |-> FALSE]
NoValue == [kind |-> "None"]
Void == [kind |-> "Void"]

Top == frames[Len(frames)]
Caller == program[Top.f]
Current == Caller.ins[Top.pc]
Ended == {"COMPLETED", "TRAPPED", "EXITED"}

-----------------------------------------------------------------------------
(* Coverage counters.                                                       *)

Zeros(p) ==
    [entries |-> [f \in DOMAIN p |-> 0],
     cells |-> [f \in DOMAIN p |-> [pc \in DOMAIN p[f].ins |->
                  [attempted |-> 0, completed |-> 0, fallthrough |-> 0, branched |-> 0]]],
     gap |-> FALSE, full |-> FALSE, terminal |-> 0]

\* A counter at its ceiling stays there, and the report says so.
Increment(n) == IF n = Ceiling THEN n ELSE n + 1

vm_coverage_enter(c, f) ==
    [c EXCEPT !.entries[f] = Increment(@), !.full = @ \/ c.entries[f] = Ceiling]

vm_coverage_attempt(c, f, pc) ==
    [c EXCEPT !.cells[f][pc].attempted = Increment(@),
              !.full = @ \/ c.cells[f][pc].attempted = Ceiling]

vm_coverage_finish(c, f, pc, branched) ==
    LET cell == c.cells[f][pc]
        way == IF branched THEN "branched" ELSE "fallthrough"
        done == [c EXCEPT !.cells[f][pc].completed = Increment(@), !.full = @ \/ cell.completed = Ceiling]
    IN  IF program[f].ins[pc].op \notin {"JUMP_FALSE", "ITER_NEXT", "MATCH_VARIANT"} THEN done
        ELSE [done EXCEPT !.cells[f][pc][way] = Increment(@), !.full = @ \/ cell[way] = Ceiling]

\* The instruction at the top, counted as attempted.
Attempted == IF setup.covered THEN vm_coverage_attempt(coverage, Top.f, Top.pc) ELSE coverage

Completed(c, branched) == IF setup.covered THEN vm_coverage_finish(c, Top.f, Top.pc, branched) ELSE c

vm_coverage_terminal(c, terminal) == IF setup.covered THEN [c EXCEPT !.terminal = terminal] ELSE c

\* Mutant: the frame does not note the instruction it waits in, which then never
\* completes.
Pending_not(frame) == frame

\* A call into a function, or a wait, completes its instruction later.
Pending(frame) == IF setup.covered THEN [frame EXCEPT !.pending = frame.pc - 1] ELSE frame

\* With a value for the frame on top, what is pending there completes.
coverage_complete_pending(c, frame) ==
    IF setup.covered /\ frame.pending # 0 THEN vm_coverage_finish(c, frame.f, frame.pending, FALSE) ELSE c

-----------------------------------------------------------------------------
(* Frames.                                                                  *)

Frame(f, locals) == [f |-> f, pc |-> 1, stack |-> <<>>, locals |-> locals, pending |-> 0]

stack_push(frame, v) == [frame EXCEPT !.stack = Append(@, v)]

\* The n values on top go; the deepest of them is the first.
Popped(frame, n) == [frame EXCEPT !.stack = SubSeq(@, 1, Len(@) - n)]
TopValues(frame, n) == SubSeq(frame.stack, Len(frame.stack) - n + 1, Len(frame.stack))

local_put(frame, name, v) == [frame EXCEPT !.locals = (name :> v) @@ @]

Underflow == Trap("operand stack underflow", "fatal")

\* The outcome of an instruction that stays in its frame.
Goes(frame) == [frame |-> frame, trap |-> NoValue, branched |-> FALSE]
Branches(frame, target) == [frame |-> [frame EXCEPT !.pc = target], trap |-> NoValue, branched |-> TRUE]
Traps(frame, trap) == [frame |-> frame, trap |-> trap, branched |-> FALSE]

\* A value is pushed, a trap is not.
Gives(frame, v) == IF v.kind = "Trap" THEN Traps(frame, v) ELSE Goes(stack_push(frame, v))

value_index(v) == IF v.kind = "Nat" THEN pn_big_fits_size(v.integer) ELSE Unfit

Load(frame, in) ==
    IF in.name \in DOMAIN frame.locals THEN Goes(stack_push(frame, frame.locals[in.name]))
    ELSE Traps(frame, Trap("uninitialized local", "fatal"))

MakeRange(frame, v) ==
    IF \E i \in {1, 2} : v[i].kind # "Nat" THEN Traps(frame, Trap("range bounds require Nat", "fatal"))
    ELSE Goes(stack_push(frame, [kind |-> "Range", start |-> v[1].integer, end |-> v[2].integer]))

\* The fault of an index that is a number is the request's.
IndexGet(frame, v) ==
    LET index == value_index(v[2])
        items == CASE v[1].kind = "Array" -> v[1].items
                   [] v[1].kind = "Bytes" -> v[1].data
                   [] v[1].kind = "Str" -> v[1].text
    IN  IF index = Unfit
        THEN Traps(frame, Trap("invalid index", IF v[2].kind = "Nat" THEN "request" ELSE "fatal"))
        ELSE IF v[1].kind \notin {"Array", "Bytes", "Str"} THEN Traps(frame, Trap("value is not indexable", "fatal"))
        ELSE IF index >= Len(items) THEN Traps(frame, Trap("index is out of bounds", "request"))
        ELSE Goes(stack_push(frame, CASE v[1].kind = "Array" -> items[index + 1]
                                      [] v[1].kind = "Bytes" -> Integer("Nat", pn_big_from_u64(items[index + 1]))
                                      [] v[1].kind = "Str" -> Str(<<items[index + 1]>>)))

IterInit(frame, in, v) ==
    local_put(frame, in.name,
              [kind |-> "Iter", iterable |-> v, index |-> 0,
               cursor |-> IF v.kind = "Range" THEN v.start ELSE Zero])

Exhausted(iter) ==
    CASE iter.iterable.kind = "Range" -> pn_big_compare(iter.cursor, iter.iterable.end) >= 0
      [] iter.iterable.kind = "Array" -> iter.index >= Len(iter.iterable.items)
      [] iter.iterable.kind = "Bytes" -> iter.index >= Len(iter.iterable.data)

\* The iterator is a local that the instruction moves on.
IterNext(frame, in) ==
    LET iter == frame.locals[in.name]
        of == iter.iterable
        next == CASE of.kind = "Range" -> Integer("Nat", iter.cursor)
                  [] of.kind = "Array" -> of.items[iter.index + 1]
                  [] of.kind = "Bytes" -> Integer("Nat", pn_big_from_u64(of.data[iter.index + 1]))
        moved == IF of.kind = "Range" THEN [iter EXCEPT !.cursor = pn_big_add_small(@, 1)]
                 ELSE [iter EXCEPT !.index = @ + 1]
    IN  IF in.name \notin DOMAIN frame.locals \/ frame.locals[in.name].kind # "Iter"
        THEN Traps(frame, Trap("invalid iterator", "fatal"))
        ELSE IF of.kind \notin {"Range", "Array", "Bytes"}
        THEN Traps(frame, Trap("value is not iterable", "fatal"))
        ELSE IF Exhausted(iter) THEN Branches(frame, in.target)
        ELSE Goes(local_put(local_put(frame, in.name, moved), in.name2, next))

FieldGet(frame, in, v) ==
    LET named == {i \in DOMAIN v.names : v.names[i] = in.name}
    IN  IF v.kind # "Record" THEN Traps(frame, Trap("field access requires a record", "fatal"))
        ELSE IF named = {} THEN Traps(frame, Trap("record has no field", "fatal"))
        ELSE Goes(stack_push(frame, v.values[Min(named)]))

MatchVariant(frame, in, v) ==
    IF v.kind # "Variant" THEN Traps(frame, Trap("match subject is not an enum", "fatal"))
    ELSE IF v.name # in.name THEN Branches(frame, in.target)
    ELSE Goes([frame EXCEPT !.stack = @ \o v.values])

JumpFalse(frame, in, v) ==
    IF v.kind # "Bool" THEN Traps(frame, Trap("conditional requires Bool", "fatal"))
    ELSE IF v.boolean THEN Goes(frame) ELSE Branches(frame, in.target)

\* Values an instruction takes from the stack.
Takes(in) ==
    CASE in.op \in {"CONST", "LOAD", "ITER_NEXT", "MATCH_FAIL", "JUMP"} -> 0
      [] in.op \in {"STORE", "POP", "UNARY", "ITER_INIT", "FIELD_GET", "MATCH_VARIANT", "JUMP_FALSE", "RETURN"} -> 1
      [] in.op \in {"BINARY", "MAKE_RANGE", "INDEX_GET"} -> 2
      [] in.op \in {"MAKE_ARRAY", "MAKE_RECORD", "MAKE_VARIANT"} -> in.count
      [] in.op \in Calls -> in.arity
      [] in.op \in {"CALL_VALUE", "AWAIT_VALUE"} -> in.arity + 1

\* What the instruction does to its frame, whose pc is past it and whose stack has
\* lost the values v it takes.
Outcome(in, frame, v) ==
    CASE in.op = "CONST" -> Goes(stack_push(frame, constant_value(in.constant)))
      [] in.op = "LOAD" -> Load(frame, in)
      [] in.op = "STORE" -> Goes(local_put(frame, in.name, v[1]))
      [] in.op = "POP" -> Goes(frame)
      [] in.op = "UNARY" -> Gives(frame, UnaryValue(in.code, v[1]))
      [] in.op = "BINARY" -> Gives(frame, binary_value_classified(in.code, v[1], v[2]))
      [] in.op = "MAKE_RANGE" -> MakeRange(frame, v)
      [] in.op = "MAKE_ARRAY" -> Goes(stack_push(frame, [kind |-> "Array", items |-> v]))
      [] in.op = "INDEX_GET" -> IndexGet(frame, v)
      [] in.op = "ITER_INIT" -> Goes(IterInit(frame, in, v[1]))
      [] in.op = "ITER_NEXT" -> IterNext(frame, in)
      [] in.op = "MAKE_RECORD" ->
            Goes(stack_push(frame, [kind |-> "Record", name |-> in.name, names |-> in.items, values |-> v]))
      [] in.op = "FIELD_GET" -> FieldGet(frame, in, v[1])
      [] in.op = "MAKE_VARIANT" ->
            Goes(stack_push(frame, [kind |-> "Variant", name |-> in.name2, values |-> v]))
      [] in.op = "MATCH_VARIANT" -> MatchVariant(frame, in, v[1])
      [] in.op = "MATCH_FAIL" -> Traps(frame, Trap("enum match was not exhaustive", "fatal"))
      [] in.op = "JUMP_FALSE" -> JumpFalse(frame, in, v[1])
      [] in.op = "JUMP" -> Goes([frame EXCEPT !.pc = in.target])

\* The frame as the instruction leaves it to go on, and what it has taken.
Dispatched == Popped([Top EXCEPT !.pc = @ + 1], Takes(Current))
Operands == TopValues(Top, Takes(Current))
Underflows == Len(Top.stack) < Takes(Current)

-----------------------------------------------------------------------------
(* The loop of vm_execution_advance.                                        *)

\* A trap ends the execution; so does what an answer brings.
EndsTrapped(c, trap) ==
    /\ status' = "TRAPPED" /\ error' = trap.error /\ fault' = trap.fault
    /\ frames' = <<>> /\ coverage' = vm_coverage_terminal(c, 2)
    /\ UNCHANGED <<result, exit_status>>

GoesOn(c, frame) ==
    /\ frames' = [frames EXCEPT ![Len(frames)] = frame]
    /\ coverage' = c
    /\ UNCHANGED <<status, result, error, fault, exit_status>>

Advancing == status = "YIELDED" /\ reading = 0

\* The program ran past the last instruction of a function.
FallsOff ==
    /\ Advancing /\ Top.pc > Len(Caller.ins)
    /\ EndsTrapped(coverage, Trap("function did not return", "fatal"))
    /\ UNCHANGED <<setup, program, enabled, registered, waiting_read, held, acted>>

CallValues == {"CALL_VALUE", "AWAIT_VALUE"}
AtInstruction == Advancing /\ Top.pc <= Len(Caller.ins)

Executes ==
    /\ AtInstruction /\ Current.op \notin Calls \cup CallValues \cup {"RETURN"}
    /\ IF Underflows THEN EndsTrapped(Attempted, Underflow)
       ELSE \E o \in {Outcome(Current, Dispatched, Operands)} :
                IF o.trap # NoValue THEN EndsTrapped(Attempted, o.trap)
                ELSE GoesOn(Completed(Attempted, o.branched), o.frame)
    /\ UNCHANGED <<setup, program, enabled, registered, waiting_read, held, acted>>

\* The value goes to the frame below, whose call is complete with it.
Answered(frame, v) == [stack_push(frame, v) EXCEPT !.pending = 0]

Return ==
    /\ AtInstruction /\ Current.op = "RETURN"
    /\ LET v == Operands[1]
           below == frames[Len(frames) - 1]
       IN  CASE Underflows -> EndsTrapped(Attempted, Underflow)
             [] ~Underflows /\ Caller.is_async /\ Caller.name = "main" /\ v.kind # "Unit" ->
                  EndsTrapped(Attempted, Trap("async main must return Unit", "fatal"))
             [] OTHER ->
                  /\ IF Len(frames) = 1
                     THEN /\ status' = "COMPLETED" /\ result' = v /\ frames' = <<>>
                          /\ coverage' = vm_coverage_terminal(Completed(Attempted, FALSE), 1)
                     ELSE /\ frames' = Append(SubSeq(frames, 1, Len(frames) - 2), Answered(below, v))
                          /\ coverage' = Completed(coverage_complete_pending(Attempted, below), FALSE)
                          /\ UNCHANGED <<status, result>>
                  /\ UNCHANGED <<error, fault, exit_status>>
    /\ UNCHANGED <<setup, program, enabled, registered, waiting_read, held, acted>>

-----------------------------------------------------------------------------
(* Calls.                                                                   *)

Indirect == Current.op \in CallValues
Awaited == Current.op \in {"AWAIT_CALL", "AWAIT_VALUE"}
Arguments == IF Indirect THEN Tail(Operands) ELSE Operands

\* The name that is called: an operand of a value call.
Named == IF Indirect THEN Operands[1].word ELSE Current.name

\* Mutant: an indirect call is not judged again.
EdgeHolds_direct == Indirect \/ verify_call_edge(Caller, Callee(program, Named, TRUE), Awaited)
EdgeHolds == verify_call_edge(Caller, Callee(program, Named, TRUE), Awaited)

\* Why the call cannot be made, or NoValue.
Refused ==
    LET known == IsBuiltin(Named) \/ program_function(program, Named, TRUE) # NoFunction
        arity == Current.arity = Callee(program, Named, TRUE).arity
    IN  CASE Underflows -> Underflow
          [] ~Underflows /\ Indirect /\ Operands[1].kind # "Str" ->
               Trap("indirect call requires a callable", "fatal")
          [] OTHER ->
               IF known /\ arity /\ EdgeHolds THEN NoValue
               ELSE IF ~Indirect THEN Trap("invalid async call effect or signature", "fatal")
               ELSE IF ~known THEN Trap("indirect call target was not found", "fatal")
               ELSE IF ~arity THEN Trap("indirect call arity mismatch", "fatal")
               ELSE IF Caller.pure THEN Trap("pure function invokes impure callable", "fatal")
               ELSE Trap("invalid async callable effect", "fatal")

AtCall == AtInstruction /\ Current.op \in Calls \cup CallValues

RefusesCall ==
    /\ AtCall /\ Refused # NoValue
    /\ EndsTrapped(Attempted, Refused)
    /\ UNCHANGED <<setup, program, enabled, registered, waiting_read, held, acted>>

\* frame_push: the arguments become the first locals.
CallsFunction ==
    /\ AtCall /\ Refused = NoValue /\ ~IsBuiltin(Named)
    /\ LET f == CHOOSE i \in DOMAIN program : program[i].name = Named
           params == program[f].params
           locals == [name \in Range(params) |-> Arguments[CHOOSE i \in DOMAIN params : params[i] = name]]
       IN  /\ frames' = Append([frames EXCEPT ![Len(frames)] = Pending(Dispatched)], Frame(f, locals))
           /\ coverage' = IF setup.covered THEN vm_coverage_enter(Attempted, f) ELSE coverage
    /\ UNCHANGED <<setup, program, status, result, error, fault, exit_status, enabled, registered,
                   waiting_read, held, acted>>

-----------------------------------------------------------------------------
(* Builtins: the outcomes of a call.                                        *)

Value(v) == [outcome |-> IF v.kind = "Trap" THEN "trap" ELSE "value", value |-> v]
Unavailable == Value(Trap("service is unavailable in this execution", "fatal"))
Waits(on, x) == [outcome |-> "wait", on |-> on, with |-> x]
Exits(n) == [outcome |-> IF setup.embedded THEN "exit" ELSE "leave", status |-> n]

Granted(capability) == ~setup.embedded \/ capability \in enabled

\* The arguments of an exchange: address, port, for HTTP whether TLS is used, request,
\* limit, timeout.
ExchangeArguments(kind, a) ==
    LET n == Len(a)
        number(i) == value_index(a[i])
        length == IF a[n - 2].kind = "Bytes" THEN Len(a[n - 2].data) ELSE 0
        bound == Bounds[kind]
    IN  [valid |-> /\ a[1].kind = "Str" /\ a[1].word = "host"
                   /\ kind # "tcp" => a[3].kind = "Bool"
                   /\ a[n - 2].kind = "Bytes" /\ length <= bound.length
                   /\ number(2) \in 1 .. bound.port /\ number(n - 1) \in 0 .. bound.limit
                   /\ number(n) \in 1 .. bound.timeout,
         length |-> length, limit |-> number(n - 1), timeout |-> number(n), peer |-> setup.peer]

TcpExchange(a) ==
    IF ~Granted("network") THEN {Unavailable}
    ELSE {Waits("tcp", x) : x \in tcp_exchange_start(ExchangeArguments("tcp", a))}

HttpTransportExchange(a) ==
    IF ~Granted("network") THEN {Unavailable}
    ELSE {Waits("http", x) : x \in transport_start(ExchangeArguments("http", a), "http")}

HostArguments == [kind |-> "Array", items |-> <<Word("argument")>>]

\* An operation of a worker is under way, or refused at once with an error for its
\* result, or there is no memory for it.
Begins(on) ==
    {Waits(on, "working"), Waits(on, "refused"), Value(Trap("native VM out of memory", "fatal"))}

HostOutput(a) ==
    IF ~Granted("console") THEN {Unavailable}
    ELSE IF a[1].kind # "Str" THEN {Value(Trap("asynchronous console output requires Str", "fatal"))}
    ELSE Begins("console_write")

RootIdentity(a) ==
    IF ~Granted("filesystem") THEN {Unavailable}
    ELSE IF a[1].kind # "Path" THEN {Value(Trap("invalid asynchronous filesystem arguments", "fatal"))}
    ELSE Begins("root_read")

\* The callback registers the request or refuses it.
Registers(on, x) == {Waits(on, x), Value(Trap("registration failed", "fatal"))}

AsyncFakeRead(a) ==
    IF a[1].kind # "Bool" THEN {Value(Trap("fake read requires Bool", "fatal"))}
    ELSE IF ~setup.embedded THEN {Waits("read", a[1].boolean)}
    ELSE IF setup.callback = "read" THEN Registers("read", a[1].boolean)
    ELSE {Unavailable}

ServerReadChunk(a) ==
    IF value_index(a[1]) \in 1 .. Chunk /\ setup.embedded /\ setup.callback = "read" /\ "server_read" \in enabled
    THEN Registers("read", fake_fail)
    ELSE {Unavailable}

\* A status is a byte for host_exit_async only.  An embedded execution ends; the
\* command line leaves the process on the spot.
Exit(a, limit) ==
    LET n == value_index(a[1])
    IN  IF n = Unfit \/ n > limit THEN {Value(Trap("invalid process status", "fatal"))} ELSE {Exits(n)}

\* http_stream_open and http_stream_close; http_stream_read is StreamRead.
StreamHandle(a) == LET n == value_index(a[1]) IN IF n \in DOMAIN streams /\ streams[n] # NoExchange THEN n ELSE 0

\* Mutant: a closed handle is given out again.
NextHandle_reused ==
    LET closed == {h \in DOMAIN streams : streams[h] = NoExchange}
    IN  IF closed = {} THEN Len(streams) + 1 ELSE Min(closed)

NextHandle == Len(streams) + 1

StreamOpen(a) ==
    LET opened(x) == IF x.done THEN Value(x.result)
                     ELSE [outcome |-> "stream", handle |-> NextHandle, exchange |-> x]
    IN  IF Len(streams) = MaxHandles THEN {Value(Error("resource limit exceeded"))}
        ELSE {opened(x) : x \in transport_start(ExchangeArguments("stream", a), "stream")}

StreamClose(a) ==
    IF StreamHandle(a) = 0 THEN {Value(Error("invalid handle"))}
    ELSE {[outcome |-> "stream", handle |-> StreamHandle(a), exchange |-> NoExchange]}

\* print, and any other host builtin, of an embedded execution: a pending print,
\* or whatever the host call says.
HostCall(name) ==
    IF setup.callback = "print" /\ name = "print" THEN Registers("print", NoExchange)
    ELSE IF setup.callback # "host" THEN {Unavailable}
    ELSE {Value(Void), Value(Trap("host failed", "fatal"))}

\* builtin_call.  A nested program is another execution; no value here is the state
\* of a server.
BuiltinCall(name, a) ==
    CASE name \in {"quotient", "nat", "dec", "$unit"} -> {Value(builtins_numeric_call(name, a))}
      [] name = "utf8_encode" -> {Value(Bytes(a[1].text))}
      [] name = "path_current" -> {Value([kind |-> "Path"])}
      [] name = "http_stream_open" -> StreamOpen(a)
      [] name = "http_stream_close" -> StreamClose(a)
      [] name = "print" -> {Value(Void)}
      [] name = "run_bytecode" -> {Value(Void), Value(Trap("nested", "fatal"))}
      [] name = "http_state_setup_error" -> {Value(Trap("invalid HTTP server handle", "fatal"))}

execution_builtin(name, a) ==
    CASE name = "$tcp_exchange" -> TcpExchange(a)
      [] name = "$http_transport_exchange" -> HttpTransportExchange(a)
      [] name = "host_stdout_async" -> HostOutput(a)
      [] name = "fs_root_identity_async" -> RootIdentity(a)
      [] name = "async_fake_read" -> AsyncFakeRead(a)
      [] name = "$tcp_server_read_chunk" -> ServerReadChunk(a)
      [] name = "host_arguments_async" -> IF Granted("console") THEN {Value(HostArguments)} ELSE {Unavailable}
      [] name = "host_exit_async" -> Exit(a, 255)
      [] name = "process_exit" -> Exit(a, SizeMax)
      [] OTHER ->
            IF ~setup.embedded \/ BUILTINS[name].pure \/ BUILTINS[name].local THEN BuiltinCall(name, a)
            ELSE IF name = "run_bytecode" THEN {Unavailable}
            ELSE HostCall(name)

\* What the builtin leaves in the execution.
Hold(on, x) ==
    /\ waiting_read' = (waiting_read \/ on \in {"read", "tcp", "http"})
    /\ fake_fail' = IF on = "read" THEN x ELSE fake_fail
    /\ registered' = registered \cup (IF setup.embedded THEN {on} \cap {"print", "read"} ELSE {})
    /\ tcp' = IF on = "tcp" THEN x ELSE tcp
    /\ http' = IF on = "http" THEN x ELSE http
    /\ console_write' = IF on = "console_write" THEN x ELSE console_write
    /\ root_read' = IF on = "root_read" THEN x ELSE root_read
    /\ UNCHANGED <<streams, reading>>

\* Without a session, what another engine or process executes is a gap.
Gapped(c) ==
    IF setup.covered /\ Named \in {"$http_transport_exchange", "run_bytecode"}
    THEN [c EXCEPT !.gap = TRUE] ELSE c

StreamAnswer(o) == IF o.exchange = NoExchange THEN Ok(Unit) ELSE Ok(Integer("Nat", pn_big_from_u64(o.handle)))

StreamsClosed == <<>>

\* Nothing the execution holds survives it.
Destroyed ==
    /\ status' = "destroyed" /\ frames' = <<>> /\ result' = NoValue
    /\ tcp' = NoExchange /\ http' = NoExchange /\ root_read' = "none" /\ console_write' = "none"
    /\ streams' = StreamsClosed /\ registered' = {} /\ waiting_read' = FALSE
    /\ UNCHANGED <<error, fault, fake_fail, reading, coverage>>

CallsBuiltin ==
    /\ AtCall /\ Refused = NoValue /\ IsBuiltin(Named) /\ (Named = "http_stream_read" => setup.embedded)
    /\ acted' = [acted EXCEPT !.builtin = Named, !.from = {frames[i].f : i \in DOMAIN frames}]
    /\ \E o \in execution_builtin(Named, Arguments) :
         LET c == Gapped(Attempted)
             v == IF o.outcome = "stream" THEN StreamAnswer(o) ELSE o.value
         IN  CASE o.outcome = "trap" ->
                    EndsTrapped(c, o.value) /\ UNCHANGED <<registered, waiting_read, held>>
               [] o.outcome \in {"value", "stream"} ->
                    /\ GoesOn(Completed(c, FALSE), stack_push(Dispatched, v))
                    /\ streams' = IF o.outcome = "value" THEN streams
                                  ELSE [h \in DOMAIN streams \cup {o.handle} |->
                                          IF h = o.handle THEN o.exchange ELSE streams[h]]
                    /\ UNCHANGED <<registered, waiting_read, fake_fail, tcp, http, root_read, console_write, reading>>
               [] o.outcome = "leave" -> Destroyed /\ exit_status' = o.status
               [] o.outcome = "exit" ->
                    /\ status' = "EXITED" /\ exit_status' = o.status /\ frames' = <<>>
                    /\ coverage' = vm_coverage_terminal(c, 3)
                    /\ UNCHANGED <<result, error, fault, registered, waiting_read, held>>
               [] o.outcome = "wait" ->
                    /\ status' = "WAITING" /\ Hold(o.on, o.with)
                    /\ frames' = [frames EXCEPT ![Len(frames)] = Pending(Dispatched)]
                    /\ coverage' = c
                    /\ UNCHANGED <<result, error, fault, exit_status>>
    /\ UNCHANGED <<setup, program, enabled>>

\* A read blocks until there is a chunk, the end or an error.
StreamRead ==
    /\ AtCall /\ Refused = NoValue /\ Named = "http_stream_read" /\ ~setup.embedded
    /\ acted' = [acted EXCEPT !.builtin = Named, !.from = {frames[i].f : i \in DOMAIN frames}]
    /\ LET h == StreamHandle(Arguments)
       IN  IF h = 0
           THEN /\ GoesOn(Completed(Attempted, FALSE), stack_push(Dispatched, Error("invalid handle")))
                /\ UNCHANGED <<streams, reading>>
           ELSE /\ reading' = h
                /\ streams' = [streams EXCEPT ![h] = Resumes(@)]
                /\ UNCHANGED <<status, frames, result, error, fault, exit_status, coverage>>
    /\ UNCHANGED <<setup, program, enabled, registered, waiting_read, fake_fail, tcp, http, root_read, console_write>>

StreamReads ==
    /\ reading # 0
    /\ IF Finished(streams[reading])
       THEN /\ GoesOn(Completed(Attempted, FALSE), stack_push(Dispatched, streams[reading].result))
            /\ acted' = [acted EXCEPT !.exchange = streams[reading]]
            /\ reading' = 0 /\ UNCHANGED streams
       ELSE /\ \E x \in Steps(streams[reading]) : streams' = [streams EXCEPT ![reading] = x]
            /\ UNCHANGED <<status, frames, result, error, fault, exit_status, coverage, reading, acted>>
    /\ UNCHANGED <<setup, program, enabled, registered, waiting_read, fake_fail, tcp, http, root_read, console_write>>

Advance == FallsOff \/ Executes \/ Return \/ RefusesCall \/ CallsFunction \/ CallsBuiltin \/ StreamRead

-----------------------------------------------------------------------------
(* The embedder: answers and polls.                                         *)

\* Inside a poll of an exchange nothing else is called.
Outside == tcp.step = "idle" /\ http.step = "idle" /\ reading = 0

\* An answer v, or a trap, for the frame that waits.
Resume(v) ==
    IF v.kind = "Trap" THEN EndsTrapped(coverage, v)
    ELSE /\ status' = "YIELDED"
         /\ frames' = [frames EXCEPT ![Len(frames)] = Answered(@, v)]
         /\ coverage' = coverage_complete_pending(coverage, Top)
         /\ UNCHANGED <<result, error, fault, exit_status>>

\* Ok with Bytes or Error with Str.
vm_fake_read_result_valid(v) ==
    /\ v.kind = "Variant" /\ Len(v.values) = 1
    /\ \/ v.name = "Ok" /\ v.values[1].kind = "Bytes"
       \/ v.name = "Error" /\ v.values[1].kind = "Str"

vm_fake_read_result(fail) == IF fail THEN Error("fake") ELSE Ok(Bytes(<<0>>))

CompleteRead(v) ==
    Resume(IF vm_fake_read_result_valid(v) THEN v ELSE Trap("invalid async completion type", "fatal"))

\* Mutant: an exchange in progress is no reason to refuse.
CanCompleteRead_any == status = "WAITING" /\ waiting_read
CanCompleteRead == status = "WAITING" /\ waiting_read /\ tcp = NoExchange /\ http = NoExchange

\* The command line answers with what the program asked for, an embedder with any
\* value whenever it likes.
vm_execution_complete_read ==
    /\ Outside /\ CanCompleteRead
    /\ \E v \in IF ~setup.embedded THEN {vm_fake_read_result(fake_fail)}
                 ELSE {vm_fake_read_result(TRUE), vm_fake_read_result(FALSE), Ok(Unit)} : CompleteRead(v)
    /\ waiting_read' = FALSE /\ registered' = registered \ {"read"}
    /\ UNCHANGED <<setup, program, enabled, held, acted>>

\* Any wait but that for a read, asked to print or not.  Only an embedder calls it.
vm_execution_complete_print ==
    /\ Outside /\ setup.embedded
    /\ status = "WAITING" /\ ~waiting_read
    /\ \E v \in {Void, Trap("print failed", "fatal")} : Resume(v)
    /\ registered' = registered \ {"print"}
    /\ acted' = [acted EXCEPT !.unasked = @ \/ "print" \notin registered]
    /\ UNCHANGED <<setup, program, enabled, waiting_read, held>>

\* An exchange that is over is gone, and answers as any read is answered: unless the
\* execution waits for no read, or another exchange is in progress.
Delivers(x, other) ==
    IF waiting_read /\ other = NoExchange
    THEN /\ waiting_read' = FALSE /\ CompleteRead(x.result)
         /\ acted' = [acted EXCEPT !.exchange = x]
    ELSE UNCHANGED <<waiting_read, status, frames, result, error, fault, exit_status, coverage, acted>>

vm_execution_poll_tcp ==
    /\ status = "WAITING" /\ tcp # NoExchange
    /\ \E x \in IF tcp.done THEN {tcp} ELSE Steps(tcp) :
         IF x.done THEN tcp' = NoExchange /\ Delivers(x, http)
         ELSE /\ tcp' = x
              /\ UNCHANGED <<waiting_read, status, frames, result, error, fault, exit_status, coverage, acted>>
    /\ UNCHANGED <<setup, program, enabled, registered, fake_fail, http, root_read, console_write, streams, reading>>

vm_execution_poll_http ==
    /\ status = "WAITING" /\ http # NoExchange
    /\ \E x \in IF http.done THEN {http} ELSE Steps(http) :
         IF x.done THEN http' = NoExchange /\ Delivers(x, tcp)
         ELSE /\ http' = x
              /\ UNCHANGED <<waiting_read, status, frames, result, error, fault, exit_status, coverage, acted>>
    /\ UNCHANGED <<setup, program, enabled, registered, fake_fail, tcp, root_read, console_write, streams, reading>>

vm_execution_poll_console ==
    /\ status = "WAITING" /\ console_write \in {"done", "refused"}
    /\ \E v \in {Error("console")} \cup (IF console_write = "done" THEN {Ok(Unit)} ELSE {}) : Resume(v)
    /\ console_write' = "none"
    /\ UNCHANGED <<setup, program, enabled, registered, waiting_read, fake_fail, tcp, http, root_read,
                   streams, reading, acted>>

\* The read brings a result or an error of the VM.
vm_execution_poll_filesystem ==
    /\ status = "WAITING" /\ root_read \in {"done", "refused"}
    /\ \E v \in {Error("filesystem")} \cup (IF root_read = "done" THEN {Ok(Word("root")), Trap("filesystem", "fatal")}
                                          ELSE {}) : Resume(v)
    /\ root_read' = "none"
    /\ UNCHANGED <<setup, program, enabled, registered, waiting_read, fake_fail, tcp, http, console_write,
                   streams, reading, acted>>

\* Capabilities are granted between slices only.
vm_execution_enable ==
    /\ status = "YIELDED" /\ Outside /\ setup.embedded
    /\ \E c \in setup.offers \ enabled :
         /\ c = "server_read" => setup.callback = "read"
         /\ enabled' = enabled \cup {c}
    /\ UNCHANGED <<setup, program, status, frames, result, error, fault, exit_status, registered, waiting_read,
                   held, coverage, acted>>

vm_execution_destroy ==
    /\ status \in Ended \/ (setup.embedded /\ status \in {"YIELDED", "WAITING"})
    /\ Outside
    /\ Destroyed
    /\ UNCHANGED <<setup, program, exit_status, enabled, acted>>

-----------------------------------------------------------------------------
(* The start, and everything outside.                                       *)

Idle(s) ==
    /\ setup = s /\ program = <<>> /\ status = "unloaded" /\ frames = <<>> /\ result = NoValue
    /\ error = "" /\ fault = "fatal" /\ exit_status = 0 /\ enabled = {} /\ registered = {}
    /\ waiting_read = FALSE /\ fake_fail = FALSE /\ tcp = NoExchange /\ http = NoExchange /\ root_read = "none"
    /\ console_write = "none" /\ streams = <<>> /\ reading = 0
    /\ coverage = Zeros(<<>>) /\ acted = [builtin |-> "", from |-> {}, exchange |-> NoExchange, unasked |-> FALSE]

\* The program is decoded, verified and started at main.
vm_execution_create ==
    /\ status = "unloaded"
    /\ \E p \in {infer_local_effects(decode(setup.program))} :
       LET main == CHOOSE i \in DOMAIN p : p[i].name = "main"
           zeros == Zeros(p)
       IN  IF p # <<>> /\ verify(p)
           THEN /\ status' = "YIELDED" /\ program' = p /\ frames' = <<Frame(main, <<>>)>>
                /\ coverage' = IF setup.covered THEN vm_coverage_enter(zeros, main) ELSE coverage
           ELSE status' = "rejected" /\ UNCHANGED <<program, frames, coverage>>
    /\ UNCHANGED <<setup, result, error, fault, exit_status, enabled, registered, waiting_read, held, acted>>

Worker ==
    /\ \/ console_write = "working" /\ console_write' = "done" /\ UNCHANGED root_read
       \/ root_read = "working" /\ root_read' = "done" /\ UNCHANGED console_write
    /\ UNCHANGED <<setup, program, status, frames, result, error, fault, exit_status, enabled, registered,
                   waiting_read, fake_fail, tcp, http, streams, reading, coverage, acted>>

unmoved == <<setup, program, status, frames, result, error, fault, exit_status, enabled, registered,
             waiting_read, fake_fail, root_read, console_write, reading, coverage, acted>>

Live(x) == x # NoExchange /\ x.open

Peer ==
    /\ \/ Live(tcp) /\ tcp' \in PeerSteps(tcp) /\ UNCHANGED <<http, streams>>
       \/ Live(http) /\ http' \in PeerSteps(http) /\ UNCHANGED <<tcp, streams>>
       \/ \E h \in DOMAIN streams : /\ Live(streams[h])
                                    /\ \E x \in PeerSteps(streams[h]) : streams' = [streams EXCEPT ![h] = x]
                                    /\ UNCHANGED <<tcp, http>>
    /\ UNCHANGED unmoved

Exchanges == {tcp, http} \cup Range(streams)

\* The clock, until the last deadline.
Tick ==
    /\ \E x \in Exchanges : Live(x) /\ x.left > 0
    /\ tcp' = IF tcp = NoExchange THEN tcp ELSE Ticks(tcp)
    /\ http' = IF http = NoExchange THEN http ELSE Ticks(http)
    /\ streams' = [h \in DOMAIN streams |-> IF streams[h] = NoExchange THEN streams[h] ELSE Ticks(streams[h])]
    /\ UNCHANGED unmoved

Answers == vm_execution_complete_read \/ vm_execution_complete_print
Poll == vm_execution_poll_tcp \/ vm_execution_poll_http \/ vm_execution_poll_console \/ vm_execution_poll_filesystem

Next ==
    \/ vm_execution_create \/ Advance \/ StreamReads \/ Answers \/ Poll \/ vm_execution_enable
    \/ vm_execution_destroy \/ Worker \/ Peer \/ Tick

\* A process on the command line, or an embedder that goes on polling, answers in
\* the end; the clock goes on, and so do the workers.
Fairness ==
    /\ WF_vars(Poll) /\ WF_vars(Answers) /\ WF_vars(StreamReads)
    /\ WF_vars(Worker) /\ WF_vars(Tick)

-----------------------------------------------------------------------------
(* Properties.                                                              *)

\* The number a value stands for, as <<numerator, denominator>>.
Quantity(v) ==
    CASE v.kind \in {"Nat", "Int"} -> <<Number(v.integer), 1>>
      [] v.kind = "Rat" -> <<Number(v.numerator), Number(v.denominator)>>
      [] v.kind = "Dec" -> IF v.exponent < 0 THEN <<Number(v.coefficient), 10 ^ (-v.exponent)>>
                           ELSE <<Number(v.coefficient) * 10 ^ v.exponent, 1>>

Numbers == {"Nat", "Int", "Dec", "Rat"}
Divides(d, n) == n % d = 0

\* Its one representation.
Canonical(v) ==
    CASE v.kind = "Nat" -> Normal(v.integer) /\ v.integer.sign >= 0
      [] v.kind = "Int" -> Normal(v.integer)
      [] v.kind = "Dec" -> Normal(v.coefficient)
      [] v.kind = "Rat" ->
            LET n == Number(v.numerator)
                d == Number(v.denominator)
                size == IF n < 0 THEN -n ELSE n
            IN  /\ Normal(v.numerator) /\ Normal(v.denominator) /\ d > 0
                /\ \A k \in 2 .. (IF size < d /\ n # 0 THEN size ELSE d) : ~(Divides(k, size) /\ Divides(k, d))

SameQuantity(p, q) == p[1] * q[2] = q[1] * p[2]
Kept(op, p, q) ==
    CASE op = "+" -> <<p[1] * q[2] + q[1] * p[2], p[2] * q[2]>>
      [] op = "-" -> <<p[1] * q[2] - q[1] * p[2], p[2] * q[2]>>
      [] op = "*" -> <<p[1] * q[1], p[2] * q[2]>>

\* The kind of a result, from the kinds of the operands.
ResultKind(op, a, b) ==
    IF a.kind = "Dec" THEN "Dec"
    ELSE IF "Rat" \in {a.kind, b.kind} \/ op = "/" THEN "Rat"
    ELSE IF "Int" \in {a.kind, b.kind} THEN "Int" ELSE "Nat"

\* The quotient has a finite decimal expansion, of at most six places here.
Terminates(a, b) ==
    LET d == Number(b.coefficient)
    IN  \E k \in 0 .. 6 : Divides(IF d < 0 THEN -d ELSE d, Number(a.coefficient) * 10 ^ k)

\* What must come of an operator on two numbers that go together.
RightValue(op, a, b, v) ==
    LET p == Quantity(a)
        q == Quantity(b)
        r == Quantity(v)
        c == Sign(p[1] * q[2] - q[1] * p[2])
    IN  CASE op \in {"==", "!="} ->
               v = Bool(((c = 0) /\ (a.kind = b.kind \/ "Rat" \in {a.kind, b.kind})) = (op = "=="))
          [] op \in Comparisons \ {"==", "!="} -> v = Bool(Holds(op, c))
          [] OTHER ->
               LET kind == ResultKind(op, a, b)
                   zero == v.kind = "Trap" /\ v.error = "division by zero" /\ v.fault = "request"
               IN  CASE op \in {"/", "%"} /\ q[1] = 0 /\ (kind = "Rat" => op = "/") -> zero
                     [] op \in {"+", "-", "*"} ->
                          IF kind = "Nat" /\ Kept(op, p, q)[1] < 0
                          THEN v = Trap("Nat underflow", "request")
                          ELSE v.kind = kind /\ Canonical(v) /\ SameQuantity(r, Kept(op, p, q))
                     [] op = "/" /\ q[1] # 0 ->
                          IF v.kind = "Trap"
                          THEN kind = "Dec" /\ v.fault = "request" /\ ~Terminates(a, b)
                          ELSE /\ v.kind = kind /\ Canonical(v)
                               /\ r[1] * q[1] * p[2] = p[1] * q[2] * r[2]
                               /\ kind = "Dec" /\ v.exponent < 0 => ~Divides(10, Number(v.coefficient))
                     [] op = "%" /\ kind = "Rat" -> v.kind = "Trap"
                     [] op = "%" /\ kind # "Rat" /\ q[1] # 0 ->
                          LET n == p[1] * q[2]
                              d == q[1] * p[2]
                              rest == r[1] * ((p[2] * q[2]) \div r[2])
                              sized == IF d < 0 THEN -d ELSE d
                          IN  /\ v.kind = kind /\ Canonical(v) /\ Divides(r[2], p[2] * q[2])
                              /\ rest \in -(sized - 1) .. sized - 1 /\ Divides(sized, n - rest)
                              /\ Sign(rest) \in {0, IF kind = "Dec" THEN Sign(n) ELSE Sign(d)}

Together(a, b) == {a.kind, b.kind} \subseteq {"Nat", "Int", "Rat"} \/ {a.kind, b.kind} = {"Dec"}

\* The value an encoded constant stands for.
Encoded(c) ==
    LET sum[i \in Nat] == IF i = 0 THEN 0 ELSE sum[i - 1] * ByteValues + c.bytes[i]
        digits[i \in Nat] == IF i = 0 THEN 0 ELSE digits[i - 1] * 10 + c.digits[i]
        signed(n) == IF c.sign = 1 THEN -n ELSE n
    IN  CASE c.tag = 0 -> sum[Len(c.bytes)]
          [] c.tag = 1 -> signed(sum[Len(c.bytes)])
          [] c.tag = 2 -> signed(digits[Len(c.digits)])

\* What the instruction came to: the value on top, or the trap.
Came == IF status' = "TRAPPED" THEN Trap(error', fault') ELSE Last(frames'[Len(frames')].stack)

\* Arithmetic is exact at every size: a constant is the number its bytes or digits
\* spell, an operator on numbers yields the exact result in its one representation
\* and of the kind its operands call for, a comparison the order of the numbers, and
\* there is a trap, of the request and not of the program, exactly when there is no
\* such result (bigint.c, numeric.c, read_nat and read_decimal of decode.c).  Numbers of
\* different kinds are equal only if one is a Rat: "Do not assume an Int and a Nat
\* compare as equal" (docs/CONTRIBUTOR_CODING_STANDARD.md).  There is no remainder of a
\* Rat; that trap is of the program.  The exponents of the programs
\* here fit an int.
ArithmeticIsExact ==
    [][AtInstruction /\ frames' # frames /\ status' \in {"YIELDED", "TRAPPED"} =>
         /\ Current.op = "BINARY" /\ ~Underflows /\ Current.code \notin {"&&", "||"} =>
              LET a == Operands[1]
                  b == Operands[2]
              IN  {a.kind, b.kind} \subseteq Numbers /\ Together(a, b) => RightValue(Current.code, a, b, Came)
         /\ Current.op = "CONST" =>
              LET c == setup.program[Top.f].ins[Top.pc].constant
              IN  c.tag <= 2 => /\ Canonical(Came)
                                /\ Encoded(c) = Number(IF c.tag = 2 THEN Came.coefficient ELSE Came.integer)]_vars

\* A builtin with an effect is never called while a pure function is on the stack,
\* and beneath an async function, or one of local effect, a call that does not wait
\* is pure or local: through functions and through callables alike.  For direct
\* calls the verification of the program is enough (verify.c, verify_call_edge).
EffectsConfined ==
    /\ acted.builtin # "" =>
         LET built == BUILTINS[acted.builtin]
         IN  \A f \in acted.from :
               /\ program[f].pure => built.pure
               /\ program[f].is_async \/ program[f].local_effect => built.pure \/ built.local \/ built.async
               /\ program[f].local_effect => ~built.async
    /\ error # "invalid async call effect or signature"

\* While a program runs, an instruction has been attempted once more than completed
\* for every frame that waits in it, and in the end every attempt is complete; a
\* branch completes one way or the other (coverage.c, coverage_pending in execute.c).
CoverageBalanced ==
    setup.covered /\ ~coverage.full /\ program # <<>> =>
      \A f \in DOMAIN program : \A pc \in DOMAIN program[f].ins :
        LET cell == coverage.cells[f][pc]
            inside == Cardinality({i \in DOMAIN frames : frames[i].f = f /\ frames[i].pending = pc})
        IN  /\ cell.completed <= cell.attempted
            /\ status \in {"YIELDED", "WAITING", "COMPLETED"} => cell.attempted - cell.completed = inside
            /\ program[f].ins[pc].op \in {"JUMP_FALSE", "ITER_NEXT", "MATCH_VARIANT"} =>
                 cell.branched + cell.fallthrough = cell.completed

\* The bytes from .. to of the peer.
PeerBytes(from, to) == [i \in 1 .. to - from + 1 |-> from + i - 1]

\* A response is the peer's, whole and in order, no longer than the limit, to a
\* request that was sent whole, and is not over after the deadline; a chunk of a
\* stream follows on the one before; and every error that tells the program why names what
\* happened (tcp_exchange_poll, http_transport_poll).
ResponsesAreTrue ==
    \A x \in {acted.exchange} \cup {streams[h] : h \in DOMAIN streams} :
      x # NoExchange /\ Finished(x) =>
        LET ended == x.result.name = "Ok" /\ x.done
            total == IF x.kind = "tcp" THEN Len(x.received) ELSE x.total
            said == x.result.values[1].word
        IN  /\ x.result.name = "Ok" =>
                 /\ x.sent = x.length /\ total <= x.limit
                 /\ x.received = PeerBytes(total - Len(x.received) + 1, total)
            /\ ended => x.left > 0 /\ x.eof /\ x.wrote = total /\ (x.kind = "tcp" => x.sent_eof)
            /\ x.kind # "stream" => x.result = Ok(Bytes(PeerBytes(1, x.wrote))) \/ x.result.name = "Error"
            /\ x.result.name = "Error" =>
                 CASE said = "timed out" -> x.left = 0
                   [] said = "connect failed" -> x.refused \/ x.reset
                   [] said = "response limit exceeded" -> x.wrote > x.limit
                   [] said = "peer closed before request completed" -> x.eof /\ ~x.sent_eof
                   [] said \in {"read failed", "write failed", "shutdown failed"} -> x.reset
                   [] OTHER -> TRUE

\* A handle, once closed, is never that of another stream; one that is open keeps its
\* stream until it is closed; no more are given out than the table has places, closed
\* or not; and a read blocks on a stream that is open (http_stream_call).
HandlesNeverReturn ==
    [][/\ status' # "destroyed" =>
            \A h \in DOMAIN streams :
              /\ h \in DOMAIN streams'
              /\ streams[h] = NoExchange => streams'[h] = NoExchange
              /\ streams[h] # NoExchange /\ streams'[h] = NoExchange =>
                   acted'.builtin = "http_stream_close"
       /\ Cardinality(DOMAIN streams') <= MaxHandles
       /\ reading' # 0 => streams'[reading'] # NoExchange]_vars

\* What the execution has been promised and has not received.
Outstanding ==
    {w \in {"tcp", "http", "console", "root", "answer"} :
        CASE w = "tcp" -> tcp # NoExchange
          [] w = "http" -> http # NoExchange
          [] w = "console" -> console_write # "none"
          [] w = "root" -> root_read # "none"
          [] w = "answer" -> registered # {} \/ (waiting_read /\ {tcp, http} = {NoExchange})}

\* Until an embedder answers a print that nobody asked for, an execution that waits,
\* waits for exactly one thing, and one that does not wait for nothing: whatever reads
\* the embedder answers, early or twice, no answer is left behind that a later wait
\* could take for its own (vm_execution_complete_read, the polls).
WaitsForOne ==
    ~acted.unasked => Cardinality(Outstanding) = IF status = "WAITING" THEN 1 ELSE 0

\* A wait for a file ends with its own result and no other, as the comment in
\* vm_execution_poll_filesystem says: "Fake/network completion entry points cannot
\* inject a filesystem result into this wait."
FileWaitsForItsOwn == root_read # "none" => status = "WAITING"

\* Every wait ends: with an answer, or at the latest with the deadline.
WaitsEnd == (status = "WAITING" \/ reading # 0) ~> (status # "WAITING" /\ reading = 0)
================================================================================
