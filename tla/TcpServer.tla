------------------------------ MODULE TcpServer ------------------------------
(***************************************************************************)
(* The TCP and HTTP server owner (src/vm/tcp_server.c): a listener, a few  *)
(* client slots that are reused, and one handler execution per client.     *)
(* Its owner (vm_execution_pump_server, http_runtime_pump) calls           *)
(* tcp_server_poll and tcp_server_advance in turn, tcp_server_stop and     *)
(* tcp_server_destroy when it likes.                                       *)
(*                                                                         *)
(* The server runs on one thread, but the clock advances and peers act     *)
(* between any two of its reads of the clock, so each such stretch of code *)
(* is a step.  A deadline is kept as the time left until it; 0 is expired. *)
(* The result of a C function that depends on the outside is the set of    *)
(* server states it may leave.  Bytes are counted, not kept.               *)
(***************************************************************************)
EXTENDS Integers, Sequences, FiniteSets, FiniteSetsExt

CONSTANT
    Setups      \* how the server may be started, and how large an instance is

ASSUME ServerAssumption ==
    \A s \in Setups :
        /\ s.mode \in {"finite", "stream", "service", "routed"}
        /\ {s.concurrency, s.clients, s.response, s.timeout,
            s.admission, s.size_max, s.budget} \subseteq Nat \ {0}
        /\ {s.request, s.requests, s.interim, s.drain} \subseteq Nat
        /\ s.clients <= s.size_max
        /\ s.pumped \in BOOLEAN

VARIABLES
    setup,      \* how this server is started
    server,     \* VMTcpServer, and the http_state's count of admitted requests
    pc,         \* where the owner's thread stands
    fds,        \* poll's descriptors still to be looked at
    turn,       \* slot whose handler just ran, and its status
    idle, budget,       \* locals of tcp_server_advance
    touched     \* the socket the last step used: who was polled, who was served

vars == <<setup, server, pc, fds, turn, idle, budget, touched>>

mode == setup.mode                      \* the entry point
Concurrency == setup.concurrency        \* limits.concurrency
Clients == setup.clients                \* limits.clients
RequestLimit == setup.request           \* limits.request_limit
ClientTimeout == setup.timeout          \* the other limits, in ticks
AdmissionTimeout == setup.admission
Drain == setup.drain
ResponseLength == setup.response        \* bytes of a response
InterimLength == setup.interim          \* bytes of 100 Continue, 0 if no client expects it
RequestSlots == setup.requests          \* admitted requests of an HTTP server (4 in the code)
SizeMax == setup.size_max               \* SIZE_MAX, the last client sequence number
Pumped == setup.pumped                  \* whether the owner goes on pumping to the end
MaxBudget == setup.budget               \* bound: instructions per tcp_server_advance

Slots == 0 .. Concurrency - 1
Ids == 1 .. SizeMax
Streaming == mode # "finite"
Continuous == mode \in {"service", "routed"}
Routed == mode = "routed"

NoClient ==
    [state |-> "free", id |-> 0, fd |-> 0, timer |-> 0, received |-> 0, eof |-> FALSE,
     response |-> "none", sent |-> 0, interim |-> 0,
     execution |-> FALSE, completed |-> "none", admitted |-> FALSE]

NoTouch == [polled |-> 0, served |-> 0, late |-> FALSE]
NoTurn == [slot |-> 0, status |-> "waiting"]

\* Slots that hold a client.
Taken(S) == {i \in Slots : S.clients[i].state # "free"}

Init ==
    /\ setup \in Setups
    /\ server = [clients |-> [i \in Slots |-> NoClient], listener |-> FALSE,
                 stopping |-> FALSE, done |-> FALSE, error |-> FALSE, result |-> "none",
                 admitted |-> 0, active |-> 0, succeeded |-> 0, failed |-> 0,
                 outcomes |-> [id \in Ids |-> "none"],
                 admission |-> 0, drain |-> 0, next_io |-> 0, next_handler |-> 0,
                 ready_pending |-> FALSE, requests |-> 0, wire |-> [id \in Ids |-> << >>]]
    /\ pc = "start"
    /\ fds = << >> /\ turn = NoTurn /\ idle = 0 /\ budget = 0
    /\ touched = NoTouch

-----------------------------------------------------------------------------
(* Letting go of clients.                                                   *)

\* Closes the sockets, destroys the executions, and ends the connections of the
\* slots E, which gives back their request places.
client_clear(S, E) ==
    [S EXCEPT !.clients = [i \in Slots |-> IF i \in E THEN NoClient ELSE @[i]],
              !.requests = @ - Cardinality({i \in E : S.clients[i].admitted})]

close_all(S) ==
    [client_clear(S, Slots) EXCEPT !.ready_pending = FALSE, !.listener = FALSE, !.active = 0]

trap(S) == [close_all(S) EXCEPT !.error = TRUE, !.done = TRUE]

\* Mutant: the server that failed is not done.
fail_running(S) == [close_all(S) EXCEPT !.result = "error"]

fail(S) == [close_all(S) EXCEPT !.result = "error", !.done = TRUE]

\* Mutant: nothing is reported for the clients.
finish_clients_silent(S, E, outcome) == [client_clear(S, E) EXCEPT !.active = @ - Cardinality(E)]

\* The clients of the slots E have the outcome.  (Nothing makes a difference between
\* the orders in which a loop takes them.)
finish_clients(S, E, outcome) ==
    LET T == [client_clear(S, E) EXCEPT !.active = @ - Cardinality(E)] IN
        IF ~Continuous
        THEN [T EXCEPT !.outcomes =
                [id \in Ids |-> IF \E i \in E : S.clients[i].id = id THEN outcome ELSE @[id]]]
        ELSE IF outcome = "ok" THEN [T EXCEPT !.succeeded = @ + Cardinality(E)]
        ELSE [T EXCEPT !.failed = @ + Cardinality(E)]

finish_client(S, i, outcome) == finish_clients(S, {i}, outcome)

-----------------------------------------------------------------------------
(* Responses of an HTTP server.                                             *)

\* http_attach_response: from now on the committed response is flushed.
http_attach_response(S, i) ==
    [S EXCEPT !.clients[i].response = IF @ = "none" THEN S.clients[i].completed ELSE @]

\* The same for every client, before poll.
http_attach_responses(S) ==
    [S EXCEPT !.clients = [i \in Slots |-> http_attach_response(S, i).clients[i]]]

\* n more pieces of a message reach the peer of slot i.
Emit(S, i, message, n) ==
    IF ~Routed THEN S
    ELSE [S EXCEPT !.wire[S.clients[i].id] = @ \o [j \in 1 .. n |-> message]]

\* Mutant: the timeout is answered whatever was sent before.
http_deadline_response_blunt(S, i) ==
    IF S.clients[i].fd = 0 THEN S ELSE Emit(S, i, "timeout", 1)

\* A last nonblocking send: the rest of the response, or 504.  (Of what the
\* peer may get of it, the whole is kept.)
http_deadline_response(S, i) ==
    LET T == http_attach_response(S, i) IN
        IF S.clients[i].fd = 0 THEN S
        ELSE IF T.clients[i].response = "none" THEN Emit(T, i, "timeout", 1)
        ELSE Emit(T, i, T.clients[i].response, ResponseLength - T.clients[i].sent)

\* The handler has ended; its response is still to be flushed, or was.
http_finish_execution(S, i) ==
    LET T == [http_attach_response(S, i) EXCEPT !.clients[i].execution = FALSE] IN
        IF T.clients[i].sent = ResponseLength THEN finish_client(T, i, "ok")
        ELSE [T EXCEPT !.clients[i].state = "write"]

\* A handler that ended, or failed, without a response gets a 500.
http_handler_finished(S, i) ==
    http_finish_execution(
        [S EXCEPT !.clients[i].completed = IF @ = "none" THEN "internal" ELSE @], i)

-----------------------------------------------------------------------------
(* Deadlines.                                                               *)

\* Admission ends; late is how long ago it should have.
stop_at(S, late) ==
    IF S.stopping THEN S
    ELSE [S EXCEPT !.stopping = TRUE, !.drain = Max({0, Drain - late}), !.listener = FALSE]

\* A client whose time is up, or whose grace in a stopping server is.
Expired(S, i) == S.clients[i].timer = 0
Drained(S) == S.stopping /\ S.drain = 0

\* The last words to clients whose time is up.
LastWords(S, E) ==
    [S EXCEPT !.wire = [id \in Ids |->
        IF \E i \in E : S.clients[i].id = id
        THEN http_deadline_response(S, CHOOSE i \in E : S.clients[i].id = id).wire[id] ELSE @[id]]]

\* Admission ends by itself.  (A continuous server has no deadline for it.)
AdmissionEnds(S) ==
    IF ~Continuous /\ ~S.stopping /\ S.admission <= 0 THEN stop_at(S, -S.admission) ELSE S

\* Every client of E has had its time.
FinishExpired(S, E) ==
    finish_clients(IF Routed THEN LastWords(S, {i \in E : Expired(S, i)}) ELSE S, E, "error")

\* With nobody left a stopping server is done.
Settle(S) ==
    IF S.stopping /\ S.active = 0
    THEN [S EXCEPT !.ready_pending = FALSE, !.done = TRUE, !.result = "ok"] ELSE S

\* Mutant: a client's own deadline is forgotten.
deadlines_patient(S) ==
    LET A == AdmissionEnds(S)
    IN  IF S.done THEN S ELSE Settle(FinishExpired(A, {i \in Taken(A) : Drained(A)}))

\* The function returns true when the server is not done afterwards.
deadlines(S) ==
    LET A == AdmissionEnds(S)
    IN  IF S.done THEN S
        ELSE Settle(FinishExpired(A, {i \in Taken(A) : Expired(A, i) \/ Drained(A)}))

\* Time passes.
Tick ==
    LET Left(t) == Max({0, t - 1}) IN
    /\ pc \notin {"start", "destroyed"} /\ ~server.done
    /\ server' = [server EXCEPT
                    !.clients = [i \in Slots |-> [server.clients[i] EXCEPT !.timer = Left(@)]],
                    !.admission = Max({-Drain, @ - 1}),
                    !.drain = Left(@)]
    /\ UNCHANGED <<setup, pc, fds, turn, idle, budget, touched>>

-----------------------------------------------------------------------------
(* Starting, stopping, destroying.                                          *)

\* Where the owner's thread goes next.  The locals of a function end with it; poll's
\* descriptors are those of the loop that follows.
Goes(place) ==
    /\ pc' = place
    /\ fds' = IF place = "dispatch" THEN fds ELSE << >>
    /\ turn' = NoTurn /\ idle' = 0 /\ budget' = 0
    /\ touched' = NoTouch
    /\ UNCHANGED setup

\* tcp_server_start_mode, and the readiness callback of a service.
tcp_server_start ==
    /\ pc = "start"
    /\ \/ server' = [server EXCEPT !.listener = TRUE, !.admission = IF Continuous THEN -Drain ELSE AdmissionTimeout,
                                   !.ready_pending = (mode = "service")]
       \/ server' = fail(server)
       \/ server' = trap(server)
    /\ Goes("idle")

tcp_server_stop ==
    /\ pc = "idle" /\ ~server.done
    /\ LET S == deadlines(server) IN
        server' = IF S.done THEN S ELSE deadlines(stop_at(S, 0))
    /\ Goes("idle")

tcp_server_destroy ==
    /\ pc = "idle"
    /\ server' = close_all(server)
    /\ Goes("destroyed")

\* A clock or a poll that fails, an accept or a listener in error; memory that
\* runs out; a result of the wrong type.
Fails ==
    /\ pc \notin {"start", "destroyed"} /\ ~server.done
    /\ server' \in {fail(server), trap(server)}
    /\ Goes("idle")

-----------------------------------------------------------------------------
(* tcp_server_poll.                                                         *)

\* accept_client.  A connection beyond the slots of an HTTP server gets a 503
\* and is closed.
AcceptedInto(S, i, fd) ==
    LET T == [S EXCEPT !.admitted = @ + 1, !.active = @ + 1,
                       !.clients[i] = [NoClient EXCEPT
                            !.state = IF Streaming THEN "start" ELSE "read",
                            !.id = S.admitted + 1, !.fd = fd, !.timer = ClientTimeout]]
    IN  {T, finish_client(T, i, "error")}

accept_client(S) ==
    LET room == Slots \ Taken(S)
        used == {S.clients[i].fd : i \in Slots}
        fd == Min((1 .. Concurrency + 1) \ used)
        last(T) == ~Continuous /\ T.admitted = Clients
    IN  IF S.stopping \/ (~Routed /\ S.active = Concurrency) THEN {S}
        ELSE IF S.admitted = SizeMax THEN {fail(S)}
        ELSE IF room = {} THEN {S}
        ELSE {S} \cup {IF last(T) THEN stop_at(T, 0) ELSE T :
                            T \in AcceptedInto(S, Min(room), fd)}

\* recv fills one unit or two; both fit unless the limit is near.
read_client(S, i) ==
    {S, [S EXCEPT !.clients[i].state = "start"], finish_client(S, i, "error")} \cup
    {IF n > RequestLimit - S.clients[i].received THEN finish_client(S, i, "error")
     ELSE [S EXCEPT !.clients[i].received = @ + n] : n \in 1 .. 2}

complete_stream_read(S, i) == [S EXCEPT !.clients[i].state = "run"]

read_stream_chunk(S, i) ==
    LET ended == [S EXCEPT !.clients[i].eof = TRUE]
        data == {IF Routed THEN S
                 ELSE IF n > RequestLimit - S.clients[i].received THEN ended
                 ELSE [S EXCEPT !.clients[i].received = @ + n] : n \in 1 .. 2}
    IN  IF S.clients[i].eof THEN {complete_stream_read(S, i)}
        ELSE {S} \cup {complete_stream_read(T, i) : T \in data \cup {ended, S}}

write_interim(S, i) ==
    {finish_client(S, i, "error")} \cup
    {LET T == [Emit(S, i, "continue", n) EXCEPT !.clients[i].interim = @ + n] IN
        IF T.clients[i].interim = InterimLength THEN complete_stream_read(T, i) ELSE T :
        n \in 0 .. InterimLength - S.clients[i].interim}

\* Mutant: the client is let go although its handler still runs.
write_client_finishes(S, i) ==
    {finish_client(S, i, "error")} \cup
    {LET T == [Emit(S, i, S.clients[i].response, n) EXCEPT !.clients[i].sent = @ + n] IN
        IF T.clients[i].sent < ResponseLength THEN T ELSE finish_client(T, i, "ok") :
        n \in 0 .. ResponseLength - S.clients[i].sent}

\* A response that is out before its handler ends only closes the socket.
write_client(S, i) ==
    {finish_client(S, i, "error")} \cup
    {LET T == [Emit(S, i, S.clients[i].response, n) EXCEPT !.clients[i].sent = @ + n] IN
        IF T.clients[i].sent < ResponseLength THEN T
        ELSE IF Routed /\ T.clients[i].execution THEN [T EXCEPT !.clients[i].fd = 0]
        ELSE finish_client(T, i, "ok") :
        n \in 0 .. ResponseLength - S.clients[i].sent}

\* What poll says of a client: it can be written to, or its socket is broken.
Serve(S, i) ==
    LET Read(T) ==
            CASE T.clients[i].state = "read" -> read_client(T, i)
              [] T.clients[i].state = "streamRead" -> read_stream_chunk(T, i)
              [] T.clients[i].state = "interimWrite" -> write_interim(T, i)
              [] T.clients[i].state = "write" /\ ~Routed -> write_client(T, i)
              [] OTHER -> {T}
        Rest(T) ==
            IF T.clients[i].state = "free" \/ T.clients[i].fd = 0 THEN {T}
            ELSE {finish_client(T, i, "error")} \cup Read(T)
        written == IF Routed /\ S.clients[i].response # "none" THEN write_client(S, i) ELSE {}
    IN  UNION {Rest(T) : T \in {S} \cup written}

\* The descriptors poll waits for; the listener first, then the clients from
\* next_io on.
Snapshot(S) ==
    LET Slot(j) == (S.next_io + j - 1) % Concurrency
        Polled(i) ==
            \/ S.clients[i].state \in {"read", "streamRead", "interimWrite", "write"}
            \/ S.clients[i].state = "run" /\ Routed /\ S.clients[i].fd # 0
        slots == SelectSeq([j \in 1 .. Concurrency |-> Slot(j)], Polled)
    IN  (IF ~S.stopping /\ (Routed \/ S.active < Concurrency)
         THEN <<[slot |-> Concurrency, id |-> 0, fd |-> 0]>> ELSE << >>)
        \o [j \in DOMAIN slots |-> [slot |-> slots[j], id |-> S.clients[slots[j]].id,
                                    fd |-> S.clients[slots[j]].fd]]

\* Up to the call of poll.  While the readiness callback runs nobody is served.
PollBegins ==
    /\ pc = "idle" /\ ~server.done
    /\ LET S == deadlines(server)
           T == IF Routed THEN http_attach_responses(S) ELSE S
       IN  IF S.done \/ S.ready_pending
           THEN /\ server' = S
                /\ Goes("polled")
           ELSE /\ server' = T
                /\ fds' = Snapshot(T)
                /\ pc' = "polling"
                /\ touched' = NoTouch
                /\ UNCHANGED <<setup, turn, idle, budget>>

\* poll returns; nothing may be ready, and expiry wins over readiness.
PollReturns ==
    /\ pc = "polling"
    /\ server' = deadlines(server)
    /\ \/ ~server'.done /\ Goes("dispatch")
       \/ Goes("polled")

Recheck(S) == deadlines(S)

\* Mutant: the slot and the descriptor number identify the client.
Current_reused(S, e) ==
    /\ S.clients[e.slot].fd = e.fd
    /\ S.clients[e.slot].state # "free"

\* Is the client polled for still the one in the slot?
Current(S, e) ==
    /\ S.clients[e.slot].fd = e.fd
    /\ S.clients[e.slot].id = e.id
    /\ S.clients[e.slot].state # "free"

\* One round of the loop over the descriptors, ready or not.
Dispatch ==
    /\ pc = "dispatch" /\ fds # << >>
    /\ LET S == Recheck(server)
           e == Head(fds)
           served == e.slot \in Slots /\ Current(S, e)
       IN  /\ \/ server' = S /\ touched' = NoTouch
              \/ /\ ~S.done /\ e.slot = Concurrency
                 /\ server' \in accept_client(S)
                 /\ touched' = NoTouch
              \/ /\ ~S.done /\ served
                 /\ server' \in Serve(S, e.slot)
                 /\ touched' = [polled |-> e.id, served |-> S.clients[e.slot].id,
                                late |-> Expired(S, e.slot) \/ Drained(S)]
           /\ IF S.done THEN pc' = "polled" /\ fds' = << >>
              ELSE pc' = pc /\ fds' = Tail(fds)
    /\ UNCHANGED <<setup, turn, idle, budget>>

PollEnds ==
    /\ pc = "dispatch" /\ fds = << >>
    /\ server' = deadlines([server EXCEPT !.next_io = (@ + 1) % Concurrency])
    /\ Goes("polled")

-----------------------------------------------------------------------------
(* tcp_server_advance.                                                      *)

\* The readiness callback runs: it goes on, succeeds, or ends the service.
advance_ready(S) ==
    {S, [S EXCEPT !.ready_pending = FALSE], fail(S), trap(S)}

AdvanceBegins ==
    /\ pc = "polled"
    /\ LET S == deadlines(server) IN
        \/ /\ S.done
           /\ server' = S
           /\ Goes("idle")
        \/ /\ ~S.done /\ S.ready_pending
           /\ server' \in advance_ready(S)
           /\ Goes("idle")
        \/ /\ ~S.done /\ ~S.ready_pending
           /\ server' = S
           /\ pc' = "advance" /\ idle' = 0 /\ budget' \in 0 .. MaxBudget
           /\ touched' = NoTouch
           /\ UNCHANGED <<setup, fds, turn>>

\* start_handler.
start_handler(S, i) ==
    [S EXCEPT !.clients[i].state = "run", !.clients[i].execution = TRUE]

\* "failed" is an Error result, or a request fault of an HTTP handler; any other
\* fault is "trapped".
Statuses == {"yielded", "waiting", "completed", "failed", "exited", "trapped"}

\* One instruction of the handler of slot i: the server it leaves, and the
\* status.  A call to the server's services comes in the order in which the
\* package's connection worker makes them: admission, 100 Continue, response.
Instruction(S, i) ==
    LET c == S.clients[i]
        Now(T, status) == [server |-> T, status |-> status]
        If(guard, T, status) == IF guard THEN {Now(T, status)} ELSE {}
    IN  {Now(S, status) : status \in Statuses}
        \cup If(Streaming, [S EXCEPT !.clients[i].state = "streamRead"], "waiting")
        \cup If(Routed /\ ~c.admitted /\ S.requests < RequestSlots,
                [S EXCEPT !.clients[i].admitted = TRUE, !.requests = @ + 1], "yielded")
        \cup If(c.admitted /\ c.interim = 0 /\ InterimLength > 0 /\ c.completed = "none",
                [S EXCEPT !.clients[i].state = "interimWrite"], "waiting")
        \cup If(Routed /\ c.completed = "none",
                [S EXCEPT !.clients[i].completed = "handler"], "yielded")

\* The loop up to the handler's instruction.
Turn ==
    /\ pc = "advance"
    /\ LET S == IF budget = 0 THEN server ELSE deadlines(server)
           i == S.next_handler
           T == [S EXCEPT !.next_handler = (@ + 1) % Concurrency]
           U == IF T.clients[i].state = "start" THEN start_handler(T, i) ELSE T
       IN  \/ /\ budget = 0 \/ S.done \/ idle = Concurrency
              /\ server' = S
              /\ Goes("idle")
           \/ /\ budget > 0 /\ ~S.done /\ idle < Concurrency
              /\ idle' = idle + 1
              /\ touched' = NoTouch
              /\ IF U.clients[i].state # "run"
                 THEN /\ server' = U
                      /\ UNCHANGED <<pc, turn, budget>>
                 ELSE /\ \E x \in Instruction(U, i) :
                            /\ server' = x.server
                            /\ turn' = [slot |-> i, status |-> x.status]
                      /\ budget' = budget - 1
                      /\ pc' = "turned"
              /\ UNCHANGED <<setup, fds>>

\* The server once the handler of slot i has ended with a status.
\* handler_result of a plain server: the response may be too long.
HandlerEnds(S, i, status) ==
    IF status \in {"completed", "failed"} /\ Routed THEN {http_handler_finished(S, i)}
    ELSE IF status = "completed" THEN
        {[S EXCEPT !.clients[i].response = "handler", !.clients[i].execution = FALSE,
                   !.clients[i].state = "write"],
         finish_client(S, i, "error")}
    ELSE IF status = "failed" THEN {finish_client(S, i, "error")}
    ELSE IF status = "exited" /\ Routed THEN
        {IF S.clients[i].completed # "none" THEN http_finish_execution(S, i)
         ELSE finish_client(S, i, "error")}
    ELSE {trap(S)}

\* The rest of the loop's body, after another look at the clock.
AfterTurn ==
    /\ pc = "turned"
    /\ LET S == deadlines(server)
           i == turn.slot
       IN  /\ server' \in IF S.done \/ S.clients[i].state # "run"
                             \/ turn.status \in {"yielded", "waiting"}
                          THEN {S} ELSE HandlerEnds(S, i, turn.status)
           /\ idle' = IF S.clients[i].state = "run" /\ turn.status = "yielded" THEN 0 ELSE idle
           /\ pc' = IF S.done THEN "idle" ELSE "advance"
    /\ turn' = NoTurn
    /\ touched' = NoTouch
    /\ UNCHANGED <<setup, fds, budget>>

-----------------------------------------------------------------------------
\* The owner's pump.
Pump ==
    \/ PollBegins \/ PollReturns \/ Dispatch \/ PollEnds
    \/ AdvanceBegins \/ Turn \/ AfterTurn

Next ==
    \/ tcp_server_start \/ tcp_server_stop \/ tcp_server_destroy \/ Fails
    \/ Pump \/ Tick

Spec == Init /\ [][Next]_vars

-----------------------------------------------------------------------------
(* Properties.                                                              *)

Live(id) == \E i \in Taken(server) : server.clients[i].id = id

\* No client is forgotten and none is reported twice: until the server fails,
\* each admitted client either holds one slot or has its outcome, the counters
\* of a continuous server add up, and the array of a finite server has no gaps.
\* A place among the admitted requests, of which there are RequestSlots, is held
\* exactly by a client that is still there; and "every child and socket is released
\* before normal completion or failure" (src/vm/README.md).
ClientsAccounted ==
    /\ server.active = Cardinality(Taken(server))
    /\ Cardinality({server.clients[i].id : i \in Taken(server)}) = server.active
    /\ (pc # "destroyed" /\ ~server.error /\ server.result # "error") =>
        IF Continuous THEN server.succeeded + server.failed + server.active = server.admitted
        ELSE \A id \in Ids : (server.outcomes[id] # "none")
                                <=> (id <= server.admitted /\ ~Live(id))
    /\ server.requests = Cardinality({i \in Slots : server.clients[i].admitted})
    /\ server.requests <= RequestSlots
    /\ (server.done \/ pc = "destroyed") =>
            /\ Taken(server) = {} /\ server.active = 0 /\ server.requests = 0
            /\ ~server.listener /\ ~server.ready_pending

\* A socket is read or written only for the client that poll was asked about,
\* although slots and descriptor numbers are reused while the loop runs ("Never
\* deliver its predecessor's readiness to the new connection"), and never for one
\* past its deadline or past the drain ("Expiry wins over readiness",
\* "cancellation precedes further I/O").
ServesOnlyCurrent == touched.served = touched.polled /\ ~touched.late

\* What the peer of client id got, apart from 100 Continue.
Final(S, id) == SelectSeq(S.wire[id], LAMBDA x : x # "continue")

\* A peer sees at most one response, of one kind, in one piece and after the
\* interim one: a 504 is never put after the beginning of another response.
OneResponse ==
    \A id \in Ids :
        /\ Cardinality(Range(Final(server, id))) <= 1
        /\ Len(Final(server, id)) <= IF "timeout" \in Range(Final(server, id)) THEN 1 ELSE ResponseLength
        /\ \A j, k \in DOMAIN server.wire[id] :
                (j < k /\ server.wire[id][k] = "continue") => server.wire[id][j] = "continue"

\* A routed client counts as succeeded only when its whole response is out and
\* its handler has ended by itself: flushing early does not cut a handler off.
SuccessIsComplete ==
    [][(Routed /\ server'.succeeded > server.succeeded) =>
        \E i \in Taken(server) :
            /\ server'.clients[i].state = "free"
            /\ server.clients[i].execution => (pc = "turned" /\ turn.slot = i)
            /\ Len(Final(server', server.clients[i].id)) = ResponseLength]_vars

\* The server in the terms of Listener.
Phase ==
    IF pc = "start" THEN "new"
    ELSE IF pc = "destroyed" THEN "gone"
    ELSE IF server.error THEN "trapped"
    ELSE IF server.result = "error" THEN "failed"
    ELSE IF server.done THEN "drained"
    ELSE IF server.stopping THEN "draining"
    ELSE "listening"

Abstract == INSTANCE Listener WITH phase <- Phase

\* tcp_server.c implements Listener: it never listens again once it has begun to
\* stop, and how it ended does not change afterwards.
ImplementsListener == Abstract!Spec

-----------------------------------------------------------------------------
(* Progress.  An owner that pumps its server goes on until it is done, and  *)
(* time passes; nothing is assumed of peers and handlers.                   *)

FairSpec == Spec /\ WF_vars(Pumped /\ Pump) /\ WF_vars(Pumped /\ Tick)

\* A server that was told to stop, and a finite one in any case, gets done, and
\* every client ends, whatever its peer and its handler do.
ServerStops ==
    /\ (Pumped /\ (server.stopping \/ (pc = "idle" /\ ~Continuous))) ~> (server.done \/ pc = "destroyed")
    /\ \A id \in UNION {1 .. s.size_max : s \in {s \in Setups : s.pumped}} :
           (Pumped /\ Live(id)) ~> ~Live(id)

===============================================================================
