------------------------------- MODULE Exchange -------------------------------
(***************************************************************************)
(* One request to a peer and its response, under one absolute deadline: the *)
(* TCP exchange (src/vm/tcp.c), the HTTP transport over libcurl, and the    *)
(* HTTP stream, whose response is read chunk by chunk (http_transport.c).   *)
(*                                                                          *)
(* An exchange is a record with the fields of VMTcpExchange and             *)
(* VMHttpTransport, the two ends of its connection as the kernel keeps them,*)
(* and the peer, a script of what it will do.  An operation is the set of   *)
(* records it may lead to.  A poll takes three steps: the look at the clock *)
(* and the wait (Polls), the return of the wait with what is ready then     *)
(* (Returns), and the second look with the input and output (Acts); the     *)
(* peer and the clock move in between.  Bytes are numbered by the peer.     *)
(***************************************************************************)
EXTENDS Integers, Sequences, FiniteSets

CONSTANTS
    Chunk,      \* bytes of one send or recv
    Room        \* bytes the kernel holds for a peer that does not read

ASSUME ExchangeAssumption == {Chunk, Room} \subseteq Nat \ {0}

Kinds == {"tcp", "http", "stream"}
Least(a, b) == IF a < b THEN a ELSE b

NoResult == [kind |-> "None"]
Ok(v) == [kind |-> "Variant", name |-> "Ok", values |-> <<v>>]
Error(text) == [kind |-> "Variant", name |-> "Error", values |-> <<[kind |-> "Str", text |-> <<>>, word |-> text]>>]
Bytes(data) == [kind |-> "Bytes", data |-> data]

\* The socket, or curl's handles, are closed with the end.
finish(x, error) ==
    [x EXCEPT !.done = TRUE, !.open = FALSE, !.step = "idle",
              !.result = IF error = "" THEN Ok(Bytes(x.received)) ELSE Error(error)]

-----------------------------------------------------------------------------
(* The connection.                                                          *)

Again == -1
Failed == -2

\* What poll reports: "out" for POLLOUT, "in" for POLLIN and, asked for or not,
\* POLLHUP and POLLERR.
Revents(x, events) ==
    {e \in events \cup {"in"} :
        CASE e = "out" -> x.refused \/ x.reset \/ (x.established /\ x.outbox < Room)
          [] e = "in" -> \/ x.refused \/ x.reset
                         \/ "in" \in events /\ (x.inbox # <<>> \/ x.eof)}

\* send: some of the bytes, or none for now; after a reset it fails.  Bytes for a
\* peer that closed are answered with a reset.
Sends(x) ==
    LET left == x.length - x.sent
        took(n) == IF x.closed THEN [x EXCEPT !.sent = @ + n, !.reset = TRUE]
                   ELSE [x EXCEPT !.sent = @ + n, !.outbox = @ + n]
    IN  IF x.reset THEN {finish(x, "write failed")}
        ELSE {x} \cup {took(n) : n \in 1 .. Least(Least(left, Chunk), Room - x.outbox)}

\* recv: how many bytes, none at the end of input, or that there is nothing yet.
Receives(x) ==
    IF x.inbox # <<>> THEN 1 .. Least(Len(x.inbox), Chunk)
    ELSE {IF x.reset THEN Failed ELSE IF x.eof THEN 0 ELSE Again}

\* n bytes go from the kernel to the response.
Taken(x, n) ==
    [x EXCEPT !.received = @ \o SubSeq(x.inbox, 1, n), !.inbox = SubSeq(@, n + 1, Len(@)),
              !.total = IF x.kind = "tcp" THEN @ ELSE @ + n]

\* The peer takes its next step; after the last it hangs.
PeerSteps(x) ==
    LET rest == [x EXCEPT !.peer = Tail(@)]
    IN  IF x.peer = <<>> \/ ~x.open THEN {}
        ELSE CASE Head(x.peer) = "refuse" -> {[rest EXCEPT !.refused = TRUE]}
               [] Head(x.peer) = "accept" -> {[rest EXCEPT !.established = TRUE]}
               [] Head(x.peer) = "read" -> IF x.outbox = 0 THEN {} ELSE {[rest EXCEPT !.outbox = 0]}
               [] Head(x.peer) = "eof" -> IF x.outbox > 0 \/ ~x.sent_eof THEN {} ELSE {rest}
               [] Head(x.peer) = "write" -> {[rest EXCEPT !.wrote = @ + 1, !.inbox = Append(@, x.wrote + 1)]}
               [] Head(x.peer) = "close" -> {[rest EXCEPT !.eof = TRUE, !.closed = TRUE, !.reset = x.outbox > 0]}
               [] Head(x.peer) = "reset" -> {[rest EXCEPT !.reset = TRUE, !.inbox = b] : b \in {x.inbox, <<>>}}

Ticks(x) == [x EXCEPT !.left = IF @ = 0 \/ ~x.open THEN @ ELSE @ - 1]

-----------------------------------------------------------------------------
(* The start.                                                               *)

Unstarted(kind, args) ==
    [kind |-> kind, length |-> args.length, limit |-> args.limit, left |-> args.timeout,
     sent |-> 0, received |-> <<>>, total |-> 0, result |-> NoResult, step |-> "idle", ready |-> {},
     connecting |-> FALSE, sent_eof |-> FALSE, done |-> FALSE, paused |-> FALSE, open |-> FALSE,
     established |-> FALSE, refused |-> FALSE, outbox |-> 0, inbox |-> <<>>, wrote |-> 0,
     eof |-> FALSE, closed |-> FALSE, reset |-> FALSE, peer |-> args.peer]

\* connect succeeds or fails at once or is in progress.
tcp_exchange_start(args) ==
    LET x == Unstarted("tcp", args)
        opened == [x EXCEPT !.open = TRUE]
    IN  IF ~args.valid THEN {finish(x, "invalid arguments")}
        ELSE {finish(x, "clock failed"), finish(opened, "socket failed"), [opened EXCEPT !.connecting = TRUE]}
             \cup {[opened EXCEPT !.established = TRUE, !.peer = Tail(@)] :
                      p \in {p \in {args.peer} : p # <<>> /\ Head(p) = "accept"}}
             \cup {finish([opened EXCEPT !.refused = TRUE], "connect failed") :
                      p \in {p \in {args.peer} : p # <<>> /\ Head(p) = "refuse"}}

\* curl is set up; it connects when it is polled.
transport_start(args, kind) ==
    LET x == Unstarted(kind, args)
        opened == [x EXCEPT !.open = TRUE]
    IN  IF ~args.valid THEN {finish(x, "invalid arguments")}
        ELSE {finish(x, "clock failed"), finish(opened, "initialization failed"),
              [opened EXCEPT !.connecting = TRUE]}

-----------------------------------------------------------------------------
(* A poll.                                                                  *)

Events(x) ==
    IF x.kind = "tcp" THEN {"in"} \cup (IF x.connecting \/ ~x.sent_eof THEN {"out"} ELSE {})
    ELSE IF x.sent < x.length THEN {"out"} ELSE {"in"}

\* Mutant: only what becomes ready ends the wait.
Polls_patient(x) ==
    IF x.done \/ x.paused THEN {}
    ELSE {[x EXCEPT !.step = IF x.kind # "tcp" /\ x.connecting THEN "act" ELSE "wait"]}

\* The first look at the clock.  curl does the waiting while it connects.
Polls(x) ==
    IF x.done \/ x.paused THEN {}
    ELSE IF x.left = 0 THEN {finish(x, "timed out")}
    ELSE {finish(x, "clock failed"),
          [x EXCEPT !.step = IF x.kind # "tcp" /\ x.connecting THEN "act" ELSE "wait"]}

\* The wait is over: something is ready, or it took as long as it may, or a signal
\* came.  A TCP exchange interrupted by a signal goes back to its caller at once.
Returns(x) ==
    LET interrupted == [x EXCEPT !.step = IF x.kind = "tcp" THEN "idle" ELSE "act", !.ready = {}]
    IN  {[x EXCEPT !.step = "act", !.ready = Revents(x, Events(x))], interrupted, finish(x, "poll failed")}

\* Mutant: what is ready is served without the second look.
Late_not(x) == FALSE

\* The second look: deadlines win even when readiness arrives in the same poll.
Late(x) == x.left = 0

\* SO_ERROR tells of a refusal, and of a reset that came after the peer accepted.
tcp_exchange_connects(x) ==
    IF ~x.connecting THEN x
    ELSE IF x.refused \/ x.reset THEN finish(x, "connect failed") ELSE [x EXCEPT !.connecting = FALSE]

\* At most one send, and the end of the request with its last byte.
tcp_exchange_writes(x) ==
    LET ends(y) == IF y.done \/ y.sent < y.length THEN y
                   ELSE IF y.reset THEN finish(y, "shutdown failed") ELSE [y EXCEPT !.sent_eof = TRUE]
    IN  IF x.done \/ x.sent_eof \/ "out" \notin x.ready THEN {x}
        ELSE {ends(y) : y \in IF x.sent = x.length THEN {x} ELSE Sends(x)}

AtEof(x) == finish(x, IF x.sent_eof THEN "" ELSE "peer closed before request completed")

\* At most one recv.
tcp_exchange_reads(x) ==
    LET after(n) ==
            CASE n = Again -> x
              [] n = Failed -> finish(x, "read failed")
              [] n = 0 -> AtEof(x)
              [] n > x.limit - Len(x.received) -> finish(x, "response limit exceeded")
              [] n \in 1 .. x.limit - Len(x.received) -> Taken(x, n)
    IN  IF x.done \/ "in" \notin x.ready THEN {x} ELSE {after(n) : n \in Receives(x)}

tcp_exchange_acts(x) ==
    IF Late(x) THEN {finish(x, "timed out")}
    ELSE IF x.ready = {} THEN {x}
    ELSE UNION {tcp_exchange_reads(y) : y \in tcp_exchange_writes(tcp_exchange_connects(x))}

\* A connection may fail for reasons of curl's own, such as a name or a certificate;
\* else the clock comes first and then what curl says.
poll_connect(x) ==
    {finish(x, "connection failed"),
     IF x.left = 0 THEN finish(x, "timed out")
     ELSE IF x.refused THEN finish(x, "connect failed")
     ELSE IF x.established THEN [x EXCEPT !.connecting = FALSE] ELSE x}

Fits(x, n) == n <= x.limit - x.total

\* First the whole request, then the response; a stream stops at every chunk.
http_transport_acts(x) ==
    LET took(y) == IF x.kind = "stream" THEN [y EXCEPT !.paused = TRUE, !.result = Ok(Bytes(y.received))]
                   ELSE y
        after(n) ==
            CASE n = Again -> x
              [] n = Failed -> finish(x, "read failed")
              [] n = 0 -> finish(x, "")
              [] n > 0 -> IF Fits(x, n) THEN took(Taken(x, n)) ELSE finish(x, "response limit exceeded")
    IN  IF x.connecting THEN poll_connect(x)
        ELSE IF Late(x) THEN {finish(x, "timed out")}
        ELSE IF x.ready = {} THEN {x}
        ELSE IF x.sent < x.length THEN Sends(x)
        ELSE {after(n) : n \in Receives(x)}

Acts(x) ==
    {[y EXCEPT !.step = "idle", !.ready = {}] :
        y \in {finish(x, "clock failed")}
              \cup IF x.kind = "tcp" THEN tcp_exchange_acts(x) ELSE http_transport_acts(x)}

\* Polls, Returns or Acts, whichever is next.
Steps(x) ==
    CASE x.step = "idle" -> Polls(x)
      [] x.step = "wait" -> Returns(x)
      [] x.step = "act" -> Acts(x)

\* A read of a stream gives up the chunk before.
Resumes(x) ==
    IF x.paused THEN [x EXCEPT !.paused = FALSE, !.result = NoResult, !.received = <<>>] ELSE x

Finished(x) == x.done \/ x.paused
===============================================================================
