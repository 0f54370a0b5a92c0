----------------------------- MODULE MCTcpServer -----------------------------
(* Model-checking instances of the server owner: each is a few setups, small  *)
(* in most respects and larger in the one it is about.                        *)
EXTENDS TcpServer

Small ==
    [mode |-> "finite", concurrency |-> 2, clients |-> 2, request |-> 1, response |-> 1,
     interim |-> 1, requests |-> 1, timeout |-> 1, admission |-> 1, drain |-> 1,
     size_max |-> 2, budget |-> 1, pumped |-> FALSE]

\* Two clients of a plain server, once finite and once continuous.
PlainSetups == {[Small EXCEPT !.budget = 2], [Small EXCEPT !.mode = "service", !.drain = 0]}

\* Three clients of two slots, and a drain of no length; while the server admits, a
\* client's time may run out and its slot be taken again.
ReuseSetups ==
    {[Small EXCEPT !.mode = m, !.clients = 3, !.size_max = 3, !.admission = 2, !.drain = 0] :
        m \in {"finite", "stream"}}

\* One connection, whose responses go out in pieces.
ResponseSetup ==
    [Small EXCEPT !.mode = "routed", !.concurrency = 1, !.clients = 1, !.size_max = 1,
                  !.response = 2, !.interim = 2]

\* Two connections compete for one request place.
RequestSetup == [Small EXCEPT !.mode = "routed", !.interim = 0, !.drain = 0]

\* One client whose owner goes on pumping: of a service with its readiness callback,
\* in a mode that streams and in one that routes.
PumpedSetups ==
    {[Small EXCEPT !.mode = m, !.concurrency = 1, !.clients = 1, !.size_max = 1,
                   !.pumped = TRUE] : m \in {"service", "stream", "routed"}}

MCSetups == PlainSetups \cup ReuseSetups \cup {ResponseSetup, RequestSetup} \cup PumpedSetups
=============================================================================
