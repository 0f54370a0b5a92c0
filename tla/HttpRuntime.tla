----------------------------- MODULE HttpRuntime -----------------------------
(***************************************************************************)
(* The root invocation (execute, src/vm/execute.c) and the HTTP listeners  *)
(* it keeps (src/vm/http_runtime.c).  One thread pumps the listeners in    *)
(* turn, then advances main, until main has ended and no listener is left. *)
(* Handlers run inside the pump and may close or destroy any listener, or  *)
(* ask the process to exit; main may also run a plain TCP server, finite   *)
(* or continuous; SIGINT and SIGTERM come at any time.                     *)
(*                                                                         *)
(* The servers themselves are in TcpServer; here a server is listening,    *)
(* draining or gone, as Listener has it.  A handler's own wait for a close *)
(* is left out: it ends with the handler's client, at the latest.  Host    *)
(* operations main waits for only delay it and are yields.                 *)
(***************************************************************************)
EXTENDS Integers, Sequences, FiniteSets, SequencesExt

CONSTANTS
    Handles,        \* the HTTP server handles of the program
    Plain,          \* the plain servers main may run: "finite", "service"
    None

ASSUME RuntimeAssumption == None \notin Handles /\ Plain \subseteq {"finite", "service"}

VARIABLES
    http,               \* handle -> VMHttpState and its VMHttpResource's requests
    active, pending,    \* VMHttpRuntime's lists of resources, first to last
    cursor,             \* http_runtime_pump's place in active
    exit_requested,     \* of the runtime
    error,              \* of the runtime; main's own is its status "trapped"
    status,             \* main's execution status
    http_waiting,       \* the handle main waits to see released
    plain,              \* execution.server: the plain server main runs
    owns_stop_signals, service_stop_requested,
    pc

vars == <<http, active, pending, cursor, exit_requested, error, status, http_waiting,
          plain, owns_stop_signals, service_stop_requested, pc>>

lists == <<active, pending, cursor>>
signals == <<owns_stop_signals, service_stop_requested>>
main == <<status, http_waiting, plain>>

Phases == <<"created", "listening", "closing", "closed", "destroyed">>

Init ==
    /\ http = [h \in Handles |-> [phase |-> "created", server |-> "new",
                                  close |-> FALSE, destroy |-> FALSE]]
    /\ active = << >> /\ pending = << >> /\ cursor = 0
    /\ exit_requested = FALSE /\ error = FALSE
    /\ status = "yielded" /\ http_waiting = None /\ plain = "none"
    /\ owns_stop_signals = FALSE /\ service_stop_requested = FALSE
    /\ pc = "top"

\* state->resource is set.
Resource(T, h) == T[h].server \in {"listening", "draining"}

http_runtime_active == active # << >> \/ pending # << >>

-----------------------------------------------------------------------------
(* Requests.                                                                *)

\* Mutant: a later close takes the place of an earlier destroy.
http_runtime_request_close_last(T, h, destroy) ==
    [T EXCEPT ![h] =
        IF Resource(T, h)
        THEN [T[h] EXCEPT !.close = TRUE, !.destroy = destroy,
                          !.phase = IF destroy THEN "destroyed" ELSE "closing"]
        ELSE [T[h] EXCEPT !.phase = IF destroy THEN "destroyed"
                                    ELSE IF @ = "created" THEN "closed" ELSE @]]

http_runtime_request_close(T, h, destroy) ==
    [T EXCEPT ![h] =
        IF Resource(T, h)
        THEN [T[h] EXCEPT !.close = TRUE, !.destroy = @ \/ destroy,
                          !.phase = IF T[h].destroy \/ destroy THEN "destroyed" ELSE "closing"]
        ELSE [T[h] EXCEPT !.phase = IF destroy THEN "destroyed"
                                    ELSE IF @ = "created" THEN "closed" ELSE @]]

http_runtime_stop(T) ==
    [h \in Handles |->
        IF Resource(T, h)
        THEN [T[h] EXCEPT !.close = TRUE, !.phase = IF @ = "destroyed" THEN @ ELSE "closing"]
        ELSE T[h]]

\* tcp_server_destroy's part in releasing a resource.
Released(T, h) ==
    [T EXCEPT ![h].server = "gone", ![h].phase = IF @ = "destroyed" THEN @ ELSE "closed"]

\* What the handlers of a server may have done to the listeners when it has been
\* advanced: nothing, or one of them closed or destroyed one.
HandlerRequests ==
    {http} \cup {http_runtime_request_close(http, h, d) : h \in Handles, d \in BOOLEAN}

-----------------------------------------------------------------------------
(* http_runtime_pump.                                                       *)

\* Mutant: the signal is looked for only while main runs.
Signalled_running == owns_stop_signals /\ service_stop_requested /\ status = "yielded"

Signalled == owns_stop_signals /\ service_stop_requested

\* The owner's loop comes round: a stop signal or an exit stops every listener,
\* new listeners join the pumped ones.
PumpBegins ==
    /\ pc = "top"
    /\ LET exits == exit_requested \/ Signalled IN
          IF http_runtime_active
          THEN /\ exit_requested' = exits
               /\ http' = IF exits \/ status = "exited" THEN http_runtime_stop(http) ELSE http
               /\ active' = Reverse(pending) \o active
               /\ pending' = << >>
               /\ cursor' = 1
               /\ pc' = "pump"
          ELSE pc' = "check" /\ UNCHANGED <<exit_requested, http, lists>>
    /\ UNCHANGED <<error, main, signals>>

\* Mutant: the resource stays in the list.
Unlinked_not(i) == active

\* *cursor = resource->next
Unlinked(i) == RemoveAt(active, i)

\* Mutant: a close request does not stop the server.
Outcomes_unstopped(h) == {"failed", "trapped", http[h].server}

\* How a server may have come out of its poll and advance.
Outcomes(h) ==
    {"failed", "trapped"} \cup
    (IF http[h].close THEN {"draining", "drained"} ELSE {http[h].server})

PumpResource ==
    /\ pc = "pump" /\ cursor <= Len(active)
    /\ LET h == active[cursor] IN
       \E idle \in BOOLEAN, outcome \in Outcomes(h), T \in HandlerRequests, exits \in BOOLEAN :
          LET U == IF exits THEN http_runtime_stop(T) ELSE T
              polled == IF idle THEN "destroyed" ELSE outcome
              done == polled \in {"drained", "failed", "trapped"}
              gone == U[h].destroy \/ done
              broken == polled = "trapped" \/ (polled = "failed" /\ ~U[h].destroy)
          IN /\ idle = http[h].destroy
             /\ idle => U = http /\ ~exits
             /\ http' = IF gone THEN Released(U, h) ELSE [U EXCEPT ![h].server = outcome]
             /\ exit_requested' = (exit_requested \/ exits)
             /\ error' = broken
             /\ active' = IF gone THEN Unlinked(cursor) ELSE active
             /\ cursor' = IF gone THEN cursor ELSE cursor + 1
             /\ pc' = IF broken THEN "check" ELSE "pump"
    /\ UNCHANGED <<pending, main, signals>>

PumpEnds ==
    /\ pc = "pump" /\ cursor > Len(active)
    /\ pc' = "check"
    /\ UNCHANGED <<http, lists, exit_requested, error, main, signals>>

Check ==
    /\ pc = "check"
    /\ pc' = IF error THEN "end"
             ELSE IF status \in {"completed", "exited"} \/ exit_requested
             THEN IF http_runtime_active THEN "top" ELSE "end"
             ELSE "advance"
    /\ UNCHANGED <<http, lists, exit_requested, error, main, signals>>

-----------------------------------------------------------------------------
(* main: vm_execution_advance and its host calls.                           *)

restore_stop_signals == owns_stop_signals' = FALSE /\ service_stop_requested' = FALSE

install_stop_signals == owns_stop_signals' = TRUE /\ service_stop_requested' = FALSE

Executing == pc = "advance" /\ status = "yielded"

Traps ==
    /\ status' = "trapped" /\ pc' = "end"
    /\ UNCHANGED <<http_waiting, plain>>

\* A closed or destroyed server cannot listen again.
Bindable(h) == http[h].phase = "created"

\* http_listen: only a created server can be bound, and a bound one is on the
\* list; the first listener takes the stop signals.  Then main yields.
http_listen(h) ==
    /\ Executing
    /\ \E bound \in {FALSE, Bindable(h)}, installed \in BOOLEAN :
        LET needs == (bound \/ http_runtime_active) /\ ~owns_stop_signals IN
        /\ http' = IF bound THEN [http EXCEPT ![h].phase = "listening", ![h].server = "listening"]
                   ELSE http
        /\ pending' = IF bound THEN <<h>> \o pending ELSE pending
        /\ IF needs /\ installed THEN install_stop_signals ELSE UNCHANGED signals
        /\ IF needs /\ ~installed THEN Traps
           ELSE pc' = "top" /\ UNCHANGED main
    /\ UNCHANGED <<active, cursor, exit_requested, error>>

http_close(h, destroy) ==
    /\ Executing
    /\ http' = http_runtime_request_close(http, h, destroy)
    /\ IF Resource(http, h)
       THEN http_waiting' = h /\ status' = "waiting" /\ pc' = "top"
       ELSE UNCHANGED <<http_waiting, status, pc>>
    /\ UNCHANGED <<lists, exit_requested, error, plain, signals>>

\* tcp_serve, tcp_service: a plain server is started, bound or not; a
\* continuous one needs the stop signals for itself.
serve(kind) ==
    /\ Executing
    /\ \E bound, installed \in BOOLEAN :
        LET needs == kind = "service" /\ bound IN
        IF needs /\ (owns_stop_signals \/ ~installed)
        THEN Traps /\ UNCHANGED signals
        ELSE /\ IF needs THEN install_stop_signals ELSE UNCHANGED signals
             /\ plain' = IF bound THEN "listening" ELSE "failed"
             /\ status' = "waiting" /\ pc' = "serve"
             /\ UNCHANGED http_waiting
    /\ UNCHANGED <<http, lists, exit_requested, error>>

\* main runs on without touching a listener, ends, exits or traps.
Runs ==
    /\ Executing
    /\ \/ pc' = "top" /\ UNCHANGED main
       \/ /\ status' \in {"completed", "exited"}
          /\ pc' = IF http_runtime_active THEN "top" ELSE "end"
          /\ UNCHANGED <<http_waiting, plain>>
       \/ Traps
    /\ UNCHANGED <<http, lists, exit_requested, error, signals>>

\* Mutant: main is woken by its request, not by the release.
Resumes_early == TRUE

Resumes == ~Resource(http, http_waiting)

\* main waits, and the waited-for listener may have been released.
AdvanceWaiting ==
    /\ pc = "advance" /\ status # "yielded"
    /\ IF http_waiting # None /\ Resumes
       THEN status' = "yielded" /\ http_waiting' = None /\ UNCHANGED pc
       ELSE /\ pc' = IF status = "trapped" THEN "end"
                     ELSE IF http_waiting # None THEN "top" ELSE "serve"
            /\ UNCHANGED <<status, http_waiting>>
    /\ UNCHANGED <<http, lists, exit_requested, error, plain, signals>>

\* vm_execution_pump_server: main's plain server is pumped once.
pump_server ==
    /\ pc = "serve" /\ pc' = "top"
    /\ \E stopped \in {plain = "draining" \/ Signalled},
          outcome \in {"drained", "failed", "trapped", "draining", "listening"} :
        /\ plain = "failed" => outcome = "failed"
        /\ outcome = "draining" => stopped
        /\ outcome = "listening" => ~stopped
        /\ IF outcome \in {"listening", "draining"}
           THEN plain' = outcome /\ UNCHANGED <<status, signals>>
           ELSE /\ plain' = "none"
                /\ restore_stop_signals
                /\ status' = IF outcome = "trapped" THEN "trapped" ELSE "yielded"
    /\ http' \in HandlerRequests
    /\ UNCHANGED <<lists, exit_requested, error, http_waiting>>

http_runtime_destroy(T) ==
    [h \in Handles |-> IF Resource(T, h) THEN Released(T, h)[h] ELSE T[h]]

\* The loop is left: what is still listening is destroyed, the signals restored.
Ends ==
    /\ pc = "end" /\ pc' = "over"
    /\ http' = http_runtime_destroy(http)
    /\ active' = << >> /\ pending' = << >> /\ cursor' = 0
    /\ http_waiting' = None /\ plain' = "none"
    /\ restore_stop_signals
    /\ UNCHANGED <<exit_requested, error, status>>

\* SIGINT or SIGTERM reaches the installed handler.
request_service_stop ==
    /\ owns_stop_signals /\ ~service_stop_requested
    /\ service_stop_requested' = TRUE
    /\ UNCHANGED <<http, lists, exit_requested, error, main, owns_stop_signals, pc>>

MainRuns ==
    \/ \E h \in Handles : http_listen(h) \/ http_close(h, FALSE) \/ http_close(h, TRUE)
    \/ \E kind \in Plain : serve(kind)
    \/ Runs

Loop ==
    \/ PumpBegins \/ PumpResource \/ PumpEnds \/ Check
    \/ MainRuns \/ AdvanceWaiting \/ pump_server \/ Ends

Next == Loop \/ request_service_stop

Spec == Init /\ [][Next]_vars

-----------------------------------------------------------------------------
(* The thread runs; a server told to stop is done when its drain is over,   *)
(* which TcpServer shows (ServerStops).                                     *)
ListenerEnds(h) ==
    /\ PumpResource /\ ~error'
    /\ Resource(http, h) /\ http[h].close
    /\ http'[h].server = "gone" /\ http'[h].destroy = http[h].destroy
PlainEnds == pump_server /\ plain = "draining" /\ plain' = "none"

FairSpec ==
    /\ Spec
    /\ WF_vars(Loop)
    /\ \A h \in Handles : SF_vars(ListenerEnds(h))
    /\ SF_vars(PlainEnds)

-----------------------------------------------------------------------------
(* Properties.                                                              *)

\* A handle has a server exactly when its resource is on one of the two lists,
\* once: closing finds what is to be closed, and the pump never meets a server
\* that was released.
ResourcesListed ==
    /\ IsInjective(active \o pending)
    /\ ToSet(active \o pending) = {h \in Handles : Resource(http, h)}

\* The place of a phase in a server's life.
Rank(phase) == CHOOSE i \in DOMAIN Phases : Phases[i] = phase

\* A server's phase never goes back, whoever closes and destroys it, in whatever
\* order, while it drains: in particular a destroyed one stays destroyed.
PhasesAdvance == [][\A h \in Handles : Rank(http'[h].phase) >= Rank(http[h].phase)]_vars

\* Listeners are released first.  When execute leaves its loop without an error,
\* every one has been drained or destroyed: the program's end or exit cuts no
\* client off.  And main goes on after http_close or http_destroy only when the
\* server's sockets are released, so that it may bind the port again.
ReleasedFirst ==
    /\ []((pc = "end" /\ ~error /\ status # "trapped") => \A h \in Handles : ~Resource(http, h))
    /\ [][\A h \in Handles : (http_waiting = h /\ http_waiting' = None) => ~Resource(http', h)]_vars

\* http_close and http_destroy return, also when the handlers of the listeners
\* go on closing each other's.
CloseReturns == http_waiting # None ~> http_waiting = None

\* An exit asked for by main or by a handler, and a stop signal that reaches the
\* program while it listens, end every listener, also one bound since and not
\* pumped yet; only a plain server's end takes a signal away.
StopEnds ==
    (exit_requested \/ status = "exited" \/ (service_stop_requested /\ http_runtime_active))
        ~> (~http_runtime_active \/ ~(owns_stop_signals \/ exit_requested \/ status = "exited"))

\* While a listener is open, termination signals are the program's to handle:
\* "CLI signals and explicit exit perform bounded cleanup".
ListenersHearSignals ==
    (http_runtime_active /\ pc \notin {"end", "over"} /\ status # "trapped") => owns_stop_signals
===============================================================================
