--------------------------- MODULE TcpServerProofs ---------------------------
(***************************************************************************)
(* Proofs about TcpServer: its clients are accounted for, it serves only   *)
(* the client it polled for, in time, and it implements Listener.  For any *)
(* mode, limits and number of slots.                                       *)
(***************************************************************************)
EXTENDS TcpServer, FiniteSetTheorems, WellFoundedInduction, TLAPS


Fields == {"clients", "listener", "stopping", "done", "error", "result", "admitted", "active",
           "succeeded", "failed", "outcomes", "admission", "drain", "next_io", "next_handler",
           "ready_pending", "requests", "wire"}
ClientFields == {"state", "id", "fd", "timer", "received", "eof", "response", "sent", "interim",
                 "execution", "completed", "admitted"}

Admitted(S) == {i \in Slots : S.clients[i].admitted}
LiveIn(S, id) == \E i \in Taken(S) : S.clients[i].id = id

\* What a server consists of.
Shape(S) ==
    /\ DOMAIN S = Fields /\ DOMAIN S.clients = Slots
    /\ \A i \in Slots : DOMAIN S.clients[i] = ClientFields /\ S.clients[i].admitted \in BOOLEAN
    /\ S.next_handler \in Slots
    /\ {S.listener, S.stopping, S.done, S.error, S.ready_pending} \subseteq BOOLEAN
    /\ S.result \in {"none", "ok", "error"}

\* Its clients have numbers of their own, and the counts are right.
Counts(S) ==
    /\ S.admitted \in Nat /\ S.admitted <= SizeMax
    /\ \A i \in Taken(S) : S.clients[i].id \in 1 .. S.admitted
    /\ \A i, j \in Taken(S) : S.clients[i].id = S.clients[j].id => i = j
    /\ S.active = Cardinality(Taken(S))
    /\ Admitted(S) \subseteq Taken(S)
    /\ S.requests = Cardinality(Admitted(S)) /\ S.requests <= RequestSlots

\* Until it fails every admitted client is there or has its outcome.
Outcomes(S) ==
    ~S.error /\ S.result # "error" =>
        IF Continuous
        THEN /\ S.succeeded \in Nat /\ S.failed \in Nat
             /\ S.succeeded + S.failed + S.active = S.admitted
        ELSE \A id \in Ids : (S.outcomes[id] # "none") <=> (id <= S.admitted /\ ~LiveIn(S, id))

\* What stops admission, and what is over when the server is.
Ends(S) ==
    /\ S.stopping => ~S.listener
    /\ S.error \/ S.result # "none" => S.done
    /\ S.done => Taken(S) = {} /\ ~S.listener /\ ~S.ready_pending

Well(S) == Shape(S) /\ Counts(S) /\ Outcomes(S) /\ Ends(S)

\* A server in the terms of Listener, and how that may go on.
Standing(S) ==
    IF S.error THEN "trapped"
    ELSE IF S.result = "error" THEN "failed"
    ELSE IF S.done THEN "drained"
    ELSE IF S.stopping THEN "draining"
    ELSE "listening"

Onward(S, T) ==
    \/ Standing(T) = Standing(S)
    \/ Standing(S) = "listening"
    \/ Standing(S) = "draining" /\ Standing(T) # "listening"

\* T has the clients of S, with the same numbers and requests.
SameClients(S, T) ==
    \A i \in Slots : /\ T.clients[i].state = "free" <=> S.clients[i].state = "free"
                     /\ T.clients[i].id = S.clients[i].id
                     /\ T.clients[i].admitted = S.clients[i].admitted

\* T is S apart from what happens to the bytes of its clients.
Same(S, T) ==
    /\ Shape(T) /\ SameClients(S, T)
    /\ T.admitted = S.admitted /\ T.active = S.active /\ T.requests = S.requests
    /\ T.succeeded = S.succeeded /\ T.failed = S.failed /\ T.outcomes = S.outcomes
    /\ T.listener = S.listener /\ T.stopping = S.stopping /\ T.ready_pending = S.ready_pending
    /\ T.done = S.done /\ T.error = S.error /\ T.result = S.result

\* How the server may be started.
Started == setup \in Setups

-----------------------------------------------------------------------------
(* What is the same.                                                       *)

\* The limits.
LEMMA Limits ==
    ASSUME Started
    PROVE  /\ Concurrency \in Nat \ {0} /\ SizeMax \in Nat \ {0} /\ Clients \in Nat \ {0}
           /\ RequestSlots \in Nat /\ 0 \in Slots /\ IsFiniteSet(Slots) /\ Slots \subseteq Nat
  <1>1. /\ Concurrency \in Nat \ {0} /\ SizeMax \in Nat \ {0} /\ Clients \in Nat \ {0}
        /\ RequestSlots \in Nat
    BY ServerAssumption DEF Started, Concurrency, SizeMax, Clients, RequestSlots
  <1>2. 0 \in Slots /\ Slots \subseteq Nat
    BY <1>1 DEF Slots
  <1>3. IsFiniteSet(Slots)
    BY <1>1, FS_Interval DEF Slots
  <1> QED
    BY <1>1, <1>2, <1>3

\* The clients of a server are finitely many.
LEMMA Finite ==
    ASSUME Started, NEW S
    PROVE  /\ IsFiniteSet(Taken(S)) /\ Cardinality(Taken(S)) \in Nat
           /\ IsFiniteSet(Admitted(S)) /\ Cardinality(Admitted(S)) \in Nat
           /\ Cardinality(Taken(S)) = 0 <=> Taken(S) = {}
           /\ Cardinality(Admitted(S)) = 0 <=> Admitted(S) = {}
  <1>1. Taken(S) \in SUBSET Slots /\ Admitted(S) \in SUBSET Slots
    BY DEF Taken, Admitted
  <1>2. IsFiniteSet(Taken(S)) /\ IsFiniteSet(Admitted(S))
    BY <1>1, Limits, FS_Subset
  <1> QED
    BY <1>2, FS_CardinalityType, FS_EmptySet

\* What is the same is as good.
LEMMA SameIsWell ==
    ASSUME NEW S, NEW T, Well(S), Same(S, T)
    PROVE  /\ Well(T) /\ Onward(S, T) /\ Standing(T) = Standing(S) /\ T.done = S.done
           /\ Taken(T) = Taken(S)
  <1>1. Taken(T) = Taken(S) /\ Admitted(T) = Admitted(S)
    BY DEF Taken, Admitted, Same, SameClients
  <1>2. \A i \in Taken(S) : i \in Slots /\ T.clients[i].id = S.clients[i].id
    BY DEF Taken, Same, SameClients
  <1>3. Counts(T)
    BY <1>1, <1>2 DEF Well, Counts, Same
  <1>4. \A id : LiveIn(T, id) <=> LiveIn(S, id)
    BY <1>1, <1>2 DEF LiveIn
  <1>5. Outcomes(T)
    BY <1>1, <1>4 DEF Well, Outcomes, Same
  <1>6. Ends(T)
    BY <1>1 DEF Well, Ends, Same
  <1>7. Standing(T) = Standing(S)
    BY DEF Standing, Same
  <1> QED
    BY <1>1, <1>3, <1>5, <1>6, <1>7 DEF Well, Same, Onward

\* Sameness goes on.
LEMMA SameGoesOn ==
    ASSUME NEW S, NEW T, NEW U, Same(S, T), Same(T, U)
    PROVE  Same(S, U)
  BY DEF Same, SameClients

\* A server is the same as itself.
LEMMA SameSelf ==
    ASSUME NEW S, Shape(S)
    PROVE  Same(S, S)
  BY DEF Same, SameClients

\* One client's record changes.
LEMMA SameClient ==
    ASSUME NEW S, Shape(S), NEW i \in Slots, NEW c, DOMAIN c = ClientFields,
           c.id = S.clients[i].id, c.admitted = S.clients[i].admitted,
           c.state = "free" <=> S.clients[i].state = "free"
    PROVE  Same(S, [S EXCEPT !.clients[i] = c])
  <1> DEFINE T == [S EXCEPT !.clients[i] = c]
  <1>1. /\ DOMAIN T = Fields /\ \A f \in Fields \ {"clients"} : T[f] = S[f]
        /\ T.clients = [S.clients EXCEPT ![i] = c]
    BY DEF Shape, Fields
  <1> HIDE DEF T
  <1>2. DOMAIN T.clients = Slots /\ T.clients[i] = c /\ \A j \in Slots \ {i} : T.clients[j] = S.clients[j]
    BY <1>1 DEF Shape
  <1>3. SameClients(S, T)
    BY <1>2 DEF SameClients
  <1>4. Shape(T)
    BY <1>1, <1>2 DEF Shape, Fields
  <1>5. Same(S, T)
    BY <1>1, <1>3, <1>4 DEF Same, Fields
  <1> QED
    BY <1>5 DEF T

-----------------------------------------------------------------------------
(* Letting go of clients.                                                  *)

\* Clearing slots takes their clients and requests.
LEMMA Clears ==
    ASSUME Started, NEW S, Shape(S), Counts(S), NEW E \in SUBSET Slots
    PROVE  LET T == client_clear(S, E) IN
           /\ Shape(T) /\ \A f \in Fields \ {"clients", "requests"} : T[f] = S[f]
           /\ \A i \in Slots : T.clients[i] = IF i \in E THEN NoClient ELSE S.clients[i]
           /\ Taken(T) = Taken(S) \ E /\ Admitted(T) = Admitted(S) \ E
           /\ T.requests = Cardinality(Admitted(T)) /\ T.requests <= RequestSlots
  <1> DEFINE T == client_clear(S, E)
  <1>1. /\ DOMAIN T = Fields /\ \A f \in Fields \ {"clients", "requests"} : T[f] = S[f]
        /\ T.clients = [i \in Slots |-> IF i \in E THEN NoClient ELSE S.clients[i]]
        /\ T.requests = S.requests - Cardinality({i \in E : S.clients[i].admitted})
    BY DEF Shape, Fields, client_clear
  <1> HIDE DEF T
  <1>2. /\ DOMAIN T.clients = Slots
        /\ \A i \in Slots : T.clients[i] = IF i \in E THEN NoClient ELSE S.clients[i]
    BY <1>1
  <1>3. NoClient.state = "free" /\ NoClient.admitted = FALSE /\ DOMAIN NoClient = ClientFields
    BY DEF NoClient, ClientFields
  <1>4. Shape(T)
    BY <1>1, <1>2, <1>3 DEF Shape, Fields
  <1>5. Taken(T) = Taken(S) \ E /\ Admitted(T) = Admitted(S) \ E
    BY <1>2, <1>3 DEF Taken, Admitted
  <1>6. {i \in E : S.clients[i].admitted} = Admitted(S) \cap E
    BY DEF Admitted
  <1>7. Cardinality(Admitted(T)) = Cardinality(Admitted(S)) - Cardinality(Admitted(S) \cap E)
    BY <1>5, Finite, FS_Difference
  <1>8. Cardinality(Admitted(T)) <= Cardinality(Admitted(S))
    BY <1>5, Finite, FS_Subset
  <1>9. T.requests = Cardinality(Admitted(T)) /\ T.requests <= RequestSlots
    <2>1. /\ Cardinality(Admitted(T)) \in Nat /\ Cardinality(Admitted(S)) \in Nat
          /\ RequestSlots \in Nat
      BY Finite, Limits
    <2>2. S.requests = Cardinality(Admitted(S)) /\ S.requests <= RequestSlots
      BY DEF Counts
    <2>3. T.requests = Cardinality(Admitted(T))
      BY <1>1, <1>6, <1>7, <2>2
    <2> QED
      BY <1>8, <2>1, <2>2, <2>3
  <1> QED
    BY <1>1, <1>2, <1>4, <1>5, <1>9 DEF T

\* Nobody is left after close_all.
LEMMA ClosesAll ==
    ASSUME Started, NEW S, Well(S)
    PROVE  LET T == close_all(S) IN
           /\ Shape(T) /\ Counts(T) /\ Taken(T) = {} /\ T.active = 0 /\ T.requests = 0
           /\ ~T.listener /\ ~T.ready_pending
           /\ T.done = S.done /\ T.error = S.error /\ T.result = S.result /\ T.stopping = S.stopping
  <1> DEFINE C == client_clear(S, Slots)
             T == close_all(S)
  <1>1. /\ Shape(C) /\ \A f \in Fields \ {"clients", "requests"} : C[f] = S[f]
        /\ Taken(C) = {} /\ Admitted(C) = {} /\ C.requests = Cardinality(Admitted(C))
        /\ C.requests <= RequestSlots
    <2>1. Taken(S) \ Slots = {} /\ Admitted(S) \ Slots = {}
      BY DEF Taken, Admitted
    <2> QED
      BY <2>1, Clears DEF Well
  <1>2. /\ DOMAIN T = Fields /\ T.active = 0 /\ T.ready_pending = FALSE /\ T.listener = FALSE
        /\ \A f \in Fields \ {"active", "ready_pending", "listener"} : T[f] = C[f]
    BY <1>1 DEF close_all, Shape, Fields
  <1> HIDE DEF C, T
  <1>3. Shape(T)
    BY <1>1, <1>2 DEF Shape, Fields
  <1>4. T.clients = C.clients
    BY <1>2 DEF Fields
  <1>5. Taken(T) = {} /\ Admitted(T) = {}
    BY <1>1, <1>4 DEF Taken, Admitted
  <1>6. T.requests = 0 /\ T.admitted = S.admitted
    BY <1>1, <1>2, FS_EmptySet DEF Fields
  <1>7. Counts(T)
    BY <1>2, <1>5, <1>6, Limits, FS_EmptySet DEF Well, Counts
  <1>8. T.done = S.done /\ T.error = S.error /\ T.result = S.result /\ T.stopping = S.stopping
    BY <1>1, <1>2 DEF Fields
  <1> QED
    BY <1>2, <1>3, <1>5, <1>6, <1>7, <1>8 DEF T

\* A server that is not done may fail or trap.
LEMMA Breaks ==
    ASSUME Started, NEW S, Well(S), ~S.done, NEW T \in {fail(S), trap(S)}
    PROVE  Well(T) /\ Onward(S, T) /\ Standing(T) \in {"failed", "trapped"}
  <1> DEFINE C == close_all(S)
  <1>1. /\ Shape(C) /\ Counts(C) /\ Taken(C) = {} /\ C.active = 0 /\ C.requests = 0
        /\ ~C.listener /\ ~C.ready_pending
        /\ C.done = S.done /\ C.error = S.error /\ C.result = S.result /\ C.stopping = S.stopping
    BY ClosesAll
  <1>2. /\ DOMAIN T = Fields /\ T.done = TRUE /\ T.error \in BOOLEAN /\ T.result \in {"none", "ok", "error"}
        /\ T.error = TRUE \/ (T.result = "error" /\ T.error = S.error)
        /\ \A f \in Fields \ {"error", "result", "done"} : T[f] = C[f]
    <2> HIDE DEF C
    <2>1. T = [C EXCEPT !.result = "error", !.done = TRUE] \/ T = [C EXCEPT !.error = TRUE, !.done = TRUE]
      BY DEF fail, trap, C
    <2> QED
      BY <1>1, <2>1 DEF Shape, Fields
  <1> HIDE DEF C
  <1>3. Shape(T)
    BY <1>1, <1>2 DEF Shape, Fields
  <1>4. /\ T.clients = C.clients /\ T.active = C.active /\ T.requests = C.requests
        /\ T.admitted = C.admitted /\ T.listener = C.listener /\ T.ready_pending = C.ready_pending
    BY <1>2 DEF Fields
  <1>5. Taken(T) = Taken(C) /\ Admitted(T) = Admitted(C)
    BY <1>4 DEF Taken, Admitted
  <1>6. Counts(T)
    BY <1>1, <1>4, <1>5 DEF Counts
  <1>7. Outcomes(T)
    BY <1>2 DEF Outcomes
  <1>8. Ends(T)
    BY <1>1, <1>2, <1>4, <1>5 DEF Ends
  <1>9. S.error = FALSE /\ S.result = "none"
    BY DEF Well, Ends, Shape
  <1>10. Standing(T) \in {"failed", "trapped"}
    BY <1>2 DEF Standing
  <1>11. Standing(S) \in {"listening", "draining"}
    BY <1>9 DEF Standing
  <1> QED
    BY <1>3, <1>6, <1>7, <1>8, <1>10, <1>11 DEF Well, Onward

\* Clients that are there get their outcome and go.
LEMMA Finishes ==
    ASSUME Started, NEW S, Well(S), ~S.done, NEW E \in SUBSET Taken(S), NEW outcome \in {"ok", "error"}
    PROVE  LET T == finish_clients(S, E, outcome) IN
           /\ Well(T) /\ Onward(S, T) /\ Standing(T) = Standing(S) /\ T.done = S.done
           /\ \A i \in Slots : T.clients[i] = IF i \in E THEN NoClient ELSE S.clients[i]
           /\ T.stopping = S.stopping /\ T.drain = S.drain
  <1> DEFINE C == client_clear(S, E)
             A == [C EXCEPT !.active = @ - Cardinality(E)]
             T == finish_clients(S, E, outcome)
             new == [id \in Ids |-> IF \E i \in E : S.clients[i].id = id THEN outcome ELSE S.outcomes[id]]
  <1>0. E \in SUBSET Slots /\ IsFiniteSet(E) /\ Cardinality(E) \in Nat
    BY Finite, FS_Subset, FS_CardinalityType DEF Taken
  <1>1. /\ Shape(C) /\ \A f \in Fields \ {"clients", "requests"} : C[f] = S[f]
        /\ \A i \in Slots : C.clients[i] = IF i \in E THEN NoClient ELSE S.clients[i]
        /\ Taken(C) = Taken(S) \ E /\ Admitted(C) = Admitted(S) \ E
        /\ C.requests = Cardinality(Admitted(C)) /\ C.requests <= RequestSlots
    BY <1>0, Clears DEF Well
  <1>2. /\ DOMAIN A = Fields /\ A.active = S.active - Cardinality(E)
        /\ \A f \in Fields \ {"active"} : A[f] = C[f]
    <2> HIDE DEF C
    <2> QED
      BY <1>1 DEF Shape, Fields
  <1>3. /\ DOMAIN T = Fields /\ \A f \in Fields \ {"outcomes", "succeeded", "failed"} : T[f] = A[f]
        /\ ~Continuous => T.outcomes = new
        /\ Continuous => \/ T.succeeded = S.succeeded + Cardinality(E) /\ T.failed = S.failed
                         \/ T.failed = S.failed + Cardinality(E) /\ T.succeeded = S.succeeded
    <2>1. /\ ~Continuous => T = [A EXCEPT !.outcomes =
                [id \in Ids |-> IF \E i \in E : S.clients[i].id = id THEN outcome ELSE @[id]]]
          /\ Continuous => \/ T = [A EXCEPT !.succeeded = @ + Cardinality(E)]
                           \/ T = [A EXCEPT !.failed = @ + Cardinality(E)]
      BY DEF finish_clients
    <2>2. A.outcomes = S.outcomes /\ A.succeeded = S.succeeded /\ A.failed = S.failed
      BY <1>1, <1>2 DEF Fields
    <2> HIDE DEF C, A, T
    <2>3. CASE ~Continuous
      BY <1>2, <2>1, <2>2, <2>3 DEF Fields
    <2>4. CASE Continuous
      BY <1>2, <2>1, <2>2, <2>4 DEF Fields
    <2> QED
      BY <2>3, <2>4
  <1> HIDE DEF C, A, T
  <1>4. /\ \A f \in Fields \ {"clients", "requests", "active", "outcomes", "succeeded", "failed"} : T[f] = S[f]
        /\ T.clients = C.clients /\ T.requests = C.requests /\ T.active = S.active - Cardinality(E)
    BY <1>1, <1>2, <1>3 DEF Fields
  <1>5. /\ T.listener = S.listener /\ T.stopping = S.stopping /\ T.done = S.done /\ T.error = S.error
        /\ T.result = S.result /\ T.admitted = S.admitted /\ T.ready_pending = S.ready_pending
        /\ T.drain = S.drain /\ T.next_handler = S.next_handler
    BY <1>4 DEF Fields
  <1>6. Shape(T)
    BY <1>1, <1>3, <1>4, <1>5 DEF Well, Shape
  <1>7. Taken(T) = Taken(S) \ E /\ Admitted(T) = Admitted(S) \ E /\ Admitted(T) = Admitted(C)
    BY <1>1, <1>4 DEF Taken, Admitted
  <1>8. T.active = Cardinality(Taken(T))
    <2>1. Cardinality(Taken(T)) = Cardinality(Taken(S)) - Cardinality(Taken(S) \cap E)
      BY <1>7, Finite, FS_Difference
    <2>2. Taken(S) \cap E = E
      OBVIOUS
    <2> QED
      BY <1>4, <2>1, <2>2 DEF Well, Counts
  <1>9. \A i \in Taken(T) : i \in Taken(S) /\ i \in Slots /\ T.clients[i] = S.clients[i]
    BY <1>1, <1>4, <1>7 DEF Taken
  <1>10. Counts(T)
    BY <1>1, <1>4, <1>5, <1>7, <1>8, <1>9 DEF Well, Counts
  <1>11. Outcomes(T)
    <2> SUFFICES ASSUME ~T.error /\ T.result # "error"
                 PROVE  IF Continuous
                        THEN /\ T.succeeded \in Nat /\ T.failed \in Nat
                             /\ T.succeeded + T.failed + T.active = T.admitted
                        ELSE \A id \in Ids : (T.outcomes[id] # "none") <=> (id <= T.admitted /\ ~LiveIn(T, id))
      BY DEF Outcomes
    <2>1. CASE Continuous
      <3>1. S.succeeded \in Nat /\ S.failed \in Nat /\ S.succeeded + S.failed + S.active = S.admitted
        BY <1>5, <2>1 DEF Well, Outcomes
      <3>2. S.active \in Nat /\ S.admitted \in Nat
        BY Finite DEF Well, Counts
      <3>3. T.succeeded \in Nat /\ T.failed \in Nat
        BY <1>0, <1>3, <2>1, <3>1
      <3>4. T.succeeded + T.failed = S.succeeded + S.failed + Cardinality(E)
        BY <1>0, <1>3, <2>1, <3>1
      <3>5. T.succeeded + T.failed + T.active = T.admitted
        BY <1>0, <1>4, <1>5, <3>1, <3>2, <3>3, <3>4
      <3> QED
        BY <2>1, <3>3, <3>5
    <2>2. CASE ~Continuous
      <3> SUFFICES ASSUME NEW id \in Ids
                   PROVE  (T.outcomes[id] # "none") <=> (id <= T.admitted /\ ~LiveIn(T, id))
        BY <2>2
      <3>1. (S.outcomes[id] # "none") <=> (id <= S.admitted /\ ~LiveIn(S, id))
        BY <1>5, <2>2 DEF Well, Outcomes
      <3>2. T.outcomes[id] = IF \E i \in E : S.clients[i].id = id THEN outcome ELSE S.outcomes[id]
        BY <1>3, <2>2
      <3>3. CASE \E i \in E : S.clients[i].id = id
        <4>1. PICK i \in E : S.clients[i].id = id
          BY <3>3
        <4>2. id <= S.admitted
          BY <4>1 DEF Well, Counts
        <4>3. ~LiveIn(T, id)
          BY <1>7, <1>9, <4>1 DEF Well, Counts, LiveIn
        <4> QED
          BY <1>5, <3>2, <3>3, <4>2, <4>3
      <3>4. CASE ~\E i \in E : S.clients[i].id = id
        <4>1. LiveIn(T, id) <=> LiveIn(S, id)
          BY <1>7, <1>9, <3>4 DEF LiveIn
        <4> QED
          BY <1>5, <3>1, <3>2, <3>4, <4>1
      <3> QED
        BY <3>3, <3>4
    <2> QED
      BY <2>1, <2>2
  <1>12. Ends(T)
    BY <1>5 DEF Well, Ends
  <1>13. Standing(T) = Standing(S)
    BY <1>5 DEF Standing
  <1>14. \A i \in Slots : T.clients[i] = IF i \in E THEN NoClient ELSE S.clients[i]
    BY <1>1, <1>4
  <1> QED
    BY <1>5, <1>6, <1>10, <1>11, <1>12, <1>13, <1>14 DEF Well, Onward, T

\* One client gets its outcome and goes.
LEMMA FinishesOne ==
    ASSUME Started, NEW S, Well(S), ~S.done, NEW i \in Taken(S), NEW outcome \in {"ok", "error"}
    PROVE  /\ Well(finish_client(S, i, outcome)) /\ Onward(S, finish_client(S, i, outcome))
           /\ finish_client(S, i, outcome).clients[i].state = "free" /\ finish_client(S, i, outcome).done = S.done
  <1>1. {i} \in SUBSET Taken(S) /\ i \in Slots
    BY DEF Taken
  <1>2. NoClient.state = "free"
    BY DEF NoClient
  <1> QED
    BY <1>1, <1>2, Finishes DEF finish_client

-----------------------------------------------------------------------------
(* Deadlines.                                                              *)

\* Admission ends.
LEMMA Stops ==
    ASSUME NEW S, Well(S), ~S.done, NEW late
    PROVE  LET T == stop_at(S, late) IN
           /\ Well(T) /\ Onward(S, T) /\ T.done = S.done /\ T.clients = S.clients
  <1> DEFINE T == stop_at(S, late)
  <1>1. CASE S.stopping
    <2>1. T = S
      BY <1>1 DEF stop_at
    <2> HIDE DEF T
    <2> QED
      BY <2>1 DEF Onward, T
  <1>2. CASE ~S.stopping
    <2>1. /\ DOMAIN T = Fields /\ T.stopping = TRUE /\ T.listener = FALSE
          /\ \A f \in Fields \ {"stopping", "listener", "drain"} : T[f] = S[f]
      BY <1>2 DEF stop_at, Well, Shape, Fields
    <2> HIDE DEF T
    <2>2. /\ T.clients = S.clients /\ T.admitted = S.admitted /\ T.active = S.active
          /\ T.requests = S.requests /\ T.succeeded = S.succeeded /\ T.failed = S.failed
          /\ T.outcomes = S.outcomes /\ T.ready_pending = S.ready_pending /\ T.done = S.done
          /\ T.error = S.error /\ T.result = S.result /\ T.next_handler = S.next_handler
      BY <2>1 DEF Fields
    <2>3. Taken(T) = Taken(S) /\ Admitted(T) = Admitted(S) /\ \A id : LiveIn(T, id) <=> LiveIn(S, id)
      BY <2>2 DEF Taken, Admitted, LiveIn
    <2>4. Shape(T)
      BY <2>1, <2>2 DEF Well, Shape
    <2>5. Counts(T)
      BY <2>2, <2>3 DEF Well, Counts
    <2>6. Outcomes(T)
      BY <2>2, <2>3 DEF Well, Outcomes
    <2>7. Ends(T)
      BY <2>1, <2>2, <2>3 DEF Well, Ends
    <2>8. Standing(S) = "listening"
      BY <1>2 DEF Standing, Well, Ends, Shape
    <2> QED
      BY <2>2, <2>4, <2>5, <2>6, <2>7, <2>8 DEF Well, Onward, T
  <1> QED
    BY <1>1, <1>2

\* A last send changes nothing of the server.
LEMMA LastWordsSame ==
    ASSUME NEW S, Shape(S), NEW E
    PROVE  LET T == LastWords(S, E) IN
           Same(S, T) /\ T.clients = S.clients /\ T.drain = S.drain
  <1> DEFINE T == LastWords(S, E)
  <1>1. DOMAIN T = Fields /\ \A f \in Fields \ {"wire"} : T[f] = S[f]
    BY DEF LastWords, Shape, Fields
  <1> HIDE DEF T
  <1>2. T.clients = S.clients /\ T.drain = S.drain /\ T.next_handler = S.next_handler
    BY <1>1 DEF Fields
  <1>3. SameClients(S, T)
    BY <1>2 DEF SameClients
  <1>4. Shape(T)
    BY <1>1, <1>2 DEF Shape, Fields
  <1>5. Same(S, T)
    BY <1>1, <1>3, <1>4 DEF Same, Fields
  <1> QED
    BY <1>2, <1>5 DEF T

\* Clients whose time is up go.
LEMMA FinishesExpired ==
    ASSUME Started, NEW S, Well(S), ~S.done, NEW E \in SUBSET Taken(S)
    PROVE  LET T == FinishExpired(S, E) IN
           /\ Well(T) /\ Onward(S, T) /\ T.done = S.done
           /\ \A i \in Slots : T.clients[i] = IF i \in E THEN NoClient ELSE S.clients[i]
           /\ T.stopping = S.stopping /\ T.drain = S.drain
  <1> DEFINE X == IF Routed THEN LastWords(S, {i \in E : Expired(S, i)}) ELSE S
             T == finish_clients(X, E, "error")
  <1>1. Same(S, X) /\ X.clients = S.clients /\ X.drain = S.drain
    <2>1. CASE Routed
      BY <2>1, LastWordsSame DEF Well
    <2>2. CASE ~Routed
      BY <2>2, SameSelf DEF Well
    <2> QED
      BY <2>1, <2>2
  <1> HIDE DEF X
  <1>2. Well(X) /\ Onward(S, X) /\ Standing(X) = Standing(S) /\ X.done = S.done /\ Taken(X) = Taken(S)
    BY <1>1, SameIsWell
  <1>3. X.stopping = S.stopping
    BY <1>1 DEF Same
  <1>4. /\ Well(T) /\ Onward(X, T) /\ Standing(T) = Standing(X) /\ T.done = X.done
        /\ \A i \in Slots : T.clients[i] = IF i \in E THEN NoClient ELSE X.clients[i]
        /\ T.stopping = X.stopping /\ T.drain = X.drain
    BY <1>2, Finishes
  <1>5. T = FinishExpired(S, E)
    BY DEF FinishExpired, X
  <1> HIDE DEF T
  <1> QED
    BY <1>1, <1>2, <1>3, <1>4, <1>5 DEF Onward

\* A stopping server without clients is done.
LEMMA Settles ==
    ASSUME Started, NEW S, Well(S), ~S.done
    PROVE  LET T == Settle(S) IN
           Well(T) /\ Onward(S, T) /\ (~T.done => T = S)
  <1> DEFINE T == Settle(S)
  <1>1. CASE ~(S.stopping /\ S.active = 0)
    <2>1. T = S
      BY <1>1 DEF Settle
    <2> HIDE DEF T
    <2> QED
      BY <2>1 DEF Onward, T
  <1>2. CASE S.stopping /\ S.active = 0
    <2>1. /\ DOMAIN T = Fields /\ T.ready_pending = FALSE /\ T.done = TRUE /\ T.result = "ok"
          /\ \A f \in Fields \ {"ready_pending", "done", "result"} : T[f] = S[f]
      BY <1>2 DEF Settle, Well, Shape, Fields
    <2> HIDE DEF T
    <2>2. /\ T.clients = S.clients /\ T.admitted = S.admitted /\ T.active = S.active
          /\ T.requests = S.requests /\ T.succeeded = S.succeeded /\ T.failed = S.failed
          /\ T.outcomes = S.outcomes /\ T.listener = S.listener /\ T.stopping = S.stopping
          /\ T.error = S.error /\ T.next_handler = S.next_handler
      BY <2>1 DEF Fields
    <2>3. Taken(T) = Taken(S) /\ Admitted(T) = Admitted(S) /\ \A id : LiveIn(T, id) <=> LiveIn(S, id)
      BY <2>2 DEF Taken, Admitted, LiveIn
    <2>4. S.error = FALSE /\ S.result = "none" /\ S.listener = FALSE
      BY <1>2 DEF Well, Ends, Shape
    <2>5. Taken(S) = {}
      BY <1>2, Finite DEF Well, Counts
    <2>6. Shape(T)
      BY <2>1, <2>2 DEF Well, Shape
    <2>7. Counts(T)
      BY <2>2, <2>3 DEF Well, Counts
    <2>8. Outcomes(T)
      BY <2>2, <2>3, <2>4 DEF Well, Outcomes
    <2>9. Ends(T)
      BY <2>1, <2>2, <2>3, <2>4, <2>5 DEF Ends
    <2>10. Standing(S) = "draining" /\ Standing(T) = "drained"
      BY <1>2, <2>1, <2>2, <2>4 DEF Standing
    <2> QED
      BY <2>1, <2>6, <2>7, <2>8, <2>9, <2>10 DEF Well, Onward, T
  <1> QED
    BY <1>1, <1>2

\* How a server may go on is transitive, once it is not done in between.
LEMMA OnwardGoesOn ==
    ASSUME NEW S, NEW T, NEW U, Onward(S, T), Onward(T, U)
    PROVE  Onward(S, U)
  BY DEF Onward

\* After a look at the clock no client is there whose time is up.
LEMMA Deadlines ==
    ASSUME Started, NEW S, Well(S)
    PROVE  LET T == deadlines(S) IN
           /\ Well(T) /\ Onward(S, T) /\ (S.done => T = S)
           /\ \A i \in Taken(T) : ~Expired(T, i) /\ ~Drained(T)
  <1> DEFINE T == deadlines(S)
             A == AdmissionEnds(S)
             E == {i \in Taken(A) : Expired(A, i) \/ Drained(A)}
             F == FinishExpired(A, E)
  <1>1. CASE S.done
    <2>1. T = S
      BY <1>1 DEF deadlines
    <2>2. Taken(S) = {}
      BY <1>1 DEF Well, Ends
    <2> HIDE DEF T
    <2> QED
      BY <2>1, <2>2 DEF Onward, T
  <1>2. CASE ~S.done
    <2>1. T = Settle(F)
      BY <1>2 DEF deadlines
    <2>2. Well(A) /\ Onward(S, A) /\ A.done = S.done
      BY <1>2, Stops DEF AdmissionEnds, Onward
    <2> HIDE DEF A
    <2>3. E \in SUBSET Taken(A)
      OBVIOUS
    <2>4. /\ Well(F) /\ Onward(A, F) /\ F.done = A.done
          /\ \A i \in Slots : F.clients[i] = IF i \in E THEN NoClient ELSE A.clients[i]
          /\ F.stopping = A.stopping /\ F.drain = A.drain
      <3> HIDE DEF E
      <3> QED
        BY <1>2, <2>2, <2>3, FinishesExpired
    <2> HIDE DEF F
    <2>5. Well(T) /\ Onward(F, T) /\ (~T.done => T = F)
      BY <1>2, <2>1, <2>2, <2>4, Settles
    <2>6. Onward(S, T)
      BY <2>2, <2>4, <2>5, OnwardGoesOn
    <2>7. ASSUME NEW i \in Taken(T) PROVE ~Expired(T, i) /\ ~Drained(T)
      <3>1. ~T.done /\ T = F
        BY <2>5, <2>7 DEF Well, Ends
      <3>2. i \in Slots /\ F.clients[i].state # "free"
        BY <2>7, <3>1 DEF Taken
      <3>3. i \notin E /\ F.clients[i] = A.clients[i]
        BY <2>4, <3>2 DEF NoClient
      <3>4. i \in Taken(A)
        BY <3>2, <3>3 DEF Taken
      <3>5. ~Expired(A, i) /\ ~Drained(A)
        BY <3>3, <3>4
      <3> QED
        BY <2>4, <3>1, <3>3, <3>5 DEF Expired, Drained
    <2> HIDE DEF T
    <2> QED
      BY <1>2, <2>5, <2>6, <2>7 DEF T
  <1> QED
    BY <1>1, <1>2

-----------------------------------------------------------------------------
(* What happens to a client's bytes.                                       *)

\* T is as good as S, and goes on where S is not done.
Fine(S, T) == Well(T) /\ Onward(S, T) /\ T.done = S.done

\* What is the same, or lets go of a client, is fine.
LEMMA SameIsFine ==
    ASSUME Started, NEW S, Well(S), ~S.done, NEW i \in Taken(S), NEW T, Same(S, T),
           NEW outcome \in {"ok", "error"}
    PROVE  /\ Fine(S, T) /\ i \in Taken(T) /\ Fine(S, finish_client(T, i, outcome))
           /\ finish_client(T, i, outcome).clients[i].state = "free"
  <1>1. Well(T) /\ Onward(S, T) /\ T.done = S.done /\ Taken(T) = Taken(S)
    BY SameIsWell
  <1>2. /\ Well(finish_client(T, i, outcome)) /\ Onward(T, finish_client(T, i, outcome))
        /\ finish_client(T, i, outcome).clients[i].state = "free"
        /\ finish_client(T, i, outcome).done = T.done
    BY <1>1, FinishesOne
  <1>3. Onward(S, finish_client(T, i, outcome))
    BY <1>1, <1>2, OnwardGoesOn
  <1> QED
    BY <1>1, <1>2, <1>3 DEF Fine

\* A client's state changes.
LEMMA SetsState ==
    ASSUME NEW S, Shape(S), NEW i \in Taken(S), NEW v, v # "free"
    PROVE  Same(S, [S EXCEPT !.clients[i].state = v])
  <1> DEFINE c == [S.clients[i] EXCEPT !.state = v]
  <1>1. i \in Slots /\ S.clients[i].state # "free"
    BY DEF Taken
  <1>2. /\ DOMAIN c = ClientFields /\ c.id = S.clients[i].id /\ c.admitted = S.clients[i].admitted
        /\ c.state # "free"
    BY <1>1 DEF Shape, ClientFields
  <1> HIDE DEF c
  <1>3. Same(S, [S EXCEPT !.clients[i] = c])
    BY <1>1, <1>2, SameClient
  <1> QED
    BY <1>3 DEF c

\* What is received or sent for a client changes.
LEMMA SetsBytes ==
    ASSUME NEW S, Shape(S), NEW i \in Slots, NEW v
    PROVE  /\ Same(S, [S EXCEPT !.clients[i].received = v]) /\ Same(S, [S EXCEPT !.clients[i].eof = v])
           /\ Same(S, [S EXCEPT !.clients[i].response = v]) /\ Same(S, [S EXCEPT !.clients[i].sent = v])
           /\ Same(S, [S EXCEPT !.clients[i].interim = v]) /\ Same(S, [S EXCEPT !.clients[i].fd = v])
           /\ Same(S, [S EXCEPT !.clients[i].execution = v])
           /\ Same(S, [S EXCEPT !.clients[i].completed = v])
  <1>1. ASSUME NEW f \in ClientFields \ {"state", "id", "admitted"}
        PROVE  Same(S, [S EXCEPT !.clients[i] = [S.clients[i] EXCEPT ![f] = v]])
    <2> DEFINE c == [S.clients[i] EXCEPT ![f] = v]
    <2>1. /\ DOMAIN c = ClientFields /\ c.id = S.clients[i].id /\ c.admitted = S.clients[i].admitted
          /\ c.state = S.clients[i].state
      BY DEF Shape, ClientFields
    <2> HIDE DEF c
    <2>2. Same(S, [S EXCEPT !.clients[i] = c])
      BY <2>1, SameClient
    <2> QED
      BY <2>2 DEF c
  <1>2. Same(S, [S EXCEPT !.clients[i].received = v]) /\ Same(S, [S EXCEPT !.clients[i].eof = v])
    BY <1>1 DEF ClientFields
  <1>3. Same(S, [S EXCEPT !.clients[i].response = v]) /\ Same(S, [S EXCEPT !.clients[i].sent = v])
    BY <1>1 DEF ClientFields
  <1>4. Same(S, [S EXCEPT !.clients[i].interim = v]) /\ Same(S, [S EXCEPT !.clients[i].fd = v])
    BY <1>1 DEF ClientFields
  <1>5. /\ Same(S, [S EXCEPT !.clients[i].execution = v])
        /\ Same(S, [S EXCEPT !.clients[i].completed = v])
    BY <1>1 DEF ClientFields
  <1> QED
    BY <1>2, <1>3, <1>4, <1>5

\* Bytes go out.
LEMMA Emits ==
    ASSUME NEW S, Shape(S), NEW i, NEW message, NEW n
    PROVE  Same(S, Emit(S, i, message, n))
  <1> DEFINE T == Emit(S, i, message, n)
  <1>1. DOMAIN T = Fields /\ \A f \in Fields \ {"wire"} : T[f] = S[f]
    BY DEF Emit, Shape, Fields
  <1> HIDE DEF T
  <1>2. SameClients(S, T)
    BY <1>1 DEF SameClients, Fields
  <1>3. Shape(T)
    BY <1>1 DEF Shape, Fields
  <1>4. Same(S, T)
    BY <1>1, <1>2, <1>3 DEF Same, Fields
  <1> QED
    BY <1>4 DEF T

\* read_client: bytes are received, the request is whole, or the client goes.
LEMMA Reads ==
    ASSUME Started, NEW S, Well(S), ~S.done, NEW i \in Taken(S), NEW T \in read_client(S, i)
    PROVE  Fine(S, T)
  <1>1. Shape(S) /\ i \in Slots /\ Same(S, S)
    BY SameSelf DEF Well, Taken
  <1>2. \/ T = S \/ T = [S EXCEPT !.clients[i].state = "start"] \/ T = finish_client(S, i, "error")
        \/ \E n \in 1 .. 2 : T = [S EXCEPT !.clients[i].received = @ + n]
    BY DEF read_client
  <1>3. CASE T = [S EXCEPT !.clients[i].state = "start"]
    <2>1. Same(S, T)
      BY <1>1, <1>3, SetsState
    <2> QED
      BY <2>1, SameIsFine
  <1>4. CASE \E n \in 1 .. 2 : T = [S EXCEPT !.clients[i].received = @ + n]
    <2>1. \A v : Same(S, [S EXCEPT !.clients[i].received = v])
      BY <1>1, SetsBytes
    <2>2. PICK n \in 1 .. 2 : T = [S EXCEPT !.clients[i].received = S.clients[i].received + n]
      BY <1>4
    <2>3. Same(S, T)
      BY <2>1, <2>2
    <2> QED
      BY <2>3, SameIsFine
  <1>5. CASE T = S \/ T = finish_client(S, i, "error")
    BY <1>1, <1>5, SameIsFine
  <1> QED
    BY <1>2, <1>3, <1>4, <1>5

\* complete_stream_read: the handler goes on.
LEMMA CompletesRead ==
    ASSUME NEW S, NEW T, Same(S, T), NEW i \in Taken(S)
    PROVE  Same(S, complete_stream_read(T, i))
  <1>1. Shape(T) /\ i \in Taken(T)
    BY DEF Same, SameClients, Taken
  <1>2. Same(T, complete_stream_read(T, i))
    BY <1>1, SetsState DEF complete_stream_read
  <1> QED
    BY <1>2, SameGoesOn

\* read_stream_chunk: a chunk or the end arrives.
LEMMA ReadsChunk ==
    ASSUME Started, NEW S, Well(S), ~S.done, NEW i \in Taken(S), NEW T \in read_stream_chunk(S, i)
    PROVE  Fine(S, T)
  <1>1. Shape(S) /\ i \in Slots /\ Same(S, S)
    BY SameSelf DEF Well, Taken
  <1>2. \A v : Same(S, [S EXCEPT !.clients[i].eof = v]) /\ Same(S, [S EXCEPT !.clients[i].received = v])
    BY <1>1, SetsBytes
  <1>3. T = S \/ \E U : Same(S, U) /\ T = complete_stream_read(U, i)
    <2> DEFINE ended == [S EXCEPT !.clients[i].eof = TRUE]
               more(n) == [S EXCEPT !.clients[i].received = @ + n]
    <2>1. Same(S, ended) /\ \A n : Same(S, more(n))
      BY <1>2
    <2>2. T = S \/ \E U : (U = S \/ U = ended \/ \E n \in 1 .. 2 : U = more(n)) /\ T = complete_stream_read(U, i)
      <3> HIDE DEF ended, more
      <3> QED
        BY DEF read_stream_chunk, ended, more
    <2> HIDE DEF ended, more
    <2> QED
      BY <1>1, <2>1, <2>2
  <1>4. Same(S, T)
    BY <1>1, <1>3, CompletesRead
  <1> QED
    BY <1>4, SameIsFine

\* write_interim: a part of 100 Continue goes out.
LEMMA WritesInterim ==
    ASSUME Started, NEW S, Well(S), ~S.done, NEW i \in Taken(S), NEW T \in write_interim(S, i)
    PROVE  Fine(S, T)
  <1>1. Shape(S) /\ i \in Slots /\ Same(S, S)
    BY SameSelf DEF Well, Taken
  <1>2. CASE T = finish_client(S, i, "error")
    BY <1>1, <1>2, SameIsFine
  <1>3. CASE T # finish_client(S, i, "error")
    <2> DEFINE sent(n) == [Emit(S, i, "continue", n) EXCEPT !.clients[i].interim = @ + n]
    <2>1. PICK n : T = sent(n) \/ T = complete_stream_read(sent(n), i)
      BY <1>3 DEF write_interim
    <2>2. Same(S, sent(n))
      <3> DEFINE E == Emit(S, i, "continue", n)
      <3>1. Same(S, E)
        BY <1>1, Emits
      <3> HIDE DEF E
      <3>2. Same(E, [E EXCEPT !.clients[i].interim = @ + n])
        <4>1. \A v : Same(E, [E EXCEPT !.clients[i].interim = v])
          <5>1. Shape(E)
            BY <3>1 DEF Same
          <5> QED
            BY <1>1, <5>1, SetsBytes
        <4>2. Same(E, [E EXCEPT !.clients[i].interim = E.clients[i].interim + n])
          BY <4>1
        <4> QED
          BY <4>2
      <3> QED
        BY <3>1, <3>2, SameGoesOn DEF E
    <2> HIDE DEF sent
    <2>3. Same(S, T)
      BY <2>1, <2>2, CompletesRead
    <2> QED
      BY <2>3, SameIsFine
  <1> QED
    BY <1>2, <1>3

\* write_client: a part of the response goes out, and the client with its last.
LEMMA WritesClient ==
    ASSUME Started, NEW S, Well(S), ~S.done, NEW i \in Taken(S), NEW T \in write_client(S, i)
    PROVE  Fine(S, T)
  <1>1. Shape(S) /\ i \in Slots /\ Same(S, S)
    BY SameSelf DEF Well, Taken
  <1>2. CASE T = finish_client(S, i, "error")
    BY <1>1, <1>2, SameIsFine
  <1>3. CASE T # finish_client(S, i, "error")
    <2> DEFINE sent(n) == [Emit(S, i, S.clients[i].response, n) EXCEPT !.clients[i].sent = @ + n]
    <2>1. PICK n : T = sent(n) \/ T = [sent(n) EXCEPT !.clients[i].fd = 0] \/ T = finish_client(sent(n), i, "ok")
      BY <1>3 DEF write_client
    <2>2. Same(S, sent(n))
      <3> DEFINE E == Emit(S, i, S.clients[i].response, n)
      <3>1. Same(S, E)
        BY <1>1, Emits
      <3> HIDE DEF E
      <3>2. Same(E, [E EXCEPT !.clients[i].sent = @ + n])
        <4>1. \A v : Same(E, [E EXCEPT !.clients[i].sent = v])
          <5>1. Shape(E)
            BY <3>1 DEF Same
          <5> QED
            BY <1>1, <5>1, SetsBytes
        <4>2. Same(E, [E EXCEPT !.clients[i].sent = E.clients[i].sent + n])
          BY <4>1
        <4> QED
          BY <4>2
      <3> QED
        BY <3>1, <3>2, SameGoesOn DEF E
    <2> DEFINE X == sent(n)
    <2> HIDE DEF sent
    <2>3. Same(X, [X EXCEPT !.clients[i].fd = 0])
      <3>1. Shape(X)
        BY <2>2 DEF Same
      <3> HIDE DEF X
      <3> QED
        BY <1>1, <3>1, SetsBytes
    <2>4. CASE T = finish_client(X, i, "ok")
      BY <2>2, <2>4, SameIsFine
    <2>5. CASE T = X \/ T = [X EXCEPT !.clients[i].fd = 0]
      <3>1. Same(S, T)
        BY <2>2, <2>3, <2>5, SameGoesOn
      <3> QED
        BY <3>1, SameIsFine
    <2> QED
      BY <2>1, <2>4, <2>5
  <1> QED
    BY <1>2, <1>3

\* A ready socket is served.
LEMMA Serves ==
    ASSUME Started, NEW S, Well(S), ~S.done, NEW i \in Taken(S), NEW T \in Serve(S, i)
    PROVE  Fine(S, T)
  <1> DEFINE Read(U) ==
            CASE U.clients[i].state = "read" -> read_client(U, i)
              [] U.clients[i].state = "streamRead" -> read_stream_chunk(U, i)
              [] U.clients[i].state = "interimWrite" -> write_interim(U, i)
              [] U.clients[i].state = "write" /\ ~Routed -> write_client(U, i)
              [] OTHER -> {U}
             Rest(U) ==
            IF U.clients[i].state = "free" \/ U.clients[i].fd = 0 THEN {U}
            ELSE {finish_client(U, i, "error")} \cup Read(U)
  <1>1. PICK U : (U = S \/ U \in write_client(S, i)) /\ T \in Rest(U)
    BY DEF Serve
  <1>2. Fine(S, U)
    <2>1. Fine(S, S)
      BY DEF Fine, Onward
    <2> QED
      BY <1>1, <2>1, WritesClient
  <1>3. i \in Slots
    BY DEF Taken
  <1>4. CASE U.clients[i].state = "free" \/ U.clients[i].fd = 0
    BY <1>1, <1>2, <1>4
  <1>5. CASE ~(U.clients[i].state = "free" \/ U.clients[i].fd = 0)
    <2>1. Well(U) /\ ~U.done /\ i \in Taken(U) /\ Onward(S, U) /\ U.done = S.done
      BY <1>2, <1>3, <1>5 DEF Fine, Taken
    <2>2. T = finish_client(U, i, "error") \/ T \in Read(U)
      BY <1>1, <1>5
    <2>3. \/ T = U \/ T = finish_client(U, i, "error") \/ T \in read_client(U, i)
          \/ T \in read_stream_chunk(U, i) \/ T \in write_interim(U, i) \/ T \in write_client(U, i)
      BY <2>2
    <2>4. Fine(U, T)
      <3>1. Same(U, U)
        BY <2>1, SameSelf DEF Well
      <3> QED
        BY <2>1, <2>3, <3>1, SameIsFine, Reads, ReadsChunk, WritesInterim, WritesClient
    <2> QED
      BY <2>1, <2>4, OnwardGoesOn DEF Fine
  <1> QED
    BY <1>4, <1>5

-----------------------------------------------------------------------------
(* Accepting clients.                                                      *)

\* The least of a set of numbers.
LEMMA LeastOf ==
    ASSUME NEW S \in SUBSET Nat, S # {}
    PROVE  Min(S) \in S
  <1> DEFINE T == {0 .. x : x \in S}
             R == StrictSubsetOrdering(Nat)
  <1>1. IsWellFoundedOn(R, FiniteSubsetsOf(Nat))
    BY FS_StrictSubsetOrderingWellFounded
  <1>2. T \subseteq FiniteSubsetsOf(Nat) /\ T # {}
    <2>1. \A x \in S : IsFiniteSet(0 .. x) /\ 0 .. x \in SUBSET Nat
      BY FS_Interval
    <2> QED
      BY <2>1 DEF FiniteSubsetsOf
  <1>3. \E t \in T : \A u \in T : <<u, t>> \notin R
    <2> HIDE DEF T, R
    <2> QED
      BY <1>1, <1>2, WFMin
  <1>4. PICK x \in S : \A y \in S : <<0 .. y, 0 .. x>> \notin R
    BY <1>3
  <1>5. \A y \in S : x =< y
    <2> SUFFICES ASSUME NEW y \in S, y < x PROVE FALSE
      OBVIOUS
    <2>1. 0 .. y \subseteq 0 .. x /\ x \in 0 .. x /\ x \notin 0 .. y
      OBVIOUS
    <2>2. 0 .. y \in SUBSET Nat /\ 0 .. x \in SUBSET Nat /\ 0 .. y # 0 .. x
      BY <2>1
    <2> QED
      BY <1>4, <2>1, <2>2 DEF StrictSubsetOrdering
  <1> QED
    BY <1>5 DEF Min

\* A client takes a free slot and the next number.
LEMMA TakesSlot ==
    ASSUME Started, NEW S, Well(S), ~S.done, S.admitted # SizeMax, NEW i \in Slots \ Taken(S),
           NEW new, DOMAIN new = ClientFields, new.state # "free", new.id = S.admitted + 1,
           new.admitted = FALSE,
           NEW T, T = [S EXCEPT !.admitted = @ + 1, !.active = @ + 1, !.clients[i] = new]
    PROVE  Fine(S, T) /\ i \in Taken(T)
  <1>1. /\ DOMAIN T = Fields /\ \A f \in Fields \ {"admitted", "active", "clients"} : T[f] = S[f]
        /\ T.clients = [S.clients EXCEPT ![i] = new] /\ T.admitted = S.admitted + 1
        /\ T.active = S.active + 1
    BY DEF Well, Shape, Fields
  <1>2. /\ DOMAIN T.clients = Slots /\ T.clients[i] = new
        /\ \A j \in Slots \ {i} : T.clients[j] = S.clients[j]
    BY <1>1 DEF Well, Shape
  <1>3. /\ T.requests = S.requests /\ T.succeeded = S.succeeded /\ T.failed = S.failed
        /\ T.outcomes = S.outcomes /\ T.listener = S.listener /\ T.stopping = S.stopping
        /\ T.ready_pending = S.ready_pending /\ T.done = S.done /\ T.error = S.error
        /\ T.result = S.result /\ T.next_handler = S.next_handler
    BY <1>1 DEF Fields
  <1>4. Shape(T)
    <2>1. DOMAIN T = Fields
      BY <1>1
    <2>2. \A j \in Slots : DOMAIN T.clients[j] = ClientFields /\ T.clients[j].admitted \in BOOLEAN
      BY Zenon, <1>2 DEF Well, Shape
    <2> QED
      BY Zenon, <1>2, <1>3, <2>1, <2>2 DEF Well, Shape
  <1>5. Taken(T) = Taken(S) \cup {i}
    BY <1>2 DEF Taken
  <1>6. Admitted(T) = Admitted(S)
    <2>1. i \notin Admitted(S)
      BY DEF Well, Counts
    <2> QED
      BY <1>2, <2>1 DEF Admitted
  <1>7. S.admitted \in Nat /\ S.admitted < SizeMax /\ S.active \in Nat /\ SizeMax \in Nat
    BY Limits, Finite DEF Well, Counts
  <1>8. \A j \in Taken(S) : /\ j # i /\ j \in Slots /\ T.clients[j] = S.clients[j]
                            /\ T.clients[j].id \in 1 .. S.admitted
    BY <1>2 DEF Well, Counts, Taken
  <1>9. T.active = Cardinality(Taken(T))
    <2>1. Cardinality(Taken(T)) = Cardinality(Taken(S)) + 1
      BY <1>5, Finite, FS_AddElement
    <2> QED
      BY <1>1, <2>1 DEF Well, Counts
  <1>10. Counts(T)
    <2>1. T.admitted \in Nat /\ T.admitted <= SizeMax
      BY <1>1, <1>7
    <2>2. \A j \in Taken(T) : T.clients[j].id \in 1 .. T.admitted
      BY <1>1, <1>2, <1>5, <1>7, <1>8
    <2>3. \A j, k \in Taken(T) : T.clients[j].id = T.clients[k].id => j = k
      <3>1. \A j \in Taken(S) : T.clients[j].id # T.clients[i].id
        BY <1>2, <1>7, <1>8
      <3>2. \A j, k \in Taken(S) : T.clients[j].id = T.clients[k].id => j = k
        BY <1>8 DEF Well, Counts
      <3> QED
        BY <1>5, <3>1, <3>2
    <2>4. /\ Admitted(T) \subseteq Taken(T)
          /\ T.requests = Cardinality(Admitted(T)) /\ T.requests <= RequestSlots
      BY <1>3, <1>5, <1>6 DEF Well, Counts
    <2> QED
      BY <1>9, <2>1, <2>2, <2>3, <2>4 DEF Counts
  <1>11. Outcomes(T)
    <2> SUFFICES ASSUME ~T.error /\ T.result # "error"
                 PROVE  IF Continuous
                        THEN /\ T.succeeded \in Nat /\ T.failed \in Nat
                             /\ T.succeeded + T.failed + T.active = T.admitted
                        ELSE \A id \in Ids : (T.outcomes[id] # "none") <=> (id <= T.admitted /\ ~LiveIn(T, id))
      BY DEF Outcomes
    <2>1. CASE Continuous
      <3>1. S.succeeded \in Nat /\ S.failed \in Nat /\ S.succeeded + S.failed + S.active = S.admitted
        BY <1>3, <2>1 DEF Well, Outcomes
      <3>2. T.succeeded + T.failed + T.active = T.admitted
        BY <1>1, <1>3, <1>7, <3>1
      <3> QED
        BY <1>3, <2>1, <3>1, <3>2
    <2>2. CASE ~Continuous
      <3> SUFFICES ASSUME NEW id \in Ids
                   PROVE  (T.outcomes[id] # "none") <=> (id <= T.admitted /\ ~LiveIn(T, id))
        BY <2>2
      <3>1. (S.outcomes[id] # "none") <=> (id <= S.admitted /\ ~LiveIn(S, id))
        BY <1>3, <2>2 DEF Well, Outcomes
      <3>2. LiveIn(T, id) <=> LiveIn(S, id) \/ id = S.admitted + 1
        BY <1>2, <1>5, <1>8 DEF LiveIn
      <3>3. id \in Nat
        BY <1>7 DEF Ids
      <3>4. (id <= T.admitted /\ ~LiveIn(T, id)) <=> (id <= S.admitted /\ ~LiveIn(S, id))
        BY <1>1, <1>7, <3>2, <3>3
      <3> QED
        BY <1>3, <3>1, <3>4
    <2> QED
      BY <2>1, <2>2
  <1>12. Ends(T)
    BY <1>3 DEF Well, Ends
  <1>13. Standing(T) = Standing(S)
    BY <1>3 DEF Standing
  <1> QED
    BY <1>3, <1>4, <1>5, <1>10, <1>11, <1>12, <1>13 DEF Well, Fine, Onward

\* accept_client: a new client, none, or the failure to number it.
LEMMA Accepts ==
    ASSUME Started, NEW S, Well(S), ~S.done, NEW T \in accept_client(S)
    PROVE  Well(T) /\ Onward(S, T)
  <1>1. CASE T = S
    BY <1>1 DEF Onward
  <1>2. CASE T = fail(S)
    BY <1>2, Breaks
  <1>3. CASE T # S /\ T # fail(S)
    <2> DEFINE room == Slots \ Taken(S)
               used == {S.clients[i].fd : i \in Slots}
               fd == Min((1 .. Concurrency + 1) \ used)
               i == Min(room)
    <2>1. /\ S.admitted # SizeMax /\ room # {}
          /\ \E U \in AcceptedInto(S, i, fd) : T = U \/ T = stop_at(U, 0)
      BY <1>3 DEF accept_client
    <2>2. i \in Slots \ Taken(S)
      <3>1. room \in SUBSET Nat
        BY Limits
      <3> HIDE DEF room
      <3>2. i \in room
        BY <2>1, <3>1, LeastOf
      <3> QED
        BY <3>2 DEF room
    <2> HIDE DEF i, fd, room
    <2>3. PICK U \in AcceptedInto(S, i, fd) : T = U \/ T = stop_at(U, 0)
      BY <2>1
    <2> DEFINE new == [NoClient EXCEPT !.state = IF Streaming THEN "start" ELSE "read",
                                       !.id = S.admitted + 1, !.fd = fd, !.timer = ClientTimeout]
               A == [S EXCEPT !.admitted = @ + 1, !.active = @ + 1, !.clients[i] = new]
    <2>4. U = A \/ U = finish_client(A, i, "error")
      BY <2>3 DEF AcceptedInto
    <2>5. /\ DOMAIN new = ClientFields /\ new.state # "free" /\ new.id = S.admitted + 1
          /\ new.admitted = FALSE
      BY DEF NoClient, ClientFields
    <2> HIDE DEF new
    <2>6. Fine(S, A) /\ i \in Taken(A)
      BY <2>1, <2>2, <2>5, TakesSlot
    <2> HIDE DEF A
    <2>7. Well(U) /\ Onward(S, U) /\ ~U.done
      <3>1. Well(A) /\ ~A.done /\ Onward(S, A)
        BY <2>6 DEF Fine
      <3>2. CASE U = A
        BY <3>1, <3>2
      <3>3. CASE U = finish_client(A, i, "error")
        BY <2>6, <3>1, <3>3, FinishesOne, OnwardGoesOn
      <3> QED
        BY <2>4, <3>2, <3>3
    <2>8. Well(stop_at(U, 0)) /\ Onward(U, stop_at(U, 0))
      BY <2>7, Stops
    <2> QED
      BY <2>3, <2>7, <2>8, OnwardGoesOn
  <1> QED
    BY <1>1, <1>2, <1>3

-----------------------------------------------------------------------------
(* Handlers.                                                               *)

\* The committed response is attached to its client.
LEMMA Attaches ==
    ASSUME NEW S, Shape(S), NEW i \in Slots
    PROVE  Same(S, http_attach_response(S, i))
  <1>1. \A v : Same(S, [S EXCEPT !.clients[i].response = v])
    BY SetsBytes
  <1> DEFINE v == IF S.clients[i].response = "none" THEN S.clients[i].completed ELSE S.clients[i].response
  <1>2. Same(S, [S EXCEPT !.clients[i].response = v])
    BY <1>1
  <1>3. http_attach_response(S, i) = [S EXCEPT !.clients[i].response = v]
    BY DEF http_attach_response
  <1> HIDE DEF v
  <1> QED
    BY <1>2, <1>3

\* The same for all clients.
LEMMA AttachesAll ==
    ASSUME NEW S, Shape(S)
    PROVE  Same(S, http_attach_responses(S))
  <1> DEFINE T == http_attach_responses(S)
             A(i) == http_attach_response(S, i)
  <1>1. /\ DOMAIN T = Fields /\ \A f \in Fields \ {"clients"} : T[f] = S[f]
        /\ T.clients = [i \in Slots |-> A(i).clients[i]]
    BY DEF http_attach_responses, Shape, Fields
  <1>2. \A i \in Slots : Same(S, A(i))
    BY Attaches
  <1> HIDE DEF T, A
  <1>3. \A i \in Slots : /\ DOMAIN A(i).clients[i] = ClientFields /\ A(i).clients[i].admitted \in BOOLEAN
                         /\ A(i).clients[i].state = "free" <=> S.clients[i].state = "free"
                         /\ A(i).clients[i].id = S.clients[i].id
                         /\ A(i).clients[i].admitted = S.clients[i].admitted
    BY <1>2 DEF Same, Shape, SameClients
  <1>4. DOMAIN T.clients = Slots /\ \A i \in Slots : T.clients[i] = A(i).clients[i]
    BY <1>1
  <1>5. SameClients(S, T)
    BY <1>3, <1>4 DEF SameClients
  <1>6. Shape(T)
    BY <1>1, <1>3, <1>4 DEF Shape, Fields
  <1>7. Same(S, T)
    BY <1>1, <1>5, <1>6 DEF Same, Fields
  <1> QED
    BY <1>7 DEF T

\* http_finish_execution: what is left of the response is flushed.
LEMMA FinishesExecution ==
    ASSUME Started, NEW S, Well(S), ~S.done, NEW i \in Taken(S)
    PROVE  Fine(S, http_finish_execution(S, i))
  <1> DEFINE A == http_attach_response(S, i)
             T == [A EXCEPT !.clients[i].execution = FALSE]
  <1>1. i \in Slots /\ Shape(S)
    BY DEF Taken, Well
  <1>2. Same(S, A)
    BY <1>1, Attaches
  <1>3. http_finish_execution(S, i) = finish_client(T, i, "ok") \/ http_finish_execution(S, i) = [T EXCEPT !.clients[i].state = "write"]
    BY DEF http_finish_execution
  <1> HIDE DEF A
  <1>4. Same(A, T)
    <2>1. Shape(A)
      BY <1>2 DEF Same
    <2> QED
      BY <1>1, <2>1, SetsBytes
  <1>5. Same(S, T)
    BY <1>2, <1>4, SameGoesOn
  <1> HIDE DEF T
  <1>6. Same(T, [T EXCEPT !.clients[i].state = "write"])
    <2>1. Shape(T) /\ i \in Taken(T)
      BY <1>5 DEF Same, SameClients, Taken
    <2> QED
      BY <2>1, SetsState
  <1>7. Same(S, [T EXCEPT !.clients[i].state = "write"])
    BY <1>5, <1>6, SameGoesOn
  <1> QED
    BY <1>3, <1>5, <1>7, SameIsFine

\* The end of a handler: a response, an outcome, or a trap.
LEMMA HandlersEnd ==
    ASSUME Started, NEW S, Well(S), ~S.done, NEW i \in Taken(S), NEW status,
           NEW T \in HandlerEnds(S, i, status)
    PROVE  Well(T) /\ Onward(S, T)
  <1>1. i \in Slots /\ Shape(S) /\ Same(S, S)
    BY SameSelf DEF Taken, Well
  <1> DEFINE v == IF S.clients[i].completed = "none" THEN "internal" ELSE S.clients[i].completed
             C == [S EXCEPT !.clients[i].completed = v]
             R == [S EXCEPT !.clients[i].response = "handler", !.clients[i].execution = FALSE,
                            !.clients[i].state = "write"]
  <1>2. \/ T = http_finish_execution(C, i) \/ T = R \/ T = finish_client(S, i, "error")
        \/ T = http_finish_execution(S, i) \/ T = trap(S)
    <2>1. http_handler_finished(S, i) = http_finish_execution(C, i)
      BY DEF http_handler_finished
    <2> HIDE DEF C, v
    <2> QED
      BY <2>1 DEF HandlerEnds
  <1>3. CASE T = http_finish_execution(C, i)
    <2>1. Same(S, C)
      <3> HIDE DEF v
      <3> QED
        BY <1>1, SetsBytes
    <2> HIDE DEF C
    <2>2. Well(C) /\ Onward(S, C) /\ ~C.done /\ i \in Taken(C)
      BY <2>1, SameIsWell
    <2>3. Well(T) /\ Onward(C, T)
      BY <1>3, <2>2, FinishesExecution DEF Fine
    <2> QED
      BY <2>2, <2>3, OnwardGoesOn
  <1>4. CASE T = R
    <2> DEFINE A == [S EXCEPT !.clients[i].response = "handler"]
               B == [A EXCEPT !.clients[i].execution = FALSE]
               D == [B EXCEPT !.clients[i].state = "write"]
    <2>1. Same(S, A)
      BY <1>1, SetsBytes
    <2>2. T = D
      BY <1>1, <1>4 DEF Shape
    <2> HIDE DEF A
    <2>3. Same(S, B)
      <3>1. Shape(A)
        BY <2>1 DEF Same
      <3>2. Same(A, B)
        BY <1>1, <3>1, SetsBytes
      <3> QED
        BY <2>1, <3>2, SameGoesOn
    <2> HIDE DEF B
    <2>4. Same(S, D)
      <3>1. Shape(B) /\ i \in Taken(B)
        BY <2>3 DEF Same, SameClients, Taken
      <3>2. Same(B, D)
        BY <3>1, SetsState
      <3> QED
        BY <2>3, <3>2, SameGoesOn
    <2> HIDE DEF D
    <2> QED
      BY <2>2, <2>4, SameIsWell
  <1>5. CASE T = finish_client(S, i, "error") \/ T = http_finish_execution(S, i)
    BY <1>1, <1>5, SameIsFine, FinishesExecution DEF Fine
  <1>6. CASE T = trap(S)
    BY <1>6, Breaks
  <1> QED
    BY <1>2, <1>3, <1>4, <1>5, <1>6

\* A request is admitted.
LEMMA AdmitsRequest ==
    ASSUME Started, NEW S, Well(S), NEW i \in Taken(S), ~S.clients[i].admitted, S.requests < RequestSlots,
           NEW T, T = [S EXCEPT !.clients[i].admitted = TRUE, !.requests = @ + 1]
    PROVE  Well(T) /\ Onward(S, T)
  <1> DEFINE c == [S.clients[i] EXCEPT !.admitted = TRUE]
  <1>0. i \in Slots
    BY DEF Taken
  <1>1. /\ DOMAIN T = Fields /\ \A f \in Fields \ {"clients", "requests"} : T[f] = S[f]
        /\ T.clients = [S.clients EXCEPT ![i] = c] /\ T.requests = S.requests + 1
    BY DEF Well, Shape, Fields
  <1>2. /\ DOMAIN c = ClientFields /\ c.admitted = TRUE /\ c.id = S.clients[i].id
        /\ c.state = S.clients[i].state
    BY <1>0 DEF Well, Shape, ClientFields
  <1> HIDE DEF c
  <1>3. /\ DOMAIN T.clients = Slots /\ T.clients[i] = c
        /\ \A j \in Slots \ {i} : T.clients[j] = S.clients[j]
    BY <1>0, <1>1 DEF Well, Shape
  <1>4. /\ T.admitted = S.admitted /\ T.succeeded = S.succeeded /\ T.failed = S.failed
        /\ T.outcomes = S.outcomes /\ T.listener = S.listener /\ T.stopping = S.stopping
        /\ T.ready_pending = S.ready_pending /\ T.done = S.done /\ T.error = S.error
        /\ T.result = S.result /\ T.next_handler = S.next_handler /\ T.active = S.active
    BY <1>1 DEF Fields
  <1>5. Shape(T)
    <2>1. DOMAIN T = Fields
      BY <1>1
    <2>2. \A j \in Slots : DOMAIN T.clients[j] = ClientFields /\ T.clients[j].admitted \in BOOLEAN
      BY Zenon, <1>2, <1>3 DEF Well, Shape
    <2> QED
      BY Zenon, <1>3, <1>4, <2>1, <2>2 DEF Well, Shape
  <1>6. Taken(T) = Taken(S) /\ \A j \in Taken(S) : T.clients[j].id = S.clients[j].id
    BY <1>0, <1>2, <1>3 DEF Taken
  <1>7. Admitted(T) = Admitted(S) \cup {i} /\ i \notin Admitted(S)
    BY <1>0, <1>2, <1>3 DEF Admitted
  <1>8. T.requests = Cardinality(Admitted(T)) /\ T.requests <= RequestSlots
    <2>1. Cardinality(Admitted(T)) = Cardinality(Admitted(S)) + 1
      BY <1>7, Finite, FS_AddElement
    <2>2. S.requests = Cardinality(Admitted(S)) /\ S.requests \in Nat /\ RequestSlots \in Nat
      BY Finite, Limits DEF Well, Counts
    <2> QED
      BY <1>1, <2>1, <2>2
  <1>9. Counts(T)
    BY <1>4, <1>6, <1>7, <1>8 DEF Well, Counts
  <1>10. \A id : LiveIn(T, id) <=> LiveIn(S, id)
    BY <1>6 DEF LiveIn
  <1>11. Outcomes(T)
    BY <1>4, <1>10 DEF Well, Outcomes
  <1>12. Ends(T) /\ Standing(T) = Standing(S)
    BY <1>4, <1>6 DEF Well, Ends, Standing
  <1> QED
    BY <1>5, <1>9, <1>11, <1>12 DEF Well, Onward

\* An instruction of a handler.
LEMMA Instructs ==
    ASSUME Started, NEW S, Well(S), NEW i \in Taken(S), NEW x \in Instruction(S, i)
    PROVE  Well(x.server) /\ Onward(S, x.server)
  <1>1. i \in Slots /\ Shape(S) /\ Same(S, S)
    BY SameSelf DEF Taken, Well
  <1> DEFINE T == x.server
  <1>2. \/ T = S
        \/ T = [S EXCEPT !.clients[i].state = "streamRead"]
        \/ /\ T = [S EXCEPT !.clients[i].admitted = TRUE, !.requests = @ + 1]
           /\ ~S.clients[i].admitted /\ S.requests < RequestSlots
        \/ T = [S EXCEPT !.clients[i].state = "interimWrite"]
        \/ T = [S EXCEPT !.clients[i].completed = "handler"]
    BY DEF Instruction
  <1> HIDE DEF T
  <1>3. CASE /\ T = [S EXCEPT !.clients[i].admitted = TRUE, !.requests = @ + 1]
             /\ ~S.clients[i].admitted /\ S.requests < RequestSlots
    <2>1. Well(T) /\ Onward(S, T)
      BY <1>3, AdmitsRequest
    <2> QED
      BY <2>1 DEF T
  <1>4. CASE \/ T = S \/ T = [S EXCEPT !.clients[i].state = "streamRead"]
             \/ T = [S EXCEPT !.clients[i].state = "interimWrite"]
             \/ T = [S EXCEPT !.clients[i].completed = "handler"]
    <2>1. Same(S, T)
      <3>1. CASE T = [S EXCEPT !.clients[i].completed = "handler"]
        BY <1>1, <3>1, SetsBytes
      <3>2. CASE T = [S EXCEPT !.clients[i].state = "streamRead"]
        BY <1>1, <3>2, SetsState
      <3>3. CASE T = [S EXCEPT !.clients[i].state = "interimWrite"]
        BY <1>1, <3>3, SetsState
      <3> QED
        BY <1>1, <1>4, <3>1, <3>2, <3>3
    <2>2. Well(T) /\ Onward(S, T)
      BY <2>1, SameIsWell
    <2> QED
      BY <2>2 DEF T
  <1> QED
    BY <1>2, <1>3, <1>4

-----------------------------------------------------------------------------
(* The steps.                                                              *)

\* The inductive invariant: whatever the thread does the clients are accounted
\* for, a server that is started has not ended, and the one destroyed holds nothing.
Accounting ==
    /\ Started /\ turn.slot \in Slots /\ ServesOnlyCurrent
    /\ pc # "destroyed" => Well(server)
    /\ pc = "start" => Standing(server) = "listening"
    /\ pc = "destroyed" => /\ Counts(server) /\ Taken(server) = {}
                           /\ ~server.listener /\ ~server.ready_pending

\* A step of a server that is there.
Proceeds ==
    /\ setup' = setup /\ turn'.slot \in Slots
    /\ touched'.served = touched'.polled /\ ~touched'.late
    /\ pc \notin {"start", "destroyed"} /\ pc' \notin {"start", "destroyed"}
    /\ Well(server') /\ Onward(server, server')

\* The thread goes on, and no socket was used.
LEMMA Goings ==
    ASSUME Accounting, NEW place, Goes(place)
    PROVE  /\ setup' = setup /\ turn'.slot \in Slots /\ pc' = place
           /\ touched'.served = touched'.polled /\ ~touched'.late
  <1>1. 0 \in Slots
    BY Limits DEF Accounting
  <1> QED
    BY <1>1 DEF Goes, NoTouch, NoTurn

\* A server that is there is accounted for.
LEMMA Running ==
    ASSUME Accounting, pc \notin {"start", "destroyed"}
    PROVE  Started /\ Well(server) /\ turn.slot \in Slots
  BY DEF Accounting

\* tcp_server_stop: the clock is looked at, admission ends, and the clock again.
LEMMA StopProceeds ==
    ASSUME Accounting, tcp_server_stop
    PROVE  Proceeds
  <1>1. /\ pc = "idle" /\ Goes("idle") /\ Started /\ Well(server)
    BY Running DEF tcp_server_stop
  <1> DEFINE S == deadlines(server)
             T == stop_at(S, 0)
             U == deadlines(T)
  <1>2. server' = IF S.done THEN S ELSE U
    BY DEF tcp_server_stop
  <1>3. Well(S) /\ Onward(server, S)
    BY <1>1, Deadlines
  <1> HIDE DEF S
  <1>4. CASE S.done
    <2>1. Well(server') /\ Onward(server, server')
      BY <1>2, <1>3, <1>4
    <2> QED
      BY <1>1, <2>1, Goings DEF Proceeds
  <1>5. CASE ~S.done
    <2>1. Well(T) /\ Onward(S, T)
      BY <1>3, <1>5, Stops
    <2> HIDE DEF T
    <2>2. Well(U) /\ Onward(T, U)
      BY <1>1, <2>1, Deadlines
    <2> HIDE DEF U
    <2>3. Onward(server, U)
      BY <1>3, <2>1, <2>2, OnwardGoesOn
    <2>4. Well(server') /\ Onward(server, server')
      BY <1>2, <1>5, <2>2, <2>3
    <2> QED
      BY <1>1, <2>4, Goings DEF Proceeds
  <1> QED
    BY <1>4, <1>5

\* A failure ends everything.
LEMMA FailsProceeds ==
    ASSUME Accounting, Fails
    PROVE  Proceeds
  <1>1. /\ pc \notin {"start", "destroyed"} /\ ~server.done /\ Goes("idle") /\ Started /\ Well(server)
        /\ server' \in {fail(server), trap(server)}
    BY Running DEF Fails
  <1>2. Well(server') /\ Onward(server, server')
    BY <1>1, Breaks
  <1> QED
    BY <1>1, <1>2, Goings DEF Proceeds

\* Time passes.
LEMMA TickProceeds ==
    ASSUME Accounting, Tick
    PROVE  Proceeds
  <1>1. /\ pc \notin {"start", "destroyed"} /\ UNCHANGED <<setup, pc, turn, touched>>
        /\ Well(server) /\ turn.slot \in Slots /\ touched.served = touched.polled /\ ~touched.late
    BY Running DEF Tick, Accounting, ServesOnlyCurrent
  <1> DEFINE c(i) == [server.clients[i] EXCEPT !.timer = Max({0, server.clients[i].timer - 1})]
  <1>2. /\ DOMAIN server' = Fields /\ server'.clients = [i \in Slots |-> c(i)]
        /\ \A f \in Fields \ {"clients", "admission", "drain"} : server'[f] = server[f]
    <2> DEFINE all == [i \in Slots |-> c(i)]
               a == Max({-Drain, server.admission - 1})
               d == Max({0, server.drain - 1})
    <2>1. server' = [server EXCEPT !.clients = all, !.admission = a, !.drain = d]
      BY DEF Tick
    <2>2. DOMAIN server = Fields
      BY <1>1 DEF Well, Shape
    <2> HIDE DEF a, d
    <2>3. PICK m : m = all
      OBVIOUS
    <2> HIDE DEF all
    <2>4. server' = [server EXCEPT !.clients = m, !.admission = a, !.drain = d]
      BY <2>1, <2>3
    <2>5. /\ DOMAIN server' = Fields /\ server'.clients = m
          /\ \A f \in Fields \ {"clients", "admission", "drain"} : server'[f] = server[f]
      BY <2>2, <2>4 DEF Fields
    <2> QED
      BY <2>3, <2>5 DEF all
  <1>3. \A i \in Slots : /\ DOMAIN c(i) = ClientFields /\ c(i).id = server.clients[i].id
                         /\ c(i).admitted = server.clients[i].admitted
                         /\ c(i).state = server.clients[i].state
    BY <1>1 DEF Well, Shape, ClientFields
  <1> HIDE DEF c
  <1>4. /\ server'.listener = server.listener /\ server'.stopping = server.stopping
        /\ server'.done = server.done /\ server'.error = server.error /\ server'.result = server.result
        /\ server'.admitted = server.admitted /\ server'.active = server.active
        /\ server'.succeeded = server.succeeded /\ server'.failed = server.failed
        /\ server'.outcomes = server.outcomes /\ server'.next_handler = server.next_handler
        /\ server'.ready_pending = server.ready_pending /\ server'.requests = server.requests
    BY <1>2 DEF Fields
  <1>5. SameClients(server, server')
    BY <1>2, <1>3 DEF SameClients
  <1>6. Shape(server')
    BY <1>1, <1>2, <1>3, <1>4 DEF Shape, Well
  <1>7. Same(server, server')
    BY <1>4, <1>5, <1>6 DEF Same
  <1>8. Well(server') /\ Onward(server, server')
    BY <1>1, <1>7, SameIsWell
  <1> QED
    BY <1>1, <1>8 DEF Proceeds

\* Up to the call of poll.
LEMMA PollBeginsProceeds ==
    ASSUME Accounting, PollBegins
    PROVE  Proceeds
  <1>1. pc = "idle" /\ Started /\ Well(server) /\ turn.slot \in Slots
    BY Running DEF PollBegins
  <1> DEFINE S == deadlines(server)
             T == IF Routed THEN http_attach_responses(S) ELSE S
  <1>2. /\ server' = S \/ server' = T
        /\ Goes("polled") \/ /\ pc' = "polling" /\ touched' = NoTouch
                             /\ UNCHANGED <<setup, turn>>
    BY DEF PollBegins
  <1>3. Well(S) /\ Onward(server, S)
    BY <1>1, Deadlines
  <1> HIDE DEF S
  <1>4. Well(T) /\ Onward(S, T)
    <2>1. Same(S, T)
      BY <1>3, AttachesAll, SameSelf DEF Well
    <2> HIDE DEF T
    <2> QED
      BY <1>3, <2>1, SameIsWell
  <1> HIDE DEF T
  <1>5. Well(server') /\ Onward(server, server')
    BY <1>2, <1>3, <1>4, OnwardGoesOn
  <1>6. /\ setup' = setup /\ turn'.slot \in Slots /\ pc' \in {"polled", "polling"}
        /\ touched'.served = touched'.polled /\ ~touched'.late
    BY <1>1, <1>2, Goings DEF NoTouch
  <1> QED
    BY <1>1, <1>5, <1>6 DEF Proceeds

\* poll returns, or its loop ends.
LEMMA PollReturnsProceeds ==
    ASSUME Accounting, PollReturns
    PROVE  Proceeds
  <1>1. /\ pc = "polling" /\ Started /\ Well(server) /\ server' = deadlines(server)
        /\ Goes("dispatch") \/ Goes("polled")
    BY Running DEF PollReturns
  <1>2. Well(server') /\ Onward(server, server')
    BY <1>1, Deadlines
  <1>3. /\ setup' = setup /\ turn'.slot \in Slots /\ pc' \in {"polled", "dispatch"}
        /\ touched'.served = touched'.polled /\ ~touched'.late
    BY <1>1, Goings
  <1> QED
    BY <1>1, <1>2, <1>3 DEF Proceeds

\* A field that nothing depends on takes another value.
LEMMA Turns ==
    ASSUME NEW S, Shape(S), NEW v, NEW w \in Slots
    PROVE  Same(S, [S EXCEPT !.next_io = v]) /\ Same(S, [S EXCEPT !.next_handler = w])
  <1>1. ASSUME NEW T, NEW g \in {"next_io", "next_handler"}, DOMAIN T = Fields,
               \A f \in Fields \ {g} : T[f] = S[f], T.next_handler \in Slots
        PROVE  Same(S, T)
    <2>1. /\ T.clients = S.clients /\ T.listener = S.listener /\ T.stopping = S.stopping
          /\ T.done = S.done /\ T.error = S.error /\ T.result = S.result
          /\ T.admitted = S.admitted /\ T.active = S.active
          /\ T.succeeded = S.succeeded /\ T.failed = S.failed
          /\ T.outcomes = S.outcomes /\ T.ready_pending = S.ready_pending /\ T.requests = S.requests
      BY <1>1 DEF Fields
    <2>2. Shape(T)
      BY <1>1, <2>1 DEF Shape
    <2>3. SameClients(S, T)
      BY <2>1 DEF SameClients
    <2> QED
      BY <2>1, <2>2, <2>3 DEF Same
  <1>2. Same(S, [S EXCEPT !.next_io = v])
    <2> DEFINE T == [S EXCEPT !.next_io = v]
    <2>1. DOMAIN T = Fields /\ \A f \in Fields \ {"next_io"} : T[f] = S[f]
      BY DEF Shape
    <2> HIDE DEF T
    <2>2. T.next_handler \in Slots
      BY <2>1 DEF Fields, Shape
    <2>3. Same(S, T)
      BY <1>1, <2>1, <2>2
    <2> QED
      BY <2>3 DEF T
  <1>3. Same(S, [S EXCEPT !.next_handler = w])
    <2> DEFINE T == [S EXCEPT !.next_handler = w]
    <2>1. DOMAIN T = Fields /\ \A f \in Fields \ {"next_handler"} : T[f] = S[f]
      BY DEF Shape
    <2>2. T.next_handler \in Slots
      BY DEF Fields, Shape
    <2> HIDE DEF T
    <2>3. Same(S, T)
      BY <1>1, <2>1, <2>2
    <2> QED
      BY <2>3 DEF T
  <1> QED
    BY <1>2, <1>3

\* The loop over the descriptors ends.
LEMMA PollEndsProceeds ==
    ASSUME Accounting, PollEnds
    PROVE  Proceeds
  <1>1. pc = "dispatch" /\ Started /\ Well(server) /\ Goes("polled")
    BY Running DEF PollEnds
  <1> DEFINE v == (server.next_io + 1) % Concurrency
             T == [server EXCEPT !.next_io = v]
  <1>2. server' = deadlines(T)
    BY DEF PollEnds
  <1>3. Same(server, T)
    <2>1. 0 \in Slots
      BY <1>1, Limits
    <2> HIDE DEF v
    <2> QED
      BY <1>1, <2>1, Turns DEF Well
  <1> HIDE DEF T
  <1>4. Well(T) /\ Onward(server, T)
    BY <1>1, <1>3, SameIsWell
  <1>5. Well(server') /\ Onward(T, server')
    BY <1>1, <1>2, <1>4, Deadlines
  <1>6. Onward(server, server')
    BY <1>4, <1>5, OnwardGoesOn
  <1> QED
    BY <1>1, <1>5, <1>6, Goings DEF Proceeds

\* A round of the loop: the clock is looked at before a client is served, and the
\* client is the one that was polled for.
LEMMA DispatchProceeds ==
    ASSUME Accounting, Dispatch
    PROVE  Proceeds
  <1>1. /\ pc = "dispatch" /\ Started /\ Well(server) /\ turn.slot \in Slots
        /\ setup' = setup /\ turn' = turn /\ pc' \in {"polled", "dispatch"}
    BY Running DEF Dispatch
  <1> DEFINE S == deadlines(server)
             e == Head(fds)
  <1>2. \/ server' = S /\ touched' = NoTouch
        \/ /\ ~S.done /\ server' \in accept_client(S) /\ touched' = NoTouch
        \/ /\ ~S.done /\ e.slot \in Slots /\ Current(S, e) /\ server' \in Serve(S, e.slot)
           /\ touched' = [polled |-> e.id, served |-> S.clients[e.slot].id,
                          late |-> Expired(S, e.slot) \/ Drained(S)]
    BY DEF Dispatch, Recheck
  <1>3. /\ Well(S) /\ Onward(server, S)
        /\ \A i \in Taken(S) : ~Expired(S, i) /\ ~Drained(S)
    BY <1>1, Deadlines
  <1> HIDE DEF S, e
  <1>4. CASE server' = S /\ touched' = NoTouch
    <2>1. touched'.served = touched'.polled /\ ~touched'.late
      BY <1>4 DEF NoTouch
    <2>2. Well(server') /\ Onward(server, server')
      BY <1>3, <1>4
    <2> QED
      BY <1>1, <2>1, <2>2 DEF Proceeds
  <1>5. CASE ~S.done /\ server' \in accept_client(S) /\ touched' = NoTouch
    <2>1. touched'.served = touched'.polled /\ ~touched'.late
      BY <1>5 DEF NoTouch
    <2>2. Well(server') /\ Onward(S, server')
      BY <1>1, <1>3, <1>5, Accepts
    <2>3. Onward(server, server')
      BY <1>3, <2>2, OnwardGoesOn
    <2> QED
      BY <1>1, <2>1, <2>2, <2>3 DEF Proceeds
  <1>6. CASE /\ ~S.done /\ e.slot \in Slots /\ Current(S, e) /\ server' \in Serve(S, e.slot)
             /\ touched' = [polled |-> e.id, served |-> S.clients[e.slot].id,
                            late |-> Expired(S, e.slot) \/ Drained(S)]
    <2>1. e.slot \in Taken(S) /\ S.clients[e.slot].id = e.id
      BY <1>6 DEF Current, Taken
    <2>2. ~Expired(S, e.slot) /\ ~Drained(S)
      BY <1>3, <2>1
    <2>3. touched'.served = touched'.polled /\ ~touched'.late
      BY <1>6, <2>1, <2>2
    <2>4. Well(server') /\ Onward(S, server')
      BY <1>1, <1>3, <1>6, <2>1, Serves DEF Fine
    <2>5. Onward(server, server')
      BY <1>3, <2>4, OnwardGoesOn
    <2> QED
      BY <1>1, <2>3, <2>4, <2>5 DEF Proceeds
  <1> QED
    BY <1>2, <1>4, <1>5, <1>6

\* The readiness callback is over.
LEMMA ReadyEnds ==
    ASSUME NEW S, Well(S), ~S.done
    PROVE  Well([S EXCEPT !.ready_pending = FALSE]) /\ Onward(S, [S EXCEPT !.ready_pending = FALSE])
  <1> DEFINE T == [S EXCEPT !.ready_pending = FALSE]
  <1>1. /\ DOMAIN T = Fields /\ T.ready_pending = FALSE
        /\ \A f \in Fields \ {"ready_pending"} : T[f] = S[f]
    BY DEF Well, Shape, Fields
  <1> HIDE DEF T
  <1>2. /\ T.clients = S.clients /\ T.listener = S.listener /\ T.stopping = S.stopping
        /\ T.done = S.done /\ T.error = S.error /\ T.result = S.result
        /\ T.admitted = S.admitted /\ T.active = S.active /\ T.next_handler = S.next_handler
        /\ T.succeeded = S.succeeded /\ T.failed = S.failed
        /\ T.outcomes = S.outcomes /\ T.requests = S.requests
    BY <1>1 DEF Fields
  <1>3. Taken(T) = Taken(S) /\ Admitted(T) = Admitted(S) /\ \A id : LiveIn(T, id) <=> LiveIn(S, id)
    BY <1>2 DEF Taken, Admitted, LiveIn
  <1>4. Shape(T)
    BY <1>1, <1>2 DEF Well, Shape
  <1>5. Counts(T)
    BY <1>2, <1>3 DEF Well, Counts
  <1>6. Outcomes(T)
    BY <1>2, <1>3 DEF Well, Outcomes
  <1>7. Ends(T)
    BY <1>2, <1>3 DEF Well, Ends
  <1>8. Standing(T) = Standing(S)
    BY <1>2 DEF Standing
  <1>9. Well(T) /\ Onward(S, T)
    BY <1>4, <1>5, <1>6, <1>7, <1>8 DEF Well, Onward
  <1> QED
    BY <1>9 DEF T

\* tcp_server_advance begins.
LEMMA AdvanceBeginsProceeds ==
    ASSUME Accounting, AdvanceBegins
    PROVE  Proceeds
  <1>1. pc = "polled" /\ Started /\ Well(server) /\ turn.slot \in Slots
    BY Running DEF AdvanceBegins
  <1> DEFINE S == deadlines(server)
  <1>2. \/ server' = S
        \/ ~S.done /\ server' \in advance_ready(S)
    BY DEF AdvanceBegins
  <1>3. \/ Goes("idle")
        \/ pc' = "advance" /\ touched' = NoTouch /\ UNCHANGED <<setup, turn>>
    BY DEF AdvanceBegins
  <1>4. Well(S) /\ Onward(server, S)
    BY <1>1, Deadlines
  <1> HIDE DEF S
  <1>5. /\ setup' = setup /\ turn'.slot \in Slots /\ pc' \in {"idle", "advance"}
        /\ touched'.served = touched'.polled /\ ~touched'.late
    BY <1>1, <1>3, Goings DEF NoTouch
  <1>6. CASE server' = S
    <2>1. Well(server') /\ Onward(server, server')
      BY <1>4, <1>6
    <2> QED
      BY <1>1, <1>5, <2>1 DEF Proceeds
  <1>7. CASE ~S.done /\ server' \in advance_ready(S)
    <2>1. \/ server' = S \/ server' = [S EXCEPT !.ready_pending = FALSE]
          \/ server' \in {fail(S), trap(S)}
      BY <1>7 DEF advance_ready
    <2>2. CASE server' = [S EXCEPT !.ready_pending = FALSE]
      <3>1. Well(server') /\ Onward(S, server')
        BY <1>4, <1>7, <2>2, ReadyEnds
      <3>2. Onward(server, server')
        BY <1>4, <3>1, OnwardGoesOn
      <3> QED
        BY <1>1, <1>5, <3>1, <3>2 DEF Proceeds
    <2>3. CASE server' \in {fail(S), trap(S)}
      <3>1. Well(server') /\ Onward(S, server')
        BY <1>1, <1>4, <1>7, <2>3, Breaks
      <3>2. Onward(server, server')
        BY <1>4, <3>1, OnwardGoesOn
      <3> QED
        BY <1>1, <1>5, <3>1, <3>2 DEF Proceeds
    <2> QED
      BY <1>6, <2>1, <2>2, <2>3
  <1> QED
    BY <1>2, <1>6, <1>7

\* start_handler: the client's handler is there, and runs.
LEMMA StartsHandler ==
    ASSUME NEW S, Shape(S), NEW i \in Taken(S)
    PROVE  Same(S, start_handler(S, i))
  <1> DEFINE A == [S EXCEPT !.clients[i].state = "run"]
             B == [A EXCEPT !.clients[i].execution = TRUE]
  <1>1. i \in Slots
    BY DEF Taken
  <1>2. Same(S, A)
    BY SetsState
  <1>3. start_handler(S, i) = B
    BY <1>1 DEF start_handler, Shape
  <1> HIDE DEF A
  <1>4. Shape(A)
    BY <1>2 DEF Same
  <1>5. Same(A, B)
    BY <1>1, <1>4, SetsBytes
  <1> HIDE DEF B
  <1> QED
    BY <1>2, <1>3, <1>5, SameGoesOn

\* The loop of tcp_server_advance up to the handler's instruction.
LEMMA TurnProceeds ==
    ASSUME Accounting, Turn
    PROVE  Proceeds
  <1>1. pc = "advance" /\ Started /\ Well(server) /\ turn.slot \in Slots
    BY Running DEF Turn
  <1> DEFINE S == IF budget = 0 THEN server ELSE deadlines(server)
             i == S.next_handler
             w == (S.next_handler + 1) % Concurrency
             T == [S EXCEPT !.next_handler = w]
             U == IF T.clients[i].state = "start" THEN start_handler(T, i) ELSE T
  <1>2. \/ server' = S /\ Goes("idle")
        \/ /\ touched' = NoTouch /\ setup' = setup
           /\ \/ server' = U /\ pc' = pc /\ turn' = turn
              \/ /\ U.clients[i].state = "run" /\ pc' = "turned"
                 /\ \E x \in Instruction(U, i) : server' = x.server /\ turn' = [slot |-> i, status |-> x.status]
    BY DEF Turn
  <1>3. Well(S) /\ Onward(server, S)
    BY <1>1, Deadlines DEF Onward
  <1> HIDE DEF S
  <1>4. i \in Slots /\ w \in Slots /\ Shape(S)
    <2>1. i \in Slots /\ Shape(S)
      BY <1>3 DEF Well, Shape
    <2>2. Concurrency \in Nat \ {0}
      BY <1>1, Limits
    <2>3. w \in Slots
      BY <2>1, <2>2 DEF Slots
    <2> QED
      BY <2>1, <2>3
  <1>5. Same(S, T)
    <2> HIDE DEF w, i
    <2> QED
      BY <1>4, Turns
  <1> HIDE DEF w, i, T
  <1>6. Same(S, U)
    <2>1. CASE T.clients[i].state = "start"
      <3>1. Shape(T) /\ i \in Taken(T)
        BY <1>4, <1>5, <2>1 DEF Same, Taken
      <3>2. Same(T, U)
        BY <2>1, <3>1, StartsHandler
      <3> HIDE DEF U
      <3> QED
        BY <1>5, <3>2, SameGoesOn
    <2>2. CASE T.clients[i].state # "start"
      BY <1>5, <2>2
    <2> QED
      BY <2>1, <2>2
  <1> HIDE DEF U
  <1>7. Well(U) /\ Onward(S, U)
    BY <1>3, <1>6, SameIsWell
  <1>8. Onward(server, U)
    BY <1>3, <1>7, OnwardGoesOn
  <1>9. CASE server' = S /\ Goes("idle")
    <2>1. Well(server') /\ Onward(server, server')
      BY <1>3, <1>9
    <2> QED
      BY <1>1, <1>9, <2>1, Goings DEF Proceeds
  <1>10. CASE /\ touched' = NoTouch /\ setup' = setup
              /\ server' = U /\ pc' = pc /\ turn' = turn
    <2>1. Well(server') /\ Onward(server, server')
      BY <1>7, <1>8, <1>10
    <2>2. touched'.served = touched'.polled /\ ~touched'.late
      BY <1>10 DEF NoTouch
    <2> QED
      BY <1>1, <1>10, <2>1, <2>2 DEF Proceeds
  <1>11. CASE /\ touched' = NoTouch /\ setup' = setup
              /\ U.clients[i].state = "run" /\ pc' = "turned"
              /\ \E x \in Instruction(U, i) : server' = x.server /\ turn' = [slot |-> i, status |-> x.status]
    <2>1. PICK x \in Instruction(U, i) : server' = x.server /\ turn' = [slot |-> i, status |-> x.status]
      BY <1>11
    <2>2. i \in Taken(U)
      BY <1>4, <1>11 DEF Taken
    <2>3. Well(server') /\ Onward(U, server')
      BY <1>1, <1>7, <2>1, <2>2, Instructs
    <2>4. Onward(server, server')
      BY <1>8, <2>3, OnwardGoesOn
    <2>5. touched'.served = touched'.polled /\ ~touched'.late
      BY <1>11 DEF NoTouch
    <2>6. turn'.slot \in Slots
      BY <1>4, <2>1
    <2> QED
      BY <1>1, <1>11, <2>3, <2>4, <2>5, <2>6 DEF Proceeds
  <1> QED
    BY <1>2, <1>9, <1>10, <1>11

\* The rest of the loop's body.
LEMMA AfterTurnProceeds ==
    ASSUME Accounting, AfterTurn
    PROVE  Proceeds
  <1>1. /\ pc = "turned" /\ Started /\ Well(server) /\ turn.slot \in Slots
        /\ turn' = NoTurn /\ touched' = NoTouch /\ setup' = setup
    BY Running DEF AfterTurn
  <1> DEFINE S == deadlines(server)
             i == turn.slot
  <1>2. /\ \/ server' = S
           \/ /\ ~S.done /\ S.clients[i].state = "run"
              /\ server' \in HandlerEnds(S, i, turn.status)
        /\ pc' \in {"idle", "advance"}
    BY DEF AfterTurn
  <1>3. Well(S) /\ Onward(server, S)
    BY <1>1, Deadlines
  <1> HIDE DEF S
  <1>4. Well(server') /\ Onward(server, server')
    <2>1. CASE server' = S
      BY <1>3, <2>1
    <2>2. CASE /\ ~S.done /\ S.clients[i].state = "run"
               /\ server' \in HandlerEnds(S, i, turn.status)
      <3>1. i \in Taken(S)
        BY <1>1, <2>2 DEF Taken
      <3>2. Well(server') /\ Onward(S, server')
        BY <1>1, <1>3, <2>2, <3>1, HandlersEnd
      <3> QED
        BY <1>3, <3>2, OnwardGoesOn
    <2> QED
      BY <1>2, <2>1, <2>2
  <1>5. /\ touched'.served = touched'.polled /\ ~touched'.late /\ turn'.slot \in Slots
    BY <1>1, Limits DEF NoTouch, NoTurn
  <1> QED
    BY <1>1, <1>2, <1>4, <1>5 DEF Proceeds

-----------------------------------------------------------------------------
(* Invariance.                                                             *)

\* What was shown of the next server under this setup holds in the next state.
LEMMA Kept ==
    ASSUME setup' = setup
    PROVE  /\ Slots' = Slots /\ Taken(server)' = Taken(server')
           /\ Started => Started'
           /\ Well(server') => Well(server)'
           /\ Counts(server') => Counts(server)'
           /\ Standing(server)' = Standing(server')
  <1>1. /\ Slots' = Slots /\ Ids' = Ids /\ Continuous' = Continuous /\ SizeMax' = SizeMax
        /\ RequestSlots' = RequestSlots
    BY DEF Slots, Concurrency, Ids, SizeMax, Continuous, mode, RequestSlots
  <1>2. Taken(server)' = Taken(server') /\ Admitted(server)' = Admitted(server')
    BY <1>1 DEF Taken, Admitted
  <1>3. \A id : LiveIn(server, id)' <=> LiveIn(server', id)
    BY <1>2 DEF LiveIn
  <1>4. Shape(server') => Shape(server)'
    BY <1>1 DEF Shape
  <1>5. Counts(server') => Counts(server)'
    BY <1>1, <1>2 DEF Counts
  <1>6. Outcomes(server') => Outcomes(server)'
    BY <1>1, <1>3 DEF Outcomes
  <1>7. Ends(server') => Ends(server)'
    BY <1>2 DEF Ends
  <1>8. Standing(server)' = Standing(server')
    BY DEF Standing
  <1>9. Started => Started'
    BY DEF Started
  <1> QED
    BY <1>1, <1>2, <1>4, <1>5, <1>6, <1>7, <1>8, <1>9 DEF Well

\* The server that is not started yet has nothing.
LEMMA AccountingInit == Init => Accounting
  <1> SUFFICES ASSUME Init PROVE Accounting
    OBVIOUS
  <1>1. /\ Started /\ pc = "start" /\ turn = NoTurn /\ touched = NoTouch
        /\ DOMAIN server = Fields /\ server.clients = [i \in Slots |-> NoClient]
        /\ server.listener = FALSE /\ server.stopping = FALSE /\ server.done = FALSE
        /\ server.error = FALSE /\ server.result = "none" /\ server.admitted = 0
        /\ server.active = 0 /\ server.succeeded = 0 /\ server.failed = 0
        /\ server.outcomes = [id \in Ids |-> "none"] /\ server.next_handler = 0
        /\ server.ready_pending = FALSE /\ server.requests = 0
    BY DEF Init, Started, Fields
  <1>2. /\ Concurrency \in Nat \ {0} /\ SizeMax \in Nat \ {0} /\ RequestSlots \in Nat /\ 0 \in Slots
    BY <1>1, Limits
  <1>3. /\ DOMAIN NoClient = ClientFields /\ NoClient.admitted = FALSE /\ NoClient.state = "free"
    BY DEF NoClient, ClientFields
  <1>4. Taken(server) = {} /\ Admitted(server) = {}
    BY <1>1, <1>3 DEF Taken, Admitted
  <1>5. Shape(server)
    BY <1>1, <1>2, <1>3 DEF Shape
  <1>6. Counts(server)
    <2>1. Cardinality({}) = 0
      BY FS_EmptySet
    <2> QED
      BY <1>1, <1>2, <1>4, <2>1 DEF Counts
  <1>7. Outcomes(server)
    BY <1>1 DEF Outcomes, Ids
  <1>8. Ends(server)
    BY <1>1, <1>4 DEF Ends
  <1>9. Standing(server) = "listening"
    BY <1>1 DEF Standing
  <1>10. turn.slot \in Slots /\ ServesOnlyCurrent
    BY <1>1, <1>2 DEF NoTurn, NoTouch, ServesOnlyCurrent
  <1> QED
    BY <1>1, <1>5, <1>6, <1>7, <1>8, <1>9, <1>10 DEF Accounting, Well

\* tcp_server_start: the server listens, fails or traps.
LEMMA Starts ==
    ASSUME Accounting, tcp_server_start
    PROVE  /\ Well(server') /\ Standing(server') \in {"listening", "failed", "trapped"}
           /\ pc = "start" /\ Goes("idle")
  <1>1. /\ pc = "start" /\ Goes("idle") /\ Started /\ Well(server) /\ Standing(server) = "listening"
    BY DEF tcp_server_start, Accounting
  <1>2. server.done = FALSE /\ server.stopping = FALSE /\ server.error = FALSE /\ server.result = "none"
    BY <1>1 DEF Standing, Well, Shape, Ends
  <1>3. CASE server' \in {fail(server), trap(server)}
    BY <1>1, <1>2, <1>3, Breaks
  <1>4. CASE server' \notin {fail(server), trap(server)}
    <2> DEFINE a == IF Continuous THEN -Drain ELSE AdmissionTimeout
               r == (mode = "service")
    <2>1. server' = [server EXCEPT !.listener = TRUE, !.admission = a, !.ready_pending = r]
      BY <1>4 DEF tcp_server_start
    <2>2. r \in BOOLEAN
      OBVIOUS
    <2> HIDE DEF a, r
    <2>3. PICK T : T = server'
      OBVIOUS
    <2>4. /\ DOMAIN T = Fields /\ T.listener = TRUE /\ T.ready_pending \in BOOLEAN
          /\ \A f \in Fields \ {"listener", "admission", "ready_pending"} : T[f] = server[f]
      BY <1>1, <2>1, <2>2, <2>3 DEF Well, Shape, Fields
    <2>5. /\ T.clients = server.clients /\ T.stopping = server.stopping
          /\ T.done = server.done /\ T.error = server.error /\ T.result = server.result
          /\ T.admitted = server.admitted /\ T.active = server.active
          /\ T.next_handler = server.next_handler
          /\ T.succeeded = server.succeeded /\ T.failed = server.failed
          /\ T.outcomes = server.outcomes /\ T.requests = server.requests
      BY <2>4 DEF Fields
    <2>6. /\ Taken(T) = Taken(server) /\ Admitted(T) = Admitted(server)
          /\ \A id : LiveIn(T, id) <=> LiveIn(server, id)
      BY <2>5 DEF Taken, Admitted, LiveIn
    <2>7. Shape(T)
      BY <1>1, <2>4, <2>5 DEF Well, Shape
    <2>8. Counts(T)
      BY <1>1, <2>5, <2>6 DEF Well, Counts
    <2>9. Outcomes(T)
      BY <1>1, <2>5, <2>6 DEF Well, Outcomes
    <2>10. Ends(T)
      BY <1>2, <2>5 DEF Ends
    <2>11. Standing(T) = "listening"
      BY <1>2, <2>5 DEF Standing
    <2> QED
      BY <1>1, <2>3, <2>7, <2>8, <2>9, <2>10, <2>11 DEF Well
  <1> QED
    BY <1>1, <1>3, <1>4

\* Every other step but tcp_server_destroy is one of a server that is there.
LEMMA Steps ==
    ASSUME Accounting, Next
    PROVE  tcp_server_start \/ tcp_server_destroy \/ Proceeds
  <1>1. ASSUME Pump PROVE Proceeds
    BY <1>1, PollBeginsProceeds, PollReturnsProceeds, DispatchProceeds, PollEndsProceeds,
       AdvanceBeginsProceeds, TurnProceeds, AfterTurnProceeds DEF Pump
  <1> QED
    BY <1>1, StopProceeds, FailsProceeds, TickProceeds DEF Next

\* Every step keeps the account.
LEMMA AccountingStep == Accounting /\ [Next]_vars => Accounting'
  <1> SUFFICES ASSUME Accounting, [Next]_vars PROVE Accounting'
    OBVIOUS
  <1>1. CASE tcp_server_start
    <2>1. /\ Well(server') /\ Goes("idle")
      BY <1>1, Starts
    <2>2. /\ setup' = setup /\ turn'.slot \in Slots /\ pc' = "idle"
          /\ touched'.served = touched'.polled /\ ~touched'.late
      BY <2>1, Goings
    <2>3. Slots' = Slots /\ Started' /\ Well(server)'
      BY <2>1, <2>2, Kept DEF Accounting
    <2> QED
      BY <2>2, <2>3 DEF Accounting, ServesOnlyCurrent
  <1>2. CASE tcp_server_destroy
    <2>1. /\ pc = "idle" /\ server' = close_all(server) /\ Goes("destroyed") /\ Started /\ Well(server)
      BY <1>2, Running DEF tcp_server_destroy
    <2>2. /\ setup' = setup /\ turn'.slot \in Slots /\ pc' = "destroyed"
          /\ touched'.served = touched'.polled /\ ~touched'.late
      BY <2>1, Goings
    <2>3. /\ Counts(server') /\ Taken(server') = {} /\ ~server'.listener /\ ~server'.ready_pending
      BY <2>1, ClosesAll
    <2>4. Slots' = Slots /\ Started' /\ Counts(server)' /\ Taken(server)' = {}
      BY <2>1, <2>2, <2>3, Kept
    <2> QED
      BY <2>2, <2>3, <2>4 DEF Accounting, ServesOnlyCurrent
  <1>3. CASE Proceeds
    <2>1. /\ setup' = setup /\ turn'.slot \in Slots
          /\ touched'.served = touched'.polled /\ ~touched'.late
          /\ pc' \notin {"start", "destroyed"} /\ Well(server')
      BY <1>3 DEF Proceeds
    <2>2. Slots' = Slots /\ Started' /\ Well(server)'
      BY <2>1, Kept DEF Accounting
    <2> QED
      BY <2>1, <2>2 DEF Accounting, ServesOnlyCurrent
  <1>4. CASE UNCHANGED vars
    <2>1. server' = server /\ setup' = setup /\ pc' = pc /\ turn' = turn /\ touched' = touched
      BY <1>4 DEF vars
    <2>2. /\ Slots' = Slots /\ Taken(server)' = Taken(server) /\ Started'
          /\ Well(server) => Well(server)'
          /\ Counts(server) => Counts(server)'
          /\ Standing(server)' = Standing(server)
      BY <2>1, Kept DEF Accounting
    <2> QED
      BY <2>1, <2>2 DEF Accounting, ServesOnlyCurrent
  <1> QED
    BY <1>1, <1>2, <1>3, <1>4, Steps

-----------------------------------------------------------------------------
(* What follows.                                                           *)

\* Clients with numbers of their own have as many numbers.
LEMMA OwnNumbers ==
    ASSUME Started, NEW S, Counts(S)
    PROVE  Cardinality({S.clients[i].id : i \in Taken(S)}) = Cardinality(Taken(S))
  <1> DEFINE K == Taken(S)
             N == {S.clients[i].id : i \in K}
             f == [i \in K |-> S.clients[i].id]
  <1>1. \A i, j \in K : S.clients[i].id = S.clients[j].id => i = j
    BY DEF Counts
  <1> HIDE DEF K
  <1>2. f \in Bijection(K, N)
    <2>1. f \in [K -> N] /\ \A t \in N : \E i \in K : f[i] = t
      OBVIOUS
    <2>2. \A i, j \in K : f[i] = f[j] => i = j
      BY <1>1
    <2> HIDE DEF f, N
    <2>3. f \in Injection(K, N)
      BY <2>1, <2>2 DEF Injection, IsInjective
    <2>4. f \in Surjection(K, N)
      BY <2>1 DEF Surjection
    <2> QED
      BY <2>3, <2>4 DEF Bijection
  <1>3. IsFiniteSet(K)
    BY Finite DEF K
  <1> HIDE DEF N, f
  <1>4. Cardinality(N) = Cardinality(K)
    BY <1>2, <1>3, FS_Bijection DEF ExistsBijection
  <1> QED
    BY <1>4 DEF N, K

\* The account says all that is asked.
LEMMA AccountingSays == Accounting => ClientsAccounted /\ ServesOnlyCurrent
  <1> SUFFICES ASSUME Accounting PROVE ClientsAccounted
    BY DEF Accounting
  <1>1. Started /\ Counts(server) /\ (pc # "destroyed" => Outcomes(server) /\ Ends(server))
    BY DEF Accounting, Well
  <1>2. Cardinality({server.clients[i].id : i \in Taken(server)}) = Cardinality(Taken(server))
    BY <1>1, OwnNumbers
  <1>3. /\ server.active = Cardinality(Taken(server))
        /\ server.requests = Cardinality({i \in Slots : server.clients[i].admitted})
        /\ server.requests <= RequestSlots /\ Admitted(server) \subseteq Taken(server)
    BY <1>1 DEF Counts, Admitted
  <1>4. \A id : Live(id) <=> LiveIn(server, id)
    BY DEF Live, LiveIn
  <1>5. (pc # "destroyed" /\ ~server.error /\ server.result # "error") =>
        IF Continuous THEN server.succeeded + server.failed + server.active = server.admitted
        ELSE \A id \in Ids : (server.outcomes[id] # "none")
                                <=> (id <= server.admitted /\ ~Live(id))
    BY <1>1, <1>4 DEF Outcomes
  <1>6. ASSUME server.done \/ pc = "destroyed"
        PROVE  /\ Taken(server) = {} /\ server.active = 0 /\ server.requests = 0
               /\ ~server.listener /\ ~server.ready_pending
    <2>1. Taken(server) = {} /\ ~server.listener /\ ~server.ready_pending
      BY <1>1, <1>6 DEF Accounting, Ends
    <2>2. Admitted(server) = {}
      BY <1>3, <2>1
    <2>3. Cardinality(Taken(server)) = 0 /\ Cardinality(Admitted(server)) = 0
      BY <2>1, <2>2, FS_EmptySet
    <2>4. server.requests = Cardinality(Admitted(server))
      BY <1>3 DEF Admitted
    <2> QED
      BY <1>3, <2>1, <2>3, <2>4
  <1> QED
    BY <1>2, <1>3, <1>5, <1>6 DEF ClientsAccounted

\* No client is forgotten and none is counted twice, whatever peers, handlers and
\* the clock do, and a server that has ended holds nothing.
THEOREM ClientsAlwaysAccounted == Spec => []ClientsAccounted
  <1> QED
    BY AccountingInit, AccountingStep, AccountingSays, PTL DEF Spec

\* A socket is only used for the client that was polled for, and in time.
THEOREM AlwaysServesCurrent == Spec => []ServesOnlyCurrent
  <1> QED
    BY AccountingInit, AccountingStep, AccountingSays, PTL DEF Spec

\* Every step is one of Listener, or nothing to it.
LEMMA ListenerStep == Accounting /\ [Next]_vars => [Abstract!Next]_(Phase)
  <1> SUFFICES ASSUME Accounting, [Next]_vars PROVE Abstract!Next \/ Phase' = Phase
    OBVIOUS
  <1>1. CASE tcp_server_start
    <2>1. /\ Standing(server') \in {"listening", "failed", "trapped"} /\ pc = "start" /\ Goes("idle")
      BY <1>1, Starts
    <2>2. pc' = "idle"
      BY <2>1 DEF Goes
    <2>3. Phase = "new" /\ Phase' = Standing(server')
      BY <2>1, <2>2 DEF Phase, Standing
    <2>4. Abstract!Listen
      BY <2>1, <2>3 DEF Abstract!Listen
    <2> QED
      BY <2>4 DEF Abstract!Next
  <1>2. CASE tcp_server_destroy
    <2>1. pc = "idle" /\ pc' = "destroyed"
      BY <1>2 DEF tcp_server_destroy, Goes
    <2>2. Phase # "new" /\ Phase' = "gone"
      BY <2>1 DEF Phase
    <2>3. Abstract!Destroy
      BY <2>2 DEF Abstract!Destroy
    <2> QED
      BY <2>3 DEF Abstract!Next
  <1>3. CASE Proceeds
    <2>1. /\ pc \notin {"start", "destroyed"} /\ pc' \notin {"start", "destroyed"} /\ Onward(server, server')
      BY <1>3 DEF Proceeds
    <2>2. Phase = Standing(server) /\ Phase' = Standing(server')
      BY <2>1 DEF Phase, Standing
    <2>3. Phase' \in {"listening", "draining", "drained", "failed", "trapped"}
      BY <2>2 DEF Standing
    <2>4. \/ Phase' = Phase \/ Phase = "listening"
          \/ Phase = "draining" /\ Phase' # "listening"
      BY <2>1, <2>2 DEF Onward
    <2> QED
      BY <2>3, <2>4 DEF Abstract!Next, Abstract!Stop, Abstract!Drains, Abstract!Breaks
  <1>4. CASE UNCHANGED vars
    BY <1>4 DEF vars, Phase
  <1> QED
    BY <1>1, <1>2, <1>3, <1>4, Steps

\* tcp_server.c implements Listener: it never listens again once it has begun to
\* stop, and how it ended does not change.
THEOREM ListenerImplemented == Spec => ImplementsListener
  <1>1. Init => Abstract!Init
    BY DEF Init, Abstract!Init, Phase
  <1>2. Accounting /\ [Next]_vars => [Abstract!Next]_(Phase)
    BY ListenerStep
  <1> QED
    BY <1>1, <1>2, AccountingInit, AccountingStep, PTL DEF Spec, ImplementsListener, Abstract!Spec
=============================================================================
