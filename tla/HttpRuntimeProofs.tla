-------------------------- MODULE HttpRuntimeProofs --------------------------
(***************************************************************************)
(* Proofs about the listeners of the root invocation, for any number of    *)
(* handles and any plain servers beside them.                              *)
(***************************************************************************)
EXTENDS HttpRuntime, SequenceTheorems, TLAPS

Records ==
    [phase : {"created", "listening", "closing", "closed", "destroyed"},
     server : {"new", "listening", "draining", "gone"},
     close : BOOLEAN, destroy : BOOLEAN]

\* How phase, server and request of one handle go together: a server is there from
\* listening to closing, or until the destruction that was asked for.
Good(r) ==
    /\ r \in Records
    /\ r.server = "new" => r.phase \in {"created", "closed", "destroyed"} /\ ~r.destroy
    /\ r.server \in {"listening", "draining"} =>
         /\ r.phase \in {"listening", "closing", "destroyed"}
         /\ r.destroy <=> r.phase = "destroyed"
    /\ r.server = "gone" => r.phase \in {"closed", "destroyed"}

Tables == {T \in [Handles -> Records] : \A h \in Handles : Good(T[h])}

\* The handles that have a resource.
Resources(T) == {h \in Handles : Resource(T, h)}

\* Two lists that hold each member of S once.
Lists(a, p, S) ==
    /\ IsInjective(a) /\ IsInjective(p)
    /\ ToSet(a) \cap ToSet(p) = {}
    /\ ToSet(a) \cup ToSet(p) = S

\* The lists hold the resources, and the table is good.
Core ==
    /\ http \in Tables
    /\ active \in Seq(Handles) /\ pending \in Seq(Handles)
    /\ Lists(active, pending, Resources(http))

\* The pump's place in the list.
CursorOK == cursor \in Nat /\ (pc = "pump" => cursor > 0)

\* The loop is left with listeners only after an error.
EndsEmpty ==
    (pc = "end" /\ ~error /\ status # "trapped") => active = << >> /\ pending = << >>

IInv == Core /\ CursorOK /\ EndsEmpty

-----------------------------------------------------------------------------
(* Lists.                                                                   *)

\* A list that holds its members once, without its i-th.
LEMMA RemoveAtLists ==
    ASSUME NEW S, NEW s \in Seq(S), IsInjective(s), NEW i \in 1 .. Len(s)
    PROVE  /\ RemoveAt(s, i) \in Seq(S)
           /\ IsInjective(RemoveAt(s, i))
           /\ ToSet(RemoveAt(s, i)) = ToSet(s) \ {s[i]}
  <1> DEFINE t == RemoveAt(s, i)
             n == Len(s)
             u == SubSeq(s, 1, i - 1)
             v == SubSeq(s, i + 1, n)
  <1>0. /\ n \in Nat /\ i \in 1 .. n
        /\ u \in Seq(S) /\ Len(u) = i - 1 /\ (\A j \in 1 .. i - 1 : u[j] = s[j])
        /\ v \in Seq(S) /\ Len(v) = n - i /\ (\A j \in 1 .. n - i : v[j] = s[i + j])
    <2>1. n \in Nat /\ i \in 1 .. n
      OBVIOUS
    <2>2. u \in Seq(S) /\ Len(u) = i - 1 /\ (\A j \in 1 .. i - 1 : u[j] = s[j])
      BY <2>1
    <2>3. v \in Seq(S) /\ Len(v) = n - i /\ (\A j \in 1 .. n - i : v[j] = s[i + j])
      BY <2>1
    <2> QED
      BY <2>1, <2>2, <2>3
  <1> HIDE DEF u, v
  <1>1. t \in Seq(S) /\ Len(t) = n - 1
    <2>1. t = u \o v
      BY DEF RemoveAt, u, v
    <2>2. u \in Seq(S) /\ v \in Seq(S) /\ Len(u) = i - 1 /\ Len(v) = n - i
      BY <1>0
    <2>3. u \o v \in Seq(S) /\ Len(u \o v) = Len(u) + Len(v)
      BY <2>2, ConcatProperties
    <2> QED
      BY <1>0, <2>1, <2>2, <2>3
  <1>2. \A j \in 1 .. n - 1 : t[j] = IF j < i THEN s[j] ELSE s[j + 1]
    <2>1. t = u \o v
      BY DEF RemoveAt, u, v
    <2>2. ASSUME NEW j \in 1 .. n - 1
          PROVE  t[j] = IF j < i THEN s[j] ELSE s[j + 1]
      <3>1. t[j] = IF j <= i - 1 THEN u[j] ELSE v[j - (i - 1)]
        BY <1>0, <2>1, ConcatProperties
      <3>2. CASE j < i
        BY <1>0, <3>1, <3>2
      <3>3. CASE ~(j < i)
        <4>1. j - (i - 1) \in 1 .. n - i /\ i + (j - (i - 1)) = j + 1
          BY <1>0, <3>3
        <4> QED
          BY <1>0, <3>1, <3>3, <4>1
      <3> QED
        BY <3>2, <3>3
    <2> QED
      BY <2>2
  <1>3. DOMAIN s = 1 .. n /\ DOMAIN t = 1 .. n - 1
    BY <1>0, <1>1
  <1> HIDE DEF t
  <1> DEFINE at(j) == IF j < i THEN j ELSE j + 1
  <1>a. ASSUME NEW j \in 1 .. n - 1
        PROVE  at(j) \in 1 .. n /\ at(j) # i /\ t[j] = s[at(j)]
    <2>0. n \in Nat /\ i \in 1 .. n
      BY <1>0
    <2>1. at(j) \in 1 .. n /\ at(j) # i
      BY <2>0
    <2>2. t[j] = s[at(j)]
      BY <1>2
    <2> QED
      BY <2>1, <2>2
  <1>b. \A j, k \in 1 .. n - 1 : at(j) = at(k) => j = k
    BY <1>0
  <1>c. \A j, k \in 1 .. n : s[j] = s[k] => j = k
    BY <1>3 DEF IsInjective
  <1> HIDE DEF at
  <1>4. IsInjective(t)
    BY <1>3, <1>a, <1>b, <1>c DEF IsInjective
  <1>5. ToSet(t) \subseteq ToSet(s) \ {s[i]}
    <2> SUFFICES ASSUME NEW x \in ToSet(t)
                 PROVE  x \in ToSet(s) /\ x # s[i]
      OBVIOUS
    <2>1. PICK j \in 1 .. n - 1 : t[j] = x
      BY <1>3 DEF ToSet
    <2>2. at(j) \in 1 .. n /\ at(j) # i /\ x = s[at(j)]
      BY <1>a, <2>1
    <2>3. x # s[i]
      BY <1>c, <2>2
    <2> QED
      BY <1>3, <2>2, <2>3 DEF ToSet
  <1>6. ASSUME NEW x \in ToSet(s) \ {s[i]}
        PROVE  x \in ToSet(t)
    <2>1. PICK j \in 1 .. n : s[j] = x /\ j # i
      BY <1>3 DEF ToSet
    <2>2. CASE j < i
      <3>1. j \in 1 .. n - 1 /\ t[j] = x
        BY <1>0, <1>2, <2>1, <2>2
      <3> QED
        BY <1>3, <3>1 DEF ToSet
    <2>3. CASE j > i
      <3>1. j - 1 \in 1 .. n - 1 /\ t[j - 1] = x
        BY <1>0, <1>2, <2>1, <2>3
      <3> QED
        BY <1>3, <3>1 DEF ToSet
    <2> QED
      BY <1>0, <2>1, <2>2, <2>3
  <1> QED
    BY <1>1, <1>4, <1>5, <1>6 DEF t

\* Reversing a list keeps its members.
LEMMA ReverseLists ==
    ASSUME NEW S, NEW s \in Seq(S), IsInjective(s)
    PROVE  /\ Reverse(s) \in Seq(S)
           /\ IsInjective(Reverse(s))
           /\ ToSet(Reverse(s)) = ToSet(s)
  <1> DEFINE t == Reverse(s)
             n == Len(s)
  <1>1. n \in Nat /\ DOMAIN s = 1 .. n
    OBVIOUS
  <1>2. t \in Seq(S) /\ Len(t) = n /\ DOMAIN t = 1 .. n
    BY <1>1 DEF Reverse
  <1>3. \A j \in 1 .. n : t[j] = s[(n - j) + 1]
    BY DEF Reverse
  <1> HIDE DEF t
  <1>4. IsInjective(t)
    BY <1>1, <1>2, <1>3 DEF IsInjective
  <1>5. \A j \in 1 .. n : (n - j) + 1 \in 1 .. n /\ (n - ((n - j) + 1)) + 1 = j
    BY <1>1
  <1>6. ToSet(t) \subseteq ToSet(s)
    BY <1>1, <1>2, <1>3, <1>5 DEF ToSet
  <1>7. ToSet(s) \subseteq ToSet(t)
    <2>1. \A j \in 1 .. n : t[(n - j) + 1] = s[j]
      BY <1>1, <1>3, <1>5
    <2> QED
      BY <1>1, <1>2, <1>5, <2>1 DEF ToSet
  <1> QED
    BY <1>2, <1>4, <1>6, <1>7 DEF t

\* Two lists without a common member, one after the other.
LEMMA ConcatLists ==
    ASSUME NEW S, NEW a \in Seq(S), NEW p \in Seq(S),
           IsInjective(a), IsInjective(p), ToSet(a) \cap ToSet(p) = {}
    PROVE  /\ a \o p \in Seq(S)
           /\ IsInjective(a \o p)
           /\ ToSet(a \o p) = ToSet(a) \cup ToSet(p)
  <1> DEFINE t == a \o p
             m == Len(a)
             n == Len(p)
  <1>1. m \in Nat /\ n \in Nat /\ DOMAIN a = 1 .. m /\ DOMAIN p = 1 .. n
    OBVIOUS
  <1>2. t \in Seq(S) /\ DOMAIN t = 1 .. m + n
    OBVIOUS
  <1>3. \A j \in 1 .. m + n : t[j] = IF j <= m THEN a[j] ELSE p[j - m]
    OBVIOUS
  <1> HIDE DEF t
  <1>4. \A j \in 1 .. m : a[j] \in ToSet(a)
    BY <1>1 DEF ToSet
  <1>5. \A j \in 1 .. n : p[j] \in ToSet(p)
    BY <1>1 DEF ToSet
  <1>6. ASSUME NEW j \in 1 .. m + n, NEW k \in 1 .. m + n, t[j] = t[k]
        PROVE  j = k
    <2>1. CASE j <= m /\ k <= m
      BY <1>1, <1>3, <1>6, <2>1 DEF IsInjective
    <2>2. CASE j > m /\ k > m
      <3>1. j - m \in 1 .. n /\ k - m \in 1 .. n /\ p[j - m] = p[k - m]
        BY <1>1, <1>3, <1>6, <2>2
      <3> QED
        BY <1>1, <3>1 DEF IsInjective
    <2>3. CASE j <= m /\ k > m
      <3>1. j \in 1 .. m /\ k - m \in 1 .. n /\ a[j] = p[k - m]
        BY <1>1, <1>3, <1>6, <2>3
      <3> QED
        BY <1>4, <1>5, <3>1
    <2>4. CASE j > m /\ k <= m
      <3>1. k \in 1 .. m /\ j - m \in 1 .. n /\ a[k] = p[j - m]
        BY <1>1, <1>3, <1>6, <2>4
      <3> QED
        BY <1>4, <1>5, <3>1
    <2> QED
      BY <1>1, <2>1, <2>2, <2>3, <2>4
  <1>7. IsInjective(t)
    BY <1>2, <1>6 DEF IsInjective
  <1>8. ToSet(t) \subseteq ToSet(a) \cup ToSet(p)
    <2>1. \A j \in 1 .. m + n : t[j] \in ToSet(a) \cup ToSet(p)
      BY <1>1, <1>3, <1>4, <1>5
    <2> QED
      BY <1>2, <2>1 DEF ToSet
  <1>9. ToSet(a) \subseteq ToSet(t)
    <2>1. \A j \in 1 .. m : j \in 1 .. m + n /\ t[j] = a[j]
      BY <1>1, <1>3
    <2> QED
      BY <1>1, <1>2, <2>1 DEF ToSet
  <1>10. ToSet(p) \subseteq ToSet(t)
    <2>1. \A j \in 1 .. n : j + m \in 1 .. m + n /\ t[j + m] = p[j]
      BY <1>1, <1>3
    <2> QED
      BY <1>1, <1>2, <2>1 DEF ToSet
  <1> QED
    BY <1>2, <1>7, <1>8, <1>9, <1>10 DEF t

\* The empty list and the list of one handle.
LEMMA SmallLists ==
    /\ IsInjective(<< >>) /\ ToSet(<< >>) = {}
    /\ \A x : IsInjective(<<x>>) /\ ToSet(<<x>>) = {x}
  BY DEF IsInjective, ToSet

-----------------------------------------------------------------------------
(* Tables of handles.                                                       *)

\* The phases in their order.
LEMMA RankValues ==
    /\ Rank("created") = 1 /\ Rank("listening") = 2 /\ Rank("closing") = 3
    /\ Rank("closed") = 4 /\ Rank("destroyed") = 5
  <1>1. DOMAIN Phases = 1 .. 5
    BY DEF Phases
  <1>2. /\ Phases[1] = "created" /\ Phases[2] = "listening" /\ Phases[3] = "closing"
        /\ Phases[4] = "closed" /\ Phases[5] = "destroyed"
    BY DEF Phases
  <1>3. ASSUME NEW x, \E i \in DOMAIN Phases : Phases[i] = x
        PROVE  Rank(x) \in DOMAIN Phases /\ Phases[Rank(x)] = x
    BY <1>3 DEF Rank
  <1> QED
    BY <1>1, <1>2, <1>3

\* No phase goes back from T to U.
Later(T, U) == \A h \in Handles : Rank(U[h].phase) >= Rank(T[h].phase)

\* U comes from T by requests, which release nothing.
Requested(T, U) ==
    /\ U \in Tables
    /\ Later(T, U)
    /\ \A h \in Handles : U[h].server = T[h].server

\* Later is a preorder.
LEMMA LaterOrder ==
    ASSUME NEW T \in Tables, NEW U \in Tables, NEW V \in Tables
    PROVE  Later(T, T) /\ (Later(T, U) /\ Later(U, V) => Later(T, V))
  <1>1. \A W \in Tables : \A h \in Handles : Rank(W[h].phase) \in 1 .. 5
    BY RankValues DEF Tables, Good, Records
  <1>2. Later(T, T)
    BY <1>1 DEF Later
  <1>3. ASSUME Later(T, U), Later(U, V), NEW h \in Handles
        PROVE  Rank(V[h].phase) >= Rank(T[h].phase)
    <2>1. Rank(U[h].phase) >= Rank(T[h].phase) /\ Rank(V[h].phase) >= Rank(U[h].phase)
      BY <1>3 DEF Later
    <2> QED
      BY <1>1, <2>1
  <1> QED
    BY <1>2, <1>3 DEF Later

\* What a request, a stop and a release make of the record of one handle.
CloseOf(r, e) == [r EXCEPT !.close = TRUE, !.destroy = e, !.phase = IF e THEN "destroyed" ELSE "closing"]
StopOf(r) == [r EXCEPT !.close = TRUE, !.phase = IF @ = "destroyed" THEN @ ELSE "closing"]
ReleaseOf(r) == [r EXCEPT !.server = "gone", !.phase = IF @ = "destroyed" THEN @ ELSE "closed"]
IdleOf(r, e) ==
    [r EXCEPT !.phase = IF e THEN "destroyed" ELSE IF @ = "created" THEN "closed" ELSE @]

\* http_runtime_request_close, for a handle that has a resource.
LEMMA CloseRecord ==
    ASSUME NEW r, Good(r), r.server \in {"listening", "draining"},
           NEW e \in BOOLEAN, r.destroy => e
    PROVE  /\ Good(CloseOf(r, e)) /\ CloseOf(r, e).server = r.server
           /\ Rank(CloseOf(r, e).phase) >= Rank(r.phase)
  <1> DEFINE q == CloseOf(r, e)
  <1>1. r \in Records
    BY DEF Good
  <1>2. q.server = r.server /\ q.destroy = e /\ q.phase = IF e THEN "destroyed" ELSE "closing"
    BY <1>1 DEF Records, CloseOf
  <1>3. q \in Records
    BY <1>1 DEF Records, CloseOf
  <1> HIDE DEF q
  <1>4. Good(q) /\ q.server = r.server /\ Rank(q.phase) >= Rank(r.phase)
    <2>1. CASE e
      BY <1>1, <1>2, <1>3, <2>1, RankValues DEF Good, Records
    <2>2. CASE ~e
      BY <1>1, <1>2, <1>3, <2>2, RankValues DEF Good, Records
    <2> QED
      BY <2>1, <2>2
  <1> QED
    BY <1>4 DEF q

\* http_runtime_stop, for a handle that has a resource.
LEMMA StopRecord ==
    ASSUME NEW r, Good(r), r.server \in {"listening", "draining"}
    PROVE  /\ Good(StopOf(r)) /\ StopOf(r).server = r.server
           /\ Rank(StopOf(r).phase) >= Rank(r.phase)
  <1> DEFINE q == StopOf(r)
  <1>1. r \in Records
    BY DEF Good
  <1>2. /\ q.server = r.server /\ q.destroy = r.destroy
        /\ q.phase = IF r.phase = "destroyed" THEN r.phase ELSE "closing"
    BY <1>1 DEF Records, StopOf
  <1>3. q \in Records
    BY <1>1 DEF Records, StopOf
  <1> HIDE DEF q
  <1>4. Good(q) /\ q.server = r.server /\ Rank(q.phase) >= Rank(r.phase)
    BY <1>1, <1>2, <1>3, RankValues DEF Good, Records
  <1> QED
    BY <1>4 DEF q

\* The release of a resource.
LEMMA ReleaseRecord ==
    ASSUME NEW r, Good(r), r.server \in {"listening", "draining"}
    PROVE  /\ Good(ReleaseOf(r)) /\ ReleaseOf(r).server = "gone"
           /\ Rank(ReleaseOf(r).phase) >= Rank(r.phase)
  <1> DEFINE q == ReleaseOf(r)
  <1>1. r \in Records
    BY DEF Good
  <1>2. q.server = "gone" /\ q.phase = IF r.phase = "destroyed" THEN r.phase ELSE "closed"
    BY <1>1 DEF Records, ReleaseOf
  <1>3. q \in Records
    BY <1>1 DEF Records, ReleaseOf
  <1> HIDE DEF q
  <1>4. Good(q) /\ q.server = "gone" /\ Rank(q.phase) >= Rank(r.phase)
    BY <1>1, <1>2, <1>3, RankValues DEF Good, Records
  <1> QED
    BY <1>4 DEF q

\* http_runtime_request_close, for a handle that has none.
LEMMA IdleRecord ==
    ASSUME NEW r, Good(r), r.server \notin {"listening", "draining"}, NEW e \in BOOLEAN
    PROVE  /\ Good(IdleOf(r, e)) /\ IdleOf(r, e).server = r.server
           /\ Rank(IdleOf(r, e).phase) >= Rank(r.phase)
  BY RankValues DEF IdleOf, Good, Records

\* A table in which one handle has moved on.
LEMMA TableStep ==
    ASSUME NEW T \in Tables, NEW h \in Handles, NEW q, Good(q), Rank(q.phase) >= Rank(T[h].phase)
    PROVE  /\ [T EXCEPT ![h] = q] \in Tables
           /\ Later(T, [T EXCEPT ![h] = q])
           /\ [T EXCEPT ![h] = q][h] = q
           /\ \A k \in Handles \ {h} : [T EXCEPT ![h] = q][k] = T[k]
  <1> DEFINE U == [T EXCEPT ![h] = q]
  <1>1. T \in [Handles -> Records] /\ q \in Records
    BY DEF Tables, Good
  <1>2. U \in [Handles -> Records] /\ U[h] = q /\ \A k \in Handles \ {h} : U[k] = T[k]
    BY <1>1
  <1> HIDE DEF U
  <1>3. \A k \in Handles : Good(U[k])
    BY <1>2 DEF Tables
  <1>4. Later(T, T)
    BY LaterOrder
  <1>5. Later(T, U)
    BY <1>2, <1>4 DEF Later
  <1>6. U \in Tables
    BY <1>2, <1>3 DEF Tables
  <1> QED
    BY <1>2, <1>5, <1>6 DEF U

\* http_runtime_request_close is a request.
LEMMA CloseRequests ==
    ASSUME NEW T \in Tables, NEW h \in Handles, NEW d \in BOOLEAN
    PROVE  Requested(T, http_runtime_request_close(T, h, d))
  <1>1. Good(T[h])
    BY DEF Tables
  <1>2. ASSUME NEW q, Good(q), Rank(q.phase) >= Rank(T[h].phase), q.server = T[h].server
        PROVE  Requested(T, [T EXCEPT ![h] = q])
    BY <1>2, TableStep DEF Requested
  <1>a. http_runtime_request_close(T, h, d) =
            [T EXCEPT ![h] = IF Resource(T, h) THEN CloseOf(T[h], T[h].destroy \/ d) ELSE IdleOf(T[h], d)]
    BY DEF http_runtime_request_close, CloseOf, IdleOf
  <1>3. CASE Resource(T, h)
    <2>1. http_runtime_request_close(T, h, d) = [T EXCEPT ![h] = CloseOf(T[h], T[h].destroy \/ d)]
      BY <1>a, <1>3
    <2>2. PICK e \in BOOLEAN : e = (T[h].destroy \/ d)
      OBVIOUS
    <2>3. /\ Good(CloseOf(T[h], e)) /\ CloseOf(T[h], e).server = T[h].server
          /\ Rank(CloseOf(T[h], e).phase) >= Rank(T[h].phase)
      BY <1>1, <1>3, <2>2, CloseRecord DEF Resource
    <2> QED
      BY <1>2, <2>1, <2>2, <2>3
  <1>4. CASE ~Resource(T, h)
    <2>1. http_runtime_request_close(T, h, d) = [T EXCEPT ![h] = IdleOf(T[h], d)]
      BY <1>a, <1>4
    <2>2. /\ Good(IdleOf(T[h], d)) /\ IdleOf(T[h], d).server = T[h].server
          /\ Rank(IdleOf(T[h], d).phase) >= Rank(T[h].phase)
      BY <1>1, <1>4, IdleRecord DEF Resource
    <2> QED
      BY <1>2, <2>1, <2>2
  <1> QED
    BY <1>3, <1>4

\* So is http_runtime_stop.
LEMMA StopRequests ==
    ASSUME NEW T \in Tables
    PROVE  Requested(T, http_runtime_stop(T))
  <1> DEFINE U == http_runtime_stop(T)
  <1>0. Later(T, T)
    BY LaterOrder
  <1>1. U = [h \in Handles |-> IF Resource(T, h) THEN StopOf(T[h]) ELSE T[h]]
    BY DEF http_runtime_stop, StopOf
  <1> HIDE DEF U
  <1>2. ASSUME NEW h \in Handles
        PROVE  /\ Good(U[h]) /\ U[h].server = T[h].server
               /\ Rank(U[h].phase) >= Rank(T[h].phase)
    <2>1. Good(T[h])
      BY DEF Tables
    <2>2. CASE Resource(T, h)
      <3>1. U[h] = StopOf(T[h])
        BY <1>1, <2>2
      <3> QED
        BY <2>1, <2>2, <3>1, StopRecord DEF Resource
    <2>3. CASE ~Resource(T, h)
      <3>1. U[h] = T[h]
        BY <1>1, <2>3
      <3> QED
        BY <1>0, <2>1, <3>1 DEF Later
    <2> QED
      BY <2>2, <2>3
  <1>3. U \in [Handles -> Records]
    <2>1. U = [h \in Handles |-> U[h]]
      BY <1>1
    <2> QED
      BY <1>2, <2>1 DEF Good
  <1>4. Requested(T, U)
    BY <1>2, <1>3 DEF Requested, Later, Tables
  <1> QED
    BY <1>4 DEF U

\* The release of a listener ends the life of its server and of no other.
LEMMA ReleaseEnds ==
    ASSUME NEW T \in Tables, NEW h \in Handles, Resource(T, h)
    PROVE  /\ Released(T, h) \in Tables
           /\ Later(T, Released(T, h))
           /\ Resources(Released(T, h)) = Resources(T) \ {h}
           /\ Released(T, h)[h] = ReleaseOf(T[h])
  <1> DEFINE U == Released(T, h)
  <1>1. T \in [Handles -> Records] /\ Good(T[h])
    BY DEF Tables
  <1>2. U = [T EXCEPT ![h] = ReleaseOf(T[h])]
    BY <1>1 DEF Released, ReleaseOf, Records
  <1>3. /\ Good(ReleaseOf(T[h])) /\ ReleaseOf(T[h]).server = "gone"
        /\ Rank(ReleaseOf(T[h]).phase) >= Rank(T[h].phase)
    BY <1>1, ReleaseRecord DEF Resource
  <1> HIDE DEF U
  <1>4. /\ U \in Tables /\ Later(T, U)
        /\ U[h] = ReleaseOf(T[h]) /\ \A k \in Handles \ {h} : U[k] = T[k]
    <2> DEFINE W == [T EXCEPT ![h] = ReleaseOf(T[h])]
    <2>1. /\ W \in Tables /\ Later(T, W)
          /\ W[h] = ReleaseOf(T[h]) /\ \A k \in Handles \ {h} : W[k] = T[k]
      BY <1>3, TableStep
    <2> QED
      BY <1>2, <2>1
  <1>5. Resources(U) = Resources(T) \ {h}
    BY <1>3, <1>4 DEF Resources, Resource
  <1> QED
    BY <1>4, <1>5 DEF U

\* Requests leave every resource where it is.
LEMMA RequestsKeepResources ==
    ASSUME NEW T, NEW U, Requested(T, U)
    PROVE  Resources(U) = Resources(T)
  BY DEF Requested, Resources, Resource

\* What the handlers of a server do are requests.
LEMMA HandlersRequest ==
    ASSUME http \in Tables, NEW T \in HandlerRequests
    PROVE  Requested(http, T)
  <1>1. CASE T = http
    BY <1>1, LaterOrder DEF Requested
  <1>2. CASE T # http
    BY <1>2, CloseRequests DEF HandlerRequests
  <1> QED
    BY <1>1, <1>2
-----------------------------------------------------------------------------
(* The steps of the loop.                                                   *)

\* Requests after requests are requests.
LEMMA RequestsCompose ==
    ASSUME NEW T \in Tables, NEW U, NEW V, Requested(T, U), Requested(U, V)
    PROVE  Requested(T, V)
  BY LaterOrder DEF Requested

\* A step that makes requests and leaves the lists alone.
LEMMA CoreByRequests ==
    ASSUME Core, Requested(http, http'), active' = active, pending' = pending
    PROVE  Core' /\ Later(http, http')
  <1>1. Resources(http') = Resources(http)
    BY RequestsKeepResources
  <1> QED
    BY <1>1 DEF Core, Requested, Lists

\* A step that leaves the listeners alone.
LEMMA CoreKept ==
    ASSUME Core, http' = http, active' = active, pending' = pending
    PROVE  Core' /\ Later(http, http')
  <1>1. Requested(http, http)
    BY LaterOrder DEF Core, Requested
  <1> QED
    BY <1>1, CoreByRequests

\* New listeners join the pumped ones, first to last.
LEMMA PumpBeginsCore ==
    ASSUME Core, PumpBegins
    PROVE  Core' /\ Later(http, http')
  <1>1. CASE ~http_runtime_active
    BY <1>1, CoreKept DEF PumpBegins, lists
  <1>2. CASE http_runtime_active
    <2>1. Requested(http, http')
      <3>1. http' = http_runtime_stop(http) \/ http' = http
        BY <1>2 DEF PumpBegins
      <3> QED
        BY <3>1, StopRequests, LaterOrder DEF Core, Requested
    <2>2. Resources(http') = Resources(http)
      BY <2>1, RequestsKeepResources
    <2>3. active' = Reverse(pending) \o active /\ pending' = << >>
      BY <1>2 DEF PumpBegins
    <2>4. /\ Reverse(pending) \in Seq(Handles) /\ IsInjective(Reverse(pending))
          /\ ToSet(Reverse(pending)) = ToSet(pending)
      BY ReverseLists DEF Core, Lists
    <2>5. /\ active' \in Seq(Handles) /\ IsInjective(active')
          /\ ToSet(active') = ToSet(pending) \cup ToSet(active)
      BY <2>3, <2>4, ConcatLists DEF Core, Lists
    <2>6. Lists(active', pending', Resources(http'))
      BY <2>2, <2>3, <2>5, SmallLists DEF Core, Lists
    <2> QED
      BY <2>1, <2>3, <2>5, <2>6 DEF Core, Requested
  <1> QED
    BY <1>1, <1>2

\* A listener that goes leaves its list and its handle at once; one that stays goes
\* on listening or draining.
LEMMA PumpResourceCore ==
    ASSUME Core, CursorOK, PumpResource
    PROVE  Core' /\ Later(http, http')
  <1> DEFINE h == active[cursor]
  <1>1. cursor \in 1 .. Len(active) /\ h \in Handles
    BY DEF Core, CursorOK, PumpResource
  <1>2. h \in ToSet(active) /\ Resource(http, h)
    <2>1. h \in ToSet(active)
      BY <1>1 DEF Core, ToSet
    <2> QED
      BY <2>1 DEF Core, Lists, Resources
  <1>3. PICK idle \in BOOLEAN, outcome \in Outcomes(h), T \in HandlerRequests, exits \in BOOLEAN :
          LET U == IF exits THEN http_runtime_stop(T) ELSE T
              polled == IF idle THEN "destroyed" ELSE outcome
              gone == U[h].destroy \/ polled \in {"drained", "failed", "trapped"}
          IN  /\ idle = http[h].destroy
              /\ idle => U = http
              /\ http' = IF gone THEN Released(U, h) ELSE [U EXCEPT ![h].server = outcome]
              /\ active' = IF gone THEN Unlinked(cursor) ELSE active
    BY SMTT(40) DEF PumpResource
  <1> HIDE DEF h
  <1>4. pending' = pending
    BY DEF PumpResource
  <1>5. PICK U : U = IF exits THEN http_runtime_stop(T) ELSE T
    OBVIOUS
  <1>6. Requested(http, U)
    <2>1. Requested(http, T)
      BY HandlersRequest DEF Core
    <2>2. Requested(T, http_runtime_stop(T))
      BY <2>1, StopRequests DEF Requested
    <2> QED
      BY <1>5, <2>1, <2>2, RequestsCompose DEF Core
  <1>7. U \in Tables /\ Resource(U, h) /\ Resources(U) = Resources(http) /\ Later(http, U)
    BY <1>1, <1>2, <1>6, RequestsKeepResources DEF Requested, Resource
  <1>8. CASE U[h].destroy \/ (IF idle THEN "destroyed" ELSE outcome) \in {"drained", "failed", "trapped"}
    <2>1. http' = Released(U, h) /\ active' = RemoveAt(active, cursor)
      BY <1>3, <1>5, <1>8 DEF Unlinked
    <2>2. /\ http' \in Tables /\ Later(U, http')
          /\ Resources(http') = Resources(http) \ {h}
      BY <1>1, <1>7, <2>1, ReleaseEnds
    <2>3. Later(http, http')
      BY <1>7, <2>2, LaterOrder DEF Core
    <2>4. /\ active' \in Seq(Handles) /\ IsInjective(active')
          /\ ToSet(active') = ToSet(active) \ {h}
      BY <1>1, <2>1, RemoveAtLists DEF Core, Lists, h
    <2>5. Lists(active', pending', Resources(http'))
      BY <1>2, <1>4, <2>2, <2>4 DEF Core, Lists
    <2> QED
      BY <1>4, <2>2, <2>3, <2>4, <2>5 DEF Core
  <1>9. CASE ~(U[h].destroy \/ (IF idle THEN "destroyed" ELSE outcome) \in {"drained", "failed", "trapped"})
    <2>1. http' = [U EXCEPT ![h].server = outcome] /\ active' = active
      BY <1>3, <1>5, <1>9
    <2>2. ~idle
      BY <1>3, <1>5, <1>9
    <2>3. outcome \in {"listening", "draining"}
      BY <1>2, <1>9, <2>2 DEF Outcomes, Resource
    <2>4. U \in [Handles -> Records] /\ Good(U[h])
      BY <1>1, <1>7 DEF Tables
    <2> DEFINE q == [U[h] EXCEPT !.server = outcome]
    <2>5. q \in Records /\ q.server = outcome /\ q.phase = U[h].phase /\ q.destroy = U[h].destroy
      BY <1>1, <2>3, <2>4 DEF Records
    <2>6. http' = [U EXCEPT ![h] = q]
      BY <2>1
    <2> HIDE DEF q
    <2>7. Good(q)
      BY <1>7, <2>3, <2>4, <2>5 DEF Good, Resource
    <2>8. Rank(q.phase) >= Rank(U[h].phase)
      <3>1. Later(U, U)
        BY <1>7, LaterOrder
      <3> QED
        BY <1>1, <2>5, <3>1 DEF Later
    <2>9. /\ [U EXCEPT ![h] = q] \in Tables /\ Later(U, [U EXCEPT ![h] = q])
          /\ [U EXCEPT ![h] = q][h] = q
          /\ \A k \in Handles \ {h} : [U EXCEPT ![h] = q][k] = U[k]
      BY <1>1, <1>7, <2>7, <2>8, TableStep
    <2>10. http' \in Tables /\ Later(http, http')
      BY <1>7, <2>6, <2>9, LaterOrder DEF Core
    <2>11. Resources(http') = Resources(U)
      BY <1>1, <1>7, <2>3, <2>5, <2>6, <2>9 DEF Resources, Resource
    <2> QED
      BY <1>4, <1>7, <2>1, <2>10, <2>11 DEF Core, Lists
  <1> QED
    BY <1>8, <1>9

\* A server that was created and is bound joins the list.
LEMMA ListenCore ==
    ASSUME Core, NEW h \in Handles, http_listen(h)
    PROVE  Core' /\ Later(http, http')
  <1>1. active' = active
    BY DEF http_listen
  <1>2. CASE http' = http /\ pending' = pending
    BY <1>1, <1>2, CoreKept
  <1>3. CASE /\ Bindable(h) /\ pending' = <<h>> \o pending
             /\ http' = [http EXCEPT ![h].phase = "listening", ![h].server = "listening"]
    <2>1. http \in [Handles -> Records] /\ Good(http[h]) /\ http[h].phase = "created"
      BY <1>3 DEF Core, Tables, Bindable
    <2>2. http[h].server = "new" /\ ~http[h].destroy
      BY <2>1 DEF Good, Records
    <2> DEFINE q == [http[h] EXCEPT !.phase = "listening", !.server = "listening"]
    <2>3. q \in Records /\ q.server = "listening" /\ q.phase = "listening" /\ q.destroy = http[h].destroy
      BY <2>1 DEF Records
    <2>4. http' = [http EXCEPT ![h] = q]
      BY <1>3, <2>1 DEF Records
    <2> HIDE DEF q
    <2>5. Good(q) /\ Rank(q.phase) >= Rank(http[h].phase)
      BY <2>1, <2>2, <2>3, RankValues DEF Good
    <2>6. /\ [http EXCEPT ![h] = q] \in Tables /\ Later(http, [http EXCEPT ![h] = q])
          /\ [http EXCEPT ![h] = q][h] = q
          /\ \A k \in Handles \ {h} : [http EXCEPT ![h] = q][k] = http[k]
      BY <2>5, TableStep DEF Core
    <2>7. Resources(http') = Resources(http) \cup {h} /\ h \notin Resources(http)
      BY <2>2, <2>3, <2>4, <2>6 DEF Resources, Resource
    <2>8. h \notin ToSet(active) /\ h \notin ToSet(pending)
      BY <2>7 DEF Core, Lists
    <2>9. <<h>> \in Seq(Handles) /\ IsInjective(<<h>>) /\ ToSet(<<h>>) = {h}
      BY SmallLists
    <2>10. /\ pending' \in Seq(Handles) /\ IsInjective(pending')
           /\ ToSet(pending') = {h} \cup ToSet(pending)
      <3> DEFINE first == <<h>>
      <3>1. /\ pending \in Seq(Handles) /\ IsInjective(pending)
            /\ first \in Seq(Handles) /\ IsInjective(first)
            /\ ToSet(first) = {h} /\ ToSet(first) \cap ToSet(pending) = {}
        BY <2>8, <2>9 DEF Core, Lists
      <3>2. pending' = first \o pending
        BY <1>3
      <3> HIDE DEF first
      <3>3. /\ first \o pending \in Seq(Handles) /\ IsInjective(first \o pending)
            /\ ToSet(first \o pending) = ToSet(first) \cup ToSet(pending)
        BY <3>1, ConcatLists
      <3> QED
        BY <3>1, <3>2, <3>3
    <2>11. Lists(active', pending', Resources(http'))
      BY <1>1, <2>7, <2>8, <2>10 DEF Core, Lists
    <2> QED
      BY <1>1, <2>4, <2>6, <2>10, <2>11 DEF Core
  <1>4. \/ http' = http /\ pending' = pending
        \/ /\ Bindable(h) /\ pending' = <<h>> \o pending
           /\ http' = [http EXCEPT ![h].phase = "listening", ![h].server = "listening"]
    BY DEF http_listen
  <1> QED
    BY <1>2, <1>3, <1>4

\* execute destroys what still listens when it leaves its loop.
LEMMA EndsCore ==
    ASSUME Core, Ends
    PROVE  Core' /\ Later(http, http') /\ Resources(http') = {}
  <1>1. http' = http_runtime_destroy(http) /\ active' = << >> /\ pending' = << >>
    BY DEF Ends
  <1>2. ASSUME NEW h \in Handles
        PROVE  Good(http'[h]) /\ ~Resource(http', h) /\ Rank(http'[h].phase) >= Rank(http[h].phase)
    <2>1. Good(http[h])
      BY DEF Core, Tables
    <2>2. CASE Resource(http, h)
      <3>1. http'[h] = ReleaseOf(http[h])
        BY <1>1, <2>2, ReleaseEnds DEF http_runtime_destroy, Core
      <3> QED
        BY <2>1, <2>2, <3>1, ReleaseRecord DEF Resource
    <2>3. CASE ~Resource(http, h)
      <3>1. http'[h] = http[h]
        BY <1>1, <2>3 DEF http_runtime_destroy
      <3>2. Later(http, http)
        BY LaterOrder DEF Core
      <3> QED
        BY <2>1, <2>3, <3>1, <3>2 DEF Later, Resource
    <2> QED
      BY <2>2, <2>3
  <1>3. http' \in [Handles -> Records]
    <2>1. http' = [h \in Handles |-> http'[h]]
      BY <1>1 DEF http_runtime_destroy
    <2> QED
      BY <1>2, <2>1 DEF Good
  <1>4. Resources(http') = {}
    BY <1>2 DEF Resources
  <1>5. Lists(active', pending', Resources(http'))
    BY <1>1, <1>4, SmallLists DEF Lists
  <1>6. http' \in Tables /\ Later(http, http')
    BY <1>2, <1>3 DEF Tables, Later
  <1> QED
    BY <1>1, <1>4, <1>5, <1>6 DEF Core
\* Every step of the loop keeps the lists and lets no phase go back.
LEMMA StepKeepsCore ==
    ASSUME Core, CursorOK, [Next]_vars
    PROVE  Core' /\ Later(http, http')
  <1>1. CASE PumpBegins
    BY <1>1, PumpBeginsCore
  <1>2. CASE PumpResource
    BY <1>2, PumpResourceCore
  <1>3. CASE PumpEnds
    BY <1>3, CoreKept DEF PumpEnds, lists
  <1>4. CASE Check
    BY <1>4, CoreKept DEF Check, lists
  <1>5. ASSUME NEW h \in Handles, http_listen(h)
        PROVE  Core' /\ Later(http, http')
    BY <1>5, ListenCore
  <1>6. ASSUME NEW h \in Handles, NEW d \in BOOLEAN, http_close(h, d)
        PROVE  Core' /\ Later(http, http')
    <2>1. Requested(http, http')
      BY <1>6, CloseRequests DEF Core, http_close
    <2> QED
      BY <1>6, <2>1, CoreByRequests DEF http_close, lists
  <1>7. ASSUME NEW kind \in Plain, serve(kind)
        PROVE  Core' /\ Later(http, http')
    BY <1>7, CoreKept DEF serve, lists
  <1>8. CASE Runs
    BY <1>8, CoreKept DEF Runs, lists
  <1>9. CASE AdvanceWaiting
    BY <1>9, CoreKept DEF AdvanceWaiting, lists
  <1>10. CASE pump_server
    <2>1. Requested(http, http')
      BY <1>10, HandlersRequest DEF Core, pump_server
    <2> QED
      BY <1>10, <2>1, CoreByRequests DEF pump_server, lists
  <1>11. CASE Ends
    BY <1>11, EndsCore
  <1>12. CASE request_service_stop
    BY <1>12, CoreKept DEF request_service_stop, lists
  <1>13. CASE UNCHANGED vars
    BY <1>13, CoreKept DEF vars
  <1> QED
    BY <1>1, <1>2, <1>3, <1>4, <1>5, <1>6, <1>7, <1>8, <1>9, <1>10, <1>11, <1>12, <1>13
       DEF Next, Loop, MainRuns

\* The pump's place in its list is counted from one.
LEMMA StepKeepsCursor ==
    ASSUME CursorOK, [Next]_vars
    PROVE  CursorOK'
  <1>1. CASE PumpBegins
    BY <1>1 DEF CursorOK, PumpBegins, lists, main
  <1>2. CASE PumpResource
    BY <1>2, SMTT(40) DEF CursorOK, PumpResource
  <1>3. CASE PumpEnds
    BY <1>3 DEF CursorOK, PumpEnds, lists, main
  <1>4. CASE Check
    BY <1>4 DEF CursorOK, Check, lists, main
  <1>5. ASSUME NEW h \in Handles, http_listen(h) PROVE CursorOK'
    BY <1>5 DEF CursorOK, http_listen, Executing, Traps, main
  <1>6. ASSUME NEW h \in Handles, NEW d \in BOOLEAN, http_close(h, d) PROVE CursorOK'
    BY <1>6 DEF CursorOK, http_close, Executing, lists
  <1>7. ASSUME NEW kind \in Plain, serve(kind) PROVE CursorOK'
    BY <1>7 DEF CursorOK, serve, Executing, Traps, lists
  <1>8. CASE Runs
    BY <1>8 DEF CursorOK, Runs, Executing, Traps, lists, main
  <1>9. CASE AdvanceWaiting
    BY <1>9 DEF CursorOK, AdvanceWaiting, lists
  <1>10. CASE pump_server
    BY <1>10 DEF CursorOK, pump_server, lists
  <1>11. CASE Ends
    BY <1>11 DEF CursorOK, Ends
  <1>12. CASE request_service_stop
    BY <1>12 DEF CursorOK, request_service_stop, lists, main
  <1>13. CASE UNCHANGED vars
    BY <1>13 DEF CursorOK, vars, lists, main
  <1> QED
    BY <1>1, <1>2, <1>3, <1>4, <1>5, <1>6, <1>7, <1>8, <1>9, <1>10, <1>11, <1>12, <1>13
       DEF Next, Loop, MainRuns

\* execute leaves its loop without an error only when both lists are empty.
LEMMA StepKeepsEnd ==
    ASSUME EndsEmpty, [Next]_vars
    PROVE  EndsEmpty'
  <1>1. CASE PumpBegins
    BY <1>1 DEF EndsEmpty, http_runtime_active, PumpBegins, lists, main
  <1>2. CASE PumpResource
    BY <1>2, SMTT(40) DEF EndsEmpty, PumpResource, main
  <1>3. CASE PumpEnds
    BY <1>3 DEF EndsEmpty, http_runtime_active, PumpEnds, lists, main
  <1>4. CASE Check
    BY <1>4 DEF EndsEmpty, http_runtime_active, Check, lists, main
  <1>5. ASSUME NEW h \in Handles, http_listen(h) PROVE EndsEmpty'
    BY <1>5 DEF EndsEmpty, http_runtime_active, http_listen, Executing, Traps, main
  <1>6. ASSUME NEW h \in Handles, NEW d \in BOOLEAN, http_close(h, d) PROVE EndsEmpty'
    BY <1>6 DEF EndsEmpty, http_runtime_active, http_close, Executing, lists
  <1>7. ASSUME NEW kind \in Plain, serve(kind) PROVE EndsEmpty'
    BY <1>7 DEF EndsEmpty, http_runtime_active, serve, Executing, Traps, lists
  <1>8. CASE Runs
    BY <1>8 DEF EndsEmpty, http_runtime_active, Runs, Executing, Traps, lists, main
  <1>9. CASE AdvanceWaiting
    BY <1>9 DEF EndsEmpty, http_runtime_active, AdvanceWaiting, lists
  <1>10. CASE pump_server
    BY <1>10 DEF EndsEmpty, http_runtime_active, pump_server, lists
  <1>11. CASE Ends
    BY <1>11 DEF EndsEmpty, http_runtime_active, Ends
  <1>12. CASE request_service_stop
    BY <1>12 DEF EndsEmpty, http_runtime_active, request_service_stop, lists, main
  <1>13. CASE UNCHANGED vars
    BY <1>13 DEF EndsEmpty, http_runtime_active, vars, lists, main
  <1> QED
    BY <1>1, <1>2, <1>3, <1>4, <1>5, <1>6, <1>7, <1>8, <1>9, <1>10, <1>11, <1>12, <1>13
       DEF Next, Loop, MainRuns

-----------------------------------------------------------------------------
(* The theorems.                                                            *)

\* At the start of execute nothing listens.
LEMMA InitEstablishes ==
    ASSUME Init
    PROVE  IInv
  <1>1. \A h \in Handles : Good(http[h]) /\ ~Resource(http, h)
    BY DEF Init, Good, Records, Resource
  <1>2. http \in Tables /\ Resources(http) = {}
    BY <1>1 DEF Init, Tables, Good, Resources
  <1>3. Lists(active, pending, Resources(http))
    BY <1>2, SmallLists DEF Init, Lists
  <1> QED
    BY <1>2, <1>3 DEF Init, IInv, Core, CursorOK, EndsEmpty

\* The invariant holds of every reachable state.
LEMMA AlwaysIInv == Spec => []IInv
  <1>1. ASSUME IInv, [Next]_vars PROVE IInv'
    BY <1>1, StepKeepsCore, StepKeepsCursor, StepKeepsEnd DEF IInv
  <1> QED
    BY <1>1, InitEstablishes, PTL DEF Spec

\* Whatever main, the handlers and the signals do, a handle has a server exactly when
\* its resource is once on one of the runtime's lists.
THEOREM ResourcesAlwaysListed == Spec => []ResourcesListed
  <1>1. ASSUME IInv PROVE ResourcesListed
    BY <1>1, ConcatLists DEF IInv, Core, Lists, ResourcesListed, Resources
  <1> QED
    BY <1>1, AlwaysIInv, PTL

\* No sequence of closes, destructions, stops and releases takes a server's phase back.
THEOREM PhasesAlwaysAdvance == Spec => PhasesAdvance
  <1>1. ASSUME IInv, [Next]_vars
        PROVE  [\A h \in Handles : Rank(http'[h].phase) >= Rank(http[h].phase)]_vars
    BY <1>1, StepKeepsCore DEF IInv, Later
  <1> QED
    BY <1>1, AlwaysIInv, PTL DEF Spec, PhasesAdvance

\* execute leaves its loop without an error only when every listener has been released,
\* and main goes on after http_close only when the one it closed has been.
THEOREM ListenersReleasedFirst == Spec => ReleasedFirst
  <1>1. ASSUME IInv
        PROVE  (pc = "end" /\ ~error /\ status # "trapped") => \A h \in Handles : ~Resource(http, h)
    BY <1>1, SmallLists DEF IInv, Core, Lists, EndsEmpty, Resources
  <1>2. ASSUME IInv, [Next]_vars
        PROVE  [\A h \in Handles : (http_waiting = h /\ http_waiting' = None) => ~Resource(http', h)]_vars
    <2>1. SUFFICES ASSUME NEW h \in Handles, http_waiting = h, http_waiting' = None
                   PROVE  ~Resource(http', h)
      OBVIOUS
    <2>2. h # None
      BY RuntimeAssumption
    <2>3. AdvanceWaiting \/ Ends
      <3>1. http_waiting' # http_waiting
        BY <2>1, <2>2
      <3>2. ~(PumpBegins \/ PumpResource \/ PumpEnds \/ Check)
        BY <3>1 DEF PumpBegins, PumpResource, PumpEnds, Check, main
      <3>3. ASSUME NEW k \in Handles PROVE ~http_listen(k)
        BY <3>1 DEF http_listen, Traps, main
      <3>4. ASSUME NEW k \in Handles, NEW d \in BOOLEAN PROVE ~http_close(k, d)
        BY <2>1, <3>1, RuntimeAssumption DEF http_close
      <3>5. ASSUME NEW kind \in Plain PROVE ~serve(kind)
        BY <3>1 DEF serve, Traps
      <3>6. ~(Runs \/ pump_server \/ request_service_stop \/ UNCHANGED vars)
        BY <3>1 DEF Runs, Traps, pump_server, request_service_stop, vars, main
      <3> QED
        BY <1>2, <3>2, <3>3, <3>4, <3>5, <3>6 DEF Next, Loop, MainRuns
    <2>4. CASE AdvanceWaiting
      BY <2>1, <2>2, <2>4 DEF AdvanceWaiting, Resumes, Resource
    <2>5. CASE Ends
      BY <1>2, <2>1, <2>5, EndsCore DEF IInv, Resources
    <2> QED
      BY <2>3, <2>4, <2>5
  <1> QED
    BY <1>1, <1>2, AlwaysIInv, PTL DEF Spec, ReleasedFirst
===============================================================================
