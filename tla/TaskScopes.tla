------------------------------ MODULE TaskScopes ------------------------------
(***************************************************************************)
(* What a task session promises: structured concurrency.  Scopes open      *)
(* inside live scopes and close for good, children no later than their     *)
(* parent, and a scope is "done" only if everything opened in it is done.  *)
(***************************************************************************)
EXTENDS Naturals

CONSTANT Scopes     \* the scopes a session may open, a set of positive numbers

VARIABLES
    owner,          \* scope -> enclosing scope, 0 for none
    state           \* scope -> "absent", "live", "done" or "failed"

scopeVars == <<owner, state>>

Within(s) == {c \in Scopes : owner[c] = s /\ state[c] # "absent"}

Init ==
    /\ owner = [s \in Scopes |-> 0]
    /\ state = [s \in Scopes |-> "absent"]

Open(s, p) ==
    /\ state[s] = "absent"
    /\ p # 0 => state[p] = "live"
    /\ owner' = [owner EXCEPT ![s] = p]
    /\ state' = [state EXCEPT ![s] = "live"]

\* The scopes of D are done and those of F fail, all in one step.
Close(D, F) ==
    /\ D \cap F = {}
    /\ \A s \in D \cup F : state[s] = "live"
    /\ state' = [s \in Scopes |-> IF s \in D THEN "done"
                                  ELSE IF s \in F THEN "failed" ELSE state[s]]
    /\ \A s \in D : \A c \in Within(s) : state'[c] = "done"
    /\ \A s \in F : \A c \in Within(s) : state'[c] \in {"done", "failed"}
    /\ UNCHANGED owner

Next ==
    \/ \E s \in Scopes, p \in {0} \cup Scopes : Open(s, p)
    \/ \E D, F \in SUBSET Scopes : Close(D, F)

Spec == Init /\ [][Next]_scopeVars
===============================================================================
