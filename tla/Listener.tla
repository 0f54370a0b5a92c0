------------------------------- MODULE Listener -------------------------------
(***************************************************************************)
(* What a server owner promises its user: it listens, drains once it is    *)
(* told to stop, ends by itself after that, and may fail or trap at any    *)
(* time before its end; destroying it is always possible and final.        *)
(***************************************************************************)
VARIABLE phase

Phases == {"new", "listening", "draining", "drained", "failed", "trapped", "gone"}

Init == phase = "new"

\* The outcome of a start: the socket is bound, or never will be.
Listen == phase = "new" /\ phase' \in {"listening", "failed", "trapped"}

\* With nobody to wait for, a stopped server has drained at once.
Stop == phase = "listening" /\ phase' \in {"draining", "drained"}

Drains == phase = "draining" /\ phase' = "drained"

Breaks == phase \in {"listening", "draining"} /\ phase' \in {"failed", "trapped"}

Destroy == phase # "new" /\ phase' = "gone"

Next == Listen \/ Stop \/ Drains \/ Breaks \/ Destroy

Spec == Init /\ [][Next]_phase
===============================================================================
