-------------------------- MODULE MCCoverageSession --------------------------
(* Model-checking instance of coverage sessions.                             *)
EXTENDS CoverageSession

\* A handler's program is larger, so that two of them exceed the bytes.
ProgramSizes == [kind \in Kinds \cup {"root"} |-> IF kind = "server" THEN 2 ELSE 1]
=============================================================================
