--------------------------- MODULE MCHttpRuntime ---------------------------
(* Model-checking instance of the root invocation with a few listeners.      *)
EXTENDS HttpRuntime
=============================================================================
