------------------------------ MODULE MCVMTasks ------------------------------
(* Model-checking instance of task sessions.                                 *)
EXTENDS VMTasks
===============================================================================
