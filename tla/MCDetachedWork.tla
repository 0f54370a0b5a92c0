---------------------------- MODULE MCDetachedWork ----------------------------
(* Model-checking instance of detached console writes and file reads: two     *)
(* operations, each of either kind.                                           *)
EXTENDS DetachedWork
===============================================================================
