---------------------------- MODULE MCArrayStorage ----------------------------
(* Model-checking instance of shared append storage.                         *)
EXTENDS ArrayStorage
===============================================================================
