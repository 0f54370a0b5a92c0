------------------------- MODULE MCFilesystemStage -------------------------
(* Model-checking instance of staged directories.                            *)
EXTENDS FilesystemStage

\* What an unused inode once contained is never looked at.
Visible == <<dir, [i \in Inodes \ Free |-> <<node[i], issued[i]>>], moved, inv, op, told, trouble, foreign>>

Symmetry == Permutations(Pids) \cup Permutations(Inodes)
=============================================================================
