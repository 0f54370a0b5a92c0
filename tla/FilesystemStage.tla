--------------------------- MODULE FilesystemStage ---------------------------
(***************************************************************************)
(* Staged directories and atomic writes (src/vm/filesystem_stage.c).  VM   *)
(* invocations stage directories privately beside a target, publish them   *)
(* by one rename or exchange, and replace files through a temporary file.  *)
(* Every system call that changes or examines the shared directory is a    *)
(* step; other invocations take theirs in between, any call may fail, and  *)
(* an invocation may be killed at any time and be followed by one with the *)
(* same process id.                                                        *)
(*                                                                         *)
(* There is one parent directory and one target in it.  A staged directory *)
(* contains at most one entry: a file of some bytes, or a directory or     *)
(* link.  An inode is used again once nothing refers to it.  Somebody else *)
(* may replace the target at any time, and a private stage or the parent's *)
(* path while the stage's owner is between two calls.                      *)
(***************************************************************************)
EXTENDS Integers, Sequences, FiniteSets, FiniteSetsExt, TLC

CONSTANTS
    Pids,           \* process ids of invocations
    Inodes, None,
    Slots,          \* STAGE_LIMIT
    Attempts,       \* names tried, 128 in the code
    Length,         \* bytes of a whole file
    MaxTrouble      \* bound: how often a process is killed, a call fails or
                    \* somebody else interferes

ASSUME StageAssumption ==
    /\ {Slots, Attempts, Length} \subseteq Nat \ {0}
    /\ MaxTrouble \in Nat
    /\ None \notin Inodes \cup Pids

StageName(p, slot, a) == <<p, slot, a>>     \* .panack-stage-pid-slot-attempt
TempName(p, a) == <<p, 0, a>>               \* .panack-write-pid-attempt
Private == Pids \X (0 .. Slots) \X (1 .. Attempts)
Target == <<None, 0, 0>>
NoName == <<None, 0, 1>>

VARIABLES
    dir,        \* name -> inode, the parent directory
    node,       \* inode -> what it is and contains
    moved,      \* the parent's path leads elsewhere
    inv,        \* pid -> invocation: its state and its stages
    op,         \* pid -> the call it is in
    told,       \* pid -> what its last publish or write reported and did
    issued,     \* inode -> what it contained when it came to the target
    trouble,    \* what has gone wrong so far
    foreign     \* and how much of it somebody else did

vars == <<dir, node, moved, inv, op, told, issued, trouble, foreign>>
bad == <<trouble, foreign>>

Nothing == [kind |-> "none", size |-> 0]
File(n) == [kind |-> "file", size |-> n]
Directory == [kind |-> "dir", leaf |-> Nothing]
NeverIssued == [kind |-> "never", size |-> 0]
Idle == [step |-> "idle", call |-> "none", slot |-> 0, name |-> NoName, replace |-> FALSE,
         seen |-> None, done |-> FALSE]
NotTold == [ok |-> FALSE, done |-> FALSE]

Init ==
    /\ \E i \in Inodes, at \in {"nothing", "dir", "file"} :
        /\ dir = [n \in Private \cup {Target} |-> IF n = Target /\ at # "nothing" THEN i ELSE None]
        /\ node = [j \in Inodes |-> IF j = i /\ at = "file"
                                    THEN [kind |-> "file", leaf |-> File(Length)] ELSE Directory]
    /\ issued = [j \in Inodes |-> IF j = dir[Target] THEN node[j].leaf ELSE NeverIssued]
    /\ moved = FALSE
    /\ inv = [p \in Pids |-> [state |-> "running", stages |-> << >>]]
    /\ op = [p \in Pids |-> Idle] /\ told = [p \in Pids |-> NotTold]
    /\ trouble = 0 /\ foreign = 0

\* An inode lives as long as a name or a descriptor refers to it.
Free ==
    {i \in Inodes : /\ \A n \in DOMAIN dir : dir[n] # i
                    /\ \A p \in Pids : \A s \in DOMAIN inv[p].stages :
                            inv[p].stages[s].live => inv[p].stages[s].directory # i}

Create(name, new) ==
    \E i \in Free :
        /\ dir' = [dir EXCEPT ![name] = i]
        /\ node' = [node EXCEPT ![i] = new]
        /\ issued' = [issued EXCEPT ![i] = NeverIssued]

Holds(name, kind) == dir[name] # None /\ node[dir[name]].kind = kind

Trouble == trouble < MaxTrouble /\ trouble' = trouble + 1
Fault == Trouble /\ UNCHANGED foreign

Calling(p) == inv[p].state = "running" /\ op[p].step = "idle"
Step(p, step) == op[p].step = step
GoTo(p, step) == op' = [op EXCEPT ![p].step = step]
Stage(p) == inv[p].stages[op[p].slot]

\* The call returns.
Report(p, ok) ==
    /\ op' = [op EXCEPT ![p] = Idle]
    /\ told' = IF op[p].call \in {"publish", "write"}
               THEN [told EXCEPT ![p] = [ok |-> ok, done |-> op[p].done]] ELSE told

\* The first of the names tried that does not exist yet, if any.
FirstUnused(names) ==
    LET free == {a \in 1 .. Attempts : dir[names[a]] = None}
    IN  IF free = {} THEN NoName ELSE names[Min(free)]

-----------------------------------------------------------------------------
(* fs_stage_begin                                                          *)

\* The slot is taken whether or not the directory can be made; attempts go
\* through names that exist.
Begin(p) ==
    /\ Calling(p) /\ ~moved /\ Len(inv[p].stages) < Slots
    /\ LET slot == Len(inv[p].stages) + 1
           name == FirstUnused([a \in 1 .. Attempts |-> StageName(p, slot, a)])
       IN  /\ inv' = [inv EXCEPT ![p].stages = Append(@, [live |-> FALSE, name |-> name, directory |-> None])]
           /\ \/ /\ name # NoName /\ Create(name, Directory)
                 /\ op' = [op EXCEPT ![p] = [Idle EXCEPT !.step = "open", !.call = "begin", !.slot = slot]]
                 /\ UNCHANGED bad
              \/ name = NoName /\ UNCHANGED <<dir, node, issued, op, bad>>
              \/ name # NoName /\ Fault /\ UNCHANGED <<dir, node, issued, op>>
    /\ UNCHANGED <<moved, told>>

\* The directory is opened, or removed again.
BeginOpen(p) ==
    /\ Step(p, "open")
    /\ \/ /\ inv' = [inv EXCEPT ![p].stages[op[p].slot].live = TRUE,
                                ![p].stages[op[p].slot].directory = dir[Stage(p).name]]
          /\ UNCHANGED <<dir, bad>>
       \/ dir' = [dir EXCEPT ![Stage(p).name] = None] /\ Fault /\ UNCHANGED inv
    /\ Report(p, TRUE)
    /\ UNCHANGED <<node, moved, issued>>

-----------------------------------------------------------------------------
(* fs_stage_write, fs_stage_directory, fs_stage_symlink, through the       *)
(* directory's descriptor.                                                 *)

Live(p) == {s \in DOMAIN inv[p].stages : inv[p].stages[s].live}

\* A file is created at offset 0 and only ever extended at its end; a write that
\* fails may have written a part.
StageWrite(p) ==
    \E s \in Live(p), offset \in 0 .. Length - 1, wrote \in 0 .. 1 :
        LET i == inv[p].stages[s].directory
        IN  /\ Calling(p)
            /\ IF offset = 0 THEN node[i].leaf = Nothing ELSE node[i].leaf = File(offset)
            /\ node' = [node EXCEPT ![i].leaf = File(offset + wrote)]
            /\ \/ wrote = 1 /\ UNCHANGED bad
               \/ wrote = 0 /\ Fault
            /\ UNCHANGED <<dir, moved, inv, op, told, issued>>

StageMake(p) ==
    \E s \in Live(p) :
        LET i == inv[p].stages[s].directory
        IN  /\ Calling(p)
            /\ node[i].leaf = Nothing
            /\ node' = [node EXCEPT ![i].leaf.kind = "entry"]
            /\ UNCHANGED <<dir, moved, inv, op, told, issued, bad>>

-----------------------------------------------------------------------------
(* fs_stage_publish                                                        *)

\* The parent's path must still lead to the parent.
Publish(p) ==
    \E s \in Live(p), replace \in BOOLEAN :
        /\ Calling(p)
        /\ op' = [op EXCEPT ![p] = [Idle EXCEPT !.step = "source", !.call = "publish",
                                                !.slot = s, !.replace = replace]]
        /\ ~moved
        /\ UNCHANGED <<dir, node, moved, inv, told, issued, bad>>

PublishMoved(p) ==
    /\ Calling(p) /\ Live(p) # {} /\ moved
    /\ told' = [told EXCEPT ![p] = NotTold]
    /\ UNCHANGED <<dir, node, moved, inv, op, issued, bad>>

\* The stage must still bear its name.
PublishSource(p) ==
    /\ Step(p, "source")
    /\ IF dir[Stage(p).name] = Stage(p).directory
       THEN GoTo(p, "target") /\ UNCHANGED told
       ELSE Report(p, FALSE)
    /\ UNCHANGED <<dir, node, moved, inv, issued, bad>>

Conflicts(p) == Holds(Target, "file") \/ (Holds(Target, "dir") /\ ~op[p].replace)

\* Whether there is a target, and its inode.
PublishTarget(p) ==
    /\ Step(p, "target")
    /\ IF Conflicts(p) THEN Report(p, FALSE)
       ELSE /\ op' = [op EXCEPT ![p].step = "rename", ![p].seen = dir[Target]]
            /\ UNCHANGED told
    /\ UNCHANGED <<dir, node, moved, inv, issued, bad>>

\* RENAME_NOREPLACE fails when there is a target, RENAME_EXCHANGE when there is
\* none.
Renames(p) == (op[p].seen = None) = (dir[Target] = None)

PublishRename(p) ==
    /\ Step(p, "rename") /\ op[p].call = "publish"
    /\ LET name == Stage(p).name
       IN  \/ /\ Renames(p)
              /\ dir' = [dir EXCEPT ![Target] = dir[name], ![name] = dir[Target]]
              /\ issued' = [issued EXCEPT ![dir[name]] = node[dir[name]].leaf]
              /\ op' = [op EXCEPT ![p].step = "renamed", ![p].done = TRUE]
              /\ UNCHANGED <<told, bad>>
           \/ ~Renames(p) /\ Report(p, FALSE) /\ UNCHANGED <<dir, issued, bad>>
           \/ Fault /\ Report(p, FALSE) /\ UNCHANGED <<dir, issued>>
    /\ UNCHANGED <<node, moved, inv>>

\* Mutant: whatever came back is taken for what was seen.
BroughtBack_any(p) == op[p].seen # None

\* What the exchange brought back is the stage now, if it is what was seen.
BroughtBack(p) ==
    op[p].seen # None /\ dir[Stage(p).name] = op[p].seen /\ Holds(Stage(p).name, "dir")

PublishRenamed(p) ==
    /\ Step(p, "renamed")
    /\ \/ /\ BroughtBack(p)
          /\ inv' = [inv EXCEPT ![p].stages[op[p].slot].directory = dir[Stage(p).name]]
          /\ UNCHANGED bad
       \/ /\ inv' = [inv EXCEPT ![p].stages[op[p].slot].name = NoName]
          /\ IF BroughtBack(p) THEN Fault ELSE UNCHANGED bad
    /\ GoTo(p, "release")
    /\ UNCHANGED <<dir, node, moved, told, issued>>

-----------------------------------------------------------------------------
(* stage_release, by fs_stage_close, fs_stage_publish and                  *)
(* filesystem_stage_destroy.                                               *)

Close(p) ==
    \E s \in Live(p) :
        /\ Calling(p)
        /\ op' = [op EXCEPT ![p] = [Idle EXCEPT !.step = "release", !.call = "close", !.slot = s]]
        /\ UNCHANGED <<dir, node, moved, inv, told, issued, bad>>

\* The invocation ends: its stages are released in turn.
End(p) ==
    /\ inv[p].state \in {"running", "ending"} /\ op[p].step = "idle"
    /\ inv' = [inv EXCEPT ![p].state = IF Live(p) = {} THEN "ended" ELSE "ending"]
    /\ op' = IF Live(p) = {} THEN op
             ELSE [op EXCEPT ![p] = [Idle EXCEPT !.step = "release", !.call = "destroy", !.slot = Min(Live(p))]]
    /\ UNCHANGED <<dir, node, moved, told, issued, bad>>

\* Mutant: a failure to clean up is reported as one to publish.
Released_reporting(p, ok) ==
    /\ inv' = [inv EXCEPT ![p].stages[op[p].slot].live = FALSE,
                          ![p].stages[op[p].slot].directory = None]
    /\ Report(p, ok)

\* Descriptors are closed and the slot is dead.  A publication that took effect
\* is reported as such whatever becomes of the old directory.
Released(p, ok) ==
    /\ inv' = [inv EXCEPT ![p].stages[op[p].slot].live = FALSE,
                          ![p].stages[op[p].slot].directory = None]
    /\ Report(p, ok \/ op[p].call = "publish")

\* Nothing is removed unless the name still leads to the directory held.
Named(p) == dir[Stage(p).name] = Stage(p).directory

Release(p) ==
    /\ Step(p, "release")
    /\ \/ /\ Stage(p).name # NoName /\ Named(p)
          /\ GoTo(p, "empty") /\ UNCHANGED <<inv, told>>
       \/ Stage(p).name = NoName /\ Released(p, TRUE)
       \/ Stage(p).name # NoName /\ ~Named(p) /\ Released(p, FALSE)
    /\ UNCHANGED <<dir, node, moved, issued, bad>>

\* stage_remove: what is in the directory, then the directory.
RemoveEntries(p) ==
    /\ Step(p, "empty")
    /\ \/ /\ node' = [node EXCEPT ![dir[Stage(p).name]].leaf = Nothing]
          /\ GoTo(p, "rmdir") /\ UNCHANGED <<inv, told, bad>>
       \/ Fault /\ Released(p, FALSE) /\ UNCHANGED node
    /\ UNCHANGED <<dir, moved, issued>>

RemoveDirectory(p) ==
    /\ Step(p, "rmdir")
    /\ \/ dir' = [dir EXCEPT ![Stage(p).name] = None] /\ Released(p, TRUE) /\ UNCHANGED bad
       \/ Fault /\ Released(p, FALSE) /\ UNCHANGED dir
    /\ UNCHANGED <<node, moved, issued>>

-----------------------------------------------------------------------------
(* fs_atomic_write                                                         *)

\* A temporary file is created under the first free name, or the call fails.
AtomicWrite(p) ==
    /\ Calling(p) /\ ~moved
    /\ LET name == FirstUnused([a \in 1 .. Attempts |-> TempName(p, a)])
       IN  \/ /\ name # NoName
              /\ Create(name, [kind |-> "file", leaf |-> File(0)])
              /\ op' = [op EXCEPT ![p] = [Idle EXCEPT !.step = "fill", !.call = "write", !.name = name]]
              /\ UNCHANGED <<told, bad>>
           \/ /\ IF name = NoName THEN UNCHANGED bad ELSE Fault
              /\ told' = [told EXCEPT ![p] = NotTold]
              /\ UNCHANGED <<dir, node, issued, op>>
    /\ UNCHANGED <<moved, inv>>

\* Mutant: a failing write only ends the loop.
Fill_hasty(p) ==
    /\ Step(p, "fill")
    /\ LET i == dir[op[p].name]
       IN  \/ /\ node[i].leaf.size < Length
              /\ node' = [node EXCEPT ![i].leaf.size = @ + 1]
              /\ UNCHANGED <<op, bad>>
           \/ /\ node[i].leaf.size = Length
              /\ GoTo(p, "stat") /\ UNCHANGED <<node, bad>>
           \/ Fault /\ GoTo(p, "stat") /\ UNCHANGED node
    /\ UNCHANGED <<dir, moved, inv, told, issued>>

\* The data is written piece by piece; a failure leads to the removal.
Fill(p) ==
    /\ Step(p, "fill")
    /\ LET i == dir[op[p].name]
       IN  \/ /\ node[i].leaf.size < Length
              /\ node' = [node EXCEPT ![i].leaf.size = @ + 1]
              /\ UNCHANGED <<op, bad>>
           \/ /\ node[i].leaf.size = Length
              /\ GoTo(p, "stat") /\ UNCHANGED <<node, bad>>
           \/ Fault /\ GoTo(p, "unlink") /\ UNCHANGED node
    /\ UNCHANGED <<dir, moved, inv, told, issued>>

\* Only a regular file is replaced.
Stat(p) ==
    /\ Step(p, "stat")
    /\ GoTo(p, IF Holds(Target, "dir") THEN "unlink" ELSE "rename")
    /\ UNCHANGED <<dir, node, moved, inv, told, issued, bad>>

\* rename replaces whatever file is there by now, and fails on a directory.
WriteRename(p) ==
    /\ Step(p, "rename") /\ op[p].call = "write"
    /\ \/ /\ ~Holds(Target, "dir")
          /\ dir' = [dir EXCEPT ![Target] = dir[op[p].name], ![op[p].name] = None]
          /\ issued' = [issued EXCEPT ![dir[op[p].name]] = node[dir[op[p].name]].leaf]
          /\ op' = [op EXCEPT ![p] = Idle]
          /\ told' = [told EXCEPT ![p] = [ok |-> TRUE, done |-> TRUE]]
          /\ UNCHANGED bad
       \/ /\ Holds(Target, "dir")
          /\ GoTo(p, "unlink") /\ UNCHANGED <<dir, issued, told, bad>>
       \/ Fault /\ GoTo(p, "unlink") /\ UNCHANGED <<dir, issued, told>>
    /\ UNCHANGED <<node, moved, inv>>

Unlink(p) ==
    /\ Step(p, "unlink")
    /\ \/ dir' = [dir EXCEPT ![op[p].name] = None] /\ UNCHANGED bad
       \/ Fault /\ UNCHANGED dir
    /\ Report(p, FALSE)
    /\ UNCHANGED <<node, moved, inv, issued>>

-----------------------------------------------------------------------------
(* What happens around the invocations.                                    *)

\* An invocation is killed; the kernel closes its descriptors.
Crash(p) ==
    /\ inv[p].state \in {"running", "ending"}
    /\ Trouble
    /\ inv' = [inv EXCEPT ![p] = [state |-> "ended", stages |-> << >>]]
    /\ op' = [op EXCEPT ![p] = Idle]
    /\ told' = [told EXCEPT ![p] = NotTold]
    /\ UNCHANGED <<dir, node, moved, issued, foreign>>

\* Another invocation gets the same process id.
Start(p) ==
    /\ inv[p].state = "ended"
    /\ inv' = [inv EXCEPT ![p] = [state |-> "running", stages |-> << >>]]
    /\ told' = [told EXCEPT ![p] = NotTold]
    /\ UNCHANGED <<dir, node, moved, op, issued, bad>>

\* Somebody else puts a directory in the place of the target or of an idle stage.
Substitute ==
    \E n \in DOMAIN dir :
        /\ Trouble /\ foreign' = foreign + 1
        /\ n # Target => dir[n] # None /\ op[n[1]].step = "idle"
        /\ \E i \in Free :
            /\ dir' = [dir EXCEPT ![n] = i]
            /\ node' = [node EXCEPT ![i] = Directory]
            /\ issued' = [issued EXCEPT ![i] = Nothing]
        /\ UNCHANGED <<moved, inv, op, told>>

\* Somebody else removes the target, or renames the parent directory.
TakeAway ==
    /\ Trouble /\ foreign' = foreign + 1
    /\ \/ dir' = [dir EXCEPT ![Target] = None] /\ UNCHANGED moved
       \/ moved' = TRUE /\ UNCHANGED dir
    /\ UNCHANGED <<node, inv, op, told, issued>>

StageStep(p) ==
    \/ Begin(p) \/ BeginOpen(p) \/ StageWrite(p) \/ StageMake(p)
    \/ Publish(p) \/ PublishMoved(p) \/ PublishSource(p) \/ PublishTarget(p)
    \/ PublishRename(p) \/ PublishRenamed(p)
    \/ Close(p) \/ End(p) \/ Release(p) \/ RemoveEntries(p) \/ RemoveDirectory(p)
    \/ AtomicWrite(p) \/ Fill(p) \/ Stat(p) \/ WriteRename(p) \/ Unlink(p)

Next == (\E p \in Pids : StageStep(p) \/ Crash(p) \/ Start(p)) \/ Substitute \/ TakeAway

Spec == Init /\ [][Next]_vars

-----------------------------------------------------------------------------
(* Properties.                                                             *)

\* What stands at the target is whole at every moment, whoever is killed or
\* fails: a file has all its bytes, a directory contains exactly what it did when
\* it was published.  Neither a handle nor the clean-up of an older directory
\* reaches it any more.
TargetIsWhole ==
    dir[Target] # None =>
        LET i == dir[Target]
        IN  /\ node[i].leaf = issued[i]
            /\ node[i].kind = "file" => node[i].leaf = File(Length)

\* An invocation takes a directory off the target only when asked to replace it,
\* and it removes entries only of the directory it staged or of the one it found
\* at the target and took off it: not of a substituted one, nor of another
\* invocation's stage.
OnlyItsOwn ==
    [][LET By(step) == {p \in Pids : op[p].step = step /\ op'[p] # op[p]}
       IN  /\ (Holds(Target, "dir") /\ dir'[Target] # dir[Target] /\ foreign' = foreign)
                => \E p \in By("rename") : op[p].replace
           /\ \A i \in Inodes \ Free :
                (node[i].leaf # Nothing /\ node'[i].leaf = Nothing)
                => \E p \in By("empty") : IF op[p].done THEN i = op[p].seen ELSE issued[i] = NeverIssued
      ]_vars

\* What a call reports is what it did: an error of publish or write means that the
\* target was not touched, success that it was, also when the clean-up fails.  And
\* where nothing fails and nobody interferes, an invocation that has ended leaves
\* nothing behind but directories that others had published.
ReportIsTrue ==
    /\ \A p \in Pids : told[p].ok = told[p].done
    /\ trouble = 0 =>
        \A n \in Private :
            (inv[n[1]].state = "ended" /\ dir[n] # None) => issued[dir[n]] # NeverIssued
=============================================================================
