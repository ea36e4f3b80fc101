------------------------------ MODULE FileStore ------------------------------
(***************************************************************************)
(* What the inodes of a volume promise: files, each a sequence of blocks,  *)
(* and snapshots of all of them that never change.  A call that runs out   *)
(* of space may lose the files; then nothing is known of them until a      *)
(* snapshot taken before is restored.                                      *)
(***************************************************************************)
EXTENDS Naturals, Sequences

CONSTANTS File, Content, Zero, NoFile, Lost, MaxSize, MaxSnapshots

VARIABLES
    files,      \* [File -> the blocks of each], or Lost
    shots       \* the snapshots, each such a function, or Lost

vars == <<files, shots>>

Known == files # Lost
Exists(f) == Known /\ files[f] # NoFile

Init ==
    /\ files = [f \in File |-> NoFile]
    /\ shots = <<>>

Create(f) ==
    /\ Known /\ files[f] = NoFile
    /\ files' = [files EXCEPT ![f] = <<>>]
    /\ UNCHANGED shots

Remove(f) ==
    /\ Exists(f)
    /\ files' = [files EXCEPT ![f] = NoFile]
    /\ UNCHANGED shots

\* What is added reads as zero.
Resize(f, size) ==
    /\ Exists(f)
    /\ files' = [files EXCEPT ![f] =
                    [p \in 1 .. size |-> IF p <= Len(files[f]) THEN files[f][p] ELSE Zero]]
    /\ UNCHANGED shots

\* A write of the blocks first .. last; out of space, it ends early.
Write(f, first, last, c) ==
    /\ Exists(f) /\ last <= Len(files[f])
    /\ files' = [files EXCEPT ![f] =
                    [p \in DOMAIN files[f] |-> IF p \in first .. last THEN c ELSE files[f][p]]]
    /\ UNCHANGED shots

Snapshot ==
    /\ shots' = Append(shots, files)
    /\ UNCHANGED files

Restore(s) ==
    /\ files' = shots[s]
    /\ UNCHANGED shots

OutOfSpace ==
    /\ files' = Lost
    /\ UNCHANGED shots

Next ==
    \/ \E f \in File : Create(f) \/ Remove(f)
    \/ \E f \in File, size \in 0 .. MaxSize : Resize(f, size)
    \/ \E f \in File, first, last \in 1 .. MaxSize, c \in Content : Write(f, first, last, c)
    \/ Snapshot
    \/ \E s \in DOMAIN shots : Restore(s)
    \/ OutOfSpace

Spec == Init /\ [][Next]_vars
===============================================================================
