----------------------------- MODULE BlockService -----------------------------
(***************************************************************************)
(* What the block layer promises the inode layer: a set of live blocks,    *)
(* each with a content and a freeze mark.  Copy-on-write copies, their     *)
(* reclamation, the scan for a free block and the header counters are not  *)
(* visible here.                                                           *)
(***************************************************************************)
CONSTANTS Block, Root, Content

VARIABLES
    live,       \* blocks a client holds
    data,       \* [live -> Content]
    frozen      \* the live blocks that belong to a snapshot

vars == <<live, data, frozen>>

TypeOK ==
    /\ live \subseteq Block
    /\ data \in [live -> Content]
    /\ frozen \subseteq live

Init ==
    /\ live = {Root}
    /\ data \in [{Root} -> Content]
    /\ frozen = {}

\* A client gets a block that nobody holds, with the content it put there.
Publish(b, c) ==
    /\ b \notin live
    /\ live' = live \cup {b}
    /\ data' = [x \in live \cup {b} |-> IF x = b THEN c ELSE data[x]]
    /\ UNCHANGED frozen

Overwrite(b, c) ==
    /\ b \in live \ frozen
    /\ data' = [data EXCEPT ![b] = c]
    /\ UNCHANGED <<live, frozen>>

Drop(b) ==
    /\ b \in live \ (frozen \cup {Root})
    /\ live' = live \ {b}
    /\ data' = [x \in live \ {b} |-> data[x]]
    /\ UNCHANGED frozen

\* A snapshot freezes everything but the root; nothing is ever thawed.
FreezeAll ==
    /\ frozen' = live \ {Root}
    /\ UNCHANGED <<live, data>>

\* A rollback drops what no snapshot holds and gives the root a new content.
Rollback(c) ==
    /\ frozen # {}
    /\ live' = frozen \cup {Root}
    /\ data' = [x \in frozen \cup {Root} |-> IF x = Root THEN c ELSE data[x]]
    /\ UNCHANGED frozen

Next ==
    \/ \E b \in Block, c \in Content : Publish(b, c) \/ Overwrite(b, c)
    \/ \E b \in Block : Drop(b)
    \/ FreezeAll
    \/ \E c \in Content : Rollback(c)

Spec == Init /\ [][Next]_vars
===============================================================================
