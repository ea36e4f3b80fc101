------------------------------ MODULE ByteQueue ------------------------------
(***************************************************************************)
(* What a byte ring promises to a client that never writes more than the   *)
(* free space: a bounded first-in first-out queue of bytes, with a read    *)
(* that consumes and a shadow read that does not.                          *)
(***************************************************************************)
EXTENDS Naturals, Sequences

CONSTANTS Byte, Capacity, MaxTransfer

VARIABLES
    queue,      \* the bytes written and not yet consumed
    got         \* what the last read of any kind returned

Chunks == UNION {[1 .. n -> Byte] : n \in 1 .. MaxTransfer}

Prefix(want) == SubSeq(queue, 1, IF want < Len(queue) THEN want ELSE Len(queue))

Init == queue = <<>> /\ got = <<>>

Put(data) ==
    /\ Len(queue) + Len(data) <= Capacity
    /\ queue' = queue \o data
    /\ UNCHANGED got

Peek(want) ==
    /\ got' = Prefix(want)
    /\ UNCHANGED queue

Take(want) ==
    /\ got' = Prefix(want)
    /\ queue' = SubSeq(queue, Len(Prefix(want)) + 1, Len(queue))

Next ==
    \/ \E data \in Chunks : Put(data)
    \/ \E want \in 1 .. MaxTransfer : Peek(want) \/ Take(want)

Spec == Init /\ [][Next]_<<queue, got>>
==============================================================================
