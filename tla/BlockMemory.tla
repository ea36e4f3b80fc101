----------------------------- MODULE BlockMemory -----------------------------
(***************************************************************************)
(* What a block cache in front of a disk promises: a memory of blocks and  *)
(* a durable copy of it.  While a session lasts a write changes the memory *)
(* and nothing else does; the durable copy catches up block by block,      *)
(* whenever the cache pleases.  A session that is closed leaves everything *)
(* durable, one that is lost leaves the durable copy as it was.            *)
(***************************************************************************)
CONSTANTS Idx, Value

VARIABLES memory, durable, open

vars == <<memory, durable, open>>

Init ==
    /\ durable \in [Idx -> Value]
    /\ memory = durable
    /\ open = FALSE

Open ==
    /\ ~open
    /\ open' = TRUE
    /\ UNCHANGED <<memory, durable>>

Write(i, v) ==
    /\ open
    /\ UNCHANGED <<durable, open>>
    /\ memory' = [memory EXCEPT ![i] = v]

WriteThrough(i, v) ==
    /\ open
    /\ memory' = [memory EXCEPT ![i] = v]
    /\ durable' = [durable EXCEPT ![i] = v]
    /\ UNCHANGED open

Flush ==
    /\ open
    /\ UNCHANGED <<memory, open>>
    /\ \A i \in Idx : durable'[i] = durable[i] \/ durable'[i] = memory[i]
    /\ DOMAIN durable' = Idx

Close ==
    /\ open
    /\ open' = FALSE
    /\ durable' = memory
    /\ UNCHANGED memory

Lose ==
    /\ open
    /\ open' = FALSE
    /\ memory' = durable
    /\ UNCHANGED durable

Next ==
    \/ Flush
    \/ \E i \in Idx, v \in Value : Write(i, v) \/ WriteThrough(i, v)
    \/ Open \/ Close \/ Lose

Spec == Init /\ [][Next]_vars
===============================================================================
