---------------------------- MODULE MCBlockStore ----------------------------
(***************************************************************************)
(* Four blocks and a snapshot, the least with which the header's counter   *)
(* goes wrong.  The states are bounded to those in which a block has the   *)
(* links that its type and a snapshot give it: nothing here is about links *)
(* and about rollbacks, which BlockStore.cfg has.                          *)
(***************************************************************************)
EXTENDS BlockStore

LinkedOnce ==
    /\ phase # "rollback"
    /\ \A b \in Block : Live(b) => attr[b].links = IF attr[b].frozen = 1 THEN 2 ELSE 1
===============================================================================
