------------------------------- MODULE MCInode -------------------------------
(***************************************************************************)
(* Two volumes for the model checker.  A file of three blocks needs two    *)
(* level 2 blocks under one level 1 block, so that a redirect stops at     *)
(* each of the three heights; 13 blocks hold it, a snapshot and every      *)
(* copy.  Two files of two blocks take five each, so that with six blocks  *)
(* every call meets the end of the space, at every allocation it makes.    *)
(***************************************************************************)
EXTENDS Inode

RoomyVolume == [blocks |-> 13, files |-> {1}, sizes |-> {1, 3}]
TightVolume == [blocks |-> 6, files |-> {1, 2}, sizes |-> {0, 2}]

RoomyAndTight == {RoomyVolume, TightVolume}
===============================================================================
