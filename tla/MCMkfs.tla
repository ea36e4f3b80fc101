-------------------------------- MODULE MCMkfs --------------------------------
(***************************************************************************)
(* Every device up to the first that needs two blocks for each bitmap when *)
(* a block is one sector, some larger ones, and block sizes that are       *)
(* refused (0 and 3 sectors), that fit, and that are too large (8).        *)
(***************************************************************************)
EXTENDS Mkfs

SmallDevices == 0 .. 56 \cup {63, 64, 65, 80, 83, 121}
BlockSizes == {0, 1, 2, 3, 4, 8}
===============================================================================
