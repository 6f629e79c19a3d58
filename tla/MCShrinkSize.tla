---------------------------- MODULE MCShrinkSize ----------------------------
(* Every root file system size below 10 GiB, with the largest OFFSET of the *)
(* boards.                                                                  *)
EXTENDS ShrinkSize
=============================================================================
