----------------------------- MODULE MCChrBuf -----------------------------
(***************************************************************************)
(* Small instances of ChrBuf.  MCUsed lets three of the longest strings be *)
(* appended without a clear, which is past every capability used here.     *)
(***************************************************************************)
EXTENDS ChrBuf

MCCapacities == {0, 1, 2, 4}
MCLengths == {0, 1, 2, 4, 5}
MCReserves == {-1, 0, 1, 3, 9}
MCUsed == 12
=============================================================================
