---------------------------- MODULE MCMkfsFreeList ----------------------------
(***************************************************************************)
(* MkfsFreeList over every stride, group size and i-list size of small     *)
(* volumes.  Options out of range are given on either side, to be clamped. *)
(***************************************************************************)
EXTENDS MkfsFreeList

MCSize == 8 .. 16
MCOptM == -1 .. MAXFN + 1
MCOptN == -1 .. MAXFN + 1
===============================================================================
