------------------------------ MODULE MCFreeList ------------------------------
(***************************************************************************)
(* FreeList with a cache of two entries: the terminator and four blocks    *)
(* make three segments, two of them spilled.  The blocks are interchange-  *)
(* able, so runs take their permutations as a symmetry.                    *)
(***************************************************************************)
EXTENDS FreeList, TLC

(* A block of a caller that a reload would take for a full chain block.     *)
MCPayload == {[nfree |-> NICFREE, free |-> ZeroCache]}

MCSymmetry == Permutations(Block)
===============================================================================
