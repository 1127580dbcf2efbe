------------------------------ MODULE BlockPool ------------------------------
(***************************************************************************)
(* What the s5fs block allocator promises its callers, with no mention of  *)
(* how the free blocks are kept: a set of free blocks, the set of blocks   *)
(* the callers hold, and one sticky failure.  FreeList implements it.      *)
(***************************************************************************)
EXTENDS FiniteSets, Integers

CONSTANT Block          \* the data blocks of the volume

VARIABLES pool,         \* the free blocks
          held,         \* the blocks handed out and not given back
          total,        \* the free-block total kept in the superblock
          failed        \* the handle's sticky error flag

poolVars == <<pool, held, total, failed>>

(* mkfs starts from an empty free list and frees every data block onto it. *)
PoolInit ==
  /\ pool = {}
  /\ held = Block
  /\ total = 0
  /\ failed = FALSE

(* An allocation hands out some free block, which nobody else holds. *)
Take ==
  /\ ~failed
  /\ \E b \in pool : /\ pool' = pool \ {b}
                     /\ held' = held \cup {b}
  /\ total' = total - 1
  /\ UNCHANGED failed

(* An allocation fails only when there is no free block at all. *)
Exhaust ==
  /\ ~failed
  /\ pool = {}
  /\ failed' = TRUE
  /\ total' = total - 1
  /\ UNCHANGED <<pool, held>>

Release ==
  /\ ~failed
  /\ \E b \in held : /\ held' = held \ {b}
                     /\ pool' = pool \cup {b}
  /\ total' = total + 1
  /\ UNCHANGED failed

PoolNext == Take \/ Exhaust \/ Release

PoolSpec == PoolInit /\ [][PoolNext]_poolVars
==============================================================================
