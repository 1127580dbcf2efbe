------------------------------ MODULE BlockRoute ------------------------------
(***************************************************************************)
(* Where block lbn of a file is found: in a direct address, or below the   *)
(* single, double or triple indirect one.  The reader's route, the         *)
(* engine's descent and the builder's fill order are written separately in *)
(* the program; pdp11fs.h says that they are inverses of each other.       *)
(***************************************************************************)
EXTENDS Integers

CONSTANTS LADDR,    \* direct addresses of an inode
          NINDIR    \* addresses per indirect block

ASSUME RouteAssumption == LADDR \in Nat /\ NINDIR \in Nat \ {0}

Level == 1 .. 3

(* P11_LEVEL_CAP: blocks below one address of level L.  With at most 512
   addresses per block the product fits the code's 32 bits.                 *)
Cap(L) == IF L = 1 THEN NINDIR
          ELSE IF L = 2 THEN NINDIR * NINDIR ELSE NINDIR * NINDIR * NINDIR

(* per_at: blocks below one entry of an indirect block of level L.          *)
Per(L) == IF L = 1 THEN 1 ELSE IF L = 2 THEN NINDIR ELSE NINDIR * NINDIR

(* The first block of level L, and the first beyond the last.               *)
Start(L) == IF L = 1 THEN LADDR
            ELSE IF L = 2 THEN LADDR + Cap(1) ELSE LADDR + Cap(1) + Cap(2)
Reach == Start(3) + Cap(3)

(* fsr_lbn_route: the level (0 direct, -1 beyond reach), the slot of the
   inode, and the index below it.                                           *)
Route(lbn) ==
  IF lbn < LADDR THEN [level |-> 0, slot |-> lbn, idx |-> 0]
  ELSE IF lbn - LADDR < Cap(1) THEN [level |-> 1, slot |-> LADDR, idx |-> lbn - LADDR]
  ELSE IF lbn - LADDR - Cap(1) < Cap(2)
       THEN [level |-> 2, slot |-> LADDR + 1, idx |-> lbn - LADDR - Cap(1)]
  ELSE IF lbn - LADDR - Cap(1) - Cap(2) < Cap(3)
       THEN [level |-> 3, slot |-> LADDR + 2, idx |-> lbn - LADDR - Cap(1) - Cap(2)]
  ELSE [level |-> -1, slot |-> 0, idx |-> 0]

(* fsr_ind_index: the entry the readers follow in a block of level L.       *)
IndIndex(idx, L) == (idx \div Per(L)) % NINDIR

(* What the engine does of an index in ind_map and bfree_at: the entry in a
   block of level L, and the index below that entry.                        *)
Entry(idx, L) == idx \div Per(L)
SlipBelow(idx, L) == idx % NINDIR       \* as if every level were the second
Below(idx, L) == idx % Per(L)

(* The entries the engine follows from level `top' down, by level.          *)
EngineIndex(idx, top, L) ==
  IF L = top THEN Entry(idx, L)
  ELSE IF L = top - 1 THEN Entry(Below(idx, top), L)
  ELSE Entry(Below(Below(idx, top), top - 1), L)

(* s5fs_setblocks and s5fs_build_ind: the position in the file of the block
   put at entries e[top] .. e[1] of the tree of level top.                  *)
Filled(top, e) ==
  Start(top) + e[1] + (IF top >= 2 THEN e[2] * Per(2) ELSE 0)
                    + (IF top = 3 THEN e[3] * Per(3) ELSE 0)
===============================================================================
