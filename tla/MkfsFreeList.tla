----------------------------- MODULE MkfsFreeList -----------------------------
(***************************************************************************)
(* How mkfs lays down the first free list (s5fs_core.c, s5fs_freelist): a  *)
(* permutation of the offsets in a rotation group is built with stride m   *)
(* and linear probing, then the volume is swept from its end, one group of *)
(* n blocks at a time, and every data block met is freed.  One step per    *)
(* turn of each loop; what s5fs_bfree does with a block is FreeList's.     *)
(***************************************************************************)
EXTENDS Integers

CONSTANTS MAXFN,      \* largest rotation group (P11_MAXFN, 500)
          DEFM, DEFN, \* stride and group size when none is given (5 and 10)
          MINFS,      \* fewest blocks of a volume (8)
          Size,       \* volume sizes asked for
          OptM, OptN  \* -m and -n as given, 0 for none

ASSUME MkfsAssumption ==
  /\ MAXFN \in Nat \ {0} /\ DEFM \in Nat \ {0} /\ DEFN \in Nat \ {0}
  /\ MINFS \in Nat \ {0}
  /\ Size \subseteq Nat /\ OptM \subseteq Int /\ OptN \subseteq Int

VARIABLES
  fsize, isize,       \* s_fsize, s_isize: data blocks are isize .. fsize-1
  fn, fm,             \* s_n, s_m after clamping
  pc,                 \* which loop runs: "permute", "sweep", or "done"
  flg, adr,           \* offsets taken, and the permutation built so far
  i, j,               \* the loops' indices
  d,                  \* the end of the group being swept
  times               \* how often each block was freed

vars == <<fsize, isize, fn, fm, pc, flg, adr, i, j, d, times>>

Offset == 0 .. fn - 1
DataBlock == isize .. fsize - 1

(* s5fs_begin: interleave defaults and clamps. *)
ClampN(n) == LET s == IF n = 0 THEN DEFN ELSE n
             IN IF s <= 0 \/ s >= MAXFN THEN MAXFN ELSE s
ClampM(m, n) == LET s == IF m = 0 THEN DEFM ELSE m
                IN IF s <= 0 \/ s > n THEN 3 ELSE s

(* s5fs_begin accepts the volume, and s5fs_freelist starts. *)
Init ==
  /\ fsize \in {s \in Size : s >= MINFS}
  /\ isize \in 3 .. fsize - 1
  /\ fn \in {ClampN(n) : n \in OptN}
  /\ fm \in {ClampM(m, fn) : m \in OptM}
  /\ pc = "permute"
  /\ flg = [o \in Offset |-> FALSE] /\ adr = [o \in Offset |-> 0]
  /\ i = 0 /\ j = 0 /\ d = 0
  /\ times = [b \in 0 .. fsize - 1 |-> 0]

params == <<fsize, isize, fn, fm>>

-------------------------------------------------------------------------------
(* The offset at i is taken: try the next one.  (Slip: go on by the stride.) *)
SlipProbe ==
  /\ pc = "permute" /\ j < fn /\ flg[i]
  /\ i' = (i + fm) % fn
  /\ UNCHANGED <<params, pc, flg, adr, j, d, times>>
Probe ==
  /\ pc = "permute" /\ j < fn /\ flg[i]
  /\ i' = (i + 1) % fn
  /\ UNCHANGED <<params, pc, flg, adr, j, d, times>>

(* The offset at i is free: it is the j-th of the permutation.  (Slip: the
   stride is not wrapped.)                                                  *)
SlipPlace ==
  /\ pc = "permute" /\ j < fn /\ ~flg[i]
  /\ adr' = [adr EXCEPT ![j] = i + 1]
  /\ flg' = [flg EXCEPT ![i] = TRUE]
  /\ i' = i + fm
  /\ j' = j + 1
  /\ UNCHANGED <<params, pc, d, times>>
Place ==
  /\ pc = "permute" /\ j < fn /\ ~flg[i]
  /\ adr' = [adr EXCEPT ![j] = i + 1]
  /\ flg' = [flg EXCEPT ![i] = TRUE]
  /\ i' = (i + fm) % fn
  /\ j' = j + 1
  /\ UNCHANGED <<params, pc, d, times>>

(* d is fsize-1 rounded up to a multiple of n, one at a time. *)
Highest == fsize - 1 + ((-(fsize - 1)) % fn)
StartSweep ==
  /\ pc = "permute" /\ j = fn
  /\ pc' = "sweep"
  /\ d' = Highest
  /\ i' = 0
  /\ UNCHANGED <<params, flg, adr, j, times>>

(* The i-th block of the group below d, if it is a data block.  (Slip: the
   i-list's last block passes for one.)                                     *)
SlipIsData(f) == f < fsize /\ f >= isize - 1
IsData(f) == f < fsize /\ f >= isize
Sweep ==
  /\ pc = "sweep" /\ d > 0 /\ i < fn
  /\ LET f == d - adr[i] IN
       times' = IF IsData(f) THEN [times EXCEPT ![f] = @ + 1] ELSE times
  /\ i' = i + 1
  /\ UNCHANGED <<params, pc, flg, adr, j, d>>

(* On to the group below.  (Slip: a block is left out between groups.)      *)
SlipNextGroup ==
  /\ pc = "sweep" /\ d > 0 /\ i = fn
  /\ d' = d - fn - 1
  /\ i' = 0
  /\ UNCHANGED <<params, pc, flg, adr, j, times>>
NextGroup ==
  /\ pc = "sweep" /\ d > 0 /\ i = fn
  /\ d' = d - fn
  /\ i' = 0
  /\ UNCHANGED <<params, pc, flg, adr, j, times>>

Finish ==
  /\ pc = "sweep" /\ d <= 0
  /\ pc' = "done"
  /\ UNCHANGED <<params, flg, adr, i, j, d, times>>

Next == Probe \/ Place \/ StartSweep \/ Sweep \/ NextGroup \/ Finish

(* One thread that nothing holds up. *)
Spec == Init /\ [][Next]_vars /\ WF_vars(Next)

-------------------------------------------------------------------------------
(* Types; adr stays within a group. *)
TypeOK ==
  /\ fsize \in Nat /\ isize \in 3 .. fsize - 1
  /\ fn \in 1 .. MAXFN /\ fm \in Nat \ {0}
  /\ pc \in {"permute", "sweep", "done"}
  /\ flg \in [Offset -> BOOLEAN] /\ adr \in [Offset -> 0 .. fn]
  /\ i \in 0 .. fn /\ j \in 0 .. fn /\ d \in Nat
  /\ times \in [0 .. fsize - 1 -> Nat]

(* However stride and group size divide each other, no block goes on the list
   twice, and none of the boot block, superblock or i-list goes on it: what
   s5fs_bfree relies on, and never checks.                                  *)
AtMostOnce ==
  \A b \in 0 .. fsize - 1 : times[b] <= IF b \in DataBlock THEN 1 ELSE 0

(* When the list is built every data block is on it, but for the last block
   of a volume whose size is one more than a multiple of n: no group ends
   above it.                                                                *)
Coverage ==
  pc = "done" => \A b \in DataBlock :
    times[b] = 0 <=> b = fsize - 1 /\ (fsize - 1) % fn = 0

(* Both loops end: the probing always finds an offset that is left.         *)
Terminates == <>(pc = "done")

(* README.md: block accounting comes back clean on mkfs output.             *)
EveryBlockListed == pc = "done" => \A b \in DataBlock : times[b] = 1
===============================================================================
