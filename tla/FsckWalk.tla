------------------------------- MODULE FsckWalk -------------------------------
(***************************************************************************)
(* Phase 2 and 3 of fsck_run (cmd_fsck.c): walk the chained free list of   *)
(* an image from its superblock, then compare it with the blocks in use.   *)
(* A pure reader of the disk, written apart from the allocator it checks.  *)
(***************************************************************************)
EXTENDS Integers, FiniteSets, SequencesExt

CONSTANTS NICFREE, Block

ClampNfree(n) == IF n < 0 THEN 0 ELSE IF n > NICFREE THEN NICFREE ELSE n

(* One turn of the loop of phase 2.  nfree and free are the walker's copy of
   the cache, seen the blocks flagged 0x80 so far, errs the diagnostics
   printed, each of which counts as an error.                               *)
Ended(w, errs)   == [w EXCEPT !.done = TRUE, !.errs = @ \cup errs]
Popped(w, errs)  == [w EXCEPT !.nfree = @ - 1, !.errs = @ \cup errs]
Reloaded(w, blk) == [w EXCEPT !.nfree = ClampNfree(blk.nfree), !.free = blk.free]
Flagged(disk, w, bno) ==
  [IF w.nfree = 0 THEN Reloaded(w, disk[bno]) ELSE w EXCEPT !.seen = @ \cup {bno}]

Turn(disk, used, w) ==
  LET bno == w.free[w.nfree - 1]
      clash == IF bno \in used THEN {"free and used"} ELSE {}
  IN IF w.done THEN w
     ELSE IF w.nfree <= 0 THEN Ended(w, {"underflow"})
     ELSE IF bno = 0 THEN Ended(w, {})
     ELSE IF bno \notin Block THEN Popped(w, {"range"})
     ELSE IF bno \in w.seen THEN Ended(w, clash \cup {"loop"})
     ELSE Flagged(disk, Popped(w, clash), bno)

(* Every turn but the last pops an entry of a cache, and a cache is loaded
   once for each block at most: this many turns reach the end.              *)
Turns == (Cardinality(Block) + 1) * NICFREE + 1

Walk(disk, used, sb) ==
  FoldLeft(LAMBDA w, x : Turn(disk, used, w),
           [nfree |-> ClampNfree(sb.nfree), free |-> sb.free,
            seen |-> {}, errs |-> {}, done |-> FALSE],
           [x \in 1 .. Turns |-> x])

(* Phase 3: every data block is in use or free, and not both.               *)
FsckBlocks(disk, sb, used) ==
  LET walk == Walk(disk, used, sb)
      both == walk.seen \cap used
      missing == Block \ (walk.seen \cup used)
  IN walk.errs
       \cup (IF both # {} THEN {"both"} ELSE {})
       \cup (IF missing # {} THEN {"missing"} ELSE {})
===============================================================================
