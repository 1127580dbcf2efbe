------------------------------- MODULE BlockMap -------------------------------
(***************************************************************************)
(* The blocks of one file at all four levels: laid down by a builder       *)
(* (s5fs_setblocks), grown and cut by the engine (rw_bmap, rw_truncate,    *)
(* ifree_blocks), read by the readers' bmap.  RWEngine has one level and   *)
(* many files.                                                             *)
(***************************************************************************)
EXTENDS BlockRoute, Sequences, FiniteSets, SequencesExt

CONSTANTS NBLOCKS,      \* data blocks, numbered from 1
          MaxCalls      \* bound on the calls of a behaviour

Block == 1 .. NBLOCKS

ASSUME MapAssumption == NBLOCKS \in Nat \ {0} /\ MaxCalls \in Nat

VARIABLES addr,         \* the inode's addresses, on disk
          blk,          \* what each block reads as when taken for an indirect one
          pool,         \* the free list: last in, first out
          error,        \* the handle's sticky error
          calls         \* calls made so far
vars == <<addr, blk, pool, error, calls>>

-------------------------------------------------------------------------------
(* The operations below work on v, a record of the first four variables.    *)

NoAddr == [s \in 0 .. LADDR + 2 |-> 0]
Zeros  == [e \in 0 .. NINDIR - 1 |-> 0]

(* A block on the free list, or holding file data, may read as anything: here
   as addresses of a block that is in use or soon will be.                  *)
Junk == [e \in 0 .. NINDIR - 1 |-> 1]

(* s5fs_wtblk, s5fs_alloc, s5fs_bfree.  A block given back may be overwritten
   at once, by a spill.                                                     *)
SetBlk(v, b, c) == IF v.error THEN v ELSE [v EXCEPT !.blk[b] = c]
Alloc(v) ==
  IF v.error \/ v.pool = << >> THEN [v |-> [v EXCEPT !.error = TRUE], b |-> 0]
  ELSE [v |-> [v EXCEPT !.pool = Tail(@)], b |-> Head(v.pool)]
Bfree(v, b) == [v EXCEPT !.pool = <<b>> \o @, !.blk[b] = Junk]

(* The readers' bmap, down from a block b of level L; 0 is a hole.           *)
RECURSIVE Follow(_, _, _, _)
Follow(v, b, idx, L) ==
  IF L = 0 \/ b = 0 THEN b ELSE Follow(v, v.blk[b][IndIndex(idx, L)], idx, L - 1)
Bmap(v, lbn) ==
  LET r == Route(lbn)
  IN IF r.level = -1 THEN 0 ELSE Follow(v, v.addr[r.slot], r.idx, r.level)

-------------------------------------------------------------------------------
(* The engine.                                                              *)

(* A block cleared to be an indirect one; a block linked below block b.     *)
NewInd(v) == LET a == Alloc(v) IN [a EXCEPT !.v = SetBlk(a.v, a.b, Zeros)]
Link(a, b, e) == [a EXCEPT !.v = SetBlk(a.v, b, [a.v.blk[b] EXCEPT ![e] = a.b])]

(* ind_map with alloc set: down from block b of level L, adding what is not
   there, to the entry of idx in a block of level 1.                        *)
RECURSIVE IndMap(_, _, _, _)
IndMap(v, b, idx, L) ==
  LET e == Entry(idx, L)
      child == v.blk[b][e]
      a == IF child # 0 THEN [v |-> v, b |-> child]
           ELSE Link(IF L = 1 THEN Alloc(v) ELSE NewInd(v), b, e)
  IN IF v.error THEN v
     ELSE IF L = 1 THEN a.v
     ELSE IndMap(a.v, a.b, Below(idx, L), L - 1)

(* rw_bmap with alloc set.  The inode is written after it, by the caller.    *)
RwBmap(v, lbn) ==
  LET r == Route(lbn)
      top == v.addr[r.slot]
      a == IF top # 0 THEN [v |-> v, b |-> top]
           ELSE IF r.level = 0 THEN Alloc(v) ELSE NewInd(v)
      w == [a.v EXCEPT !.addr[r.slot] = a.b]
  IN IF r.level = -1 THEN v
     ELSE IF r.level = 0 THEN w ELSE IndMap(w, a.b, r.idx, r.level)

(* bfree_at: descend as far as there are blocks, free the one at the end.    *)
RECURSIVE BfreeBelow(_, _, _, _)
BfreeBelow(v, b, idx, L) ==
  LET e == Entry(idx, L)
      next == v.blk[b][e]
  IN IF b = 0 THEN v
     ELSE IF L > 1 THEN BfreeBelow(v, next, Below(idx, L), L - 1)
     ELSE IF next = 0 THEN v
     ELSE SetBlk(Bfree(v, next), b, [v.blk[b] EXCEPT ![e] = 0])
BfreeAt(v, lbn) ==
  LET r == Route(lbn)
      b == v.addr[r.slot]
  IN IF r.level = -1 THEN v
     ELSE IF r.level > 0 THEN BfreeBelow(v, b, r.idx, r.level)
     ELSE IF b = 0 THEN v
     ELSE [Bfree(v, b) EXCEPT !.addr[r.slot] = 0]

(* ind_free: the block is read once, then what it lists is freed, then it.   *)
RECURSIVE IndFree(_, _, _)
SlipIndFree(v, b, L) ==          \* lower indirect blocks are taken for data
  LET listed == [e \in 1 .. NINDIR |-> v.blk[b][e - 1]]
      step(w, c) == IF c = 0 THEN w ELSE Bfree(w, c)
  IN IF b = 0 THEN v ELSE Bfree(FoldLeft(step, v, listed), b)
IndFree(v, b, L) ==
  LET listed == [e \in 1 .. NINDIR |-> v.blk[b][e - 1]]
      step(w, c) == IF c = 0 THEN w
                    ELSE IF L = 1 THEN Bfree(w, c) ELSE IndFree(w, c, L - 1)
  IN IF b = 0 THEN v ELSE Bfree(FoldLeft(step, v, listed), b)

(* ifree_blocks, and the inode cleared.                                      *)
IfreeBlocks(v) ==
  LET direct(w, s) == IF v.addr[s - 1] = 0 THEN w ELSE Bfree(w, v.addr[s - 1])
      below(w, L) == IndFree(w, v.addr[LADDR - 1 + L], L)
      w == FoldLeft(below, FoldLeft(direct, v, [s \in 1 .. LADDR |-> s]), <<1, 2, 3>>)
  IN [w EXCEPT !.addr = NoAddr]

-------------------------------------------------------------------------------
(* The builders.                                                            *)

(* s5fs_build_ind: a tree of level L over da, its top allocated before what
   is below it and written after.                                           *)
RECURSIVE BuildInd(_, _, _)
BuildInd(v, da, L) ==
  LET a == Alloc(v)
      part(e) == SubSeq(da, (e - 1) * Per(L) + 1,
                        IF e * Per(L) < Len(da) THEN e * Per(L) ELSE Len(da))
      step(c, e) ==
        IF (e - 1) * Per(L) >= Len(da) THEN c
        ELSE LET sub == BuildInd(c.v, part(e), L - 1)
             IN IF L = 1 THEN [c EXCEPT !.blk[e - 1] = da[e]]
                ELSE [v |-> sub.v, blk |-> [c.blk EXCEPT ![e - 1] = sub.b]]
      all == FoldLeft(step, [v |-> a.v, blk |-> Zeros], [e \in 1 .. NINDIR |-> e])
  IN [v |-> SetBlk(all.v, a.b, all.blk), b |-> a.b]

(* s5fs_setblocks: the direct addresses, then a tree per level while blocks
   are left.                                                                *)
SetBlocks(v, da) ==
  LET n == Len(da)
      direct == [v EXCEPT !.addr = [s \in 0 .. LADDR + 2 |->
                                      IF s < LADDR /\ s < n THEN da[s + 1] ELSE 0]]
      part(L) == SubSeq(da, Start(L) + 1,
                        IF n < Start(L) + Cap(L) THEN n ELSE Start(L) + Cap(L))
      level(w, L) ==
        IF n <= Start(L) THEN w
        ELSE LET t == BuildInd(w, part(L), L)
             IN [t.v EXCEPT !.addr[LADDR - 1 + L] = t.b]
      done == FoldLeft(level, direct, <<1, 2, 3>>)
  IN IF n > Reach THEN [done EXCEPT !.error = TRUE] ELSE done

(* write_reg and its like: the n blocks of data first, then their map.       *)
Built(v, n) ==
  LET step(c, x) == LET a == Alloc(c.v) IN [v |-> a.v, da |-> Append(c.da, a.b)]
      data == FoldLeft(step, [v |-> v, da |-> << >>], [x \in 1 .. n |-> x])
  IN SetBlocks(data.v, data.da)

-------------------------------------------------------------------------------
Now == [addr |-> addr, blk |-> blk, pool |-> pool, error |-> error]

(* The caller writes the inode at the end: not at all if the handle failed.  *)
Becomes(v) ==
  /\ addr' = IF v.error THEN addr ELSE v.addr
  /\ blk' = v.blk /\ pool' = v.pool /\ error' = v.error

Empty == [addr |-> NoAddr, blk |-> [b \in Block |-> Junk],
          pool |-> [x \in 1 .. NBLOCKS |-> x], error |-> FALSE]

Init ==
  /\ \E n \in 0 .. Reach :
       LET v == Built(Empty, n)
       IN /\ addr = (IF v.error THEN NoAddr ELSE v.addr)
          /\ blk = v.blk /\ pool = v.pool /\ error = v.error
  /\ calls = 0

(* One block written at lbn.                                                 *)
Extend(lbn) == Becomes(RwBmap(Now, lbn))

(* rw_truncate to len blocks.  Its loop stops at the old end of the file, and
   past that there is nothing to free.                                      *)
Truncate(len) ==
  Becomes(FoldLeft(BfreeAt, Now, [x \in 1 .. Reach - len |-> len + x - 1]))

(* The last unlink.                                                          *)
Release == Becomes(IfreeBlocks(Now))

Next ==
  /\ ~error /\ calls < MaxCalls /\ calls' = calls + 1
  /\ \/ \E lbn \in 0 .. Reach : Extend(lbn)
     \/ \E len \in 0 .. Reach : Truncate(len)
     \/ Release

Spec == Init /\ [][Next]_vars

-------------------------------------------------------------------------------
(* fsck's mark and mark_indirect: every block the inode leads to, as often as
   it does.                                                                 *)
RECURSIVE MarkIndirect(_, _)
MarkIndirect(b, L) ==
  LET listed == [e \in 1 .. NINDIR |-> blk[b][e - 1]]
      step(q, c) == q \o (IF L = 1 THEN <<c>> ELSE MarkIndirect(c, L - 1))
  IN IF b = 0 THEN << >> ELSE FoldLeft(step, <<b>>, listed)
Marks ==
  LET level(q, L) == q \o MarkIndirect(addr[LADDR - 1 + L], L)
  IN SelectSeq(FoldLeft(level, [s \in 1 .. LADDR |-> addr[s - 1]], <<1, 2, 3>>),
               LAMBDA b : b # 0)

(* Whatever is written, cut or removed, no block is lost and none is in two
   places: those fsck reaches from the inode, indirect ones included, and the
   free ones are all of them, each once (cmd_fsck.c counts both sides).      *)
EachBlockOnce ==
  ~error => /\ Len(Marks \o pool) = NBLOCKS
            /\ ToSet(Marks \o pool) = Block

(* The readers see exactly what the engine and the builders put there: the
   header pdp11fs.h calls them exact inverses, and fsck cannot tell.         *)
Map == INSTANCE FileMap WITH
         Pos <- 0 .. Reach - 1, Blk <- Block, MaxLen <- Reach,
         map <- [l \in 0 .. Reach - 1 |-> Bmap(Now, l)], failed <- error
ReadersSeeTheMap == Map!FmSpec
===============================================================================
