-------------------------------- MODULE DumpTape --------------------------------
(***************************************************************************)
(* s5fs dump and restore of a whole volume (cmd_dump.c, cmd_restore.c).    *)
(***************************************************************************)
EXTENDS Builder, Report, Tape

CONSTANTS NTREC      \* copies of the record that ends a tape

(* dump_inode, and indir for the one level there is.  A header says which
   inode it is of; a device has nothing behind it.                          *)
Contents(v, i) ==
  LET rec == v.ino[i]
      addrs == [s \in 1 .. LADDR |-> rec.addr[s - 1]]
      ind == [x \in 1 .. NINDIR |-> AsInd(v.blk[rec.addr[LADDR]])[x - 1]]
  IN Mapped("inode", i, rec, addrs, v.blk)
       \o IF rec.addr[LADDR] = 0 THEN << >> ELSE Mapped("addr", i, rec, ind, v.blk)
DumpInode(v, i) ==
  IF v.ino[i].mode = "none" THEN << >>
  ELSE IF v.ino[i].mode \in {"dir", "file"} THEN Contents(v, i)
  ELSE <<HeaderRec("inode", i, v.ino[i], << >>)>>

(* write_map: one block suffices.                                            *)
WriteMap(t, inos) == <<HeaderRec(t, 0, << >>, <<FALSE>>), DataRec(inos)>>

(* dump.  The bad-block inode is left out.                                   *)
Dumped(v) ==
  LET inos == Allocated(v) \ {BADBLKINO}
      maxino == CHOOSE i \in inos : \A j \in inos : j <= i
  IN <<HeaderRec("tape", maxino, << >>, << >>)>> \o WriteMap("clri", inos) \o WriteMap("bits", inos)
     \o FlattenSeq([x \in 1 .. maxino - ROOTINO + 1 |-> DumpInode(v, ROOTINO + x - 1)])
     \o [x \in 1 .. NTREC |-> HeaderRec("end", maxino, << >>, << >>)]

-------------------------------------------------------------------------------
(* restore, second pass.  The blocks are stored as they come off the tape; an
   address never assigned is junk.                                          *)
PutBlock(r, rec, junk) ==
  IF rec.k = "data" THEN StoreBlock(r, rec.c, Alloc(r.v))
  ELSE [r EXCEPT !.da = Append(@, IF rec = Hole THEN 0 ELSE junk)]
PutBlocks(v, da, junk) ==
  FoldLeft(LAMBDA r, rec : PutBlock(r, rec, junk), [v |-> v, da |-> << >>], da)
RestoreInode(v, hdr, da, junk) ==
  LET rec == hdr.body
      r == PutBlocks(v, da, junk)
  IN IF rec.mode = "dev" THEN WriteInode(r.v, hdr.inum, Rec("dev", rec.nlink, 0, NoAddr))
     ELSE Laid(hdr.inum, rec.mode, rec.nlink, rec.size, r)

RECURSIVE RestoreOn(_, _, _, _, _)
Next1(v, tape, force, junk, q, hdr) ==
  LET w == RestoreInode(v, hdr, q.da, junk)
  IN IF q.r.ok THEN RestoreOn(w, tape, force, junk, q.r) ELSE w
Skipped(v, tape, force, junk, r) == IF r.ok THEN RestoreOn(v, tape, force, junk, r) ELSE v
RestoreOn(v, tape, force, junk, r) ==
  IF r.hdr.t = "end" \/ v.error THEN v
  ELSE IF r.hdr.t # "inode" THEN Skipped(v, tape, force, junk, SkipMap(tape, r, force))
  ELSE Next1(v, tape, force, junk, ReadBlocks(tape, r, Blocks(r.hdr.body), force), r.hdr)

(* The first pass looks for an inode, to size the i-list: without one nothing
   is made.                                                                 *)
RECURSIVE FindsInode(_, _, _)
FindsInode(tape, force, r) ==
  /\ r.ok /\ r.hdr.t # "end"
  /\ r.hdr.t = "inode" \/ FindsInode(tape, force, SkipMap(tape, r, force))
Restored(v, tape, force, order, junk) ==
  LET first == Gethead(tape, 1, force)
  IN IF ~FindsInode(tape, force, first) THEN v
     ELSE Sync(RestoreOn(Begun(order), tape, force, junk, first))
=================================================================================
