--------------------------------- MODULE Report ---------------------------------
(***************************************************************************)
(* Commands that only read a volume and each go through it in a loop of    *)
(* their own: df and scavenge through the free list, ncheck and du through *)
(* the tree, quot through the inodes (cmd_analysis.c, cmd_scavenge.c).     *)
(***************************************************************************)
EXTENDS Volume

(* The chained free list as df and scavenge read it, at most limit blocks:
   which they met, and which of those chain the list.                       *)
ClampNfree(n) == IF n < 0 THEN 0 ELSE IF n > NICFREE THEN NICFREE ELSE n
Reload(s, b, chain) ==
  [s EXCEPT !.nfree = ClampNfree(chain.nfree), !.free = chain.free, !.chains = @ \cup {b}]
SlipMeet(v, s) ==                          \* the list ends with its first cache
  LET b == s.free[s.nfree - 1]
  IN IF s.nfree <= 0 \/ b \notin Block THEN s
     ELSE [s EXCEPT !.met = Append(@, b), !.nfree = @ - 1]
Meet(v, s) ==
  IF s.nfree <= 0 \/ s.free[s.nfree - 1] \notin Block THEN s
  ELSE LET b == s.free[s.nfree - 1]
           w == [s EXCEPT !.met = Append(@, b), !.nfree = @ - 1]
       IN IF w.nfree > 0 THEN w ELSE Reload(w, b, AsFree(v.blk[b]))
FreeListed(v, limit) ==
  FoldLeft(LAMBDA s, x : Meet(v, s),
           [nfree |-> ClampNfree(v.sb.nfree), free |-> v.sb.free, met |-> << >>, chains |-> {}],
           [x \in 1 .. limit |-> x])

(* df: the blocks free, and those used.                                      *)
DfFree(v) == Len(FreeListed(v, Cardinality(Block)).met)

(* scavenge: what no live file or directory uses, chain blocks aside, is
   scanned and carved.                                                      *)
InUse(v) == UNION {ToSet(BlocksOf(v, v.ino[i].addr)) :
                   i \in {j \in Ino : v.ino[j].mode \in {"file", "dir"}}}
Scavenged(v) == Block \ (InUse(v) \cup FreeListed(v, Cardinality(Block) + 1).chains)

-------------------------------------------------------------------------------
(* fsr_walk_enter: an inode is entered once in a walk, a file too.  The walk
   of ncheck and du: each inode met, with the path it was met under.  They
   read a directory as a file, up to its size.                              *)
SizedEntries(v, d) ==
  LET mapped == SlotsInSize(v, d)
  IN SelectSeq([x \in 1 .. v.ino[d].size |-> IF x - 1 \in mapped THEN EntryAt(v, d, x - 1)
                                             ELSE NoEntry],
               LAMBDA en : en.ino # 0)
SlipMayEnter(v, s, i) ==                   \* only directories can be in a cycle
  i \in Ino /\ (v.ino[i].mode # "dir" \/ i \notin s.seen)
MayEnter(v, s, i) == i \in Ino /\ i \notin s.seen
RECURSIVE Visit(_, _, _, _)
Visit(v, s, i, path) ==
  LET here == [s EXCEPT !.met = Append(@, [ino |-> i, path |-> path])]
  IN IF v.ino[i].mode # "dir" THEN here
     ELSE FoldLeft(LAMBDA q, en :
                     IF en.name \in {".", ".."} \/ ~MayEnter(v, q, en.ino) THEN q
                     ELSE Visit(v, [q EXCEPT !.seen = @ \cup {en.ino}], en.ino,
                                Append(path, en.name)),
                   here, SizedEntries(v, i))
Ncheck(v) == Visit(v, [seen |-> {}, met |-> << >>], ROOTINO, << >>).met

(* Blocks an inode's size reaches into, holes counted, indirect blocks not:
   du adds them up along its walk, quot over all files and directories.     *)
Blocks(rec) == IF rec.mode = "dir" THEN (rec.size + NDIR - 1) \div NDIR ELSE rec.size
Du(v) == FoldLeft(LAMBDA n, x : n + Blocks(v.ino[x.ino]), 0, Ncheck(v))
Quot(v) ==
  FoldSet(LAMBDA i, n : n + Blocks(v.ino[i]), 0,
          {i \in Ino : v.ino[i].mode \in {"file", "dir"}})
=================================================================================
