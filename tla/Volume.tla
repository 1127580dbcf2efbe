-------------------------------- MODULE Volume --------------------------------
(***************************************************************************)
(* An s5fs volume as its handle sees it, and the primitives every writer   *)
(* is built from: the allocator over the superblock (s5fs_core.c), block   *)
(* maps, directory blocks and inode records (s5fs_rw.c, fsread.c).         *)
(*                                                                         *)
(* v is a record: the inode table and the data blocks on disk, the on-disk *)
(* superblock sb, and the handle's own copy of it (nfree, free, tfree,     *)
(* tinode) with its sticky error flag.  A primitive maps v to v.  The block*)
(* writes of a call can be recorded in log, in their order.  Sizes count a *)
(* directory's entries, or the blocks of what is no directory; attributes, *)
(* times and the bytes of a file are left out: a data block records whose  *)
(* it is.                                                                  *)
(***************************************************************************)
EXTENDS Integers, Sequences, FiniteSets, SequencesExt

(* Each definition named "Slip" is a mistake one could make in the one that
   follows it, kept to show that the properties notice.                     *)

CONSTANTS
  NINO,        \* inodes on the volume, numbered from 1
  INOPB,       \* inodes per i-list block
  NDIR,        \* entries per directory block
  LADDR,       \* direct addresses of an inode (one indirect follows them)
  NINDIR,      \* addresses per indirect block
  NICFREE,     \* entries of the superblock's free-block cache
  Block,       \* data blocks; 0 and Stray are none of them
  Ghost,       \* the inode number in bytes that are no directory entry
  Name         \* names a directory entry may carry

Ino   == 1 .. NINO
ROOTINO == 2
BADBLKINO == 1

ASSUME VolumeAssumption ==
  /\ NINO \in Nat /\ NINO >= 3
  /\ INOPB \in Nat \ {0}
  /\ NDIR \in Nat /\ NDIR >= 3
  /\ LADDR \in Nat \ {0}
  /\ NINDIR \in Nat \ {0}
  /\ NICFREE \in Nat \ {0}
  /\ 0 \notin Block /\ -1 \notin Block /\ IsFiniteSet(Block)
  /\ Ghost \in Nat
  /\ {"", ".", ".."} \cap Name = {}

-------------------------------------------------------------------------------
(* What a block holds depends on who wrote it last.  Reading it as something
   else gives the bytes that happen to be there: zeros, or garbage.         *)
Zero        == [k |-> "zero"]
DirBlk(e)   == [k |-> "dir", e |-> e]
IndBlk(p)   == [k |-> "ind", p |-> p]
FreeBlk(n, f) == [k |-> "free", nfree |-> n, free |-> f]
Data(i, l)  == [k |-> "data", ino |-> i, lbn |-> l]

NoEntry  == [ino |-> 0, name |-> ""]
Garbage  == [ino |-> Ghost, name |-> "?"]
NoCache  == [i \in 0 .. NICFREE - 1 |-> 0]
Stray    == -1           \* an address outside the data region

AsDir(c) == IF c.k = "dir" THEN c.e
            ELSE [s \in 0 .. NDIR - 1 |-> IF c.k = "zero" THEN NoEntry ELSE Garbage]
AsInd(c) == IF c.k = "ind" THEN c.p
            ELSE [i \in 0 .. NINDIR - 1 |-> IF c.k = "zero" THEN 0 ELSE Stray]
AsFree(c) == IF c.k = "free" THEN c ELSE FreeBlk(0, NoCache)

NoAddr  == [s \in 0 .. LADDR |-> 0]
FreeIno == [mode |-> "none", nlink |-> 0, size |-> 0, addr |-> NoAddr]

-------------------------------------------------------------------------------
(* s5fs_wtblk and the read-modify-write of an i-list block: nothing reaches
   the disk once the handle has failed.                                     *)
Silent == [on |-> FALSE, w |-> << >>]
Noted(log, write) == IF log.on THEN [log EXCEPT !.w = Append(@, write)] ELSE log
SetBlk(v, b, c) ==
  IF v.error THEN v
  ELSE [v EXCEPT !.blk[b] = c, !.log = Noted(@, [k |-> "blk", b |-> b, c |-> c])]
SetIno(v, i, r) ==
  IF v.error THEN v
  ELSE [v EXCEPT !.ino[i] = r, !.log = Noted(@, [k |-> "ino", i |-> i, r |-> r])]

(* The inodes that share i's i-list block (rw_ino_loc).                      *)
IlistBlock(i) == {j \in Ino : (j - 1) \div INOPB = (i - 1) \div INOPB}

(* Write back the whole i-list block of inode i from a copy of the table.   *)
SetIlistBlock(v, i, table) ==
  IF v.error THEN v
  ELSE [v EXCEPT !.ino = [j \in Ino |-> IF j \in IlistBlock(i) THEN table[j] ELSE @[j]],
                 !.log = Noted(@, [k |-> "ilist", i |-> i, r |-> table])]

(* s5fs_alloc.  The terminator, or a cache left empty by a chain block that
   is none, fails the handle.  What later calls do to the memory of a failed
   handle is left out: none of it reaches the disk.                         *)
SlipAlloc(v) ==           \* the terminator is looked for behind the block
  IF v.error \/ v.nfree = 0 THEN [v |-> [v EXCEPT !.error = TRUE], b |-> 0]
  ELSE LET b == v.free[v.nfree - 1]
           chain == IF b = 0 THEN AsFree([k |-> "zero"]) ELSE AsFree(v.blk[b])
           w == [v EXCEPT !.nfree = @ - 1, !.tfree = @ - 1]
       IN IF w.nfree > 0 THEN [v |-> w, b |-> b]
          ELSE IF chain.free[0] = 0 THEN [v |-> [w EXCEPT !.error = TRUE], b |-> 0]
          ELSE [v |-> [w EXCEPT !.nfree = chain.nfree, !.free = chain.free], b |-> b]
Alloc(v) ==
  IF v.error \/ v.nfree = 0 THEN [v |-> [v EXCEPT !.error = TRUE], b |-> 0]
  ELSE LET b == v.free[v.nfree - 1]
           w == [v EXCEPT !.nfree = @ - 1, !.tfree = @ - 1]
           chain == AsFree(v.blk[b])
       IN IF b = 0 THEN [v |-> [w EXCEPT !.error = TRUE], b |-> 0]
          ELSE IF w.nfree > 0 THEN [v |-> w, b |-> b]
          ELSE [v |-> [w EXCEPT !.nfree = chain.nfree, !.free = chain.free], b |-> b]

(* s5fs_bfree of a real block, or of 0 to terminate a new list.             *)
SlipBfree(v, b) ==        \* the terminator is counted
  LET full == v.nfree >= NICFREE
      w == IF full THEN [SetBlk(v, b, FreeBlk(v.nfree, v.free)) EXCEPT !.nfree = 0] ELSE v
  IN [w EXCEPT !.free[w.nfree] = b, !.nfree = @ + 1, !.tfree = @ + 1]
Bfree(v, b) ==
  LET full == v.nfree >= NICFREE
      w == IF full THEN [SetBlk(v, b, FreeBlk(v.nfree, v.free)) EXCEPT !.nfree = 0] ELSE v
  IN [w EXCEPT !.free[w.nfree] = b, !.nfree = @ + 1,
               !.tfree = IF b = 0 THEN @ ELSE @ + 1]

(* s5fs_finish.                                                              *)
Sync(v) ==
  IF v.error THEN v
  ELSE LET sb == [nfree |-> v.nfree, free |-> v.free,
                  tfree |-> v.tfree, tinode |-> v.tinode]
       IN [v EXCEPT !.sb = sb, !.log = Noted(@, [k |-> "sb", r |-> sb])]

(* s5fs_mount: what a new process makes of the disk.                        *)
Mount(v) ==
  [v EXCEPT !.nfree = v.sb.nfree, !.free = v.sb.free, !.tfree = v.sb.tfree,
            !.tinode = v.sb.tinode, !.error = FALSE, !.log = Silent]

-------------------------------------------------------------------------------
(* fsr_lbn_route and bmap, with one level of indirection; 0 is a hole.      *)
Mappable(lbn) == lbn < LADDR + NINDIR

Bmap(v, addr, lbn) ==
  IF lbn < LADDR THEN addr[lbn]
  ELSE IF ~Mappable(lbn) \/ addr[LADDR] = 0 THEN 0
  ELSE AsInd(v.blk[addr[LADDR]])[lbn - LADDR]

(* rw_bmap with alloc set: the block behind lbn, allocating it and the
   indirect block it needs.  Only an indirect block is cleared.  a and i are
   answers of Alloc, entered in the inode or in the indirect block i.b.      *)
InInode(addr, s, a) == [v |-> a.v, addr |-> [addr EXCEPT ![s] = a.b], b |-> a.b]
InIndirect(addr, i, x, a) ==
  [v |-> SetBlk(a.v, i.b, IndBlk([AsInd(i.v.blk[i.b]) EXCEPT ![x] = a.b])),
   addr |-> [addr EXCEPT ![LADDR] = i.b],
   b |-> a.b]
Cleared(i) ==
  [i EXCEPT !.v = SetBlk(i.v, i.b, IndBlk([x \in 0 .. NINDIR - 1 |-> 0]))]
Indirect(v, addr) ==
  IF addr[LADDR] # 0 THEN [v |-> v, b |-> addr[LADDR]] ELSE Cleared(Alloc(v))
ThroughIndirect(addr, x, i) == InIndirect(addr, i, x, Alloc(i.v))

BmapAlloc(v, addr, lbn) ==
  LET old == Bmap(v, addr, lbn)
  IN IF ~Mappable(lbn) \/ old # 0 THEN [v |-> v, addr |-> addr, b |-> old]
     ELSE IF lbn < LADDR THEN InInode(addr, lbn, Alloc(v))
     ELSE ThroughIndirect(addr, lbn - LADDR, Indirect(v, addr))

(* bfree_at: free the block behind lbn, if any, and clear its address.      *)
SlipBfreeAt(r, lbn) ==    \* the address stays
  LET b == Bmap(r.v, r.addr, lbn)
  IN IF b = 0 THEN r ELSE [r EXCEPT !.v = Bfree(r.v, b)]
BfreeAt(r, lbn) ==
  LET b == Bmap(r.v, r.addr, lbn)
      w == Bfree(r.v, b)
      i == r.addr[LADDR]
  IN IF b = 0 THEN r
     ELSE IF lbn < LADDR THEN [v |-> w, addr |-> [r.addr EXCEPT ![lbn] = 0]]
     ELSE [r EXCEPT !.v =
             SetBlk(w, i, IndBlk([AsInd(r.v.blk[i]) EXCEPT ![lbn - LADDR] = 0]))]

(* ifree_blocks and ind_free: every address of an inode, in the code's order,
   the indirect block after the blocks it lists; the zeros among them are
   passed over.                                                             *)
SlipAddrsOf(v, addr) ==   \* the indirect block itself is forgotten
  [x \in 1 .. LADDR + NINDIR + 1 |-> IF x <= LADDR + NINDIR THEN Bmap(v, addr, x - 1) ELSE 0]
AddrsOf(v, addr) ==
  [x \in 1 .. LADDR + NINDIR + 1 |->
     IF x <= LADDR + NINDIR THEN Bmap(v, addr, x - 1) ELSE addr[LADDR]]
BlocksOf(v, addr) == SelectSeq(AddrsOf(v, addr), LAMBDA b : b # 0)

BfreeAny(v, b) == IF b = 0 THEN v ELSE Bfree(v, b)
IfreeBlocks(v, addr) == FoldLeft(BfreeAny, v, AddrsOf(v, addr))

-------------------------------------------------------------------------------
(* Reading directories.  fsr_readdir hands over every nonzero entry of every
   mapped block the size reaches into; rw's own scans stop at the size.     *)
DirAddrs(v, d) ==
  [x \in 1 .. (v.ino[d].size + NDIR - 1) \div NDIR |-> Bmap(v, v.ino[d].addr, x - 1)]

SlotOf(v, b, s) == IF b = 0 THEN NoEntry ELSE AsDir(v.blk[b])[s]
SlotsOf(v, addrs) ==
  [x \in 1 .. Len(addrs) * NDIR |->
     SlotOf(v, addrs[(x - 1) \div NDIR + 1], (x - 1) % NDIR)]
Scan(v, d) == IF v.ino[d].mode # "dir" THEN << >> ELSE SlotsOf(v, DirAddrs(v, d))
Entries(v, d) == SelectSeq(Scan(v, d), LAMBDA en : en.ino # 0)

(* The slots a size reaches over: d need not be a directory.                *)
Room(rec) == IF rec.mode = "dir" THEN rec.size ELSE rec.size * NDIR

At(v, d, s) == [b |-> Bmap(v, v.ino[d].addr, s \div NDIR), e |-> s % NDIR]
EntryAt(v, d, s) == AsDir(v.blk[At(v, d, s).b])[At(v, d, s).e]
SlotsInSize(v, d) == {s \in 0 .. Room(v.ino[d]) - 1 : At(v, d, s).b # 0}

(* One component of fsr_namei: the first entry of that name, or 0.          *)
FirstNamed(scan, name) == SelectInSeq(scan, LAMBDA en : en.ino # 0 /\ en.name = name)
InoAt(scan, x) == IF x = 0 THEN 0 ELSE scan[x].ino
Lookup(v, d, name) ==
  IF name = "" THEN d
  ELSE LET scan == Scan(v, d) IN InoAt(scan, FirstNamed(scan, name))

(* nonempty_cb.                                                              *)
NonEmpty(v, d) ==
  LET scan == Scan(v, d)
  IN \E x \in DOMAIN scan : scan[x].ino # 0 /\ scan[x].name \notin {".", ".."}
===============================================================================
