------------------------------- MODULE RWEngine -------------------------------
(***************************************************************************)
(* The mutation engine, s5fs_rw.c: directories, links and file contents of *)
(* a mounted volume, one action per operation.  An operation runs to its   *)
(* end before the next begins (one thread, and fuse is run with -s), so an *)
(* action is a whole call; within it the block writes happen in the code's *)
(* order, and stop at the first failure.  A call that refuses its argument *)
(* changes nothing and is no step.                                         *)
(***************************************************************************)
EXTENDS Fsck

CONSTANTS
  LostFound,   \* the name mkfs gives inode 3
  ParentKinds, \* what the leading components of a path may lead to
  Leaves,      \* last path components callers pass, "" for a trailing slash
  MaxFile,     \* blocks of the largest file put
  PUTBUF       \* blocks moved per read of a put (65536 bytes)

ASSUME EngineAssumption ==
  /\ LostFound \in Name
  /\ {"dir"} \subseteq ParentKinds /\ ParentKinds \subseteq {"dir", "file", "none"}
  /\ Leaves \subseteq Name \cup {"", ".", ".."}
  /\ MaxFile \in Nat /\ PUTBUF \in Nat \ {0}

VARIABLE fs
vars == <<fs>>

-------------------------------------------------------------------------------
(* What parent_of yields is the end of some path, and neither it nor fsr_namei
   asks what that is.  Under the mount the kernel resolved the path, so it is a
   directory; the commands hand over any, that of a file among them.  A free
   inode ends a path only where bytes were read that are no entries.        *)
NamedFrom(v, S) ==
  S \cup (Ino \cap {en.ino : en \in UNION {ToSet(Entries(v, d)) : d \in S}})
PathEnds(v) == FoldLeft(LAMBDA S, x : NamedFrom(v, S), {ROOTINO}, [x \in Ino |-> x])
Parents(v) == {i \in PathEnds(v) : v.ino[i].mode \in ParentKinds}

(* is_ancestor: climb ".." from d, at most once per inode, looking for anc. *)
SlipIsAncestor(v, anc, d) == anc = d      \* does not climb
IsAncestor(v, anc, d) ==
  LET climb(c, x) == IF c.done THEN c
                     ELSE IF c.at = anc THEN [done |-> TRUE, yes |-> TRUE, at |-> c.at]
                     ELSE LET up == Lookup(v, c.at, "..") IN
                       IF c.at = ROOTINO \/ up \in {0, c.at} \/ up \notin Ino
                       THEN [done |-> TRUE, yes |-> FALSE, at |-> c.at]
                       ELSE [c EXCEPT !.at = up]
      end == FoldLeft(climb, [done |-> FALSE, yes |-> FALSE, at |-> d],
                      [x \in 1 .. NINO + 1 |-> x])
  IN ~end.done \/ end.yes

-------------------------------------------------------------------------------
(* Writing directories, or what a caller takes for one.                     *)
SlipPutEntry(v, b, e, en) ==              \* the block is not read before
  SetBlk(v, b, DirBlk([s \in 0 .. NDIR - 1 |-> IF s = e THEN en ELSE NoEntry]))
PutEntry(v, b, e, en) == SetBlk(v, b, DirBlk([AsDir(v.blk[b]) EXCEPT ![e] = en]))
PutSlot(v, d, s, en) == PutEntry(v, At(v, d, s).b, s % NDIR, en)

(* dir_add: the first free slot within the size, else one past the end, in a
   block m that is allocated for it if need be.  Nothing asks whether d is a
   directory: into what is none the entry goes over 16 bytes of data whose
   first two are zero, or into a block more.                                *)
FreeSlots(v, d) == {s \in SlotsInSize(v, d) : EntryAt(v, d, s).ino = 0}
Empty == [s \in 0 .. NDIR - 1 |-> NoEntry]
PutPastEnd(rec, m, en) ==
  IF rec.mode = "dir" THEN PutEntry(m.v, m.b, rec.size % NDIR, en)
  ELSE SetBlk(m.v, m.b, DirBlk([Empty EXCEPT ![0] = en]))
NextLbn(rec) == Room(rec) \div NDIR
AppendEntry(d, rec, en, m) ==
  IF m.b = 0 THEN [v |-> m.v, ok |-> FALSE]
  ELSE [v |-> SetIno(PutPastEnd(rec, m, en), d,
                     [rec EXCEPT !.size = @ + 1, !.addr = m.addr]),
        ok |-> TRUE]
DirAdd(v, d, name, i) ==
  LET rec  == v.ino[d]
      en   == [ino |-> i, name |-> name]
      free == FreeSlots(v, d)
  IN IF v.error THEN [v |-> v, ok |-> FALSE]
     ELSE IF free # {} THEN [v |-> PutSlot(v, d, Min(free), en), ok |-> TRUE]
     ELSE AppendEntry(d, rec, en, BmapAlloc(v, rec.addr, NextLbn(rec)))

(* dir_remove: zero the first entry of that name within the size, if any.  The
   code leaves the name behind, which nothing reads without its number.     *)
HasEntry(v, d, s, name) == EntryAt(v, d, s).ino # 0 /\ EntryAt(v, d, s).name = name
SlotsNamed(v, d, name) == {s \in SlotsInSize(v, d) : HasEntry(v, d, s, name)}
DirRemove(v, d, name) ==
  LET slots == SlotsNamed(v, d, name)
  IN IF slots = {} THEN v ELSE PutSlot(v, d, Min(slots), NoEntry)

SlipBumpNlink(v, i, delta) ==             \* only ever lowers
  IF delta > 0 THEN v ELSE SetIno(v, i, [v.ino[i] EXCEPT !.nlink = @ + delta])
BumpNlink(v, i, delta) == SetIno(v, i, [v.ino[i] EXCEPT !.nlink = @ + delta])

(* set_dotdot: entry 1 of block 0 is "..".                                  *)
SlipSetDotdot(v, d, parent) == v
SetDotdot(v, d, parent) ==
  LET b == v.ino[d].addr[0]
  IN IF b = 0 THEN v
     ELSE SetBlk(v, b, DirBlk([AsDir(v.blk[b]) EXCEPT ![1].ino = parent]))

-------------------------------------------------------------------------------
(* Inodes.                                                                  *)

(* ialloc_scan: the first free inode from the root's number up, or 0.       *)
FreeInos(v) == {i \in Ino : i >= ROOTINO /\ v.ino[i].mode = "none"}
IallocScan(v) == CHOOSE i \in FreeInos(v) : \A j \in FreeInos(v) : i <= j

(* write_new_inode.                                                         *)
WriteNewInode(v, i, mode, b, nlink, size) ==
  [SetIno(v, i, [mode |-> mode, nlink |-> nlink, size |-> size,
                 addr |-> [NoAddr EXCEPT ![0] = b]]) EXCEPT !.tinode = @ - 1]

(* ifree_blocks and a cleared inode record: what the last unlink, rmdir and
   a replacing rename do.                                                   *)
SlipFreeInode(v, i) ==                    \* the free inode is not counted
  SetIno(IfreeBlocks(v, v.ino[i].addr), i, FreeIno)
FreeInode(v, i) ==
  [SetIno(IfreeBlocks(v, v.ino[i].addr), i, FreeIno) EXCEPT !.tinode = @ + 1]

(* One link fewer to a file, the last one freeing it.                       *)
DropLink(v, i) == IF v.ino[i].nlink - 1 <= 0 THEN FreeInode(v, i)
                  ELSE BumpNlink(v, i, -1)

(* unref_inode: the target a rename replaces.  For a directory the parent's
   link count is lowered on disk before the i-list block, read at the start,
   is written back.                                                         *)
UnrefInode(v, i, parent) ==
  IF v.ino[i].mode = "dir"
  THEN LET table == [v.ino EXCEPT ![i] = FreeIno]
           w == [IfreeBlocks(v, v.ino[i].addr) EXCEPT !.tinode = @ + 1]
       IN SetIlistBlock(BumpNlink(w, parent, -1), i, table)
  ELSE DropLink(v, i)

-------------------------------------------------------------------------------
(* File contents.                                                           *)

(* rw_pwrite of whole blocks from off on: the inode is written back once, at
   the end, unless the first block already failed.  r is the loop's state, m
   the block found or allocated for the next lbn, c what goes there.        *)
Wrote(r, c, m) ==
  IF m.b = 0 THEN [r EXCEPT !.v = m.v, !.addr = m.addr, !.stop = TRUE]
  ELSE [r EXCEPT !.v = SetBlk(m.v, m.b, c), !.addr = m.addr, !.n = @ + 1]
WroteAll(i, rec, off, r) ==
  IF r.n = 0 THEN [v |-> r.v, n |-> 0]
  ELSE [v |-> SetIno(r.v, i, [rec EXCEPT !.addr = r.addr,
                                !.size = IF off + r.n > @ THEN off + r.n ELSE @]),
        n |-> r.n]
PwriteOf(v, i, off, contents) ==
  WroteAll(i, v.ino[i], off,
    FoldLeft(LAMBDA r, x : IF r.stop THEN r
                           ELSE Wrote(r, contents[x], BmapAlloc(r.v, r.addr, off + x - 1)),
             [v |-> v, addr |-> v.ino[i].addr, n |-> 0, stop |-> FALSE],
             [x \in 1 .. Len(contents) |-> x]))
Pwrite(v, i, off, n) == PwriteOf(v, i, off, [x \in 1 .. n |-> Data(i, off + x - 1)])

(* rw_truncate: free the blocks past the new end, then set the size.        *)
SetLength(i, rec, len, r) ==
  Sync(SetIno(r.v, i, [rec EXCEPT !.addr = r.addr, !.size = len]))
Truncate(v, i, len) ==
  SetLength(i, v.ino[i], len,
    FoldLeft(BfreeAt, [v |-> v, addr |-> v.ino[i].addr],
             [x \in 1 .. v.ino[i].size - len |-> len + x - 1]))

(* The end of most operations: the superblock is flushed on success only.   *)
Flushed(r) == IF r.ok THEN Sync(r.v) ELSE r.v

(* The copy loop of rw_put_fd: PUTBUF blocks at a time until all n are in or
   one write falls short.                                                   *)
Short(want, w) == [v |-> w.v, ok |-> w.n = want]
Fill(v, i, n) ==
  LET step(r, x) ==
        LET off == (x - 1) * PUTBUF
            want == IF n - off < PUTBUF THEN n - off ELSE PUTBUF
        IN IF ~r.ok \/ want <= 0 THEN r ELSE Short(want, Pwrite(r.v, i, off, want))
  IN Flushed(FoldLeft(step, [v |-> v, ok |-> TRUE], [x \in 1 .. n |-> x]))

-------------------------------------------------------------------------------
(* The operations.  A path is the inode d its leading components lead to and
   its last component.                                                      *)

(* The body of rw_creat past its checks: the free inode i gets leaf for a
   name.                                                                    *)
DoCreat(v, d, leaf, i) ==
  DirAdd(WriteNewInode(v, i, "file", 0, 1, 0), d, leaf, i)

CanAdd(d, leaf) ==
  /\ leaf # ""                              \* name_ok
  /\ Lookup(fs, d, leaf) = 0                \* -EEXIST
  /\ FreeInos(fs) # {}                      \* -ENOSPC

(* rw_creat.                                                                *)
Creat(d, leaf) ==
  /\ CanAdd(d, leaf)
  /\ fs' = Flushed(DoCreat(fs, d, leaf, IallocScan(fs)))

(* rw_mkdir: the new directory's block a and inode i are written before its
   name is entered.                                                         *)
Dots(i, d) == [s \in 0 .. NDIR - 1 |-> IF s = 0 THEN [ino |-> i, name |-> "."]
                                       ELSE IF s = 1 THEN [ino |-> d, name |-> ".."]
                                       ELSE NoEntry]
WriteNewDir(a, i, d) ==
  WriteNewInode(SetBlk(a.v, a.b, DirBlk(Dots(i, d))), i, "dir", a.b, 2, 2)
Entered(r, d) == IF r.ok THEN Sync(BumpNlink(r.v, d, 1)) ELSE r.v
Mkdir(d, leaf) ==
  /\ CanAdd(d, leaf)
  /\ LET i == IallocScan(fs)
     IN fs' = Entered(DirAdd(WriteNewDir(Alloc(fs), i, d), d, leaf, i), d)

(* rw_unlink.                                                               *)
Unlinked(v, d, leaf, i) == Sync(DropLink(DirRemove(v, d, leaf), i))
Unlink(d, leaf) ==
  LET i == Lookup(fs, d, leaf) IN
  /\ i \in Ino
  /\ fs.ino[i].mode # "dir"
  /\ SlotsNamed(fs, d, leaf) # {}
  /\ fs' = Unlinked(fs, d, leaf, i)

(* rw_rmdir.                                                                *)
SlipRmdir(d, leaf) ==                     \* the parent keeps its count
  LET i == Lookup(fs, d, leaf) IN
  /\ i \in Ino
  /\ fs.ino[i].mode = "dir"
  /\ ~NonEmpty(fs, i)
  /\ SlotsNamed(fs, d, leaf) # {}
  /\ fs' = Sync(FreeInode(DirRemove(fs, d, leaf), i))
Rmdir(d, leaf) ==
  LET i == Lookup(fs, d, leaf) IN
  /\ i \in Ino
  /\ fs.ino[i].mode = "dir"
  /\ ~NonEmpty(fs, i)
  /\ SlotsNamed(fs, d, leaf) # {}
  /\ fs' = Sync(BumpNlink(FreeInode(DirRemove(fs, d, leaf), i), d, -1))

(* rw_rename of fd/fl to td/tl: an existing target is removed first, then the
   new name is entered, then the old one removed; a directory that changes
   parents gets its ".." and both parents' counts adjusted.                 *)
Replace(v, t, td, tl) == IF t = 0 THEN v ELSE UnrefInode(DirRemove(v, td, tl), t, td)
Rehome(v, c, fd, td) ==
  IF v.ino[c].mode # "dir" \/ fd = td THEN v
  ELSE BumpNlink(BumpNlink(SetDotdot(v, c, td), fd, -1), td, 1)
Moved(r, c, fd, fl, td) ==
  IF r.ok THEN Sync(Rehome(DirRemove(r.v, fd, fl), c, fd, td)) ELSE r.v
Rename(fd, fl, td, tl) ==
  LET c == Lookup(fs, fd, fl)
      t == Lookup(fs, td, tl)
      sdir == fs.ino[c].mode = "dir"
  IN /\ c \in Ino
     /\ tl # ""
     /\ sdir => ~IsAncestor(fs, c, td)
     /\ t # c
     /\ t # 0 => /\ t \in Ino
                 /\ (fs.ino[t].mode = "dir") = sdir
                 /\ sdir => ~NonEmpty(fs, t)
     /\ fs' = Moved(DirAdd(Replace(fs, t, td, tl), td, tl, c), c, fd, fl, td)

(* rw_put_fd of a file of n blocks: an existing file is emptied first, a new
   one created whole before the copy.                                       *)
FillNew(r, i, n) == IF r.ok THEN Fill(Sync(r.v), i, n) ELSE r.v
Put(d, leaf, n) ==
  LET i == Lookup(fs, d, leaf)
      new == IallocScan(fs)
  IN \/ /\ i \in Ino
        /\ fs.ino[i].mode = "file"
        /\ fs' = Fill(Truncate(fs, i, 0), i, n)
     \/ /\ CanAdd(d, leaf)
        /\ fs' = FillNew(DoCreat(fs, d, leaf, new), new, n)

(* rw_copy_between within one image: the target, which may be the source, is
   emptied or created before anything is read; sin is the inode as it was.  *)
ReadAt(v, addr, lbn) ==
  LET b == Bmap(v, addr, lbn) IN IF b = 0 THEN Zero ELSE v.blk[b]
CopyBlocks(v, sin, i) ==
  LET step(r, x) ==
        LET off == (x - 1) * PUTBUF
            want == IF sin.size - off < PUTBUF THEN sin.size - off ELSE PUTBUF
        IN IF ~r.ok \/ want <= 0 THEN r
           ELSE Short(want, PwriteOf(r.v, i, off,
                              [y \in 1 .. want |-> ReadAt(r.v, sin.addr, off + y - 1)]))
  IN Flushed(FoldLeft(step, [v |-> v, ok |-> TRUE], [x \in 1 .. sin.size |-> x]))
CopyNew(r, sin, i) == IF r.ok THEN CopyBlocks(Sync(r.v), sin, i) ELSE r.v
SlipCopied(v, c, td, tl, i) ==            \* a longer target keeps its tail
  IF i # 0 THEN CopyBlocks(v, v.ino[c], i)
  ELSE CopyNew(DoCreat(v, td, tl, IallocScan(v)), v.ino[c], IallocScan(v))
Copied(v, c, td, tl, i) ==
  IF i # 0 THEN CopyBlocks(Truncate(v, i, 0), v.ino[c], i)
  ELSE CopyNew(DoCreat(v, td, tl, IallocScan(v)), v.ino[c], IallocScan(v))
CanCopy(c, td, tl, i) ==
  /\ fs.ino[c].mode = "file"
  /\ \/ i \in Ino /\ fs.ino[i].mode = "file"
     \/ i = 0 /\ CanAdd(td, tl)
Copy(c, td, tl) ==
  /\ CanCopy(c, td, tl, Lookup(fs, td, tl))
  /\ fs' = Copied(fs, c, td, tl, Lookup(fs, td, tl))

(* The FUSE write: rw_pwrite at any offset of an open file, then rw_sync.    *)
Write(i, off, n) ==
  /\ fs.ino[i].mode = "file"
  /\ fs' = Sync(Pwrite(fs, i, off, n).v)

(* The FUSE truncate.                                                        *)
Resize(i, len) ==
  /\ fs.ino[i].mode = "file"
  /\ fs' = Truncate(fs, i, len)

-------------------------------------------------------------------------------
(* What s5fs_mkfs lays down: the bad-block inode, the root and lost+found,
   with a block of empty slots, and every other block on the free list, in an
   order that depends on the size and the interleave.                       *)
Blank ==
  [ino |-> [i \in Ino |-> FreeIno], blk |-> [b \in Block |-> Zero],
   nfree |-> 0, free |-> NoCache, tfree |-> 0, tinode |-> NINO, error |-> FALSE,
   log |-> Silent,
   sb |-> [nfree |-> 0, free |-> NoCache, tfree |-> 0, tinode |-> 0]]

WithDots(i, parent, lf) == DirBlk([Dots(i, parent) EXCEPT ![2] = lf])

MakeRoot(root, lost, lf) ==
  WriteNewInode(
    WriteNewInode(SetBlk(SetBlk(root.v, lost, WithDots(3, ROOTINO, NoEntry)),
                         root.b, WithDots(ROOTINO, ROOTINO, lf)),
                  BADBLKINO, "file", 0, 0, 0),
    ROOTINO, "dir", root.b, 3, 3)
MakeLost(lost) ==
  Sync(WriteNewInode(MakeRoot(Alloc(lost.v), lost.b, [ino |-> 3, name |-> LostFound]),
                     3, "dir", lost.b, 2, NDIR))
Formatted(order) == MakeLost(Alloc(FoldLeft(Bfree, Blank, <<0>> \o order)))

Init == \E order \in SetToSeqs(Block) : fs = Formatted(order)

Operation ==
  \/ LET parents == Parents(fs) IN \E d \in parents, leaf \in Leaves :
       \/ Creat(d, leaf)
       \/ Mkdir(d, leaf)
       \/ Unlink(d, leaf)
       \/ Rmdir(d, leaf)
       \/ \E n \in 0 .. MaxFile : Put(d, leaf, n)
       \/ \E td \in parents, tl \in Leaves : Rename(d, leaf, td, tl)
  \/ \E i \in Ino \ {BADBLKINO} :
       \/ \E n \in 1 .. MaxFile : \E off \in 0 .. MaxFile - n : Write(i, off, n)
       \/ \E len \in 0 .. MaxFile : Resize(i, len)

(* Calls on a handle that has not failed.                                   *)
Next == ~fs.error /\ Operation

Spec == Init /\ [][Next]_vars

-------------------------------------------------------------------------------
(* What holds for every volume, callers and sizes (RWEngineProofs).         *)

(* No operation damages a file it is not about: every block a file maps holds
   what was last written to that place of that file, through any reuse of
   blocks by other files, directories and the free list.  Only where callers
   take files for parents may it be a block that an entry was put in.       *)
ContentsKept ==
  ~fs.error => \A i \in Ino : fs.ino[i].mode = "file" =>
    \A l \in 0 .. fs.ino[i].size - 1 :
      LET b == Bmap(fs, fs.ino[i].addr, l)
      IN b # 0 => \/ fs.blk[b] = Data(i, l)
                  \/ "file" \in ParentKinds /\ fs.blk[b].k = "dir"

(* No block is lost and none has two owners: once the superblock is flushed,
   the first three phases of fsck find every address in the data region and
   met once, the free list intact and clear of the blocks in use, and nothing
   missing; and the superblock counts the free blocks right, which fsck prints
   and does not judge (cmd_fsck.c mark, fsck_run).                           *)
BlocksAccounted ==
  ~fs.error =>
    LET disk == Sync(fs)
    IN /\ BlockErrors(disk) = {}
       /\ disk.sb.tfree = Cardinality(Block) - Cardinality(Refs(disk))

(* A handle fails only for want of space: its list is empty to the last
   block when it does.                                                      *)
FailsOnlyWhenFull ==
  [][fs'.error => fs'.nfree = 0 /\ fs'.free[0] = 0 /\ fs'.tfree = -1]_vars
===============================================================================
