-------------------------------- MODULE Builder --------------------------------
(***************************************************************************)
(* What every image builder is made of (s5fs_core.c): a new volume with    *)
(* nothing but its free list, block maps laid down whole, inodes with the  *)
(* next number, directories whose entries are known from the start.        *)
(***************************************************************************)
EXTENDS RWEngine, Fsck

CONSTANT LongName     \* a name of more than P11_DIRSIZ characters

(* s5fs_writeinode.                                                          *)
WriteInode(v, i, rec) == [SetIno(v, i, rec) EXCEPT !.tinode = @ - 1]
Rec(mode, nlink, size, addr) == [mode |-> mode, nlink |-> nlink, size |-> size, addr |-> addr]

(* s5fs_begin and s5fs_freelist: inode 1 and all blocks free.               *)
Begun(order) ==
  WriteInode(FoldLeft(Bfree, Blank, <<0>> \o order), BADBLKINO, Rec("file", 0, 0, NoAddr))

(* s5fs_setblocks, with one level of s5fs_build_ind.                        *)
Direct(da) == [s \in 0 .. LADDR |-> IF s < LADDR /\ s < Len(da) THEN da[s + 1] ELSE 0]
BuildInd(a, da) ==
  [a EXCEPT !.v = SetBlk(a.v, a.b,
     IndBlk([x \in 0 .. NINDIR - 1 |-> IF x < Len(da) THEN da[x + 1] ELSE 0]))]
TooLarge(v, da) == IF Mappable(Len(da) - 1) THEN v ELSE [v EXCEPT !.error = TRUE]
WithInd(da, i) == [v |-> TooLarge(i.v, da), addr |-> [Direct(da) EXCEPT ![LADDR] = i.b]]
SetBlocks(v, da) ==
  IF Len(da) <= LADDR THEN [v |-> v, addr |-> Direct(da)]
  ELSE WithInd(da, BuildInd(Alloc(v), SubSeq(da, LADDR + 1, Len(da))))

(* The blocks of a file or directory, stored first to last, then mapped: what
   write_reg, write_dir, store_fd, store_bytes and restore have in common.  *)
StoreBlock(r, c, a) == [v |-> SetBlk(a.v, a.b, c), da |-> Append(r.da, a.b)]
Store(v, contents) ==
  FoldLeft(LAMBDA r, c : StoreBlock(r, c, Alloc(r.v)), [v |-> v, da |-> << >>], contents)
MappedInode(i, mode, nlink, size, m) == WriteInode(m.v, i, Rec(mode, nlink, size, m.addr))
Laid(i, mode, nlink, size, r) == MappedInode(i, mode, nlink, size, SetBlocks(r.v, r.da))
StoreFile(v, i, nlink, contents) ==
  Laid(i, "file", nlink, Len(contents), Store(v, contents))

(* Both write_dirs: "." and "..", then the entries given.                    *)
Packed(entries) ==
  [x \in 1 .. (Len(entries) + NDIR - 1) \div NDIR |->
     DirBlk([s \in 0 .. NDIR - 1 |->
        IF (x - 1) * NDIR + s < Len(entries) THEN entries[(x - 1) * NDIR + s + 1] ELSE NoEntry])]
StoreDir(v, i, parent, nlink, kids) ==
  LET entries == <<[ino |-> i, name |-> "."], [ino |-> parent, name |-> ".."]>> \o kids
  IN Laid(i, "dir", nlink, Len(entries), Store(v, Packed(entries)))

(* A device has no blocks; its number, in addr[0], is left out.             *)
StoreDev(v, i, nlink) == WriteInode(v, i, Rec("dev", nlink, 0, NoAddr))
===============================================================================
