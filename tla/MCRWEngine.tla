------------------------------ MODULE MCRWEngine ------------------------------
(***************************************************************************)
(* The properties of RWEngine and what its runs need: the block numbers    *)
(* are interchangeable.                                                    *)
(***************************************************************************)
EXTENDS RWEngine, TLC

MCSymmetry == Permutations(Block)

Blk0 == Block \cup {0}
Caches == [0 .. NICFREE - 1 -> Blk0]

(* Types of the inode table, of the superblock and of the handle.           *)
TypeOK ==
  /\ \A i \in Ino :
       /\ fs.ino[i].mode \in {"none", "file", "dir"}
       /\ fs.ino[i].nlink \in Nat /\ fs.ino[i].size \in Nat
       /\ fs.ino[i].addr \in [0 .. LADDR -> Blk0]
  /\ \A b \in Block : fs.blk[b].k \in {"zero", "dir", "ind", "free", "data"}
  /\ fs.nfree \in 0 .. NICFREE /\ fs.free \in Caches
  /\ fs.tfree \in -1 .. Cardinality(Block) - 1     \* the root keeps its block
  /\ fs.error \in BOOLEAN

(* After any operation that did not fail, fsck says clean: blocks partition
   into used and free with no overlap, every link count matches, no entry
   dangles, nothing is orphaned (docs/mutation-engine.md:76, cmd_fsck.c).
   That is so where parents are directories, as a kernel makes sure.        *)
FsckClean == ~fs.error => FsckErrors(fs) = {}

(* Two things go wrong.  With target and parent in one i-list block, as on any
   small volume, a rename over an empty directory leaves the parent's count one
   too high (s5fs_rw.c unref_inode).  And a name put into a file, for a path
   went through it, leads nobody to its inode (parent_of).  That is all: counts
   are never too low, so no inode is freed while a name still leads to it, and
   nothing else is off.                                                     *)
CountsCoverNames ==
  ~fs.error =>
    /\ FsckErrors(fs) \subseteq
         {"link count"} \cup (IF "file" \in ParentKinds THEN {"orphan"} ELSE {})
    /\ \A i \in Ino : fs.ino[i].nlink >= LinkCount(AllEntries(fs), i)

(* The entries that lie in blocks of files.                                 *)
InFile(v, d) ==
  {<<d, l, s>> : <<l, s>> \in
     {q \in (0 .. v.ino[d].size - 1) \X (0 .. NDIR - 1) :
        LET b == Bmap(v, v.ino[d].addr, q[1])
        IN b # 0 /\ v.blk[b].k = "dir" /\ v.blk[b].e[q[2]].ino # 0}}
Hidden(v) == UNION {InFile(v, d) : d \in {i \in Ino : v.ino[i].mode = "file"}}
Newly == Hidden(fs') \ Hidden(fs)
BlkAt(v, i, l) == v.blk[Bmap(v, v.ino[i].addr, l)]
InoIn(x) == AsDir(BlkAt(fs', x[1], x[2]))[x[3]].ino
Misled(i) == \E x \in Newly : InoIn(x) = i

(* And nothing else drifts: a step changes the gap between a surviving inode's
   count and its names, by one, only for the parent of a directory the step
   replaced, if the two share an i-list block, and for an inode whose name the
   step moved into a file.                                                  *)
Drift(v) ==
  LET entries == AllEntries(v)
  IN [i \in Ino |-> v.ino[i].nlink - LinkCount(entries, i)]
Replaced(d) ==
  {en \in ToSet(Entries(fs, d)) :
     /\ en.name \notin {".", ".."} /\ en.ino \in DirInos(fs) \ DirInos(fs)'
     /\ d \in IlistBlock(en.ino)
     /\ \E to \in ToSet(Entries(fs, d))' : to.name = en.name}
OnlyReplacingDrifts ==
  [][~fs'.error =>
       LET was == Drift(fs)
           is  == Drift(fs')
       IN \A i \in Allocated(fs) \cap Allocated(fs)' :
            is[i] - was[i] = IF Replaced(i) = {} /\ ~Misled(i) THEN 0 ELSE 1]_vars

(* What a call does that takes a file for a directory, and what only such a call
   does: it puts one entry over one free slot of that one file, or past its end,
   for an inode no path leads to from then on, and all other data of files
   stays as it was.  But for that, inodes are cut off only when the last name
   goes of a file that counts as the parent of a lost directory.            *)
Mapped(v, i) == {l \in 0 .. v.ino[i].size - 1 : Bmap(v, v.ino[i].addr, l) # 0}
FilesOf(v) == {i \in Ino : v.ino[i].mode = "file"}
Lost(v) == Allocated(v) \ Reached(v)
ParentOfLost(i) == \E d \in Lost(fs) \cap DirInos(fs) : Lookup(fs, d, "..") = i
OneSlot(was, is, s) ==
  AsDir(was)[s].ino = 0 /\ is = DirBlk([AsDir(was) EXCEPT ![s] = AsDir(is)[s]])
OnlyPathsThroughFilesHarm ==
  [][~fs'.error =>
       IF Newly = {}
       THEN \A i \in Lost(fs') \ Lost(fs) : i \in FilesOf(fs) /\ ParentOfLost(i)
       ELSE \E x \in Newly :
              /\ Newly = {x}
              /\ InoIn(x) \in Lost(fs') \ Lost(fs)
              /\ \A i \in FilesOf(fs) : \A l \in Mapped(fs, i) :
                   /\ l \in Mapped(fs', i)
                   /\ LET was == BlkAt(fs, i, l)
                          is == BlkAt(fs', i, l)
                      IN is = was \/ (<<i, l>> = <<x[1], x[2]>> /\ OneSlot(was, is, x[3]))]_vars

(* The bound of the run in which counts drift.                              *)
DriftBound ==
  ~fs.error =>
    LET drift == Drift(fs) IN FoldSet(LAMBDA i, n : drift[i] + n, 0, Ino) <= 1

(* The header of s5fs_rw.h says the image on disk is consistent after each
   call; a call that runs out of space is one of them.                      *)
ConsistentAfterEachCall == FsckErrors(fs) = {}

(* What fsck does not look at: the ".." of a directory is the directory that
   names it, and no directory is named twice (s5fs_rw.c set_dotdot,
   is_ancestor).                                                            *)
Named(d) == {en \in ToSet(Entries(fs, d)) : en.name \notin {".", ".."}}
DotdotIsParent ==
  ~fs.error => \A d \in DirInos(fs) : \A en \in Named(d) :
    en.ino \in DirInos(fs) =>
      /\ Lookup(fs, en.ino, "..") = d
      /\ \A d2 \in DirInos(fs) : \A en2 \in Named(d2) :
           en2.ino = en.ino => d2 = d /\ en2 = en

(* After every operation that did not fail the disk has it all: nothing waits
   to be flushed, and the superblock counts the free inodes (fsck prints the
   count and does not judge it).                                            *)
DiskExact ==
  ~fs.error =>
    /\ Sync(fs) = fs
    /\ fs.sb.tinode = Cardinality({i \in Ino : fs.ino[i].mode = "none"})

(* The engine implements the namespace: each operation is one atomic change
   of the tree, whatever it does to slots, blocks and counts, where parents
   are directories.                                                         *)
Links == UNION {{[dir |-> d, name |-> en.name, ino |-> en.ino] : en \in Named(d)}
                : d \in DirInos(fs)}
Kind == [i \in Ino |-> IF i = BADBLKINO THEN "none" ELSE fs.ino[i].mode]
Abstract == INSTANCE Namespace WITH
              Inode <- Ino, Top <- ROOTINO, Label <- Name,
              kind <- Kind, links <- Links, failed <- fs.error
ImplementsNamespace == Abstract!NsSpec

(* And the names form one tree under the root: through any renames no directory
   comes to lie below itself, is cut off, or gets a second name, where parents
   are directories.                                                         *)
TreeOfNames == Abstract!TreeOfNames
===============================================================================
