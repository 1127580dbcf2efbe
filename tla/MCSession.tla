------------------------------- MODULE MCSession -------------------------------
(***************************************************************************)
(* What a volume is after an interrupted call, a stale handle or a cleared *)
(* inode, and after its repair.                                            *)
(***************************************************************************)
EXTENDS Session, Report, TLC

Repaired == phase \in {"repaired", "resumed"}

(* Where fsck -p hangs what it finds, and whether it can: a file of that name
   will do for it, where its data has free slots (dir_reuse_slot).          *)
Found == Lookup(fs, ROOTINO, LostFound)
FileForLost == Found # 0 /\ fs.ino[Found].mode # "dir"
NoSlot == Found = 0 \/ FileForLost \/ FreeSlots(fs, Found) = {}

(* A crash can leave an inode whose indirect block a later bfree took for a
   chain block.                                                             *)
ChainForIndirect(v) ==
  \E i \in Allocated(v) : LET b == v.ino[i].addr[LADDR] IN b # 0 /\ v.blk[b].k = "free"

(* The links a user sees: entries that lead to an inode, but "." and "..".   *)
Proper(v, d) == {en \in ToSet(Entries(v, d)) : en.name \notin {".", ".."}
                                               /\ en.ino \in Allocated(v)}
LinksOf(v) == UNION {{[dir |-> d, name |-> en.name, ino |-> en.ino] : en \in Proper(v, d)}
                     : d \in DirInos(v)}
NamesOf(v, i) == {l \in LinksOf(v) : l.ino = i}
Lost == {l \in LinksOf(fs) : l.name = "#" /\ l.dir = Found}

(* Directories that have a chain block for a directory block.               *)
Spoilt == {d \in DirInos(fs) : \E en \in ToSet(Entries(fs, d)) : en.name = "?"}

FilesOf(v) == {i \in Ino : v.ino[i].mode = "file"}
Content(v, i) == [l \in 0 .. v.ino[i].size - 1 |-> ReadAt(v, v.ino[i].addr, l)]

(* The last call wrote to a file's inode, its link count aside, or blocks.  *)
Touched(i) ==
  \E x \in ToSet(whole.log.w) :
    \/ x.k = "ino" /\ x.i = i
       /\ [x.r EXCEPT !.nlink = before.ino[i].nlink] # before.ino[i]
    \/ x.k = "blk" /\ x.b \in ToSet(BlocksOf(before, before.ino[i].addr))

-------------------------------------------------------------------------------
(* One fsck -p does all it can: another finds the same and writes the same,
   whatever state a kill, a stale superblock or clri left.  Only what it hung
   into a file is as lost as before, and will be hung there again.          *)
Settled ==
  Repaired => FsckP(fs, Order) = fs \/ (FileForLost /\ OrphanErrors(fs) # {})

(* After fsck -p, fsck has nothing more to report, except orphans when
   lost+found is missing, full or a file, and addresses out of range in an indirect
   block that a call killed between bfree and the write of the inode left
   overwritten by a chain block.                                            *)
RepairedClean ==
  Repaired => FsckErrors(fs) \subseteq
    (IF NoSlot THEN {"orphan"} ELSE {})
    \cup (IF ChainForIndirect(fs) THEN {"out of range"} ELSE {})

(* A call killed half way and repaired leaves every link that it was not to
   remove, and makes none up, save in lost+found and in a directory whose
   block a bfree of the killed call overwrote.                              *)
OldOrNew ==
  Repaired =>
    /\ LinksOf(before) \cap LinksOf(whole) \subseteq LinksOf(fs)
    /\ \A l \in LinksOf(fs) \ (LinksOf(before) \cup LinksOf(whole) \cup Lost) :
         l.dir \in Spoilt

(* Nothing that still has a path of its own is hung into lost+found.        *)
Below(S) == S \cup {i \in Ino : \E l \in LinksOf(fs) \ Lost : l.dir \in S /\ l.ino = i}
WithPath == FoldLeft(LAMBDA S, x : Below(S), {ROOTINO}, [x \in Ino |-> x])
OnlyLost == Repaired => \A l \in Lost : l.ino \notin WithPath

(* A file that the killed call did not write to keeps its inode and its
   blocks through the kill and the repair: the free list built anew has none
   of them.  Its contents stay as they were, if it is not where orphans go.  *)
FilesKept ==
  Repaired => \A i \in FilesOf(before) \cap FilesOf(whole) :
    ~Touched(i) =>
      /\ i \in FilesOf(fs) /\ fs.ino[i].addr = before.ino[i].addr
      /\ i = Found \/ Content(fs, i) = Content(before, i)

(* A directory hung into lost+found has that for its parent; any other has
   the parent it had or was to get, unless it is nameless and that was freed.
   An fsck -p killed after it hung one and before it wrote its ".." leaves that
   one as it was: run again, fsck -p finds it reached and looks no further.
   One hung into a file has that for its parent, and no name.               *)
Up(d) == Lookup(fs, d, "..")
InLost(d) == NamesOf(fs, d) \cap Lost # {}
LostAstray == {d \in DirInos(fs) \ Spoilt : InLost(d) /\ Up(d) # Found}
DotdotsRepaired ==
  Repaired =>
    /\ \A d \in {x \in DirInos(fs) \ Spoilt : ~InLost(x)} \cup LostAstray :
         \/ Up(d) \in {Lookup(before, d, ".."), Lookup(whole, d, "..")}
         \/ Up(d) = 0 /\ (NamesOf(fs, d) = {} \/ d \in LostAstray)
         \/ Up(d) = Found /\ FileForLost /\ NamesOf(fs, d) = {}
    /\ Cardinality(LostAstray) <= IF phase = "resumed" THEN 1 ELSE 0

(* A superblock that a second handle wrote last, on its close or through a mv
   between two mounts of one image, disturbs the free list and the totals
   only, and icheck -s right after gives the volume the calls made: what fsck
   still reports is what they did, to a file taken for a parent.            *)
OfNames(v) == LinkErrors(v) \cup OrphanErrors(v)
SalvageSuffices ==
  /\ phase = "stale" => OfNames(fs) = OfNames(whole)
  /\ phase = "salvaged" =>
       /\ FsckErrors(fs) = OfNames(whole)
       /\ ParentKinds = {"dir"} => FsckErrors(fs) = {}
       /\ LinksOf(fs) = LinksOf(whole)
       /\ fs.ino = whole.ino
       /\ \A i \in FilesOf(fs) : Content(fs, i) = Content(whole, i)

(* df and scavenge read the free list in loops of their own.  On a volume in
   use or repaired df counts every free block, and scavenge passes over those
   that chain the list: one in NICFREE of a list built anew.                *)
FreeListReaders ==
  LET free == Block \ Refs(fs)
      passed == free \ Scavenged(fs)
  IN phase \in {"up", "repaired", "resumed", "salvaged"} =>
       /\ DfFree(fs) = Cardinality(free)
       /\ \A b \in passed : fs.blk[b].k = "free"
       /\ phase # "up" => Cardinality(passed) = Cardinality(free) \div NICFREE

(* A copy reads back as its source, holes as zeros.  A file copied onto itself
   survives only when one read takes it whole, before a block of it is written
   again, and freeing it wrote no chain block into it.  One copied to a path
   below itself has the entry of that path in it where it had a free slot.  *)
IntoSource ==
  /\ copied[3] = copied[1]
  /\ \E x \in ToSet(fs.log.w) :
       /\ x.k = "blk" /\ x.c.k = "dir"
       /\ x.b \in ToSet(BlocksOf(before, before.ino[copied[1]].addr))
CopyExact ==
  phase = "done" /\ copied # << >> /\ ~fs.error =>
    \/ Content(fs, copied[2]) = Content(before, copied[1])
    \/ IntoSource
    \/ /\ copied[1] = copied[2]
       /\ \/ before.ino[copied[1]].size > PUTBUF
          \/ \E x \in ToSet(fs.log.w) : x.k = "blk" /\ x.c.k = "free"
===============================================================================
