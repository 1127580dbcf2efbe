--------------------------------- MODULE Fsck ---------------------------------
(***************************************************************************)
(* s5fs fsck without -p (cmd_fsck.c, fsck_run): what it reports on a volume*)
(* as it lies on disk.  Each kind of diagnostic counts as an error; the    *)
(* command prints "clean" when there is none.                              *)
(***************************************************************************)
EXTENDS Volume

FreeWalk == INSTANCE FsckWalk

Allocated(v) == {i \in Ino : v.ino[i].mode # "none"}
DirInos(v)   == {i \in Ino : v.ino[i].mode = "dir"}

(* Phase 1, mark and mark_indirect: the places of the inodes at which there is
   an address, and the blocks those lead to.  An address outside the data
   region is reported and left.                                             *)
AddrAt(v, m) == AddrsOf(v, v.ino[m.ino].addr)[m.at]
Marks(v) == {m \in [ino : Allocated(v), at : 1 .. LADDR + NINDIR + 1] : AddrAt(v, m) # 0}
Refs(v) == {AddrAt(v, m) : m \in Marks(v)} \ {Stray}

AddressErrors(v) ==
  LET marks == Marks(v)
  IN (IF \E m \in marks : AddrAt(v, m) = Stray THEN {"out of range"} ELSE {})
     \cup (IF \E m, n \in marks : m # n /\ AddrAt(v, m) = AddrAt(v, n) /\ AddrAt(v, m) # Stray
           THEN {"multiply referenced"} ELSE {})

(* Phases 2 and 3: the free list, and that every block is on it or in use.  *)
ListErrors(v) ==
  FreeWalk!FsckBlocks([b \in Block |-> AsFree(v.blk[b])], v.sb, Refs(v))

BlockErrors(v) == AddressErrors(v) \cup ListErrors(v)

(* Phase 4: every entry of every directory, "." and ".." included, and how
   many of them name inode i.                                               *)
AllEntries(v) == FoldSet(LAMBDA d, q : Entries(v, d) \o q, << >>, DirInos(v))
LinkCount(entries, i) == Len(SelectSeq(entries, LAMBDA en : en.ino = i))

LinkErrors(v) ==
  LET entries == AllEntries(v)
      all == ToSet(entries)
      count(i) == IF i \in Allocated(v) THEN v.ino[i].nlink ELSE 0
      bad == {i \in Ino : count(i) # LinkCount(entries, i)}
  IN (IF \E en \in all : en.ino \notin Ino THEN {"out-of-range inode"} ELSE {})
     \cup (IF \E en \in all : en.ino \in Ino \ Allocated(v) THEN {"dangling"} ELSE {})
     \cup (IF \E d \in DirInos(v) : \E en \in ToSet(Entries(v, d)) :
                en.name = "." /\ en.ino # d THEN {"dot"} ELSE {})
     \cup (IF bad # {} THEN {"link count"} ELSE {})

(* Phase 3, mark_reached: everything reachable by name from the root, or from
   a set of inodes that are.                                                *)
ReachedFrom(v, S) ==
  LET named == UNION {ToSet(Entries(v, d)) : d \in S}
  IN S \cup (Ino \cap {en.ino : en \in {x \in named : x.name \notin {".", ".."}}})
SlipMarkReached(v, S) == ReachedFrom(v, S)  \* one level down only
MarkReached(v, S) ==
  FoldLeft(LAMBDA q, x : ReachedFrom(v, q), S, [x \in Ino |-> x])
Reached(v) == MarkReached(v, {ROOTINO})

OrphanErrors(v) ==
  IF Allocated(v) \ (Reached(v) \cup {BADBLKINO}) # {} THEN {"orphan"} ELSE {}

FsckErrors(v) == BlockErrors(v) \cup LinkErrors(v) \cup OrphanErrors(v)
===============================================================================
