---------------------------- MODULE RWEngineProofs ----------------------------
(***************************************************************************)
(* That the mutation engine keeps every file's blocks its own, loses none  *)
(* and fails only for want of space, whatever the sizes of the volume and  *)
(* whatever the callers do, taking files for directories included: the     *)
(* invariant of VolumeProofs, kept by every operation.  And that the repairs give a damaged volume a free list of   *)
(* exactly the blocks its inodes do not name, and harm no file.            *)
(***************************************************************************)
EXTENDS Repair, VolumeProofs, WellFoundedInduction

-------------------------------------------------------------------------------
(* A nonempty set of numbers has a least one: Min and ialloc's scan find it.  *)
LEMMA Least ==
  ASSUME NEW T \in SUBSET Nat, T # {}
  PROVE  \E x \in T : \A y \in T : x <= y
<1> DEFINE R == {ss \in Nat \X Nat : ss[1] < ss[2]}
<1>1. IsWellFoundedOn(R, Nat)
  BY NatLessThanWellFounded DEF OpToRel
<1>2. PICK m \in T : \A y \in T : <<y, m>> \notin R
  <2> HIDE DEF R
  <2> QED BY <1>1, WFMin
<1>3. ASSUME NEW y \in T PROVE m <= y
  <2>1. y \in Nat /\ m \in Nat
    OBVIOUS
  <2>2. y < m => <<y, m>> \in R
    BY <2>1
  <2> HIDE DEF R
  <2> QED BY <1>2, <2>1, <2>2
<1> QED BY <1>3

(* See above.                                                                *)
LEMMA MinIs ==
  ASSUME NEW T \in SUBSET Nat, T # {}
  PROVE  Min(T) \in T
BY Least DEF Min

(* Slots, blocks of slots and slots within a block.                          *)
LEMMA DivMod ==
  ASSUME NEW s \in Nat
  PROVE  /\ s \div NDIR \in Nat /\ s % NDIR \in 0 .. NDIR - 1
         /\ s \div NDIR = 0 => s % NDIR = s
         /\ s = NDIR * (s \div NDIR) + (s % NDIR)
<1>1. ASSUME NEW D \in Nat, D > 0
      PROVE  /\ s \div D \in Nat /\ s % D \in 0 .. D - 1
             /\ s = D * (s \div D) + (s % D)
  <2>1. s % D \in 0 .. D - 1
    BY <1>1
  <2>2. s \div D \in Int
    BY <1>1
  <2>3. s \div D >= 0
    BY <1>1
  <2>4. s = D * (s \div D) + (s % D)
    BY <1>1
  <2> QED BY <2>1, <2>2, <2>3, <2>4
<1>2. NDIR \in Nat /\ NDIR > 0
  BY Numbers
<1>3. /\ s \div NDIR \in Nat /\ s % NDIR \in 0 .. NDIR - 1
      /\ s = NDIR * (s \div NDIR) + (s % NDIR)
  BY <1>1, <1>2
<1>4. NDIR * 0 = 0
  BY <1>2
<1> QED BY <1>2, <1>3, <1>4

(* The block of a slot below those of n blocks is one of them.               *)
LEMMA SlotBlock ==
  ASSUME NEW n \in Nat, NEW x \in 1 .. n * NDIR
  PROVE  (x - 1) \div NDIR + 1 \in 1 .. n /\ (x - 1) % NDIR \in 0 .. NDIR - 1
<1> DEFINE q == (x - 1) \div NDIR
           e == (x - 1) % NDIR
<1>1. n * NDIR \in Nat /\ NDIR \in Nat
  BY Numbers
<1>2. x - 1 \in Nat /\ x \in Nat /\ x <= n * NDIR
  BY <1>1
<1>3. q \in Nat /\ e \in 0 .. NDIR - 1 /\ x - 1 = NDIR * q + e
  BY <1>2, DivMod
<1> HIDE DEF q, e
<1>4. ASSUME q >= n PROVE FALSE
  <2>1. NDIR * q >= n * NDIR
    BY <1>1, <1>3, <1>4
  <2> QED BY <1>1, <1>2, <1>3, <2>1
<1>5. q + 1 \in 1 .. n
  BY <1>3, <1>4
<1> QED BY <1>3, <1>5 DEF q, e

-------------------------------------------------------------------------------
(* The inode table, and what every record in it must be: a directory has a
   first block, and its two dots are within its size; a free inode has none.  *)
InodeRec == [mode : Modes0, nlink : Int, size : Nat, addr : Addrs0]
RecOk(r) ==
  /\ r \in InodeRec /\ (r.mode = "dir" => r.addr[0] # 0 /\ r.size >= 2)
  /\ r.mode = "none" => r.addr = NoAddr
Inodes(t) ==
  /\ t = [i \in Ino |-> t[i]]
  /\ \A i \in Ino : RecOk(t[i])
  /\ t[ROOTINO].mode = "dir"

(* A file may hold entries where callers may take it for a parent.           *)
KindOf(mode) == IF mode = "file" /\ "file" \in ParentKinds THEN "entered" ELSE mode
MayParent(mode) == mode = "dir" \/ (mode = "file" /\ "file" \in ParentKinds)

Addrs(t) == [i \in Ino |-> t[i].addr]
Modes(t) == [i \in Ino |-> KindOf(t[i].mode)]
SameModes(t, u) == \A i \in Ino : t[i].mode = u[i].mode

(* The inductive invariant: a handle that has not failed has a sound volume,
   whose addresses and kinds are those of the inode table, and P is free.   *)
Good(v, P) == Sound(v, Addrs(v.ino), Modes(v.ino), P, {}) /\ Inodes(v.ino)
Well(v) == Failed(v) \/ \E P : Good(v, P)

(* Only a directory is of a directory's kind.                                *)
LEMMA KindIs ==
  /\ KindOf("dir") = "dir" /\ KindOf("none") = "none"
  /\ KindOf("file") \in {"file", "entered"} /\ MayParent("dir")
  /\ \A mode : MayParent(mode) /\ mode # "dir" => mode = "file" /\ KindOf(mode) = "entered"
BY DEF KindOf, MayParent

(* Good volumes have not failed, and failed ones are not good.               *)
LEMMA GoodLive ==
  ASSUME NEW v, Well(v)
  PROVE  /\ IsVolume(v) /\ v.error \in BOOLEAN
         /\ v.error = FALSE => \E P : Good(v, P)
         /\ v.error = TRUE => Failed(v)
         /\ \A P : Good(v, P) => v.error = FALSE
BY DEF Well, Good, Sound, Live, Failed, Dead

(* What does not touch blocks, inodes or the free list keeps a volume good.  *)
LEMMA GoodLike ==
  ASSUME NEW v, NEW w, Like(w, v), w.ino = v.ino
  PROVE  (\A P : Good(v, P) => Good(w, P)) /\ (Well(v) => Well(w))
<1>1. \A P : Good(v, P) => Good(w, P)
  <2> SUFFICES ASSUME NEW P, Good(v, P) PROVE Good(w, P)
    OBVIOUS
  <2> DEFINE A == Addrs(v.ino)
             K == Modes(v.ino)
             H == {}
  <2>1. Sound(v, A, K, P, H)
    BY DEF Good
  <2> HIDE DEF A, K, H
  <2>2. Sound(w, A, K, P, H)
    BY <2>1, SoundLike
  <2> QED BY <2>2 DEF Good, A, K, H
<1>2. Failed(v) => Failed(w)
  BY SoundLike
<1> QED BY <1>1, <1>2 DEF Well

(* The superblock flushed; the free inodes counted.                          *)
LEMMA SyncGood ==
  ASSUME NEW v, Well(v), NEW n
  PROVE  /\ Well(Sync(v)) /\ Sync(v).ino = v.ino
         /\ \A P : Good(v, P) => Good(Sync(v), P)
         /\ Well([v EXCEPT !.tinode = n]) /\ [v EXCEPT !.tinode = n].ino = v.ino
         /\ \A P : Good(v, P) => Good([v EXCEPT !.tinode = n], P)
<1> DEFINE x == Sync(v)
           y == [v EXCEPT !.tinode = n]
<1>1. IsVolume(v) /\ v.error \in BOOLEAN
  BY GoodLive
<1>2. Like(x, v) /\ x.ino = v.ino /\ Like(y, v) /\ y.ino = v.ino
  BY <1>1, SyncIs
<1> HIDE DEF x, y
<1>3. Well(x) /\ (\A P : Good(v, P) => Good(x, P))
  BY <1>2, GoodLike
<1>4. Well(y) /\ (\A P : Good(v, P) => Good(y, P))
  BY <1>2, GoodLike
<1> QED BY <1>2, <1>3, <1>4 DEF x, y

(* Addresses and kinds that differ from the table's in inode i, where they are
   those of the record r.                                                    *)
Becoming(B, J, t, i, r) ==
  B = [Addrs(t) EXCEPT ![i] = r.addr] /\ J = [Modes(t) EXCEPT ![i] = KindOf(r.mode)]

(* The table after a record has been put in it.                              *)
LEMMA TablePut ==
  ASSUME NEW u, Inodes(u), NEW i \in Ino, NEW r, RecOk(r), i = ROOTINO => r.mode = "dir",
         NEW t, Put1(t, u, i, r)
  PROVE  /\ Inodes(t) /\ t[i] = r /\ \A j \in Ino : j # i => t[j] = u[j]
         /\ \A B, J : Becoming(B, J, u, i, r) => B = Addrs(t) /\ J = Modes(t)
<1>1. t = [j \in Ino |-> t[j]] /\ t[i] = r /\ \A j \in Ino : j # i => t[j] = u[j]
  BY DEF Put1, Inodes
<1>2. Inodes(t)
  <2>1. \A j \in Ino : RecOk(t[j])
    BY <1>1 DEF Inodes
  <2>2. t[ROOTINO].mode = "dir"
    BY <1>1, Numbers DEF Inodes
  <2> QED BY <1>1, <2>1, <2>2 DEF Inodes
<1>3. \A B, J : Becoming(B, J, u, i, r) => B = Addrs(t) /\ J = Modes(t)
  BY <1>1 DEF Becoming, Addrs, Modes
<1> QED BY <1>1, <1>2, <1>3

(* Writing the record for which the volume was made ready.                   *)
LEMMA PutIno ==
  ASSUME NEW v, NEW B, NEW J, NEW Q, Sound(v, B, J, Q, {}), Inodes(v.ino),
         NEW i \in Ino, NEW r, RecOk(r), i = ROOTINO => r.mode = "dir",
         Becoming(B, J, v.ino, i, r), NEW w, w = SetIno(v, i, r)
  PROVE  Good(w, Q) /\ Put1(w.ino, v.ino, i, r)
<1>1. IsVolume(v) /\ v.error = FALSE
  BY DEF Sound, Live
<1>2. Like(w, v)
  BY <1>1, SetInoIs
<1>3. Put1(w.ino, v.ino, i, r)
  BY <1>1, SetInoIs
<1>4. Inodes(w.ino) /\ B = Addrs(w.ino) /\ J = Modes(w.ino)
  BY <1>3, TablePut
<1> DEFINE H == {}
<1>5. Sound(v, B, J, Q, H)
  OBVIOUS
<1> HIDE DEF H
<1>6. Sound(w, B, J, Q, H)
  BY ONLY <1>2, <1>5, SoundLike
<1> QED BY <1>3, <1>4, <1>6 DEF Good, H

(* A record written that keeps the kind and the addresses.                   *)
LEMMA RewriteIno ==
  ASSUME NEW v, NEW P, Good(v, P), NEW i \in Ino, NEW r, RecOk(r),
         r.mode = v.ino[i].mode, r.addr = v.ino[i].addr, NEW w, w = SetIno(v, i, r)
  PROVE  Good(w, P) /\ Put1(w.ino, v.ino, i, r)
<1> DEFINE A == Addrs(v.ino)
           K == Modes(v.ino)
<1>1. Sound(v, A, K, P, {}) /\ Inodes(v.ino)
  BY DEF Good
<1>2. Becoming(A, K, v.ino, i, r)
  BY DEF Becoming, Addrs, Modes
<1>3. i = ROOTINO => r.mode = "dir"
  BY <1>1 DEF Inodes
<1> HIDE DEF A, K
<1> QED BY <1>1, <1>2, <1>3, PutIno

-------------------------------------------------------------------------------
(* An entry that may be entered: not the root by a name callers pass.        *)
EntOk(en) == en.ino = ROOTINO => en.name \notin Name

(* A block read as a directory with one entry changed.                       *)
EntryPut(x, c, e, en) == x = DirBlk([AsDir(c) EXCEPT ![e] = en])
(* An entry written into a directory block leaves it well formed.            *)
LEMMA EntryBlk ==
  ASSUME NEW c, BlkOk(c), NEW e \in 0 .. NDIR - 1, NEW en, EntOk(en),
         NEW x, EntryPut(x, c, e, en)
  PROVE  BlkOk(x) /\ (e # 1 /\ DotSlot(c) => DotSlot(x))
<1> DEFINE t == AsDir(c)
<1>1. /\ t = [s \in 0 .. NDIR - 1 |-> t[s]]
      /\ \A s \in 0 .. NDIR - 1 : t[s].ino = ROOTINO => t[s].name \notin Name
  BY DEF BlkOk
<1>2. DotSlot(c) => c.k = "dir" /\ t = c.e /\ \E y \in Ino : t[1] = [ino |-> y, name |-> ".."]
  BY DEF DotSlot, AsDir
<1>3. x = DirBlk([t EXCEPT ![e] = en])
  BY DEF EntryPut
<1> HIDE DEF t
<1> DEFINE u == [t EXCEPT ![e] = en]
<1>4. x.k = "dir" /\ x.e = u /\ AsDir(x) = u
  BY <1>3 DEF DirBlk, AsDir
<1>5. /\ u = [s \in 0 .. NDIR - 1 |-> u[s]]
      /\ \A s \in 0 .. NDIR - 1 : u[s] = IF s = e THEN en ELSE t[s]
  BY <1>1
<1> HIDE DEF u
<1>6. \A s \in 0 .. NDIR - 1 : u[s].ino = ROOTINO => u[s].name \notin Name
  BY <1>1, <1>5 DEF EntOk
<1>7. NoCache = [s \in 0 .. NICFREE - 1 |-> NoCache[s]]
  BY DEF NoCache
<1>8. AsFree(x).free = NoCache /\ AsFree(x).nfree \in Int
  BY <1>4 DEF AsFree, FreeBlk
<1>9. BlkOk(x)
  BY <1>4, <1>5, <1>6, <1>7, <1>8 DEF BlkOk
<1>10. e # 1 /\ DotSlot(c) => DotSlot(x)
  <2> SUFFICES ASSUME e # 1, DotSlot(c) PROVE DotSlot(x)
    OBVIOUS
  <2>1. 1 \in 0 .. NDIR - 1
    BY Numbers
  <2>2. u[1] = t[1]
    BY <1>5, <2>1
  <2> QED BY <1>2, <1>4, <2>2 DEF DotSlot
<1> QED BY <1>9, <1>10

(* An entry written in a directory's block, which may be a new one, or in that
   of a file taken for one.                                                  *)
LEMMA PutEntrySound ==
  ASSUME NEW v, NEW A, NEW K, NEW P, NEW H, Sound(v, A, K, P, H),
         NEW d \in Ino, K[d] # "file", NEW l \in Lbns, H \subseteq {<<d, l>>},
         NEW b, b = Map(v.blk, A)[d][l], b # 0,
         NEW e \in 0 .. NDIR - 1, NEW en, EntOk(en),
         K[d] = "dir" /\ l = 0 => e # 1 /\ H = {},
         NEW w, w = PutEntry(v, b, e, en)
  PROVE  Sound(w, A, K, P, {}) /\ w.ino = v.ino
<1> DEFINE c == v.blk[b]
           x == DirBlk([AsDir(c) EXCEPT ![e] = en])
<1>1. w = SetBlk(v, b, x) /\ EntryPut(x, c, e, en)
  BY DEF PutEntry, EntryPut
<1> HIDE DEF x
<1>2. b \in Block
  <2>1. l \in Places
    BY Numbers
  <2> QED BY <2>1, PlaceOnly
<1>3. BlkOk(c)
  BY <1>2 DEF Sound
<1>4. K[d] = "dir" /\ l = 0 => DotSlot(c)
  <2> SUFFICES ASSUME K[d] = "dir", l = 0 PROVE DotSlot(c)
    OBVIOUS
  <2>1. Fits(v.blk, Map(v.blk, A), K, H) /\ <<d, l>> \notin H
    BY DEF Sound
  <2>2. FitsAt(c, d, l, K[d])
    BY <2>1 DEF Fits
  <2> QED BY <2>2 DEF FitsAt
<1> HIDE DEF c
<1>5. BlkOk(x) /\ (e # 1 /\ DotSlot(c) => DotSlot(x))
  BY <1>1, <1>3, EntryBlk
<1>6. FitsAt(x, d, l, K[d])
  <2>1. x.k = "dir"
    BY <1>1 DEF EntryPut, DirBlk
  <2> QED BY <1>4, <1>5, <2>1 DEF FitsAt
<1> QED BY <1>1, <1>5, <1>6, FillRef

(* What is known of a directory of a good volume.                            *)
LEMMA DirIs ==
  ASSUME NEW v, NEW P, Good(v, P), NEW d \in Ino
  PROVE  /\ RecOk(v.ino[d]) /\ v.ino[d] \in InodeRec
         /\ Addrs(v.ino)[d] = v.ino[d].addr /\ Modes(v.ino)[d] = KindOf(v.ino[d].mode)
         /\ v.ino[d].mode = "dir" <=> Modes(v.ino)[d] = "dir"
         /\ v.ino[d].size \in Nat
         /\ v.ino[d].mode = "dir" =>
              /\ v.ino[d].addr[0] # 0 /\ v.ino[d].size >= 2
              /\ Map(v.blk, Addrs(v.ino))[d][0] = v.ino[d].addr[0]
              /\ Bmap(v, v.ino[d].addr, 0) = v.ino[d].addr[0]
              /\ v.ino[d].addr[0] \in Block /\ DotSlot(v.blk[v.ino[d].addr[0]])
<1>1. RecOk(v.ino[d]) /\ v.ino[d] \in InodeRec /\ v.ino[d].size \in Nat
  BY DEF Good, Inodes, RecOk, InodeRec
<1>2. /\ Addrs(v.ino)[d] = v.ino[d].addr /\ Modes(v.ino)[d] = KindOf(v.ino[d].mode)
      /\ v.ino[d].mode = "dir" <=> Modes(v.ino)[d] = "dir"
  BY DEF Addrs, Modes, KindOf
<1>3. ASSUME v.ino[d].mode = "dir"
      PROVE  /\ v.ino[d].addr[0] # 0 /\ v.ino[d].size >= 2
             /\ Map(v.blk, Addrs(v.ino))[d][0] = v.ino[d].addr[0]
             /\ Bmap(v, v.ino[d].addr, 0) = v.ino[d].addr[0]
             /\ v.ino[d].addr[0] \in Block /\ DotSlot(v.blk[v.ino[d].addr[0]])
  <2> DEFINE A == Addrs(v.ino)
             K == Modes(v.ino)
             b == v.ino[d].addr[0]
  <2>1. b # 0 /\ v.ino[d].size >= 2
    BY <1>1, <1>3 DEF RecOk
  <2>2. 0 \in Places /\ 0 \in Lbns /\ 0 # -1 /\ 0 < LADDR
    BY Numbers DEF Places, Lbns
  <2>3. Map(v.blk, A)[d][0] = b
    BY <1>2, <2>2 DEF Map, Ref
  <2>4. Bmap(v, v.ino[d].addr, 0) = b
    BY <2>2 DEF Bmap
  <2>5. Sound(v, A, K, P, {}) /\ K[d] = "dir"
    BY <1>2, <1>3 DEF Good
  <2> HIDE DEF A, K, b
  <2>6. b \in Block
    BY <2>1, <2>2, <2>3, <2>5, PlaceOnly
  <2>7. Fits(v.blk, Map(v.blk, A), K, {})
    BY <2>5 DEF Sound
  <2>8. FitsAt(v.blk[b], d, 0, K[d])
    BY <2>1, <2>2, <2>3, <2>7 DEF Fits
  <2>9. DotSlot(v.blk[b])
    BY <2>5, <2>8 DEF FitsAt
  <2> QED BY <2>1, <2>3, <2>4, <2>6, <2>9 DEF A, b
<1> QED BY <1>1, <1>2, <1>3

(* Slot 1 of a directory is its "..", which is never free.                   *)
LEMMA SlotOne ==
  ASSUME NEW v, NEW P, Good(v, P), NEW d \in Ino, v.ino[d].mode = "dir"
  PROVE  EntryAt(v, d, 1).ino # 0 /\ EntryAt(v, d, 1).name = ".."
<1> DEFINE c == v.blk[v.ino[d].addr[0]]
<1>1. DotSlot(c) /\ Bmap(v, v.ino[d].addr, 0) = v.ino[d].addr[0]
  BY DirIs
<1>2. 1 \div NDIR = 0 /\ 1 % NDIR = 1
  <2> DEFINE q == 1 \div NDIR
             e == 1 % NDIR
  <2>1. q \in Nat /\ e \in 0 .. NDIR - 1 /\ 1 = NDIR * q + e /\ (q = 0 => e = 1)
    BY DivMod
  <2> HIDE DEF q, e
  <2>2. ASSUME q >= 1 PROVE FALSE
    <3>1. NDIR * q >= NDIR * 1
      BY <2>1, <2>2, Numbers
    <3> QED BY <2>1, <3>1, Numbers
  <2>3. q = 0 /\ e = 1
    BY <2>1, <2>2
  <2> QED BY <2>3 DEF q, e
<1>3. EntryAt(v, d, 1) = AsDir(c)[1]
  BY <1>1, <1>2 DEF EntryAt, At
<1> HIDE DEF c
<1>4. PICK y \in Ino : AsDir(c)[1] = [ino |-> y, name |-> ".."]
  BY <1>1 DEF DotSlot, AsDir
<1>5. y # 0
  BY DEF Ino
<1> QED BY <1>3, <1>4, <1>5

(* A block bmap finds is behind a place.                                     *)
LEMMA BmapPlace ==
  ASSUME NEW v, NEW A, NEW i \in Ino, NEW l \in Nat, NEW b, b = Bmap(v, A[i], l), b # 0
  PROVE  l \in Lbns /\ b = Map(v.blk, A)[i][l]
<1>1. b = IF l \in Lbns THEN Ref(v.blk, A[i], l) ELSE 0
  BY BmapRef
<1>2. l \in Lbns => l \in Places
  BY Numbers
<1> QED BY <1>1, <1>2 DEF Map

(* The slots of what is taken for a directory, and the block past them.       *)
LEMMA RoomIs ==
  ASSUME NEW rec, RecOk(rec)
  PROVE  /\ Room(rec) \in Nat /\ NextLbn(rec) \in Nat
         /\ rec.mode = "dir" => Room(rec) = rec.size
<1>1. rec.size \in Nat
  BY DEF RecOk, InodeRec
<1>2. rec.size * NDIR \in Nat
  BY <1>1, Numbers
<1>3. Room(rec) \in Nat
  BY <1>1, <1>2 DEF Room
<1>4. \A n \in Nat : n \div NDIR \in Nat
  BY DivMod
<1> QED BY <1>3, <1>4 DEF Room, NextLbn

(* The slots within its size are numbers.                                     *)
LEMMA SlotsAre ==
  ASSUME NEW v, NEW P, Good(v, P), NEW d \in Ino
  PROVE  SlotsInSize(v, d) \subseteq Nat
<1>1. Room(v.ino[d]) \in Nat
  BY DirIs, RoomIs
<1> QED BY <1>1 DEF SlotsInSize

(* A slot within the size of a directory is written, or of what is taken for
   one.                                                                       *)
LEMMA PutSlotGood ==
  ASSUME NEW v, NEW P, Good(v, P), NEW d \in Ino, MayParent(v.ino[d].mode),
         NEW s \in SlotsInSize(v, d), v.ino[d].mode = "dir" => s # 1, NEW en, EntOk(en),
         NEW w, w = PutSlot(v, d, s, en)
  PROVE  Good(w, P) /\ w.ino = v.ino
<1> DEFINE A == Addrs(v.ino)
           K == Modes(v.ino)
           l == s \div NDIR
           e == s % NDIR
           b == Bmap(v, v.ino[d].addr, l)
           H == {}
<1>1. s \in Nat /\ b # 0 /\ w = PutEntry(v, b, e, en)
  <2>1. s \in Nat
    BY SlotsAre
  <2> QED BY <2>1 DEF SlotsInSize, PutSlot, At
<1>2. l \in Nat /\ e \in 0 .. NDIR - 1 /\ (l = 0 => e = s)
  BY <1>1, DivMod
<1>3. /\ Sound(v, A, K, P, H) /\ A[d] = v.ino[d].addr
      /\ K[d] # "file" /\ (v.ino[d].mode = "dir" <=> K[d] = "dir")
  BY DirIs, KindIs DEF Good
<1>4. b = Bmap(v, A[d], l)
  BY <1>3
<1> HIDE DEF A, K, l, e, b, H
<1>5. l \in Lbns /\ b = Map(v.blk, A)[d][l]
  <2>1. d \in Ino /\ l \in Nat /\ b # 0
    BY <1>1, <1>2
  <2>2. \A j \in Ino : \A k \in Nat :
          Bmap(v, A[j], k) # 0 => k \in Lbns /\ Bmap(v, A[j], k) = Map(v.blk, A)[j][k]
    BY ONLY BmapPlace
  <2> QED BY <1>4, <2>1, <2>2
<1>6. H \subseteq {<<d, l>>} /\ (K[d] = "dir" /\ l = 0 => e # 1 /\ H = {})
  BY <1>2, <1>3 DEF H
<1>7. Sound(w, A, K, P, {}) /\ w.ino = v.ino
  BY <1>1, <1>2, <1>3, <1>5, <1>6, PutEntrySound
<1> QED BY <1>7 DEF Good, A, K

(* dir_remove of a name callers pass.                                        *)
LEMMA DirRemoveGood ==
  ASSUME NEW v, NEW P, Good(v, P), NEW d \in Ino, v.ino[d].mode = "dir",
         NEW name \in Name, NEW w, w = DirRemove(v, d, name)
  PROVE  Good(w, P) /\ w.ino = v.ino
<1> DEFINE slots == SlotsNamed(v, d, name)
<1>1. slots \subseteq SlotsInSize(v, d) /\ slots \in SUBSET Nat /\ 1 \notin slots
  <2>1. EntryAt(v, d, 1).name = ".."
    BY SlotOne
  <2>2. SlotsInSize(v, d) \subseteq Nat
    BY SlotsAre
  <2>3. EntryAt(v, d, 1).name # name
    BY <2>1, DotNames
  <2>4. 1 \notin slots
    BY <2>3 DEF SlotsNamed, HasEntry
  <2> QED BY <2>2, <2>4 DEF SlotsNamed
<1>2. w = IF slots = {} THEN v ELSE PutSlot(v, d, Min(slots), NoEntry)
  BY DEF DirRemove
<1> HIDE DEF slots
<1>3. CASE slots # {}
  <2> DEFINE s == Min(slots)
  <2>1. s \in slots
    BY <1>1, <1>3, MinIs
  <2> HIDE DEF s
  <2>2. s \in SlotsInSize(v, d) /\ s # 1 /\ MayParent(v.ino[d].mode)
    BY <1>1, <2>1, KindIs
  <2>3. EntOk(NoEntry)
    BY EmptyEntry DEF EntOk, ROOTINO
  <2>4. w = PutSlot(v, d, s, NoEntry)
    BY <1>2, <1>3 DEF s
  <2> QED BY <2>2, <2>3, <2>4, PutSlotGood
<1> QED BY <1>2, <1>3

(* A block read as a directory with the number in its ".." changed.          *)
DotPut(x, c, y) == x = DirBlk([AsDir(c) EXCEPT ![1].ino = y])
(* So does a new "..", and the block still has one.                          *)
LEMMA DotBlk ==
  ASSUME NEW c, BlkOk(c), DotSlot(c), NEW y \in Ino, NEW x, DotPut(x, c, y)
  PROVE  BlkOk(x) /\ DotSlot(x)
<1> DEFINE t == AsDir(c)
           en == [t[1] EXCEPT !.ino = y]
<1>1. x = DirBlk([t EXCEPT ![1] = en]) /\ 1 \in 0 .. NDIR - 1
  BY Numbers DEF DotPut
<1>2. PICK z \in Ino : t[1] = [ino |-> z, name |-> ".."]
  BY DEF DotSlot, AsDir
<1>3. en = [ino |-> y, name |-> ".."]
  BY <1>2
<1>4. EntOk(en)
  BY <1>3, DotNames DEF EntOk
<1>5. EntryPut(x, c, 1, en)
  BY <1>1 DEF EntryPut
<1>6. t = [s \in 0 .. NDIR - 1 |-> t[s]]
  BY DEF BlkOk
<1> HIDE DEF en
<1>7. BlkOk(x)
  BY <1>1, <1>4, <1>5, EntryBlk
<1>8. x.k = "dir" /\ x.e = [t EXCEPT ![1] = en]
  BY <1>1 DEF DirBlk
<1> HIDE DEF t
<1>9. x.e[1] = en
  BY <1>1, <1>6, <1>8
<1> QED BY <1>3, <1>7, <1>8, <1>9 DEF DotSlot

(* set_dotdot.                                                               *)
LEMMA SetDotdotGood ==
  ASSUME NEW v, NEW P, Good(v, P), NEW d \in Ino, v.ino[d].mode = "dir",
         NEW y \in Ino, NEW w, w = SetDotdot(v, d, y)
  PROVE  Good(w, P) /\ w.ino = v.ino
<1> DEFINE A == Addrs(v.ino)
           K == Modes(v.ino)
           b == v.ino[d].addr[0]
           c == v.blk[b]
           x == DirBlk([AsDir(c) EXCEPT ![1].ino = y])
           H == {}
           l == 0
<1>1. b # 0 /\ b = Map(v.blk, A)[d][l] /\ b \in Block /\ DotSlot(c) /\ K[d] = "dir"
  BY DirIs
<1>2. w = SetBlk(v, b, x) /\ DotPut(x, c, y)
  BY <1>1 DEF SetDotdot, DotPut
<1>3. Sound(v, A, K, P, H) /\ l \in Lbns /\ H \subseteq {<<d, l>>}
  BY Numbers DEF Good, Lbns
<1>4. BlkOk(c)
  BY <1>1, <1>3 DEF Sound
<1> HIDE DEF A, K, b, c, x, H, l
<1>5. BlkOk(x) /\ DotSlot(x)
  BY <1>1, <1>2, <1>4, DotBlk
<1>6. FitsAt(x, d, l, K[d])
  BY <1>1, <1>5 DEF FitsAt
<1>7. Sound(w, A, K, P, {}) /\ w.ino = v.ino
  BY <1>1, <1>2, <1>3, <1>5, <1>6, FillRef
<1> QED BY <1>7 DEF Good, A, K

(* A failed handle changes no inode, and no block.                           *)
LEMMA FailedWell ==
  ASSUME NEW v, Failed(v)
  PROVE  Well(v) /\ v.error = TRUE
BY DEF Well, Failed, Dead

(* A link more or less.                                                      *)
LEMMA BumpGood ==
  ASSUME NEW v, NEW P, Good(v, P), NEW i \in Ino, NEW x \in Int,
         NEW w, w = BumpNlink(v, i, x)
  PROVE  Good(w, P) /\ SameModes(w.ino, v.ino)
<1> DEFINE r == [v.ino[i] EXCEPT !.nlink = @ + x]
<1>1. RecOk(v.ino[i]) /\ v.ino[i] \in InodeRec /\ w = SetIno(v, i, r)
  BY DirIs DEF BumpNlink
<1>2. RecOk(r) /\ r.mode = v.ino[i].mode /\ r.addr = v.ino[i].addr
  BY <1>1 DEF RecOk, InodeRec
<1> HIDE DEF r
<1>3. Good(w, P) /\ Put1(w.ino, v.ino, i, r)
  BY <1>1, <1>2, RewriteIno
<1>4. i = ROOTINO => r.mode = "dir"
  BY <1>2 DEF Good, Inodes
<1>5. w.ino[i] = r /\ \A j \in Ino : j # i => w.ino[j] = v.ino[j]
  BY <1>1, <1>2, <1>3, <1>4, TablePut DEF Good
<1> QED BY <1>2, <1>3, <1>5 DEF SameModes

(* The record of a directory with one entry more, at addresses a; of a file
   with one block more.                                                      *)
Longer(r, rec, a) == r = [rec EXCEPT !.size = @ + 1, !.addr = a]
(* A record that got longer is well formed.                                  *)
LEMMA LongerOk ==
  ASSUME NEW rec, RecOk(rec), NEW a \in Addrs0, MayParent(rec.mode),
         rec.mode = "dir" => a[0] # 0, NEW r, Longer(r, rec, a)
  PROVE  RecOk(r) /\ r.mode = rec.mode /\ r.addr = a
<1>1. rec \in InodeRec /\ rec.size + 1 \in Nat
  BY DEF RecOk, InodeRec
<1>2. /\ r = [mode |-> rec.mode, nlink |-> rec.nlink, size |-> rec.size + 1, addr |-> a]
      /\ rec.size \in Nat /\ rec.nlink \in Int /\ rec.mode \in Modes0
  BY <1>1 DEF Longer, InodeRec
<1>3. r \in InodeRec
  BY <1>1, <1>2 DEF InodeRec
<1>4. rec.mode = "dir" => rec.size + 1 >= 2
  BY <1>2 DEF RecOk
<1>5. rec.mode # "none"
  BY DEF MayParent
<1> QED BY <1>2, <1>3, <1>4, <1>5 DEF RecOk

(* What a block of the directory is written when it was mapped already.      *)
Ready(w, v, d, m, P) ==
  /\ w.ino = v.ino /\ RecOk(v.ino[d]) /\ m.addr \in Addrs0
  /\ MayParent(v.ino[d].mode) /\ (v.ino[d].mode = "dir" => m.addr[0] # 0)
  /\ \E B, K : /\ Sound(w, B, K, P, {}) /\ K = Modes(v.ino)
               /\ Readdressed(B, Addrs(v.ino), d, m.addr)

(* The block past the end, with the entry: that of a directory as it was but for
   it, that of a file taken for one with nothing else.                       *)
LEMMA PastEndSound ==
  ASSUME GarbageAssumption,
         NEW v, NEW A, NEW K, NEW P, NEW H, Sound(v, A, K, P, H),
         NEW d \in Ino, NEW rec, RecOk(rec), MayParent(rec.mode), K[d] = KindOf(rec.mode),
         NEW l \in Lbns, l = NextLbn(rec), H \subseteq {<<d, l>>},
         rec.mode = "dir" /\ l = 0 => H = {},
         NEW m, m.v = v, m.b = Map(v.blk, A)[d][l], m.b # 0,
         NEW en, EntOk(en), NEW w, w = PutPastEnd(rec, m, en)
  PROVE  Sound(w, A, K, P, {}) /\ w.ino = v.ino
<1>1. CASE rec.mode = "dir"
  <2> DEFINE e == rec.size % NDIR
             b == m.b
             size == rec.size
  <2>1. w = PutEntry(v, b, e, en) /\ K[d] = "dir" /\ size \in Nat /\ size >= 2
    BY <1>1, KindIs DEF PutPastEnd, RecOk, InodeRec
  <2>2. l = size \div NDIR
    BY <1>1, RoomIs DEF NextLbn
  <2>3. e \in 0 .. NDIR - 1 /\ (l = 0 => e = size)
    <3> HIDE DEF size
    <3>1. e = size % NDIR
      BY DEF size
    <3> QED BY <2>1, <2>2, <3>1, DivMod
  <2> HIDE DEF e, b, size
  <2>4. K[d] = "dir" /\ l = 0 => e # 1 /\ H = {}
    BY <1>1, <2>1, <2>3
  <2>5. K[d] # "file" /\ b = Map(v.blk, A)[d][l] /\ b # 0
    BY <2>1 DEF b
  <2> QED BY <2>1, <2>3, <2>4, <2>5, PutEntrySound
<1>2. CASE rec.mode # "dir"
  <2> DEFINE x == DirBlk([Empty EXCEPT ![0] = en])
             b == m.b
             e == 0
  <2>1. w = SetBlk(v, b, x) /\ K[d] = "entered" /\ b = Map(v.blk, A)[d][l] /\ b # 0
    BY <1>2, KindIs DEF PutPastEnd
  <2>2. EntryPut(x, Zero, e, en) /\ x.k = "dir"
    BY DEF EntryPut, AsDir, Zero, Empty, DirBlk
  <2>3. BlkOk(Zero) /\ e \in 0 .. NDIR - 1
    BY BlksOk, Numbers
  <2> HIDE DEF x, b, e
  <2>4. BlkOk(x)
    BY <2>2, <2>3, EntryBlk
  <2>5. FitsAt(x, d, l, K[d])
    BY <2>1, <2>2 DEF FitsAt
  <2> QED BY <2>1, <2>4, <2>5, FillRef
<1> QED BY <1>1, <1>2

(* The entry past the end, in a block that was mapped.                        *)
LEMMA AppendKept ==
  ASSUME GarbageAssumption, NEW v, NEW P, Good(v, P), NEW d \in Ino,
         MayParent(v.ino[d].mode), NEW l, l = NextLbn(v.ino[d]),
         NEW m, Kept(m, v, Addrs(v.ino), d, l), m.b # 0,
         NEW en, EntOk(en), NEW w, w = PutPastEnd(v.ino[d], m, en)
  PROVE  Ready(w, v, d, m, P)
<1> DEFINE A == Addrs(v.ino)
           K == Modes(v.ino)
           H == {}
           rec == v.ino[d]
<1>1. /\ RecOk(rec) /\ A[d] = rec.addr /\ K[d] = KindOf(rec.mode)
      /\ rec.mode = "dir" => rec.addr[0] # 0
  BY DirIs
<1>2. Sound(v, A, K, P, H) /\ A \in [Ino -> Addrs0]
  <2>1. Sound(v, A, K, P, H)
    BY DEF Good
  <2> QED BY <2>1 DEF Sound, Owns
<1>3. m.v = v /\ m.addr = A[d] /\ l \in Lbns /\ m.b = Map(v.blk, A)[d][l]
  BY DEF Kept
<1>4. m.addr \in Addrs0 /\ (rec.mode = "dir" => m.addr[0] # 0)
  BY <1>1, <1>2, <1>3
<1>5. Readdressed(A, A, d, m.addr)
  BY <1>2, <1>3 DEF Readdressed
<1>6. H \subseteq {<<d, l>>} /\ (rec.mode = "dir" /\ l = 0 => H = {})
  OBVIOUS
<1>7. MayParent(rec.mode) /\ l = NextLbn(rec) /\ w = PutPastEnd(rec, m, en)
  OBVIOUS
<1> HIDE DEF A, K, H, rec
<1>8. Sound(w, A, K, P, {}) /\ w.ino = v.ino
  BY <1>1, <1>2, <1>3, <1>6, <1>7, PastEndSound
<1> QED BY <1>1, <1>4, <1>5, <1>7, <1>8 DEF Ready, A, K, rec

(* The same in a new block, which is not the first of a directory.            *)
LEMMA AppendNew ==
  ASSUME GarbageAssumption, NEW v, NEW P, Good(v, P), NEW d \in Ino,
         MayParent(v.ino[d].mode), NEW l, l = NextLbn(v.ino[d]),
         NEW m, NEW B, Readdressed(B, Addrs(v.ino), d, m.addr),
         New(m, v, Addrs(v.ino), B, Modes(v.ino), d, l), m.v.ino = v.ino,
         NEW en, EntOk(en), NEW w, w = PutPastEnd(v.ino[d], m, en)
  PROVE  \E Q : Ready(w, v, d, m, Q)
<1> DEFINE A == Addrs(v.ino)
           K == Modes(v.ino)
           rec == v.ino[d]
           H == {<<d, l>>}
           G == IF rec.mode = "dir" /\ l = 0 THEN {} ELSE H
           u == m.v
<1>1. /\ RecOk(rec) /\ A[d] = rec.addr /\ K[d] = KindOf(rec.mode)
      /\ rec.mode = "dir" => rec.addr[0] # 0 /\ Map(v.blk, A)[d][0] = rec.addr[0]
  BY DirIs
<1>2. /\ l \in Lbns /\ Map(v.blk, A)[d][l] = 0 /\ m.b # 0 /\ m.b = Map(u.blk, B)[d][l]
      /\ \A s \in 0 .. LADDR - 1 : A[d][s] # 0 => m.addr[s] = A[d][s]
  BY DEF New
<1>3. PICK Q : Sound(u, B, K, Q, H)
  BY DEF New
<1>4. rec.mode = "dir" => l # 0
  BY <1>1, <1>2
<1>5. m.addr \in Addrs0 /\ (rec.mode = "dir" => m.addr[0] # 0)
  <2>1. B \in [Ino -> Addrs0] /\ A = [i \in Ino |-> A[i]]
    BY <1>3 DEF Sound, Owns, Addrs
  <2>2. B[d] = m.addr
    BY <2>1 DEF Readdressed
  <2>3. 0 \in 0 .. LADDR - 1
    BY Numbers
  <2> QED BY <1>1, <1>2, <2>1, <2>2, <2>3
<1>6. Sound(u, B, K, Q, G) /\ G \subseteq {<<d, l>>} /\ (rec.mode = "dir" /\ l = 0 => G = {})
  BY <1>3, <1>4
<1>7. MayParent(rec.mode) /\ l = NextLbn(rec) /\ w = PutPastEnd(rec, m, en) /\ m.v = u
  OBVIOUS
<1> HIDE DEF K, rec, H, G, u
<1>8. Sound(w, B, K, Q, {}) /\ w.ino = u.ino
  BY <1>1, <1>2, <1>6, <1>7, PastEndSound
<1>9. Readdressed(B, A, d, m.addr) /\ K = Modes(v.ino) /\ u.ino = v.ino
  BY DEF K, u
<1> HIDE DEF A
<1> QED BY <1>1, <1>5, <1>7, <1>8, <1>9 DEF Ready, A, rec

(* And then the inode.                                                        *)
LEMMA ReadyPut ==
  ASSUME NEW v, NEW P, Inodes(v.ino), NEW d \in Ino, NEW m, NEW w, Ready(w, v, d, m, P),
         NEW r, Longer(r, v.ino[d], m.addr), NEW x, x = SetIno(w, d, r)
  PROVE  Good(x, P) /\ SameModes(x.ino, v.ino)
<1>1. PICK B, K : /\ Sound(w, B, K, P, {}) /\ K = Modes(v.ino)
                  /\ Readdressed(B, Addrs(v.ino), d, m.addr)
  BY DEF Ready
<1>2. w.ino = v.ino /\ RecOk(r) /\ r.mode = v.ino[d].mode /\ r.addr = m.addr
  BY LongerOk DEF Ready
<1>3. K = [Modes(v.ino) EXCEPT ![d] = KindOf(r.mode)]
  BY <1>1, <1>2 DEF Modes
<1>4. Becoming(B, K, w.ino, d, r)
  BY <1>1, <1>2, <1>3 DEF Becoming, Readdressed
<1>5. d = ROOTINO => r.mode = "dir"
  BY <1>2 DEF Inodes
<1>6. Good(x, P) /\ Put1(x.ino, w.ino, d, r)
  BY <1>1, <1>2, <1>4, <1>5, PutIno
<1>7. x.ino[d] = r /\ \A j \in Ino : j # d => x.ino[j] = w.ino[j]
  BY <1>2, <1>5, <1>6, TablePut
<1> QED BY <1>2, <1>6, <1>7 DEF SameModes

(* dir_add past the end.                                                      *)
LEMMA AppendGood ==
  ASSUME GarbageAssumption, NEW v, NEW P, Good(v, P), NEW d \in Ino,
         MayParent(v.ino[d].mode), NEW m, m = BmapAlloc(v, v.ino[d].addr, NextLbn(v.ino[d])),
         NEW en, EntOk(en), NEW r, r = AppendEntry(d, v.ino[d], en, m)
  PROVE  Well(r.v) /\ SameModes(r.v.ino, v.ino) /\ (r.ok => ~Failed(r.v))
<1> DEFINE A == Addrs(v.ino)
           K == Modes(v.ino)
           rec == v.ino[d]
           l == NextLbn(rec)
           w == PutPastEnd(rec, m, en)
           s == [rec EXCEPT !.size = @ + 1, !.addr = m.addr]
           x == SetIno(w, d, s)
           B == [A EXCEPT ![d] = m.addr]
<1>1. A[d] = rec.addr /\ RecOk(rec)
  BY DirIs
<1>2. l \in Nat
  BY <1>1, RoomIs
<1>3. /\ m.v.ino = v.ino
      /\ (Failed(m.v) /\ m.b = 0) \/ Kept(m, v, A, d, l) \/ New(m, v, A, B, K, d, l)
  <2>1. Sound(v, A, K, P, {}) /\ m = BmapAlloc(v, A[d], l) /\ Readdressed(B, A, d, m.addr)
    BY <1>1 DEF Good, Readdressed
  <2> HIDE DEF A, K, l, B
  <2> QED BY <1>2, <2>1, BmapAllocSound
<1>4. r = IF m.b = 0 THEN [v |-> m.v, ok |-> FALSE] ELSE [v |-> x, ok |-> TRUE]
  BY DEF AppendEntry
<1>5. CASE Failed(m.v) /\ m.b = 0
  <2>1. r.v = m.v /\ r.ok = FALSE
    BY <1>4, <1>5
  <2> QED BY <1>3, <1>5, <2>1 DEF Well, SameModes
<1>6. CASE Kept(m, v, A, d, l) /\ m.b = 0
  <2>1. r.v = v /\ r.ok = FALSE
    BY <1>4, <1>6 DEF Kept
  <2> QED BY <2>1 DEF Well, SameModes
<1>7. ASSUME m.b # 0, NEW Q, Ready(w, v, d, m, Q)
      PROVE  Well(r.v) /\ SameModes(r.v.ino, v.ino) /\ ~Failed(r.v)
  <2>1. r.v = x /\ Longer(s, rec, m.addr) /\ Inodes(v.ino)
    <3>1. Longer(s, rec, m.addr)
      BY DEF Longer
    <3>2. Inodes(v.ino)
      BY DEF Good
    <3> HIDE DEF x, s, w, rec
    <3>3. r.v = x
      BY <1>4, <1>7
    <3> QED BY <3>1, <3>2, <3>3
  <2> HIDE DEF w, s
  <2>2. Good(x, Q) /\ SameModes(x.ino, v.ino)
    BY <1>7, <2>1, ReadyPut
  <2> HIDE DEF x
  <2>3. Well(x) /\ ~Failed(x)
    BY <2>2 DEF Well, Good, Sound, Live, Failed, Dead
  <2> QED BY <2>1, <2>2, <2>3
<1>8. CASE Kept(m, v, A, d, l) /\ m.b # 0
  <2>1. Ready(w, v, d, m, P)
    BY <1>8, AppendKept
  <2> HIDE DEF w, x, s, A, K, B, l
  <2> QED BY <1>7, <1>8, <2>1
<1>9. CASE New(m, v, A, B, K, d, l)
  <2>1. Readdressed(B, A, d, m.addr) /\ m.b # 0
    BY <1>9 DEF Readdressed, New
  <2>2. \E Q : Ready(w, v, d, m, Q)
    <3> HIDE DEF B
    <3> QED BY <1>3, <1>9, <2>1, AppendNew
  <2> HIDE DEF w, x, s, A, K, B, l
  <2> QED BY <1>7, <2>1, <2>2
<1> HIDE DEF w, x, s, A, K, B, l
<1> QED BY <1>3, <1>5, <1>6, <1>7, <1>8, <1>9

(* dir_add of a name callers pass, for an inode that is not the root.         *)
LEMMA DirAddWell ==
  ASSUME GarbageAssumption, NEW v, Well(v), NEW d \in Ino,
         ~Failed(v) => MayParent(v.ino[d].mode),
         NEW name \in Name, NEW i, i # ROOTINO, NEW r, r = DirAdd(v, d, name, i)
  PROVE  Well(r.v) /\ SameModes(r.v.ino, v.ino) /\ (r.ok => ~Failed(r.v))
<1> DEFINE en == [ino |-> i, name |-> name]
           m == BmapAlloc(v, v.ino[d].addr, NextLbn(v.ino[d]))
           free == FreeSlots(v, d)
<1>1. r = IF v.error THEN [v |-> v, ok |-> FALSE]
          ELSE IF free # {} THEN [v |-> PutSlot(v, d, Min(free), en), ok |-> TRUE]
          ELSE AppendEntry(d, v.ino[d], en, m)
  BY DEF DirAdd
<1>2. EntOk(en)
  BY DEF EntOk
<1>3. SameModes(v.ino, v.ino)
  BY DEF SameModes
<1>4. CASE v.error = TRUE
  <2>1. r.v = v /\ r.ok = FALSE
    BY <1>1, <1>4
  <2> QED BY <1>3, <2>1
<1>5. CASE v.error = FALSE
  <2>1. PICK P : Good(v, P)
    BY <1>5, GoodLive
  <2>2. MayParent(v.ino[d].mode)
    BY <1>5 DEF Failed, Dead
  <2>3. /\ free \subseteq SlotsInSize(v, d) /\ free \in SUBSET Nat
        /\ v.ino[d].mode = "dir" => 1 \notin free
    <3>1. SlotsInSize(v, d) \subseteq Nat
      BY <2>1, SlotsAre
    <3>2. v.ino[d].mode = "dir" => EntryAt(v, d, 1).ino # 0
      BY <2>1, <2>2, SlotOne
    <3> QED BY <3>1, <3>2 DEF FreeSlots
  <2> HIDE DEF free
  <2>4. CASE free # {}
    <3> DEFINE s == Min(free)
               w == PutSlot(v, d, s, en)
    <3>1. s \in free
      BY <2>3, <2>4, MinIs
    <3>2. r.v = w
      BY <1>1, <1>5, <2>4
    <3> HIDE DEF s, en
    <3>3. s \in SlotsInSize(v, d) /\ (v.ino[d].mode = "dir" => s # 1)
      BY <2>3, <3>1
    <3>4. w = PutSlot(v, d, s, en)
      OBVIOUS
    <3> HIDE DEF w
    <3>5. Good(w, P) /\ w.ino = v.ino
      BY <1>2, <2>1, <2>2, <3>3, <3>4, PutSlotGood
    <3>6. Well(w) /\ ~Failed(w)
      BY <3>5 DEF Well, Good, Sound, Live, Failed, Dead
    <3> QED BY <1>3, <3>2, <3>5, <3>6
  <2>5. CASE free = {}
    <3>1. r = AppendEntry(d, v.ino[d], en, m)
      BY <1>1, <1>5, <2>5
    <3>2. m = BmapAlloc(v, v.ino[d].addr, NextLbn(v.ino[d]))
      OBVIOUS
    <3> HIDE DEF m, en
    <3> QED BY <1>2, <2>1, <2>2, <3>1, <3>2, AppendGood
  <2> QED BY <2>4, <2>5
<1> QED BY <1>4, <1>5, GoodLive

-------------------------------------------------------------------------------
(* New inodes.                                                               *)
(* An inode that has no address refers to no block.                          *)
LEMMA NoneReferred ==
  ASSUME NEW blk, NEW A, NEW i \in Ino, A[i] = NoAddr
  PROVE  \A p \in Places : Map(blk, A)[i][p] = 0
<1>1. NoAddr[LADDR] = 0
  BY Numbers DEF NoAddr
<1> QED BY <1>1, Numbers DEF Map, Ref, NoAddr, Places

Others(t, u, i) == \A j \in Ino : j # i => t[j] = u[j]

(* ialloc_scan answers with a free inode, which the root is not.              *)
LEMMA IallocFree ==
  ASSUME NEW v, FreeInos(v) # {}, NEW i, i = IallocScan(v)
  PROVE  /\ i \in Ino /\ v.ino[i].mode = "none"
         /\ \A d \in Ino : v.ino[d].mode # "none" => d # i
<1>1. FreeInos(v) \in SUBSET Nat
  BY DEF FreeInos, Ino
<1>2. \E x \in FreeInos(v) : \A y \in FreeInos(v) : x <= y
  BY <1>1, Least
<1>3. i \in FreeInos(v)
  BY <1>2 DEF IallocScan
<1> QED BY <1>3 DEF FreeInos

(* The record of a new inode, with its first block.                           *)
NewRec(r, mode, nlink, size, b) ==
  r = [mode |-> mode, nlink |-> nlink, size |-> size, addr |-> [NoAddr EXCEPT ![0] = b]]
(* So is the record of a new inode.                                          *)
LEMMA NewRecOk ==
  ASSUME NEW mode \in {"file", "dir"}, NEW b \in Blk0, mode = "dir" => b # 0,
         NEW nlink \in Int, NEW size \in Nat, mode = "dir" => size >= 2,
         NEW r, NewRec(r, mode, nlink, size, b)
  PROVE  /\ RecOk(r) /\ r.mode = mode /\ r.addr = [NoAddr EXCEPT ![0] = b]
         /\ b = 0 => r.addr = NoAddr
<1>1. 0 \in 0 .. LADDR /\ NoAddr \in Addrs0 /\ NoAddr[0] = 0
  BY Numbers DEF NoAddr, Addrs0, Blk0
<1> DEFINE a == [NoAddr EXCEPT ![0] = b]
<1>2. a \in Addrs0 /\ a[0] = b /\ (b = 0 => a = NoAddr)
  BY <1>1 DEF Addrs0
<1> HIDE DEF a
<1>3. r = [mode |-> mode, nlink |-> nlink, size |-> size, addr |-> a]
  BY DEF NewRec, a
<1>4. r \in InodeRec
  BY <1>2, <1>3 DEF InodeRec, Modes0
<1> QED BY <1>2, <1>3, <1>4 DEF RecOk, a

(* The record put on the disk, and counted.                                   *)
Counted(w, v, i, r) == \E n : w = [SetIno(v, i, r) EXCEPT !.tinode = n]
(* A volume stays good when an inode is written and counted.                 *)
LEMMA PutCounted ==
  ASSUME NEW v, NEW B, NEW J, NEW Q, Sound(v, B, J, Q, {}), Inodes(v.ino),
         NEW i \in Ino, NEW r, RecOk(r), i = ROOTINO => r.mode = "dir",
         Becoming(B, J, v.ino, i, r), NEW w, Counted(w, v, i, r)
  PROVE  Good(w, Q) /\ Others(w.ino, v.ino, i) /\ w.ino[i] = r
<1> DEFINE x == SetIno(v, i, r)
<1>1. PICK n : w = [x EXCEPT !.tinode = n]
  BY DEF Counted
<1>2. x = SetIno(v, i, r)
  OBVIOUS
<1> HIDE DEF x
<1>3. Good(x, Q) /\ Put1(x.ino, v.ino, i, r)
  BY <1>2, PutIno
<1>4. Well(x)
  BY <1>3 DEF Well
<1>5. Good(w, Q) /\ w.ino = x.ino
  BY <1>1, <1>3, <1>4, SyncGood
<1>6. x.ino[i] = r /\ \A j \in Ino : j # i => x.ino[j] = v.ino[j]
  BY <1>3, TablePut
<1> QED BY <1>5, <1>6 DEF Others

(* None of this happens on a failed handle.                                   *)
LEMMA FailedCounted ==
  ASSUME NEW v, Failed(v), NEW i, NEW r, NEW w, Counted(w, v, i, r)
  PROVE  Failed(w) /\ w.ino = v.ino
<1>1. PICK n : w = [v EXCEPT !.tinode = n]
  BY FailedStays DEF Counted
<1>2. Failed(w)
  BY <1>1, FailedStays
<1>3. Well(v)
  BY DEF Well
<1>4. w.ino = v.ino
  BY <1>1, <1>3, SyncGood
<1> QED BY <1>2, <1>4

(* A free inode of a good volume refers to no block.                          *)
Unreferring(R, i) == \A p \in Places : R[i][p] = 0
LEMMA FreeRefers ==
  ASSUME NEW v, NEW P, Good(v, P), NEW i \in Ino, ~Failed(v) => v.ino[i].mode = "none"
  PROVE  Addrs(v.ino)[i] = NoAddr /\ Unreferring(Map(v.blk, Addrs(v.ino)), i)
<1>1. ~Failed(v)
  BY DEF Good, Sound, Live, Failed, Dead
<1>2. v.ino[i].addr = NoAddr
  BY <1>1 DEF Good, Inodes, RecOk
<1>3. Addrs(v.ino)[i] = NoAddr
  BY <1>2 DEF Addrs
<1> QED BY <1>3, NoneReferred DEF Unreferring

(* The addresses of an inode given up, in the form needed below.             *)
LEMMA DroppedSound ==
  ASSUME NEW v, NEW A, NEW K, NEW P, NEW H, Sound(v, A, K, P, H), NEW i \in Ino,
         NEW B, Readdressed(B, A, i, NoAddr),
         NEW J, \A j \in Ino : j # i => J[j] = K[j],
         NEW G, H \subseteq G, \A p \in Places : Loosens(G, Map(v.blk, A), i, p)
  PROVE  Sound(v, B, J, P, G)
BY DropSound

(* An inode that referred to nothing becomes of another kind.                *)
OthersAs(J, K, i) == \A j \in Ino : j # i => J[j] = K[j]
LEMMA KindSound ==
  ASSUME NEW v, NEW A, NEW K, NEW P, NEW H, Sound(v, A, K, P, H),
         NEW i \in Ino, Unreferring(Map(v.blk, A), i),
         NEW B, Readdressed(B, A, i, NoAddr), NEW J, OthersAs(J, K, i)
  PROVE  /\ Sound(v, B, J, P, H)
         /\ \A b : Fresh(Map(v.blk, A), P, b) => Fresh(Map(v.blk, B), P, b)
<1>1. \A p \in Places : Loosens(H, Map(v.blk, A), i, p)
  BY DEF Loosens, Unreferring
<1>2. \A j \in Ino : j # i => J[j] = K[j]
  BY DEF OthersAs
<1>3. H \subseteq H
  OBVIOUS
<1>4. Sound(v, B, J, P, H)
  BY <1>1, <1>2, <1>3, DroppedSound
<1>5. A \in [Ino -> Addrs0] /\ Indirects(v.blk, A)
  BY DEF Sound, Owns
<1>6. \A j \in Ino : \A p \in Places :
           Map(v.blk, B)[j][p] = IF j = i THEN 0 ELSE Map(v.blk, A)[j][p]
  BY <1>5, Drop
<1>7. \A b : Fresh(Map(v.blk, A), P, b) => Fresh(Map(v.blk, B), P, b)
  BY <1>6, Numbers DEF Fresh
<1> QED BY <1>4, <1>7

(* write_new_inode of an empty file.                                          *)
LEMMA NewFileWell ==
  ASSUME NEW v, Well(v), NEW i \in Ino, i # ROOTINO, ~Failed(v) => v.ino[i].mode = "none",
         NEW nlink \in Int, NEW w, w = WriteNewInode(v, i, "file", 0, nlink, 0)
  PROVE  Well(w) /\ Others(w.ino, v.ino, i) /\ (~Failed(w) => w.ino[i].mode = "file")
<1> DEFINE r == [mode |-> "file", nlink |-> nlink, size |-> 0,
                 addr |-> [NoAddr EXCEPT ![0] = 0]]
<1>1. NewRec(r, "file", nlink, 0, 0)
  BY DEF NewRec
<1>2. Counted(w, v, i, r)
  BY DEF Counted, WriteNewInode
<1> HIDE DEF r
<1>3. 0 \in Blk0 /\ 0 \in Nat
  BY DEF Blk0
<1>4. RecOk(r) /\ r.mode = "file" /\ r.addr = NoAddr
  <2>1. nlink \in Int /\ 0 \in Nat /\ "file" \in {"file", "dir"} /\ "file" # "dir"
    OBVIOUS
  <2> QED BY ONLY <1>1, <1>3, <2>1, NewRecOk
<1>5. CASE Failed(v)
  <2>1. Failed(w) /\ w.ino = v.ino
    BY <1>2, <1>5, FailedCounted
  <2> QED BY <2>1 DEF Well, Others
<1>6. ASSUME NEW P, Good(v, P)
      PROVE  Good(w, P) /\ Others(w.ino, v.ino, i) /\ w.ino[i] = r
  <2> DEFINE A == Addrs(v.ino)
             K == Modes(v.ino)
             B == [A EXCEPT ![i] = NoAddr]
             J == [K EXCEPT ![i] = KindOf("file")]
             H == {}
  <2>1. Sound(v, A, K, P, H) /\ Inodes(v.ino)
    BY <1>6 DEF Good
  <2>2. Becoming(B, J, v.ino, i, r)
    BY <1>4 DEF Becoming
  <2>3. Readdressed(B, A, i, NoAddr) /\ OthersAs(J, K, i)
    BY DEF Readdressed, Modes, OthersAs
  <2>6. Unreferring(Map(v.blk, A), i)
    BY <1>6, FreeRefers
  <2> HIDE DEF A, K, B, J, H
  <2>4. Sound(v, B, J, P, H)
    BY <2>1, <2>3, <2>6, KindSound
  <2>5. Sound(v, B, J, P, {})
    BY <2>4 DEF H
  <2> QED BY <1>2, <1>4, <2>1, <2>2, <2>5, PutCounted
<1>7. ASSUME NEW P, Good(w, P) PROVE Well(w)
  BY <1>7 DEF Well
<1> QED BY <1>4, <1>5, <1>6, <1>7 DEF Well

(* A block with the two dots of a new directory, and perhaps one name more.    *)
DotsBlk(x, i, d) ==
  \E en : /\ en.ino # ROOTINO
          /\ x = DirBlk([s \in 0 .. NDIR - 1 |->
                           IF s = 0 THEN [ino |-> i, name |-> "."]
                           ELSE IF s = 1 THEN [ino |-> d, name |-> ".."]
                           ELSE IF s = 2 THEN en ELSE NoEntry])
(* The first block of a new directory has its "..".                          *)
LEMMA DotsBlkOk ==
  ASSUME NEW i \in Ino, NEW d \in Ino, NEW x, DotsBlk(x, i, d)
  PROVE  BlkOk(x) /\ DotSlot(x)
<1>1. PICK en : /\ en.ino # ROOTINO
                /\ x = DirBlk([s \in 0 .. NDIR - 1 |->
                           IF s = 0 THEN [ino |-> i, name |-> "."]
                           ELSE IF s = 1 THEN [ino |-> d, name |-> ".."]
                           ELSE IF s = 2 THEN en ELSE NoEntry])
  BY DEF DotsBlk
<1> DEFINE u == [s \in 0 .. NDIR - 1 |->
                           IF s = 0 THEN [ino |-> i, name |-> "."]
                           ELSE IF s = 1 THEN [ino |-> d, name |-> ".."]
                           ELSE IF s = 2 THEN en ELSE NoEntry]
<1>2. u = [s \in 0 .. NDIR - 1 |-> u[s]]
  OBVIOUS
<1>3. 1 \in 0 .. NDIR - 1 /\ 0 \in 0 .. NDIR - 1
  BY Numbers
<1>4. u[1] = [ino |-> d, name |-> ".."]
  BY <1>3
<1>5. ASSUME NEW s \in 0 .. NDIR - 1, u[s].ino = ROOTINO PROVE u[s].name \notin Name
  <2>1. NoEntry.ino # ROOTINO
    BY EmptyEntry DEF ROOTINO
  <2>2. s \in {0, 1}
    BY <1>1, <1>5, <2>1
  <2>3. u[s].name = "." \/ u[s].name = ".."
    BY <2>2
  <2> QED BY <2>3, DotNames
<1>6. x.k = "dir" /\ x.e = u /\ AsDir(x) = u
  BY <1>1 DEF DirBlk, AsDir
<1> HIDE DEF u
<1>7. NoCache = [s \in 0 .. NICFREE - 1 |-> NoCache[s]]
  BY DEF NoCache
<1>8. AsFree(x).free = NoCache /\ AsFree(x).nfree \in Int
  BY <1>6 DEF AsFree, FreeBlk
<1>9. BlkOk(x)
  BY <1>2, <1>5, <1>6, <1>7, <1>8 DEF BlkOk
<1>10. DotSlot(x)
  BY <1>4, <1>6 DEF DotSlot
<1> QED BY <1>9, <1>10

(* What an operation has at hand when it has no place to fill.                *)
NoPlaces(G) == \A j, m : <<j, m>> \notin G
(* A new block b made the first of inode i, a directory from now on.            *)
LEMMA FirstBlock ==
  ASSUME NEW v, NEW A, NEW J, NEW Q, NEW H0, Sound(v, A, J, Q, H0),
         NEW i \in Ino, A[i] = NoAddr,
         J[i] = "dir", NEW b, Fresh(Map(v.blk, A), Q, b),
         NEW G, Keeps(G, H0, b), NoPlaces(G),
         NEW B, Readdressed(B, A, i, [NoAddr EXCEPT ![0] = b]),
         NEW d \in Ino, NEW x, DotsBlk(x, i, d), NEW w, w = SetBlk(v, b, x)
  PROVE  /\ Sound(w, B, J, Q, G) /\ w.ino = v.ino /\ b \in Block /\ b # 0
         /\ \A e : Fresh(Map(v.blk, A), Q, e) /\ e # b => Fresh(Map(w.blk, B), Q, e)
<1> DEFINE s == 0
           H == G \cup {<<i, s>>}
<1>1. s \in 0 .. LADDR - 1 /\ s \in Lbns /\ s \in Places /\ s # -1
  BY Numbers DEF Lbns, Places
<1>2. B = [A EXCEPT ![i] = [A[i] EXCEPT ![s] = b]]
  BY DEF Readdressed
<1>3. b \in Block /\ b # 0
  BY Numbers DEF Fresh
<1>12. A[i][s] = 0
  BY <1>1, Numbers DEF NoAddr
<1>13. Keeps(H, H0, b) /\ <<i, s>> \in H
  BY DEF Keeps
<1> HIDE DEF s, H
<1>4. Sound(v, B, J, Q, H) /\ Sets(Map(v.blk, A), Map(v.blk, B), i, s, b)
  BY <1>1, <1>2, <1>12, <1>13, EnterDirect
<1>5. Map(v.blk, B)[i][s] = b
  BY <1>1, <1>4 DEF Sets
<1>6. BlkOk(x) /\ FitsAt(x, i, s, J[i])
  BY DotsBlkOk DEF FitsAt
<1>7. /\ b \in Block \ Q
      /\ \A j \in Ino : \A q \in Places : Map(v.blk, B)[j][q] = b => j = i /\ q = s
      /\ \A j \in Ino : B[j][LADDR] # b
  BY <1>1, <1>3, <1>4, <1>5, PlaceOnly
<1>8. ASSUME NEW j \in Ino, NEW m \in Lbns
      PROVE  /\ Map(v.blk, B)[j][m] = b /\ <<j, m>> \notin G => FitsAt(x, j, m, J[j])
             /\ Map(v.blk, B)[j][m] \notin {0, b} /\ <<j, m>> \in H => <<j, m>> \in G
  <2>1. m \in Places
    BY Numbers
  <2>2. Map(v.blk, B)[j][m] = b => j = i /\ m = s
    BY <1>7, <2>1
  <2>3. <<j, m>> \in H => j = i /\ m = s
    BY DEF H, NoPlaces
  <2> QED BY <1>5, <1>6, <2>2, <2>3
<1>14. \A e : Tag(e) \in H => Tag(e) \in G
  BY TagsApart DEF H
<1>9. Fitting(Map(v.blk, B), B, J, Q, H, G, b, x)
  BY <1>6, <1>7, <1>8, <1>14 DEF Fitting
<1>10. Sound(w, B, J, Q, G) /\ w.ino = v.ino /\ Map(w.blk, B) = Map(v.blk, B)
  BY <1>4, <1>9, WriteSound
<1>11. ASSUME NEW e, Fresh(Map(v.blk, A), Q, e), e # b PROVE Fresh(Map(w.blk, B), Q, e)
  <2>1. \A j \in Ino : \A p \in Places : Map(v.blk, B)[j][p] # e
    BY <1>4, <1>11 DEF Sets, Fresh
  <2> QED BY <1>10, <1>11, <2>1 DEF Fresh
<1> QED BY <1>3, <1>10, <1>11

(* write_new_inode of a directory, with its new block.                        *)
LEMMA NewDirWell ==
  ASSUME GarbageAssumption, NEW v, Well(v), NEW i \in Ino, i # ROOTINO, NEW d \in Ino,
         ~Failed(v) => v.ino[i].mode = "none", NEW w, w = WriteNewDir(Alloc(v), i, d)
  PROVE  Well(w) /\ Others(w.ino, v.ino, i)
<1> DEFINE a == Alloc(v)
           x == DirBlk(Dots(i, d))
           y == SetBlk(a.v, a.b, x)
           r == [mode |-> "dir", nlink |-> 2, size |-> 2, addr |-> [NoAddr EXCEPT ![0] = a.b]]
<1>1. DotsBlk(x, i, d)
  <2> DEFINE u(en) == [s \in 0 .. NDIR - 1 |->
                           IF s = 0 THEN [ino |-> i, name |-> "."]
                           ELSE IF s = 1 THEN [ino |-> d, name |-> ".."]
                           ELSE IF s = 2 THEN en ELSE NoEntry]
  <2>1. NoEntry.ino # ROOTINO
    BY EmptyEntry DEF ROOTINO
  <2>2. Dots(i, d) = u(NoEntry)
    BY DEF Dots
  <2>3. x = DirBlk(u(NoEntry))
    BY <2>2
  <2> HIDE DEF x
  <2> QED BY <2>1, <2>3 DEF DotsBlk
<1>2. Counted(w, y, i, r) /\ NewRec(r, "dir", 2, 2, a.b)
  BY DEF Counted, WriteNewDir, WriteNewInode, NewRec
<1>3. y = SetBlk(a.v, a.b, x)
  OBVIOUS
<1>4. ASSUME Failed(a.v) PROVE Failed(w) /\ w.ino = a.v.ino
  <2> HIDE DEF a, x, r
  <2>1. y = a.v
    BY <1>4, FailedStays
  <2> HIDE DEF y
  <2> QED BY <1>2, <1>4, <2>1, FailedCounted
<1>5. CASE Failed(v)
  <2>1. Failed(a.v) /\ a.v.ino = v.ino
    BY <1>5, FailedStays
  <2> HIDE DEF a
  <2> QED BY <1>4, <2>1 DEF Well, Others
<1>6. ASSUME NEW P, Good(v, P) PROVE Well(w) /\ Others(w.ino, v.ino, i)
  <2> DEFINE A == Addrs(v.ino)
             K == Modes(v.ino)
             Z == [A EXCEPT ![i] = NoAddr]
             J == [K EXCEPT ![i] = "dir"]
             Q == P \ {a.b}
             B == [A EXCEPT ![i] = r.addr]
             H == {Tag(a.b)}
             G == {}
  <2>1. Sound(v, A, K, P, {}) /\ Inodes(v.ino)
    BY <1>6 DEF Good
  <2>2. /\ a.v.ino = v.ino
        /\ \/ Failed(a.v) /\ a.b = 0
           \/ a.b \in P /\ a.v.blk = v.blk /\ Sound(a.v, A, K, Q, H)
    <3> HIDE DEF A, K
    <3> QED BY <2>1, AllocOne
  <2>5. Unreferring(Map(v.blk, A), i)
    BY <1>6, FreeRefers
  <2>3. CASE Failed(a.v)
    <3> HIDE DEF a, y, x, r
    <3> QED BY <1>4, <2>2, <2>3 DEF Well, Others
  <2>4. CASE a.b \in P /\ a.v.blk = v.blk /\ Sound(a.v, A, K, Q, H)
    <3> DEFINE b == a.b
               u == a.v
    <3>1. Readdressed(Z, A, i, NoAddr) /\ OthersAs(J, K, i)
      BY DEF Readdressed, Modes, OthersAs
    <3>2. J[i] = "dir" /\ Z[i] = NoAddr
      BY DEF Modes, Addrs
    <3>3. r.addr = [NoAddr EXCEPT ![0] = b] /\ r.mode = "dir"
      OBVIOUS
    <3>4. Readdressed(B, Z, i, [NoAddr EXCEPT ![0] = b])
      BY <3>3 DEF Readdressed, Addrs
    <3>5. Becoming(B, J, u.ino, i, r)
      BY <2>2, <3>3, KindIs DEF Becoming
    <3>6. Fresh(Map(u.blk, A), Q, b) /\ b \in P /\ P \subseteq Block
      <4>1. P \subseteq Block /\ Apart(Map(v.blk, A), P) /\ b \in P /\ u.blk = v.blk
        BY <2>1, <2>4 DEF Sound, Owns
      <4> HIDE DEF a, A, b, u
      <4> QED BY <4>1, FreshTaken DEF b
    <3>14. Keeps(G, H, b) /\ NoPlaces(G)
      BY DEF Keeps, NoPlaces
    <3>15. Unreferring(Map(u.blk, A), i)
      <4> HIDE DEF A, H
      <4> QED BY <2>4, <2>5
    <3> HIDE DEF A, K, Z, J, Q, B, H, G, r, x, y
    <3>7. Sound(u, Z, J, Q, H) /\ Fresh(Map(u.blk, Z), Q, b)
      <4> HIDE DEF a, b, u
      <4>1. Sound(u, A, K, Q, H)
        BY <2>4 DEF u
      <4>2. i \in Ino
        OBVIOUS
      <4>3. Sound(u, Z, J, Q, H) /\ \A e : Fresh(Map(u.blk, A), Q, e) => Fresh(Map(u.blk, Z), Q, e)
        BY ONLY <3>1, <3>15, <4>1, <4>2, KindSound
      <4> QED BY <3>6, <4>3
    <3>8. y = SetBlk(u, b, x)
      BY <1>3
    <3>9. NewRec(r, "dir", 2, 2, b) /\ u.ino = v.ino
      BY <1>2, <2>2
    <3> HIDE DEF a, b, u
    <3>10. Sound(y, B, J, Q, {}) /\ y.ino = u.ino /\ b \in Block /\ b # 0
      <4>2. i \in Ino /\ d \in Ino
        OBVIOUS
      <4>1. Sound(y, B, J, Q, G) /\ y.ino = u.ino /\ b \in Block /\ b # 0
        BY ONLY <1>1, <3>2, <3>4, <3>7, <3>8, <3>14, <4>2, FirstBlock
      <4> QED BY <4>1 DEF G
    <3>11. RecOk(r) /\ r.mode = "dir"
      <4>1. b \in Blk0
        BY <3>10 DEF Blk0
      <4>2. 2 \in Int /\ 2 \in Nat /\ 2 >= 2 /\ "dir" \in {"file", "dir"}
        OBVIOUS
      <4>3. NewRec(r, "dir", 2, 2, b) /\ b # 0
        BY <3>9, <3>10
      <4> QED BY ONLY <4>1, <4>2, <4>3, NewRecOk
    <3>12. Becoming(B, J, y.ino, i, r) /\ Inodes(y.ino)
      BY <2>1, <3>5, <3>9, <3>10
    <3>13. Good(w, Q) /\ Others(w.ino, y.ino, i)
      BY <1>2, <3>10, <3>11, <3>12, PutCounted
    <3> QED BY <3>9, <3>10, <3>13 DEF Well
  <2> QED BY <2>2, <2>3, <2>4
<1> QED BY <1>5, <1>6 DEF Well

-------------------------------------------------------------------------------
(* Inodes given up.                                                          *)
OtherModes(t, u, i) == \A j \in Ino : j # i => t[j].mode = u[j].mode

(* A free inode's record.                                                    *)
LEMMA FreeInoOk ==
  RecOk(FreeIno) /\ FreeIno.addr = NoAddr /\ FreeIno.mode = "none"
<1>1. NoAddr \in Addrs0
  BY Numbers DEF NoAddr, Addrs0, Blk0
<1> QED BY <1>1 DEF FreeIno, RecOk, InodeRec, Modes0

(* The blocks freed, the inode and its kind not yet.                          *)
LEMMA DroppedBlocks ==
  ASSUME GarbageAssumption, NEW v, NEW P, Good(v, P), NEW i \in Ino, i # ROOTINO,
         NEW w, w = IfreeBlocks(v, v.ino[i].addr)
  PROVE  /\ w.ino = v.ino
         /\ \E B, J, Q : Sound(w, B, J, Q, {}) /\ Becoming(B, J, v.ino, i, FreeIno)
<1> DEFINE A == Addrs(v.ino)
           K == Modes(v.ino)
           B == [A EXCEPT ![i] = NoAddr]
           J == [K EXCEPT ![i] = KindOf(FreeIno.mode)]
           H == {}
<1>1. Sound(v, A, K, P, {}) /\ w = IfreeBlocks(v, A[i])
  BY DEF Good, Addrs
<1>2. Readdressed(B, A, i, NoAddr) /\ \A j \in Ino : j # i => J[j] = K[j]
  BY DEF Readdressed, Modes
<1>3. Becoming(B, J, v.ino, i, FreeIno)
  BY FreeInoOk DEF Becoming
<1> HIDE DEF A, K, B, J
<1>4. w.ino = v.ino /\ \E Q : Sound(w, B, J, Q, {})
  BY <1>1, <1>2, IfreeSound
<1> QED BY <1>3, <1>4

(* FreeInode: the blocks, then the inode.                                     *)
LEMMA FreeInodeGood ==
  ASSUME GarbageAssumption, NEW v, NEW P, Good(v, P), NEW i \in Ino, i # ROOTINO,
         NEW w, w = FreeInode(v, i)
  PROVE  (\E Q : Good(w, Q)) /\ OtherModes(w.ino, v.ino, i)
<1> DEFINE x == IfreeBlocks(v, v.ino[i].addr)
<1>1. Counted(w, x, i, FreeIno)
  BY DEF Counted, FreeInode
<1>2. x = IfreeBlocks(v, v.ino[i].addr)
  OBVIOUS
<1> HIDE DEF x
<1>3. /\ x.ino = v.ino
      /\ \E B, J, Q : Sound(x, B, J, Q, {}) /\ Becoming(B, J, v.ino, i, FreeIno)
  BY <1>2, DroppedBlocks
<1>4. PICK B, J, Q : Sound(x, B, J, Q, {}) /\ Becoming(B, J, v.ino, i, FreeIno)
  BY <1>3
<1>5. Inodes(x.ino) /\ Becoming(B, J, x.ino, i, FreeIno)
  BY <1>3, <1>4 DEF Good
<1>6. Good(w, Q) /\ Others(w.ino, x.ino, i)
  BY <1>1, <1>4, <1>5, FreeInoOk, PutCounted
<1> QED BY <1>3, <1>6 DEF Others, OtherModes

(* One link fewer.                                                            *)
LEMMA DropLinkGood ==
  ASSUME GarbageAssumption, NEW v, NEW P, Good(v, P), NEW i \in Ino, i # ROOTINO,
         NEW w, w = DropLink(v, i)
  PROVE  (\E Q : Good(w, Q)) /\ OtherModes(w.ino, v.ino, i)
<1>1. CASE v.ino[i].nlink - 1 <= 0
  <2>1. w = FreeInode(v, i)
    BY <1>1 DEF DropLink
  <2> QED BY <2>1, FreeInodeGood
<1>2. CASE ~(v.ino[i].nlink - 1 <= 0)
  <2> DEFINE n == -1
  <2>1. w = BumpNlink(v, i, n) /\ n \in Int
    BY <1>2 DEF DropLink
  <2> HIDE DEF n
  <2>2. Good(w, P) /\ SameModes(w.ino, v.ino)
    BY <2>1, BumpGood
  <2> QED BY <2>2 DEF SameModes, OtherModes
<1> QED BY <1>1, <1>2

(* A table in which i is free and the others are as in u or, the parent's,
   with another link count.                                                  *)
Unreffed(t, u, i) ==
  /\ t = [j \in Ino |-> t[j]] /\ t[i] = FreeIno
  /\ \A j \in Ino : j # i =>
       RecOk(t[j]) /\ t[j].mode = u[j].mode /\ t[j].addr = u[j].addr
(* The table of inodes without one of them.                                  *)
LEMMA UnreffedIs ==
  ASSUME NEW u, Inodes(u), NEW i \in Ino, i # ROOTINO, NEW t, Unreffed(t, u, i),
         NEW B, NEW J, Becoming(B, J, u, i, FreeIno)
  PROVE  Inodes(t) /\ B = Addrs(t) /\ J = Modes(t) /\ OtherModes(t, u, i)
<1>1. \A j \in Ino : RecOk(t[j])
  BY FreeInoOk DEF Unreffed
<1>2. t[ROOTINO].mode = "dir"
  BY Numbers DEF Unreffed, Inodes
<1>3. Inodes(t)
  BY <1>1, <1>2 DEF Inodes, Unreffed
<1>4. B = Addrs(t) /\ J = Modes(t)
  BY DEF Becoming, Unreffed, Addrs, Modes
<1> QED BY <1>3, <1>4 DEF OtherModes, Unreffed

(* unref_inode of a directory: the parent's record and the old one's i-list
   block are written one after the other.                                    *)
LEMMA UnrefTable ==
  ASSUME NEW u, Inodes(u), NEW i \in Ino, NEW p \in Ino, NEW r, RecOk(r),
         r.mode = u[p].mode, r.addr = u[p].addr, NEW s, Put1(s, u, p, r),
         NEW f, Put1(f, u, i, FreeIno), NEW t, PutBlock(t, s, i, f)
  PROVE  Unreffed(t, u, i)
<1>1. i \in IlistBlock(i)
  BY DEF IlistBlock
<1>2. /\ f[i] = FreeIno /\ \A j \in Ino : j # i => f[j] = u[j]
  BY DEF Put1, Inodes
<1>3. s[p] = r /\ \A j \in Ino : j # p => s[j] = u[j]
  BY DEF Put1, Inodes
<1>4. t = [j \in Ino |-> t[j]] /\ \A j \in Ino : t[j] = IF j \in IlistBlock(i) THEN f[j] ELSE s[j]
  BY DEF PutBlock
<1>5. ASSUME NEW j \in Ino, j # i
      PROVE  RecOk(t[j]) /\ t[j].mode = u[j].mode /\ t[j].addr = u[j].addr
  <2>1. RecOk(u[j])
    BY DEF Inodes
  <2>2. t[j] = u[j] \/ (j = p /\ t[j] = r)
    BY <1>2, <1>3, <1>4, <1>5
  <2> QED BY <2>1, <2>2
<1> QED BY <1>1, <1>2, <1>4, <1>5 DEF Unreffed

(* unref_inode, of a directory and of a file.                                 *)
LEMMA UnrefGood ==
  ASSUME GarbageAssumption, NEW v, NEW P, Good(v, P), NEW i \in Ino, i # ROOTINO,
         NEW p \in Ino, NEW w, w = UnrefInode(v, i, p)
  PROVE  (\E Q : Good(w, Q)) /\ OtherModes(w.ino, v.ino, i)
<1>1. CASE v.ino[i].mode = "dir"
  <2> DEFINE x == IfreeBlocks(v, v.ino[i].addr)
             n == x.tinode + 1
             y == [x EXCEPT !.tinode = n]
             r == [y.ino[p] EXCEPT !.nlink = @ + -1]
             z == SetIno(y, p, r)
             f == [v.ino EXCEPT ![i] = FreeIno]
  <2>1. w = SetIlistBlock(z, i, f)
    BY <1>1 DEF UnrefInode, BumpNlink
  <2>2. x = IfreeBlocks(v, v.ino[i].addr)
    OBVIOUS
  <2>3. y = [x EXCEPT !.tinode = n] /\ z = SetIno(y, p, r) /\ Put1(f, v.ino, i, FreeIno)
    BY DEF Put1
  <2>4. r = [y.ino[p] EXCEPT !.nlink = @ + -1]
    OBVIOUS
  <2> HIDE DEF x, n, y, r, z, f
  <2>5. /\ x.ino = v.ino
        /\ \E B, J, Q : Sound(x, B, J, Q, {}) /\ Becoming(B, J, v.ino, i, FreeIno)
    BY <2>2, DroppedBlocks
  <2>6. PICK B, J, Q : Sound(x, B, J, Q, {}) /\ Becoming(B, J, v.ino, i, FreeIno)
    BY <2>5
  <2>7. IsVolume(x) /\ x.error = FALSE
    BY <2>6 DEF Sound, Live
  <2>8. Like(y, x) /\ y.ino = x.ino
    BY <2>3, <2>7, SyncIs
  <2>9. IsVolume(y) /\ y.error = FALSE
    BY <2>7, <2>8 DEF Like
  <2>10. Like(z, y) /\ Put1(z.ino, y.ino, p, r)
    BY <2>3, <2>9, SetInoIs
  <2>11. IsVolume(z) /\ z.error = FALSE
    BY <2>9, <2>10 DEF Like
  <2>12. Like(w, z) /\ PutBlock(w.ino, z.ino, i, f)
    BY <2>1, <2>11, SetIlistIs
  <2>13. RecOk(r) /\ r.mode = v.ino[p].mode /\ r.addr = v.ino[p].addr
    <3>1. y.ino[p] = v.ino[p] /\ RecOk(v.ino[p]) /\ v.ino[p] \in InodeRec
      BY <2>5, <2>8, DirIs
    <3>2. r = [v.ino[p] EXCEPT !.nlink = @ + -1]
      BY <2>4, <3>1
    <3>3. v.ino[p].nlink + -1 \in Int
      BY <3>1 DEF InodeRec
    <3> QED BY <3>1, <3>2, <3>3 DEF RecOk, InodeRec
  <2>14. Put1(z.ino, v.ino, p, r) /\ Inodes(v.ino)
    BY <2>5, <2>8, <2>10 DEF Good
  <2>15. Unreffed(w.ino, v.ino, i)
    BY <2>3, <2>12, <2>13, <2>14, UnrefTable
  <2>16. Inodes(w.ino) /\ B = Addrs(w.ino) /\ J = Modes(w.ino) /\ OtherModes(w.ino, v.ino, i)
    BY <2>6, <2>14, <2>15, UnreffedIs
  <2>17. Sound(w, B, J, Q, {})
    <3> DEFINE H == {}
    <3>1. Sound(x, B, J, Q, H)
      BY <2>6
    <3> HIDE DEF H
    <3>2. Sound(y, B, J, Q, H)
      BY <2>8, <3>1, SoundLike
    <3>3. Sound(z, B, J, Q, H)
      BY <2>10, <3>2, SoundLike
    <3>4. Sound(w, B, J, Q, H)
      BY <2>12, <3>3, SoundLike
    <3> QED BY <3>4 DEF H
  <2>18. Good(w, Q)
    BY <2>16, <2>17 DEF Good
  <2> QED BY <2>16, <2>18
<1>2. CASE v.ino[i].mode # "dir"
  <2>1. w = DropLink(v, i)
    BY <1>2 DEF UnrefInode
  <2> QED BY <2>1, DropLinkGood
<1> QED BY <1>1, <1>2

-------------------------------------------------------------------------------
(* Paths.                                                                    *)
PathOp(p, S, x) == NamedFrom(p, S)
Walks == INSTANCE FoldRuns WITH Op <- PathOp

(* What the theorems assume of the callers: that a free inode, which only bytes
   that are no entries lead to, is no parent.                                *)
NoFreeParents == "none" \notin ParentKinds

(* What a path leads to is a directory, or a file that may be taken for one.  *)
LEMMA ParentIs ==
  ASSUME NoFreeParents, NEW v, NEW d \in Parents(v)
  PROVE  d \in Ino /\ MayParent(v.ino[d].mode)
<1> DEFINE q == [x \in Ino |-> x]
           base == {ROOTINO}
           n == NINO
<1>1. DOMAIN q = 1 .. n /\ n \in Nat
  BY Numbers DEF Ino
<1>2. PathEnds(v) = Walks!Left(v, base, q, n)
  BY <1>1 DEF PathEnds, FoldLeft, MapThenFoldSet, Max, Walks!Left, Walks!Leftmost, PathOp
<1>3. base \subseteq Ino
  BY Numbers
<1>4. \A S : S \subseteq Ino => NamedFrom(v, S) \subseteq Ino
  BY DEF NamedFrom
<1> HIDE DEF base, q, n
<1>5. PICK s : Walks!IsRun(s, v, base, q, n) /\ Walks!Left(v, base, q, n) = s[n]
  BY <1>1, Walks!LeftRun
<1> DEFINE T == {k \in 0 .. n : s[k] \subseteq Ino}
<1>6. 0 \in T
  BY <1>1, <1>3, <1>5 DEF Walks!IsRun
<1>7. ASSUME NEW k \in 1 .. n, k - 1 \in T PROVE k \in T
  <2>1. s[k - 1] \subseteq Ino /\ k \in 0 .. n
    BY <1>1, <1>7
  <2>2. s[k] = NamedFrom(v, s[k - 1])
    BY <1>5 DEF Walks!IsRun, PathOp
  <2> QED BY <1>4, <2>1, <2>2
<1>8. n \in T
  <2> HIDE DEF T
  <2> QED BY <1>1, <1>6, <1>7, Walks!UpTo
<1>9. d \in PathEnds(v) /\ v.ino[d].mode \in ParentKinds
  BY DEF Parents
<1>10. v.ino[d].mode = "dir" \/ (v.ino[d].mode = "file" /\ "file" \in ParentKinds)
  <2>1. ParentKinds \subseteq {"dir", "file", "none"}
    BY EngineAssumption, Zenon DEF EngineAssumption
  <2> QED BY <1>9, <2>1 DEF NoFreeParents
<1> QED BY <1>2, <1>5, <1>8, <1>9, <1>10 DEF MayParent

(* The slots read, and the first of a name among them.                        *)
LEMMA SlotsLen ==
  ASSUME NEW n \in Nat, NEW q, q = [x \in 1 .. n |-> q[x]]
  PROVE  Len(q) = n /\ DOMAIN q = 1 .. n
OBVIOUS

(* See above.                                                                *)
LEMMA FirstNamedIs ==
  ASSUME NEW n \in Nat, NEW q, q = [x \in 1 .. n |-> q[x]], NEW name,
         NEW x, x = FirstNamed(q, name), x # 0
  PROVE  x \in 1 .. n /\ q[x].ino # 0 /\ q[x].name = name
<1> DEFINE I == {i \in 1 .. n : q[i].ino # 0 /\ q[i].name = name}
<1>1. Len(q) = n
  BY SlotsLen
<1>2. x = IF I # {} THEN Min(I) ELSE 0
  BY <1>1 DEF FirstNamed, SelectInSeq
<1>3. I \in SUBSET Nat
  OBVIOUS
<1> HIDE DEF I
<1>4. x \in I
  BY <1>2, <1>3, MinIs
<1> QED BY <1>4 DEF I

(* The slots of a directory name the root by "." and ".." only.              *)
LEMMA ScanIs ==
  ASSUME NEW v, NEW P, Good(v, P), NEW d \in Ino
  PROVE  \E n \in Nat : /\ Scan(v, d) = [x \in 1 .. n |-> Scan(v, d)[x]]
                        /\ \A x \in 1 .. n : Scan(v, d)[x].ino = ROOTINO =>
                             Scan(v, d)[x].name \notin Name
<1>1. CASE v.ino[d].mode # "dir"
  <2>1. Scan(v, d) = [x \in 1 .. 0 |-> Scan(v, d)[x]] /\ 1 .. 0 = {}
    BY <1>1 DEF Scan
  <2> QED BY <2>1
<1>2. CASE v.ino[d].mode = "dir"
  <2> DEFINE A == Addrs(v.ino)
             K == Modes(v.ino)
             a == v.ino[d].addr
             m == (v.ino[d].size + NDIR - 1) \div NDIR
             addrs == DirAddrs(v, d)
             n == m * NDIR
             q == Scan(v, d)
             H == {}
  <2>1. v.ino[d].size \in Nat /\ A[d] = a /\ Sound(v, A, K, P, H)
    BY DirIs DEF Good
  <2>2. m \in Nat
    <3>1. v.ino[d].size + NDIR - 1 \in Nat
      BY <2>1, Numbers
    <3>2. \A s \in Nat : s \div NDIR \in Nat
      BY DivMod
    <3> QED BY <3>1, <3>2
  <2>3. addrs = [x \in 1 .. m |-> Bmap(v, a, x - 1)]
    BY DEF DirAddrs
  <2>4. q = SlotsOf(v, addrs)
    BY <1>2 DEF Scan
  <2> HIDE DEF A, K, a, m, addrs, q, H
  <2>5. Len(addrs) = m
    BY <2>2, <2>3, SlotsLen
  <2>6. q = [x \in 1 .. n |-> SlotOf(v, addrs[(x - 1) \div NDIR + 1], (x - 1) % NDIR)]
    BY <2>4, <2>5 DEF SlotsOf
  <2>7. n \in Nat
    BY <2>2, Numbers
  <2>8. ASSUME NEW x \in 1 .. n, q[x].ino = ROOTINO PROVE q[x].name \notin Name
    <3> DEFINE y == (x - 1) \div NDIR + 1
               e == (x - 1) % NDIR
               b == addrs[y]
    <3>1. y \in 1 .. m /\ e \in 0 .. NDIR - 1
      BY <2>2, SlotBlock
    <3>2. q[x] = SlotOf(v, b, e)
      BY <2>6
    <3> HIDE DEF n, e, y
    <3>3. b = Bmap(v, a, y - 1) /\ y - 1 \in Nat
      BY <2>2, <2>3, <3>1
    <3>4. NoEntry.ino # ROOTINO
      BY EmptyEntry DEF ROOTINO
    <3>5. b # 0
      BY <2>8, <3>2, <3>4 DEF SlotOf
    <3> DEFINE l == y - 1
    <3>6. b = Bmap(v, A[d], l) /\ l \in Nat
      BY <2>1, <3>3
    <3> HIDE DEF b, l
    <3>7. l \in Lbns /\ b = Map(v.blk, A)[d][l]
      <4>1. b = Bmap(v, A[d], l) /\ l \in Nat /\ d \in Ino /\ b # 0
        BY <3>5, <3>6
      <4>2. \A j \in Ino : \A k \in Nat :
              Bmap(v, A[j], k) # 0 => k \in Lbns /\ Bmap(v, A[j], k) = Map(v.blk, A)[j][k]
        BY BmapPlace
      <4> QED BY <4>1, <4>2
    <3>8. b \in Block
      <4>1. l \in Places
        BY <3>7, Numbers
      <4> QED BY <2>1, <3>5, <3>7, <4>1, PlaceOnly
    <3>9. BlkOk(v.blk[b])
      BY <2>1, <3>8 DEF Sound
    <3>10. q[x] = AsDir(v.blk[b])[e]
      BY <3>2, <3>5 DEF SlotOf
    <3> QED BY <2>8, <3>1, <3>9, <3>10 DEF BlkOk
  <2>9. q = [x \in 1 .. n |-> q[x]]
    BY <2>6
  <2> HIDE DEF n
  <2> QED BY <2>7, <2>8, <2>9 DEF q
<1> QED BY <1>1, <1>2

(* What a name callers pass leads to is not the root, and what it is in is a
   directory, which is not empty.                                            *)
LEMMA LookupIs ==
  ASSUME NEW v, NEW P, Good(v, P), NEW d \in Ino, NEW name \in Name,
         NEW i, i = Lookup(v, d, name), i # 0
  PROVE  i # ROOTINO /\ NonEmpty(v, d) /\ v.ino[d].mode = "dir"
<1> DEFINE q == Scan(v, d)
           x == FirstNamed(q, name)
<1>1. name # "" /\ name \notin {".", ".."}
  <2>1. {"", ".", ".."} \cap Name = {}
    BY VolumeAssumption, Zenon DEF VolumeAssumption
  <2> QED BY <2>1, Zenon
<1>2. i = InoAt(q, x)
  BY <1>1 DEF Lookup
<1>3. PICK n \in Nat : /\ q = [y \in 1 .. n |-> q[y]]
                       /\ \A y \in 1 .. n : q[y].ino = ROOTINO => q[y].name \notin Name
  BY ScanIs
<1>4. x = FirstNamed(q, name)
  OBVIOUS
<1>5. NonEmpty(v, d) <=> \E y \in DOMAIN q : q[y].ino # 0 /\ q[y].name \notin {".", ".."}
  BY DEF NonEmpty
<1>11. v.ino[d].mode # "dir" => DOMAIN q = {}
  BY DEF Scan
<1> HIDE DEF q, x
<1>6. x # 0 /\ i = q[x].ino
  BY <1>2 DEF InoAt
<1>7. x \in 1 .. n /\ q[x].ino # 0 /\ q[x].name = name
  BY <1>3, <1>4, <1>6, FirstNamedIs
<1>8. DOMAIN q = 1 .. n
  BY <1>3
<1>9. i # ROOTINO
  BY <1>3, <1>6, <1>7
<1>10. NonEmpty(v, d)
  BY <1>1, <1>5, <1>7, <1>8, Zenon
<1>12. v.ino[d].mode = "dir"
  BY <1>7, <1>8, <1>11
<1> QED BY <1>9, <1>10, <1>12

-------------------------------------------------------------------------------
(* File contents.                                                            *)

(* The state r of rw_pwrite's loop, on a volume v good before it: the
   addresses may be ahead of the inode.                                      *)
Ahead(r, A, K, i) == \E B, Q : Readdressed(B, A, i, r.addr) /\ Sound(r.v, B, K, Q, {})
Writing(r, v, A, K, i) ==
  /\ r = [v |-> r.v, addr |-> r.addr, n |-> r.n, stop |-> r.stop]
  /\ r.v.ino = v.ino /\ r.n \in Nat
  /\ Failed(r.v) \/ (Ahead(r, A, K, i) /\ (r.n = 0 => r.addr = A[i]))

(* What is written to a block of a file is that file's.                      *)
LEMMA FillFile ==
  ASSUME GarbageAssumption, NEW v, NEW A, NEW K, NEW P, NEW H, Sound(v, A, K, P, H),
         NEW i \in Ino, K[i] = KindOf("file"), NEW l \in Lbns, H \subseteq {<<i, l>>},
         NEW b, b = Map(v.blk, A)[i][l], b # 0, NEW w, w = SetBlk(v, b, Data(i, l))
  PROVE  Sound(w, A, K, P, {}) /\ w.ino = v.ino
<1> DEFINE c == Data(i, l)
<1>1. BlkOk(c) /\ w = SetBlk(v, b, c)
  BY BlksOk
<1>2. FitsAt(c, i, l, K[i])
  BY KindIs DEF FitsAt
<1> HIDE DEF c
<1> QED BY <1>1, <1>2, FillRef

(* Addresses changed twice.                                                   *)
LEMMA Twice ==
  ASSUME NEW A, NEW i \in Ino, NEW a, NEW B, Readdressed(B, A, i, a), B \in [Ino -> Addrs0],
         NEW c, NEW D, Readdressed(D, B, i, c)
  PROVE  Readdressed(D, A, i, c)
BY DEF Readdressed

(* One block more.                                                            *)
LEMMA WritingStep ==
  ASSUME GarbageAssumption, NEW v, NEW A \in [Ino -> Addrs0], NEW K,
         NEW i \in Ino, K[i] = KindOf("file"), NEW r, Writing(r, v, A, K, i), NEW l \in Nat,
         NEW w, w = Wrote(r, Data(i, l), BmapAlloc(r.v, r.addr, l))
  PROVE  Writing(w, v, A, K, i)
<1> DEFINE c == Data(i, l)
           m == BmapAlloc(r.v, r.addr, l)
           x == SetBlk(m.v, m.b, c)
<1>1. /\ r = [v |-> r.v, addr |-> r.addr, n |-> r.n, stop |-> r.stop]
      /\ r.v.ino = v.ino /\ r.n \in Nat
      /\ Failed(r.v) \/ (Ahead(r, A, K, i) /\ (r.n = 0 => r.addr = A[i]))
  BY DEF Writing
<1>2. w = IF m.b = 0 THEN [r EXCEPT !.v = m.v, !.addr = m.addr, !.stop = TRUE]
          ELSE [r EXCEPT !.v = x, !.addr = m.addr, !.n = @ + 1]
  BY DEF Wrote
<1>3. m = BmapAlloc(r.v, r.addr, l) /\ x = SetBlk(m.v, m.b, c)
  OBVIOUS
<1> HIDE DEF m, x, c
<1>4. /\ w = [v |-> w.v, addr |-> w.addr, n |-> w.n, stop |-> w.stop]
      /\ w.addr = m.addr
      /\ m.b = 0 => w.v = m.v /\ w.n = r.n
      /\ m.b # 0 => w.v = x /\ w.n = r.n + 1
  <2>1. CASE m.b = 0
    <3>1. w = [v |-> m.v, addr |-> m.addr, n |-> r.n, stop |-> TRUE]
      BY <1>1, <1>2, <2>1
    <3> QED BY <2>1, <3>1
  <2>2. CASE m.b # 0
    <3>1. w = [v |-> x, addr |-> m.addr, n |-> r.n + 1, stop |-> r.stop]
      BY <1>1, <1>2, <2>2
    <3> QED BY <2>2, <3>1
  <2> QED BY <2>1, <2>2
<1>5. w.n \in Nat
  BY <1>1, <1>4
<1>6. ASSUME Failed(m.v), m.v.ino = v.ino PROVE Failed(w.v) /\ w.v.ino = v.ino
  <2>1. x = m.v
    BY <1>3, <1>6, FailedStays
  <2> QED BY <1>4, <1>6, <2>1
<1>7. CASE Failed(r.v)
  <2>1. Failed(m.v) /\ m.v.ino = r.v.ino
    BY <1>3, <1>7, BmapAllocFailed
  <2> QED BY <1>1, <1>4, <1>5, <1>6, <2>1 DEF Writing
<1>8. CASE Ahead(r, A, K, i) /\ (r.n = 0 => r.addr = A[i])
  <2>1. PICK B, Q : Readdressed(B, A, i, r.addr) /\ Sound(r.v, B, K, Q, {})
    BY <1>8 DEF Ahead
  <2> DEFINE u == r.v
             D == [B EXCEPT ![i] = m.addr]
             H == {<<i, l>>}
             G == {}
  <2>2. B \in [Ino -> Addrs0] /\ B[i] = r.addr /\ Readdressed(D, B, i, m.addr)
    BY <2>1 DEF Sound, Owns, Readdressed
  <2>3. Sound(u, B, K, Q, {}) /\ m = BmapAlloc(u, B[i], l)
    BY <1>3, <2>1, <2>2
  <2> HIDE DEF u, D, H
  <2>4. Readdressed(D, A, i, m.addr)
    BY <2>1, <2>2, Twice
  <2>5. /\ m.v.ino = u.ino
        /\ (Failed(m.v) /\ m.b = 0) \/ Kept(m, u, B, i, l) \/ New(m, u, B, D, K, i, l)
    BY <2>2, <2>3, BmapAllocSound
  <2>6. u.ino = v.ino
    BY <1>1 DEF u
  <2>7. CASE Failed(m.v) /\ m.b = 0
    BY <1>4, <1>5, <1>6, <2>5, <2>6, <2>7 DEF Writing
  <2>8. CASE Kept(m, u, B, i, l) /\ m.b = 0
    <3>1. w.v = u /\ w.addr = r.addr /\ w.n = r.n
      BY <1>4, <2>2, <2>8 DEF Kept
    <3>2. Ahead(w, A, K, i)
      BY <2>1, <2>3, <3>1 DEF Ahead
    <3> QED BY <1>4, <1>5, <1>8, <2>6, <3>1, <3>2 DEF Writing
  <2>9. CASE Kept(m, u, B, i, l) /\ m.b # 0
    <3> DEFINE b == m.b
    <3>1. x = SetBlk(u, b, Data(i, l)) /\ b = Map(u.blk, B)[i][l] /\ l \in Lbns /\ b # 0
          /\ w.addr = r.addr
      BY <1>3, <1>4, <2>2, <2>9 DEF Kept, c
    <3>2. Sound(u, B, K, Q, G) /\ G \subseteq {<<i, l>>}
      BY <2>3
    <3> HIDE DEF b, G
    <3>3. Sound(x, B, K, Q, {}) /\ x.ino = u.ino
      BY <3>1, <3>2, FillFile
    <3>4. w.v = x /\ w.n # 0
      BY <1>1, <1>4, <2>9
    <3>5. Ahead(w, A, K, i)
      BY <2>1, <3>1, <3>3, <3>4 DEF Ahead
    <3> QED BY <1>4, <1>5, <2>6, <3>3, <3>4, <3>5 DEF Writing
  <2>10. CASE New(m, u, B, D, K, i, l)
    <3> DEFINE b == m.b
               z == m.v
    <3>1. l \in Lbns /\ b # 0 /\ b = Map(z.blk, D)[i][l] /\ \E R : Sound(z, D, K, R, H)
      BY <2>10 DEF New, H
    <3>2. x = SetBlk(z, b, Data(i, l)) /\ H \subseteq {<<i, l>>}
      BY <1>3 DEF c, H
    <3>3. w.v = x /\ w.n # 0
      BY <1>1, <1>4, <3>1
    <3>4. z.ino = v.ino
      BY <2>5, <2>6
    <3> HIDE DEF b, z
    <3>5. PICK R : Sound(z, D, K, R, H)
      BY <3>1
    <3>6. Sound(x, D, K, R, {}) /\ x.ino = z.ino
      BY <3>1, <3>2, <3>5, FillFile
    <3>7. Ahead(w, A, K, i)
      BY <1>4, <2>4, <3>3, <3>6 DEF Ahead
    <3> QED BY <1>4, <1>5, <3>3, <3>4, <3>6, <3>7 DEF Writing
  <2> QED BY <2>5, <2>7, <2>8, <2>9, <2>10
<1> QED BY <1>1, <1>7, <1>8

(* The loop: p is where the write starts and what it writes.                  *)
WriteOp(p, r, x) ==
  IF r.stop THEN r ELSE Wrote(r, p.c[x], BmapAlloc(r.v, r.addr, p.off + x - 1))
Writes == INSTANCE FoldRuns WITH Op <- WriteOp

Written0(v, i) == [v |-> v, addr |-> v.ino[i].addr, n |-> 0, stop |-> FALSE]
WrittenBy(v, i, off, c, n) ==
  FoldLeft(LAMBDA r, x : IF r.stop THEN r
                         ELSE Wrote(r, c[x], BmapAlloc(r.v, r.addr, off + x - 1)),
           Written0(v, i), [x \in 1 .. n |-> x])

(* It ends as it began.                                                       *)
LEMMA WriteLoop ==
  ASSUME GarbageAssumption, NEW v, NEW A \in [Ino -> Addrs0], NEW K, NEW i \in Ino,
         K[i] = KindOf("file"), Writing(Written0(v, i), v, A, K, i),
         NEW off \in Nat, NEW n \in Nat,
         NEW c, \A x \in 1 .. n : c[x] = Data(i, off + x - 1)
  PROVE  Writing(WrittenBy(v, i, off, c, n), v, A, K, i)
<1> DEFINE base == Written0(v, i)
           p == [off |-> off, c |-> c]
           q == [x \in 1 .. n |-> x]
<1>1. DOMAIN q = 1 .. n
  OBVIOUS
<1>2. WrittenBy(v, i, off, c, n) = Writes!Left(p, base, q, n)
  BY <1>1 DEF WrittenBy, FoldLeft, MapThenFoldSet, Max, Writes!Left, Writes!Leftmost, WriteOp
<1>3. p.off = off /\ p.c = c /\ \A x \in 1 .. n : q[x] = x
  OBVIOUS
<1> HIDE DEF base, p, q
<1>4. PICK s : Writes!IsRun(s, p, base, q, n) /\ Writes!Left(p, base, q, n) = s[n]
  BY Writes!LeftRun
<1> DEFINE T == {k \in 0 .. n : Writing(s[k], v, A, K, i)}
<1>5. 0 \in T
  BY <1>4 DEF Writes!IsRun, base
<1>6. ASSUME NEW k \in 1 .. n, k - 1 \in T PROVE k \in T
  <2> DEFINE r == s[k - 1]
             l == off + k - 1
             w == Wrote(r, Data(i, l), BmapAlloc(r.v, r.addr, l))
  <2>1. Writing(r, v, A, K, i) /\ k \in 0 .. n /\ l \in Nat
    BY <1>6
  <2>2. s[k] = WriteOp(p, r, k)
    BY <1>3, <1>4 DEF Writes!IsRun
  <2>3. s[k] = IF r.stop THEN r ELSE w
    BY <1>3, <2>2 DEF WriteOp
  <2>4. w = Wrote(r, Data(i, l), BmapAlloc(r.v, r.addr, l))
    OBVIOUS
  <2> HIDE DEF r, l, w
  <2>5. Writing(w, v, A, K, i)
    BY <2>1, <2>4, WritingStep
  <2> QED BY <2>1, <2>3, <2>5
<1>7. n \in T
  <2> HIDE DEF T
  <2> QED BY <1>5, <1>6, Writes!UpTo
<1> QED BY <1>2, <1>4, <1>7

(* On a failed handle it changes nothing.                                     *)
LEMMA WriteFailed ==
  ASSUME NEW v, Failed(v), NEW i, NEW off, NEW n \in Nat, NEW c
  PROVE  Failed(WrittenBy(v, i, off, c, n).v) /\ WrittenBy(v, i, off, c, n).v.ino = v.ino
<1> DEFINE base == Written0(v, i)
           p == [off |-> off, c |-> c]
           q == [x \in 1 .. n |-> x]
           Idle(r) == /\ r = [v |-> r.v, addr |-> r.addr, n |-> r.n, stop |-> r.stop]
                      /\ Failed(r.v) /\ r.v.ino = v.ino
<1>1. DOMAIN q = 1 .. n
  OBVIOUS
<1>2. WrittenBy(v, i, off, c, n) = Writes!Left(p, base, q, n)
  BY <1>1 DEF WrittenBy, FoldLeft, MapThenFoldSet, Max, Writes!Left, Writes!Leftmost, WriteOp
<1>3. Idle(base)
  BY DEF Written0
<1>4. ASSUME NEW r, Idle(r), NEW x PROVE Idle(WriteOp(p, r, x))
  <2> DEFINE m == BmapAlloc(r.v, r.addr, p.off + x - 1)
             w == Wrote(r, p.c[x], m)
  <2>1. Failed(m.v) /\ m.v.ino = v.ino
    BY <1>4, BmapAllocFailed
  <2> HIDE DEF m, p
  <2>2. SetBlk(m.v, m.b, p.c[x]) = m.v
    BY <2>1, FailedStays
  <2>3. Idle(w)
    <3>1. CASE m.b = 0
      <4>1. w = [r EXCEPT !.v = m.v, !.addr = m.addr, !.stop = TRUE]
        BY <3>1 DEF Wrote
      <4>2. w = [v |-> m.v, addr |-> m.addr, n |-> r.n, stop |-> TRUE]
        BY <1>4, <4>1
      <4> QED BY <2>1, <4>2
    <3>2. CASE m.b # 0
      <4>1. w = [r EXCEPT !.v = m.v, !.addr = m.addr, !.n = @ + 1]
        BY <2>2, <3>2 DEF Wrote
      <4>2. w = [v |-> m.v, addr |-> m.addr, n |-> r.n + 1, stop |-> r.stop]
        BY <1>4, <4>1
      <4> QED BY <2>1, <4>2
    <3> QED BY <3>1, <3>2
  <2>4. WriteOp(p, r, x) = IF r.stop THEN r ELSE w
    BY DEF WriteOp, m
  <2> HIDE DEF w, Idle
  <2> QED BY <1>4, <2>3, <2>4
<1> HIDE DEF base, p, q, Idle
<1>5. PICK s : Writes!IsRun(s, p, base, q, n) /\ Writes!Left(p, base, q, n) = s[n]
  BY Writes!LeftRun
<1> DEFINE T == {k \in 0 .. n : Idle(s[k])}
<1>6. 0 \in T
  BY <1>3, <1>5 DEF Writes!IsRun
<1>7. ASSUME NEW k \in 1 .. n, k - 1 \in T PROVE k \in T
  <2>1. Idle(s[k - 1]) /\ k \in 0 .. n
    BY <1>7
  <2>2. s[k] = WriteOp(p, s[k - 1], q[k])
    BY <1>5 DEF Writes!IsRun
  <2> QED BY <1>4, <2>1, <2>2
<1>8. n \in T
  <2> HIDE DEF T
  <2> QED BY <1>6, <1>7, Writes!UpTo
<1>9. Idle(WrittenBy(v, i, off, c, n))
  BY <1>2, <1>5, <1>8
<1> QED BY <1>9 DEF Idle

(* A file's record rewritten, with addresses ahead of it.                     *)
Resized(s, rec, a) == \E n \in Nat : s = [rec EXCEPT !.addr = a, !.size = n]
(* A volume stays good when a file grows by the blocks put ahead.            *)
LEMMA PutAhead ==
  ASSUME NEW v, NEW P, Good(v, P), NEW i \in Ino, v.ino[i].mode = "file",
         NEW u, u.ino = v.ino, NEW B, NEW Q, NEW a, Readdressed(B, Addrs(v.ino), i, a),
         Sound(u, B, Modes(v.ino), Q, {}),
         NEW s, Resized(s, v.ino[i], a), NEW w, w = SetIno(u, i, s)
  PROVE  Good(w, Q) /\ SameModes(w.ino, v.ino)
<1> DEFINE K == Modes(v.ino)
<1>1. PICK n \in Nat : s = [v.ino[i] EXCEPT !.addr = a, !.size = n]
  BY DEF Resized
<1>2. a \in Addrs0
  <2>1. B \in [Ino -> Addrs0] /\ Addrs(v.ino) = [j \in Ino |-> Addrs(v.ino)[j]]
    BY DEF Sound, Owns, Addrs
  <2>2. B[i] = a
    BY <2>1 DEF Readdressed
  <2> QED BY <2>1, <2>2
<1>3. v.ino[i] \in InodeRec /\ Inodes(v.ino)
  BY DirIs DEF Good
<1>4. RecOk(s) /\ s.mode = "file" /\ s.addr = a
  <2>1. s = [mode |-> "file", nlink |-> v.ino[i].nlink, size |-> n, addr |-> a]
    BY <1>1, <1>3 DEF InodeRec
  <2> QED BY <1>2, <1>3, <2>1 DEF RecOk, InodeRec
<1>5. K = [K EXCEPT ![i] = KindOf(s.mode)]
  BY <1>4 DEF Modes
<1>6. Becoming(B, K, u.ino, i, s) /\ Inodes(u.ino)
  BY <1>3, <1>4, <1>5 DEF Becoming, Readdressed
<1>7. i # ROOTINO
  BY <1>3 DEF Inodes
<1>8. Sound(u, B, K, Q, {})
  OBVIOUS
<1> HIDE DEF K
<1>9. Good(w, Q) /\ Put1(w.ino, u.ino, i, s)
  BY <1>4, <1>6, <1>7, <1>8, PutIno
<1>10. w.ino[i] = s /\ \A j \in Ino : j # i => w.ino[j] = u.ino[j]
  BY <1>4, <1>6, <1>7, <1>9, TablePut
<1> QED BY <1>4, <1>9, <1>10 DEF SameModes

(* rw_pwrite of a file.                                                       *)
LEMMA PwriteWell ==
  ASSUME GarbageAssumption, NEW v, Well(v), NEW i \in Ino, v.ino[i].mode = "file",
         NEW off \in Nat, NEW n \in Nat, NEW w, w = Pwrite(v, i, off, n)
  PROVE  Well(w.v) /\ SameModes(w.v.ino, v.ino)
<1> DEFINE c == [x \in 1 .. n |-> Data(i, off + x - 1)]
           r == WrittenBy(v, i, off, c, n)
           s == [v.ino[i] EXCEPT !.addr = r.addr,
                                 !.size = IF off + r.n > @ THEN off + r.n ELSE @]
           A == Addrs(v.ino)
           K == Modes(v.ino)
           base == Written0(v, i)
<1>1. Len(c) = n /\ \A x \in 1 .. n : c[x] = Data(i, off + x - 1)
  BY SlotsLen
<1>2. w = IF r.n = 0 THEN [v |-> r.v, n |-> 0] ELSE [v |-> SetIno(r.v, i, s), n |-> r.n]
  <2>1. w = PwriteOf(v, i, off, c)
    BY DEF Pwrite
  <2> HIDE DEF c
  <2> QED BY <1>1, <2>1 DEF PwriteOf, WroteAll, WrittenBy, Written0
<1>3. base = [v |-> v, addr |-> v.ino[i].addr, n |-> 0, stop |-> FALSE] /\ A[i] = v.ino[i].addr
  BY DEF Written0, Addrs
<1>4. SameModes(v.ino, v.ino)
  BY DEF SameModes
<1> HIDE DEF c, r, s
<1>5. CASE Failed(v)
  <2>1. Failed(r.v) /\ r.v.ino = v.ino
    BY <1>5, WriteFailed DEF r
  <2>2. SetIno(r.v, i, s) = r.v
    BY <2>1, FailedStays
  <2>3. w.v = r.v
    BY <1>2, <2>2
  <2> QED BY <1>4, <2>1, <2>3 DEF Well
<1>6. ASSUME NEW P, Good(v, P) PROVE Well(w.v) /\ SameModes(w.v.ino, v.ino)
  <2>1. Sound(v, A, K, P, {}) /\ K[i] = KindOf("file") /\ A \in [Ino -> Addrs0]
    <3>1. Sound(v, A, K, P, {})
      BY <1>6 DEF Good
    <3> QED BY <3>1 DEF Sound, Owns, Modes
  <2> HIDE DEF A, K, base
  <2>2. Writing(base, v, A, K, i)
    <3>1. Readdressed(A, A, i, base.addr)
      BY <1>3, <2>1 DEF Readdressed
    <3>2. Ahead(base, A, K, i)
      BY <1>3, <2>1, <3>1 DEF Ahead
    <3> QED BY <1>3, <3>2 DEF Writing
  <2>3. Writing(r, v, A, K, i)
    BY <1>1, <2>1, <2>2, WriteLoop DEF r, base
  <2>4. CASE Failed(r.v)
    <3>1. SetIno(r.v, i, s) = r.v
      BY <2>4, FailedStays
    <3>2. w.v = r.v /\ r.v.ino = v.ino
      BY <1>2, <2>3, <3>1 DEF Writing
    <3> QED BY <1>4, <2>4, <3>2 DEF Well
  <2>5. CASE Ahead(r, A, K, i) /\ (r.n = 0 => r.addr = A[i])
    <3> DEFINE u == r.v
               a == r.addr
    <3>1. PICK B, Q : Readdressed(B, A, i, a) /\ Sound(u, B, K, Q, {})
      BY <2>5 DEF Ahead
    <3>2. u.ino = v.ino /\ r.n \in Nat
      BY <2>3 DEF Writing
    <3>3. CASE r.n = 0
      <4>1. a = A[i]
        BY <2>5, <3>3
      <4>2. B = A
        BY <2>1, <3>1, <4>1 DEF Readdressed
      <4>3. Good(u, Q)
        BY <1>6, <3>1, <3>2, <4>2 DEF Good, A, K
      <4>4. w.v = u
        BY <1>2, <3>3
      <4> HIDE DEF u
      <4> QED BY <1>4, <3>2, <4>3, <4>4 DEF Well
    <3>4. CASE r.n # 0
      <4> DEFINE x == SetIno(u, i, s)
                 m == IF off + r.n > v.ino[i].size THEN off + r.n ELSE v.ino[i].size
      <4>1. v.ino[i].size \in Nat
        BY <1>6, DirIs
      <4>2. m \in Nat
        BY <3>2, <4>1
      <4>3. s = [v.ino[i] EXCEPT !.addr = a, !.size = m]
        <5>1. v.ino[i] = [mode |-> v.ino[i].mode, nlink |-> v.ino[i].nlink,
                          size |-> v.ino[i].size, addr |-> v.ino[i].addr]
          <6>1. v.ino[i] \in InodeRec
            BY <1>6, DirIs
          <6> QED BY <6>1 DEF InodeRec
        <5> QED BY <5>1 DEF s
      <4> HIDE DEF m
      <4>4. Resized(s, v.ino[i], a)
        BY <4>2, <4>3 DEF Resized
      <4>5. w.v = x /\ x = SetIno(u, i, s)
        BY <1>2, <3>4
      <4> HIDE DEF a, u, x
      <4>6. Readdressed(B, Addrs(v.ino), i, a) /\ Sound(u, B, Modes(v.ino), Q, {})
        BY <3>1 DEF A, K
      <4>7. Good(x, Q) /\ SameModes(x.ino, v.ino)
        BY <1>6, <3>2, <4>4, <4>5, <4>6, PutAhead
      <4> QED BY <4>5, <4>7 DEF Well
    <3> QED BY <3>3, <3>4
  <2> QED BY <2>3, <2>4, <2>5 DEF Writing
<1> QED BY <1>5, <1>6 DEF Well

(* rw_truncate of a file.                                                     *)
LEMMA TruncateGood ==
  ASSUME GarbageAssumption, NEW v, NEW P, Good(v, P), NEW i \in Ino,
         v.ino[i].mode = "file", NEW len \in Nat, NEW w, w = Truncate(v, i, len)
  PROVE  (\E Q : Good(w, Q)) /\ SameModes(w.ino, v.ino)
<1> DEFINE A == Addrs(v.ino)
           K == Modes(v.ino)
           size == v.ino[i].size
           n == IF size > len THEN size - len ELSE 0
           q == [x \in 1 .. size - len |-> len + x - 1]
           r == FoldLeft(BfreeAt, [v |-> v, addr |-> v.ino[i].addr], q)
           s == [v.ino[i] EXCEPT !.addr = r.addr, !.size = len]
           x == SetIno(r.v, i, s)
<1>1. Sound(v, A, K, P, {}) /\ A[i] = v.ino[i].addr /\ size \in Nat
  BY DirIs DEF Good
<1>2. n \in Nat /\ q \in [1 .. n -> Nat]
  <2>1. n \in Nat /\ 1 .. size - len = 1 .. n
    BY <1>1
  <2>2. \A y \in 1 .. n : len + y - 1 \in Nat
    OBVIOUS
  <2> QED BY <2>1, <2>2
<1>3. w = Sync(x)
  BY DEF Truncate, SetLength
<1>4. r = FoldLeft(BfreeAt, [v |-> v, addr |-> A[i]], q)
  BY <1>1
<1>5. Resized(s, v.ino[i], r.addr) /\ x = SetIno(r.v, i, s)
  BY DEF Resized
<1> HIDE DEF A, K, size, n, q, r, s, x
<1>6. Cutting(r, v, A, K, i)
  BY <1>1, <1>2, <1>4, CutSound
<1> DEFINE u == r.v
           a == r.addr
<1>7. PICK B, Q : Readdressed(B, A, i, a) /\ Sound(u, B, K, Q, {})
  BY <1>6 DEF Cutting
<1>8. u.ino = v.ino
  BY <1>6 DEF Cutting
<1>9. Readdressed(B, Addrs(v.ino), i, a) /\ Sound(u, B, Modes(v.ino), Q, {})
  BY <1>7 DEF A, K
<1>10. Resized(s, v.ino[i], a) /\ x = SetIno(u, i, s)
  BY <1>5
<1> HIDE DEF u, a
<1>11. Good(x, Q) /\ SameModes(x.ino, v.ino)
  BY <1>8, <1>9, <1>10, PutAhead
<1>12. Well(x)
  BY <1>11 DEF Well
<1>13. Good(Sync(x), Q) /\ Sync(x).ino = x.ino
  BY <1>11, <1>12, SyncGood
<1> QED BY <1>3, <1>11, <1>13

(* The copy loop of a put: p is the inode and the blocks wanted in all.       *)
Chunk(r, i, off, want) == Short(want, Pwrite(r.v, i, off, want))
Wanted(n, off) == IF n - off < PUTBUF THEN n - off ELSE PUTBUF
FillOp(p, r, x) ==
  IF ~r.ok \/ Wanted(p.n, (x - 1) * PUTBUF) <= 0 THEN r
  ELSE Chunk(r, p.i, (x - 1) * PUTBUF, Wanted(p.n, (x - 1) * PUTBUF))
Fills == INSTANCE FoldRuns WITH Op <- FillOp

(* The end of an operation.                                                  *)
LEMMA FlushedWell ==
  ASSUME NEW r, Well(r.v)
  PROVE  Well(Flushed(r)) /\ Flushed(r).ino = r.v.ino
BY SyncGood DEF Flushed

(* A file filled.                                                            *)
LEMMA FillWell ==
  ASSUME GarbageAssumption, NEW v, Well(v), NEW i \in Ino, v.ino[i].mode = "file",
         NEW n \in Nat, NEW w, w = Fill(v, i, n)
  PROVE  Well(w)
<1> DEFINE base == [v |-> v, ok |-> TRUE]
           p == [i |-> i, n |-> n]
           q == [x \in 1 .. n |-> x]
           r == Fills!Left(p, base, q, n)
           Filling(s) == Well(s.v) /\ SameModes(s.v.ino, v.ino)
<1>1. DOMAIN q = 1 .. n
  OBVIOUS
<1>2. w = Flushed(r)
  BY <1>1 DEF Fill, FoldLeft, MapThenFoldSet, Max, Fills!Left, Fills!Leftmost, FillOp,
              Chunk, Wanted
<1>3. Filling(base)
  BY DEF SameModes
<1>4. PUTBUF \in Nat
  <2>1. PUTBUF \in Nat \ {0}
    BY EngineAssumption, Zenon DEF EngineAssumption
  <2> QED BY <2>1
<1>5. ASSUME NEW s, Filling(s), NEW x \in 1 .. n PROVE Filling(FillOp(p, s, x))
  <2> DEFINE off == (x - 1) * PUTBUF
             want == Wanted(n, off)
             y == Pwrite(s.v, i, off, want)
             c == Chunk(s, i, off, want)
  <2>1. FillOp(p, s, x) = IF ~s.ok \/ want <= 0 THEN s ELSE c
    BY DEF FillOp
  <2>2. off \in Nat
    BY <1>4
  <2> HIDE DEF off
  <2>3. want \in Int
    BY <1>4, <2>2 DEF Wanted
  <2>4. c.v = y.v
    BY DEF Chunk, Short
  <2>5. y = Pwrite(s.v, i, off, want) /\ Well(s.v) /\ s.v.ino[i].mode = "file"
    BY <1>5 DEF SameModes
  <2> HIDE DEF want, y, c
  <2>6. CASE want <= 0
    <3>1. FillOp(p, s, x) = s
      BY <2>1, <2>6
    <3> HIDE DEF p, Filling
    <3> QED BY <1>5, <3>1
  <2>7. CASE want > 0
    <3> DEFINE u == s.v
    <3>1. want \in Nat /\ Well(u) /\ u.ino[i].mode = "file" /\ y = Pwrite(u, i, off, want)
      BY <2>3, <2>5, <2>7
    <3> HIDE DEF u
    <3>2. Well(y.v) /\ SameModes(y.v.ino, u.ino)
      BY <2>2, <3>1, PwriteWell
    <3>3. SameModes(y.v.ino, v.ino)
      BY <1>5, <3>2 DEF SameModes, u
    <3>4. Filling(c)
      BY <2>4, <3>2, <3>3
    <3> HIDE DEF p, Filling
    <3> QED BY <1>5, <2>1, <3>4
  <2> QED BY <2>3, <2>6, <2>7
<1>6. \A x \in 1 .. n : q[x] = x
  OBVIOUS
<1> HIDE DEF base, p, q, r, Filling
<1>7. PICK s : Fills!IsRun(s, p, base, q, n) /\ Fills!Left(p, base, q, n) = s[n]
  BY Fills!LeftRun
<1> DEFINE T == {k \in 0 .. n : Filling(s[k])}
<1>8. 0 \in T
  BY <1>3, <1>7 DEF Fills!IsRun
<1>9. ASSUME NEW k \in 1 .. n, k - 1 \in T PROVE k \in T
  <2>1. Filling(s[k - 1]) /\ k \in 0 .. n
    BY <1>9
  <2>2. s[k] = FillOp(p, s[k - 1], k)
    BY <1>6, <1>7 DEF Fills!IsRun
  <2> QED BY <1>5, <2>1, <2>2
<1>10. n \in T
  <2> HIDE DEF T
  <2> QED BY <1>8, <1>9, Fills!UpTo
<1>11. Filling(r)
  BY <1>7, <1>10 DEF r
<1>12. Well(r.v)
  BY <1>11 DEF Filling
<1> HIDE DEF r
<1> QED BY <1>2, <1>12, FlushedWell

-------------------------------------------------------------------------------
(* The operations.                                                           *)

(* A name entered fails with the handle.                                      *)
LEMMA DirAddFailed ==
  ASSUME NEW v, Failed(v), NEW d, NEW name, NEW i
  PROVE  DirAdd(v, d, name, i).ok = FALSE
BY DEF DirAdd, Failed, Dead

(* A new file.                                                                *)
LEMMA DoCreatWell ==
  ASSUME GarbageAssumption, NEW v, Well(v), v.error = FALSE,
         NEW d \in Ino, MayParent(v.ino[d].mode), NEW leaf \in Name,
         FreeInos(v) # {}, NEW i, i = IallocScan(v), NEW r, r = DoCreat(v, d, leaf, i)
  PROVE  Well(r.v) /\ i \in Ino /\ (r.ok => r.v.ino[i].mode = "file")
<1> DEFINE n == 1
           w == WriteNewInode(v, i, "file", 0, n, 0)
<1>1. i \in Ino /\ v.ino[i].mode = "none" /\ \A e \in Ino : v.ino[e].mode # "none" => e # i
  BY IallocFree
<1>2. v.ino[ROOTINO].mode = "dir" /\ ROOTINO \in Ino
  BY GoodLive, Numbers DEF Good, Inodes
<1>3. i # ROOTINO /\ i # d /\ n \in Int
  BY <1>1, <1>2 DEF MayParent
<1>4. r = DirAdd(w, d, leaf, i)
  BY DEF DoCreat
<1>5. w = WriteNewInode(v, i, "file", 0, n, 0)
  OBVIOUS
<1> HIDE DEF w, n
<1>6. Well(w) /\ Others(w.ino, v.ino, i) /\ (~Failed(w) => w.ino[i].mode = "file")
  BY <1>1, <1>3, <1>5, NewFileWell
<1>7. ~Failed(w) => MayParent(w.ino[d].mode)
  BY <1>3, <1>6 DEF Others
<1>8. Well(r.v) /\ SameModes(r.v.ino, w.ino)
  BY <1>3, <1>4, <1>6, <1>7, DirAddWell
<1>9. r.ok => ~Failed(w)
  BY <1>4, DirAddFailed
<1> QED BY <1>1, <1>6, <1>8, <1>9 DEF SameModes

(* What the theorems assume of the callers: that the last component of a path
   is a name, neither empty nor one of the two dots.                         *)
PlainLeaves == Leaves \subseteq Name

Callers == GarbageAssumption /\ PlainLeaves /\ NoFreeParents

(* What an operation finds: a good volume, a parent, a name.                  *)
LEMMA Found ==
  ASSUME Callers, Well(fs), ~fs.error, NEW d \in Parents(fs), NEW leaf \in Leaves
  PROVE  /\ GarbageAssumption /\ fs.error = FALSE /\ (\E P : Good(fs, P))
         /\ d \in Ino /\ MayParent(fs.ino[d].mode) /\ leaf \in Name
<1>1. fs.error = FALSE /\ \E P : Good(fs, P)
  BY GoodLive
<1>2. d \in Ino /\ MayParent(fs.ino[d].mode)
  BY ParentIs DEF Callers
<1> QED BY <1>1, <1>2 DEF Callers, PlainLeaves

(* rw_creat.                                                                 *)
LEMMA CreatWell ==
  ASSUME Callers, Well(fs), ~fs.error,
         NEW d \in Parents(fs), NEW leaf \in Leaves, Creat(d, leaf)
  PROVE  Well(fs')
<1> DEFINE i == IallocScan(fs)
           r == DoCreat(fs, d, leaf, i)
<1>1. FreeInos(fs) # {} /\ fs' = Flushed(r)
  BY DEF Creat, CanAdd
<1>2. i = IallocScan(fs) /\ r = DoCreat(fs, d, leaf, i)
  OBVIOUS
<1> HIDE DEF i, r
<1>3. /\ GarbageAssumption /\ fs.error = FALSE /\ (\E P : Good(fs, P))
      /\ d \in Ino /\ MayParent(fs.ino[d].mode) /\ leaf \in Name
  BY Found
<1>4. Well(r.v)
  BY <1>1, <1>2, <1>3, DoCreatWell
<1> QED BY <1>1, <1>4, FlushedWell

(* rw_mkdir.                                                                 *)
LEMMA MkdirWell ==
  ASSUME Callers, Well(fs), ~fs.error,
         NEW d \in Parents(fs), NEW leaf \in Leaves, Mkdir(d, leaf)
  PROVE  Well(fs')
<1> DEFINE i == IallocScan(fs)
           w == WriteNewDir(Alloc(fs), i, d)
           r == DirAdd(w, d, leaf, i)
           n == 1
           x == BumpNlink(r.v, d, n)
<1>1. FreeInos(fs) # {} /\ fs' = IF r.ok THEN Sync(x) ELSE r.v
  BY DEF Mkdir, CanAdd, Entered
<1>2. /\ i = IallocScan(fs) /\ w = WriteNewDir(Alloc(fs), i, d) /\ r = DirAdd(w, d, leaf, i)
      /\ x = BumpNlink(r.v, d, n) /\ n \in Int
  OBVIOUS
<1> HIDE DEF i, w, r, n, x
<1>3. /\ GarbageAssumption /\ fs.error = FALSE /\ (\E P : Good(fs, P))
      /\ d \in Ino /\ MayParent(fs.ino[d].mode) /\ leaf \in Name
  BY Found
<1>4. /\ i \in Ino /\ fs.ino[i].mode = "none"
      /\ \A e \in Ino : fs.ino[e].mode # "none" => e # i
  BY <1>1, <1>2, IallocFree
<1>5. fs.ino[ROOTINO].mode = "dir" /\ ROOTINO \in Ino
  BY <1>3, Numbers DEF Good, Inodes
<1>6. i # ROOTINO /\ i # d
  BY <1>3, <1>4, <1>5 DEF MayParent
<1>7. Well(w) /\ Others(w.ino, fs.ino, i)
  BY <1>2, <1>3, <1>4, <1>6, NewDirWell
<1>8. ~Failed(w) => MayParent(w.ino[d].mode)
  BY <1>3, <1>6, <1>7 DEF Others
<1>9. Well(r.v) /\ (r.ok => ~Failed(r.v))
  BY <1>2, <1>3, <1>6, <1>7, <1>8, DirAddWell
<1>10. CASE r.ok
  <2> DEFINE u == r.v
  <2>1. PICK P : Good(u, P)
    BY <1>9, <1>10 DEF Well
  <2>2. x = BumpNlink(u, d, n)
    BY <1>2
  <2> HIDE DEF u
  <2>3. Good(x, P)
    BY <1>2, <1>3, <2>1, <2>2, BumpGood
  <2>4. Well(Sync(x))
    BY <2>3, SyncGood DEF Well
  <2> QED BY <1>1, <1>10, <2>4
<1>11. CASE ~r.ok
  BY <1>1, <1>9, <1>11
<1> QED BY <1>10, <1>11

(* rw_unlink.                                                                *)
LEMMA UnlinkWell ==
  ASSUME Callers, Well(fs), ~fs.error,
         NEW d \in Parents(fs), NEW leaf \in Leaves, Unlink(d, leaf)
  PROVE  Well(fs')
<1> DEFINE i == Lookup(fs, d, leaf)
           w == DirRemove(fs, d, leaf)
           x == DropLink(w, i)
<1>1. i \in Ino /\ fs' = Sync(x)
  BY DEF Unlink, Unlinked
<1>2. i = Lookup(fs, d, leaf) /\ w = DirRemove(fs, d, leaf) /\ x = DropLink(w, i)
  OBVIOUS
<1> HIDE DEF i, w, x
<1>3. GarbageAssumption /\ d \in Ino /\ leaf \in Name
  BY Found
<1>4. PICK P : Good(fs, P)
  BY Found
<1>5. i # 0
  BY <1>1 DEF Ino
<1>6. i # ROOTINO /\ fs.ino[d].mode = "dir"
  BY <1>2, <1>3, <1>4, <1>5, LookupIs
<1>7. Good(w, P)
  BY <1>2, <1>3, <1>4, <1>6, DirRemoveGood
<1>8. \E Q : Good(x, Q)
  BY <1>1, <1>2, <1>3, <1>6, <1>7, DropLinkGood
<1>9. Well(Sync(x))
  BY <1>8, SyncGood DEF Well
<1> QED BY <1>1, <1>9

(* rw_rmdir.                                                                 *)
LEMMA RmdirWell ==
  ASSUME Callers, Well(fs), ~fs.error,
         NEW d \in Parents(fs), NEW leaf \in Leaves, Rmdir(d, leaf)
  PROVE  Well(fs')
<1> DEFINE i == Lookup(fs, d, leaf)
           w == DirRemove(fs, d, leaf)
           x == FreeInode(w, i)
           n == -1
           y == BumpNlink(x, d, n)
<1>1. i \in Ino /\ fs' = Sync(y)
  BY DEF Rmdir
<1>2. /\ i = Lookup(fs, d, leaf) /\ w = DirRemove(fs, d, leaf) /\ x = FreeInode(w, i)
      /\ y = BumpNlink(x, d, n) /\ n \in Int
  OBVIOUS
<1> HIDE DEF i, w, x, n, y
<1>3. GarbageAssumption /\ d \in Ino /\ leaf \in Name
  BY Found
<1>4. PICK P : Good(fs, P)
  BY Found
<1>5. i # 0
  BY <1>1 DEF Ino
<1>6. i # ROOTINO /\ fs.ino[d].mode = "dir"
  BY <1>2, <1>3, <1>4, <1>5, LookupIs
<1>7. Good(w, P)
  BY <1>2, <1>3, <1>4, <1>6, DirRemoveGood
<1>8. PICK Q : Good(x, Q)
  BY <1>1, <1>2, <1>3, <1>6, <1>7, FreeInodeGood
<1>9. Good(y, Q)
  BY <1>2, <1>3, <1>8, BumpGood
<1>10. Well(Sync(y))
  BY <1>9, SyncGood DEF Well
<1> QED BY <1>1, <1>10

(* rw_put_fd.                                                                *)
LEMMA PutWell ==
  ASSUME Callers, Well(fs), ~fs.error,
         NEW d \in Parents(fs), NEW leaf \in Leaves, NEW n \in Nat, Put(d, leaf, n)
  PROVE  Well(fs')
<1>1. /\ GarbageAssumption /\ fs.error = FALSE
      /\ d \in Ino /\ MayParent(fs.ino[d].mode) /\ leaf \in Name
  BY Found
<1>2. PICK P : Good(fs, P)
  BY Found
<1>3. ASSUME NEW i \in Ino, fs.ino[i].mode = "file", fs' = Fill(Truncate(fs, i, 0), i, n)
      PROVE  Well(fs')
  <2> DEFINE x == Truncate(fs, i, 0)
             y == Fill(x, i, n)
  <2>1. fs' = y
    BY <1>3
  <2>2. x = Truncate(fs, i, 0) /\ y = Fill(x, i, n) /\ 0 \in Nat
    OBVIOUS
  <2> HIDE DEF x, y
  <2>3. (\E Q : Good(x, Q)) /\ SameModes(x.ino, fs.ino)
    BY <1>1, <1>2, <1>3, <2>2, TruncateGood
  <2>4. Well(x) /\ x.ino[i].mode = "file"
    BY <1>3, <2>3 DEF Well, SameModes
  <2>5. Well(y)
    BY <1>1, <2>2, <2>4, FillWell
  <2> QED BY <2>1, <2>5
<1>4. ASSUME CanAdd(d, leaf),
             fs' = FillNew(DoCreat(fs, d, leaf, IallocScan(fs)), IallocScan(fs), n)
      PROVE  Well(fs')
  <2> DEFINE i == IallocScan(fs)
             r == DoCreat(fs, d, leaf, i)
             x == Sync(r.v)
             y == Fill(x, i, n)
  <2>1. fs' = IF r.ok THEN y ELSE r.v
    BY <1>4 DEF FillNew
  <2>2. FreeInos(fs) # {}
    BY <1>4 DEF CanAdd
  <2>3. /\ i = IallocScan(fs) /\ r = DoCreat(fs, d, leaf, i) /\ x = Sync(r.v)
        /\ y = Fill(x, i, n)
    OBVIOUS
  <2> HIDE DEF i, r, x, y
  <2>4. Well(r.v) /\ i \in Ino /\ (r.ok => r.v.ino[i].mode = "file")
    BY <1>1, <2>2, <2>3, DoCreatWell
  <2>5. Well(x) /\ x.ino = r.v.ino
    BY <2>3, <2>4, SyncGood
  <2>6. r.ok => Well(y)
    BY <1>1, <2>3, <2>4, <2>5, FillWell
  <2> QED BY <2>1, <2>4, <2>6
<1> QED BY <1>3, <1>4 DEF Put

(* The FUSE write and truncate.                                               *)
LEMMA WriteWell ==
  ASSUME GarbageAssumption, Well(fs), NEW i \in Ino, NEW off \in Nat, NEW n \in Nat,
         Write(i, off, n)
  PROVE  Well(fs')
<1> DEFINE w == Pwrite(fs, i, off, n)
<1>1. fs.ino[i].mode = "file" /\ fs' = Sync(w.v)
  BY DEF Write
<1>2. w = Pwrite(fs, i, off, n)
  OBVIOUS
<1> HIDE DEF w
<1>3. Well(w.v)
  BY <1>1, <1>2, PwriteWell
<1> QED BY <1>1, <1>3, SyncGood

(* See above.                                                                *)
LEMMA ResizeWell ==
  ASSUME GarbageAssumption, Well(fs), ~fs.error, NEW i \in Ino, NEW len \in Nat,
         Resize(i, len)
  PROVE  Well(fs')
<1>1. fs.ino[i].mode = "file" /\ fs' = Truncate(fs, i, len)
  BY DEF Resize
<1>2. \E P : Good(fs, P)
  BY GoodLive
<1>3. \E Q : Good(fs', Q)
  BY <1>1, <1>2, TruncateGood
<1> QED BY <1>3 DEF Well

(* rw_rename: the target, if there is one, given up.                          *)
LEMMA ReplaceGood ==
  ASSUME GarbageAssumption, NEW v, NEW P, Good(v, P),
         NEW td \in Ino, NEW tl \in Name,
         NEW t, t = Lookup(v, td, tl), t # 0 => t \in Ino,
         NEW w, w = Replace(v, t, td, tl)
  PROVE  (\E Q : Good(w, Q)) /\ OtherModes(w.ino, v.ino, t)
<1>1. CASE t = 0
  <2>1. w = v
    BY <1>1 DEF Replace
  <2> QED BY <2>1 DEF OtherModes
<1>2. CASE t # 0
  <2> DEFINE x == DirRemove(v, td, tl)
  <2>1. w = UnrefInode(x, t, td)
    BY <1>2 DEF Replace
  <2>2. x = DirRemove(v, td, tl)
    OBVIOUS
  <2> HIDE DEF x
  <2>3. t \in Ino /\ t # ROOTINO /\ v.ino[td].mode = "dir"
    BY <1>2, LookupIs
  <2>4. Good(x, P) /\ x.ino = v.ino
    BY <2>2, <2>3, DirRemoveGood
  <2>5. (\E Q : Good(w, Q)) /\ OtherModes(w.ino, x.ino, t)
    BY <2>1, <2>3, <2>4, UnrefGood
  <2> QED BY <2>4, <2>5
<1> QED BY <1>1, <1>2

(* The old name gone, and a directory at home under its new parent.           *)
LEMMA MovedWell ==
  ASSUME NEW r, Well(r.v), r.ok => ~Failed(r.v), NEW c \in Ino, NEW fd \in Ino,
         NEW fl \in Name, NEW td \in Ino, r.ok => r.v.ino[fd].mode = "dir",
         NEW w, w = Moved(r, c, fd, fl, td)
  PROVE  Well(w)
<1> DEFINE x == DirRemove(r.v, fd, fl)
           y == SetDotdot(x, c, td)
           n == -1
           z == BumpNlink(y, fd, n)
           m == 1
           u == BumpNlink(z, td, m)
           h == Rehome(x, c, fd, td)
<1>1. w = IF r.ok THEN Sync(h) ELSE r.v
  BY DEF Moved
<1>2. h = IF x.ino[c].mode # "dir" \/ fd = td THEN x ELSE u
  BY DEF Rehome
<1>3. /\ x = DirRemove(r.v, fd, fl) /\ y = SetDotdot(x, c, td) /\ z = BumpNlink(y, fd, n)
      /\ u = BumpNlink(z, td, m) /\ n \in Int /\ m \in Int
  OBVIOUS
<1> HIDE DEF x, y, z, u, h, n, m
<1>4. CASE r.ok
  <2> DEFINE s == r.v
  <2>1. PICK P : Good(s, P)
    BY <1>4 DEF Well
  <2>2. s.ino[fd].mode = "dir" /\ x = DirRemove(s, fd, fl)
    BY <1>3, <1>4
  <2> HIDE DEF s
  <2>3. Good(x, P)
    BY <2>1, <2>2, DirRemoveGood
  <2>4. CASE x.ino[c].mode = "dir"
    <3>1. Good(y, P)
      BY <1>3, <2>3, <2>4, SetDotdotGood
    <3>2. Good(z, P)
      BY <1>3, <3>1, BumpGood
    <3>3. Good(u, P)
      BY <1>3, <3>2, BumpGood
    <3>4. Good(h, P)
      BY <1>2, <2>3, <3>3
    <3> QED BY <1>1, <1>4, <3>4, SyncGood DEF Well
  <2>5. CASE x.ino[c].mode # "dir"
    <3>1. Good(h, P)
      BY <1>2, <2>3, <2>5
    <3> QED BY <1>1, <1>4, <3>1, SyncGood DEF Well
  <2> QED BY <2>4, <2>5
<1> QED BY <1>1, <1>4

(* rw_rename.                                                                *)
LEMMA RenameWell ==
  ASSUME Callers, Well(fs), ~fs.error,
         NEW fd \in Parents(fs), NEW fl \in Leaves, NEW td \in Parents(fs), NEW tl \in Leaves,
         Rename(fd, fl, td, tl)
  PROVE  Well(fs')
<1> DEFINE c == Lookup(fs, fd, fl)
           t == Lookup(fs, td, tl)
           sdir == fs.ino[c].mode = "dir"
           v == Replace(fs, t, td, tl)
           r == DirAdd(v, td, tl, c)
           w == Moved(r, c, fd, fl, td)
<1>1. /\ c \in Ino
      /\ t # 0 => t \in Ino /\ (fs.ino[t].mode = "dir") = sdir /\ (sdir => ~NonEmpty(fs, t))
      /\ fs' = w
  BY DEF Rename
<1>2. /\ c = Lookup(fs, fd, fl) /\ t = Lookup(fs, td, tl) /\ v = Replace(fs, t, td, tl)
      /\ r = DirAdd(v, td, tl, c) /\ w = Moved(r, c, fd, fl, td)
  OBVIOUS
<1> HIDE DEF c, t, sdir, v, r, w
<1>3. /\ GarbageAssumption /\ fd \in Ino /\ fl \in Name
      /\ td \in Ino /\ MayParent(fs.ino[td].mode) /\ tl \in Name
  BY Found
<1>4. PICK P : Good(fs, P)
  BY Found
<1>5. c # 0
  BY <1>1 DEF Ino
<1>6. c # ROOTINO /\ NonEmpty(fs, fd) /\ fs.ino[fd].mode = "dir"
  BY <1>2, <1>3, <1>4, <1>5, LookupIs
<1>7. t # 0 => NonEmpty(fs, td) /\ fs.ino[td].mode = "dir"
  BY <1>2, <1>3, <1>4, LookupIs
<1>8. t # fd /\ t # td
  <2>1. t # 0 /\ fs.ino[t].mode = "dir" => ~NonEmpty(fs, t)
    BY <1>1
  <2>2. fd # 0 /\ td # 0
    BY <1>3 DEF Ino
  <2> QED BY <1>3, <1>6, <1>7, <2>1, <2>2
<1>9. t # 0 => t \in Ino
  BY <1>1
<1>10. (\E Q : Good(v, Q)) /\ OtherModes(v.ino, fs.ino, t)
  BY <1>2, <1>3, <1>4, <1>9, ReplaceGood
<1>11. Well(v) /\ MayParent(v.ino[td].mode) /\ v.ino[fd].mode = "dir"
  BY <1>3, <1>6, <1>8, <1>10 DEF Well, OtherModes
<1>12. Well(r.v) /\ SameModes(r.v.ino, v.ino) /\ (r.ok => ~Failed(r.v))
  BY <1>2, <1>3, <1>6, <1>11, DirAddWell
<1>13. r.ok => r.v.ino[fd].mode = "dir"
  BY <1>3, <1>11, <1>12 DEF SameModes
<1>14. Well(w)
  BY <1>1, <1>2, <1>3, <1>12, <1>13, MovedWell
<1> QED BY <1>1, <1>14

(* Every step.                                                               *)
LEMMA NextWell ==
  ASSUME Callers, Well(fs), [Next]_vars
  PROVE  Well(fs')
<1>1. CASE UNCHANGED vars
  BY <1>1 DEF vars
<1>2. CASE Next
  <2>1. ~fs.error /\ Operation
    BY <1>2 DEF Next
  <2>2. MaxFile \in Nat
    BY EngineAssumption, Zenon DEF EngineAssumption
  <2>0. GarbageAssumption
    BY DEF Callers
  <2>3. ASSUME NEW d \in Parents(fs), NEW leaf \in Leaves, Creat(d, leaf) PROVE Well(fs')
    BY <2>1, <2>3, CreatWell
  <2>4. ASSUME NEW d \in Parents(fs), NEW leaf \in Leaves, Mkdir(d, leaf) PROVE Well(fs')
    BY <2>1, <2>4, MkdirWell
  <2>5. ASSUME NEW d \in Parents(fs), NEW leaf \in Leaves, Unlink(d, leaf) PROVE Well(fs')
    BY <2>1, <2>5, UnlinkWell
  <2>6. ASSUME NEW d \in Parents(fs), NEW leaf \in Leaves, Rmdir(d, leaf) PROVE Well(fs')
    BY <2>1, <2>6, RmdirWell
  <2>7. ASSUME NEW d \in Parents(fs), NEW leaf \in Leaves, NEW n \in 0 .. MaxFile,
               Put(d, leaf, n)
        PROVE  Well(fs')
    <3>1. n \in Nat
      BY <2>2
    <3> QED BY <2>1, <2>7, <3>1, PutWell
  <2>8. ASSUME NEW d \in Parents(fs), NEW leaf \in Leaves, NEW td \in Parents(fs),
               NEW tl \in Leaves, Rename(d, leaf, td, tl)
        PROVE  Well(fs')
    BY <2>1, <2>8, RenameWell
  <2>9. ASSUME NEW i \in Ino \ {BADBLKINO}, NEW n \in 1 .. MaxFile,
               NEW off \in 0 .. MaxFile - n, Write(i, off, n)
        PROVE  Well(fs')
    <3>1. n \in Nat /\ off \in Nat /\ i \in Ino
      BY <2>2
    <3> QED BY <2>0, <2>9, <3>1, WriteWell
  <2>10. ASSUME NEW i \in Ino \ {BADBLKINO}, NEW len \in 0 .. MaxFile, Resize(i, len)
         PROVE  Well(fs')
    <3>1. len \in Nat /\ i \in Ino
      BY <2>2
    <3> QED BY <2>0, <2>1, <2>10, <3>1, ResizeWell
  <2> QED BY <2>1, <2>3, <2>4, <2>5, <2>6, <2>7, <2>8, <2>9, <2>10 DEF Operation
<1> QED BY <1>1, <1>2

-------------------------------------------------------------------------------
(* What the formatter lays down.                                             *)
LayOp(p, v, b) == Bfree(v, b)
Lays == INSTANCE FoldRuns WITH Op <- LayOp

(* The addresses and the inodes before anything is made.                      *)
Addrs1 == [i \in Ino |-> NoAddr]
Table1 == [i \in Ino |-> FreeIno]
(* None of them refers to a block.                                           *)
LEMMA NoRefs ==
  ASSUME NEW blk
  PROVE  \A i \in Ino : \A p \in Places : Map(blk, Addrs1)[i][p] = 0
BY NoneReferred DEF Addrs1

(* The terminator laid down on an empty cache.                               *)
LEMMA Terminated ==
  ASSUME NEW x, Live(x), x.nfree = 0, x.free = NoCache, x.tfree = 0, NEW w, w = Bfree(x, 0)
  PROVE  /\ Live(w) /\ w.ino = x.ino /\ w.blk = x.blk
         /\ w.nfree = 1 /\ w.free = NoCache /\ w.tfree = 0
<1> DEFINE f == [NoCache EXCEPT ![0] = 0]
<1>1. f = NoCache
  BY Numbers DEF NoCache
<1>2. ~(0 >= NICFREE)
  BY Numbers
<1>3. w = [x EXCEPT !.free[0] = 0, !.nfree = @ + 1, !.tfree = @]
  BY <1>2 DEF Bfree
<1> DEFINE n == 1
           t == 0
           y == [x EXCEPT !.nfree = n, !.free = f]
<1>4. w = [x EXCEPT !.free = f, !.nfree = n, !.tfree = t]
  BY <1>3
<1> HIDE DEF f, n, t
<1>5. [x EXCEPT !.free = f, !.nfree = n, !.tfree = t]
        = [[x EXCEPT !.nfree = n, !.free = f] EXCEPT !.nfree = n, !.tfree = t]
  BY DEF Live, IsVolume
<1>6. Live(y) /\ Cached(y, x, n, f, x.tfree)
  BY CachedIs
<1>7. w = [y EXCEPT !.nfree = n, !.tfree = t]
  BY <1>4, <1>5
<1> HIDE DEF y
<1>8. /\ Live([y EXCEPT !.nfree = n, !.tfree = t])
      /\ Cached([y EXCEPT !.nfree = n, !.tfree = t], y, n, y.free, t)
  BY <1>6, CachedIs
<1>9. Live(w) /\ Cached(w, y, n, y.free, t)
  BY <1>7, <1>8
<1>10. w.ino = x.ino /\ w.blk = x.blk /\ w.nfree = n /\ w.free = f /\ w.tfree = t
  BY <1>6, <1>9 DEF Cached
<1> QED BY <1>1, <1>9, <1>10 DEF n, t

(* That is how the formatter's list begins.                                  *)
LEMMA FirstLaid ==
  ASSUME GarbageAssumption, NEW K, NEW v, v = Bfree(Blank, 0)
  PROVE  Sound(v, Addrs1, K, {}, {Tag(b) : b \in Block}) /\ v.ino = Table1
<1>1. /\ Blank.nfree = 0 /\ Blank.free = NoCache /\ Blank.tfree = 0 /\ Blank.ino = Table1
      /\ Blank.blk = [b \in Block |-> Zero] /\ Live(Blank)
  BY DEF Blank, IsVolume, Live, Table1
<1>2. /\ Live(v) /\ v.nfree = 1 /\ v.free = NoCache /\ v.tfree = 0
      /\ v.blk = [b \in Block |-> Zero] /\ v.ino = Table1
  BY <1>1, Terminated
<1>3. Addrs1 = [i \in Ino |-> NoAddr]
  BY DEF Addrs1
<1>4. Sound(v, Addrs1, K, {}, {Tag(b) : b \in Block})
  BY <1>2, <1>3, BlankSound
<1> QED BY <1>2, <1>4

(* k blocks of the list laid down, none of which comes again; the others are
   at hand.                                                                   *)
ToLay(order, k, n) == {Tag(order[j]) : j \in k + 1 .. n}
Laying(v, K, order, k, n) ==
  /\ v.ino = Table1
  /\ \E P : /\ Sound(v, Addrs1, K, P, ToLay(order, k, n))
            /\ \A j \in k + 1 .. n : order[j] \notin P
(* A block at hand freed.                                                    *)
LEMMA HandedBack ==
  ASSUME GarbageAssumption, NEW v, NEW A, NEW K, NEW P, NEW H, Sound(v, A, K, P, H),
         NEW b, Fresh(Map(v.blk, A), P, b), NEW G, Keeps(G, H, b), NEW w, w = Bfree(v, b)
  PROVE  Sound(w, A, K, P \cup {b}, G) /\ w.ino = v.ino
<1>1. Sound(Bfree(v, b), A, K, P \cup {b}, G) /\ Bfree(v, b).ino = v.ino
  BY BfreeSound
<1> QED BY <1>1

(* A freed block joins the list that wfs lays.                               *)
LEMMA LayingStep ==
  ASSUME GarbageAssumption, NEW K, NEW n \in Nat, NEW order \in [1 .. n -> Block],
         \A i, j \in 1 .. n : order[i] = order[j] => i = j,
         NEW k \in 1 .. n, NEW v, Laying(v, K, order, k - 1, n),
         NEW w, w = Bfree(v, order[k])
  PROVE  Laying(w, K, order, k, n)
<1> DEFINE b == order[k]
           A == Addrs1
           H == ToLay(order, k - 1, n)
           G == ToLay(order, k, n)
<1>1. v.ino = Table1
  BY DEF Laying
<1>2. PICK P : Sound(v, A, K, P, H) /\ \A j \in (k - 1) + 1 .. n : order[j] \notin P
  BY DEF Laying
<1>3. b \in Block /\ b \notin P
  <2>1. k \in (k - 1) + 1 .. n
    OBVIOUS
  <2> QED BY <1>2, <2>1
<1>4. Fresh(Map(v.blk, A), P, b) /\ Sound(v, A, K, P, H)
  <2>1. b # 0
    BY <1>3, Numbers
  <2> QED BY <1>2, <1>3, <2>1, NoRefs DEF Fresh
<1>5. w = Bfree(v, b) /\ Keeps(G, H, b)
  <2>1. \A j \in (k - 1) + 1 .. n : j = k \/ j \in k + 1 .. n
    OBVIOUS
  <2> QED BY <2>1 DEF Keeps, ToLay
<1> HIDE DEF b, A, H, G
<1>6. Sound(w, A, K, P \cup {b}, G) /\ w.ino = v.ino
  <2>1. Sound(v, A, K, P, H)
    BY <1>4
  <2>2. Fresh(Map(v.blk, A), P, b)
    BY <1>4
  <2>3. Keeps(G, H, b)
    BY <1>5
  <2>4. w = Bfree(v, b)
    BY <1>5
  <2> QED BY ONLY GarbageAssumption, <2>1, <2>2, <2>3, <2>4, HandedBack
<1>7. \A j \in k + 1 .. n : order[j] \notin P \cup {b}
  <2> SUFFICES ASSUME NEW j \in k + 1 .. n PROVE order[j] \notin P \cup {b}
    OBVIOUS
  <2>1. j \in 1 .. n /\ j # k /\ j \in (k - 1) + 1 .. n
    OBVIOUS
  <2>2. order[j] # order[k]
    BY <2>1
  <2> QED BY <1>2, <2>1, <2>2 DEF b
<1> QED BY <1>1, <1>6, <1>7 DEF Laying, A, G

(* An order of all the blocks.                                               *)
LEMMA OrderIs ==
  ASSUME NEW order \in SetToSeqs(Block), NEW n, n = Cardinality(Block)
  PROVE  /\ n \in Nat /\ order \in [1 .. n -> Block]
         /\ \A i, j \in 1 .. n : order[i] = order[j] => i = j
         /\ \A b \in Block : \E j \in 1 .. n : order[j] = b
<1>1. n \in Nat
  BY FreeCount
<1>2. order \in [1 .. n -> Block] /\ \A i, j \in 1 .. n : order[i] = order[j] => i = j
  BY DEF SetToSeqs, IsInjective
<1>3. \A b \in Block : \E j \in 1 .. n : order[j] = b
  <2> DEFINE D == 1 .. n
  <2>1. IsFiniteSet(Block)
    BY FreeCount
  <2>2. order \in Injection(D, Block)
    BY <1>2 DEF Injection, IsInjective
  <2>3. IsFiniteSet(D) /\ Cardinality(D) = Cardinality(Block)
    BY <1>1, FS_Interval
  <2> HIDE DEF D
  <2>4. order \in Surjection(D, Block)
    BY <2>1, <2>2, <2>3, FS_Injection
  <2> QED BY <2>4 DEF Surjection, D
<1> QED BY <1>1, <1>2, <1>3

(* All of them.                                                              *)
LEMMA LaidSound ==
  ASSUME GarbageAssumption, NEW K, NEW order \in SetToSeqs(Block)
  PROVE  Laying(FoldLeft(Bfree, Blank, <<0>> \o order), K, order,
                Cardinality(Block), Cardinality(Block))
<1> DEFINE n == Cardinality(Block)
           q == <<0>> \o order
           m == n + 1
<1>12. /\ n \in Nat /\ order \in [1 .. n -> Block]
       /\ \A i, j \in 1 .. n : order[i] = order[j] => i = j
       /\ \A b \in Block : \E j \in 1 .. n : order[j] = b
  BY OrderIs
<1>1. n \in Nat
  BY <1>12
<1>2. order \in [1 .. n -> Block] /\ \A i, j \in 1 .. n : order[i] = order[j] => i = j
  BY <1>12
<1>11. \A b \in Block : \E j \in 1 .. n : order[j] = b
  BY <1>12
<1> HIDE DEF n
<1>3. DOMAIN q = 1 .. m /\ q[1] = 0 /\ \A k \in 1 .. n : q[k + 1] = order[k]
  <2>1. order \in Seq(Block) /\ Len(order) = n
    BY <1>1, <1>2
  <2>2. <<0>> \in Seq({0}) /\ Len(<<0>>) = 1
    OBVIOUS
  <2> QED BY <1>1, <2>1, <2>2
<1>4. FoldLeft(Bfree, Blank, q) = Lays!Left(0, Blank, q, m)
  BY <1>3 DEF FoldLeft, MapThenFoldSet, Max, Lays!Left, Lays!Leftmost, LayOp
<1>5. m \in Nat
  BY <1>1
<1> HIDE DEF q
<1>6. PICK s : Lays!IsRun(s, 0, Blank, q, m) /\ Lays!Left(0, Blank, q, m) = s[m]
  BY <1>5, Lays!LeftRun
<1>7. s[0] = Blank /\ \A k \in 1 .. m : s[k] = Bfree(s[k - 1], q[k])
  BY <1>6 DEF Lays!IsRun, LayOp
<1> DEFINE T == {k \in 0 .. n : Laying(s[k + 1], K, order, k, n)}
<1>8. 0 \in T
  <2>1. 1 \in 1 .. m /\ 1 - 1 = 0
    BY <1>1
  <2>2. s[1] = Bfree(Blank, 0)
    BY <1>3, <1>7, <2>1
  <2>3. Sound(s[1], Addrs1, K, {}, {Tag(b) : b \in Block}) /\ s[1].ino = Table1
    BY <2>2, FirstLaid
  <2>6. {Tag(b) : b \in Block} = ToLay(order, 0, n)
    BY <1>1, <1>2, <1>11 DEF ToLay
  <2>4. Laying(s[1], K, order, 0, n)
    BY <2>3, <2>6 DEF Laying
  <2>5. 0 \in 0 .. n /\ 0 + 1 = 1
    BY <1>1
  <2> QED BY <2>4, <2>5
<1>9. ASSUME NEW k \in 1 .. n, k - 1 \in T PROVE k \in T
  <2> DEFINE v == s[k]
             w == s[k + 1]
  <2>1. k + 1 \in 1 .. m /\ (k + 1) - 1 = k /\ (k - 1) + 1 = k /\ k \in 0 .. n
    BY <1>1
  <2>2. Laying(v, K, order, k - 1, n)
    BY <1>9, <2>1
  <2>3. w = Bfree(v, order[k])
    BY <1>3, <1>7, <2>1
  <2> HIDE DEF v, w
  <2>4. Laying(w, K, order, k, n)
    BY <1>1, <1>2, <2>2, <2>3, LayingStep
  <2> QED BY <2>1, <2>4 DEF w
<1>10. n \in T
  <2> HIDE DEF T
  <2> QED BY <1>1, <1>8, <1>9, Lays!UpTo
<1> QED BY <1>4, <1>6, <1>10 DEF n, q

(* A record put on the disk and counted changes nothing else.                 *)
LEMMA CountedIs ==
  ASSUME NEW v, Live(v), NEW i, NEW r, NEW w, Counted(w, v, i, r)
  PROVE  Like(w, v) /\ Put1(w.ino, v.ino, i, r) /\ Live(w)
<1> DEFINE x == SetIno(v, i, r)
<1>1. PICK n : w = [x EXCEPT !.tinode = n]
  BY DEF Counted
<1>2. IsVolume(v) /\ v.error = FALSE /\ x = SetIno(v, i, r)
  BY DEF Live
<1> HIDE DEF x
<1>3. Like(x, v) /\ Put1(x.ino, v.ino, i, r)
  BY <1>2, SetInoIs
<1>4. IsVolume(x) /\ x.error \in BOOLEAN
  BY <1>2, <1>3 DEF Like
<1>5. Like(w, x) /\ w.ino = x.ino
  BY <1>1, <1>4, SyncIs
<1> QED BY <1>2, <1>3, <1>5 DEF Like, Live, Put1

(* write_new_inode as a record put and counted.                              *)
LEMMA NewInodeIs ==
  ASSUME NEW v, NEW i, NEW mode, NEW b, NEW nlink, NEW size, NEW w,
         w = WriteNewInode(v, i, mode, b, nlink, size)
  PROVE  \E r : NewRec(r, mode, nlink, size, b) /\ Counted(w, v, i, r)
<1> DEFINE r == [mode |-> mode, nlink |-> nlink, size |-> size, addr |-> [NoAddr EXCEPT ![0] = b]]
<1>1. w = [SetIno(v, i, r) EXCEPT !.tinode = @ - 1]
  BY DEF WriteNewInode
<1>2. NewRec(r, mode, nlink, size, b)
  BY DEF NewRec
<1> HIDE DEF r
<1>3. Counted(w, v, i, r)
  BY <1>1 DEF Counted
<1> QED BY <1>2, <1>3

(* The first blocks of the root and of lost+found.                            *)
LEMMA WithDotsIs ==
  ASSUME NEW i, NEW d, NEW en, en.ino # ROOTINO
  PROVE  DotsBlk(WithDots(i, d, en), i, d)
<1> DEFINE x == [ino |-> i, name |-> "."]
           y == [ino |-> d, name |-> ".."]
           o == [s \in 0 .. NDIR - 1 |-> IF s = 0 THEN x ELSE IF s = 1 THEN y ELSE NoEntry]
           e == [s \in 0 .. NDIR - 1 |-> IF s = 0 THEN x ELSE IF s = 1 THEN y
                                         ELSE IF s = 2 THEN en ELSE NoEntry]
<1>1. [o EXCEPT ![2] = en] = e
  <2> HIDE DEF x, y
  <2> DEFINE N == 0 .. NDIR - 1
  <2>1. 0 # 2 /\ 1 # 2
    OBVIOUS
  <2> HIDE DEF N
  <2>2. [[s \in N |-> IF s = 0 THEN x ELSE IF s = 1 THEN y ELSE NoEntry] EXCEPT ![2] = en]
          = [s \in N |-> IF s = 0 THEN x ELSE IF s = 1 THEN y
                         ELSE IF s = 2 THEN en ELSE NoEntry]
    BY ONLY <2>1
  <2> QED BY <2>2 DEF N
<1>2. Dots(i, d) = o
  BY DEF Dots
<1> QED BY <1>1, <1>2 DEF WithDots, DotsBlk

(* The kinds of inodes the formatter makes.                                  *)
Kinds == [i \in Ino |-> IF i = BADBLKINO THEN KindOf("file")
                        ELSE IF i = ROOTINO \/ i = 3 THEN "dir" ELSE "none"]
(* The table of inodes they make.                                            *)
Made(t, r1, r2, r3) ==
  \E u, x : Put1(u, Table1, BADBLKINO, r1) /\ Put1(x, u, ROOTINO, r2) /\ Put1(t, x, 3, r3)
(* They are good inodes, of those kinds.                                      *)
LEMMA MadeInodes ==
  ASSUME NEW a \in Block, NEW b \in Block, NEW r1, NEW r2, NEW r3,
         NewRec(r1, "file", 0, 0, 0), NewRec(r2, "dir", 3, 3, b), NewRec(r3, "dir", 2, NDIR, a),
         NEW t, Made(t, r1, r2, r3), NEW A2, NEW A3,
         Readdressed(A2, Addrs1, 3, [NoAddr EXCEPT ![0] = a]),
         Readdressed(A3, A2, ROOTINO, [NoAddr EXCEPT ![0] = b])
  PROVE  Inodes(t) /\ Addrs(t) = A3 /\ Modes(t) = Kinds
<1>1. NDIR \in Nat /\ NDIR >= 2 /\ 3 \in Ino /\ a # 0 /\ b # 0 /\ a \in Blk0 /\ b \in Blk0
      /\ 0 \in Blk0
  BY Numbers DEF Ino, Blk0
<1>2. /\ RecOk(r1) /\ r1.mode = "file" /\ r1.addr = NoAddr
      /\ RecOk(r2) /\ r2.mode = "dir" /\ r2.addr = [NoAddr EXCEPT ![0] = b]
      /\ RecOk(r3) /\ r3.mode = "dir" /\ r3.addr = [NoAddr EXCEPT ![0] = a]
  <2>1. RecOk(r1) /\ r1.mode = "file" /\ r1.addr = NoAddr
    <3>1. NewRec(r1, "file", 0, 0, 0) /\ 0 \in Blk0
      BY <1>1
    <3>2. 0 \in Int /\ 0 \in Nat /\ "file" \in {"file", "dir"} /\ "file" # "dir"
      BY <1>1
    <3> QED BY ONLY <3>1, <3>2, NewRecOk
  <2>2. RecOk(r2) /\ r2.mode = "dir" /\ r2.addr = [NoAddr EXCEPT ![0] = b]
    <3>1. NewRec(r2, "dir", 3, 3, b) /\ b \in Blk0 /\ b # 0
      BY <1>1
    <3>2. 3 \in Int /\ 3 \in Nat /\ 3 >= 2 /\ "dir" \in {"file", "dir"}
      BY <1>1
    <3> QED BY ONLY <3>1, <3>2, NewRecOk
  <2>3. RecOk(r3) /\ r3.mode = "dir" /\ r3.addr = [NoAddr EXCEPT ![0] = a]
    <3>1. NewRec(r3, "dir", 2, NDIR, a) /\ a \in Blk0 /\ a # 0
      BY <1>1
    <3>2. 2 \in Int /\ NDIR \in Nat /\ NDIR >= 2 /\ "dir" \in {"file", "dir"}
      BY <1>1
    <3> QED BY ONLY <3>1, <3>2, NewRecOk
  <2> QED BY <2>1, <2>2, <2>3
<1>3. RecOk(FreeIno) /\ FreeIno.mode = "none" /\ FreeIno.addr = NoAddr
  BY FreeInoOk DEF FreeIno
<1>4. ROOTINO # BADBLKINO /\ ROOTINO # 3 /\ BADBLKINO # 3 /\ ROOTINO \in Ino /\ BADBLKINO \in Ino
  BY Numbers DEF ROOTINO, BADBLKINO
<1>5. /\ t = [i \in Ino |-> t[i]] /\ t[BADBLKINO] = r1 /\ t[ROOTINO] = r2 /\ t[3] = r3
      /\ \A i \in Ino : i # BADBLKINO /\ i # ROOTINO /\ i # 3 => t[i] = FreeIno
  BY <1>1, <1>4 DEF Made, Put1, Table1
<1>6. Inodes(t)
  BY <1>2, <1>3, <1>5 DEF Inodes
<1>7. /\ A3 = [i \in Ino |-> A3[i]] /\ A3[BADBLKINO] = NoAddr
      /\ A3[ROOTINO] = [NoAddr EXCEPT ![0] = b] /\ A3[3] = [NoAddr EXCEPT ![0] = a]
      /\ \A i \in Ino : i # BADBLKINO /\ i # ROOTINO /\ i # 3 => A3[i] = NoAddr
  BY <1>1, <1>4 DEF Readdressed, Addrs1
<1>8. \A i \in Ino : t[i].addr = A3[i]
  BY <1>2, <1>3, <1>5, <1>7
<1>9. \A i \in Ino : KindOf(t[i].mode) = Kinds[i]
  BY <1>2, <1>3, <1>4, <1>5, KindIs DEF Kinds
<1>10. Addrs(t) = A3
  BY <1>7, <1>8 DEF Addrs
<1>11. Kinds = [i \in Ino |-> Kinds[i]]
  BY DEF Kinds
<1> QED BY <1>6, <1>9, <1>10, <1>11 DEF Modes

(* A formatter that ran out of space leaves a failed handle.                  *)
LEMMA RootFailed ==
  ASSUME NEW root, Failed(root.v), NEW a, NEW lf
  PROVE  Well(Sync(WriteNewInode(MakeRoot(root, a, lf), 3, "dir", a, 2, NDIR)))
<1> DEFINE u == root.v
           x == WriteNewInode(u, BADBLKINO, "file", 0, 0, 0)
           y == WriteNewInode(x, ROOTINO, "dir", root.b, 3, 3)
           w == WriteNewInode(y, 3, "dir", a, 2, NDIR)
<1>1. Failed(u)
  OBVIOUS
<1>2. /\ SetBlk(u, a, WithDots(3, ROOTINO, NoEntry)) = u
      /\ SetBlk(u, root.b, WithDots(ROOTINO, ROOTINO, lf)) = u
  BY <1>1, FailedStays
<1>3. MakeRoot(root, a, lf) = y
  BY <1>2 DEF MakeRoot
<1>4. Failed(x)
  <2>1. x = WriteNewInode(u, BADBLKINO, "file", 0, 0, 0)
    OBVIOUS
  <2> HIDE DEF x, u
  <2> QED BY <1>1, <2>1, NewInodeIs, FailedCounted
<1>5. Failed(y)
  <2>1. y = WriteNewInode(x, ROOTINO, "dir", root.b, 3, 3)
    OBVIOUS
  <2> HIDE DEF x, y
  <2> QED BY <1>4, <2>1, NewInodeIs, FailedCounted
<1>6. Failed(w)
  <2>1. w = WriteNewInode(y, 3, "dir", a, 2, NDIR)
    OBVIOUS
  <2> HIDE DEF w, y
  <2> QED BY <1>5, <2>1, NewInodeIs, FailedCounted
<1> HIDE DEF w
<1>7. Well(Sync(w))
  BY <1>6, FailedStays DEF Well
<1> QED BY <1>3, <1>7 DEF w

(* The root and lost+found made on what the free list was laid down on.       *)
LEMMA MadeGood ==
  ASSUME NEW v, NEW Q, NEW a, NEW b, Sound(v, Addrs1, Kinds, Q, {Tag(a), Tag(b)}),
         v.ino = Table1, Fresh(Map(v.blk, Addrs1), Q, a), Fresh(Map(v.blk, Addrs1), Q, b), a # b,
         NEW root, root.v = v, root.b = b, NEW lf, lf.ino = 3
  PROVE  Well(Sync(WriteNewInode(MakeRoot(root, a, lf), 3, "dir", a, 2, NDIR)))
<1> DEFINE A2 == [Addrs1 EXCEPT ![3] = [NoAddr EXCEPT ![0] = a]]
           A3 == [A2 EXCEPT ![ROOTINO] = [NoAddr EXCEPT ![0] = b]]
           ca == WithDots(3, ROOTINO, NoEntry)
           cb == WithDots(ROOTINO, ROOTINO, lf)
           y == SetBlk(v, a, ca)
           z == SetBlk(y, b, cb)
           x1 == WriteNewInode(z, BADBLKINO, "file", 0, 0, 0)
           x2 == WriteNewInode(x1, ROOTINO, "dir", b, 3, 3)
           x3 == WriteNewInode(x2, 3, "dir", a, 2, NDIR)
<1>1. /\ 3 \in Ino /\ ROOTINO \in Ino /\ 3 # ROOTINO /\ NoEntry.ino # ROOTINO /\ lf.ino # ROOTINO
      /\ Addrs1[3] = NoAddr /\ Kinds[3] = "dir" /\ Kinds[ROOTINO] = "dir"
  <2>1. 3 \in Ino /\ ROOTINO \in Ino /\ 3 # ROOTINO /\ 3 # BADBLKINO /\ ROOTINO # BADBLKINO
    BY Numbers DEF Ino, ROOTINO, BADBLKINO
  <2>2. NoEntry.ino # ROOTINO
    BY EmptyEntry DEF ROOTINO
  <2> QED BY <2>1, <2>2 DEF Addrs1, Kinds
<1>2. Readdressed(A2, Addrs1, 3, [NoAddr EXCEPT ![0] = a])
      /\ Readdressed(A3, A2, ROOTINO, [NoAddr EXCEPT ![0] = b])
  BY DEF Readdressed
<1>3. A2[ROOTINO] = NoAddr
  BY <1>1 DEF Addrs1
<1>4. DotsBlk(ca, 3, ROOTINO) /\ DotsBlk(cb, ROOTINO, ROOTINO)
  <2> HIDE DEF ca, cb
  <2> QED BY <1>1, WithDotsIs DEF ca, cb
<1>5. MakeRoot(root, a, lf) = x2
  BY DEF MakeRoot
<1>6. y = SetBlk(v, a, ca) /\ z = SetBlk(y, b, cb)
  OBVIOUS
<1> HIDE DEF A2, A3, ca, cb, y, z
<1> DEFINE H == {Tag(a), Tag(b)}
           G == {Tag(b)}
<1>18. Keeps(G, H, a) /\ Keeps({}, G, b) /\ NoPlaces({}) /\ NoPlaces(G)
  BY TagsApart DEF Keeps, NoPlaces
<1>7. /\ Sound(y, A2, Kinds, Q, G) /\ y.ino = v.ino /\ a \in Block
      /\ \A e : Fresh(Map(v.blk, Addrs1), Q, e) /\ e # a => Fresh(Map(y.blk, A2), Q, e)
  <2> DEFINE i == 3
  <2>1. i \in Ino /\ Addrs1[i] = NoAddr /\ Kinds[i] = "dir" /\ ROOTINO \in Ino
    BY <1>1
  <2>2. Readdressed(A2, Addrs1, i, [NoAddr EXCEPT ![0] = a]) /\ DotsBlk(ca, i, ROOTINO)
    BY <1>2, <1>4
  <2>3. /\ y = SetBlk(v, a, ca) /\ Sound(v, Addrs1, Kinds, Q, H)
        /\ Fresh(Map(v.blk, Addrs1), Q, a) /\ Keeps(G, H, a) /\ NoPlaces(G)
    BY <1>6, <1>18
  <2> HIDE DEF i, G, H
  <2>4. /\ Sound(y, A2, Kinds, Q, G) /\ y.ino = v.ino /\ a \in Block /\ a # 0
        /\ \A e : Fresh(Map(v.blk, Addrs1), Q, e) /\ e # a => Fresh(Map(y.blk, A2), Q, e)
    BY ONLY <2>1, <2>2, <2>3, FirstBlock
  <2> QED BY <2>4
<1>8. Sound(z, A3, Kinds, Q, {}) /\ z.ino = y.ino /\ b \in Block
  <2> DEFINE T == {}
  <2>1. Keeps(T, G, b) /\ NoPlaces(T)
    BY <1>18
  <2>2. Fresh(Map(y.blk, A2), Q, b)
    BY <1>7
  <2> HIDE DEF T, G
  <2>3. Sound(z, A3, Kinds, Q, T) /\ z.ino = y.ino /\ b \in Block
    BY ONLY <1>1, <1>2, <1>3, <1>4, <1>6, <1>7, <2>1, <2>2, FirstBlock
  <2> QED BY <2>3 DEF T
<1>9. Live(z)
  BY <1>8 DEF Sound
<1>10. PICK r1 : /\ NewRec(r1, "file", 0, 0, 0)
                 /\ Like(x1, z) /\ Put1(x1.ino, z.ino, BADBLKINO, r1) /\ Live(x1)
  <2>1. x1 = WriteNewInode(z, BADBLKINO, "file", 0, 0, 0)
    OBVIOUS
  <2> HIDE DEF x1
  <2> QED BY <1>9, <2>1, NewInodeIs, CountedIs
<1>11. PICK r2 : /\ NewRec(r2, "dir", 3, 3, b)
                 /\ Like(x2, x1) /\ Put1(x2.ino, x1.ino, ROOTINO, r2) /\ Live(x2)
  <2>1. x2 = WriteNewInode(x1, ROOTINO, "dir", b, 3, 3)
    OBVIOUS
  <2> HIDE DEF x1, x2
  <2> QED BY <1>10, <2>1, NewInodeIs, CountedIs
<1>12. PICK r3 : /\ NewRec(r3, "dir", 2, NDIR, a)
                 /\ Like(x3, x2) /\ Put1(x3.ino, x2.ino, 3, r3) /\ Live(x3)
  <2>1. x3 = WriteNewInode(x2, 3, "dir", a, 2, NDIR)
    OBVIOUS
  <2> HIDE DEF x2, x3
  <2> QED BY <1>11, <2>1, NewInodeIs, CountedIs
<1>13. Sound(x3, A3, Kinds, Q, {})
  <2> HIDE DEF x1, x2, x3
  <2>1. Sound(x1, A3, Kinds, Q, {})
    BY <1>8, <1>10, SoundLike
  <2>2. Sound(x2, A3, Kinds, Q, {})
    BY <1>11, <2>1, SoundLike
  <2> QED BY <1>12, <2>2, SoundLike
<1>14. Made(x3.ino, r1, r2, r3)
  <2> HIDE DEF x1, x2, x3
  <2>1. z.ino = Table1
    BY <1>7, <1>8
  <2> QED BY <1>10, <1>11, <1>12, <2>1 DEF Made
<1> HIDE DEF x1, x2, x3
<1>15. Inodes(x3.ino) /\ Addrs(x3.ino) = A3 /\ Modes(x3.ino) = Kinds
  BY <1>2, <1>7, <1>8, <1>10, <1>11, <1>12, <1>14, MadeInodes
<1>16. Well(x3)
  BY <1>13, <1>15 DEF Well, Good
<1>17. Well(Sync(x3))
  BY <1>16, SyncGood
<1> QED BY <1>5, <1>17 DEF x3

(* So what the formatter leaves is good, or a failed handle.                  *)
LEMMA InitWell ==
  ASSUME GarbageAssumption, Init
  PROVE  Well(fs)
<1>1. PICK order \in SetToSeqs(Block) : fs = Formatted(order)
  BY DEF Init
<1> DEFINE v == FoldLeft(Bfree, Blank, <<0>> \o order)
           lost == Alloc(v)
           root == Alloc(lost.v)
           lf == [ino |-> 3, name |-> LostFound]
           w == Sync(WriteNewInode(MakeRoot(root, lost.b, lf), 3, "dir", lost.b, 2, NDIR))
<1>2. fs = w
  BY <1>1 DEF Formatted, MakeLost
<1>3. Laying(v, Kinds, order, Cardinality(Block), Cardinality(Block))
  BY LaidSound
<1>9. ToLay(order, Cardinality(Block), Cardinality(Block)) = {}
  <2>1. Cardinality(Block) \in Nat
    BY FreeCount
  <2> QED BY <2>1 DEF ToLay
<1>4. lf.ino = 3
  OBVIOUS
<1> HIDE DEF v, lf
<1>5. PICK P : Sound(v, Addrs1, Kinds, P, {}) /\ v.ino = Table1
  BY <1>3, <1>9 DEF Laying
<1>6. /\ lost.v.ino = v.ino
      /\ \/ Failed(lost.v) /\ lost.b = 0
         \/ /\ lost.b \in P /\ lost.v.blk = v.blk
            /\ Sound(lost.v, Addrs1, Kinds, P \ {lost.b}, {Tag(lost.b)})
  BY <1>5, AllocOne
<1> HIDE DEF lost
<1>7. CASE Failed(lost.v)
  <2>1. Failed(root.v)
    BY <1>7, FailedStays
  <2> HIDE DEF root
  <2> QED BY <1>2, <2>1, RootFailed
<1>8. CASE ~Failed(lost.v)
  <2> DEFINE a == lost.b
             Q == P \ {a}
             H == {Tag(a)}
  <2>1. a \in P /\ lost.v.blk = v.blk /\ Sound(lost.v, Addrs1, Kinds, Q, H)
    BY <1>6, <1>8
  <2> HIDE DEF a, Q, H
  <2>2. /\ root.v.ino = lost.v.ino
        /\ \/ Failed(root.v) /\ root.b = 0
           \/ /\ root.b \in Q /\ root.v.blk = lost.v.blk
              /\ Sound(root.v, Addrs1, Kinds, Q \ {root.b}, H \cup {Tag(root.b)})
    BY <2>1, AllocSound
  <2> HIDE DEF root
  <2>3. CASE Failed(root.v)
    <3>1. Well(Sync(WriteNewInode(MakeRoot(root, a, lf), 3, "dir", a, 2, NDIR)))
      BY <2>3, RootFailed
    <3> QED BY <1>2, <3>1 DEF a
  <2>4. CASE ~Failed(root.v)
    <3> DEFINE b == root.b
               S == Q \ {b}
    <3>6. H \cup {Tag(b)} = {Tag(a), Tag(b)}
      BY DEF H
    <3>1. b \in Q /\ Sound(root.v, Addrs1, Kinds, S, {Tag(a), Tag(b)}) /\ root.v.ino = Table1
      BY <1>5, <1>6, <2>2, <2>4, <3>6
    <3>2. P \subseteq Block
      BY <1>5 DEF Sound, Owns
    <3>3. a # b /\ a \in Block \ S /\ b \in Block \ S /\ a # 0 /\ b # 0
      BY <2>1, <3>1, <3>2, Numbers DEF Q
    <3> HIDE DEF b, S
    <3>4. Fresh(Map(root.v.blk, Addrs1), S, a) /\ Fresh(Map(root.v.blk, Addrs1), S, b)
      BY <3>3, NoRefs DEF Fresh
    <3>5. Well(Sync(WriteNewInode(MakeRoot(root, a, lf), 3, "dir", a, 2, NDIR)))
      BY <1>4, <3>1, <3>3, <3>4, MadeGood DEF b
    <3> QED BY <1>2, <3>5 DEF a
  <2> QED BY <2>3, <2>4
<1> QED BY <1>7, <1>8

-------------------------------------------------------------------------------
(* The handle, whatever operations it has been through, has failed for want of
   space or is good.  GarbageAssumption: file data left in a directory's hole
   is not an entry for the root under a name callers pass, which rw_rmdir and
   rw_rename would follow.  PlainLeaves: no caller passes "", "." or ".." for a
   last component, by which they take the directory itself or its parent for
   its own entry.  NoFreeParents: no caller takes a free inode for a parent;
   files they may take for one, and the invariant says what becomes of them.  *)
THEOREM AlwaysWell ==
  ASSUME GarbageAssumption, PlainLeaves, NoFreeParents
  PROVE  Spec => []Well(fs)
<1>1. Init => Well(fs)
  BY InitWell
<1>2. Well(fs) /\ [Next]_vars => Well(fs)'
  BY NextWell DEF Callers
<1> QED BY <1>1, <1>2, PTL DEF Spec

(* A good volume's files hold their own data, or entries put in them.        *)
LEMMA GoodKeeps ==
  ASSUME NEW v, NEW P, Good(v, P), NEW i \in Ino, v.ino[i].mode = "file",
         NEW l \in Nat, NEW b, b = Bmap(v, v.ino[i].addr, l), b # 0
  PROVE  v.blk[b] = Data(i, l) \/ ("file" \in ParentKinds /\ v.blk[b].k = "dir")
<1> DEFINE A == Addrs(v.ino)
           K == Modes(v.ino)
<1>1. Sound(v, A, K, P, {}) /\ A[i] = v.ino[i].addr /\ K[i] = KindOf("file")
  BY DEF Good, Addrs, Modes
<1>2. l \in Nat /\ i \in Ino
  OBVIOUS
<1>3. b = Bmap(v, A[i], l) /\ b # 0
  BY <1>1
<1> HIDE DEF A, K
<1>4. l \in Lbns /\ b = Map(v.blk, A)[i][l]
  BY ONLY <1>2, <1>3, BmapPlace
<1>5. Fits(v.blk, Map(v.blk, A), K, {})
  BY <1>1 DEF Sound
<1>6. FitsAt(v.blk[b], i, l, KindOf("file"))
  BY <1>1, <1>3, <1>4, <1>5 DEF Fits
<1> QED BY <1>6 DEF FitsAt, KindOf

(* So ContentsKept follows from the invariant.                               *)
LEMMA WellKeeps ==
  ASSUME Well(fs)
  PROVE  ContentsKept
<1> SUFFICES ASSUME ~fs.error, NEW i \in Ino, fs.ino[i].mode = "file",
                    NEW l \in 0 .. fs.ino[i].size - 1,
                    NEW b, b = Bmap(fs, fs.ino[i].addr, l), b # 0
             PROVE  fs.blk[b] = Data(i, l) \/ ("file" \in ParentKinds /\ fs.blk[b].k = "dir")
  BY DEF ContentsKept
<1>1. PICK P : Good(fs, P)
  BY GoodLive
<1>2. l \in Nat
  <2>1. fs.ino[i].size \in Nat
    BY <1>1 DEF Good, Inodes, RecOk, InodeRec
  <2> QED BY <2>1
<1> QED BY <1>1, <1>2, GoodKeeps

(* For every volume, number of callers and operations, however blocks pass
   between files, directories, indirect blocks and the free list, what a file
   maps is what was last written to it (ContentsKept): data by its own place,
   and only where callers take files for parents a block with entries.       *)
THEOREM ContentsAlwaysKept ==
  ASSUME GarbageAssumption, PlainLeaves, NoFreeParents
  PROVE  Spec => []ContentsKept
<1>1. Spec => []Well(fs)
  BY AlwaysWell
<1>2. Well(fs) => ContentsKept
  BY WellKeeps
<1> QED BY <1>1, <1>2, PTL

(* No call fails but for want of space, and then the list is at its end.     *)
THEOREM OnlyFullFails ==
  ASSUME GarbageAssumption, PlainLeaves, NoFreeParents
  PROVE  Spec => FailsOnlyWhenFull
<1>1. Spec => []Well(fs)
  BY AlwaysWell
<1>2. Well(fs)' => (fs'.error => fs'.nfree = 0 /\ fs'.free[0] = 0 /\ fs'.tfree = -1)
  BY DEF Well, Good, Sound, Live, Failed
<1>3. Well(fs) /\ Well(fs)' /\ [Next]_vars
        => [fs'.error => fs'.nfree = 0 /\ fs'.free[0] = 0 /\ fs'.tfree = -1]_vars
  BY <1>2
<1> QED BY <1>1, <1>3, PTL DEF Spec, FailsOnlyWhenFull

-------------------------------------------------------------------------------
(* What fsck makes of a good volume.  An address it marks is a block's, at a
   place of its own and not free.                                            *)
LEMMA MarkIs ==
  ASSUME NEW v, NEW P, Good(v, P), NEW m \in Marks(v)
  PROVE  /\ AddrAt(v, m) \in Block \ P
         /\ \A n \in Marks(v) : AddrAt(v, m) = AddrAt(v, n) => m = n
<1> DEFINE A == Addrs(v.ino)
           K == Modes(v.ino)
           R == Map(v.blk, A)
<1>1. Sound(v, A, K, P, {}) /\ \A j \in Ino : A[j] = v.ino[j].addr
  BY DEF Good, Addrs
<1>2. ASSUME NEW n \in Marks(v)
      PROVE  /\ n.ino \in Ino /\ n.at \in 1 .. NAddrs /\ n = [ino |-> n.ino, at |-> n.at]
             /\ AddrPlace(n.at) \in Places
             /\ AddrAt(v, n) = R[n.ino][AddrPlace(n.at)] /\ AddrAt(v, n) # 0
  <2>1. /\ n.ino \in Ino /\ n.at \in 1 .. NAddrs /\ n = [ino |-> n.ino, at |-> n.at]
        /\ AddrAt(v, n) # 0 /\ AddrAt(v, n) = AddrsOf(v, v.ino[n.ino].addr)[n.at]
    BY DEF Marks, Allocated, NAddrs, AddrAt
  <2>2. AddrPlace(n.at) \in Places
    BY <2>1, AddrPlaces
  <2>3. AddrsOf(v, v.ino[n.ino].addr)[n.at] = Ref(v.blk, v.ino[n.ino].addr, AddrPlace(n.at))
    BY <2>1, AddrRef
  <2> QED BY <1>1, <2>1, <2>2, <2>3 DEF Map
<1> DEFINE H == {}
<1>3. Sound(v, A, K, P, H) /\ R = Map(v.blk, A)
  BY <1>1
<1> HIDE DEF A, K, R, H
<1> DEFINE i == m.ino
           p == AddrPlace(m.at)
           b == AddrAt(v, m)
<1>4. i \in Ino /\ p \in Places /\ b = Map(v.blk, A)[i][p] /\ b # 0
  BY <1>2, <1>3
<1> HIDE DEF i, p, b
<1>5. /\ b \in Block \ P
      /\ \A j \in Ino : \A q \in Places : Map(v.blk, A)[j][q] = b => j = i /\ q = p
  BY ONLY <1>3, <1>4, PlaceOnly
<1>6. ASSUME NEW n \in Marks(v), b = AddrAt(v, n) PROVE m = n
  <2>1. n.ino = i /\ AddrPlace(n.at) = p
    BY <1>2, <1>3, <1>5, <1>6
  <2>2. n.at = m.at
    BY <1>2, <2>1, AddrPlaces DEF p
  <2> QED BY <1>2, <2>1, <2>2 DEF i
<1> QED BY <1>5, <1>6 DEF b

(* A block that is not free is at some place, and fsck comes to it.          *)
LEMMA BlockMarked ==
  ASSUME NEW v, NEW P, Good(v, P), NEW b \in Block \ P
  PROVE  \E m \in Marks(v) : AddrAt(v, m) = b
<1> DEFINE A == Addrs(v.ino)
           R == Map(v.blk, A)
<1>1. /\ Whole(R, P, {}) /\ Inodes(v.ino)
      /\ \A j \in Ino : A[j] = v.ino[j].addr
  BY DEF Good, Sound, Addrs
<1>2. PICK i \in Ino, p \in Places : R[i][p] = b
  BY <1>1 DEF Whole, Fresh
<1>3. b # 0
  BY Numbers
<1>4. i \in Allocated(v)
  <2> SUFFICES ASSUME v.ino[i].mode = "none" PROVE FALSE
    BY DEF Allocated
  <2>1. A[i] = NoAddr
    BY <1>1 DEF Inodes, RecOk
  <2> HIDE DEF A
  <2>2. R[i][p] = 0
    BY <2>1, NoneReferred
  <2> QED BY <1>2, <1>3, <2>2
<1>5. PICK x \in 1 .. NAddrs : AddrPlace(x) = p
  BY PlaceAddrs
<1>6. AddrsOf(v, v.ino[i].addr)[x] = b
  <2>1. R[i][p] = Ref(v.blk, v.ino[i].addr, p)
    BY <1>1 DEF Map
  <2>2. AddrsOf(v, v.ino[i].addr)[x] = Ref(v.blk, v.ino[i].addr, AddrPlace(x))
    BY AddrRef
  <2> QED BY <1>2, <1>5, <2>1, <2>2
<1> DEFINE m == [ino |-> i, at |-> x]
<1>7. m \in Marks(v) /\ AddrAt(v, m) = b
  BY <1>3, <1>4, <1>6 DEF Marks, AddrAt, NAddrs
<1> QED BY <1>7

(* So the blocks in use, to fsck, are the ones that are not free.            *)
LEMMA RefsAre ==
  ASSUME NEW v, NEW P, Good(v, P)
  PROVE  /\ Refs(v) = Block \ P
         /\ \A m \in Marks(v) : AddrAt(v, m) # Stray
<1>1. Stray \notin Block
  BY VolumeAssumption, Zenon DEF VolumeAssumption, Stray
<1>2. \A m \in Marks(v) : AddrAt(v, m) \in Block \ P
  BY MarkIs
<1>3. \A b \in Block \ P : \E m \in Marks(v) : AddrAt(v, m) = b
  BY BlockMarked
<1> QED BY <1>1, <1>2, <1>3 DEF Refs

(* fsck's walk of the free list is the one the theory of free lists is about. *)
LEMMA SameWalk ==
  ASSUME NEW disk, NEW sb, NEW used
  PROVE  FreeWalk!Walk(disk, used, sb) = L!Walk(disk, used, sb)
BY Zenon DEF FreeWalk!Walk, FreeWalk!Turn, FreeWalk!Turns, FreeWalk!Ended, FreeWalk!Popped,
     FreeWalk!Flagged, FreeWalk!Reloaded, FreeWalk!ClampNfree, FreeWalk!FoldLeft,
     FreeWalk!MapThenFoldSet, FreeWalk!Max, FreeWalk!Cardinality,
     L!Walk, L!Turn, L!Turns, L!Ended, L!Popped, L!Flagged, L!Reloaded, L!ClampNfree,
     L!FoldLeft, L!MapThenFoldSet, L!Max, L!Cardinality

(* It accepts the list of a volume that is sound, once it is flushed.        *)
LEMMA ListAccepted ==
  ASSUME NEW disk, NEW sb, NEW P, NEW used, NEW t, Listed(disk, sb.nfree, sb.free, t, P),
         \A b \in Block : AsFree(disk[b]).nfree \in Int,
         P \cap used = {}, Block \subseteq P \cup used
  PROVE  FreeWalk!FsckBlocks(Pieces(disk), sb, used) = {}
<1> DEFINE pieces == Pieces(disk)
<1>1. PICK m, q : L!Chain(pieces, sb.nfree, sb.free, m, q, P)
  BY DEF Listed
<1>2. \A b \in Block : pieces[b].nfree \in Int
  BY DEF Pieces
<1> HIDE DEF pieces
<1>4. L!FsckBlocks(pieces, sb, used) = {}
  BY <1>1, <1>2, ListConstants, L!BlocksAccepted
<1>5. FreeWalk!FsckBlocks(pieces, sb, used) = L!FsckBlocks(pieces, sb, used)
  BY SameWalk, Zenon DEF FreeWalk!FsckBlocks, L!FsckBlocks
<1> QED BY <1>4, <1>5 DEF pieces

(* A flushed superblock is the handle's.                                     *)
LEMMA FlushedSuper ==
  ASSUME NEW v, IsVolume(v), ~v.error, NEW d, d = Sync(v)
  PROVE  d.sb.nfree = v.nfree /\ d.sb.free = v.free /\ d.sb.tfree = v.tfree
BY DEF Sync, IsVolume

(* A good volume, flushed, has all its blocks accounted for.                 *)
LEMMA GoodAccounted ==
  ASSUME NEW v, NEW P, Good(v, P), ~v.error, NEW d, d = Sync(v)
  PROVE  BlockErrors(d) = {} /\ d.sb.tfree = Cardinality(Block) - Cardinality(Refs(d))
<1>1. Good(d, P) /\ IsVolume(v) /\ d.blk = v.blk
  <2>1. IsVolume(v) /\ v.error \in BOOLEAN /\ Well(v)
    BY DEF Good, Sound, Live, Well
  <2>2. Good(d, P)
    BY <2>1, SyncGood
  <2>3. Like(Sync(v), v)
    BY <2>1, SyncIs
  <2> QED BY <2>1, <2>2, <2>3 DEF Like
<1>2. d.sb.nfree = v.nfree /\ d.sb.free = v.free /\ d.sb.tfree = v.tfree
  BY <1>1, FlushedSuper
<1>3. /\ Listed(d.blk, d.sb.nfree, d.sb.free, d.sb.tfree, P)
      /\ \A b \in Block : AsFree(d.blk[b]).nfree \in Int
      /\ P \subseteq Block
  BY <1>1, <1>2 DEF Good, Sound, BlkOk, Owns
<1>4. Refs(d) = Block \ P /\ \A m \in Marks(d) : AddrAt(d, m) # Stray
  BY <1>1, RefsAre
<1>5. \A m, n \in Marks(d) : AddrAt(d, m) = AddrAt(d, n) => m = n
  BY <1>1, MarkIs
<1>6. FreeWalk!FsckBlocks([b \in Block |-> AsFree(d.blk[b])], d.sb, Refs(d)) = {}
  <2>1. P \cap Refs(d) = {} /\ Block \subseteq P \cup Refs(d)
    BY <1>4
  <2> QED BY <1>3, <2>1, ListAccepted DEF Pieces
<1>7. BlockErrors(d) = {}
  BY <1>4, <1>5, <1>6 DEF BlockErrors, AddressErrors, ListErrors
<1>8. Cardinality(Block \ P) = Cardinality(Block) - Cardinality(P) /\ Cardinality(P) \in Int
  <2>1. IsFiniteSet(Block) /\ Block \cap P = P
    BY <1>3, FreeCount
  <2>2. Cardinality(P) \in Nat /\ Cardinality(Block) \in Nat
    BY <1>3, FreeCount
  <2>3. Cardinality(Block \ P) = Cardinality(Block) - Cardinality(Block \cap P)
    BY <2>1, FS_Difference
  <2> QED BY <2>1, <2>2, <2>3
<1>9. d.sb.tfree = Cardinality(P)
  BY <1>3 DEF Listed
<1>10. Cardinality(Block) \in Nat
  BY FreeCount
<1> QED BY <1>4, <1>7, <1>8, <1>9, <1>10

(* For every volume and every order in which calls create, write, truncate,
   replace and remove, those that refuse half way included: until a call runs
   out of space no block is lost, in two files, or both in a file and free, and
   the free blocks are counted right (BlocksAccounted).                      *)
THEOREM BlocksAlwaysAccounted ==
  ASSUME GarbageAssumption, PlainLeaves, NoFreeParents
  PROVE  Spec => []BlocksAccounted
<1>1. Spec => []Well(fs)
  BY AlwaysWell
<1>2. ASSUME Well(fs) PROVE BlocksAccounted
  <2> SUFFICES ASSUME ~fs.error
               PROVE  /\ BlockErrors(Sync(fs)) = {}
                      /\ Sync(fs).sb.tfree = Cardinality(Block) - Cardinality(Refs(Sync(fs)))
    BY DEF BlocksAccounted
  <2>1. PICK P : Good(fs, P)
    BY <1>2, GoodLive
  <2> QED BY <2>1, GoodAccounted
<1> QED BY <1>1, <1>2, PTL

-------------------------------------------------------------------------------
(* The repairs.  What is known of any volume on disk, however damaged: each
   block can be read as a piece of the free list, and the indirect address of
   an inode, which the readers follow, lies in the data region.              *)
Readable(v) ==
  /\ IsVolume(v) /\ v.blk = [b \in Block |-> v.blk[b]]
  /\ \A b \in Block : AsFree(v.blk[b]).nfree \in Int
  /\ \A i \in Ino : v.ino[i].addr[LADDR] \in Blk0

RelayOp(used, v, b) == Unnamed(used, v, b)
Relays == INSTANCE FoldRuns WITH Op <- RelayOp

(* The list of the volume x laid anew, as far as the blocks P: nothing else of
   it is written.                                                            *)
Relist(w, x, P) ==
  /\ Live(w) /\ w.ino = x.ino /\ w.blk = [b \in Block |-> w.blk[b]]
  /\ \A b \in Block : AsFree(w.blk[b]).nfree \in Int
  /\ \A b \in Block \ P : w.blk[b] = x.blk[b]
  /\ Listed(w.blk, w.nfree, w.free, w.tfree, P)

(* One block more.                                                           *)
LEMMA RelayStep ==
  ASSUME NEW x, NEW P, P \subseteq Block, NEW v, Relist(v, x, P),
         NEW b \in Block \ P, NEW w, w = Bfree(v, b)
  PROVE  Relist(w, x, P \cup {b})
<1>1. Live(v) /\ b # 0
  BY Numbers DEF Relist
<1>2. Freed(w, v, b)
  BY <1>1, BfreeIs
<1>3. ListOf(v, P)
  BY DEF Relist, ListOf
<1>4. ListOf(w, P \cup {b}) /\ Spills(w, v, b)
  <2>1. b \in Block \ P
    OBVIOUS
  <2> QED BY ONLY <1>2, <1>3, <2>1, BfreeListed
<1>5. Live(w) /\ w.ino = v.ino
  BY <1>2 DEF Freed
<1>6. AsFree(w.blk[b]).nfree \in Int
  <2>1. AsFree(FreeBlk(v.nfree, v.free)).nfree = v.nfree
    BY DEF AsFree, FreeBlk
  <2> QED BY <1>4, <2>1, Numbers DEF Relist, Spills
<1>7. \A e \in Block : AsFree(w.blk[e]).nfree \in Int
  BY <1>4, <1>6 DEF Relist, Spills
<1>8. \A e \in Block \ (P \cup {b}) : w.blk[e] = x.blk[e]
  BY <1>4 DEF Relist, Spills
<1> QED BY <1>4, <1>5, <1>7, <1>8 DEF Relist, ListOf

(* All of them but the ones in use.                                          *)
LEMMA RelayAll ==
  ASSUME NEW used, NEW order \in SetToSeqs(Block), NEW v, Relist(v, v, {})
  PROVE  Relist(FoldLeft(LAMBDA w, b : Unnamed(used, w, b), v, order), v, Block \ used)
<1> DEFINE n == Cardinality(Block)
<1>1. /\ n \in Nat /\ order \in [1 .. n -> Block]
      /\ \A i, j \in 1 .. n : order[i] = order[j] => i = j
      /\ \A b \in Block : \E j \in 1 .. n : order[j] = b
  BY OrderIs
<1> HIDE DEF n
<1>2. FoldLeft(LAMBDA w, b : Unnamed(used, w, b), v, order) = Relays!Left(used, v, order, n)
  BY <1>1 DEF FoldLeft, MapThenFoldSet, Max, Relays!Left, Relays!Leftmost, RelayOp
<1>3. PICK s : Relays!IsRun(s, used, v, order, n) /\ Relays!Left(used, v, order, n) = s[n]
  BY <1>1, Relays!LeftRun
<1>4. s[0] = v /\ \A k \in 1 .. n : s[k] = Unnamed(used, s[k - 1], order[k])
  BY <1>3 DEF Relays!IsRun, RelayOp
<1> DEFINE Some(k) == {order[j] : j \in 1 .. k} \ used
           T == {k \in 0 .. n : Relist(s[k], v, Some(k))}
<1>5. 0 \in T
  <2>1. Some(0) = {} /\ 0 \in 0 .. n
    BY <1>1
  <2> QED BY <1>4, <2>1
<1>6. ASSUME NEW k \in 1 .. n, k - 1 \in T PROVE k \in T
  <2> DEFINE b == order[k]
             P == Some(k - 1)
             y == s[k - 1]
             z == s[k]
  <2>1. Relist(y, v, P) /\ z = Unnamed(used, y, b) /\ k \in 0 .. n
    BY <1>4, <1>6
  <2>2. b \in Block /\ P \subseteq Block
    BY <1>1
  <2>3. b \notin P
    <3>1. \A j \in 1 .. k - 1 : j \in 1 .. n /\ j # k
      BY <1>1
    <3> QED BY <1>1, <3>1
  <2>4. Some(k) = IF b \in used THEN P ELSE P \cup {b}
    <3>1. 1 .. k = (1 .. k - 1) \cup {k}
      BY <1>1
    <3> QED BY <3>1
  <2> HIDE DEF Some, b, P, y, z
  <2>5. CASE b \in used
    BY <2>1, <2>4, <2>5 DEF Unnamed, z
  <2>6. CASE b \notin used
    <3>1. z = Bfree(y, b)
      BY <2>1, <2>6 DEF Unnamed
    <3>2. Relist(z, v, P \cup {b})
      BY <2>1, <2>2, <2>3, <3>1, RelayStep
    <3> QED BY <2>1, <2>4, <2>6, <3>2 DEF z
  <2> QED BY <2>5, <2>6
<1>7. n \in T
  <2> HIDE DEF T
  <2> QED BY <1>1, <1>5, <1>6, Relays!UpTo
<1>8. Some(n) = Block \ used
  BY <1>1
<1> QED BY <1>2, <1>3, <1>7, <1>8

(* The volume a rebuild starts from: the disk as it is, the list empty.      *)
LEMMA EmptiedIs ==
  ASSUME NEW v, IsVolume(v), NEW x, x = Emptied(v)
  PROVE  /\ Live(x) /\ x.ino = v.ino /\ x.blk = v.blk
         /\ x.nfree = 0 /\ x.free = NoCache /\ x.tfree = 0
BY DEF Emptied, Live, IsVolume

(* The volume w is v with a free list that fsck's walk accepts and that is of
   exactly the blocks not in use, counted; no inode and no block in use was
   written.                                                                  *)
Relisted(w, v, used) ==
  /\ FreeWalk!FsckBlocks(Pieces(w.blk), w.sb, used) = {}
  /\ w.sb.tfree = Cardinality(Block \ used)
  /\ w.ino = v.ino /\ \A b \in Block \cap used : w.blk[b] = v.blk[b]

(* Whatever the disk holds, and whatever set of blocks is taken to be in use:
   a rebuild leaves a free list that fsck's walk accepts and that is of exactly
   the other blocks, counted, and writes to no block in use and to no inode.  *)
THEOREM RebuildExact ==
  ASSUME NEW v, Readable(v), NEW used, NEW order \in SetToSeqs(Block),
         NEW w, w = Rebuild(v, used, order)
  PROVE  Relisted(w, v, used)
<1> DEFINE x == Emptied(v)
           y == Bfree(x, 0)
           z == FoldLeft(LAMBDA u, b : Unnamed(used, u, b), y, order)
           P == Block \ used
<1>1. w = Sync(z)
  BY DEF Rebuild, Relaid
<1>2. /\ Live(x) /\ x.ino = v.ino /\ x.blk = v.blk
      /\ x.nfree = 0 /\ x.free = NoCache /\ x.tfree = 0
  <2>1. x = Emptied(v)
    OBVIOUS
  <2>2. IsVolume(v)
    BY DEF Readable
  <2> HIDE DEF x
  <2> QED BY ONLY <2>1, <2>2, EmptiedIs
<1> HIDE DEF x
<1>3. /\ Live(y) /\ y.ino = x.ino /\ y.blk = x.blk
      /\ y.nfree = 1 /\ y.free = NoCache /\ y.tfree = 0
  <2>1. y = Bfree(x, 0)
    OBVIOUS
  <2> HIDE DEF y
  <2> QED BY <1>2, <2>1, Terminated
<1> HIDE DEF y
<1>4. Relist(y, y, {})
  <2>1. Listed(y.blk, y.nfree, y.free, y.tfree, {})
    BY <1>3, EmptyListed
  <2>2. y.blk = [b \in Block |-> y.blk[b]] /\ \A b \in Block : AsFree(y.blk[b]).nfree \in Int
    BY <1>2, <1>3 DEF Readable
  <2> QED BY <1>3, <2>1, <2>2 DEF Relist
<1>5. Relist(z, y, P)
  BY <1>4, RelayAll
<1> HIDE DEF z
<1>6. /\ IsVolume(z) /\ ~z.error /\ z.error \in BOOLEAN
  BY <1>5 DEF Relist, Live
<1>7. /\ w.sb.nfree = z.nfree /\ w.sb.free = z.free /\ w.sb.tfree = z.tfree
      /\ w.ino = z.ino /\ w.blk = z.blk
  <2>1. w.sb.nfree = z.nfree /\ w.sb.free = z.free /\ w.sb.tfree = z.tfree
    BY <1>1, <1>6, FlushedSuper
  <2>2. Like(Sync(z), z) /\ Sync(z).ino = z.ino
    BY <1>6, SyncIs
  <2> QED BY <1>1, <2>1, <2>2 DEF Like
<1>8. /\ Listed(w.blk, w.sb.nfree, w.sb.free, w.sb.tfree, P)
      /\ \A b \in Block : AsFree(w.blk[b]).nfree \in Int
  BY <1>5, <1>7 DEF Relist
<1>9. FreeWalk!FsckBlocks(Pieces(w.blk), w.sb, used) = {}
  <2>1. P \cap used = {} /\ Block \subseteq P \cup used
    OBVIOUS
  <2> QED BY <1>8, <2>1, ListAccepted
<1>10. w.sb.tfree = Cardinality(P)
  BY <1>8 DEF Listed
<1>11. w.ino = v.ino /\ \A b \in Block \cap used : w.blk[b] = v.blk[b]
  BY <1>2, <1>3, <1>5, <1>7 DEF Relist
<1> QED BY <1>9, <1>10, <1>11 DEF Relisted

(* What fsck marks depends on the inodes and on the blocks it marks.         *)
LEMMA MarksKept ==
  ASSUME NEW v, NEW w, w.ino = v.ino, \A i \in Ino : v.ino[i].addr[LADDR] \in Blk0,
         \A b \in Block \cap Refs(v) : w.blk[b] = v.blk[b], Stray \notin Block
  PROVE  Marks(w) = Marks(v) /\ \A m \in Marks(v) : AddrAt(w, m) = AddrAt(v, m)
<1>1. ASSUME NEW i \in Allocated(v)
      PROVE  AddrsOf(w, v.ino[i].addr) = AddrsOf(v, v.ino[i].addr)
  <2> DEFINE a == v.ino[i].addr
             m == [ino |-> i, at |-> NAddrs]
  <2>1. a[LADDR] # 0 => a[LADDR] \in Block \cap Refs(v)
    <3> SUFFICES ASSUME a[LADDR] # 0 PROVE a[LADDR] \in Block \cap Refs(v)
      OBVIOUS
    <3>1. a[LADDR] \in Block
      BY DEF Blk0, Allocated
    <3>2. NAddrs \in 1 .. NAddrs /\ ~(NAddrs <= LADDR + NINDIR)
      BY Numbers DEF NAddrs
    <3>3. AddrAt(v, m) = a[LADDR]
      BY <3>2 DEF AddrAt, AddrsOf, NAddrs
    <3>4. m \in Marks(v)
      BY <3>2, <3>3 DEF Marks, NAddrs
    <3> QED BY <3>1, <3>3, <3>4 DEF Refs
  <2>2. \A l : Bmap(w, a, l) = Bmap(v, a, l)
    BY <2>1 DEF Bmap
  <2> QED BY <2>2 DEF AddrsOf
<1>2. ASSUME NEW i \in Allocated(v), NEW k
      PROVE  AddrAt(w, [ino |-> i, at |-> k]) = AddrAt(v, [ino |-> i, at |-> k])
  BY <1>1 DEF AddrAt
<1>3. Allocated(w) = Allocated(v)
  BY DEF Allocated
<1>4. \A m \in [ino : Allocated(v), at : 1 .. NAddrs] : AddrAt(w, m) = AddrAt(v, m)
  BY <1>1 DEF AddrAt
<1> QED BY <1>3, <1>4 DEF Marks, NAddrs

(* icheck -s heals the free list of any volume and touches nothing else: the
   blocks that inodes name are the same, and fsck's phases 2 and 3 find nothing
   to say of the list.  What no free list can heal, addresses out of range and
   blocks named twice, is as it was (cmd_fsck.c, the rebuild of fsck_run).    *)
THEOREM SalvageHeals ==
  ASSUME NEW v, Readable(v), NEW order \in SetToSeqs(Block), NEW w, w = Salvage(v, order)
  PROVE  /\ ListErrors(w) = {} /\ AddressErrors(w) = AddressErrors(v)
         /\ Refs(w) = Refs(v) /\ w.ino = v.ino
         /\ w.sb.tfree = Cardinality(Block \ Refs(w))
<1> DEFINE used == Refs(v)
<1>1. w = Rebuild(v, used, order)
  BY DEF Salvage
<1>2. Relisted(w, v, used)
  <2>1. Readable(v) /\ order \in SetToSeqs(Block)
    OBVIOUS
  <2> HIDE DEF used
  <2> QED BY ONLY <1>1, <2>1, RebuildExact
<1>3. Stray \notin Block
  BY VolumeAssumption, Zenon DEF VolumeAssumption, Stray
<1>4. Marks(w) = Marks(v) /\ \A m \in Marks(v) : AddrAt(w, m) = AddrAt(v, m)
  <2>1. \A i \in Ino : v.ino[i].addr[LADDR] \in Blk0
    BY DEF Readable
  <2>2. w.ino = v.ino /\ \A b \in Block \cap Refs(v) : w.blk[b] = v.blk[b]
    BY <1>2 DEF Relisted
  <2> QED BY <1>3, <2>1, <2>2, MarksKept
<1>5. Refs(w) = Refs(v)
  BY <1>4 DEF Refs
<1>6. AddressErrors(w) = AddressErrors(v)
  BY <1>4 DEF AddressErrors
<1>7. ListErrors(w) = {}
  BY <1>2, <1>5 DEF Relisted, ListErrors, Pieces
<1> QED BY <1>2, <1>5, <1>6, <1>7 DEF Relisted

-------------------------------------------------------------------------------
(* fsck -p.  Inodes of the shape all are read in.                            *)
Shaped(r) == r = [mode |-> r.mode, nlink |-> r.nlink, size |-> r.size, addr |-> r.addr]
Tabled(v) ==
  /\ v.ino = [i \in Ino |-> v.ino[i]]
  /\ \A i \in Ino : Shaped(v.ino[i]) /\ v.ino[i].size \in Nat

(* A damaged volume that phase 1 of fsck has nothing to say of: entries may
   lead nowhere, counts be wrong, inodes unreachable, the free list lost.  The
   entry for lost+found, if it is there, leads to an inode, which has no slots
   if it is not in use.                                                      *)
Slotless(v, lf) == lf = 0 \/ (lf \in Ino /\ v.ino[lf].size = 0)
Mendable(v) ==
  /\ Readable(v) /\ Tabled(v) /\ AddressErrors(v) = {}
  /\ LET lf == Lookup(v, ROOTINO, LostFound) IN lf \in Allocated(v) \/ Slotless(v, lf)

(* The blocks that hold the data of the inodes D, and the inodes a repair
   writes entries to.                                                        *)
DataOf(v, D) == {b \in Block : \E i \in D : \E l \in Nat : Bmap(v, v.ino[i].addr, l) = b}
Listing(v) == Allocated(v) \cap (DirInos(v) \cup {Lookup(v, ROOTINO, LostFound)})

(* The volume w is v with other entries in the data of D, and other counts.  *)
Touched(w, v, D) ==
  /\ IsVolume(w) /\ w.blk = [b \in Block |-> w.blk[b]] /\ w.ino = [i \in Ino |-> w.ino[i]]
  /\ \A i \in Ino : /\ Shaped(w.ino[i]) /\ w.ino[i].mode = v.ino[i].mode
                    /\ w.ino[i].size = v.ino[i].size /\ w.ino[i].addr = v.ino[i].addr
  /\ \A b \in Block : w.blk[b] = v.blk[b] \/ (w.blk[b].k = "dir" /\ b \in DataOf(v, D))

(* A volume phase 1 is silent on has no block at two places.                 *)
LEMMA MarksApart ==
  ASSUME NEW v, AddressErrors(v) = {}
  PROVE  /\ \A m \in Marks(v) : AddrAt(v, m) # Stray
         /\ \A m, n \in Marks(v) : AddrAt(v, m) = AddrAt(v, n) => m = n
<1> DEFINE S == Marks(v)
           A == \E m \in S : AddrAt(v, m) = Stray
           B == \E m, n \in S : m # n /\ AddrAt(v, m) = AddrAt(v, n) /\ AddrAt(v, m) # Stray
<1>1. /\ (IF A THEN {"out of range"} ELSE {}) = {}
      /\ (IF B THEN {"multiply referenced"} ELSE {}) = {}
  BY DEF AddressErrors
<1>2. ~A /\ ~B
  <2> HIDE DEF A, B
  <2> QED BY <1>1
<1> QED BY <1>2

(* Where fsck meets a block of an inode's data, and its indirect block.      *)
LEMMA DataMark ==
  ASSUME NEW v, NEW i \in Allocated(v), NEW l \in Nat, Bmap(v, v.ino[i].addr, l) # 0
  PROVE  \E m \in Marks(v) : m.ino = i /\ m.at # NAddrs /\ AddrAt(v, m) = Bmap(v, v.ino[i].addr, l)
<1> DEFINE m == [ino |-> i, at |-> l + 1]
<1>1. l < LADDR + NINDIR
  BY Numbers DEF Bmap, Mappable
<1>2. l + 1 \in 1 .. LADDR + NINDIR + 1 /\ l + 1 <= LADDR + NINDIR /\ l + 1 - 1 = l
  BY <1>1, Numbers
<1>3. AddrAt(v, m) = Bmap(v, v.ino[i].addr, l)
  BY <1>2 DEF AddrAt, AddrsOf
<1>4. m \in Marks(v)
  BY <1>2, <1>3 DEF Marks
<1>5. m.ino = i /\ m.at # NAddrs
  BY <1>2, Numbers DEF NAddrs
<1> QED BY <1>3, <1>4, <1>5

(* See above.                                                                *)
LEMMA IndMark ==
  ASSUME NEW v, NEW i \in Allocated(v), v.ino[i].addr[LADDR] # 0
  PROVE  \E m \in Marks(v) : m.ino = i /\ m.at = NAddrs /\ AddrAt(v, m) = v.ino[i].addr[LADDR]
<1> DEFINE m == [ino |-> i, at |-> NAddrs]
<1>1. NAddrs \in 1 .. LADDR + NINDIR + 1 /\ ~(NAddrs <= LADDR + NINDIR)
  BY Numbers DEF NAddrs
<1>2. AddrAt(v, m) = v.ino[i].addr[LADDR]
  BY <1>1 DEF AddrAt, AddrsOf
<1>3. m \in Marks(v)
  BY <1>1, <1>2 DEF Marks
<1> QED BY <1>2, <1>3

(* Writing entries harms no indirect block,                                  *)
LEMMA IndirectKept ==
  ASSUME NEW v, Mendable(v), NEW D, D \subseteq Allocated(v), NEW w, Touched(w, v, D),
         NEW i \in Allocated(v), v.ino[i].addr[LADDR] # 0
  PROVE  v.ino[i].addr[LADDR] \in Block /\ w.blk[v.ino[i].addr[LADDR]] = v.blk[v.ino[i].addr[LADDR]]
<1> DEFINE b == v.ino[i].addr[LADDR]
<1>1. b \in Block
  BY DEF Mendable, Readable, Allocated, Blk0
<1>2. ASSUME b \in DataOf(v, D) PROVE FALSE
  <2>1. PICK j \in D, l \in Nat : Bmap(v, v.ino[j].addr, l) = b
    BY <1>2 DEF DataOf
  <2>2. PICK n \in Marks(v) : n.at # NAddrs /\ AddrAt(v, n) = b
    BY <2>1, DataMark
  <2>3. PICK m \in Marks(v) : m.at = NAddrs /\ AddrAt(v, m) = b
    BY IndMark
  <2>4. AddressErrors(v) = {}
    BY DEF Mendable
  <2> HIDE DEF b
  <2>5. m = n
    BY <2>2, <2>3, <2>4, MarksApart
  <2> QED BY <2>2, <2>3, <2>5
<1> QED BY <1>1, <1>2 DEF Touched

(* so that every file is still where it was.                                 *)
LEMMA BmapKept ==
  ASSUME NEW v, Mendable(v), NEW D, D \subseteq Allocated(v), NEW w, Touched(w, v, D),
         NEW i \in Allocated(v)
  PROVE  /\ w.ino[i].addr = v.ino[i].addr /\ w.ino[i].size = v.ino[i].size
         /\ w.ino[i].mode = v.ino[i].mode
         /\ \A l : Bmap(w, v.ino[i].addr, l) = Bmap(v, v.ino[i].addr, l)
<1>1. v.ino[i].addr[LADDR] # 0 => w.blk[v.ino[i].addr[LADDR]] = v.blk[v.ino[i].addr[LADDR]]
  BY IndirectKept
<1>2. \A l : Bmap(w, v.ino[i].addr, l) = Bmap(v, v.ino[i].addr, l)
  BY <1>1 DEF Bmap
<1> QED BY <1>2 DEF Touched, Allocated

(* The two writes of the repairs: entries, and a count.                      *)
LEMMA DirWrite ==
  ASSUME NEW v, NEW D, NEW w, Touched(w, v, D), NEW e,
         NEW b, b \in Block => b \in DataOf(v, D), NEW x, x = SetBlk(w, b, DirBlk(e))
  PROVE  Touched(x, v, D)
<1>1. CASE w.error
  BY <1>1 DEF SetBlk
<1>2. CASE ~w.error
  <2>1. IsVolume(x) /\ x.ino = w.ino /\ x.blk = [w.blk EXCEPT ![b] = DirBlk(e)]
    BY <1>2 DEF SetBlk, Touched, IsVolume
  <2>2. DirBlk(e).k = "dir"
    BY DEF DirBlk
  <2>3. x.blk = [c \in Block |-> x.blk[c]]
    BY <2>1 DEF Touched
  <2>4. \A c \in Block : x.blk[c] = IF c = b THEN DirBlk(e) ELSE w.blk[c]
    BY <2>1 DEF Touched
  <2>5. \A c \in Block : x.blk[c] = v.blk[c] \/ (x.blk[c].k = "dir" /\ c \in DataOf(v, D))
    BY <2>2, <2>4 DEF Touched
  <2> QED BY <2>1, <2>3, <2>5 DEF Touched
<1> QED BY <1>1, <1>2

(* See above.                                                                *)
LEMMA CountWrite ==
  ASSUME NEW v, NEW D, NEW w, Touched(w, v, D), NEW i \in Ino, NEW n, NEW x, x = SetNlink(w, i, n)
  PROVE  Touched(x, v, D)
<1>1. CASE x = w
  BY <1>1
<1>2. CASE x # w
  <2> DEFINE q == [w.ino[i] EXCEPT !.nlink = n]
  <2>1. x = SetIno(w, i, q) /\ ~w.error
    BY <1>2 DEF SetNlink, SetIno
  <2>2. IsVolume(x) /\ x.blk = w.blk /\ x.ino = [w.ino EXCEPT ![i] = q]
    BY <2>1 DEF SetIno, Touched, IsVolume
  <2>3. /\ Shaped(q) /\ q.mode = w.ino[i].mode /\ q.size = w.ino[i].size
        /\ q.addr = w.ino[i].addr
    <3>1. Shaped(w.ino[i])
      BY DEF Touched
    <3> QED BY <3>1 DEF Shaped
  <2> HIDE DEF q
  <2>4. x.ino = [j \in Ino |-> x.ino[j]] /\ \A j \in Ino : x.ino[j] = IF j = i THEN q ELSE w.ino[j]
    BY <2>2 DEF Touched
  <2> QED BY <2>2, <2>3, <2>4 DEF Touched
<1> QED BY <1>1, <1>2

(* The blocks of a directory, for the repair and for lost+found.             *)
LEMMA InData ==
  ASSUME NEW v, Mendable(v), NEW D, D \subseteq Allocated(v), NEW w, Touched(w, v, D),
         NEW i \in D, NEW l \in Nat, NEW b, b = Bmap(w, w.ino[i].addr, l)
  PROVE  b \in Block => b \in DataOf(v, D)
<1>1. b = Bmap(v, v.ino[i].addr, l)
  BY BmapKept
<1> QED BY <1>1 DEF DataOf

(* (a) One directory.                                                        *)
ZapOp(p, w, b) == ZapBlock(w, b)
Zaps == INSTANCE FoldRuns WITH Op <- ZapOp

(* See above.                                                                *)
LEMMA ZapDirStep ==
  ASSUME NEW v, Mendable(v), NEW D, DirInos(v) \subseteq D, D \subseteq Allocated(v),
         NEW w, Touched(w, v, D), NEW i \in Ino
  PROVE  Touched(ZapDir(w, i), v, D)
<1>1. CASE w.ino[i].mode # "dir"
  BY <1>1 DEF ZapDir
<1>2. CASE w.ino[i].mode = "dir"
  <2> DEFINE n == (w.ino[i].size + NDIR - 1) \div NDIR
             q == DirAddrs(w, i)
  <2>1. i \in D /\ i \in Allocated(v)
    BY <1>2 DEF Touched, DirInos
  <2>2. n \in Nat
    <3>1. w.ino[i].size \in Nat
      BY DEF Touched, Mendable, Tabled
    <3>2. w.ino[i].size + NDIR - 1 \in Nat /\ NDIR \in Nat \ {0}
      BY <3>1, Numbers
    <3> HIDE DEF n
    <3> QED BY <3>2 DEF n
  <2>3. DOMAIN q = 1 .. n /\ \A k \in 1 .. n : q[k] = Bmap(w, w.ino[i].addr, k - 1)
    BY DEF DirAddrs
  <2> HIDE DEF n, q
  <2>4. \A k \in 1 .. n : q[k] \in Block => q[k] \in DataOf(v, D)
    <3> SUFFICES ASSUME NEW k \in 1 .. n PROVE q[k] \in Block => q[k] \in DataOf(v, D)
      OBVIOUS
    <3>1. k - 1 \in Nat
      BY <2>2
    <3> QED BY <2>1, <2>3, <3>1, InData
  <2>5. ZapDir(w, i) = Zaps!Left(0, w, q, n)
    BY <1>2, <2>3 DEF ZapDir, q, FoldLeft, MapThenFoldSet, Max, Zaps!Left, Zaps!Leftmost, ZapOp
  <2>6. PICK s : Zaps!IsRun(s, 0, w, q, n) /\ Zaps!Left(0, w, q, n) = s[n]
    BY <2>2, Zaps!LeftRun
  <2> DEFINE T == {k \in 0 .. n : Touched(s[k], v, D)}
  <2>7. 0 \in T
    BY <2>2, <2>6 DEF Zaps!IsRun
  <2>8. ASSUME NEW k \in 1 .. n, k - 1 \in T PROVE k \in T
    <3>1. Touched(s[k - 1], v, D) /\ k \in 0 .. n
      BY <2>2, <2>8
    <3>2. s[k] = ZapBlock(s[k - 1], q[k])
      BY <2>6 DEF Zaps!IsRun, ZapOp
    <3>3. Touched(ZapBlock(s[k - 1], q[k]), v, D)
      <4> DEFINE y == s[k - 1]
                 b == q[k]
                 e == Keeping(Allocated(y), AsDir(y.blk[b]))
      <4>1. ZapBlock(y, b) = y \/ ZapBlock(y, b) = SetBlk(y, b, DirBlk(e))
        BY DEF ZapBlock
      <4>2. Touched(y, v, D) /\ (b \in Block => b \in DataOf(v, D))
        BY <2>4, <3>1
      <4> HIDE DEF y, b, e
      <4>3. Touched(SetBlk(y, b, DirBlk(e)), v, D)
        BY ONLY <4>2, DirWrite
      <4>4. Touched(ZapBlock(y, b), v, D)
        BY <4>1, <4>2, <4>3
      <4> QED BY <4>4 DEF y, b
    <3> QED BY <3>1, <3>2, <3>3
  <2>9. n \in T
    <3> HIDE DEF T
    <3> QED BY <2>2, <2>7, <2>8, Zaps!UpTo
  <2> QED BY <2>5, <2>6, <2>9
<1> QED BY <1>1, <1>2

(* All of them.                                                              *)
ZapDirOp(p, w, i) == ZapDir(w, i)
ZapRuns == INSTANCE FoldRuns WITH Op <- ZapDirOp

(* See above.                                                                *)
LEMMA ZapTouches ==
  ASSUME NEW v, Mendable(v), NEW D, DirInos(v) \subseteq D, D \subseteq Allocated(v),
         Touched(v, v, D)
  PROVE  Touched(Zap(v), v, D)
<1> DEFINE q == [i \in Ino |-> i]
           n == NINO
<1>1. DOMAIN q = 1 .. n /\ n \in Nat /\ \A k \in 1 .. n : k \in Ino /\ q[k] = k
  BY Numbers DEF Ino
<1>2. Zap(v) = ZapRuns!Left(0, v, q, n)
  BY <1>1 DEF Zap, FoldLeft, MapThenFoldSet, Max, ZapRuns!Left, ZapRuns!Leftmost, ZapDirOp
<1> HIDE DEF q, n
<1>3. PICK s : ZapRuns!IsRun(s, 0, v, q, n) /\ ZapRuns!Left(0, v, q, n) = s[n]
  BY <1>1, ZapRuns!LeftRun
<1> DEFINE T == {k \in 0 .. n : Touched(s[k], v, D)}
<1>4. 0 \in T
  BY <1>1, <1>3 DEF ZapRuns!IsRun
<1>5. ASSUME NEW k \in 1 .. n, k - 1 \in T PROVE k \in T
  <2>1. Touched(s[k - 1], v, D) /\ k \in 0 .. n
    BY <1>1, <1>5
  <2>2. s[k] = ZapDir(s[k - 1], k)
    BY <1>1, <1>3 DEF ZapRuns!IsRun, ZapDirOp
  <2> QED BY <1>1, <2>1, <2>2, ZapDirStep
<1>6. n \in T
  <2> HIDE DEF T
  <2> QED BY <1>1, <1>4, <1>5, ZapRuns!UpTo
<1> QED BY <1>2, <1>3, <1>6

(* (b) An entry in lost+found, and the ".." of what it leads to.             *)
Holding(r, v, D, lf) ==
  /\ r = [v |-> r.v, reached |-> r.reached, full |-> r.full]
  /\ r.full \in BOOLEAN /\ (lf = 0 => r.full = TRUE) /\ Touched(r.v, v, D)

(* See above.                                                                *)
LEMMA PutSlotTouches ==
  ASSUME NEW v, Mendable(v), NEW D, D \subseteq Allocated(v), NEW w, Touched(w, v, D),
         NEW lf \in D, FreeSlots(w, lf) # {}, NEW en
  PROVE  Touched(PutSlot(w, lf, Min(FreeSlots(w, lf)), en), v, D)
<1> DEFINE s == Min(FreeSlots(w, lf))
           l == s \div NDIR
           b == Bmap(w, w.ino[lf].addr, l)
           e == [AsDir(w.blk[b]) EXCEPT ![s % NDIR] = en]
<1>1. s \in Nat
  <2>1. FreeSlots(w, lf) \in SUBSET Nat
    BY DEF FreeSlots, SlotsInSize
  <2> QED BY <2>1, MinIs
<1> HIDE DEF s
<1>2. l \in Nat
  BY <1>1, DivMod
<1>3. PutSlot(w, lf, s, en) = SetBlk(w, b, DirBlk(e))
  BY DEF PutSlot, PutEntry, At
<1> HIDE DEF l, e
<1>4. b \in Block => b \in DataOf(v, D)
  BY <1>2, InData
<1> HIDE DEF b
<1>5. Touched(w, v, D)
  OBVIOUS
<1>6. Touched(SetBlk(w, b, DirBlk(e)), v, D)
  BY ONLY <1>4, <1>5, DirWrite
<1> QED BY <1>3, <1>6 DEF s

(* See above.                                                                *)
LEMMA RehungTouches ==
  ASSUME NEW v, Mendable(v), NEW D, DirInos(v) \subseteq D, D \subseteq Allocated(v),
         NEW w, Touched(w, v, D), NEW i \in Ino, NEW lf
  PROVE  Touched(Rehung(w, lf, i), v, D)
<1>1. CASE w.ino[i].mode # "dir"
  BY <1>1 DEF Rehung
<1>2. CASE w.ino[i].mode = "dir"
  <2> DEFINE b == w.ino[i].addr[0]
             e == [AsDir(w.blk[b]) EXCEPT ![1].ino = lf]
  <2>1. i \in D
    BY <1>2 DEF Touched, DirInos
  <2>2. b = Bmap(w, w.ino[i].addr, 0) /\ 0 \in Nat
    BY Numbers DEF Bmap
  <2>3. Rehung(w, lf, i) = w \/ Rehung(w, lf, i) = SetBlk(w, b, DirBlk(e))
    BY <1>2 DEF Rehung, SetDotdot
  <2> HIDE DEF b, e
  <2>4. (b \in Block => b \in DataOf(v, D)) /\ Touched(w, v, D)
    BY <2>1, <2>2, InData
  <2>5. Touched(SetBlk(w, b, DirBlk(e)), v, D)
    BY ONLY <2>4, DirWrite
  <2> QED BY <2>3, <2>5
<1> QED BY <1>1, <1>2

(* One orphan.                                                               *)
LEMMA RescuedTouches ==
  ASSUME NEW v, Mendable(v), NEW D, DirInos(v) \subseteq D, D \subseteq Allocated(v),
         NEW lf, lf \in D \/ Slotless(v, lf), NEW r, Holding(r, v, D, lf), NEW i \in Ino
  PROVE  Holding(Rescued(r, lf, i), v, D, lf)
<1> DEFINE f == FreeSlots(r.v, lf)
           y == PutSlot(r.v, lf, Min(f), OrphanName(i))
           z == Rehung(y, lf, i)
           x == Rescued(r, lf, i)
           reached == MarkReached(z, r.reached \cup {i})
<1>1. \/ x = r
      \/ x = [r EXCEPT !.full = TRUE]
      \/ ~r.full /\ f # {} /\ x = [r EXCEPT !.v = z, !.reached = reached]
  BY DEF Rescued, Reconnected, Hung
<1>2. CASE x = r
  BY <1>2
<1>3. CASE x = [r EXCEPT !.full = TRUE]
  <2> HIDE DEF x
  <2>1. x = [v |-> r.v, reached |-> r.reached, full |-> TRUE]
    BY <1>3 DEF Holding
  <2>2. x.v = r.v /\ x.full = TRUE /\ x = [v |-> x.v, reached |-> x.reached, full |-> x.full]
    BY <2>1
  <2>3. Holding(x, v, D, lf)
    BY <2>2 DEF Holding
  <2> QED BY <2>3 DEF x
<1>4. CASE ~r.full /\ f # {} /\ x = [r EXCEPT !.v = z, !.reached = reached]
  <2>1. lf \in D /\ Touched(r.v, v, D)
    <3>1. Touched(r.v, v, D) /\ lf # 0
      BY <1>4 DEF Holding
    <3>2. ASSUME lf \in Ino, v.ino[lf].size = 0 PROVE FALSE
      <4>1. r.v.ino[lf].size = 0
        BY <3>1, <3>2 DEF Touched
      <4>2. Room(r.v.ino[lf]) = 0
        BY <4>1, Numbers DEF Room
      <4>3. SlotsInSize(r.v, lf) = {}
        BY <4>2 DEF SlotsInSize
      <4> QED BY <1>4, <4>3 DEF FreeSlots
    <3> QED BY <3>1, <3>2 DEF Slotless
  <2>2. Touched(y, v, D)
    BY <1>4, <2>1, PutSlotTouches
  <2> HIDE DEF y
  <2>3. Touched(z, v, D)
    BY <2>2, RehungTouches
  <2> HIDE DEF z, x, reached, f
  <2>4. x = [v |-> z, reached |-> reached, full |-> r.full]
    BY <1>4 DEF Holding
  <2>5. x.v = z /\ x.full = r.full /\ x = [v |-> x.v, reached |-> x.reached, full |-> x.full]
    BY <2>4
  <2>6. Holding(x, v, D, lf)
    BY <2>3, <2>5 DEF Holding
  <2> QED BY <2>6 DEF x
<1> QED BY <1>1, <1>2, <1>3, <1>4

(* All of them.                                                              *)
RescueOp(lf, r, i) == Rescued(r, lf, i)
Rescues == INSTANCE FoldRuns WITH Op <- RescueOp

(* See above.                                                                *)
LEMMA ReconnectTouches ==
  ASSUME NEW v, Mendable(v), NEW D, DirInos(v) \subseteq D, D \subseteq Allocated(v),
         NEW lf, lf \in D \/ Slotless(v, lf), NEW w, Touched(w, v, D), NEW reached
  PROVE  Touched(Reconnect(w, lf, reached), v, D)
<1> DEFINE n == NINO - ROOTINO
           q == [x \in 1 .. NINO - ROOTINO |-> ROOTINO + x]
           base == [v |-> w, reached |-> reached, full |-> lf = 0]
<1>1. DOMAIN q = 1 .. n /\ n \in Nat /\ \A k \in 1 .. n : q[k] \in Ino
  BY Numbers DEF Ino, ROOTINO
<1>2. Reconnect(w, lf, reached) = Rescues!Left(lf, base, q, n).v
  BY <1>1 DEF Reconnect, FoldLeft, MapThenFoldSet, Max, Rescues!Left, Rescues!Leftmost, RescueOp
<1>3. Holding(base, v, D, lf)
  BY DEF Holding
<1> HIDE DEF q, n, base
<1>4. PICK s : Rescues!IsRun(s, lf, base, q, n) /\ Rescues!Left(lf, base, q, n) = s[n]
  BY <1>1, Rescues!LeftRun
<1> DEFINE T == {k \in 0 .. n : Holding(s[k], v, D, lf)}
<1>5. 0 \in T
  BY <1>1, <1>3, <1>4 DEF Rescues!IsRun
<1>6. ASSUME NEW k \in 1 .. n, k - 1 \in T PROVE k \in T
  <2>1. Holding(s[k - 1], v, D, lf) /\ k \in 0 .. n
    BY <1>1, <1>6
  <2>2. s[k] = Rescued(s[k - 1], lf, q[k])
    BY <1>4 DEF Rescues!IsRun, RescueOp
  <2> QED BY <1>1, <2>1, <2>2, RescuedTouches
<1>7. n \in T
  <2> HIDE DEF T
  <2> QED BY <1>1, <1>5, <1>6, Rescues!UpTo
<1> QED BY <1>2, <1>4, <1>7 DEF Holding

(* (c) The counts.                                                           *)
CountOp(entries, w, i) == SetNlink(w, i, LinkCount(entries, i))
Counts == INSTANCE FoldRuns WITH Op <- CountOp

(* See above.                                                                *)
LEMMA RecountTouches ==
  ASSUME NEW v, NEW D, NEW w, Touched(w, v, D)
  PROVE  Touched(Recount(w), v, D)
<1> DEFINE p == AllEntries(w)
           q == [i \in Ino |-> i]
           n == NINO
<1>1. DOMAIN q = 1 .. n /\ n \in Nat /\ \A k \in 1 .. n : k \in Ino /\ q[k] = k
  BY Numbers DEF Ino
<1> HIDE DEF p
<1>2. Recounted(w, p) = Counts!Left(p, w, q, n)
  BY <1>1 DEF Recounted, FoldLeft, MapThenFoldSet, Max, Counts!Left, Counts!Leftmost, CountOp
<1> HIDE DEF q, n
<1>3. PICK s : Counts!IsRun(s, p, w, q, n) /\ Counts!Left(p, w, q, n) = s[n]
  BY <1>1, Counts!LeftRun
<1> DEFINE T == {k \in 0 .. n : Touched(s[k], v, D)}
<1>4. 0 \in T
  BY <1>1, <1>3 DEF Counts!IsRun
<1>5. ASSUME NEW k \in 1 .. n, k - 1 \in T PROVE k \in T
  <2>1. Touched(s[k - 1], v, D) /\ k \in 0 .. n
    BY <1>1, <1>5
  <2>2. s[k] = SetNlink(s[k - 1], k, LinkCount(p, k))
    BY <1>1, <1>3 DEF Counts!IsRun, CountOp
  <2> QED BY <1>1, <2>1, <2>2, CountWrite
<1>6. n \in T
  <2> HIDE DEF T
  <2> QED BY <1>1, <1>4, <1>5, Counts!UpTo
<1>7. Recount(w) = Recounted(w, p)
  BY DEF Recount, p
<1> QED BY <1>2, <1>3, <1>6, <1>7

(* What fsck marks after the repairs of names and counts is what it marked.  *)
LEMMA TouchedMarks ==
  ASSUME NEW v, Mendable(v), NEW D, D \subseteq Allocated(v), NEW w, Touched(w, v, D)
  PROVE  /\ Allocated(w) = Allocated(v) /\ Marks(w) = Marks(v)
         /\ \A m \in Marks(v) : AddrAt(w, m) = AddrAt(v, m)
<1>1. Allocated(w) = Allocated(v)
  BY DEF Allocated, Touched
<1>2. ASSUME NEW i \in Allocated(v)
      PROVE  AddrsOf(w, w.ino[i].addr) = AddrsOf(v, v.ino[i].addr)
  <2>1. /\ w.ino[i].addr = v.ino[i].addr
        /\ \A l : Bmap(w, v.ino[i].addr, l) = Bmap(v, v.ino[i].addr, l)
    BY BmapKept
  <2> QED BY <2>1 DEF AddrsOf
<1>3. \A m \in [ino : Allocated(v), at : 1 .. LADDR + NINDIR + 1] : AddrAt(w, m) = AddrAt(v, m)
  BY <1>2 DEF AddrAt
<1> QED BY <1>1, <1>3 DEF Marks

(* A volume that was touched can be read as before.                          *)
LEMMA TouchedReadable ==
  ASSUME NEW v, Mendable(v), NEW D, NEW w, Touched(w, v, D)
  PROVE  Readable(w)
<1>1. ASSUME NEW b \in Block PROVE AsFree(w.blk[b]).nfree \in Int
  <2>1. CASE w.blk[b] = v.blk[b]
    BY <2>1 DEF Mendable, Readable
  <2>2. CASE w.blk[b].k = "dir"
    BY <2>2 DEF AsFree, FreeBlk
  <2> QED BY <2>1, <2>2 DEF Touched
<1> QED BY <1>1 DEF Touched, Readable, Mendable

(* What a repaired volume is: fsck's phases 1 to 3 are silent, every inode has
   the blocks it had, the free ones are counted, and the data of an inode that
   is no directory, and not what is called lost+found, is as it was.         *)
Mended(w, v) ==
  /\ BlockErrors(w) = {} /\ Refs(w) = Refs(v)
  /\ w.sb.tfree = Cardinality(Block \ Refs(v))
  /\ \A i \in Ino : /\ w.ino[i].mode = v.ino[i].mode /\ w.ino[i].size = v.ino[i].size
                    /\ w.ino[i].addr = v.ino[i].addr
  /\ \A m \in Marks(v) :
       /\ AddrAt(w, m) = AddrAt(v, m)
       /\ AddrAt(v, m) \in Block /\ m.ino \notin Listing(v) =>
            w.blk[AddrAt(v, m)] = v.blk[AddrAt(v, m)]

(* fsck -p, from any volume on which phase 1 is silent: whatever is wrong with
   its names, counts and free list, afterwards phases 1 to 3 are silent, no
   inode gained or lost a block, and no file's data was written (cmd_fsck.c,
   the repair half of fsck_run).                                             *)
THEOREM FsckPHeals ==
  ASSUME NEW v, Mendable(v), NEW order \in SetToSeqs(Block), NEW w, w = FsckP(v, order)
  PROVE  Mended(w, v)
<1> DEFINE lf == Lookup(v, ROOTINO, LostFound)
           D == Listing(v)
           a == Zap(v)
           b == Reconnect(a, lf, Reached(v))
           u == Recount(b)
<1>1. /\ DirInos(v) \subseteq D /\ D \subseteq Allocated(v) /\ (lf \in D \/ Slotless(v, lf))
      /\ w = Rebuild(u, Refs(v), order)
  <2>1. DirInos(v) \subseteq Allocated(v) /\ (lf \in Allocated(v) \/ Slotless(v, lf))
    BY DEF DirInos, Allocated, Mendable
  <2> QED BY <2>1 DEF Listing, FsckP
<1>2. Touched(v, v, D)
  BY DEF Touched, Mendable, Readable, Tabled
<1> HIDE DEF D, lf
<1>3. Touched(a, v, D)
  BY <1>1, <1>2, ZapTouches
<1> HIDE DEF a
<1>4. Touched(b, v, D)
  BY <1>1, <1>3, ReconnectTouches
<1> HIDE DEF b
<1>5. Touched(u, v, D)
  BY <1>4, RecountTouches
<1> HIDE DEF u
<1>6. /\ Marks(u) = Marks(v) /\ \A m \in Marks(v) : AddrAt(u, m) = AddrAt(v, m)
  BY <1>1, <1>5, TouchedMarks
<1>7. Refs(u) = Refs(v) /\ AddressErrors(u) = AddressErrors(v)
  BY <1>6 DEF Refs, AddressErrors
<1>8. Readable(u) /\ w = Salvage(u, order)
  <2>1. Readable(u)
    BY <1>5, TouchedReadable
  <2> QED BY <1>1, <1>7, <2>1 DEF Salvage
<1>9. /\ ListErrors(w) = {} /\ AddressErrors(w) = AddressErrors(u)
      /\ Refs(w) = Refs(u) /\ w.ino = u.ino
      /\ w.sb.tfree = Cardinality(Block \ Refs(w))
  BY <1>8, SalvageHeals
<1>10. Relisted(w, u, Refs(v))
  BY <1>1, <1>8, RebuildExact
<1>11. ASSUME NEW m \in Marks(v)
       PROVE  /\ AddrAt(w, m) = AddrAt(v, m)
              /\ AddrAt(v, m) \in Block /\ m.ino \notin D =>
                   w.blk[AddrAt(v, m)] = v.blk[AddrAt(v, m)]
  <2>1. Stray \notin Block
    BY VolumeAssumption, Zenon DEF VolumeAssumption, Stray
  <2>2. AddrAt(w, m) = AddrAt(u, m)
    <3>1. \A i \in Ino : u.ino[i].addr[LADDR] \in Blk0
      BY <1>8 DEF Readable
    <3>2. w.ino = u.ino /\ \A c \in Block \cap Refs(u) : w.blk[c] = u.blk[c]
      BY <1>7, <1>10 DEF Relisted
    <3>3. \A k \in Marks(u) : AddrAt(w, k) = AddrAt(u, k)
      BY <2>1, <3>1, <3>2, MarksKept
    <3> QED BY <1>6, <3>3
  <2>3. ASSUME AddrAt(v, m) \in Block, m.ino \notin D
        PROVE  w.blk[AddrAt(v, m)] = v.blk[AddrAt(v, m)]
    <3> DEFINE c == AddrAt(v, m)
    <3>1. c \in Refs(v)
      BY <2>1, <2>3 DEF Refs
    <3>2. c \notin DataOf(v, D)
      <4> SUFFICES ASSUME c \in DataOf(v, D) PROVE FALSE
        OBVIOUS
      <4>1. PICK j \in D, l \in Nat : Bmap(v, v.ino[j].addr, l) = c
        BY DEF DataOf
      <4>2. c # 0 /\ j \in Allocated(v)
        BY <1>1 DEF Marks
      <4>3. PICK n \in Marks(v) : n.ino = j /\ AddrAt(v, n) = c
        BY <4>1, <4>2, DataMark
      <4>4. n = m
        BY <4>3, MarksApart DEF Mendable
      <4> QED BY <2>3, <4>1, <4>3, <4>4
    <3> HIDE DEF c
    <3>3. c \in Block
      BY <2>3 DEF c
    <3>4. w.blk[c] = u.blk[c]
      BY <1>10, <3>1, <3>3 DEF Relisted
    <3>5. u.blk[c] = v.blk[c]
      BY <1>5, <3>2, <3>3 DEF Touched
    <3> QED BY <3>4, <3>5 DEF c
  <2>4. AddrAt(v, m) \in Block /\ m.ino \notin D => w.blk[AddrAt(v, m)] = v.blk[AddrAt(v, m)]
    BY <2>3
  <2> QED BY <1>6, <2>2, <2>4
<1>12. BlockErrors(w) = {} /\ Refs(w) = Refs(v) /\ w.sb.tfree = Cardinality(Block \ Refs(v))
  <2>1. AddressErrors(v) = {}
    BY DEF Mendable
  <2> QED BY <1>7, <1>9, <2>1 DEF BlockErrors
<1>13. \A i \in Ino : /\ w.ino[i].mode = v.ino[i].mode /\ w.ino[i].size = v.ino[i].size
                      /\ w.ino[i].addr = v.ino[i].addr
  BY <1>5, <1>9 DEF Touched
<1> QED BY <1>11, <1>12, <1>13 DEF Mended, D
===============================================================================
