------------------------------ MODULE VolumeProofs ------------------------------
(***************************************************************************)
(* What the primitives of Volume keep, for every size of the volume: which *)
(* blocks the inodes own, what those blocks hold, and the free list.       *)
(***************************************************************************)
EXTENDS Volume, FiniteSetTheorems, TLAPS

L == INSTANCE FreeChain

Blk0   == Block \cup {0}
Addrs0 == [0 .. LADDR -> Blk0]
Inds0  == [0 .. NINDIR - 1 -> Blk0]
Modes0 == {"none", "file", "dir"}

(* The file blocks an inode has an address for, and with them its indirect
   block, at place -1.                                                      *)
Lbns   == 0 .. LADDR + NINDIR - 1
Places == -1 .. LADDR + NINDIR - 1

Ref(blk, a, p) ==
  IF p = -1 THEN a[LADDR]
  ELSE IF p < LADDR THEN a[p]
  ELSE IF a[LADDR] = 0 THEN 0 ELSE AsInd(blk[a[LADDR]])[p - LADDR]

(* Every reference of the addresses A, one row for each inode.              *)
Map(blk, A) == [i \in Ino |-> [p \in Places |-> Ref(blk, A[i], p)]]

(* No block is referred to twice, and none of the free blocks P is.         *)
Apart(R, P) ==
  /\ \A i, j \in Ino : \A p, q \in Places : R[i][p] # 0 /\ R[i][p] = R[j][q] => i = j /\ p = q
  /\ \A i \in Ino : \A p \in Places : R[i][p] \notin P

(* An address in the indirect slot leads to an indirect block.              *)
Indirects(blk, A) ==
  \A i \in Ino : A[i][LADDR] # 0 =>
    blk[A[i][LADDR]].k = "ind" /\ blk[A[i][LADDR]].p \in Inds0

Owns(blk, A, P) ==
  /\ P \subseteq Block /\ blk = [b \in Block |-> blk[b]]
  /\ A \in [Ino -> Addrs0] /\ Indirects(blk, A)
  /\ Apart(Map(blk, A), P)

(* What block l of inode i must hold, if there is one: a file's own data, or
   entries that were put in it where callers take it for a directory; and in a
   directory's first block a "..".                                          *)
DotSlot(c) == c.k = "dir" /\ \E x \in Ino : c.e[1] = [ino |-> x, name |-> ".."]
FitsAt(c, i, l, kind) ==
  /\ kind = "file" => c = Data(i, l)
  /\ kind = "entered" => c = Data(i, l) \/ c.k = "dir"
  /\ kind = "dir" /\ l = 0 => DotSlot(c)
(* Every block referred to holds what it must, those at the places H apart.  *)
Fits(blk, R, K, H) ==
  \A i \in Ino : \A l \in Lbns :
    R[i][l] # 0 /\ <<i, l>> \notin H => FitsAt(blk[R[i][l]], i, l, K[i])

(* A block read as a directory never names the root by a name callers pass;
   and read as a piece of the free list it has a count and every slot.      *)
BlkOk(c) ==
  /\ AsDir(c) = [s \in 0 .. NDIR - 1 |-> AsDir(c)[s]]
  /\ \A s \in 0 .. NDIR - 1 : AsDir(c)[s].ino = ROOTINO => AsDir(c)[s].name \notin Name
  /\ AsFree(c).nfree \in Int
  /\ AsFree(c).free = [s \in 0 .. NICFREE - 1 |-> AsFree(c).free[s]]

(* The free list is a chain of exactly the blocks P, and counted.           *)
Pieces(blk) == [b \in Block |-> AsFree(blk[b])]
Listed(blk, nfree, free, tfree, P) ==
  /\ \E m, q : L!Chain(Pieces(blk), nfree, free, m, q, P)
  /\ free = [s \in 0 .. NICFREE - 1 |-> free[s]]
  /\ tfree = Cardinality(P)

IsVolume(v) ==
  v = [ino |-> v.ino, blk |-> v.blk, nfree |-> v.nfree, free |-> v.free,
       tfree |-> v.tfree, tinode |-> v.tinode, error |-> v.error, log |-> v.log,
       sb |-> v.sb]

(* A handle that has not failed, and one that has.                          *)
Live(v) == IsVolume(v) /\ v.error = FALSE
Dead(v) == IsVolume(v) /\ v.error = TRUE

(* A block of its own, neither free nor referred to.                        *)
Fresh(R, P, b) ==
  b \in Block \ P /\ \A i \in Ino : \A p \in Places : R[i][p] # b

(* No block is lost: the ones that are neither free nor referred to are those
   an operation has at hand, which have their tag in H.                      *)
Tag(b) == <<b>>
Whole(R, P, H) == \A b : Fresh(R, P, b) => Tag(b) \in H

(* The volume of a handle that has not failed, in the middle of an operation:
   its inodes are of the kinds K and have the addresses A, on disk or not yet.
   H is what the operation has yet to do: places to fill, blocks to dispose of.*)
Sound(v, A, K, P, H) ==
  /\ Live(v)
  /\ Owns(v.blk, A, P)
  /\ Fits(v.blk, Map(v.blk, A), K, H)
  /\ Whole(Map(v.blk, A), P, H)
  /\ \A b \in Block : BlkOk(v.blk[b])
  /\ Listed(v.blk, v.nfree, v.free, v.tfree, P)

(* A handle that has failed, for want of space.                             *)
Failed(v) ==
  /\ Dead(v)
  /\ v.nfree = 0 /\ v.free[0] = 0 /\ v.tfree = -1

(* What is assumed of the names: that garbage bytes which read as the root's
   number do not also read as a name a caller passes.                       *)
GarbageAssumption == Ghost # ROOTINO \/ "?" \notin Name

-------------------------------------------------------------------------------
(* The constants are as the theory of free lists wants them.                *)
LEMMA ListConstants ==
  L!ChainConstants
BY VolumeAssumption DEF VolumeAssumption, L!ChainConstants, L!IsFiniteSet, IsFiniteSet

(* Small facts about the numbers.                                           *)
LEMMA Numbers ==
  /\ LADDR \in Nat /\ LADDR > 0 /\ NINDIR \in Nat /\ NINDIR > 0 /\ NICFREE \in Nat
  /\ NICFREE > 0 /\ NDIR \in Nat /\ NDIR >= 3 /\ NINO \in Nat /\ NINO >= 3
  /\ INOPB \in Nat /\ INOPB > 0 /\ 0 \notin Block /\ ROOTINO \in Ino /\ BADBLKINO \in Ino
  /\ Lbns \subseteq Places /\ -1 \in Places /\ -1 \notin Lbns
  /\ \A l \in Lbns : l \in Places /\ l # -1
<1>1. /\ LADDR \in Nat /\ LADDR > 0 /\ NINDIR \in Nat /\ NINDIR > 0 /\ NICFREE \in Nat
      /\ NICFREE > 0 /\ NDIR \in Nat /\ NDIR >= 3 /\ NINO \in Nat /\ NINO >= 3
      /\ INOPB \in Nat /\ INOPB > 0 /\ 0 \notin Block
  <2>1. /\ LADDR \in Nat \ {0} /\ NINDIR \in Nat \ {0} /\ NICFREE \in Nat \ {0}
        /\ NDIR \in Nat /\ NDIR >= 3 /\ NINO \in Nat /\ NINO >= 3
        /\ INOPB \in Nat \ {0} /\ 0 \notin Block
    BY VolumeAssumption, Zenon DEF VolumeAssumption
  <2> QED BY <2>1
<1>2. ROOTINO \in Ino /\ BADBLKINO \in Ino
  BY <1>1 DEF Ino, ROOTINO, BADBLKINO
<1>3. Lbns \subseteq Places /\ -1 \in Places /\ -1 \notin Lbns
  BY <1>1 DEF Lbns, Places
<1> QED BY <1>1, <1>2, <1>3

(* The names of an entry's two special kinds, and the empty entry: facts of
   their own, since the SMT translation has no empty string.                *)
LEMMA DotNames ==
  "." \notin Name /\ ".." \notin Name
BY VolumeAssumption, Zenon DEF VolumeAssumption

(* See above.                                                                *)
LEMMA EmptyEntry ==
  NoEntry.ino = 0
BY Zenon DEF NoEntry

(* What a reference is: an address or 0.                                     *)
LEMMA RefType ==
  ASSUME NEW blk, NEW A \in [Ino -> Addrs0], Indirects(blk, A), NEW i \in Ino, NEW p \in Places
  PROVE  Map(blk, A)[i][p] = Ref(blk, A[i], p) /\ Map(blk, A)[i][p] \in Blk0
<1>1. Map(blk, A)[i][p] = Ref(blk, A[i], p)
  BY DEF Map
<1>2. A[i] \in Addrs0
  OBVIOUS
<1>3. CASE p = -1
  BY <1>1, <1>2, <1>3, Numbers DEF Ref, Addrs0
<1>4. CASE p # -1 /\ p < LADDR
  <2>1. p \in 0 .. LADDR
    BY <1>4, Numbers DEF Places
  <2> QED BY <1>1, <1>2, <1>4, <2>1, Numbers DEF Ref, Addrs0
<1>5. CASE p # -1 /\ ~(p < LADDR) /\ A[i][LADDR] = 0
  BY <1>1, <1>5 DEF Ref, Blk0
<1>6. CASE p # -1 /\ ~(p < LADDR) /\ A[i][LADDR] # 0
  <2>1. p - LADDR \in 0 .. NINDIR - 1
    BY <1>6, Numbers DEF Places
  <2>2. AsInd(blk[A[i][LADDR]]) \in Inds0
    BY <1>6 DEF Indirects, AsInd
  <2> QED BY <1>1, <1>6, <2>1, <2>2 DEF Ref, Inds0
<1> QED BY <1>3, <1>4, <1>5, <1>6

(* R with the one reference p of inode i made b.                            *)
Sets(R, S, i, p, b) ==
  \A j \in Ino : \A q \in Places : S[j][q] = IF j = i /\ q = p THEN b ELSE R[j][q]

(* A reference made to a fresh block, or dropped.                           *)
LEMMA ApartSets ==
  ASSUME NEW R, NEW P, Apart(R, P), NEW i \in Ino, NEW p \in Places, NEW b,
         (b = 0 /\ 0 \notin P) \/ Fresh(R, P, b), NEW S, Sets(R, S, i, p, b)
  PROVE  Apart(S, P)
BY DEF Apart, Sets, Fresh

(* The block a dropped reference led to is fresh.                            *)
LEMMA FreshDropped ==
  ASSUME NEW R, NEW P, Apart(R, P), NEW i \in Ino, NEW p \in Places, R[i][p] \in Block,
         NEW S, Sets(R, S, i, p, 0)
  PROVE  Fresh(S, P, R[i][p])
BY Numbers DEF Apart, Sets, Fresh

(* A free block taken is fresh.                                              *)
LEMMA FreshTaken ==
  ASSUME NEW R, NEW P, P \subseteq Block, Apart(R, P), NEW b \in P
  PROVE  Fresh(R, P \ {b}, b) /\ Apart(R, P \ {b})
BY DEF Apart, Fresh

(* A fresh block freed.                                                      *)
LEMMA ApartFreed ==
  ASSUME NEW R, NEW P, Apart(R, P), NEW b, Fresh(R, P, b)
  PROVE  Apart(R, P \cup {b})
BY DEF Apart, Fresh

(* The tags of two blocks, and of a block and a place.                       *)
LEMMA TagsApart ==
  /\ \A b, e : Tag(b) = Tag(e) => b = e
  /\ \A b, i, l : Tag(b) # <<i, l>>
BY DEF Tag

(* G has all of H but the tag of b; and that of the block R[i][p].           *)
Keeps(G, H, b) == H \ {Tag(b)} \subseteq G
Loosens(G, R, i, p) == R[i][p] # 0 => Tag(R[i][p]) \in G

(* A reference changed: the block it led to is at hand then, and the new one is
   no longer.                                                                *)
LEMMA WholeSets ==
  ASSUME NEW R, NEW P, NEW H, Whole(R, P, H), NEW i \in Ino, NEW p \in Places, NEW b,
         NEW S, Sets(R, S, i, p, b), NEW G, Keeps(G, H, b), Loosens(G, R, i, p)
  PROVE  Whole(S, P, G)
<1> SUFFICES ASSUME NEW e, Fresh(S, P, e) PROVE Tag(e) \in G
  BY DEF Whole
<1>1. e \in Block \ P /\ e # 0 /\ \A j \in Ino : \A q \in Places : S[j][q] # e
  BY Numbers DEF Fresh
<1>2. e # b
  BY <1>1 DEF Sets
<1>3. CASE R[i][p] = e
  BY <1>1, <1>3 DEF Loosens
<1>4. CASE R[i][p] # e
  <2>1. Fresh(R, P, e)
    BY <1>1, <1>4 DEF Fresh, Sets
  <2>2. Tag(e) # Tag(b)
    BY <1>2, TagsApart
  <2> QED BY <2>1, <2>2 DEF Whole, Keeps
<1> QED BY <1>3, <1>4

(* A free block taken is at hand, and a block freed is no longer.            *)
LEMMA WholeTaken ==
  ASSUME NEW R, NEW P, NEW H, Whole(R, P, H), NEW b
  PROVE  /\ Whole(R, P \ {b}, H \cup {Tag(b)})
         /\ \A G : Keeps(G, H, b) => Whole(R, P \cup {b}, G)
<1>1. Whole(R, P \ {b}, H \cup {Tag(b)})
  BY DEF Whole, Fresh
<1>2. ASSUME NEW G, Keeps(G, H, b), NEW e, Fresh(R, P \cup {b}, e)
      PROVE  Tag(e) \in G
  <2>1. Fresh(R, P, e) /\ e # b
    BY <1>2 DEF Fresh
  <2>2. Tag(e) # Tag(b)
    BY <2>1, TagsApart
  <2> QED BY <1>2, <2>1, <2>2 DEF Whole, Keeps
<1> QED BY <1>1, <1>2 DEF Whole

(* A direct address of inode i changed.                                      *)
LEMMA SetDirect ==
  ASSUME NEW blk, NEW A \in [Ino -> Addrs0], Indirects(blk, A), NEW i \in Ino,
         NEW s \in 0 .. LADDR - 1, NEW b \in Blk0,
         NEW B, B = [A EXCEPT ![i] = [A[i] EXCEPT ![s] = b]]
  PROVE  /\ B \in [Ino -> Addrs0] /\ Indirects(blk, B)
         /\ Sets(Map(blk, A), Map(blk, B), i, s, b)
<1>1. A[i] \in Addrs0 /\ s \in 0 .. LADDR /\ LADDR \in 0 .. LADDR /\ s # LADDR
  BY Numbers
<1>2. /\ [A[i] EXCEPT ![s] = b] \in Addrs0
      /\ \A x \in 0 .. LADDR : [A[i] EXCEPT ![s] = b][x] = IF x = s THEN b ELSE A[i][x]
  BY <1>1 DEF Addrs0
<1>3. B \in [Ino -> Addrs0] /\ \A j \in Ino : j # i => B[j] = A[j]
  BY <1>2
<1>4. \A x \in 0 .. LADDR : B[i][x] = IF x = s THEN b ELSE A[i][x]
  BY <1>2
<1>5. \A j \in Ino : B[j][LADDR] = A[j][LADDR]
  BY <1>1, <1>3, <1>4
<1>6. Indirects(blk, B)
  BY <1>5 DEF Indirects
<1>7. ASSUME NEW j \in Ino, NEW q \in Places
      PROVE  Ref(blk, B[j], q) = IF j = i /\ q = s THEN b ELSE Ref(blk, A[j], q)
  <2>1. CASE j # i
    BY <1>3, <2>1
  <2>2. CASE j = i /\ q \in 0 .. LADDR - 1
    <3>1. q \in 0 .. LADDR /\ q # -1 /\ q < LADDR
      BY <2>2, Numbers
    <3> QED BY <1>4, <2>2, <3>1 DEF Ref
  <2>3. CASE j = i /\ q \notin 0 .. LADDR - 1
    <3>1. (q = -1 \/ ~(q < LADDR)) /\ q # s
      BY <2>3, Numbers DEF Places
    <3> QED BY <1>5, <2>3, <3>1 DEF Ref
  <2> QED BY <2>1, <2>2, <2>3
<1> QED BY <1>3, <1>6, <1>7 DEF Map, Sets

(* The indirect slot of inode i, empty before, made to lead to a cleared
   indirect block.                                                          *)
LEMMA SetIndirect ==
  ASSUME NEW blk, NEW A \in [Ino -> Addrs0], Indirects(blk, A), NEW i \in Ino,
         A[i][LADDR] = 0, NEW b \in Block, blk[b] = IndBlk([x \in 0 .. NINDIR - 1 |-> 0]),
         NEW B, B = [A EXCEPT ![i] = [A[i] EXCEPT ![LADDR] = b]]
  PROVE  /\ B \in [Ino -> Addrs0] /\ Indirects(blk, B)
         /\ Sets(Map(blk, A), Map(blk, B), i, -1, b)
<1>1. A[i] \in Addrs0 /\ LADDR \in 0 .. LADDR /\ b \in Blk0 /\ b # 0
  BY Numbers DEF Blk0
<1>2. /\ [A[i] EXCEPT ![LADDR] = b] \in Addrs0
      /\ \A x \in 0 .. LADDR : [A[i] EXCEPT ![LADDR] = b][x] = IF x = LADDR THEN b ELSE A[i][x]
  BY <1>1 DEF Addrs0
<1>3. B \in [Ino -> Addrs0] /\ \A j \in Ino : j # i => B[j] = A[j]
  BY <1>2
<1>4. \A x \in 0 .. LADDR : B[i][x] = IF x = LADDR THEN b ELSE A[i][x]
  BY <1>2
<1>5. /\ blk[b].k = "ind" /\ blk[b].p \in Inds0 /\ AsInd(blk[b]) = blk[b].p
      /\ \A x \in 0 .. NINDIR - 1 : blk[b].p[x] = 0
  BY Numbers DEF IndBlk, Inds0, Blk0, AsInd
<1>6. Indirects(blk, B)
  BY <1>1, <1>3, <1>4, <1>5 DEF Indirects
<1>7. ASSUME NEW j \in Ino, NEW q \in Places
      PROVE  Ref(blk, B[j], q) = IF j = i /\ q = -1 THEN b ELSE Ref(blk, A[j], q)
  <2>1. CASE j # i
    BY <1>3, <2>1
  <2>2. CASE j = i /\ q = -1
    BY <1>1, <1>4, <2>2 DEF Ref
  <2>3. CASE j = i /\ q # -1 /\ q < LADDR
    <3>1. q \in 0 .. LADDR /\ q # LADDR
      BY <2>3, Numbers DEF Places
    <3> QED BY <1>4, <2>3, <3>1 DEF Ref
  <2>4. CASE j = i /\ q # -1 /\ ~(q < LADDR)
    <3>1. q - LADDR \in 0 .. NINDIR - 1
      BY <2>4, Numbers DEF Places
    <3>2. Ref(blk, A[j], q) = 0
      BY <2>4 DEF Ref
    <3>3. B[j][LADDR] = b
      BY <1>1, <1>4, <2>4
    <3>4. Ref(blk, B[j], q) = AsInd(blk[b])[q - LADDR]
      BY <1>1, <2>4, <3>3 DEF Ref
    <3> QED BY <1>5, <2>4, <3>1, <3>2, <3>4
  <2> QED BY <2>1, <2>2, <2>3, <2>4
<1> QED BY <1>3, <1>6, <1>7 DEF Map, Sets

(* An address in the indirect block of inode i changed.                     *)
LEMMA SetInIndirect ==
  ASSUME NEW blk, blk = [c \in Block |-> blk[c]],
         NEW A \in [Ino -> Addrs0], Indirects(blk, A), NEW P, Apart(Map(blk, A), P),
         NEW i \in Ino, A[i][LADDR] # 0, NEW x \in 0 .. NINDIR - 1, NEW b \in Blk0,
         NEW new,
         new = [blk EXCEPT ![A[i][LADDR]] = IndBlk([AsInd(blk[A[i][LADDR]]) EXCEPT ![x] = b])]
  PROVE  Indirects(new, A) /\ Sets(Map(blk, A), Map(new, A), i, LADDR + x, b)
<1> DEFINE ind == A[i][LADDR]
           p == AsInd(blk[ind])
           c == IndBlk([p EXCEPT ![x] = b])
<1>1. ind \in Block /\ p \in Inds0
  <2>1. ind \in Blk0 /\ ind # 0
    BY Numbers DEF Addrs0
  <2> QED BY <2>1 DEF Indirects, AsInd, Blk0
<1> HIDE DEF p
<1>2. c.k = "ind" /\ AsInd(c) = c.p /\ c.p = [p EXCEPT ![x] = b] /\ c.p \in Inds0
  BY <1>1 DEF IndBlk, AsInd, Inds0
<1>3. \A y \in 0 .. NINDIR - 1 : c.p[y] = IF y = x THEN b ELSE p[y]
  BY <1>1, <1>2 DEF Inds0
<1>4. new = [blk EXCEPT ![ind] = c]
  BY DEF p
<1> HIDE DEF c
<1>5. new[ind] = c /\ \A e \in Block : e # ind => new[e] = blk[e]
  BY <1>1, <1>4
<1>6. \A j \in Ino : j # i => A[j][LADDR] # ind
  <2> SUFFICES ASSUME NEW j \in Ino, A[j][LADDR] = ind PROVE j = i
    OBVIOUS
  <2>1. Map(blk, A)[j][-1] = ind /\ Map(blk, A)[i][-1] = ind
    BY Numbers DEF Map, Ref
  <2> QED BY <2>1, Numbers DEF Apart
<1>7. \A j \in Ino : A[j][LADDR] # 0 => A[j][LADDR] \in Block
  BY Numbers DEF Addrs0, Blk0
<1>8. Indirects(new, A)
  BY <1>2, <1>5, <1>7 DEF Indirects
<1>9. ASSUME NEW j \in Ino, NEW q \in Places
      PROVE  Ref(new, A[j], q) = IF j = i /\ q = LADDR + x THEN b ELSE Ref(blk, A[j], q)
  <2>1. CASE j # i
    <3>1. A[j][LADDR] # 0 => new[A[j][LADDR]] = blk[A[j][LADDR]]
      BY <1>5, <1>6, <1>7, <2>1
    <3> QED BY <2>1, <3>1 DEF Ref
  <2>2. CASE j = i /\ (q = -1 \/ q < LADDR)
    <3>1. q # LADDR + x
      BY <2>2, Numbers
    <3> QED BY <2>2, <3>1 DEF Ref
  <2>3. CASE j = i /\ q # -1 /\ ~(q < LADDR)
    <3>1. q - LADDR \in 0 .. NINDIR - 1 /\ (q = LADDR + x <=> q - LADDR = x)
      BY <2>3, Numbers DEF Places
    <3>2. Ref(new, A[j], q) = c.p[q - LADDR] /\ Ref(blk, A[j], q) = p[q - LADDR]
      <4>1. Ref(new, A[j], q) = AsInd(new[ind])[q - LADDR]
        BY <2>3 DEF Ref
      <4>2. Ref(blk, A[j], q) = AsInd(blk[ind])[q - LADDR]
        BY <2>3 DEF Ref
      <4> QED BY <1>2, <1>5, <4>1, <4>2 DEF p
    <3> QED BY <1>3, <2>3, <3>1, <3>2
  <2> QED BY <2>1, <2>2, <2>3
<1> QED BY <1>8, <1>9 DEF Map, Sets

(* A write to a block that is no indirect block.                            *)
LEMMA KeepMap ==
  ASSUME NEW blk, NEW A \in [Ino -> Addrs0], Indirects(blk, A), NEW new,
         \A i \in Ino : A[i][LADDR] # 0 => new[A[i][LADDR]] = blk[A[i][LADDR]]
  PROVE  Indirects(new, A) /\ Map(new, A) = Map(blk, A)
<1>1. Indirects(new, A)
  BY DEF Indirects
<1>2. \A i \in Ino : \A p \in Places : Ref(new, A[i], p) = Ref(blk, A[i], p)
  BY DEF Ref
<1> QED BY <1>1, <1>2 DEF Map

(* B is A but for the addresses of inode i.                                 *)
Readdressed(B, A, i, a) == B = [A EXCEPT ![i] = a]

(* The addresses of inode i forgotten.                                      *)
LEMMA Drop ==
  ASSUME NEW blk, NEW A \in [Ino -> Addrs0], Indirects(blk, A), NEW i \in Ino,
         NEW B, Readdressed(B, A, i, NoAddr)
  PROVE  /\ B \in [Ino -> Addrs0] /\ Indirects(blk, B)
         /\ \A j \in Ino : \A p \in Places :
              Map(blk, B)[j][p] = IF j = i THEN 0 ELSE Map(blk, A)[j][p]
<1>1. NoAddr \in Addrs0 /\ \A x \in 0 .. LADDR : NoAddr[x] = 0
  BY DEF NoAddr, Addrs0, Blk0
<1>2. B \in [Ino -> Addrs0] /\ B[i] = NoAddr /\ \A j \in Ino : j # i => B[j] = A[j]
  BY <1>1 DEF Readdressed
<1>3. LADDR \in 0 .. LADDR /\ \A p \in Places : p # -1 /\ p < LADDR => p \in 0 .. LADDR
  BY Numbers DEF Places
<1>4. Indirects(blk, B)
  BY <1>1, <1>2, <1>3 DEF Indirects
<1>5. \A j \in Ino : \A p \in Places :
        Ref(blk, B[j], p) = IF j = i THEN 0 ELSE Ref(blk, A[j], p)
  BY <1>1, <1>2, <1>3 DEF Ref
<1> QED BY <1>2, <1>4, <1>5 DEF Map

-------------------------------------------------------------------------------
(* w differs from v in nothing that the soundness of a volume is about.     *)
Like(w, v) ==
  /\ IsVolume(w)
  /\ w.blk = v.blk /\ w.nfree = v.nfree /\ w.free = v.free /\ w.tfree = v.tfree
  /\ w.error = v.error

(* So w is as sound, or as failed, as v.                                     *)
LEMMA SoundLike ==
  ASSUME NEW v, NEW w, Like(w, v)
  PROVE  /\ \A A, K, P, H : Sound(v, A, K, P, H) => Sound(w, A, K, P, H)
         /\ Failed(v) => Failed(w)
BY DEF Like, Live, Dead, Sound, Failed

(* t is u but for record i, or for the records of an i-list block, which are
   those of the table c.                                                     *)
Put1(t, u, i, r) == t = [u EXCEPT ![i] = r]
PutBlock(t, u, i, c) == t = [j \in Ino |-> IF j \in IlistBlock(i) THEN c[j] ELSE u[j]]

(* Writing an inode record, an i-list block or the superblock.              *)
LEMMA SetInoIs ==
  ASSUME NEW v, IsVolume(v), v.error = FALSE, NEW i, NEW r, NEW w, w = SetIno(v, i, r)
  PROVE  Like(w, v) /\ Put1(w.ino, v.ino, i, r)
<1> DEFINE x == [ino |-> [v.ino EXCEPT ![i] = r], blk |-> v.blk, nfree |-> v.nfree,
                 free |-> v.free, tfree |-> v.tfree, tinode |-> v.tinode, error |-> v.error,
                 log |-> Noted(v.log, [k |-> "ino", i |-> i, r |-> r]), sb |-> v.sb]
<1>1. w = x
  BY DEF SetIno, IsVolume
<1> QED BY <1>1 DEF Like, IsVolume, Put1

(* The same of an i-list block.                                              *)
LEMMA SetIlistIs ==
  ASSUME NEW v, IsVolume(v), v.error = FALSE, NEW i, NEW t,
         NEW w, w = SetIlistBlock(v, i, t)
  PROVE  Like(w, v) /\ PutBlock(w.ino, v.ino, i, t)
<1> DEFINE x == [ino |-> [j \in Ino |-> IF j \in IlistBlock(i) THEN t[j] ELSE v.ino[j]],
                 blk |-> v.blk, nfree |-> v.nfree,
                 free |-> v.free, tfree |-> v.tfree, tinode |-> v.tinode, error |-> v.error,
                 log |-> Noted(v.log, [k |-> "ilist", i |-> i, r |-> t]), sb |-> v.sb]
<1>1. w = x
  BY DEF SetIlistBlock, IsVolume
<1> QED BY <1>1 DEF Like, IsVolume, PutBlock

(* The same of the superblock, and of the handle's count of free inodes.     *)
LEMMA SyncIs ==
  ASSUME NEW v, IsVolume(v), v.error \in BOOLEAN, NEW n
  PROVE  /\ Like(Sync(v), v) /\ Sync(v).ino = v.ino
         /\ Like([v EXCEPT !.tinode = n], v) /\ [v EXCEPT !.tinode = n].ino = v.ino
<1> DEFINE sb == [nfree |-> v.nfree, free |-> v.free, tfree |-> v.tfree, tinode |-> v.tinode]
           log == Noted(v.log, [k |-> "sb", r |-> sb])
           w == [ino |-> v.ino, blk |-> v.blk, nfree |-> v.nfree,
                 free |-> v.free, tfree |-> v.tfree, tinode |-> v.tinode, error |-> v.error,
                 log |-> log, sb |-> sb]
<1>1. ASSUME v.error PROVE Like(Sync(v), v) /\ Sync(v).ino = v.ino
  BY <1>1 DEF Sync, Like
<1>2. ASSUME ~v.error PROVE Like(Sync(v), v) /\ Sync(v).ino = v.ino
  <2>1. Sync(v) = [v EXCEPT !.sb = sb, !.log = log]
    BY <1>2 DEF Sync
  <2> HIDE DEF sb, log
  <2>2. Sync(v) = w
    BY <2>1 DEF IsVolume
  <2> QED BY <1>2, <2>2 DEF Like, IsVolume
<1>3. Like([v EXCEPT !.tinode = n], v) /\ [v EXCEPT !.tinode = n].ino = v.ino
  BY DEF Like, IsVolume
<1> QED BY <1>1, <1>2, <1>3

(* w is v with c written to block b.                                         *)
Written(w, v, b, c) ==
  /\ Live(w) /\ w.blk = [v.blk EXCEPT ![b] = c] /\ w.ino = v.ino
  /\ w.nfree = v.nfree /\ w.free = v.free /\ w.tfree = v.tfree

(* Writing a block.                                                          *)
LEMMA SetBlkIs ==
  ASSUME NEW v, Live(v), NEW b, NEW c, NEW w, w = SetBlk(v, b, c)
  PROVE  Written(w, v, b, c)
<1> DEFINE x == [ino |-> v.ino, blk |-> [v.blk EXCEPT ![b] = c], nfree |-> v.nfree,
                 free |-> v.free, tfree |-> v.tfree, tinode |-> v.tinode, error |-> v.error,
                 log |-> Noted(v.log, [k |-> "blk", b |-> b, c |-> c]), sb |-> v.sb]
<1>1. w = x
  BY DEF SetBlk, Live, IsVolume
<1> QED BY <1>1 DEF Written, Live, IsVolume

(* On a failed handle nothing is written and nothing allocated.             *)
LEMMA FailedStays ==
  ASSUME NEW v, Failed(v)
  PROVE  /\ \A b, c : SetBlk(v, b, c) = v
         /\ \A i, r : SetIno(v, i, r) = v
         /\ Sync(v) = v
         /\ \A n : Failed([v EXCEPT !.tinode = n])
         /\ Failed(Alloc(v).v) /\ Alloc(v).b = 0 /\ Alloc(v).v.ino = v.ino
<1>1. v.error = TRUE /\ IsVolume(v)
  BY DEF Failed, Dead
<1>2. \A b, c : SetBlk(v, b, c) = v
  BY <1>1 DEF SetBlk
<1>3. \A i, r : SetIno(v, i, r) = v
  BY <1>1 DEF SetIno
<1>4. Sync(v) = v
  BY <1>1 DEF Sync
<1>5. \A n : Failed([v EXCEPT !.tinode = n])
  BY <1>1 DEF Failed, Dead, IsVolume
<1>6. Failed(Alloc(v).v) /\ Alloc(v).b = 0 /\ Alloc(v).v.ino = v.ino
  <2>1. Alloc(v).v = [v EXCEPT !.error = TRUE] /\ Alloc(v).b = 0
    BY <1>1 DEF Alloc
  <2> QED BY <1>1, <2>1 DEF Failed, Dead, IsVolume
<1> QED BY <1>2, <1>3, <1>4, <1>5, <1>6

(* What blocks of each kind are, read as a directory or as a list piece.     *)
LEMMA BlksOk ==
  ASSUME GarbageAssumption
  PROVE  /\ BlkOk(Zero)
         /\ \A i, l : BlkOk(Data(i, l))
         /\ \A p : BlkOk(IndBlk(p))
         /\ \A n \in Int : \A f :
              f = [s \in 0 .. NICFREE - 1 |-> f[s]] => BlkOk(FreeBlk(n, f))
<1>1. NoCache = [s \in 0 .. NICFREE - 1 |-> NoCache[s]]
  BY DEF NoCache
<1>2. \A c : c.k # "dir" =>
        /\ AsDir(c) = [s \in 0 .. NDIR - 1 |-> AsDir(c)[s]]
        /\ \A s \in 0 .. NDIR - 1 : AsDir(c)[s] = IF c.k = "zero" THEN NoEntry ELSE Garbage
  BY DEF AsDir
<1>3. Garbage.ino = ROOTINO => Garbage.name \notin Name
  BY DEF GarbageAssumption, Garbage
<1>4. NoEntry.ino # ROOTINO
  BY EmptyEntry DEF ROOTINO
<1>5. \A c : c.k # "dir" => \A s \in 0 .. NDIR - 1 :
        AsDir(c)[s].ino = ROOTINO => AsDir(c)[s].name \notin Name
  BY <1>2, <1>3, <1>4
<1>6. \A c : c.k # "free" => AsFree(c).free = NoCache /\ AsFree(c).nfree = 0
  BY DEF AsFree, FreeBlk
<1>7. \A c : c.k # "dir" /\ c.k # "free" => BlkOk(c)
  <2> SUFFICES ASSUME NEW c, c.k # "dir", c.k # "free"
               PROVE  BlkOk(c)
    OBVIOUS
  <2>1. AsFree(c).free = [s \in 0 .. NICFREE - 1 |-> AsFree(c).free[s]]
        /\ AsFree(c).nfree \in Int
    <3>1. AsFree(c) = FreeBlk(0, NoCache)
      BY DEF AsFree
    <3>2. AsFree(c).free = NoCache /\ AsFree(c).nfree = 0
      BY <3>1 DEF FreeBlk
    <3> QED BY <1>1, <3>2
  <2> QED BY <1>2, <1>5, <2>1 DEF BlkOk
<1>8. \A n, f : FreeBlk(n, f).k = "free" /\ AsFree(FreeBlk(n, f)) = FreeBlk(n, f)
                /\ FreeBlk(n, f).free = f /\ FreeBlk(n, f).nfree = n
  BY DEF FreeBlk, AsFree
<1>9. \A n \in Int : \A f :
        f = [s \in 0 .. NICFREE - 1 |-> f[s]] => BlkOk(FreeBlk(n, f))
  <2> SUFFICES ASSUME NEW n \in Int, NEW f, f = [s \in 0 .. NICFREE - 1 |-> f[s]]
               PROVE  BlkOk(FreeBlk(n, f))
    OBVIOUS
  <2> DEFINE c == FreeBlk(n, f)
  <2>1. c.k = "free" /\ AsFree(c).free = f /\ AsFree(c).nfree \in Int
    BY <1>8
  <2> HIDE DEF c
  <2>2. BlkOk(c)
    BY <1>2, <1>5, <2>1 DEF BlkOk
  <2> QED BY <2>2 DEF c
<1>10. Zero.k = "zero" /\ (\A i, l : Data(i, l).k = "data") /\ (\A p : IndBlk(p).k = "ind")
  BY DEF Zero, Data, IndBlk
<1> QED BY <1>7, <1>9, <1>10

(* A block that is neither free nor an indirect block may be given the contents
   c: it is what must be there, but for the places G, and no other place is
   exempt that was not (H); blocks at hand stay so.                          *)
Fitting(R, A, K, P, H, G, b, c) ==
  /\ b \in Block \ P /\ \A i \in Ino : A[i][LADDR] # b
  /\ BlkOk(c)
  /\ \A i \in Ino : \A l \in Lbns :
       /\ R[i][l] = b /\ <<i, l>> \notin G => FitsAt(c, i, l, K[i])
       /\ R[i][l] \notin {0, b} /\ <<i, l>> \in H => <<i, l>> \in G
  /\ \A e : Tag(e) \in H => Tag(e) \in G

(* The volume stays sound when it is written there.                          *)
LEMMA WriteSound ==
  ASSUME NEW v, NEW A, NEW K, NEW P, NEW H, Sound(v, A, K, P, H),
         NEW b, NEW c, NEW G, Fitting(Map(v.blk, A), A, K, P, H, G, b, c),
         NEW w, w = SetBlk(v, b, c)
  PROVE  /\ Sound(w, A, K, P, G) /\ w.ino = v.ino /\ w.blk[b] = c
         /\ Map(w.blk, A) = Map(v.blk, A)
<1> DEFINE R == Map(v.blk, A)
<1>0. /\ b \in Block \ P /\ \A i \in Ino : A[i][LADDR] # b
      /\ BlkOk(c)
      /\ \A i \in Ino : \A l \in Lbns :
           /\ R[i][l] = b /\ <<i, l>> \notin G => FitsAt(c, i, l, K[i])
           /\ R[i][l] \notin {0, b} /\ <<i, l>> \in H => <<i, l>> \in G
  BY DEF Fitting
<1>1. /\ Live(w) /\ w.blk = [v.blk EXCEPT ![b] = c] /\ w.ino = v.ino
      /\ w.nfree = v.nfree /\ w.free = v.free /\ w.tfree = v.tfree
  <2>1. Live(v)
    BY DEF Sound
  <2> QED BY <2>1, SetBlkIs DEF Written
<1>2. /\ P \subseteq Block /\ v.blk = [e \in Block |-> v.blk[e]]
      /\ A \in [Ino -> Addrs0] /\ Indirects(v.blk, A) /\ Apart(R, P)
  BY DEF Sound, Owns
<1>3. w.blk = [e \in Block |-> w.blk[e]] /\ w.blk[b] = c
      /\ \A e \in Block : e # b => w.blk[e] = v.blk[e]
  BY <1>0, <1>1, <1>2
<1>4. Indirects(w.blk, A) /\ Map(w.blk, A) = R
  <2>1. \A i \in Ino : A[i][LADDR] # 0 => A[i][LADDR] \in Block
    BY <1>2, Numbers DEF Addrs0, Blk0
  <2> QED BY <1>0, <1>2, <1>3, <2>1, KeepMap
<1>5. Owns(w.blk, A, P)
  BY <1>2, <1>3, <1>4 DEF Owns
<1>6. Fits(w.blk, R, K, G)
  <2> SUFFICES ASSUME NEW i \in Ino, NEW l \in Lbns, R[i][l] # 0, <<i, l>> \notin G
               PROVE  FitsAt(w.blk[R[i][l]], i, l, K[i])
    BY DEF Fits
  <2>1. CASE R[i][l] = b
    BY <1>0, <1>3, <2>1
  <2>2. CASE R[i][l] # b
    <3>1. R[i][l] \in Block
      BY <1>2, RefType, Numbers DEF Blk0
    <3>2. <<i, l>> \notin H
      BY <1>0, <2>2
    <3>3. Fits(v.blk, R, K, H)
      BY DEF Sound
    <3>4. FitsAt(v.blk[R[i][l]], i, l, K[i])
      BY <3>2, <3>3 DEF Fits
    <3> QED BY <1>3, <2>2, <3>1, <3>4
  <2> QED BY <2>1, <2>2
<1>7. \A e \in Block : BlkOk(w.blk[e])
  <2>1. \A e \in Block : BlkOk(v.blk[e])
    BY DEF Sound
  <2> QED BY <1>0, <1>3, <2>1
<1>8. Listed(w.blk, w.nfree, w.free, w.tfree, P)
  <2>1. \A e \in P : Pieces(w.blk)[e] = Pieces(v.blk)[e]
    BY <1>0, <1>2, <1>3 DEF Pieces
  <2>2. Listed(v.blk, v.nfree, v.free, v.tfree, P)
    BY DEF Sound
  <2>3. PICK m, q : L!Chain(Pieces(v.blk), v.nfree, v.free, m, q, P)
    BY <2>2 DEF Listed
  <2>4. L!Chain(Pieces(w.blk), v.nfree, v.free, m, q, P)
    BY <2>1, <2>3, ListConstants, L!FrameChain
  <2> QED BY <1>1, <2>2, <2>4 DEF Listed
<1>10. Whole(R, P, G)
  <2>1. Whole(R, P, H)
    BY DEF Sound
  <2> QED BY <2>1 DEF Whole, Fitting
<1>9. Sound(w, A, K, P, G)
  BY <1>1, <1>4, <1>5, <1>6, <1>7, <1>8, <1>10 DEF Sound
<1> QED BY <1>1, <1>3, <1>4, <1>9

(* The free blocks are finitely many.                                       *)
LEMMA FreeCount ==
  ASSUME NEW P, P \subseteq Block
  PROVE  /\ IsFiniteSet(P) /\ Cardinality(P) \in Nat
         /\ P = {} => Cardinality(P) = 0
         /\ \A b \in P : Cardinality(P \ {b}) = Cardinality(P) - 1
         /\ \A b : b \notin P => Cardinality(P \cup {b}) = Cardinality(P) + 1
<1>1. IsFiniteSet(Block)
  BY VolumeAssumption, Zenon DEF VolumeAssumption
<1>2. IsFiniteSet(P)
  BY <1>1, FS_Subset
<1> QED BY <1>2, FS_CardinalityType, FS_EmptySet, FS_AddElement, FS_RemoveElement

(* w has the inodes and blocks of v, and these fields of the superblock.     *)
Cached(w, v, n, f, t) ==
  /\ IsVolume(w) /\ w.ino = v.ino /\ w.blk = v.blk
  /\ w.nfree = n /\ w.free = f /\ w.tfree = t

(* Assignments to those fields.                                              *)
LEMMA CachedIs ==
  ASSUME NEW v, Live(v), NEW n, NEW f, NEW t
  PROVE  /\ Live([v EXCEPT !.nfree = n, !.tfree = t])
         /\ Cached([v EXCEPT !.nfree = n, !.tfree = t], v, n, v.free, t)
         /\ Live([v EXCEPT !.nfree = n, !.free = f])
         /\ Cached([v EXCEPT !.nfree = n, !.free = f], v, n, f, v.tfree)
         /\ Live([v EXCEPT !.nfree = n])
         /\ Cached([v EXCEPT !.nfree = n], v, n, v.free, v.tfree)
<1>1. ASSUME NEW x, NEW nn
      PROVE  Live(x) => /\ Live([x EXCEPT !.nfree = nn])
                        /\ Cached([x EXCEPT !.nfree = nn], x, nn, x.free, x.tfree)
  BY DEF Cached, Live, IsVolume
<1>2. ASSUME NEW x, NEW tt
      PROVE  Live(x) => /\ Live([x EXCEPT !.tfree = tt])
                        /\ Cached([x EXCEPT !.tfree = tt], x, x.nfree, x.free, tt)
  BY DEF Cached, Live, IsVolume
<1>3. ASSUME NEW x, NEW ff
      PROVE  Live(x) => /\ Live([x EXCEPT !.free = ff])
                        /\ Cached([x EXCEPT !.free = ff], x, x.nfree, ff, x.tfree)
  BY DEF Cached, Live, IsVolume
<1> DEFINE w == [v EXCEPT !.nfree = n]
<1>4. /\ [v EXCEPT !.nfree = n, !.tfree = t] = [w EXCEPT !.tfree = t]
      /\ [v EXCEPT !.nfree = n, !.free = f] = [w EXCEPT !.free = f]
  OBVIOUS
<1>5. Live(w) /\ Cached(w, v, n, v.free, v.tfree)
  BY <1>1
<1> HIDE DEF w
<1>6. Live([w EXCEPT !.tfree = t]) /\ Cached([w EXCEPT !.tfree = t], w, n, w.free, t)
  BY <1>2, <1>5 DEF Cached
<1>7. Live([w EXCEPT !.free = f]) /\ Cached([w EXCEPT !.free = f], w, n, f, w.tfree)
  BY <1>3, <1>5 DEF Cached
<1>8. Cached([w EXCEPT !.tfree = t], v, n, v.free, t)
  BY <1>5, <1>6 DEF Cached
<1>9. Cached([w EXCEPT !.free = f], v, n, f, v.tfree)
  BY <1>5, <1>7 DEF Cached
<1> QED BY <1>4, <1>5, <1>6, <1>7, <1>8, <1>9 DEF w

(* What Alloc answers on a handle that has not failed: the block at the top of
   the cache, which may be the terminator, or the last but for the cache it
   holds.                                                                    *)
LEMMA AllocIs ==
  ASSUME NEW v, Live(v), v.nfree # 0,
         NEW b, b = v.free[v.nfree - 1], NEW chain, chain = AsFree(v.blk[b])
  PROVE  /\ Alloc(v).b = b
         /\ b = 0 => /\ Dead(Alloc(v).v)
                     /\ Cached(Alloc(v).v, v, v.nfree - 1, v.free, v.tfree - 1)
         /\ b # 0 /\ v.nfree - 1 > 0 =>
              /\ Live(Alloc(v).v)
              /\ Cached(Alloc(v).v, v, v.nfree - 1, v.free, v.tfree - 1)
         /\ b # 0 /\ ~(v.nfree - 1 > 0) =>
              /\ Live(Alloc(v).v)
              /\ Cached(Alloc(v).v, v, chain.nfree, chain.free, v.tfree - 1)
<1> DEFINE n == v.nfree - 1
           t == v.tfree - 1
           w == [v EXCEPT !.nfree = n, !.tfree = t]
<1>1. Alloc(v) = IF b = 0 THEN [v |-> [w EXCEPT !.error = TRUE], b |-> 0]
                 ELSE IF w.nfree > 0 THEN [v |-> w, b |-> b]
                 ELSE [v |-> [w EXCEPT !.nfree = chain.nfree, !.free = chain.free], b |-> b]
  BY DEF Alloc, Live
<1> HIDE DEF n, t
<1>2. Live(w) /\ Cached(w, v, n, v.free, t)
  BY CachedIs
<1> HIDE DEF w
<1>3. CASE b = 0
  <2> DEFINE y == [w EXCEPT !.error = TRUE]
  <2>1. Alloc(v).v = y /\ Alloc(v).b = b
    BY <1>1, <1>3
  <2>2. Dead(y) /\ Cached(y, w, w.nfree, w.free, w.tfree)
    <3>1. ASSUME NEW e
          PROVE  LET z == [w EXCEPT !.error = e]
                 IN Cached(z, w, w.nfree, w.free, w.tfree) /\ z.error = e
      BY <1>2 DEF Cached, IsVolume
    <3> QED BY <3>1 DEF Dead, Cached
  <2> HIDE DEF y
  <2>3. Cached(y, v, n, v.free, t)
    BY <1>2, <2>2 DEF Cached
  <2> QED BY <1>3, <2>1, <2>2, <2>3 DEF n, t
<1>4. CASE b # 0 /\ n > 0
  <2>1. Alloc(v).v = w /\ Alloc(v).b = b
    BY <1>1, <1>2, <1>4 DEF Cached
  <2> QED BY <1>2, <1>4, <2>1 DEF n, t
<1>5. CASE b # 0 /\ ~(n > 0)
  <2> DEFINE y == [w EXCEPT !.nfree = chain.nfree, !.free = chain.free]
  <2>1. Alloc(v).v = y /\ Alloc(v).b = b
    BY <1>1, <1>2, <1>5 DEF Cached
  <2>2. Live(y) /\ Cached(y, w, chain.nfree, chain.free, w.tfree)
    BY <1>2, CachedIs
  <2> HIDE DEF y
  <2>3. Cached(y, v, chain.nfree, chain.free, t)
    BY <1>2, <2>2 DEF Cached
  <2> QED BY <1>5, <2>1, <2>2, <2>3 DEF n, t
<1> QED BY <1>3, <1>4, <1>5 DEF n

(* Alloc takes a free block, which then is fresh, or fails the handle when
   there is none.                                                           *)
LEMMA AllocSound ==
  ASSUME NEW v, NEW A, NEW K, NEW P, NEW H, Sound(v, A, K, P, H)
  PROVE  /\ Alloc(v).v.ino = v.ino
         /\ \/ Failed(Alloc(v).v) /\ Alloc(v).b = 0
            \/ /\ Alloc(v).b \in P /\ Alloc(v).v.blk = v.blk
               /\ Sound(Alloc(v).v, A, K, P \ {Alloc(v).b}, H \cup {Tag(Alloc(v).b)})
<1> DEFINE b == v.free[v.nfree - 1]
           chain == AsFree(v.blk[b])
           w == Alloc(v).v
<1>1. /\ Live(v) /\ Owns(v.blk, A, P) /\ Fits(v.blk, Map(v.blk, A), K, H)
      /\ Listed(v.blk, v.nfree, v.free, v.tfree, P) /\ P \subseteq Block
      /\ (\A e \in Block : BlkOk(v.blk[e])) /\ Whole(Map(v.blk, A), P, H)
  BY DEF Sound, Owns
<1>2. PICK m, q : L!Chain(Pieces(v.blk), v.nfree, v.free, m, q, P)
  BY <1>1 DEF Listed
<1>3. v.nfree \in 1 .. NICFREE /\ v.nfree # 0
  BY <1>2, Numbers DEF L!Chain
<1>4. /\ b # 0 => b \in P
      /\ b = 0 => v.nfree = 1 /\ m = 0 /\ P = {}
      /\ v.nfree = 1 /\ v.free[0] # 0 => m > 0
  BY <1>2, ListConstants, L!Top
<1>5. /\ Alloc(v).b = b
      /\ b = 0 => Dead(w) /\ Cached(w, v, v.nfree - 1, v.free, v.tfree - 1)
      /\ b # 0 /\ v.nfree - 1 > 0 =>
           Live(w) /\ Cached(w, v, v.nfree - 1, v.free, v.tfree - 1)
      /\ b # 0 /\ ~(v.nfree - 1 > 0) =>
           Live(w) /\ Cached(w, v, chain.nfree, chain.free, v.tfree - 1)
  BY <1>1, <1>3, AllocIs
<1> HIDE DEF w
<1>6. CASE b = 0
  <2>1. v.nfree = 1 /\ P = {} /\ v.free[0] = 0
    BY <1>4, <1>6
  <2>2. v.tfree = 0
    BY <1>1, <2>1, FreeCount DEF Listed
  <2>3. Dead(w) /\ w.nfree = 0 /\ w.free[0] = 0 /\ w.tfree = -1 /\ w.ino = v.ino
    BY <1>5, <1>6, <2>1, <2>2 DEF Cached
  <2>4. Failed(w) /\ Alloc(v).b = 0 /\ w.ino = v.ino
    BY <1>5, <1>6, <2>3 DEF Failed
  <2> QED BY <2>4 DEF w
<1>7. ASSUME b \in P, Live(w), w.ino = v.ino, w.blk = v.blk, w.tfree = v.tfree - 1,
             \E r, s : L!Chain(Pieces(v.blk), w.nfree, w.free, r, s, P \ {b}),
             w.free = [s \in 0 .. NICFREE - 1 |-> w.free[s]]
      PROVE  Sound(w, A, K, P \ {b}, H \cup {Tag(b)})
  <2>1. Owns(v.blk, A, P \ {b})
    BY <1>1, <1>7, FreshTaken DEF Owns
  <2>2. w.tfree = Cardinality(P \ {b})
    BY <1>1, <1>7, FreeCount DEF Listed
  <2>3. Whole(Map(v.blk, A), P \ {b}, H \cup {Tag(b)})
    BY <1>1, WholeTaken
  <2>4. Fits(v.blk, Map(v.blk, A), K, H \cup {Tag(b)})
    BY <1>1 DEF Fits
  <2> HIDE DEF b
  <2> QED BY <1>1, <1>7, <2>1, <2>2, <2>3, <2>4 DEF Sound, Listed
<1>8. CASE b # 0 /\ v.nfree - 1 > 0
  <2>1. b \in P /\ Live(w) /\ w.ino = v.ino /\ w.blk = v.blk /\ w.tfree = v.tfree - 1
        /\ w.nfree = v.nfree - 1 /\ w.free = v.free
    BY <1>4, <1>5, <1>8 DEF Cached
  <2>2. v.nfree > 1
    BY <1>3, <1>8
  <2>3. L!Chain(Pieces(v.blk), v.nfree - 1, v.free, m, q, P \ {b})
    BY <1>2, <2>2, ListConstants, L!PopChain
  <2>4. w.free = [s \in 0 .. NICFREE - 1 |-> w.free[s]]
    BY <1>1, <2>1 DEF Listed
  <2>5. \E r, s : L!Chain(Pieces(v.blk), w.nfree, w.free, r, s, P \ {b})
    BY <2>1, <2>3
  <2> HIDE DEF b
  <2>6. Sound(w, A, K, P \ {b}, H \cup {Tag(b)})
    BY <1>7, <2>1, <2>4, <2>5
  <2> QED BY <1>5, <2>1, <2>6 DEF w
<1>9. CASE b # 0 /\ ~(v.nfree - 1 > 0)
  <2>1. v.nfree = 1 /\ b = v.free[0]
    BY <1>3, <1>9
  <2>2. b \in P /\ Live(w) /\ w.ino = v.ino /\ w.blk = v.blk /\ w.tfree = v.tfree - 1
        /\ w.nfree = chain.nfree /\ w.free = chain.free
    BY <1>4, <1>5, <1>9 DEF Cached
  <2>3. L!Chain(Pieces(v.blk), 1, v.free, m, q, P) /\ v.free[0] # 0
    BY <1>2, <1>9, <2>1
  <2>4. /\ m > 0 /\ Pieces(v.blk)[v.free[0]].nfree = NICFREE
        /\ Pieces(v.blk)[v.free[0]].free = q[m]
        /\ L!Chain(Pieces(v.blk), NICFREE, q[m], m - 1, q, P \ {v.free[0]})
    <3> DEFINE d == Pieces(v.blk)
               fr == v.free
    <3>1. L!Chain(d, 1, fr, m, q, P) /\ fr[0] # 0
      BY <2>3
    <3> HIDE DEF b, chain, d, fr
    <3>2. /\ m > 0 /\ d[fr[0]].nfree = NICFREE /\ d[fr[0]].free = q[m]
          /\ L!Chain(d, NICFREE, q[m], m - 1, q, P \ {fr[0]})
      BY <3>1, ListConstants, L!ReloadChain
    <3> QED BY <3>2 DEF d, fr
  <2>5. chain = Pieces(v.blk)[v.free[0]] /\ b \in Block
    BY <1>1, <2>1, <2>2 DEF Pieces
  <2>6. chain.free = [s \in 0 .. NICFREE - 1 |-> chain.free[s]]
    BY <1>1, <2>5 DEF BlkOk
  <2> HIDE DEF b, chain
  <2>7. L!Chain(Pieces(v.blk), w.nfree, w.free, m - 1, q, P \ {b})
    BY <2>1, <2>2, <2>4, <2>5
  <2>8. Sound(w, A, K, P \ {b}, H \cup {Tag(b)})
    BY <1>7, <2>2, <2>6, <2>7
  <2> QED BY <1>5, <2>2, <2>8 DEF w
<1> QED BY <1>6, <1>8, <1>9

(* The same, with nothing else left to do.                                  *)
LEMMA AllocOne ==
  ASSUME NEW v, NEW A, NEW K, NEW P, Sound(v, A, K, P, {})
  PROVE  /\ Alloc(v).v.ino = v.ino
         /\ \/ Failed(Alloc(v).v) /\ Alloc(v).b = 0
            \/ /\ Alloc(v).b \in P /\ Alloc(v).v.blk = v.blk
               /\ Sound(Alloc(v).v, A, K, P \ {Alloc(v).b}, {Tag(Alloc(v).b)})
<1> DEFINE H == {}
           G == H \cup {Tag(Alloc(v).b)}
<1>1. Sound(v, A, K, P, H) /\ G = {Tag(Alloc(v).b)}
  OBVIOUS
<1> HIDE DEF H
<1>2. /\ Alloc(v).v.ino = v.ino
      /\ \/ Failed(Alloc(v).v) /\ Alloc(v).b = 0
         \/ /\ Alloc(v).b \in P /\ Alloc(v).v.blk = v.blk
            /\ Sound(Alloc(v).v, A, K, P \ {Alloc(v).b}, G)
  BY <1>1, AllocSound
<1> HIDE DEF G
<1> QED BY <1>1, <1>2

(* w is v with b put into the cache, which has room, or is full and spilled
   into b.                                                                   *)
Freed(w, v, b) ==
  /\ Live(w) /\ w.ino = v.ino /\ w.tfree = v.tfree + 1
  /\ ~(v.nfree >= NICFREE) =>
       /\ w.blk = v.blk /\ w.nfree = v.nfree + 1
       /\ w.free = [v.free EXCEPT ![v.nfree] = b]
  /\ v.nfree >= NICFREE =>
       /\ w.blk = [v.blk EXCEPT ![b] = FreeBlk(v.nfree, v.free)] /\ w.nfree = 0 + 1
       /\ w.free = [v.free EXCEPT ![0] = b]

(* What Bfree does with a block.                                             *)
LEMMA BfreeIs ==
  ASSUME NEW v, Live(v), NEW b, b # 0, NEW w, w = Bfree(v, b)
  PROVE  Freed(w, v, b)
<1> DEFINE full == v.nfree >= NICFREE
           s == SetBlk(v, b, FreeBlk(v.nfree, v.free))
           x == IF full THEN [s EXCEPT !.nfree = 0] ELSE v
           n == x.nfree + 1
           f == [x.free EXCEPT ![x.nfree] = b]
           t == x.tfree + 1
<1>1. w = [x EXCEPT !.free = f, !.nfree = n, !.tfree = t]
  BY DEF Bfree
<1>2. Live(s) /\ s.blk = [v.blk EXCEPT ![b] = FreeBlk(v.nfree, v.free)] /\ s.ino = v.ino
      /\ s.free = v.free /\ s.tfree = v.tfree
  <2>1. s = SetBlk(v, b, FreeBlk(v.nfree, v.free))
    OBVIOUS
  <2> HIDE DEF s
  <2> QED BY <2>1, SetBlkIs DEF Written
<1>3. Live(x) /\ x.ino = v.ino /\ x.free = v.free /\ x.tfree = v.tfree
      /\ x.nfree = (IF full THEN 0 ELSE v.nfree)
      /\ x.blk = (IF full THEN [v.blk EXCEPT ![b] = FreeBlk(v.nfree, v.free)] ELSE v.blk)
  <2>1. CASE full
    <3> HIDE DEF s
    <3>1. Live([s EXCEPT !.nfree = 0])
          /\ Cached([s EXCEPT !.nfree = 0], s, 0, s.free, s.tfree)
      BY <1>2, CachedIs
    <3> QED BY <1>2, <2>1, <3>1 DEF Cached
  <2>2. CASE ~full
    BY <2>2
  <2> QED BY <2>1, <2>2
<1> HIDE DEF x
<1>4. Live(w) /\ w.ino = x.ino /\ w.blk = x.blk /\ w.nfree = n /\ w.free = f /\ w.tfree = t
  <2> HIDE DEF n, f, t
  <2>1. [x EXCEPT !.free = f, !.nfree = n, !.tfree = t]
          = [[x EXCEPT !.nfree = n, !.free = f] EXCEPT !.nfree = n, !.tfree = t]
    BY <1>3 DEF Live, IsVolume
  <2> DEFINE y == [x EXCEPT !.nfree = n, !.free = f]
  <2>2. Live(y) /\ Cached(y, x, n, f, x.tfree)
    BY <1>3, CachedIs
  <2> HIDE DEF y
  <2>3. /\ Live([y EXCEPT !.nfree = n, !.tfree = t])
        /\ Cached([y EXCEPT !.nfree = n, !.tfree = t], y, n, y.free, t)
    BY <2>2, CachedIs
  <2>4. w = [y EXCEPT !.nfree = n, !.tfree = t]
    BY <1>1, <2>1 DEF y
  <2> QED BY <2>2, <2>3, <2>4 DEF Cached
<1> QED BY <1>3, <1>4 DEF Freed

(* The free list of v, whatever else the volume holds, is of the blocks P.    *)
ListOf(v, P) ==
  /\ P \subseteq Block /\ v.blk = [e \in Block |-> v.blk[e]]
  /\ Listed(v.blk, v.nfree, v.free, v.tfree, P)

(* The volume w differs from v in no block but b, which the list of v was
   spilled into if the cache was full.                                       *)
Spills(w, v, b) ==
  /\ v.nfree \in 1 .. NICFREE
  /\ \A e \in Block : e # b => w.blk[e] = v.blk[e]
  /\ w.blk[b] = IF v.nfree >= NICFREE THEN FreeBlk(v.nfree, v.free) ELSE v.blk[b]

(* A block put on the free list, whatever else the volume holds: the list has
   one block more, and that is the only one it may be spilled into.          *)
LEMMA BfreeListed ==
  ASSUME NEW v, NEW P, ListOf(v, P), NEW b, b \in Block \ P, NEW w, Freed(w, v, b)
  PROVE  ListOf(w, P \cup {b}) /\ Spills(w, v, b)
<1> USE DEF ListOf
<1>1. PICK m, q : L!Chain(Pieces(v.blk), v.nfree, v.free, m, q, P)
  BY DEF Listed
<1>2. v.nfree \in 1 .. NICFREE
  BY <1>1 DEF L!Chain
<1>3. /\ w.blk = [e \in Block |-> w.blk[e]]
      /\ \A e \in Block : e # b => w.blk[e] = v.blk[e]
      /\ w.blk[b] = IF v.nfree >= NICFREE THEN FreeBlk(v.nfree, v.free) ELSE v.blk[b]
  BY DEF Freed
<1>4. v.free = [s \in 0 .. NICFREE - 1 |-> v.free[s]]
  BY DEF Listed
<1>5. Listed(w.blk, w.nfree, w.free, w.tfree, P \cup {b})
  <2>1. w.tfree = Cardinality(P \cup {b})
    BY FreeCount DEF Listed, Freed
  <2> DEFINE d == Pieces(v.blk)
             g == Pieces(w.blk)
             n == v.nfree
             f == v.free
             h == w.free
  <2>2. \A e \in P : g[e] = d[e]
    BY <1>3 DEF Pieces
  <2>3. b \in Block \ P /\ L!Chain(d, n, f, m, q, P)
    BY <1>1
  <2>4. CASE n < NICFREE
    <3>1. w.nfree = n + 1 /\ w.free = [f EXCEPT ![n] = b] /\ w.blk = v.blk
      BY <1>2, <2>4, Numbers DEF Freed
    <3>2. n \in 0 .. NICFREE - 1 /\ 0 .. n - 1 \subseteq 0 .. NICFREE - 1
      BY <1>2, <2>4, Numbers
    <3>3. h[n] = b /\ h = [s \in 0 .. NICFREE - 1 |-> h[s]] /\ \A i \in 0 .. n - 1 : h[i] = f[i]
      <4>1. f = [s \in 0 .. NICFREE - 1 |-> f[s]] /\ h = [f EXCEPT ![n] = b] /\ n \in Nat
        BY <1>2, <1>4, <3>1, Numbers
      <4> HIDE DEF f, n, h
      <4>2. h = [s \in 0 .. NICFREE - 1 |-> IF s = n THEN b ELSE f[s]]
        BY <4>1
      <4>3. \A i \in 0 .. n - 1 : i \in 0 .. NICFREE - 1 /\ i # n
        BY <3>2, <4>1
      <4> QED BY <3>2, <4>2, <4>3
    <3> HIDE DEF d, g, n, f, h
    <3>4. L!Chain(d, n + 1, h, m, q, P \cup {b})
      BY <2>3, <2>4, <3>3, ListConstants, L!PushChain
    <3> QED BY <2>1, <3>1, <3>3, <3>4 DEF Listed, d, h
  <2>5. CASE ~(n < NICFREE)
    <3>1. n = NICFREE /\ v.nfree >= NICFREE
      BY <1>2, <2>5, Numbers
    <3>2. w.nfree = 1 /\ w.free = [f EXCEPT ![0] = b] /\ w.blk[b] = FreeBlk(n, f)
      BY <1>3, <3>1 DEF Freed
    <3>3. h[0] = b /\ h = [s \in 0 .. NICFREE - 1 |-> h[s]]
      <4>1. f = [s \in 0 .. NICFREE - 1 |-> f[s]] /\ h = [f EXCEPT ![0] = b]
        BY <1>4, <3>2
      <4>2. 0 \in 0 .. NICFREE - 1
        BY Numbers
      <4> HIDE DEF f, h
      <4>3. h = [s \in 0 .. NICFREE - 1 |-> IF s = 0 THEN b ELSE f[s]]
        BY <4>1
      <4> QED BY <4>2, <4>3
    <3>4. g[b].nfree = NICFREE /\ g[b].free = f
      BY <3>1, <3>2 DEF Pieces, AsFree, FreeBlk
    <3> HIDE DEF d, g, n, f, h
    <3>5. L!Chain(g, 1, h, m + 1, L!Spilled(f, m, q), P \cup {b})
      BY <2>2, <2>3, <3>1, <3>3, <3>4, ListConstants, L!SpillChain
    <3> QED BY <2>1, <3>2, <3>3, <3>5 DEF Listed, g, h
  <2> QED BY <2>4, <2>5
<1> QED BY <1>2, <1>3, <1>5 DEF Spills

(* A fresh block put on the free list; the list may be spilled into it, and no
   other block is written.                                                  *)
LEMMA BfreeSound ==
  ASSUME GarbageAssumption, NEW v, NEW A, NEW K, NEW P, NEW H, Sound(v, A, K, P, H),
         NEW b, Fresh(Map(v.blk, A), P, b), NEW G, Keeps(G, H, b)
  PROVE  /\ Sound(Bfree(v, b), A, K, P \cup {b}, G)
         /\ Bfree(v, b).ino = v.ino
         /\ Map(Bfree(v, b).blk, A) = Map(v.blk, A)
         /\ \A e \in Block : e # b => Bfree(v, b).blk[e] = v.blk[e]
<1> DEFINE w == Bfree(v, b)
           R == Map(v.blk, A)
<1>1. /\ Live(v) /\ Owns(v.blk, A, P) /\ Fits(v.blk, R, K, H)
      /\ Listed(v.blk, v.nfree, v.free, v.tfree, P) /\ P \subseteq Block
      /\ \A e \in Block : BlkOk(v.blk[e])
  BY DEF Sound, Owns
<1>2. b \in Block /\ b \notin P /\ b # 0 /\ \A i \in Ino : \A p \in Places : R[i][p] # b
  BY Numbers DEF Fresh
<1>3. PICK m, q : L!Chain(Pieces(v.blk), v.nfree, v.free, m, q, P)
  BY <1>1 DEF Listed
<1>4. v.nfree \in 1 .. NICFREE
  BY <1>3 DEF L!Chain
<1>5. /\ Live(w) /\ w.ino = v.ino /\ w.tfree = v.tfree + 1
      /\ ~(v.nfree >= NICFREE) =>
           /\ w.blk = v.blk /\ w.nfree = v.nfree + 1
           /\ w.free = [v.free EXCEPT ![v.nfree] = b]
      /\ v.nfree >= NICFREE =>
           /\ w.blk = [v.blk EXCEPT ![b] = FreeBlk(v.nfree, v.free)] /\ w.nfree = 0 + 1
           /\ w.free = [v.free EXCEPT ![0] = b]
  <2>1. w = Bfree(v, b)
    OBVIOUS
  <2>2. Live(v) /\ b # 0
    BY <1>1, <1>2
  <2> HIDE DEF w
  <2>3. Freed(w, v, b)
    BY ONLY <2>1, <2>2, BfreeIs
  <2> QED BY ONLY <2>3 DEF Freed
<1> HIDE DEF w
<1>6. /\ w.blk = [e \in Block |-> w.blk[e]]
      /\ \A e \in Block : e # b => w.blk[e] = v.blk[e]
      /\ w.blk[b] = IF v.nfree >= NICFREE THEN FreeBlk(v.nfree, v.free) ELSE v.blk[b]
  BY <1>1, <1>2, <1>5 DEF Owns
<1>7. v.free = [s \in 0 .. NICFREE - 1 |-> v.free[s]]
  BY <1>1 DEF Listed
<1>8. Indirects(w.blk, A) /\ Map(w.blk, A) = R /\ A \in [Ino -> Addrs0]
  <2>1. A \in [Ino -> Addrs0] /\ Indirects(v.blk, A)
    BY <1>1 DEF Owns
  <2>2. \A i \in Ino : A[i][LADDR] # 0 => A[i][LADDR] \in Block /\ A[i][LADDR] # b
    <3> SUFFICES ASSUME NEW i \in Ino, A[i][LADDR] # 0
                 PROVE  A[i][LADDR] \in Block /\ A[i][LADDR] # b
      OBVIOUS
    <3>1. R[i][-1] = A[i][LADDR] /\ -1 \in Places
      BY Numbers DEF Map, Ref
    <3>2. R[i][-1] \in Blk0 /\ R[i][-1] # b
      BY <1>2, <2>1, <3>1, RefType
    <3> QED BY <3>1, <3>2 DEF Blk0
  <2> QED BY <1>6, <2>1, <2>2, KeepMap
<1>9. Owns(w.blk, A, P \cup {b})
  <2>1. Apart(R, P)
    BY <1>1 DEF Owns
  <2>2. Apart(R, P \cup {b})
    BY <2>1, ApartFreed
  <2> QED BY <1>1, <1>2, <1>6, <1>8, <2>2 DEF Owns
<1>10. Fits(w.blk, R, K, G)
  <2> SUFFICES ASSUME NEW i \in Ino, NEW l \in Lbns, R[i][l] # 0, <<i, l>> \notin G
               PROVE  FitsAt(w.blk[R[i][l]], i, l, K[i])
    BY DEF Fits
  <2>1. l \in Places
    BY Numbers
  <2>2. R[i][l] # b
    BY <1>2, <2>1
  <2>3. R[i][l] \in Block
    <3>1. Indirects(v.blk, A)
      BY <1>1 DEF Owns
    <3> QED BY <1>8, <2>1, <3>1, RefType DEF Blk0
  <2>5. <<i, l>> \notin H
    BY TagsApart DEF Keeps
  <2>4. FitsAt(v.blk[R[i][l]], i, l, K[i])
    BY <1>1, <2>5 DEF Fits
  <2> QED BY <1>6, <2>2, <2>3, <2>4
<1>11. \A e \in Block : BlkOk(w.blk[e])
  <2>3. v.nfree \in Int
    BY <1>4, Numbers
  <2>1. BlkOk(FreeBlk(v.nfree, v.free))
    BY <1>7, <2>3, BlksOk
  <2> QED BY <1>1, <1>6, <2>1
<1>12. Listed(w.blk, w.nfree, w.free, w.tfree, P \cup {b})
  <2>1. ListOf(v, P)
    BY <1>1 DEF Owns, ListOf
  <2>2. b \in Block \ P /\ Freed(w, v, b)
    BY <1>1, <1>2, <1>5 DEF Freed
  <2>3. ListOf(w, P \cup {b})
    BY ONLY <2>1, <2>2, BfreeListed
  <2> QED BY <2>3 DEF ListOf
<1>14. Whole(R, P \cup {b}, G)
  <2>1. Whole(R, P, H)
    BY DEF Sound
  <2> QED BY <2>1, WholeTaken
<1>13. Sound(w, A, K, P \cup {b}, G)
  BY <1>5, <1>8, <1>9, <1>10, <1>11, <1>12, <1>14 DEF Sound
<1> QED BY <1>5, <1>6, <1>8, <1>13 DEF w

-------------------------------------------------------------------------------
(* One reference changed, by an address entered or cleared in the inode: what
   a new block holds is not known yet.                                      *)
LEMMA RefSound ==
  ASSUME NEW v, NEW A, NEW K, NEW P, NEW H, Sound(v, A, K, P, H),
         NEW i \in Ino, NEW p \in Places, NEW b,
         b = 0 \/ Fresh(Map(v.blk, A), P, b),
         NEW B \in [Ino -> Addrs0], Indirects(v.blk, B),
         Sets(Map(v.blk, A), Map(v.blk, B), i, p, b),
         NEW G, Keeps(G, H, b), Loosens(G, Map(v.blk, A), i, p),
         p \in Lbns /\ b # 0 => <<i, p>> \in G
  PROVE  Sound(v, B, K, P, G)
<1> DEFINE R == Map(v.blk, A)
           S == Map(v.blk, B)
<1>1. Owns(v.blk, A, P) /\ Fits(v.blk, R, K, H) /\ P \subseteq Block /\ Apart(R, P)
  BY DEF Sound, Owns
<1>2. Apart(S, P)
  <2>1. 0 \notin P
    BY <1>1, Numbers
  <2> HIDE DEF R, S
  <2>2. (b = 0 /\ 0 \notin P) \/ Fresh(R, P, b)
    BY <2>1 DEF R
  <2>3. Sets(R, S, i, p, b)
    BY DEF R, S
  <2> QED BY <1>1, <2>2, <2>3, ApartSets
<1>3. Owns(v.blk, B, P)
  BY <1>1, <1>2 DEF Owns
<1>4. Fits(v.blk, S, K, G)
  <2> SUFFICES ASSUME NEW j \in Ino, NEW l \in Lbns, S[j][l] # 0, <<j, l>> \notin G
               PROVE  FitsAt(v.blk[S[j][l]], j, l, K[j])
    BY DEF Fits
  <2>1. S[j][l] = IF j = i /\ l = p THEN b ELSE R[j][l]
    BY Numbers DEF Sets
  <2>2. ~(j = i /\ l = p)
    BY <2>1
  <2>3. S[j][l] = R[j][l] /\ <<j, l>> \notin H
    BY <2>1, <2>2, TagsApart DEF Keeps
  <2> HIDE DEF R, S
  <2> QED BY <1>1, <2>3 DEF Fits
<1>5. Whole(S, P, G)
  <2>1. Whole(R, P, H)
    BY DEF Sound
  <2> HIDE DEF R, S
  <2>2. Keeps(G, H, b) /\ Loosens(G, R, i, p) /\ Sets(R, S, i, p, b)
    BY DEF R, S
  <2> QED BY ONLY <2>1, <2>2, i \in Ino, p \in Places, WholeSets
<1> HIDE DEF R, S
<1> QED BY <1>3, <1>4, <1>5 DEF Sound, S

(* A block entered at a direct address.                                      *)
LEMMA EnterDirect ==
  ASSUME NEW v, NEW A, NEW K, NEW P, NEW H, Sound(v, A, K, P, H),
         NEW i \in Ino, NEW s \in 0 .. LADDR - 1, A[i][s] = 0,
         NEW b, Fresh(Map(v.blk, A), P, b),
         NEW B, B = [A EXCEPT ![i] = [A[i] EXCEPT ![s] = b]],
         NEW G, Keeps(G, H, b), <<i, s>> \in G
  PROVE  Sound(v, B, K, P, G)
         /\ Sets(Map(v.blk, A), Map(v.blk, B), i, s, b)
<1>1. A \in [Ino -> Addrs0] /\ Indirects(v.blk, A)
  BY DEF Sound, Owns
<1>2. b \in Blk0 /\ s \in Places /\ s \in Lbns
  BY Numbers DEF Fresh, Blk0, Lbns, Places
<1>3. /\ B \in [Ino -> Addrs0] /\ Indirects(v.blk, B)
      /\ Sets(Map(v.blk, A), Map(v.blk, B), i, s, b)
  BY <1>1, <1>2, SetDirect
<1>4. Loosens(G, Map(v.blk, A), i, s)
  BY <1>2, Numbers DEF Loosens, Map, Ref
<1>5. Sound(v, B, K, P, G)
  BY <1>2, <1>3, <1>4, RefSound
<1> QED BY <1>3, <1>5

(* A direct address cleared; its block is fresh then.                        *)
LEMMA ClearDirect ==
  ASSUME NEW v, NEW A, NEW K, NEW P, Sound(v, A, K, P, {}),
         NEW i \in Ino, NEW s \in 0 .. LADDR - 1, A[i][s] # 0,
         NEW B, B = [A EXCEPT ![i] = [A[i] EXCEPT ![s] = 0]]
  PROVE  Sound(v, B, K, P, {Tag(A[i][s])}) /\ Fresh(Map(v.blk, B), P, A[i][s])
<1>1. A \in [Ino -> Addrs0] /\ Indirects(v.blk, A) /\ Apart(Map(v.blk, A), P)
  BY DEF Sound, Owns
<1>2. 0 \in Blk0 /\ s \in Places /\ s \in Lbns
  BY Numbers DEF Blk0, Lbns, Places
<1>3. /\ B \in [Ino -> Addrs0] /\ Indirects(v.blk, B)
      /\ Sets(Map(v.blk, A), Map(v.blk, B), i, s, 0)
  BY <1>1, <1>2, SetDirect
<1>5. Map(v.blk, A)[i][s] = A[i][s]
  BY <1>2, Numbers DEF Map, Ref
<1>4. Sound(v, B, K, P, {Tag(A[i][s])})
  <2> DEFINE H == {}
             b == 0
             G == {Tag(A[i][s])}
  <2>1. Sound(v, A, K, P, H) /\ Keeps(G, H, b) /\ b = 0
        /\ Sets(Map(v.blk, A), Map(v.blk, B), i, s, b) /\ Loosens(G, Map(v.blk, A), i, s)
    BY <1>3, <1>5 DEF Keeps, Loosens
  <2> HIDE DEF H, b, G
  <2>2. Sound(v, B, K, P, G)
    BY <1>2, <1>3, <2>1, RefSound
  <2> QED BY <2>2 DEF G
<1>6. A[i][s] \in Block
  BY <1>1, <1>2, <1>5, RefType DEF Blk0
<1> QED BY <1>1, <1>2, <1>3, <1>4, <1>5, <1>6, FreshDropped

(* A cleared indirect block entered.                                         *)
LEMMA EnterIndirect ==
  ASSUME NEW v, NEW A, NEW K, NEW P, NEW b, Sound(v, A, K, P, {Tag(b)}),
         NEW i \in Ino, A[i][LADDR] = 0, Fresh(Map(v.blk, A), P, b),
         v.blk[b] = IndBlk([x \in 0 .. NINDIR - 1 |-> 0]),
         NEW B, B = [A EXCEPT ![i] = [A[i] EXCEPT ![LADDR] = b]]
  PROVE  Sound(v, B, K, P, {}) /\ Sets(Map(v.blk, A), Map(v.blk, B), i, -1, b)
<1>1. A \in [Ino -> Addrs0] /\ Indirects(v.blk, A)
  BY DEF Sound, Owns
<1>2. b \in Block /\ -1 \in Places /\ -1 \notin Lbns
  BY Numbers DEF Fresh
<1>3. /\ B \in [Ino -> Addrs0] /\ Indirects(v.blk, B)
      /\ Sets(Map(v.blk, A), Map(v.blk, B), i, -1, b)
  BY <1>1, <1>2, SetIndirect
<1> DEFINE H == {Tag(b)}
           G == {}
           p == -1
<1>4. Sound(v, A, K, P, H) /\ Keeps(G, H, b) /\ p \in Places /\ p \notin Lbns
      /\ Sets(Map(v.blk, A), Map(v.blk, B), i, p, b)
  BY <1>2, <1>3 DEF Keeps
<1>6. Loosens(G, Map(v.blk, A), i, p)
  BY <1>2, Numbers DEF Loosens, Map, Ref
<1> HIDE DEF H, G, p
<1>5. Sound(v, B, K, P, G)
  BY <1>2, <1>3, <1>4, <1>6, RefSound
<1> QED BY <1>3, <1>5 DEF G

(* An address in an indirect block entered or cleared.                       *)
Patched(v, ind, x, b) == SetBlk(v, ind, IndBlk([AsInd(v.blk[ind]) EXCEPT ![x] = b]))

(* A place that gets the block b is exempt for now.                          *)
Exempt(G, i, l, b) == b # 0 => <<i, l>> \in G

(* b is 0 or a block of its own.                                             *)
MayEnter(R, P, b) == b = 0 \/ Fresh(R, P, b)

(* The volume that leaves.                                                   *)
LEMMA InIndirectSound ==
  ASSUME GarbageAssumption, NEW v, NEW A, NEW K, NEW P, NEW H, Sound(v, A, K, P, H),
         NEW i \in Ino, A[i][LADDR] # 0, NEW x \in 0 .. NINDIR - 1,
         NEW b, MayEnter(Map(v.blk, A), P, b),
         NEW l, l = LADDR + x,
         NEW w, w = Patched(v, A[i][LADDR], x, b),
         NEW G, Exempt(G, i, l, b), Keeps(G, H, b), Loosens(G, Map(v.blk, A), i, l)
  PROVE  /\ Sound(w, A, K, P, G) /\ w.ino = v.ino
         /\ Sets(Map(v.blk, A), Map(w.blk, A), i, l, b)
         /\ \A e \in Block : e # A[i][LADDR] => w.blk[e] = v.blk[e]
<1> DEFINE ind == A[i][LADDR]
           c == IndBlk([AsInd(v.blk[ind]) EXCEPT ![x] = b])
           R == Map(v.blk, A)
           S == Map(w.blk, A)
<1>1. /\ Live(v) /\ A \in [Ino -> Addrs0] /\ Indirects(v.blk, A) /\ Apart(R, P)
      /\ P \subseteq Block /\ Fits(v.blk, R, K, H) /\ v.blk = [e \in Block |-> v.blk[e]]
      /\ (\A e \in Block : BlkOk(v.blk[e])) /\ Listed(v.blk, v.nfree, v.free, v.tfree, P)
  BY DEF Sound, Owns
<1>2. /\ Live(w) /\ w.blk = [v.blk EXCEPT ![ind] = c] /\ w.ino = v.ino
      /\ w.nfree = v.nfree /\ w.free = v.free /\ w.tfree = v.tfree
  <2>1. Live(v) /\ w = SetBlk(v, ind, c)
    BY <1>1 DEF Patched
  <2> HIDE DEF c, ind, R, S
  <2> QED BY ONLY <2>1, SetBlkIs DEF Written
<1>3. R[i][-1] = ind /\ -1 \in Places /\ l \in Places /\ l \in Lbns /\ l # -1
  BY Numbers DEF Map, Ref, Lbns, Places
<1>4. ind \in Block /\ ind \notin P
      /\ \A j \in Ino : \A q \in Places : R[j][q] = ind => j = i /\ q = -1
  <2>1. ind \in Blk0
    BY <1>1, <1>3, RefType
  <2> QED BY <1>1, <1>3, <2>1 DEF Apart, Blk0
<1>5. b \in Blk0
  BY DEF Fresh, Blk0, MayEnter
<1>6. Indirects(w.blk, A) /\ Sets(R, S, i, l, b)
  BY <1>1, <1>2, <1>5, SetInIndirect
<1> HIDE DEF R, S, c
<1>7. w.blk = [e \in Block |-> w.blk[e]] /\ w.blk[ind] = c
      /\ \A e \in Block : e # ind => w.blk[e] = v.blk[e]
  BY <1>1, <1>2, <1>4
<1>8. Apart(S, P)
  <2>1. (b = 0 /\ 0 \notin P) \/ Fresh(R, P, b)
    BY <1>1, Numbers DEF R, MayEnter
  <2> QED BY <1>1, <1>3, <1>6, <2>1, ApartSets
<1>9. Owns(w.blk, A, P)
  BY <1>1, <1>6, <1>7, <1>8 DEF Owns, S
<1>10. Fits(w.blk, S, K, G)
  <2> SUFFICES ASSUME NEW j \in Ino, NEW k \in Lbns, S[j][k] # 0, <<j, k>> \notin G
               PROVE  FitsAt(w.blk[S[j][k]], j, k, K[j])
    BY DEF Fits
  <2>1. k \in Places /\ k # -1
    BY Numbers
  <2>2. S[j][k] = IF j = i /\ k = l THEN b ELSE R[j][k]
    BY <1>6, <2>1 DEF Sets
  <2>3. ~(j = i /\ k = l)
    BY <2>2 DEF Exempt
  <2>4. S[j][k] = R[j][k] /\ R[j][k] # ind
    BY <1>4, <2>1, <2>2, <2>3
  <2>5. R[j][k] \in Block
    BY <1>1, <2>1, <2>4, RefType DEF Blk0, R
  <2>6. <<j, k>> \notin H
    BY TagsApart DEF Keeps
  <2> QED BY <1>1, <1>7, <2>4, <2>5, <2>6 DEF Fits
<1>11. \A e \in Block : BlkOk(w.blk[e])
  <2>1. BlkOk(c)
    BY BlksOk DEF c
  <2> QED BY <1>1, <1>7, <2>1
<1>12. Listed(w.blk, w.nfree, w.free, w.tfree, P)
  <2>1. \A e \in P : Pieces(w.blk)[e] = Pieces(v.blk)[e]
    BY <1>1, <1>4, <1>7 DEF Pieces
  <2>2. PICK m, q : L!Chain(Pieces(v.blk), v.nfree, v.free, m, q, P)
    BY <1>1 DEF Listed
  <2>3. L!Chain(Pieces(w.blk), v.nfree, v.free, m, q, P)
    BY <2>1, <2>2, ListConstants, L!FrameChain
  <2> QED BY <1>1, <1>2, <2>3 DEF Listed
<1>14. Whole(S, P, G)
  <2>1. Whole(R, P, H) /\ Loosens(G, R, i, l)
    BY DEF Sound, R
  <2> QED BY <1>3, <1>6, <2>1, WholeSets
<1>13. Sound(w, A, K, P, G)
  BY <1>2, <1>9, <1>10, <1>11, <1>12, <1>14 DEF Sound, S
<1> QED BY <1>2, <1>6, <1>7, <1>13 DEF R, S

(* The block behind a place of an inode: it has no other place, and it is not
   free.                                                                     *)
LEMMA PlaceOnly ==
  ASSUME NEW v, NEW A, NEW K, NEW P, NEW H, Sound(v, A, K, P, H),
         NEW i \in Ino, NEW p \in Places, NEW b, b = Map(v.blk, A)[i][p], b # 0
  PROVE  /\ b \in Block \ P
         /\ \A j \in Ino : \A q \in Places : Map(v.blk, A)[j][q] = b => j = i /\ q = p
         /\ p # -1 => \A j \in Ino : A[j][LADDR] # b
<1> DEFINE R == Map(v.blk, A)
<1>1. A \in [Ino -> Addrs0] /\ Indirects(v.blk, A) /\ Apart(R, P)
  BY DEF Sound, Owns
<1>2. b \in Block
  BY <1>1, RefType DEF Blk0
<1>3. \A j \in Ino : R[j][-1] = A[j][LADDR]
  BY Numbers DEF Map, Ref
<1> QED BY <1>1, <1>2, <1>3, Numbers DEF Apart

(* A block a file or directory maps is written: that is the one place the
   write is about.                                                           *)
LEMMA FillRef ==
  ASSUME NEW v, NEW A, NEW K, NEW P, NEW H, Sound(v, A, K, P, H),
         NEW i \in Ino, NEW l \in Lbns, H \subseteq {<<i, l>>},
         NEW b, b = Map(v.blk, A)[i][l], b # 0,
         NEW c, BlkOk(c), FitsAt(c, i, l, K[i]), NEW w, w = SetBlk(v, b, c)
  PROVE  Sound(w, A, K, P, {}) /\ w.ino = v.ino
<1>1. l \in Places /\ l # -1
  BY Numbers
<1>2. /\ b \in Block \ P
      /\ \A j \in Ino : \A q \in Places : Map(v.blk, A)[j][q] = b => j = i /\ q = l
      /\ \A j \in Ino : A[j][LADDR] # b
  BY <1>1, PlaceOnly
<1> DEFINE G == {}
<1>3. ASSUME NEW j \in Ino, NEW m \in Lbns
      PROVE  /\ Map(v.blk, A)[j][m] = b /\ <<j, m>> \notin G => FitsAt(c, j, m, K[j])
             /\ Map(v.blk, A)[j][m] \notin {0, b} /\ <<j, m>> \in H => <<j, m>> \in G
  <2>1. m \in Places
    BY Numbers
  <2>2. Map(v.blk, A)[j][m] = b => j = i /\ m = l
    BY <1>2, <2>1
  <2>3. <<j, m>> \in H => j = i /\ m = l
    OBVIOUS
  <2> QED BY <2>2, <2>3
<1>7. \A e : Tag(e) \in H => Tag(e) \in G
  BY TagsApart
<1> HIDE DEF G
<1>4. Fitting(Map(v.blk, A), A, K, P, H, G, b, c)
  BY <1>2, <1>3, <1>7 DEF Fitting
<1>5. Sound(v, A, K, P, H) /\ w = SetBlk(v, b, c)
  OBVIOUS
<1>6. Sound(w, A, K, P, G) /\ w.ino = v.ino
  BY ONLY <1>4, <1>5, WriteSound
<1> QED BY <1>6 DEF G

(* Inode i gives up its addresses, and may become of another kind.           *)
LEMMA DropSound ==
  ASSUME NEW v, NEW A, NEW K, NEW P, NEW H, Sound(v, A, K, P, H), NEW i \in Ino,
         NEW B, Readdressed(B, A, i, NoAddr),
         NEW J, \A j \in Ino : j # i => J[j] = K[j],
         NEW G, H \subseteq G, \A p \in Places : Loosens(G, Map(v.blk, A), i, p)
  PROVE  /\ Sound(v, B, J, P, G)
         /\ \A j \in Ino : \A p \in Places :
              Map(v.blk, B)[j][p] = IF j = i THEN 0 ELSE Map(v.blk, A)[j][p]
         /\ \A b : Fresh(Map(v.blk, A), P, b) => Fresh(Map(v.blk, B), P, b)
<1> DEFINE R == Map(v.blk, A)
           S == Map(v.blk, B)
<1>1. /\ A \in [Ino -> Addrs0] /\ Indirects(v.blk, A) /\ Apart(R, P) /\ P \subseteq Block
      /\ Fits(v.blk, R, K, H)
  BY DEF Sound, Owns
<1>2. /\ B \in [Ino -> Addrs0] /\ Indirects(v.blk, B)
      /\ \A j \in Ino : \A p \in Places : S[j][p] = IF j = i THEN 0 ELSE R[j][p]
  BY <1>1, Drop
<1> HIDE DEF R, S
<1>3. 0 \notin P
  BY <1>1, Numbers
<1>4. Apart(S, P)
  BY <1>1, <1>2, <1>3 DEF Apart
<1>5. Owns(v.blk, B, P)
  BY <1>1, <1>2, <1>4 DEF Sound, Owns, S
<1>6. Fits(v.blk, S, J, G)
  <2> SUFFICES ASSUME NEW j \in Ino, NEW l \in Lbns, S[j][l] # 0, <<j, l>> \notin G
               PROVE  FitsAt(v.blk[S[j][l]], j, l, J[j])
    BY DEF Fits
  <2>1. l \in Places
    BY Numbers
  <2>2. j # i /\ S[j][l] = R[j][l] /\ J[j] = K[j]
    BY <1>2, <2>1
  <2> QED BY <1>1, <2>2 DEF Fits
<1>7. \A b : Fresh(R, P, b) => Fresh(S, P, b)
  <2> SUFFICES ASSUME NEW b, Fresh(R, P, b) PROVE Fresh(S, P, b)
    OBVIOUS
  <2>1. b # 0 /\ b \in Block \ P /\ \A j \in Ino : \A p \in Places : R[j][p] # b
    BY Numbers DEF Fresh
  <2> QED BY <1>2, <2>1 DEF Fresh
<1>8. Whole(S, P, G)
  <2> SUFFICES ASSUME NEW b, Fresh(S, P, b) PROVE Tag(b) \in G
    BY DEF Whole
  <2>1. b # 0 /\ b \in Block \ P /\ \A j \in Ino : \A p \in Places : S[j][p] # b
    BY Numbers DEF Fresh
  <2>2. CASE \E p \in Places : R[i][p] = b
    <3>1. \A p \in Places : Loosens(G, R, i, p)
      BY DEF R
    <3> QED BY <2>1, <2>2, <3>1 DEF Loosens
  <2>3. CASE ~ \E p \in Places : R[i][p] = b
    <3>1. Fresh(R, P, b)
      BY <1>2, <2>1, <2>3 DEF Fresh
    <3> QED BY <3>1 DEF Sound, Whole, R
  <2> QED BY <2>2, <2>3
<1> QED BY <1>2, <1>5, <1>6, <1>7, <1>8 DEF Sound, R, S

-------------------------------------------------------------------------------
(* What bmap answers is a place of the inode.                                *)
LEMMA MappableIs ==
  ASSUME NEW l \in Nat
  PROVE  (Mappable(l) <=> l \in Lbns) /\ (l < LADDR => l \in Lbns)
  BY Numbers DEF Mappable, Lbns
(* Its answer is the address at that place, or none.                         *)
LEMMA BmapRef ==
  ASSUME NEW v, NEW a, NEW l \in Nat
  PROVE  Bmap(v, a, l) = IF l \in Lbns THEN Ref(v.blk, a, l) ELSE 0
<1>1. (Mappable(l) <=> l \in Lbns) /\ (l < LADDR => l \in Lbns)
  BY MappableIs
<1>2. l \in Lbns => l \in Places /\ l # -1
  BY Numbers
<1> QED BY <1>1, <1>2 DEF Bmap, Ref

(* The indirect block of an inode, cleared when it is new.                   *)
LEMMA IndirectSound ==
  ASSUME GarbageAssumption, NEW v, NEW A, NEW K, NEW P, Sound(v, A, K, P, {}),
         NEW i \in Ino, NEW r, r = Indirect(v, A[i]),
         NEW B, Readdressed(B, A, i, [A[i] EXCEPT ![LADDR] = r.b])
  PROVE  /\ r.v.ino = v.ino
         /\ \/ Failed(r.v) /\ A[i][LADDR] = 0
            \/ /\ r.b # 0 /\ B[i][LADDR] = r.b /\ \E Q : Sound(r.v, B, K, Q, {})
               /\ \A l \in Lbns : Map(r.v.blk, B)[i][l] = Map(v.blk, A)[i][l]
<1>1. A \in [Ino -> Addrs0] /\ A[i] \in Addrs0 /\ LADDR \in 0 .. LADDR
  BY Numbers DEF Sound, Owns
<1>2. B[i][LADDR] = r.b
  BY <1>1 DEF Readdressed, Addrs0
<1>3. CASE A[i][LADDR] # 0
  <2>1. r.v = v /\ r.b = A[i][LADDR]
    BY <1>3 DEF Indirect
  <2>2. B = A
    <3>1. [A[i] EXCEPT ![LADDR] = r.b] = A[i]
      BY <1>1, <2>1 DEF Addrs0
    <3> QED BY <1>1, <3>1 DEF Readdressed
  <2> QED BY <1>2, <1>3, <2>1, <2>2
<1>4. CASE A[i][LADDR] = 0
  <2> DEFINE a == Alloc(v)
             c == IndBlk([x \in 0 .. NINDIR - 1 |-> 0])
             w == SetBlk(a.v, a.b, c)
  <2>1. r = [a EXCEPT !.v = w]
    BY <1>4 DEF Indirect, Cleared
  <2>2. a = [v |-> a.v, b |-> a.b]
    BY DEF Alloc
  <2>3. r.v = w /\ r.b = a.b
    <3> HIDE DEF a, w
    <3> QED BY <2>1, <2>2
  <2>4. /\ a.v.ino = v.ino
        /\ \/ Failed(a.v) /\ a.b = 0
           \/ a.b \in P /\ a.v.blk = v.blk /\ Sound(a.v, A, K, P \ {a.b}, {Tag(a.b)})
    BY AllocOne
  <2> HIDE DEF a
  <2>5. CASE Failed(a.v)
    <3>1. w = a.v
      BY <2>5, FailedStays
    <3> QED BY <1>4, <2>3, <2>4, <2>5, <3>1
  <2>6. CASE a.b \in P /\ a.v.blk = v.blk /\ Sound(a.v, A, K, P \ {a.b}, {Tag(a.b)})
    <3> DEFINE Q == P \ {a.b}
               u == a.v
               b == a.b
               G == {Tag(b)}
    <3>1. Fresh(Map(u.blk, A), Q, b) /\ Indirects(u.blk, A)
      BY <2>6, FreshTaken DEF Sound, Owns
    <3>2. Sound(u, A, K, Q, G) /\ w = SetBlk(u, b, c) /\ b # 0
      BY <2>6, <3>1, Numbers DEF Fresh
    <3>3. BlkOk(c)
      BY BlksOk
    <3> HIDE DEF Q, u, b, c, w, G
    <3>4. \A j \in Ino : A[j][LADDR] # b
      BY <3>1, Numbers DEF Fresh, Map, Ref
    <3>5. Fitting(Map(u.blk, A), A, K, Q, G, G, b, c)
      <4>1. \A j \in Ino : \A l \in Lbns : Map(u.blk, A)[j][l] # b
        BY <3>1, Numbers DEF Fresh
      <4> QED BY <3>1, <3>3, <3>4, <4>1 DEF Fitting, Fresh
    <3>6. Sound(w, A, K, Q, G) /\ w.ino = u.ino /\ w.blk[b] = c /\ Map(w.blk, A) = Map(u.blk, A)
      BY <3>2, <3>5, WriteSound
    <3>7. Readdressed(B, A, i, [A[i] EXCEPT ![LADDR] = b])
      BY <2>3 DEF b
    <3>8. Sound(w, B, K, Q, {}) /\ Sets(Map(w.blk, A), Map(w.blk, B), i, -1, b)
      <4>1. Sound(w, A, K, Q, {Tag(b)}) /\ Fresh(Map(w.blk, A), Q, b)
        BY <3>1, <3>6 DEF G
      <4>2. w.blk[b] = IndBlk([x \in 0 .. NINDIR - 1 |-> 0])
        BY <3>6 DEF c
      <4> QED BY <1>4, <3>7, <4>1, <4>2, EnterIndirect DEF Readdressed
    <3>9. \A l \in Lbns : Map(w.blk, B)[i][l] = Map(w.blk, A)[i][l]
      BY <3>8, Numbers DEF Sets
    <3> QED BY <1>2, <2>3, <2>4, <2>6, <3>2, <3>6, <3>8, <3>9 DEF u, b
  <2> QED BY <2>4, <2>5, <2>6
<1> QED BY <1>3, <1>4

(* The three answers of rw_bmap: the handle failed; the block was there, or
   cannot be; it is new, and entered in the addresses B, which keep what else
   they held.                                                                *)
Kept(m, v, A, i, l) ==
  /\ m.v = v /\ m.addr = A[i]
  /\ m.b # 0 => l \in Lbns /\ m.b = Map(v.blk, A)[i][l]
New(m, v, A, B, K, i, l) ==
  /\ l \in Lbns /\ Map(v.blk, A)[i][l] = 0
  /\ m.b # 0 /\ m.b = Map(m.v.blk, B)[i][l]
  /\ \E Q : Sound(m.v, B, K, Q, {<<i, l>>})
  /\ \A s \in 0 .. LADDR - 1 : A[i][s] # 0 => m.addr[s] = A[i][s]

(* A new block behind a direct address.                                      *)
LEMMA InInodeSound ==
  ASSUME GarbageAssumption, NEW v, NEW A, NEW K, NEW P, Sound(v, A, K, P, {}),
         NEW i \in Ino, NEW l \in 0 .. LADDR - 1, Map(v.blk, A)[i][l] = 0,
         NEW m, m = InInode(A[i], l, Alloc(v)), NEW B, Readdressed(B, A, i, m.addr)
  PROVE  /\ m.v.ino = v.ino
         /\ (Failed(m.v) /\ m.b = 0) \/ New(m, v, A, B, K, i, l)
<1> DEFINE a == Alloc(v)
           b == a.b
           u == a.v
           Q == P \ {b}
<1>1. m.v = u /\ m.addr = [A[i] EXCEPT ![l] = b] /\ m.b = b
  BY DEF InInode
<1>2. /\ u.ino = v.ino
      /\ \/ Failed(u) /\ b = 0
         \/ b \in P /\ u.blk = v.blk /\ Sound(u, A, K, Q, {Tag(b)})
  BY AllocOne
<1>3. l \in Places /\ l \in Lbns /\ A[i] \in Addrs0 /\ l \in 0 .. LADDR
  BY Numbers DEF Places, Lbns, Sound, Owns
<1>4. CASE Failed(u) /\ b = 0
  <2> HIDE DEF a, b, u
  <2> QED BY <1>1, <1>2, <1>4
<1>5. CASE b \in P /\ u.blk = v.blk /\ Sound(u, A, K, Q, {Tag(b)})
  <2>1. Fresh(Map(u.blk, A), Q, b) /\ b # 0
    BY <1>5, FreshTaken, Numbers DEF Sound, Owns
  <2> HIDE DEF a, b, u, Q
  <2>2. Readdressed(B, A, i, [A[i] EXCEPT ![l] = b])
    BY <1>1
  <2>3. Sound(u, B, K, Q, {<<i, l>>}) /\ Sets(Map(u.blk, A), Map(u.blk, B), i, l, b)
    <3> DEFINE H == {Tag(b)}
               G == {<<i, l>>}
    <3>1. Keeps(G, H, b) /\ <<i, l>> \in G
      BY DEF Keeps
    <3>2. A[i][l] = 0
      BY <1>3, Numbers DEF Map, Ref
    <3>3. Sound(u, A, K, Q, H) /\ B = [A EXCEPT ![i] = [A[i] EXCEPT ![l] = b]]
      BY <1>5, <2>2 DEF Readdressed
    <3> HIDE DEF G, H
    <3>4. Sound(u, B, K, Q, G) /\ Sets(Map(u.blk, A), Map(u.blk, B), i, l, b)
      BY <2>1, <3>1, <3>2, <3>3, EnterDirect
    <3> QED BY <3>4 DEF G
  <2>4. Map(u.blk, B)[i][l] = b
    BY <1>3, <2>3 DEF Sets
  <2>5. \A s \in 0 .. LADDR - 1 : A[i][s] # 0 => m.addr[s] = A[i][s]
    <3>1. A[i][l] = 0
      BY <1>3, Numbers DEF Map, Ref
    <3>2. \A s \in 0 .. LADDR - 1 : s \in 0 .. LADDR
      BY Numbers
    <3> QED BY <1>1, <1>3, <3>1, <3>2 DEF Addrs0
  <2>6. \E q : Sound(m.v, B, K, q, {<<i, l>>})
    BY <1>1, <2>3
  <2>7. New(m, v, A, B, K, i, l)
    BY <1>1, <1>3, <2>1, <2>4, <2>5, <2>6 DEF New
  <2> QED BY <1>1, <1>2, <2>7
<1> QED BY <1>2, <1>4, <1>5

(* A new block behind an address in the indirect block.                      *)
LEMMA ThroughIndirectSound ==
  ASSUME GarbageAssumption, NEW v, NEW A, NEW K, NEW P, Sound(v, A, K, P, {}),
         NEW i \in Ino, NEW x \in 0 .. NINDIR - 1, Map(v.blk, A)[i][LADDR + x] = 0,
         NEW m, m = ThroughIndirect(A[i], x, Indirect(v, A[i])),
         NEW B, Readdressed(B, A, i, m.addr)
  PROVE  /\ m.v.ino = v.ino
         /\ (Failed(m.v) /\ m.b = 0) \/ New(m, v, A, B, K, i, LADDR + x)
<1> DEFINE r == Indirect(v, A[i])
           u == r.v
           a == Alloc(u)
           b == a.b
           l == LADDR + x
           c == IndBlk([AsInd(u.blk[r.b]) EXCEPT ![x] = b])
           w == SetBlk(a.v, r.b, c)
<1>1. m.v = w /\ m.addr = [A[i] EXCEPT ![LADDR] = r.b] /\ m.b = b
  BY DEF ThroughIndirect, InIndirect
<1>2. l \in Places /\ l \in Lbns /\ A[i] \in Addrs0 /\ LADDR \in 0 .. LADDR
      /\ A \in [Ino -> Addrs0]
  BY Numbers DEF Places, Lbns, Sound, Owns
<1>3. Readdressed(B, A, i, [A[i] EXCEPT ![LADDR] = r.b])
  BY <1>1
<1>4. /\ u.ino = v.ino
      /\ \/ Failed(u) /\ A[i][LADDR] = 0
         \/ /\ r.b # 0 /\ B[i][LADDR] = r.b /\ \E q : Sound(u, B, K, q, {})
            /\ \A y \in Lbns : Map(u.blk, B)[i][y] = Map(v.blk, A)[i][y]
  <2> HIDE DEF u
  <2>1. r = Indirect(v, A[i])
    OBVIOUS
  <2> HIDE DEF r
  <2>2. /\ r.v.ino = v.ino
        /\ \/ Failed(r.v) /\ A[i][LADDR] = 0
           \/ /\ r.b # 0 /\ B[i][LADDR] = r.b /\ \E q : Sound(r.v, B, K, q, {})
              /\ \A y \in Lbns : Map(r.v.blk, B)[i][y] = Map(v.blk, A)[i][y]
    BY <1>3, <2>1, IndirectSound
  <2> QED BY <2>2 DEF u
<1>5. CASE Failed(u)
  <2>1. Failed(a.v) /\ a.b = 0 /\ a.v.ino = u.ino
    BY <1>5, FailedStays
  <2> HIDE DEF r, u, a
  <2>2. w = a.v
    BY <2>1, FailedStays
  <2> QED BY <1>1, <1>4, <2>1, <2>2
<1>6. ASSUME r.b # 0, B[i][LADDR] = r.b, NEW Q, Sound(u, B, K, Q, {}),
             \A y \in Lbns : Map(u.blk, B)[i][y] = Map(v.blk, A)[i][y]
      PROVE  /\ m.v.ino = v.ino
             /\ (Failed(m.v) /\ m.b = 0) \/ New(m, v, A, B, K, i, l)
  <2>1. /\ a.v.ino = u.ino
        /\ \/ Failed(a.v) /\ a.b = 0
           \/ a.b \in Q /\ a.v.blk = u.blk /\ Sound(a.v, B, K, Q \ {a.b}, {Tag(a.b)})
    <3> HIDE DEF r, u
    <3> QED BY <1>6, AllocOne
  <2>2. CASE Failed(a.v) /\ a.b = 0
    <3> HIDE DEF r, u, a
    <3>1. w = a.v
      BY <2>2, FailedStays
    <3> QED BY <1>1, <1>4, <2>1, <2>2, <3>1
  <2>3. CASE b \in Q /\ a.v.blk = u.blk /\ Sound(a.v, B, K, Q \ {b}, {Tag(b)})
    <3> DEFINE R == Q \ {b}
               z == a.v
    <3>1. Fresh(Map(z.blk, B), R, b) /\ b # 0
      <4> HIDE DEF a, u
      <4>1. Q \subseteq Block /\ Apart(Map(u.blk, B), Q)
        BY <1>6 DEF Sound, Owns
      <4> QED BY <2>3, <4>1, FreshTaken, Numbers
    <3> DEFINE H == {Tag(b)}
    <3>2. z.blk = u.blk /\ Sound(z, B, K, R, H) /\ w = SetBlk(z, r.b, c)
      BY <2>3
    <3> HIDE DEF R, z, a, b, w, u, r, c
    <3>3. w = Patched(z, B[i][LADDR], x, b)
      BY <1>6, <3>2 DEF Patched, c
    <3> DEFINE G == {<<i, l>>}
    <3>4. Exempt(G, i, l, b) /\ l = LADDR + x /\ Keeps(G, H, b)
      BY DEF Exempt, Keeps
    <3>11. Loosens(G, Map(z.blk, B), i, l)
      BY <1>2, <1>6, <3>2 DEF Loosens
    <3>5. B[i][LADDR] # 0 /\ MayEnter(Map(z.blk, B), R, b)
      BY <1>6, <3>1 DEF MayEnter
    <3> HIDE DEF G, H, c, l
    <3>6. /\ Sound(w, B, K, R, G) /\ w.ino = z.ino
          /\ Sets(Map(z.blk, B), Map(w.blk, B), i, l, b)
      BY <3>2, <3>3, <3>4, <3>5, <3>11, InIndirectSound
    <3>7. Map(w.blk, B)[i][l] = b
      BY <1>2, <3>6 DEF Sets
    <3>8. \A s \in 0 .. LADDR - 1 : m.addr[s] = A[i][s]
      <4>1. \A s \in 0 .. LADDR - 1 : s \in 0 .. LADDR /\ s # LADDR
        BY Numbers
      <4> QED BY <1>1, <1>2, <4>1 DEF Addrs0
    <3>9. \E q : Sound(m.v, B, K, q, {<<i, l>>})
      BY <1>1, <3>6 DEF G
    <3>10. New(m, v, A, B, K, i, l)
      BY <1>1, <1>2, <3>1, <3>7, <3>8, <3>9 DEF New, l
    <3> QED BY <1>1, <1>4, <2>1, <3>6, <3>10 DEF z
  <2> QED BY <2>1, <2>2, <2>3
<1> QED BY <1>4, <1>5, <1>6

(* rw_bmap with alloc set.                                                   *)
LEMMA BmapAllocSound ==
  ASSUME GarbageAssumption, NEW v, NEW A, NEW K, NEW P, Sound(v, A, K, P, {}),
         NEW i \in Ino, NEW l \in Nat, NEW m, m = BmapAlloc(v, A[i], l),
         NEW B, Readdressed(B, A, i, m.addr)
  PROVE  /\ m.v.ino = v.ino
         /\ (Failed(m.v) /\ m.b = 0) \/ Kept(m, v, A, i, l) \/ New(m, v, A, B, K, i, l)
<1> DEFINE old == Bmap(v, A[i], l)
<1>1. /\ l \in Lbns => old = Map(v.blk, A)[i][l]
      /\ l \notin Lbns => old = 0
      /\ Mappable(l) <=> l \in Lbns
  <2>1. Mappable(l) <=> l \in Lbns
    BY MappableIs
  <2>2. old = IF l \in Lbns THEN Ref(v.blk, A[i], l) ELSE 0
    BY BmapRef
  <2>3. l \in Lbns => l \in Places
    BY Numbers
  <2> QED BY <2>1, <2>2, <2>3 DEF Map
<1>2. CASE ~Mappable(l) \/ old # 0
  <2>1. m.v = v /\ m.addr = A[i] /\ m.b = old
    BY <1>2 DEF BmapAlloc
  <2> QED BY <1>1, <2>1 DEF Kept
<1>3. CASE Mappable(l) /\ old = 0 /\ l < LADDR
  <2>1. m = InInode(A[i], l, Alloc(v))
    BY <1>3 DEF BmapAlloc
  <2>2. l \in 0 .. LADDR - 1 /\ Map(v.blk, A)[i][l] = 0
    BY <1>1, <1>3, Numbers
  <2> QED BY <2>1, <2>2, InInodeSound
<1>4. CASE Mappable(l) /\ old = 0 /\ ~(l < LADDR)
  <2> DEFINE x == l - LADDR
  <2>1. m = ThroughIndirect(A[i], x, Indirect(v, A[i]))
    BY <1>4 DEF BmapAlloc
  <2>2. x \in 0 .. NINDIR - 1 /\ l = LADDR + x /\ Map(v.blk, A)[i][l] = 0
    BY <1>1, <1>4, Numbers DEF Lbns
  <2> HIDE DEF x
  <2>3. Map(v.blk, A)[i][LADDR + x] = 0
    BY <2>2
  <2>4. /\ m.v.ino = v.ino
        /\ (Failed(m.v) /\ m.b = 0) \/ New(m, v, A, B, K, i, LADDR + x)
    BY <2>1, <2>2, <2>3, ThroughIndirectSound
  <2> QED BY <2>2, <2>4
<1> QED BY <1>2, <1>3, <1>4

(* On a failed handle it answers no block.                                   *)
LEMMA BmapAllocFailed ==
  ASSUME NEW v, Failed(v), NEW a, NEW l, NEW m, m = BmapAlloc(v, a, l)
  PROVE  Failed(m.v) /\ m.v.ino = v.ino
<1>1. Failed(Alloc(v).v) /\ Alloc(v).b = 0 /\ Alloc(v).v.ino = v.ino
  BY FailedStays
<1>2. CASE m.v = v
  BY <1>2
<1>3. CASE m = InInode(a, l, Alloc(v))
  BY <1>1, <1>3 DEF InInode
<1>4. CASE m = ThroughIndirect(a, l - LADDR, Indirect(v, a))
  <2> DEFINE r == Indirect(v, a)
  <2>1. Failed(r.v) /\ r.v.ino = v.ino
    <3>1. CASE a[LADDR] # 0
      BY <3>1 DEF Indirect
    <3>2. CASE a[LADDR] = 0
      <4>1. r.v = SetBlk(Alloc(v).v, Alloc(v).b, IndBlk([x \in 0 .. NINDIR - 1 |-> 0]))
        <5>1. Alloc(v) = [v |-> Alloc(v).v, b |-> Alloc(v).b]
          BY DEF Alloc
        <5>2. r = Cleared(Alloc(v))
          BY <3>2 DEF Indirect
        <5> DEFINE aa == Alloc(v)
        <5> HIDE DEF aa
        <5> QED BY <5>1, <5>2 DEF Cleared
      <4> QED BY <1>1, <4>1, FailedStays
    <3> QED BY <3>1, <3>2
  <2> HIDE DEF r
  <2>2. Failed(Alloc(r.v).v) /\ Alloc(r.v).v.ino = v.ino
    BY <2>1, FailedStays
  <2>3. m.v = SetBlk(Alloc(r.v).v, r.b,
                     IndBlk([AsInd(r.v.blk[r.b]) EXCEPT ![l - LADDR] = Alloc(r.v).b]))
    BY <1>4 DEF ThroughIndirect, InIndirect, r
  <2>4. m.v = Alloc(r.v).v
    BY <2>2, <2>3, FailedStays
  <2> QED BY <2>2, <2>4
<1> QED BY <1>2, <1>3, <1>4 DEF BmapAlloc

(* The other order of what bfree_at does with an address in an indirect block:
   the address is cleared first, and the block freed then.  The two writes go to
   different blocks, so nothing but their order tells the results apart.     *)
LEMMA Commute ==
  ASSUME NEW v, Live(v), v.blk = [e \in Block |-> v.blk[e]],
         NEW b, b # 0, NEW i, i # b, NEW c,
         NEW x, x = SetBlk(Bfree(v, b), i, c), NEW y, y = Bfree(SetBlk(v, i, c), b)
  PROVE  Like(x, y) /\ x.ino = v.ino /\ y.ino = v.ino
<1> DEFINE w == Bfree(v, b)
           z == SetBlk(v, i, c)
           g == FreeBlk(v.nfree, v.free)
           h == FreeBlk(z.nfree, z.free)
<1>1. y = Bfree(z, b) /\ x = SetBlk(w, i, c) /\ w = Bfree(v, b) /\ z = SetBlk(v, i, c)
  OBVIOUS
<1> HIDE DEF w, z
<1>2. Freed(w, v, b) /\ Live(w)
  <2>1. Freed(w, v, b)
    BY <1>1, BfreeIs
  <2> QED BY <2>1 DEF Freed
<1>3. Written(z, v, i, c) /\ Live(z)
  BY <1>1, SetBlkIs DEF Written
<1>4. Written(x, w, i, c)
  BY <1>1, <1>2, SetBlkIs
<1>5. Freed(y, z, b)
  BY <1>1, <1>3, BfreeIs
<1>6. g = h
  BY <1>3 DEF Written
<1> HIDE DEF g, h
<1>7. x.blk = y.blk
  <2>1. CASE v.nfree >= NICFREE
    <3>1. x.blk = [[v.blk EXCEPT ![b] = g] EXCEPT ![i] = c]
          /\ y.blk = [[v.blk EXCEPT ![i] = c] EXCEPT ![b] = g]
      BY <1>2, <1>3, <1>4, <1>5, <1>6, <2>1 DEF Freed, Written, g, h
    <3> QED BY <3>1
  <2>2. CASE ~(v.nfree >= NICFREE)
    BY <1>2, <1>3, <1>4, <1>5, <2>2 DEF Freed, Written
  <2> QED BY <2>1, <2>2
<1>8. x.nfree = y.nfree /\ x.free = y.free /\ x.tfree = y.tfree
  BY <1>2, <1>3, <1>4, <1>5 DEF Freed, Written
<1>9. x.error = y.error /\ IsVolume(x)
  BY <1>4, <1>5 DEF Live, Freed, Written
<1>10. x.ino = v.ino /\ y.ino = v.ino
  BY <1>2, <1>3, <1>4, <1>5 DEF Freed, Written
<1> QED BY <1>7, <1>8, <1>9, <1>10 DEF Like

(* bfree_at keeps a volume sound, with the addresses it leaves.              *)
LEMMA BfreeAtSound ==
  ASSUME GarbageAssumption, NEW v, NEW A, NEW K, NEW P, Sound(v, A, K, P, {}),
         NEW i \in Ino, NEW l \in Nat, NEW m, m = BfreeAt([v |-> v, addr |-> A[i]], l),
         NEW B, Readdressed(B, A, i, m.addr)
  PROVE  /\ m = [v |-> m.v, addr |-> m.addr] /\ m.v.ino = v.ino
         /\ \E Q : Sound(m.v, B, K, Q, {})
<1> DEFINE b == Bmap(v, A[i], l)
           w == Bfree(v, b)
           ind == A[i][LADDR]
           x == l - LADDR
           c == IndBlk([AsInd(v.blk[ind]) EXCEPT ![x] = 0])
           u == SetBlk(w, ind, c)
           r == [v |-> v, addr |-> A[i]]
<1>1. /\ l \in Lbns => b = Map(v.blk, A)[i][l]
      /\ l \notin Lbns => b = 0
  <2>1. b = IF l \in Lbns THEN Ref(v.blk, A[i], l) ELSE 0
    BY BmapRef
  <2>2. l \in Lbns => l \in Places
    BY Numbers
  <2> QED BY <2>1, <2>2 DEF Map
<1>2. /\ Live(v) /\ v.blk = [e \in Block |-> v.blk[e]] /\ P \subseteq Block
      /\ A \in [Ino -> Addrs0] /\ Indirects(v.blk, A) /\ Apart(Map(v.blk, A), P)
      /\ A[i] \in Addrs0
  BY DEF Sound, Owns
<1>3. CASE b = 0
  <2>1. m = r
    BY <1>3 DEF BfreeAt
  <2>2. B = A
    BY <1>2, <2>1 DEF Readdressed
  <2> QED BY <2>1, <2>2
<1>4. CASE b # 0 /\ l < LADDR
  <2>1. m = [v |-> w, addr |-> [A[i] EXCEPT ![l] = 0]]
    BY <1>4 DEF BfreeAt
  <2>2. l \in 0 .. LADDR - 1 /\ A[i][l] # 0 /\ b = A[i][l]
    BY <1>4, Numbers DEF Bmap
  <2> HIDE DEF b
  <2>3. Sound(v, B, K, P, {Tag(b)}) /\ Fresh(Map(v.blk, B), P, b)
    <3>1. m.addr = [A[i] EXCEPT ![l] = 0]
      BY <2>1
    <3>2. B = [A EXCEPT ![i] = [A[i] EXCEPT ![l] = 0]]
      BY <3>1 DEF Readdressed
    <3> QED BY <2>2, <3>2, ClearDirect
  <2>4. Sound(w, B, K, P \cup {b}, {}) /\ w.ino = v.ino
    <3>1. Keeps({}, {Tag(b)}, b)
      BY DEF Keeps
    <3> QED BY <2>3, <3>1, BfreeSound
  <2> QED BY <2>1, <2>4
<1>5. CASE b # 0 /\ ~(l < LADDR)
  <2>1. m = [v |-> u, addr |-> A[i]]
    <3>1. m = [r EXCEPT !.v = u]
      BY <1>5 DEF BfreeAt
    <3> HIDE DEF u
    <3> QED BY <3>1
  <2>2. B = A
    BY <1>2, <2>1 DEF Readdressed
  <2>3. l \in Lbns /\ b = Map(v.blk, A)[i][l] /\ l \in Places /\ l # -1
    BY <1>1, <1>5, Numbers
  <2>4. x \in 0 .. NINDIR - 1 /\ l = LADDR + x
    BY <1>5, <2>3, Numbers DEF Lbns
  <2>5. ind # 0
    BY <1>5, <2>3, Numbers DEF Map, Ref
  <2>6. b \in Block
    BY <1>2, <1>5, <2>3, RefType DEF Blk0
  <2>7. ind # b
    <3>1. Map(v.blk, A)[i][-1] = ind /\ -1 \in Places
      BY Numbers DEF Map, Ref
    <3> QED BY <1>2, <1>5, <2>3, <3>1 DEF Apart
  <2> DEFINE z == Patched(v, ind, x, 0)
             y == Bfree(z, b)
             H == {}
             G == {Tag(b)}
             o == 0
  <2>8. z = SetBlk(v, ind, c)
    BY DEF Patched
  <2>9. z = Patched(v, A[i][LADDR], x, o) /\ o = 0 /\ A[i][LADDR] # 0
    BY <2>5
  <2>16. Keeps(G, H, o) /\ Keeps(H, G, b) /\ Sound(v, A, K, P, H)
         /\ Loosens(G, Map(v.blk, A), i, l)
    BY <2>3 DEF Keeps, Loosens
  <2> HIDE DEF b, x, z, o, c, G, H
  <2>10. MayEnter(Map(v.blk, A), P, o) /\ Exempt(G, i, l, o)
    BY <2>9 DEF MayEnter, Exempt
  <2>11. /\ Sound(z, A, K, P, G) /\ z.ino = v.ino
         /\ Sets(Map(v.blk, A), Map(z.blk, A), i, l, o)
    <3>1. Keeps(G, H, o) /\ Sound(v, A, K, P, H) /\ Loosens(G, Map(v.blk, A), i, l)
      BY <2>16
    <3>2. x \in 0 .. NINDIR - 1 /\ l = LADDR + x
      BY <2>4
    <3>3. A[i][LADDR] # 0 /\ z = Patched(v, A[i][LADDR], x, o)
      BY <2>9
    <3>4. MayEnter(Map(v.blk, A), P, o) /\ Exempt(G, i, l, o)
      BY <2>10
    <3> HIDE DEF w, u, r, z, y
    <3> QED BY ONLY <3>1, <3>2, <3>3, <3>4, i \in Ino, GarbageAssumption, InIndirectSound
  <2>12. Fresh(Map(z.blk, A), P, b)
    <3> DEFINE R == Map(v.blk, A)
               S == Map(z.blk, A)
    <3>1. Sets(R, S, i, l, 0) /\ Apart(R, P) /\ b = R[i][l] /\ R[i][l] \in Block
      BY <1>2, <2>3, <2>6, <2>9, <2>11
    <3> HIDE DEF R, S
    <3>2. Fresh(S, P, R[i][l])
      BY ONLY <2>3, <3>1, i \in Ino, FreshDropped
    <3> QED BY <3>1, <3>2 DEF S
  <2>13. Sound(y, A, K, P \cup {b}, H)
    BY <2>11, <2>12, <2>16, BfreeSound
  <2>14. Like(u, y) /\ u.ino = v.ino
    <3>1. u = SetBlk(Bfree(v, b), ind, c) /\ y = Bfree(SetBlk(v, ind, c), b)
      BY <2>8
    <3>2. Live(v) /\ v.blk = [e \in Block |-> v.blk[e]] /\ b # 0 /\ ind # b
      BY <1>2, <1>5, <2>7
    <3> HIDE DEF u, y, ind
    <3> QED BY ONLY <3>1, <3>2, Commute
  <2> HIDE DEF u, y
  <2>15. Sound(u, A, K, P \cup {b}, {})
    BY <2>13, <2>14, SoundLike DEF H
  <2> QED BY <2>1, <2>2, <2>14, <2>15
<1> QED BY <1>3, <1>4, <1>5

-------------------------------------------------------------------------------
(* The folds over the blocks of an inode, as runs: r[k] is the volume, or the
   volume and the addresses, after k blocks.                                 *)
FreeOp(p, v, b) == BfreeAny(v, b)
Frees == INSTANCE FoldRuns WITH Op <- FreeOp
CutOp(p, r, l) == BfreeAt(r, l)
Cuts == INSTANCE FoldRuns WITH Op <- CutOp

NAddrs == LADDR + NINDIR + 1

(* ifree_blocks, address by address.                                         *)
LEMMA IfreeRun ==
  ASSUME NEW v, NEW a
  PROVE  \E r : /\ r[0] = v
                /\ \A k \in 1 .. NAddrs : r[k] = BfreeAny(r[k - 1], AddrsOf(v, a)[k])
                /\ IfreeBlocks(v, a) = r[NAddrs]
<1> DEFINE q == AddrsOf(v, a)
           n == NAddrs
<1>1. DOMAIN q = 1 .. n /\ n \in Nat
  BY Numbers DEF AddrsOf, NAddrs
<1> HIDE DEF q, n
<1>2. FoldLeft(BfreeAny, v, q) = Frees!Left(0, v, q, n)
  BY <1>1 DEF FoldLeft, MapThenFoldSet, Max, Frees!Left, Frees!Leftmost, FreeOp
<1>3. PICK r : Frees!IsRun(r, 0, v, q, n) /\ Frees!Left(0, v, q, n) = r[n]
  BY <1>1, Frees!LeftRun
<1>4. IfreeBlocks(v, a) = r[n]
  BY <1>2, <1>3 DEF IfreeBlocks, q
<1> QED BY <1>3, <1>4 DEF Frees!IsRun, FreeOp, q, n

(* The addresses of an inode, in the order they are freed in: each has a place
   of its own.                                                               *)
AddrPlace(x) == IF x <= LADDR + NINDIR THEN x - 1 ELSE -1
(* The places are places, and each is taken once.                            *)
LEMMA AddrPlaces ==
  ASSUME NEW x \in 1 .. NAddrs
  PROVE  AddrPlace(x) \in Places /\ \A y \in 1 .. NAddrs : AddrPlace(x) = AddrPlace(y) => x = y
  BY Numbers DEF AddrPlace, Places, NAddrs
(* The address freed x-th is the one at that place.                          *)
LEMMA AddrRef ==
  ASSUME NEW v, NEW a, NEW x \in 1 .. NAddrs
  PROVE  AddrsOf(v, a)[x] = Ref(v.blk, a, AddrPlace(x))
<1>1. CASE x <= LADDR + NINDIR
  <2>1. x - 1 \in Nat /\ x - 1 \in Lbns
    BY <1>1, Numbers DEF Lbns
  <2>2. AddrsOf(v, a)[x] = Bmap(v, a, x - 1)
    BY <1>1 DEF AddrsOf, NAddrs
  <2>3. Bmap(v, a, x - 1) = Ref(v.blk, a, x - 1)
    BY <2>1, BmapRef
  <2> QED BY <1>1, <2>2, <2>3 DEF AddrPlace
<1>2. CASE ~(x <= LADDR + NINDIR)
  <2>1. AddrsOf(v, a)[x] = a[LADDR]
    BY <1>2 DEF AddrsOf, NAddrs
  <2> QED BY <1>2, <2>1, Numbers DEF AddrPlace, Ref
<1> QED BY <1>1, <1>2

(* Each place is some address's.                                             *)
LEMMA PlaceAddrs ==
  ASSUME NEW p \in Places
  PROVE  \E x \in 1 .. NAddrs : AddrPlace(x) = p
<1>1. CASE p = -1
  <2>1. NAddrs \in 1 .. NAddrs /\ AddrPlace(NAddrs) = p
    BY <1>1, Numbers DEF AddrPlace, NAddrs
  <2> QED BY <2>1
<1>2. CASE p # -1
  <2>1. p + 1 \in 1 .. NAddrs /\ AddrPlace(p + 1) = p
    BY <1>2, Numbers DEF AddrPlace, Places, NAddrs
  <2> QED BY <2>1
<1> QED BY <1>1, <1>2

(* The tag of 0 is no block's.                                               *)
LEMMA NoneAtHand ==
  ASSUME NEW v, NEW A, NEW K, NEW P, NEW H, Sound(v, A, K, P, H),
         NEW b, b = 0, NEW G, Keeps(G, H, b)
  PROVE  Sound(v, A, K, P, G)
<1>1. Fits(v.blk, Map(v.blk, A), K, H) /\ Whole(Map(v.blk, A), P, H)
  BY DEF Sound
<1>2. Fits(v.blk, Map(v.blk, A), K, G)
  BY <1>1, TagsApart DEF Fits, Keeps
<1>3. ASSUME NEW e, Fresh(Map(v.blk, A), P, e) PROVE Tag(e) \in G
  <2>1. e # b
    BY <1>3, Numbers DEF Fresh
  <2> QED BY <1>1, <1>3, <2>1, TagsApart DEF Whole, Keeps
<1>4. Whole(Map(v.blk, A), P, G)
  BY <1>3 DEF Whole
<1> QED BY <1>2, <1>4 DEF Sound

(* What is left to free after k addresses are blocks of their own, and all that
   is at hand.                                                               *)
ToFree(k, q) == {Tag(q[x]) : x \in k + 1 .. NAddrs}
Freeing(w, k, v, B, J, S, q) ==
  /\ w.ino = v.ino /\ Map(w.blk, B) = S
  /\ \E Q : /\ Sound(w, B, J, Q, ToFree(k, q))
            /\ \A x \in k + 1 .. NAddrs : q[x] # 0 => Fresh(S, Q, q[x])

(* One address more.                                                         *)
LEMMA FreeingStep ==
  ASSUME GarbageAssumption, NEW v, NEW B, NEW J, NEW S, NEW q,
         \A x, y \in 1 .. NAddrs : q[x] # 0 /\ q[x] = q[y] => x = y,
         NEW k \in 1 .. NAddrs, NEW w, Freeing(w, k - 1, v, B, J, S, q)
  PROVE  Freeing(BfreeAny(w, q[k]), k, v, B, J, S, q)
<1> DEFINE b == q[k]
           u == BfreeAny(w, b)
<1>1. PICK Q : /\ Sound(w, B, J, Q, ToFree(k - 1, q))
               /\ \A x \in (k - 1) + 1 .. NAddrs : q[x] # 0 => Fresh(S, Q, q[x])
  BY DEF Freeing
<1>2. w.ino = v.ino /\ Map(w.blk, B) = S
  BY DEF Freeing
<1>3. NAddrs \in Nat /\ (k - 1) + 1 = k
  BY Numbers DEF NAddrs
<1>6. Keeps(ToFree(k, q), ToFree(k - 1, q), b)
  <2>1. \A x \in (k - 1) + 1 .. NAddrs : x = k \/ x \in k + 1 .. NAddrs
    BY <1>3
  <2> QED BY <2>1 DEF Keeps, ToFree
<1>4. CASE b = 0
  <2>1. u = w
    BY <1>4 DEF BfreeAny
  <2>2. \A x \in k + 1 .. NAddrs : q[x] # 0 => Fresh(S, Q, q[x])
    BY <1>1, <1>3
  <2>3. Sound(w, B, J, Q, ToFree(k, q))
    BY <1>1, <1>4, <1>6, NoneAtHand
  <2> QED BY <1>1, <1>2, <2>1, <2>2, <2>3 DEF Freeing
<1>5. CASE b # 0
  <2>1. u = Bfree(w, b)
    BY <1>5 DEF BfreeAny
  <2>2. Fresh(S, Q, b)
    BY <1>1, <1>3, <1>5
  <2>3. \A x \in k + 1 .. NAddrs : q[x] # 0 => Fresh(S, Q, q[x]) /\ q[x] # b
    BY <1>1, <1>3, <1>5
  <2> HIDE DEF b, u
  <2>4. Sound(u, B, J, Q \cup {b}, ToFree(k, q)) /\ u.ino = w.ino /\ Map(u.blk, B) = S
    <3> DEFINE H == ToFree(k - 1, q)
               G == ToFree(k, q)
    <3>1. Sound(w, B, J, Q, H) /\ Fresh(Map(w.blk, B), Q, b) /\ Keeps(G, H, b)
      BY <1>1, <1>2, <1>6, <2>2 DEF b
    <3> HIDE DEF H, G
    <3>2. Sound(u, B, J, Q \cup {b}, G) /\ u.ino = w.ino /\ Map(u.blk, B) = Map(w.blk, B)
      BY <2>1, <3>1, BfreeSound
    <3> QED BY <1>2, <3>2 DEF G
  <2>5. \A x \in k + 1 .. NAddrs : q[x] # 0 => Fresh(S, Q \cup {b}, q[x])
    BY <2>3 DEF Fresh
  <2>6. Freeing(u, k, v, B, J, S, q)
    BY <1>2, <2>4, <2>5 DEF Freeing
  <2> QED BY <2>6 DEF u, b
<1> QED BY <1>4, <1>5

(* ifree_blocks of inode i, which gives up its addresses.                    *)
LEMMA IfreeSound ==
  ASSUME GarbageAssumption, NEW v, NEW A, NEW K, NEW P, Sound(v, A, K, P, {}),
         NEW i \in Ino, NEW w, w = IfreeBlocks(v, A[i]),
         NEW B, Readdressed(B, A, i, NoAddr),
         NEW J, \A j \in Ino : j # i => J[j] = K[j]
  PROVE  w.ino = v.ino /\ \E Q : Sound(w, B, J, Q, {})
<1> DEFINE R == Map(v.blk, A)
           S == Map(v.blk, B)
           q == AddrsOf(v, A[i])
           n == NAddrs
<1>1. PICK r : /\ r[0] = v
               /\ \A k \in 1 .. n : r[k] = BfreeAny(r[k - 1], q[k])
               /\ w = r[n]
  BY IfreeRun
<1>3. Apart(R, P) /\ A \in [Ino -> Addrs0] /\ Indirects(v.blk, A)
  BY DEF Sound, Owns
<1>4. \A x \in 1 .. n : AddrPlace(x) \in Places /\ q[x] = R[i][AddrPlace(x)]
  <2> SUFFICES ASSUME NEW x \in 1 .. n
               PROVE  AddrPlace(x) \in Places /\ q[x] = R[i][AddrPlace(x)]
    OBVIOUS
  <2>1. q[x] = Ref(v.blk, A[i], AddrPlace(x))
    BY AddrRef
  <2>2. AddrPlace(x) \in Places
    BY AddrPlaces
  <2> QED BY <2>1, <2>2 DEF Map
<1>5. \A x, y \in 1 .. n : AddrPlace(x) = AddrPlace(y) => x = y
  BY AddrPlaces
<1>6. \A p \in Places : R[i][p] \in Blk0
  BY <1>3, RefType
<1>7. n \in Nat
  BY Numbers DEF NAddrs
<1>14. \A p \in Places : Loosens(ToFree(0, q), R, i, p)
  <2> SUFFICES ASSUME NEW p \in Places PROVE Tag(R[i][p]) \in ToFree(0, q)
    BY DEF Loosens
  <2>1. PICK x \in 1 .. n : AddrPlace(x) = p
    BY PlaceAddrs
  <2>2. q[x] = R[i][p] /\ x \in 0 + 1 .. NAddrs
    BY <1>4, <2>1
  <2> QED BY <2>2 DEF ToFree
<1>2. /\ Sound(v, B, J, P, ToFree(0, q))
      /\ \A j \in Ino : \A p \in Places : S[j][p] = IF j = i THEN 0 ELSE R[j][p]
  <2> DEFINE H == {}
             G == ToFree(0, q)
  <2>2. Sound(v, A, K, P, H) /\ H \subseteq G
        /\ \A p \in Places : Loosens(G, Map(v.blk, A), i, p)
    BY <1>14
  <2> HIDE DEF R, S, H, G
  <2>1. /\ Sound(v, B, J, P, G)
        /\ \A j \in Ino : \A p \in Places :
             Map(v.blk, B)[j][p] = IF j = i THEN 0 ELSE Map(v.blk, A)[j][p]
    BY <2>2, DropSound
  <2> QED BY <2>1 DEF R, S, G
<1> HIDE DEF R, S, q
<1>8. \A x, y \in 1 .. n : q[x] # 0 /\ q[x] = q[y] => x = y
  BY <1>3, <1>4, <1>5 DEF Apart
<1>9. \A x \in 1 .. n : q[x] # 0 => Fresh(S, P, q[x])
  <2> SUFFICES ASSUME NEW x \in 1 .. n, q[x] # 0 PROVE Fresh(S, P, q[x])
    OBVIOUS
  <2>1. q[x] \in Block
    BY <1>4, <1>6 DEF Blk0
  <2>2. q[x] \notin P
    BY <1>3, <1>4 DEF Apart
  <2>3. \A j \in Ino : \A p \in Places : R[j][p] = q[x] => j = i
    BY <1>3, <1>4 DEF Apart
  <2> QED BY <1>2, <2>1, <2>2, <2>3 DEF Fresh
<1> DEFINE T == {k \in 0 .. n : Freeing(r[k], k, v, B, J, S, q)}
<1>10. 0 \in T
  <2>1. \A x \in 0 + 1 .. NAddrs : q[x] # 0 => Fresh(S, P, q[x])
    BY <1>7, <1>9
  <2>2. Freeing(v, 0, v, B, J, S, q)
    BY <1>2, <2>1 DEF Freeing, S
  <2> QED BY <1>1, <1>7, <2>2
<1>11. ASSUME NEW k \in 1 .. n, k - 1 \in T PROVE k \in T
  <2>1. Freeing(r[k - 1], k - 1, v, B, J, S, q) /\ k \in 0 .. n
    BY <1>7, <1>11
  <2>2. Freeing(BfreeAny(r[k - 1], q[k]), k, v, B, J, S, q)
    BY <1>8, <2>1, FreeingStep
  <2> QED BY <1>1, <2>1, <2>2
<1>12. n \in T
  <2> HIDE DEF T, n
  <2> QED BY <1>7, <1>10, <1>11, Frees!UpTo
<1>13. Freeing(w, n, v, B, J, S, q)
  BY <1>1, <1>12
<1>15. ToFree(n, q) = {}
  BY <1>7 DEF ToFree
<1> QED BY <1>13, <1>15 DEF Freeing

(* The volume and the addresses of inode i in the middle of a truncate.      *)
Cutting(r, v, A, K, i) ==
  /\ r = [v |-> r.v, addr |-> r.addr] /\ r.v.ino = v.ino
  /\ \E B, Q : Readdressed(B, A, i, r.addr) /\ Sound(r.v, B, K, Q, {})

(* One block more.                                                           *)
LEMMA CuttingStep ==
  ASSUME GarbageAssumption, NEW v, NEW A \in [Ino -> Addrs0], NEW K, NEW i \in Ino,
         NEW r, Cutting(r, v, A, K, i), NEW l \in Nat
  PROVE  Cutting(BfreeAt(r, l), v, A, K, i)
<1> DEFINE m == BfreeAt(r, l)
<1>1. PICK B, Q : Readdressed(B, A, i, r.addr) /\ Sound(r.v, B, K, Q, {})
  BY DEF Cutting
<1>2. B[i] = r.addr /\ r.v.ino = v.ino /\ r = [v |-> r.v, addr |-> r.addr]
  BY <1>1 DEF Readdressed, Cutting
<1> DEFINE u == r.v
           C == [A EXCEPT ![i] = m.addr]
<1>3. m = BfreeAt([v |-> u, addr |-> B[i]], l)
  BY <1>2
<1>4. Readdressed(C, B, i, m.addr) /\ Readdressed(C, A, i, m.addr)
  <2>1. [B EXCEPT ![i] = m.addr] = C
    BY <1>1 DEF Readdressed
  <2> QED BY <2>1 DEF Readdressed
<1> HIDE DEF m, C
<1>5. /\ m = [v |-> m.v, addr |-> m.addr] /\ m.v.ino = u.ino
      /\ \E q : Sound(m.v, C, K, q, {})
  <2>1. Sound(u, B, K, Q, {})
    BY <1>1
  <2> HIDE DEF u
  <2> QED BY <1>3, <1>4, <2>1, BfreeAtSound
<1>6. Cutting(m, v, A, K, i)
  BY <1>2, <1>4, <1>5 DEF Cutting
<1> QED BY <1>6 DEF m

(* The fold of a truncate over the n file blocks q.                          *)
LEMMA CutSound ==
  ASSUME GarbageAssumption, NEW v, NEW A, NEW K, NEW P, Sound(v, A, K, P, {}),
         NEW i \in Ino, NEW n \in Nat, NEW q \in [1 .. n -> Nat],
         NEW r, r = FoldLeft(BfreeAt, [v |-> v, addr |-> A[i]], q)
  PROVE  Cutting(r, v, A, K, i)
<1> DEFINE base == [v |-> v, addr |-> A[i]]
<1>1. DOMAIN q = 1 .. n
  OBVIOUS
<1>2. FoldLeft(BfreeAt, base, q) = Cuts!Left(0, base, q, n)
  BY <1>1 DEF FoldLeft, MapThenFoldSet, Max, Cuts!Left, Cuts!Leftmost, CutOp
<1>3. A \in [Ino -> Addrs0]
  BY DEF Sound, Owns
<1>4. Cutting(base, v, A, K, i)
  <2>1. Readdressed(A, A, i, base.addr)
    BY <1>3 DEF Readdressed
  <2> QED BY <2>1 DEF Cutting
<1> HIDE DEF base
<1>5. PICK s : Cuts!IsRun(s, 0, base, q, n) /\ Cuts!Left(0, base, q, n) = s[n]
  BY Cuts!LeftRun
<1> DEFINE T == {k \in 0 .. n : Cutting(s[k], v, A, K, i)}
<1>6. 0 \in T
  BY <1>4, <1>5 DEF Cuts!IsRun
<1>7. ASSUME NEW k \in 1 .. n, k - 1 \in T PROVE k \in T
  <2>1. Cutting(s[k - 1], v, A, K, i) /\ k \in 0 .. n /\ q[k] \in Nat
    BY <1>7
  <2>2. s[k] = BfreeAt(s[k - 1], q[k])
    BY <1>5 DEF Cuts!IsRun, CutOp
  <2> QED BY <1>3, <2>1, <2>2, CuttingStep
<1>8. n \in T
  <2> HIDE DEF T
  <2> QED BY <1>6, <1>7, Cuts!UpTo
<1> QED BY <1>2, <1>5, <1>8 DEF base

-------------------------------------------------------------------------------
(* A list of the terminator alone has no block.                              *)
LEMMA EmptyListed ==
  ASSUME NEW blk
  PROVE  Listed(blk, 1, NoCache, 0, {})
<1>1. L!Chain(Pieces(blk), 1, NoCache, 0, << >>, {})
  <2>1. NoCache[0] = 0
    BY Numbers DEF NoCache
  <2> QED BY <2>1, ListConstants, L!EmptyChain
<1>2. NoCache = [s \in 0 .. NICFREE - 1 |-> NoCache[s]]
  BY DEF NoCache
<1> QED BY <1>1, <1>2, FreeCount DEF Listed

(* What the formatter starts from: no inode has an address, every block is zero
   and at hand, and the list has nothing but its terminator.                 *)
LEMMA BlankSound ==
  ASSUME GarbageAssumption, NEW v, Live(v), v.nfree = 1, v.free = NoCache, v.tfree = 0,
         v.blk = [b \in Block |-> Zero],
         NEW A, A = [i \in Ino |-> NoAddr], NEW K
  PROVE  Sound(v, A, K, {}, {Tag(b) : b \in Block})
<1>1. NoAddr \in Addrs0 /\ NoAddr[LADDR] = 0
  BY Numbers DEF NoAddr, Addrs0, Blk0
<1>2. A \in [Ino -> Addrs0] /\ Indirects(v.blk, A)
  BY <1>1 DEF Indirects
<1>3. \A i \in Ino : \A p \in Places : Map(v.blk, A)[i][p] = 0
  BY <1>1, Numbers DEF Map, Ref, NoAddr, Places
<1>4. Owns(v.blk, A, {})
  BY <1>2, <1>3 DEF Owns, Apart
<1>5. \A H : Fits(v.blk, Map(v.blk, A), K, H)
  BY <1>3, Numbers DEF Fits
<1>10. Whole(Map(v.blk, A), {}, {Tag(b) : b \in Block})
  BY DEF Whole, Fresh
<1>6. \A b \in Block : BlkOk(v.blk[b])
  BY BlksOk
<1>9. Listed(v.blk, v.nfree, v.free, v.tfree, {})
  BY EmptyListed
<1> QED BY <1>4, <1>5, <1>6, <1>9, <1>10 DEF Sound
===============================================================================
