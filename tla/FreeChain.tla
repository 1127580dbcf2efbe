------------------------------ MODULE FreeChain ------------------------------
(***************************************************************************)
(* The chained free list as a value, apart from any handle: what popping   *)
(* an entry, reloading, pushing and spilling do to it, that fsck's walk    *)
(* ends on any image, and that it accepts a well-formed list.              *)
(***************************************************************************)
EXTENDS FsckWalk, FiniteSetTheorems, TLAPS

(* What is assumed of the constants, a hypothesis of each lemma.            *)
ChainConstants ==
  /\ NICFREE \in Nat \ {0}
  /\ 0 \notin Block /\ IsFiniteSet(Block)

Slots == 0 .. NICFREE - 1

(* Segment k of a list of m spilled caches q, oldest first, under the cache
   free, and which of its slots are in use.                                 *)
Seg(free, m, q, k) == IF k <= m THEN q[k] ELSE free
Used(nfree, m, k, i) == k \in 1 .. m + 1 /\ i \in Slots /\ (k = m + 1 => i < nfree)

(* free, of which nfree slots are in use, and the caches q chained under it
   are a list of exactly the blocks P: each spilled cache is on disk, whole, in
   the block that slot 0 of the next one names; no block is listed twice; the
   terminator is at the bottom and nowhere else.                            *)
OnDisk(disk, free, m, q) ==
  \A k \in 1 .. m : LET b == Seg(free, m, q, k + 1)[0]
                    IN disk[b].nfree = NICFREE /\ disk[b].free = q[k]
Once(nfree, free, m, q) ==
  \A k, j \in 1 .. m + 1 : \A i, h \in Slots :
    /\ Used(nfree, m, k, i) /\ Used(nfree, m, j, h)
    /\ Seg(free, m, q, k)[i] = Seg(free, m, q, j)[h]
    => k = j /\ i = h
Bottom(nfree, free, m, q) ==
  \A k \in 1 .. m + 1 : \A i \in Slots :
    Used(nfree, m, k, i) => (Seg(free, m, q, k)[i] = 0 <=> k = 1 /\ i = 0)
Lists(nfree, free, m, q, P) ==
  /\ P \subseteq Block
  /\ \A k \in 1 .. m + 1 : \A i \in Slots :
       Used(nfree, m, k, i) => Seg(free, m, q, k)[i] \in P \cup {0}
  /\ \A b \in P : \E k \in 1 .. m + 1 : \E i \in Slots :
       Used(nfree, m, k, i) /\ Seg(free, m, q, k)[i] = b
Chain(disk, nfree, free, m, q, P) ==
  /\ m \in Nat /\ nfree \in 1 .. NICFREE
  /\ OnDisk(disk, free, m, q)
  /\ Once(nfree, free, m, q)
  /\ Bottom(nfree, free, m, q)
  /\ Lists(nfree, free, m, q, P)

-------------------------------------------------------------------------------
(* The entry at the top is a listed block, or the list is empty.            *)
LEMMA Top ==
  ASSUME ChainConstants, NEW disk, NEW nfree, NEW free, NEW m, NEW q, NEW P,
         Chain(disk, nfree, free, m, q, P)
  PROVE  /\ free[nfree - 1] # 0 => free[nfree - 1] \in P
         /\ free[nfree - 1] = 0 => nfree = 1 /\ m = 0 /\ P = {}
         /\ nfree = 1 /\ free[0] # 0 => m > 0
<1>1. /\ Used(nfree, m, m + 1, nfree - 1) /\ Seg(free, m, q, m + 1) = free
      /\ m + 1 \in 1 .. m + 1 /\ nfree - 1 \in Slots
  BY DEF Chain, Used, Seg, Slots, ChainConstants
<1>2. free[nfree - 1] # 0 => free[nfree - 1] \in P
  BY <1>1 DEF Chain, Lists
<1>3. free[nfree - 1] = 0 <=> m + 1 = 1 /\ nfree - 1 = 0
  BY <1>1 DEF Chain, Bottom
<1>4. ASSUME free[nfree - 1] = 0 PROVE P = {}
  <2>1. nfree = 1 /\ m = 0
    BY <1>3, <1>4 DEF Chain
  <2>2. \A k \in 1 .. m + 1 : \A i \in Slots : Used(nfree, m, k, i) => k = 1 /\ i = 0
    BY <2>1 DEF Used, Slots
  <2>3. \A b \in P : b = 0
    BY <2>2 DEF Chain, Lists, Bottom
  <2> QED BY <2>3 DEF Chain, Lists, ChainConstants
<1> QED BY <1>2, <1>3, <1>4 DEF Chain

(* An entry popped, others left below it in the cache.                      *)
LEMMA PopChain ==
  ASSUME ChainConstants, NEW disk, NEW nfree, NEW free, NEW m, NEW q, NEW P,
         Chain(disk, nfree, free, m, q, P), nfree > 1
  PROVE  Chain(disk, nfree - 1, free, m, q, P \ {free[nfree - 1]})
<1>1. /\ Used(nfree, m, m + 1, nfree - 1) /\ Seg(free, m, q, m + 1) = free
      /\ m + 1 \in 1 .. m + 1 /\ nfree - 1 \in Slots
      /\ nfree - 1 \in 1 .. NICFREE
  BY DEF Chain, Used, Seg, Slots, ChainConstants
<1>2. \A k \in 1 .. m + 1 : \A i \in Slots :
        Used(nfree - 1, m, k, i) <=> Used(nfree, m, k, i) /\ ~(k = m + 1 /\ i = nfree - 1)
  BY <1>1 DEF Used, Slots, Chain
<1>3. Once(nfree - 1, free, m, q) /\ Bottom(nfree - 1, free, m, q)
  BY <1>2 DEF Chain, Once, Bottom
<1>4. Lists(nfree - 1, free, m, q, P \ {free[nfree - 1]})
  BY <1>1, <1>2 DEF Chain, Once, Lists
<1> QED BY <1>1, <1>3, <1>4 DEF Chain

(* The last entry of the cache popped, the cache reloaded from that block.  *)
LEMMA ReloadChain ==
  ASSUME ChainConstants, NEW disk, NEW free, NEW m, NEW q, NEW P,
         Chain(disk, 1, free, m, q, P), free[0] # 0
  PROVE  /\ m > 0 /\ disk[free[0]].nfree = NICFREE /\ disk[free[0]].free = q[m]
         /\ Chain(disk, NICFREE, q[m], m - 1, q, P \ {free[0]})
<1>1. m \in Nat /\ m > 0
  BY Top DEF Chain
<1>2. disk[free[0]].nfree = NICFREE /\ disk[free[0]].free = q[m]
  <2>1. m \in 1 .. m /\ Seg(free, m, q, m + 1) = free
    BY <1>1 DEF Seg
  <2> QED BY <2>1 DEF Chain, OnDisk
<1>3. \A k \in 1 .. m : Seg(q[m], m - 1, q, k) = Seg(free, m, q, k) /\ k \in 1 .. m + 1
  BY <1>1 DEF Seg
<1>4. \A k \in 1 .. m + 1 : \A i \in Slots :
        Used(1, m, k, i) <=> (k \in 1 .. m /\ Used(NICFREE, m - 1, k, i)) \/ (k = m + 1 /\ i = 0)
  BY <1>1 DEF Used, Slots, ChainConstants
<1>5. Seg(free, m, q, m + 1) = free /\ m + 1 \in 1 .. m + 1 /\ 0 \in Slots /\ (m - 1) + 1 = m
  BY <1>1 DEF Seg, Slots, ChainConstants
<1>6. OnDisk(disk, q[m], m - 1, q)
  <2> SUFFICES ASSUME NEW k \in 1 .. m - 1
               PROVE  LET b == Seg(q[m], m - 1, q, k + 1)[0]
                      IN disk[b].nfree = NICFREE /\ disk[b].free = q[k]
    BY DEF OnDisk
  <2>1. k \in 1 .. m /\ k + 1 \in 1 .. m
    BY <1>1
  <2> QED BY <1>3, <2>1 DEF Chain, OnDisk
<1>7. Once(NICFREE, q[m], m - 1, q) /\ Bottom(NICFREE, q[m], m - 1, q)
  BY <1>3, <1>4, <1>5 DEF Chain, Once, Bottom
<1>8. Lists(NICFREE, q[m], m - 1, q, P \ {free[0]})
  <2>1. \A k \in 1 .. m : \A i \in Slots :
          Used(NICFREE, m - 1, k, i) => Seg(q[m], m - 1, q, k)[i] \in (P \ {free[0]}) \cup {0}
    <3> SUFFICES ASSUME NEW k \in 1 .. m, NEW i \in Slots, Used(NICFREE, m - 1, k, i)
                 PROVE  Seg(q[m], m - 1, q, k)[i] \in (P \ {free[0]}) \cup {0}
      OBVIOUS
    <3>1. Used(1, m, k, i) /\ Used(1, m, m + 1, 0) /\ k # m + 1
      BY <1>1, <1>3, <1>4, <1>5
    <3>2. Seg(free, m, q, k)[i] \in P \cup {0} /\ Seg(free, m, q, k)[i] # free[0]
      BY <1>3, <1>5, <3>1 DEF Chain, Lists, Once
    <3> QED BY <1>3, <3>2
  <2>2. \A b \in P \ {free[0]} : \E k \in 1 .. m : \E i \in Slots :
          Used(NICFREE, m - 1, k, i) /\ Seg(q[m], m - 1, q, k)[i] = b
    <3> SUFFICES ASSUME NEW b \in P \ {free[0]}
                 PROVE  \E k \in 1 .. m : \E i \in Slots :
                          Used(NICFREE, m - 1, k, i) /\ Seg(q[m], m - 1, q, k)[i] = b
      OBVIOUS
    <3>1. PICK k \in 1 .. m + 1, i \in Slots :
                 Used(1, m, k, i) /\ Seg(free, m, q, k)[i] = b
      BY DEF Chain, Lists
    <3>2. ~(k = m + 1 /\ i = 0)
      BY <1>5, <3>1
    <3>3. k \in 1 .. m /\ Used(NICFREE, m - 1, k, i)
      BY <1>4, <3>1, <3>2
    <3> QED BY <1>3, <3>1, <3>3
  <2> QED BY <1>5, <2>1, <2>2 DEF Chain, Lists
<1>9. NICFREE \in 1 .. NICFREE /\ m - 1 \in Nat
  BY <1>1 DEF ChainConstants
<1> QED BY <1>1, <1>2, <1>6, <1>7, <1>8, <1>9 DEF Chain

(* The terminator alone.                                                    *)
LEMMA EmptyChain ==
  ASSUME ChainConstants, NEW disk, NEW free, free[0] = 0, NEW q
  PROVE  Chain(disk, 1, free, 0, q, {})
<1>1. \A k \in 1 .. 0 + 1 : \A i \in Slots :
        /\ k = 1 /\ Seg(free, 0, q, k) = free
        /\ Used(1, 0, k, i) => i = 0
  BY DEF Used, Slots, Seg
<1>2. 1 .. 0 = {} /\ 1 \in 1 .. NICFREE
  BY DEF ChainConstants
<1> QED BY <1>1, <1>2 DEF Chain, OnDisk, Once, Bottom, Lists

(* A write to any block that is not listed.                                 *)
LEMMA FrameChain ==
  ASSUME ChainConstants, NEW disk, NEW nfree, NEW free, NEW m, NEW q, NEW P,
         Chain(disk, nfree, free, m, q, P),
         NEW other, \A b \in P : other[b] = disk[b]
  PROVE  Chain(other, nfree, free, m, q, P)
<1>1. ASSUME NEW k \in 1 .. m PROVE Seg(free, m, q, k + 1)[0] \in P
  <2>1. k + 1 \in 1 .. m + 1 /\ 0 \in Slots /\ Used(nfree, m, k + 1, 0) /\ k + 1 # 1
    BY DEF Chain, Used, Slots, ChainConstants
  <2> QED BY <2>1 DEF Chain, Lists, Bottom
<1>2. OnDisk(other, free, m, q)
  BY <1>1 DEF Chain, OnDisk
<1> QED BY <1>2 DEF Chain

(* A block pushed into a cache that has room.                               *)
LEMMA PushChain ==
  ASSUME ChainConstants, NEW disk, NEW nfree, NEW free, NEW m, NEW q, NEW P,
         Chain(disk, nfree, free, m, q, P), nfree < NICFREE,
         NEW b \in Block \ P, NEW new, new[nfree] = b,
         \A i \in 0 .. nfree - 1 : new[i] = free[i]
  PROVE  Chain(disk, nfree + 1, new, m, q, P \cup {b})
<1>1. /\ m \in Nat /\ nfree \in 1 .. NICFREE /\ nfree \in Slots /\ nfree + 1 \in 1 .. NICFREE
      /\ m + 1 \in 1 .. m + 1 /\ b # 0
  BY DEF Chain, Slots, ChainConstants
<1>2. \A k \in 1 .. m + 1 : \A i \in Slots :
        Used(nfree + 1, m, k, i) <=> Used(nfree, m, k, i) \/ (k = m + 1 /\ i = nfree)
  BY <1>1 DEF Used, Slots
<1>3. ASSUME NEW k \in 1 .. m + 1, NEW i \in Slots, Used(nfree, m, k, i)
      PROVE  /\ Seg(new, m, q, k)[i] = Seg(free, m, q, k)[i]
             /\ Seg(free, m, q, k)[i] # b
             /\ ~(k = m + 1 /\ i = nfree)
  <2>1. Seg(new, m, q, k)[i] = Seg(free, m, q, k)[i] /\ ~(k = m + 1 /\ i = nfree)
    BY <1>1, <1>3 DEF Used, Slots, Seg
  <2> QED BY <2>1, <1>1, <1>3 DEF Chain, Lists
<1>4. Seg(new, m, q, m + 1)[nfree] = b
  BY <1>1 DEF Seg
<1>5. \A k \in 1 .. m : Seg(new, m, q, k + 1)[0] = Seg(free, m, q, k + 1)[0]
  BY <1>1 DEF Seg
<1>6. OnDisk(disk, new, m, q)
  BY <1>5 DEF Chain, OnDisk
<1>7. Once(nfree + 1, new, m, q)
  BY <1>2, <1>3, <1>4 DEF Chain, Once
<1>8. Bottom(nfree + 1, new, m, q)
  BY <1>1, <1>2, <1>3, <1>4 DEF Chain, Bottom
<1>9. Lists(nfree + 1, new, m, q, P \cup {b})
  <2>1. \A k \in 1 .. m + 1 : \A i \in Slots :
          Used(nfree + 1, m, k, i) => Seg(new, m, q, k)[i] \in (P \cup {b}) \cup {0}
    BY <1>2, <1>3, <1>4 DEF Chain, Lists
  <2>2. \A c \in P \cup {b} : \E k \in 1 .. m + 1 : \E i \in Slots :
          Used(nfree + 1, m, k, i) /\ Seg(new, m, q, k)[i] = c
    BY <1>1, <1>2, <1>3, <1>4 DEF Chain, Lists
  <2> QED BY <2>1, <2>2 DEF Chain, Lists
<1> QED BY <1>1, <1>6, <1>7, <1>8, <1>9 DEF Chain

(* A full cache spilled into the block being freed, which then is alone in
   the cache.                                                               *)
Spilled(free, m, q) == [k \in 1 .. m + 1 |-> IF k <= m THEN q[k] ELSE free]

(* A block freed over a full cache, which goes whole into that block.        *)
LEMMA SpillChain ==
  ASSUME ChainConstants, NEW disk, NEW free, NEW m, NEW q, NEW P,
         Chain(disk, NICFREE, free, m, q, P),
         NEW b \in Block \ P, NEW new, new[0] = b,
         NEW other, \A c \in P : other[c] = disk[c],
         other[b].nfree = NICFREE, other[b].free = free
  PROVE  Chain(other, 1, new, m + 1, Spilled(free, m, q), P \cup {b})
<1> DEFINE r == Spilled(free, m, q)
<1>1. /\ m \in Nat /\ m + 1 \in Nat /\ 1 \in 1 .. NICFREE /\ 0 \in Slots /\ b # 0
      /\ m + 2 \in 1 .. (m + 1) + 1
  BY DEF Chain, Slots, ChainConstants
<1>2. \A k \in 1 .. m + 1 : Seg(new, m + 1, r, k) = Seg(free, m, q, k) /\ k \in 1 .. (m + 1) + 1
  BY <1>1 DEF Seg, Spilled
<1>3. Seg(new, m + 1, r, m + 2) = new
  BY <1>1 DEF Seg
<1> HIDE DEF r
<1>4. \A k \in 1 .. (m + 1) + 1 : \A i \in Slots :
        Used(1, m + 1, k, i) <=>
          (k \in 1 .. m + 1 /\ Used(NICFREE, m, k, i)) \/ (k = m + 2 /\ i = 0)
  BY <1>1 DEF Used, Slots, ChainConstants
<1>5. \A k \in 1 .. m + 1 : \A i \in Slots :
        Used(NICFREE, m, k, i) => Seg(free, m, q, k)[i] # b
  BY <1>1 DEF Chain, Lists
<1>6. OnDisk(other, new, m + 1, r)
  <2> SUFFICES ASSUME NEW k \in 1 .. m + 1
               PROVE  LET c == Seg(new, m + 1, r, k + 1)[0]
                      IN other[c].nfree = NICFREE /\ other[c].free = r[k]
    BY DEF OnDisk
  <2>1. CASE k = m + 1
    <3>1. Seg(new, m + 1, r, k + 1)[0] = b /\ r[k] = free
      BY <1>1, <1>3, <2>1 DEF r, Spilled
    <3> QED BY <3>1
  <2>2. CASE k \in 1 .. m
    <3>1. k + 1 \in 1 .. m + 1 /\ r[k] = q[k]
      BY <1>1, <2>2 DEF r, Spilled
    <3>2. Chain(other, NICFREE, free, m, q, P)
      BY FrameChain
    <3>3. LET c == Seg(free, m, q, k + 1)[0]
          IN other[c].nfree = NICFREE /\ other[c].free = q[k]
      BY <2>2, <3>2 DEF Chain, OnDisk
    <3> QED BY <1>2, <3>1, <3>3
  <2> QED BY <1>1, <2>1, <2>2
<1>7. Once(1, new, m + 1, r)
  <2> SUFFICES ASSUME NEW k \in 1 .. (m + 1) + 1, NEW j \in 1 .. (m + 1) + 1,
                      NEW i \in Slots, NEW h \in Slots,
                      Used(1, m + 1, k, i), Used(1, m + 1, j, h),
                      Seg(new, m + 1, r, k)[i] = Seg(new, m + 1, r, j)[h]
               PROVE  k = j /\ i = h
    BY DEF Once
  <2>1. CASE k \in 1 .. m + 1 /\ j \in 1 .. m + 1
    <3>1. Used(NICFREE, m, k, i) /\ Used(NICFREE, m, j, h)
      BY <1>1, <1>4, <2>1
    <3> QED BY <1>2, <2>1, <3>1 DEF Chain, Once
  <2>2. CASE k \in 1 .. m + 1 /\ j = m + 2
    <3>1. Used(NICFREE, m, k, i) /\ h = 0
      BY <1>1, <1>4, <2>2
    <3> QED BY <1>2, <1>3, <1>5, <2>2, <3>1
  <2>3. CASE k = m + 2 /\ j \in 1 .. m + 1
    <3>1. Used(NICFREE, m, j, h) /\ i = 0
      BY <1>1, <1>4, <2>3
    <3> QED BY <1>2, <1>3, <1>5, <2>3, <3>1
  <2>4. CASE k = m + 2 /\ j = m + 2
    BY <1>1, <1>4, <2>4
  <2> QED BY <1>1, <2>1, <2>2, <2>3, <2>4
<1>8. Bottom(1, new, m + 1, r)
  BY <1>1, <1>2, <1>3, <1>4 DEF Chain, Bottom
<1>9. Lists(1, new, m + 1, r, P \cup {b})
  <2>1. \A k \in 1 .. (m + 1) + 1 : \A i \in Slots :
          Used(1, m + 1, k, i) => Seg(new, m + 1, r, k)[i] \in (P \cup {b}) \cup {0}
    BY <1>2, <1>3, <1>4 DEF Chain, Lists
  <2>2. ASSUME NEW c \in P
        PROVE  \E k \in 1 .. (m + 1) + 1 : \E i \in Slots :
                 Used(1, m + 1, k, i) /\ Seg(new, m + 1, r, k)[i] = c
    <3>1. PICK k \in 1 .. m + 1, i \in Slots :
                 Used(NICFREE, m, k, i) /\ Seg(free, m, q, k)[i] = c
      BY DEF Chain, Lists
    <3> QED BY <1>2, <1>4, <3>1
  <2>3. Used(1, m + 1, m + 2, 0) /\ Seg(new, m + 1, r, m + 2)[0] = b
    BY <1>1, <1>3, <1>4
  <2> QED BY <1>1, <2>1, <2>2, <2>3 DEF Chain, Lists
<1> QED BY <1>1, <1>6, <1>7, <1>8, <1>9 DEF Chain, r

-------------------------------------------------------------------------------
(* The walk of fsck as a run: r[k] is the walker after k turns.             *)
TurnOp(p, w, x) == Turn(p.disk, p.used, w)
Runs == INSTANCE FoldRuns WITH Op <- TurnOp


(* Max picks the greatest of every nonempty set of indices.                  *)
LEMMA MaxPicks ==
  ASSUME NEW n \in Nat
  PROVE  Runs!Picks([s \in SUBSET (1 .. n) |-> Max(s)], n)
<1>1. ASSUME NEW s \in SUBSET (1 .. n), s # {}
      PROVE  Max(s) \in s /\ \A y \in s : Max(s) >= y
  BY <1>1, Runs!Greatest DEF Max
<1> QED BY <1>1 DEF Runs!Picks

(* The number of turns is a number.                                          *)
LEMMA TurnsType ==
  ASSUME ChainConstants
  PROVE  Turns \in Nat /\ Cardinality(Block) \in Nat
<1>1. Cardinality(Block) \in Nat
  BY FS_CardinalityType DEF ChainConstants
<1>2. \A a, b \in Nat : (a + 1) * b + 1 \in Nat
  OBVIOUS
<1> QED BY <1>1, <1>2 DEF Turns, ChainConstants

(* The walker before its first turn.                                         *)
Start(sb) == [nfree |-> ClampNfree(sb.nfree), free |-> sb.free,
              seen |-> {}, errs |-> {}, done |-> FALSE]

(* Walk is what the turns lead to, one after the other.                     *)
LEMMA WalkRun ==
  ASSUME ChainConstants, NEW disk, NEW used, NEW sb
  PROVE  \E r : /\ r[0] = Start(sb)
                /\ \A k \in 1 .. Turns : r[k] = Turn(disk, used, r[k - 1])
                /\ Walk(disk, used, sb) = r[Turns]
<1> DEFINE p == [disk |-> disk, used |-> used]
           q == [x \in 1 .. Turns |-> x]
           mx == [s \in SUBSET (1 .. Turns) |-> Max(s)]
           Body(f) == [s \in SUBSET (1 .. Turns) |->
                         IF s = {} THEN Start(sb) ELSE Turn(disk, used, f[s \ {Max(s)}])]
           it == CHOOSE f : f = Body(f)
<1> USE TurnsType
<1>1. Runs!Picks(mx, Turns)
  BY MaxPicks
<1>2. \A f : Runs!Folded(f, p, Start(sb), q, mx, Turns) <=> f = Body(f)
  BY DEF Runs!Folded, TurnOp
<1>3. it = Body(it)
  <2> HIDE DEF Body, p, q, mx
  <2> QED BY <1>1, <1>2, Runs!FoldedExists
<1>4. Walk(disk, used, sb) = it[1 .. Turns]
  BY DEF Walk, FoldLeft, MapThenFoldSet, Start
<1> HIDE DEF it
<1>5. Runs!Folded(it, p, Start(sb), q, mx, Turns)
  BY <1>2, <1>3
<1>6. PICK r : Runs!IsRun(r, p, Start(sb), q, Turns) /\ it[1 .. Turns] = r[Turns]
  <2> HIDE DEF p, q, mx
  <2> QED BY <1>1, <1>5, Runs!RunOfFolded
<1> QED BY <1>4, <1>6 DEF TurnOp, Runs!IsRun

(* A walker inside the loop: its copy of the cache is in range, and the turns
   taken are paid for by the caches loaded so far.                          *)
IsWalker(w) ==
  w = [nfree |-> w.nfree, free |-> w.free, seen |-> w.seen, errs |-> w.errs,
       done |-> w.done]
Inside(w, k) ==
  /\ IsWalker(w) /\ ~w.done /\ w.nfree \in 0 .. NICFREE /\ w.seen \in SUBSET Block
  /\ k + w.nfree <= (Cardinality(w.seen) + 1) * NICFREE

(* What popping an entry does to the walker.                                 *)
LEMMA PoppedWalker ==
  ASSUME NEW w, IsWalker(w), NEW errs
  PROVE  LET y == Popped(w, errs)
         IN /\ IsWalker(y) /\ y.done = w.done /\ y.nfree = w.nfree - 1
            /\ y.free = w.free /\ y.seen = w.seen /\ y.errs = w.errs \cup errs
<1>1. PICK n, f, s, e, d :
        w = [nfree |-> n, free |-> f, seen |-> s, errs |-> e, done |-> d]
  BY DEF IsWalker
<1> DEFINE a == n - 1
           g == e \cup errs
           x == [nfree |-> a, free |-> f, seen |-> s, errs |-> e, done |-> d]
<1>2. Popped(w, errs) = [w EXCEPT !.nfree = a, !.errs = g]
  BY <1>1 DEF Popped
<1> HIDE DEF a, g
<1>3. [w EXCEPT !.nfree = a, !.errs = g] = [[w EXCEPT !.nfree = a] EXCEPT !.errs = g]
  OBVIOUS
<1>4. [w EXCEPT !.nfree = a] = x
  BY <1>1
<1>5. [x EXCEPT !.errs = g] =
        [nfree |-> a, free |-> f, seen |-> s, errs |-> g, done |-> d]
  OBVIOUS
<1> QED BY <1>1, <1>2, <1>3, <1>4, <1>5 DEF IsWalker, a, g

(* A turn ends the walk or is paid for.                                      *)
LEMMA InsideOrDone ==
  ASSUME ChainConstants, NEW disk, NEW used, NEW w, NEW k \in Nat,
         \A b \in Block : disk[b].nfree \in Int, Inside(w, k)
  PROVE  \/ Turn(disk, used, w).done
         \/ Inside(Turn(disk, used, w), k + 1)
<1> DEFINE bno == w.free[w.nfree - 1]
           x == Turn(disk, used, w)
<1>1. CASE w.nfree <= 0
  BY <1>1 DEF Turn, Ended, Inside, IsWalker
<1>2. CASE w.nfree > 0 /\ bno = 0
  BY <1>2 DEF Turn, Ended, Inside, IsWalker
<1>3. CASE w.nfree > 0 /\ bno # 0 /\ bno \notin Block
  <2>1. x = Popped(w, {"range"})
    BY <1>3 DEF Turn, Inside
  <2>2. /\ IsWalker(x) /\ ~x.done /\ x.nfree = w.nfree - 1 /\ x.seen = w.seen
    BY <2>1 DEF Popped, Inside, IsWalker
  <2> HIDE DEF x
  <2>3. \A a, c \in Int : (k + 1) + (a - 1) <= c <=> k + a <= c
    OBVIOUS
  <2>4. w.nfree - 1 \in 0 .. NICFREE /\ w.nfree \in Int
    BY <1>3 DEF Inside, ChainConstants
  <2>5. Inside(x, k + 1)
    BY <1>3, <2>2, <2>4 DEF Inside
  <2> QED BY <2>5 DEF x
<1>4. CASE w.nfree > 0 /\ bno \in Block /\ bno \in w.seen
  BY <1>4 DEF Turn, Ended, Inside, IsWalker, ChainConstants
<1>5. CASE w.nfree > 0 /\ bno \in Block /\ bno \notin w.seen
  <2> DEFINE errs == IF bno \in used THEN {"free and used"} ELSE {}
             y == Popped(w, errs)
             z == IF y.nfree = 0 THEN Reloaded(y, disk[bno]) ELSE y
  <2>1. bno # 0 /\ x = Flagged(disk, y, bno)
    <3>1. bno # 0 /\ ~w.done /\ ~(w.nfree <= 0)
      BY <1>5 DEF Inside, ChainConstants
    <3> HIDE DEF y
    <3>2. y = Popped(w, errs)
      BY DEF y
    <3> QED BY <1>5, <3>1, <3>2 DEF Turn
  <2>2. /\ IsWalker(y) /\ ~y.done /\ y.nfree = w.nfree - 1 /\ y.seen = w.seen
    <3>1. IsWalker(w) /\ ~w.done
      BY DEF Inside
    <3> HIDE DEF errs
    <3> QED BY <3>1, PoppedWalker
  <2>3. /\ IsWalker(z) /\ ~z.done /\ z.seen = w.seen
        /\ z.nfree = IF w.nfree - 1 = 0 THEN ClampNfree(disk[bno].nfree) ELSE w.nfree - 1
    <3> HIDE DEF y
    <3> QED BY <2>2 DEF Reloaded, IsWalker
  <2>4. x = [z EXCEPT !.seen = @ \cup {bno}]
    BY <2>1 DEF Flagged
  <2>5. /\ IsWalker(x) /\ ~x.done /\ x.nfree = z.nfree /\ x.seen = w.seen \cup {bno}
    <3> HIDE DEF z, x
    <3> QED BY <2>3, <2>4 DEF IsWalker
  <2>6. IsFiniteSet(w.seen)
    BY FS_Subset DEF Inside, ChainConstants
  <2>7. /\ Cardinality(w.seen) \in Nat
        /\ Cardinality(x.seen) = Cardinality(w.seen) + 1
    <3> HIDE DEF x, bno
    <3> QED BY <1>5, <2>5, <2>6, FS_CardinalityType, FS_AddElement
  <2>8. disk[bno].nfree \in Int /\ ClampNfree(disk[bno].nfree) \in 0 .. NICFREE
    BY <1>5 DEF ClampNfree, ChainConstants
  <2>9. x.nfree \in 0 .. NICFREE
    <3> HIDE DEF x, z
    <3> QED BY <1>5, <2>3, <2>5, <2>8 DEF Inside, ChainConstants
  <2>10. (k + 1) + x.nfree <= (Cardinality(x.seen) + 1) * NICFREE
    <3> HIDE DEF x, z, y, bno
    <3> DEFINE c == Cardinality(w.seen)
               n == NICFREE
    <3>1. c \in Nat /\ n \in Nat /\ w.nfree \in 0 .. n /\ x.nfree \in 0 .. n
          /\ Cardinality(x.seen) = c + 1 /\ k + w.nfree <= (c + 1) * n
      BY <2>7, <2>9 DEF Inside, ChainConstants
    <3>2. w.nfree - 1 = 0 \/ x.nfree = w.nfree - 1
      BY <2>3, <2>5
    <3> HIDE DEF c, n
    <3>3. ((c + 1) + 1) * n = (c + 1) * n + n
      BY <3>1
    <3>4. (c + 1) * n \in Nat
      BY <3>1
    <3>5. (k + 1) + x.nfree <= (c + 1) * n + n
      BY <3>1, <3>2, <3>4
    <3>6. n = NICFREE
      BY DEF n
    <3> QED BY <3>1, <3>3, <3>5, <3>6
  <2>11. x.seen \in SUBSET Block
    <3> HIDE DEF x
    <3> QED BY <1>5, <2>5 DEF Inside
  <2>12. Inside(x, k + 1)
    <3> HIDE DEF x
    <3> QED BY <2>5, <2>9, <2>10, <2>11 DEF Inside
  <2> QED BY <2>12
<1> QED BY <1>1, <1>2, <1>3, <1>4, <1>5 DEF Inside

(* fsck's walk of the free list ends, whatever the image holds: before the
   loop has taken Turns turns it has met the terminator, an empty cache or a
   block it has seen.                                                       *)
THEOREM WalkEnds ==
  ASSUME ChainConstants, NEW disk, NEW used, NEW sb,
         sb.nfree \in Int, \A b \in Block : disk[b].nfree \in Int
  PROVE  Walk(disk, used, sb).done
<1>1. PICK r : /\ r[0] = Start(sb)
               /\ \A k \in 1 .. Turns : r[k] = Turn(disk, used, r[k - 1])
               /\ Walk(disk, used, sb) = r[Turns]
  BY WalkRun
<1> DEFINE S == {k \in 0 .. Turns : r[k].done \/ Inside(r[k], k)}
<1>2. Turns \in Nat /\ Cardinality(Block) \in Nat
  BY TurnsType
<1>3. Inside(Start(sb), 0)
  <2>1. ClampNfree(sb.nfree) \in 0 .. NICFREE
    BY DEF ClampNfree, ChainConstants
  <2>2. Cardinality({}) = 0 /\ (0 + 1) * NICFREE = NICFREE
    BY FS_EmptySet DEF ChainConstants
  <2> QED BY <2>1, <2>2 DEF Inside, IsWalker, Start, ChainConstants
<1>4. 0 \in S
  BY <1>1, <1>2, <1>3
<1>5. ASSUME NEW k \in 1 .. Turns, k - 1 \in S PROVE k \in S
  <2>1. r[k] = Turn(disk, used, r[k - 1]) /\ k - 1 \in Nat /\ (k - 1) + 1 = k
        /\ k \in 0 .. Turns
    BY <1>1, <1>2
  <2>2. CASE r[k - 1].done
    BY <2>1, <2>2 DEF Turn
  <2>3. CASE Inside(r[k - 1], k - 1)
    <3>1. \/ Turn(disk, used, r[k - 1]).done
          \/ Inside(Turn(disk, used, r[k - 1]), (k - 1) + 1)
      BY <2>1, <2>3, InsideOrDone
    <3> QED BY <2>1, <3>1
  <2> QED BY <1>5, <2>2, <2>3
<1>6. Turns \in S
  <2> HIDE DEF S
  <2> QED BY <1>2, <1>4, <1>5, Runs!UpTo
<1>7. ~Inside(r[Turns], Turns)
  <2> SUFFICES ASSUME Inside(r[Turns], Turns) PROVE FALSE
    OBVIOUS
  <2> DEFINE c == Cardinality(r[Turns].seen)
             d == Cardinality(Block)
             n == NICFREE
  <2>1. c \in Nat /\ c <= d
    BY FS_Subset, FS_CardinalityType DEF Inside, ChainConstants
  <2>2. n \in Nat /\ r[Turns].nfree >= 0 /\ r[Turns].nfree \in Int
        /\ Turns + r[Turns].nfree <= (c + 1) * n /\ Turns = (d + 1) * n + 1
    BY DEF Inside, ChainConstants, Turns
  <2> HIDE DEF c, d, n, Turns
  <2>3. (c + 1) * n <= (d + 1) * n /\ (c + 1) * n \in Nat /\ (d + 1) * n \in Nat
    BY <1>2, <2>1, <2>2 DEF d
  <2> QED BY <1>2, <2>2, <2>3
<1> QED BY <1>1, <1>6, <1>7

(* A walker over a list of the blocks P that has found nothing to complain
   of: what it has not seen yet is a list again.                            *)
Accepting(disk, P, w) ==
  /\ IsWalker(w) /\ w.errs = {} /\ w.done \in BOOLEAN
  /\ w.done => w.seen = P
  /\ ~w.done => \E m, q, R : /\ Chain(disk, w.nfree, w.free, m, q, R)
                             /\ R \subseteq P /\ w.seen = P \ R

(* A turn over a list without fault finds none.                              *)
LEMMA AcceptStep ==
  ASSUME ChainConstants, NEW disk, NEW used, NEW P, P \cap used = {},
         NEW w, Accepting(disk, P, w)
  PROVE  Accepting(disk, P, Turn(disk, used, w))
<1>1. CASE w.done
  BY <1>1 DEF Turn
<1>2. CASE ~w.done
  <2>1. PICK m, q, R : /\ Chain(disk, w.nfree, w.free, m, q, R)
                       /\ R \subseteq P /\ w.seen = P \ R
    BY <1>2 DEF Accepting
  <2> DEFINE bno == w.free[w.nfree - 1]
             x == Turn(disk, used, w)
  <2>2. /\ w.done = FALSE /\ w.nfree \in 1 .. NICFREE /\ ~(w.nfree <= 0) /\ R \subseteq Block
        /\ IsWalker(w) /\ w.errs = {}
    BY <1>2, <2>1 DEF Chain, Lists, ChainConstants, Accepting
  <2>3. CASE bno = 0
    <3>1. R = {}
      BY <2>1, <2>3, Top
    <3>2. x = [w EXCEPT !.done = TRUE, !.errs = {} \cup {}]
      BY <1>2, <2>2, <2>3 DEF Turn, Ended
    <3>3. /\ IsWalker(x) /\ x.done = TRUE /\ x.seen = w.seen /\ x.errs = {}
      <4> HIDE DEF x
      <4>1. [w EXCEPT !.done = TRUE, !.errs = {}]
              = [[w EXCEPT !.done = TRUE] EXCEPT !.errs = {}]
        OBVIOUS
      <4>2. {} \cup {} = {}
        OBVIOUS
      <4> QED BY <2>2, <3>2, <4>1, <4>2 DEF IsWalker
    <3> HIDE DEF x
    <3>4. Accepting(disk, P, x)
      BY <2>1, <3>1, <3>3 DEF Accepting
    <3> QED BY <3>4 DEF x
  <2>4. CASE bno # 0
    <3>1. bno \in R /\ bno \in Block /\ bno \notin w.seen /\ bno \notin used
      BY <2>1, <2>2, <2>4, Top
    <3> DEFINE y == Popped(w, {})
               z == IF y.nfree = 0 THEN Reloaded(y, disk[bno]) ELSE y
    <3>2. x = [z EXCEPT !.seen = @ \cup {bno}]
      <4> HIDE DEF y
      <4>1. y = Popped(w, IF bno \in used THEN {"free and used"} ELSE {})
        BY <3>1 DEF y
      <4> QED BY <1>2, <2>2, <2>4, <3>1, <4>1 DEF Turn, Flagged
    <3>3. /\ IsWalker(y) /\ y.done = FALSE /\ y.nfree = w.nfree - 1 /\ y.free = w.free
          /\ y.seen = w.seen /\ y.errs = {}
      BY <1>2, <2>2, PoppedWalker
    <3> HIDE DEF y, x
    <3>4. CASE w.nfree = 1
      <4>1. /\ disk[bno].nfree = NICFREE /\ disk[bno].free = q[m]
            /\ Chain(disk, NICFREE, q[m], m - 1, q, R \ {bno})
        <5>1. bno = w.free[0] /\ Chain(disk, 1, w.free, m, q, R)
          BY <2>1, <3>4
        <5> HIDE DEF bno
        <5>2. w.free[0] # 0
          BY <2>4, <5>1
        <5> QED BY <5>1, <5>2, ReloadChain
      <4>2. ClampNfree(NICFREE) = NICFREE /\ y.nfree = 0
        BY <3>3, <3>4 DEF ClampNfree, ChainConstants
      <4>3. z = [y EXCEPT !.nfree = NICFREE, !.free = q[m]]
        BY <4>1, <4>2 DEF Reloaded
      <4>4. [y EXCEPT !.nfree = NICFREE, !.free = q[m]]
              = [[y EXCEPT !.nfree = NICFREE] EXCEPT !.free = q[m]]
        OBVIOUS
      <4>5. /\ IsWalker(z) /\ z.done = FALSE /\ z.nfree = NICFREE /\ z.free = q[m]
            /\ z.seen = w.seen /\ z.errs = {}
        <5> HIDE DEF z
        <5> QED BY <3>3, <4>3, <4>4 DEF IsWalker
      <4>6. /\ IsWalker(x) /\ x.done = FALSE /\ x.nfree = NICFREE /\ x.free = q[m]
            /\ x.seen = w.seen \cup {bno} /\ x.errs = {}
        <5> HIDE DEF z
        <5> QED BY <3>2, <4>5 DEF IsWalker
      <4>7. R \ {bno} \subseteq P /\ x.seen = P \ (R \ {bno})
        BY <2>1, <3>1, <4>6
      <4>8. Accepting(disk, P, x)
        <5>1. \E n, t, T : /\ Chain(disk, x.nfree, x.free, n, t, T)
                           /\ T \subseteq P /\ x.seen = P \ T
          BY <4>1, <4>6, <4>7
        <5> QED BY <4>6, <5>1 DEF Accepting
      <4> QED BY <4>8 DEF x
    <3>5. CASE w.nfree # 1
      <4>1. w.nfree > 1 /\ Chain(disk, w.nfree - 1, w.free, m, q, R \ {bno})
        BY <2>1, <2>2, <3>5, PopChain DEF ChainConstants
      <4>2. z = y
        BY <2>2, <3>3, <3>5 DEF ChainConstants
      <4>3. /\ IsWalker(x) /\ x.done = FALSE /\ x.nfree = w.nfree - 1 /\ x.free = w.free
            /\ x.seen = w.seen \cup {bno} /\ x.errs = {}
        <5> HIDE DEF z
        <5> QED BY <3>2, <3>3, <4>2 DEF IsWalker
      <4>4. R \ {bno} \subseteq P /\ x.seen = P \ (R \ {bno})
        BY <2>1, <3>1, <4>3
      <4>5. Accepting(disk, P, x)
        <5>1. \E n, t, T : /\ Chain(disk, x.nfree, x.free, n, t, T)
                           /\ T \subseteq P /\ x.seen = P \ T
          BY <4>1, <4>3, <4>4
        <5> QED BY <4>3, <5>1 DEF Accepting
      <4> QED BY <4>5 DEF x
    <3> QED BY <3>4, <3>5
  <2> QED BY <2>3, <2>4
<1> QED BY <1>1, <1>2 DEF Accepting

(* fsck's walk of a well-formed list of free blocks sees each of them and
   complains of nothing.                                                    *)
THEOREM WalkAccepts ==
  ASSUME ChainConstants, NEW disk, NEW used, NEW sb, NEW m, NEW q, NEW P,
         \A b \in Block : disk[b].nfree \in Int,
         Chain(disk, sb.nfree, sb.free, m, q, P), P \cap used = {}
  PROVE  /\ Walk(disk, used, sb).done
         /\ Walk(disk, used, sb).seen = P
         /\ Walk(disk, used, sb).errs = {}
<1>1. PICK r : /\ r[0] = Start(sb)
               /\ \A k \in 1 .. Turns : r[k] = Turn(disk, used, r[k - 1])
               /\ Walk(disk, used, sb) = r[Turns]
  BY WalkRun
<1> DEFINE S == {k \in 0 .. Turns : Accepting(disk, P, r[k])}
<1>2. Turns \in Nat
  BY TurnsType
<1>3. sb.nfree \in 1 .. NICFREE /\ sb.nfree \in Int /\ ClampNfree(sb.nfree) = sb.nfree
  BY DEF Chain, ClampNfree, ChainConstants
<1>4. Accepting(disk, P, Start(sb))
  <2>1. /\ Start(sb).nfree = sb.nfree /\ Start(sb).free = sb.free
        /\ Start(sb).seen = P \ P /\ Start(sb).errs = {} /\ Start(sb).done = FALSE
        /\ IsWalker(Start(sb))
    BY <1>3 DEF Start, IsWalker
  <2> QED BY <2>1 DEF Accepting
<1>5. 0 \in S
  BY <1>1, <1>2, <1>4
<1>6. ASSUME NEW k \in 1 .. Turns, k - 1 \in S PROVE k \in S
  <2>1. r[k] = Turn(disk, used, r[k - 1]) /\ k \in 0 .. Turns
    BY <1>1, <1>2
  <2> QED BY <1>6, <2>1, AcceptStep
<1>7. Turns \in S
  <2> HIDE DEF S
  <2> QED BY <1>2, <1>5, <1>6, Runs!UpTo
<1>8. Walk(disk, used, sb).done
  BY <1>3, WalkEnds
<1> QED BY <1>1, <1>7, <1>8 DEF Accepting

(* With every other data block in use, phases 2 and 3 find nothing at all.  *)
THEOREM BlocksAccepted ==
  ASSUME ChainConstants, NEW disk, NEW used, NEW sb, NEW m, NEW q, NEW P,
         \A b \in Block : disk[b].nfree \in Int,
         Chain(disk, sb.nfree, sb.free, m, q, P),
         P \cap used = {}, Block \subseteq P \cup used
  PROVE  FsckBlocks(disk, sb, used) = {}
<1>1. /\ Walk(disk, used, sb).done
      /\ Walk(disk, used, sb).seen = P
      /\ Walk(disk, used, sb).errs = {}
  BY WalkAccepts
<1> QED BY <1>1 DEF FsckBlocks
===============================================================================
