---------------------------- MODULE FreeListProofs ----------------------------
(***************************************************************************)
(* Proofs about FreeList for every cache size, every set of blocks and     *)
(* every payload.                                                          *)
(***************************************************************************)
EXTENDS FreeList, SequenceTheorems, FiniteSetTheorems, TLAPS

(* Dropping the last segment of the spine leaves the others as they were.   *)
LEMMA FrontSpine ==
  ASSUME NEW S, NEW q \in Seq(S), Len(q) > 0
  PROVE  /\ SubSeq(q, 1, Len(q) - 1) \in Seq(S)
         /\ Len(SubSeq(q, 1, Len(q) - 1)) = Len(q) - 1
         /\ \A k \in 1 .. Len(q) - 1 : SubSeq(q, 1, Len(q) - 1)[k] = q[k]
<1> DEFINE n == Len(q) - 1
           r == SubSeq(q, 1, n)
<1>1. n \in Nat /\ n = Len(q) - 1
  OBVIOUS
<1>2. \A i \in 1 .. n : q[i] \in S
  BY <1>1
<1> HIDE DEF n
<1>3. /\ r \in Seq(S)
      /\ Len(r) = n
      /\ \A i \in 1 .. n : r[i] = q[i]
  <2>1. /\ r \in Seq(S)
        /\ Len(r) = IF 1 <= n THEN n - 1 + 1 ELSE 0
        /\ \A i \in 1 .. n - 1 + 1 : r[i] = q[1 + i - 1]
    BY <1>1, <1>2, SubSeqProperties
  <2> QED
    BY <1>1, <2>1
<1> QED
  BY <1>1, <1>3 DEF n

(* The handle, the disk and the history keep their types under every
   operation of the allocator (s5fs_core.c).                                *)
THEOREM TypeCorrect == Spec => []TypeOK
<1> USE FreeListAssumption
<1>1. Init => TypeOK
  BY DEF Init, TypeOK, ZeroCache, Fblk, Cache, Slots, Blk0, Super
<1>2. TypeOK /\ [Next]_vars => TypeOK'
  <2> SUFFICES ASSUME TypeOK, [Next]_vars PROVE TypeOK'
    OBVIOUS
  <2> USE DEF TypeOK
  <2>1. CASE Alloc
    <3>1. free[nfree - 1] # 0 => free[nfree - 1] \in Block
      BY <2>1 DEF Alloc, Cache, Slots, Blk0
    <3>2. CASE free[nfree - 1] = 0
      BY <2>1, <3>2 DEF Alloc
    <3>3. CASE free[nfree - 1] # 0 /\ nfree > 1
      BY <2>1, <3>1, <3>3 DEF Alloc
    <3>4. CASE free[nfree - 1] # 0 /\ nfree = 1
      <4>1. nfree' \in 0 .. NICFREE /\ free' \in Cache
        BY <2>1, <3>1, <3>4 DEF Alloc, GetFblk, Fblk
      <4>2. spine' \in Seq(Cache)
        <5>1. CASE spine = << >>
          BY <2>1, <3>4, <5>1 DEF Alloc
        <5>2. CASE spine # << >>
          BY <2>1, <3>4, <5>2, FrontSpine DEF Alloc
        <5> QED BY <5>1, <5>2
      <4> QED
        BY <2>1, <3>1, <3>4, <4>1, <4>2 DEF Alloc
    <3> QED
      BY <2>1, <3>2, <3>3, <3>4 DEF Alloc
  <2>2. ASSUME NEW b \in Block, Bfree(b) PROVE TypeOK'
    <3>1. CASE nfree >= NICFREE
      <4>1. nfree = NICFREE
        BY <3>1
      <4>2. disk' \in [Block -> Fblk]
        <5>1. [nfree |-> nfree, free |-> free] \in Fblk
          BY DEF Fblk
        <5>2. disk' = [disk EXCEPT ![b] = [nfree |-> nfree, free |-> free]]
          BY <2>2, <3>1 DEF Bfree, PutFblk
        <5> QED BY <5>1, <5>2
      <4>3. free' \in Cache
        BY <2>2, <3>1 DEF Bfree, Cache, Slots, Blk0
      <4> QED
        BY <2>2, <3>1, <4>2, <4>3 DEF Bfree
    <3>2. CASE nfree < NICFREE
      <4>1. free' \in Cache
        BY <2>2, <3>2 DEF Bfree, Cache, Slots, Blk0
      <4> QED
        BY <2>2, <3>2, <4>1 DEF Bfree
    <3> QED
      BY <3>1, <3>2
  <2>3. ASSUME NEW b \in Block, WriteData(b) PROVE TypeOK'
    BY <2>3 DEF WriteData, incore
  <2>4. CASE Sync
    BY <2>4 DEF Sync, FlushSuper, incore, Super
  <2>5. CASE Close
    BY <2>5 DEF Close, FlushSuper, incore, Super
  <2>6. CASE Mount
    BY <2>6 DEF Mount, Clamp, Super
  <2>7. CASE UNCHANGED vars
    BY <2>7 DEF vars
  <2> QED
    BY <2>1, <2>2, <2>3, <2>4, <2>5, <2>6, <2>7 DEF Next
<1> QED
  BY <1>1, <1>2, PTL DEF Spec

-------------------------------------------------------------------------------
(* What happens to the list when one entry leaves it, and when one enters. *)
LEMMA Shrink ==
  ASSUME NoDoubleUse, NoneLost,
         NEW x \in Live, List[x] # 0,
         Live' = Live \ {x},
         \A s \in Live' : List'[s] = List[s],
         held' = held \cup {List[x]}
  PROVE  /\ NoDoubleUse'
         /\ NoneLost'
         /\ Pool' = Pool \ {List[x]}
         /\ List[x] \in Pool
<1>1. Pool' = Pool \ {List[x]}
  BY DEF Pool, NoDoubleUse
<1>2. List[x] \in Pool
  BY DEF Pool
<1>3. NoneLost'
  BY <1>1, <1>2 DEF NoneLost
<1>4. NoDoubleUse'
  BY <1>1 DEF NoDoubleUse
<1> QED
  BY <1>1, <1>2, <1>3, <1>4

(* A block that moves from a caller to a new slot of the list stays single.  *)
LEMMA Grow ==
  ASSUME NoDoubleUse, NoneLost,
         NEW b \in held, b # 0,
         NEW x, x \notin Live, x # <<1, 0>>,
         Live' = Live \cup {x},
         \A s \in Live : List'[s] = List[s],
         List'[x] = b,
         held' = held \ {b}
  PROVE  /\ NoDoubleUse'
         /\ NoneLost'
         /\ Pool' = Pool \cup {b}
         /\ b \notin Pool
<1>1. Pool' = Pool \cup {b}
  BY DEF Pool
<1>2. b \notin Pool
  BY DEF NoDoubleUse
<1>3. NoneLost'
  BY <1>1 DEF NoneLost
<1>4. \A s \in Live : List[s] # b
  BY <1>2 DEF Pool
<1>5. NoDoubleUse'
  BY <1>1, <1>4 DEF NoDoubleUse
<1> QED
  BY <1>1, <1>2, <1>3, <1>5

(* The list, segment by segment.                                            *)
LEMMA ListBySegment ==
  ASSUME TypeOK
  PROVE  /\ Len(spine) \in Nat
         /\ \A k \in 1 .. Len(spine) : \A i \in Slots :
              <<k, i>> \in Live /\ List[<<k, i>>] = spine[k][i]
         /\ \A i \in Slots : i < nfree =>
              <<Len(spine) + 1, i>> \in Live
              /\ List[<<Len(spine) + 1, i>>] = free[i]
         /\ \A i \in Slots : ~(i < nfree) => <<Len(spine) + 1, i>> \notin Live
         /\ \A s \in Live :
              s = <<s[1], s[2]>> /\ s[1] \in 1 .. Len(spine) + 1 /\ s[2] \in Slots
<1>1. Len(spine) \in Nat
  BY DEF TypeOK
<1>2. \A s \in Live :
        s = <<s[1], s[2]>> /\ s[1] \in 1 .. Len(spine) + 1 /\ s[2] \in Slots
  BY <1>1 DEF Live
<1>3. ASSUME NEW k \in 1 .. Len(spine), NEW i \in Slots
      PROVE  <<k, i>> \in Live /\ List[<<k, i>>] = spine[k][i]
  <2>1. <<k, i>> \in Live
    BY <1>1 DEF Live
  <2> QED
    BY <1>1, <2>1 DEF List, Seg
<1>4. ASSUME NEW i \in Slots, i < nfree
      PROVE  /\ <<Len(spine) + 1, i>> \in Live
             /\ List[<<Len(spine) + 1, i>>] = free[i]
  <2>1. <<Len(spine) + 1, i>> \in Live
    BY <1>1, <1>4 DEF Live
  <2> QED
    BY <1>1, <2>1 DEF List, Seg
<1>5. \A i \in Slots : ~(i < nfree) => <<Len(spine) + 1, i>> \notin Live
  BY DEF Live
<1> QED
  BY <1>1, <1>2, <1>3, <1>4, <1>5

(* s5fs_alloc keeps the invariant.  It hands out a block of the pool, or the
   pool is empty and the handle fails.                                      *)
LEMMA AllocStep ==
  ASSUME TypeOK, ListInv, Alloc
  PROVE  /\ ListInv'
         /\ \/ /\ \E b \in Pool : Pool' = Pool \ {b} /\ held' = held \cup {b}
               /\ error' = FALSE
            \/ Pool = {} /\ Pool' = {} /\ held' = held /\ error' = TRUE
<1> USE FreeListAssumption
<1> DEFINE n == Len(spine)
           x == <<n + 1, nfree - 1>>
<1>1. /\ n \in Nat
      /\ nfree \in 1 .. NICFREE
      /\ nfree - 1 \in Slots
      /\ error = FALSE /\ open
  BY DEF Alloc, Usable, TypeOK, Slots
<1>2. x \in Live /\ List[x] = free[nfree - 1]
  BY <1>1, ListBySegment
<1>3. CASE free[nfree - 1] = 0
  <2>1. n = 0 /\ nfree = 1
    BY <1>1, <1>2, <1>3 DEF ListInv, NoDoubleUse
  <2>2. spine = << >>
    BY <2>1 DEF TypeOK
  <2>3. nfree' = 0 /\ error' = TRUE /\ spine' = << >> /\ held' = held
    BY <1>3, <2>1, <2>2 DEF Alloc
  <2>4. Live' = {}
    BY <2>3 DEF Live, Slots
  <2>5. Pool' = {}
    BY <2>4 DEF Pool
  <2>6. \A s \in Live : s = <<1, 0>>
    BY <1>1, <2>1, <2>2 DEF Live, Slots
  <2>7. Pool = {}
    BY <2>6 DEF Pool, ListInv, NoDoubleUse
  <2>8. NoDoubleUse' /\ NoneLost'
    BY <2>3, <2>4, <2>5, <2>7 DEF ListInv, NoDoubleUse, NoneLost
  <2>9. ChainOnDisk'
    BY <2>3 DEF ChainOnDisk
  <2> QED
    BY <2>3, <2>5, <2>7, <2>8, <2>9 DEF ListInv, SuperCurrent
<1>4. CASE free[nfree - 1] # 0 /\ nfree > 1
  <2>1. /\ nfree' = nfree - 1 /\ held' = held \cup {List[x]}
        /\ UNCHANGED <<error, free, spine, disk, open, sb>>
    BY <1>2, <1>4 DEF Alloc
  <2>2. Live' = Live \ {x}
    BY <1>1, <2>1 DEF Live, Slots
  <2>3. \A s \in Live' : List'[s] = List[s]
    BY <2>1, <2>2 DEF List, Seg
  <2>4. NoDoubleUse' /\ NoneLost' /\ Pool' = Pool \ {List[x]} /\ List[x] \in Pool
    BY <1>2, <1>4, <2>1, <2>2, <2>3, Shrink DEF ListInv
  <2>5. ChainOnDisk'
    BY <2>1 DEF ListInv, ChainOnDisk, Seg
  <2> QED
    BY <1>1, <2>1, <2>4, <2>5, <1>4 DEF ListInv, SuperCurrent
<1>5. CASE free[nfree - 1] # 0 /\ nfree = 1
  <2>1. n > 0
    <3>1. n = 0 => x = <<1, 0>>
      BY <1>5
    <3> QED
      BY <1>1, <1>2, <1>5, <3>1 DEF ListInv, NoDoubleUse
  <2>2. disk[free[0]] = [nfree |-> NICFREE, free |-> spine[n]]
    BY <1>1, <2>1 DEF ListInv, ChainOnDisk, Seg
  <2>3. /\ nfree' = NICFREE /\ free' = spine[n]
        /\ held' = held \cup {List[x]}
        /\ spine' = SubSeq(spine, 1, n - 1)
        /\ UNCHANGED <<error, disk, open, sb>>
    BY <1>2, <1>5, <2>2 DEF Alloc, GetFblk
  <2>4. /\ Len(spine') = n - 1
        /\ \A k \in 1 .. n - 1 : spine'[k] = spine[k]
    BY <2>1, <2>3, FrontSpine DEF TypeOK
  <2>5. Live' = Live \ {x}
    BY <1>1, <1>5, <2>1, <2>3, <2>4 DEF Live, Slots
  <2>6. \A k \in 1 .. n : Seg(k)' = Seg(k)
    BY <1>1, <2>1, <2>3, <2>4 DEF Seg
  <2>7. \A s \in Live' : List'[s] = List[s]
    <3>1. \A s \in Live' : s[1] \in 1 .. n
      BY <1>1, <2>4 DEF Live
    <3> QED
      BY <1>1, <2>1, <2>3, <2>4, <2>5, <3>1 DEF List, Seg
  <2>8. NoDoubleUse' /\ NoneLost' /\ Pool' = Pool \ {List[x]} /\ List[x] \in Pool
    BY <1>2, <1>5, <2>3, <2>5, <2>7, Shrink DEF ListInv
  <2>9. ChainOnDisk'
    BY <1>1, <2>1, <2>3, <2>4 DEF ListInv, ChainOnDisk, Seg
  <2>10. nfree' > 0 /\ error' = FALSE /\ open'
    BY <1>1, <2>3
  <2>11. ListInv'
    BY <2>8, <2>9, <2>10 DEF ListInv, SuperCurrent
  <2> QED
    BY <2>3, <2>8, <2>10, <2>11
<1>6. nfree > 1 \/ nfree = 1
  BY <1>1
<1> QED
  BY <1>3, <1>4, <1>5, <1>6

(* s5fs_bfree keeps the invariant and puts exactly the freed block on the
   list, whether it joins the cache or takes the cache over.                *)
LEMMA BfreeStep ==
  ASSUME TypeOK, ListInv, NEW b \in Block, Bfree(b)
  PROVE  /\ ListInv'
         /\ Pool' = Pool \cup {b}
         /\ b \notin Pool
         /\ error' = FALSE
<1> USE FreeListAssumption
<1> DEFINE n == Len(spine)
<1>1. /\ n \in Nat
      /\ nfree \in 1 .. NICFREE
      /\ error = FALSE /\ open
      /\ b \in held /\ b # 0
      /\ held' = held \ {b}
      /\ UNCHANGED <<error, open, sb>>
  BY DEF Bfree, Usable, TypeOK, ListInv
<1>2. <<1, 0>> \in Live
  BY <1>1, ListBySegment DEF Slots
<1>3. CASE nfree >= NICFREE
  <2> DEFINE x == <<n + 2, 0>>
  <2>1. /\ nfree = NICFREE
        /\ spine' = Append(spine, free)
        /\ free' = [free EXCEPT ![0] = b]
        /\ nfree' = 1
        /\ disk' = [disk EXCEPT ![b] = [nfree |-> nfree, free |-> free]]
    BY <1>1, <1>3 DEF Bfree, PutFblk
  <2>2. /\ Len(spine') = n + 1
        /\ \A k \in 1 .. n : spine'[k] = spine[k]
        /\ spine'[n + 1] = free
        /\ free'[0] = b
    BY <2>1 DEF TypeOK, Cache, Slots
  <2>3. Live' = Live \cup {x} /\ x \notin Live
    BY <1>1, <2>1, <2>2 DEF Live, Slots
  <2>4. \A k \in 1 .. n + 1 : Seg(k)' = Seg(k)
    BY <1>1, <2>2 DEF Seg
  <2>5. \A s \in Live : List'[s] = List[s]
    <3>1. \A s \in Live : s[1] \in 1 .. n + 1
      BY <1>1 DEF Live
    <3> QED
      BY <1>1, <2>2, <2>3, <3>1 DEF List, Seg
  <2>6. List'[x] = b
    BY <1>1, <2>2, <2>3 DEF List, Seg
  <2>7. NoDoubleUse' /\ NoneLost' /\ Pool' = Pool \cup {b} /\ b \notin Pool
    <3>1. x # <<1, 0>>
      BY <1>1
    <3> QED
      BY <1>1, <2>3, <2>5, <2>6, <3>1, Grow DEF ListInv
  <2>8. ChainOnDisk'
    <3> SUFFICES ASSUME NEW k \in 1 .. n + 1
                 PROVE  disk'[Seg(k + 1)'[0]] = [nfree |-> NICFREE, free |-> spine'[k]]
      BY <2>2 DEF ChainOnDisk
    <3>1. CASE k = n + 1
      <4>1. Seg(k + 1)' = free'
        BY <1>1, <2>2, <3>1 DEF Seg
      <4>2. disk'[b] = [nfree |-> NICFREE, free |-> free]
        BY <2>1 DEF TypeOK
      <4>3. Seg(k + 1)'[0] = b /\ spine'[k] = free
        BY <2>2, <3>1, <4>1
      <4> QED
        BY <4>2, <4>3
    <3>2. CASE k \in 1 .. n
      <4>1. k + 1 \in 1 .. n + 1
        BY <1>1, <3>2
      <4>2. Seg(k + 1)' = Seg(k + 1)
        BY <2>4, <4>1
      <4>3. <<k + 1, 0>> \in Live /\ List[<<k + 1, 0>>] = Seg(k + 1)[0]
        BY <1>1, <3>2 DEF Live, List, Slots
      <4>4. Seg(k + 1)[0] # 0
        BY <1>1, <3>2, <4>3 DEF ListInv, NoDoubleUse
      <4>5. Seg(k + 1)[0] # b
        BY <1>1, <4>3, <4>4 DEF ListInv, NoDoubleUse, Pool
      <4>6. disk[Seg(k + 1)[0]] = [nfree |-> NICFREE, free |-> spine[k]]
        BY <3>2 DEF ListInv, ChainOnDisk
      <4>7. Seg(k + 1)[0] \in Block
        BY <4>3, <4>4 DEF ListInv, NoneLost, Pool
      <4> QED
        BY <2>1, <2>2, <3>2, <4>2, <4>5, <4>6, <4>7 DEF TypeOK
    <3> QED
      BY <1>1, <3>1, <3>2
  <2> QED
    BY <1>1, <2>1, <2>7, <2>8 DEF ListInv, SuperCurrent
<1>4. CASE nfree < NICFREE
  <2> DEFINE x == <<n + 1, nfree>>
  <2>1. /\ free' = [free EXCEPT ![nfree] = b]
        /\ nfree' = nfree + 1
        /\ nfree \in Slots
        /\ UNCHANGED <<disk, spine>>
    BY <1>1, <1>4 DEF Bfree, Slots
  <2>2. free'[nfree] = b /\ \A i \in Slots : i < nfree => free'[i] = free[i]
    BY <1>1, <2>1 DEF TypeOK, Cache, Slots
  <2>3. Live' = Live \cup {x} /\ x \notin Live
    BY <1>1, <1>4, <2>1 DEF Live, Slots
  <2>4. \A s \in Live : List'[s] = List[s]
    BY <1>1, <2>1, <2>2, <2>3 DEF List, Seg, Live, Slots
  <2>5. List'[x] = b
    BY <1>1, <2>1, <2>2, <2>3 DEF List, Seg
  <2>6. NoDoubleUse' /\ NoneLost' /\ Pool' = Pool \cup {b} /\ b \notin Pool
    <3>1. x # <<1, 0>>
      BY <1>1
    <3> QED
      BY <1>1, <2>3, <2>4, <2>5, <3>1, Grow DEF ListInv
  <2>7. ChainOnDisk'
    <3>1. free'[0] = free[0]
      BY <1>1, <2>2 DEF Slots
    <3> QED
      BY <1>1, <2>1, <3>1 DEF ListInv, ChainOnDisk, Seg
  <2> QED
    BY <1>1, <2>1, <2>6, <2>7 DEF ListInv, SuperCurrent
<1>5. nfree >= NICFREE \/ nfree < NICFREE
  BY <1>1
<1> QED
  BY <1>3, <1>4, <1>5

(* A caller's write, a flush, a close and a reopening leave the list as it is. *)
LEMMA OtherStep ==
  ASSUME TypeOK, ListInv,
         \/ \E b \in Block : WriteData(b)
         \/ Sync \/ Close \/ Mount
         \/ UNCHANGED vars
  PROVE  /\ ListInv'
         /\ Pool' = Pool
         /\ UNCHANGED <<tfree, error, held>>
<1> USE FreeListAssumption
<1>1. UNCHANGED <<nfree, free, tfree, error, held, spine>>
  <2>1. CASE Mount
    BY <2>1 DEF Mount, Clamp, ListInv, SuperCurrent, TypeOK
  <2>2. CASE \E b \in Block : WriteData(b)
    BY <2>2 DEF WriteData, incore
  <2>3. CASE Sync
    BY <2>3 DEF Sync, incore
  <2>4. CASE Close
    BY <2>4 DEF Close, incore
  <2>5. CASE UNCHANGED vars
    BY <2>5 DEF vars
  <2> QED
    BY <2>1, <2>2, <2>3, <2>4, <2>5
<1>2. Live' = Live /\ List' = List
  BY <1>1 DEF Live, List, Seg
<1>3. Pool' = Pool
  BY <1>2 DEF Pool
<1>4. NoDoubleUse' /\ NoneLost'
  BY <1>1, <1>2, <1>3 DEF ListInv, NoDoubleUse, NoneLost
<1>5. ChainOnDisk'
  <2>1. CASE \E b \in Block : WriteData(b)
    <3> SUFFICES ASSUME NEW k \in 1 .. Len(spine)
                 PROVE  disk'[Seg(k + 1)[0]] = [nfree |-> NICFREE, free |-> spine[k]]
      BY <1>1 DEF ChainOnDisk, Seg
    <3>1. Len(spine) \in Nat /\ error = FALSE
      BY <2>1 DEF TypeOK, WriteData, Usable
    <3>2. nfree \in 1 .. NICFREE
      BY <3>1 DEF TypeOK, ListInv
    <3>3. <<k + 1, 0>> \in Live /\ List[<<k + 1, 0>>] = Seg(k + 1)[0]
      BY <3>1, <3>2 DEF Live, List, Slots
    <3>4. Seg(k + 1)[0] # 0
      BY <3>1, <3>3 DEF ListInv, NoDoubleUse
    <3>5. Seg(k + 1)[0] \notin held
      BY <3>3, <3>4 DEF ListInv, NoDoubleUse, Pool
    <3>6. PICK b \in Block : b \in held /\ \E p \in Payload : disk' = [disk EXCEPT ![b] = p]
      BY <2>1 DEF WriteData
    <3>7. disk'[Seg(k + 1)[0]] = disk[Seg(k + 1)[0]]
      BY <3>5, <3>6 DEF TypeOK
    <3> QED
      BY <3>7 DEF ListInv, ChainOnDisk
  <2>2. CASE Sync \/ Close \/ Mount \/ UNCHANGED vars
    <3>1. disk' = disk
      BY <2>2 DEF Sync, Close, Mount, vars
    <3> QED
      BY <1>1, <3>1 DEF ListInv, ChainOnDisk, Seg
  <2> QED
    BY <2>1, <2>2
<1>6. SuperCurrent'
  <2>1. CASE \E b \in Block : WriteData(b)
    BY <2>1 DEF WriteData, Usable, SuperCurrent
  <2>2. CASE Sync
    BY <2>2 DEF Sync, SuperCurrent
  <2>3. CASE Close
    BY <2>3, <1>1 DEF Close, FlushSuper, SuperCurrent
  <2>4. CASE Mount
    BY <2>4 DEF Mount, SuperCurrent
  <2>5. CASE UNCHANGED vars
    BY <2>5 DEF vars, SuperCurrent, ListInv
  <2> QED
    BY <2>1, <2>2, <2>3, <2>4, <2>5
<1> QED
  BY <1>1, <1>3, <1>4, <1>5, <1>6 DEF ListInv

(* The empty list that wfs leaves satisfies the invariant.                   *)
LEMMA InitList ==
  ASSUME Init
  PROVE  ListInv /\ Pool = {}
<1> USE FreeListAssumption
<1>1. Live = {<<1, 0>>}
  BY DEF Init, Live, Slots
<1>2. List[<<1, 0>>] = 0
  BY <1>1 DEF Init, List, Seg, ZeroCache, Slots
<1>3. Pool = {}
  BY <1>1, <1>2 DEF Pool
<1>4. NoDoubleUse /\ NoneLost
  BY <1>1, <1>2, <1>3 DEF NoDoubleUse, NoneLost, Init
<1> QED
  BY <1>3, <1>4 DEF Init, ListInv, ChainOnDisk, SuperCurrent

(* The chain is intact on disk, no block is on it twice or both on it and in
   a caller's hands, none is lost, and a closed volume reopens on the same
   list (s5fs_alloc, s5fs_bfree, s5fs_finish, s5fs_mount).                  *)
THEOREM ListCorrect == Spec => []ListInv
<1>1. Init => ListInv
  BY InitList
<1>2. TypeOK /\ ListInv /\ [Next]_vars => ListInv'
  BY AllocStep, BfreeStep, OtherStep DEF Next
<1> QED
  BY <1>1, <1>2, TypeCorrect, PTL DEF Spec

(* The free-block total of the superblock is the number of free blocks for as
   long as the handle has not failed (s5fs_core.c:125,139).                 *)
THEOREM TotalCorrect == Spec => []TotalExact
<1>1. Init => TotalExact
  BY InitList, FS_EmptySet DEF Init, TotalExact
<1>2. TypeOK /\ ListInv /\ TotalExact /\ [Next]_vars => TotalExact'
  <2> SUFFICES ASSUME TypeOK, ListInv, TotalExact, [Next]_vars
               PROVE  TotalExact'
    OBVIOUS
  <2>1. IsFiniteSet(Pool)
    <3>1. Pool \subseteq Block
      BY DEF ListInv, NoneLost
    <3> QED
      BY <3>1, FreeListAssumption, FS_Subset
  <2>2. CASE Alloc
    <3>1. CASE error' = TRUE
      BY <3>1 DEF TotalExact
    <3>2. CASE error' = FALSE
      <4>1. PICK b \in Pool : Pool' = Pool \ {b}
        BY <2>2, <3>2, AllocStep
      <4>2. Cardinality(Pool') = Cardinality(Pool) - 1
        BY <2>1, <4>1, FS_RemoveElement
      <4>3. tfree' = tfree - 1 /\ tfree = Cardinality(Pool)
        BY <2>2 DEF Alloc, Usable, TotalExact
      <4> QED
        BY <4>2, <4>3 DEF TotalExact
    <3>3. error' = TRUE \/ error' = FALSE
      BY <2>2, AllocStep
    <3> QED
      BY <3>1, <3>2, <3>3
  <2>3. ASSUME NEW b \in Block, Bfree(b) PROVE TotalExact'
    <3>1. Pool' = Pool \cup {b} /\ b \notin Pool
      BY <2>3, BfreeStep
    <3>2. Cardinality(Pool') = Cardinality(Pool) + 1
      BY <2>1, <3>1, FS_AddElement
    <3>3. tfree' = tfree + 1 /\ tfree = Cardinality(Pool)
      BY <2>3 DEF Bfree, Usable, TotalExact
    <3> QED
      BY <3>2, <3>3 DEF TotalExact
  <2>4. CASE \/ \E b \in Block : WriteData(b)
             \/ Sync \/ Close \/ Mount
             \/ UNCHANGED vars
    <3>1. Pool' = Pool /\ UNCHANGED <<tfree, error>>
      BY <2>4, OtherStep
    <3> QED
      BY <3>1 DEF TotalExact
  <2> QED
    BY <2>2, <2>3, <2>4 DEF Next
<1> QED
  BY <1>1, <1>2, TypeCorrect, ListCorrect, PTL DEF Spec

(* The chained list implements the abstract pool: every allocation hands out
   one free block, fails only when none is free, every release returns one,
   and nothing else touches the pool.                                       *)
THEOREM Implements == Spec => PoolSpec
<1>1. Init => Abstract!PoolInit
  BY InitList DEF Init, Abstract!PoolInit
<1>2. TypeOK /\ ListInv /\ [Next]_vars => [Abstract!PoolNext]_(Abstract!poolVars)
  <2> SUFFICES ASSUME TypeOK, ListInv, [Next]_vars
               PROVE  Abstract!PoolNext \/ UNCHANGED Abstract!poolVars
    OBVIOUS
  <2>1. CASE Alloc
    <3>1. ~error /\ tfree' = tfree - 1
      BY <2>1 DEF Alloc, Usable
    <3>2. Abstract!Take \/ Abstract!Exhaust
      BY <2>1, <3>1, AllocStep DEF Abstract!Take, Abstract!Exhaust, TypeOK
    <3> QED
      BY <3>2 DEF Abstract!PoolNext
  <2>2. ASSUME NEW b \in Block, Bfree(b) PROVE Abstract!PoolNext
    <3>1. /\ ~error /\ error' = error /\ tfree' = tfree + 1
          /\ b \in held /\ held' = held \ {b}
      BY <2>2 DEF Bfree, Usable
    <3>2. Pool' = Pool \cup {b}
      BY <2>2, BfreeStep
    <3> QED
      BY <3>1, <3>2 DEF Abstract!PoolNext, Abstract!Release
  <2>3. CASE \/ \E b \in Block : WriteData(b)
             \/ Sync \/ Close \/ Mount
             \/ UNCHANGED vars
    BY <2>3, OtherStep DEF Abstract!poolVars
  <2> QED
    BY <2>1, <2>2, <2>3 DEF Next
<1> QED
  BY <1>1, <1>2, TypeCorrect, ListCorrect, PTL DEF Spec, PoolSpec, Abstract!PoolSpec

-------------------------------------------------------------------------------
(* What fsck makes of the closed volume.  Its walk is defined apart from the
   allocator, so the list is put in the form the lemmas of FreeChain know.  *)
C == INSTANCE FreeChain

(* The walk of fsck is one operator under both instances.                    *)
LEMMA SameWalk ==
  ASSUME NEW d, NEW s, NEW u
  PROVE  Walker!FsckBlocks(d, s, u) = C!FsckBlocks(d, s, u)
<1>1. Walker!Walk(d, u, s) = C!Walk(d, u, s)
  BY DEF Walker!Walk, C!Walk, Walker!FoldLeft, C!FoldLeft,
         Walker!MapThenFoldSet, C!MapThenFoldSet, Walker!Max, C!Max,
         Walker!Cardinality, C!Cardinality, Walker!Turns, C!Turns,
         Walker!ClampNfree, C!ClampNfree, Walker!Turn, C!Turn,
         Walker!Ended, C!Ended, Walker!Popped, C!Popped,
         Walker!Flagged, C!Flagged, Walker!Reloaded, C!Reloaded
<1> QED BY <1>1 DEF Walker!FsckBlocks, C!FsckBlocks

(* The list of the handle is a chain that fsck can walk.                     *)
LEMMA ListIsChain ==
  ASSUME TypeOK, ListInv, ~error
  PROVE  C!Chain(disk, nfree, free, Len(spine), spine, Pool)
<1> DEFINE m == Len(spine)
<1>1. m \in Nat /\ nfree \in 1 .. NICFREE
  BY FreeListAssumption DEF TypeOK, ListInv
<1>2. \A k \in 1 .. m + 1 : C!Seg(free, m, spine, k) = Seg(k)
  BY DEF C!Seg, Seg
<1>3. \A k \in 1 .. m + 1 : \A i \in Slots :
        C!Used(nfree, m, k, i) => <<k, i>> \in Live /\ List[<<k, i>>] = Seg(k)[i]
  BY DEF C!Used, Live, List
<1>4. C!Slots = Slots
  BY DEF C!Slots, Slots
<1>5. C!OnDisk(disk, free, m, spine)
  <2> SUFFICES ASSUME NEW k \in 1 .. m
               PROVE  LET b == C!Seg(free, m, spine, k + 1)[0]
                      IN disk[b].nfree = NICFREE /\ disk[b].free = spine[k]
    BY DEF C!OnDisk
  <2>1. k + 1 \in 1 .. m + 1
    BY <1>1
  <2>2. disk[Seg(k + 1)[0]] = [nfree |-> NICFREE, free |-> spine[k]]
    BY DEF ListInv, ChainOnDisk
  <2> QED BY <1>2, <2>1, <2>2
<1>6. C!Once(nfree, free, m, spine)
  <2> SUFFICES ASSUME NEW k \in 1 .. m + 1, NEW j \in 1 .. m + 1,
                      NEW i \in Slots, NEW h \in Slots,
                      C!Used(nfree, m, k, i), C!Used(nfree, m, j, h),
                      C!Seg(free, m, spine, k)[i] = C!Seg(free, m, spine, j)[h]
               PROVE  k = j /\ i = h
    BY <1>4 DEF C!Once
  <2>1. /\ <<k, i>> \in Live /\ <<j, h>> \in Live
        /\ List[<<k, i>>] = List[<<j, h>>]
    BY <1>2, <1>3
  <2>2. <<k, i>> = <<j, h>>
    BY <2>1 DEF ListInv, NoDoubleUse
  <2> QED BY <2>2
<1>7. C!Bottom(nfree, free, m, spine)
  <2> SUFFICES ASSUME NEW k \in 1 .. m + 1, NEW i \in Slots, C!Used(nfree, m, k, i)
               PROVE  C!Seg(free, m, spine, k)[i] = 0 <=> k = 1 /\ i = 0
    BY <1>4 DEF C!Bottom
  <2>1. <<k, i>> \in Live /\ List[<<k, i>>] = C!Seg(free, m, spine, k)[i]
    BY <1>2, <1>3
  <2>2. List[<<k, i>>] = 0 <=> <<k, i>> = <<1, 0>>
    BY <2>1 DEF ListInv, NoDoubleUse
  <2> QED BY <2>1, <2>2
<1>8. C!Lists(nfree, free, m, spine, Pool)
  <2>1. Pool \subseteq Block
    BY DEF ListInv, NoneLost
  <2>2. ASSUME NEW k \in 1 .. m + 1, NEW i \in Slots, C!Used(nfree, m, k, i)
        PROVE  C!Seg(free, m, spine, k)[i] \in Pool \cup {0}
    BY <1>2, <1>3, <2>2 DEF Pool
  <2>3. ASSUME NEW b \in Pool
        PROVE  \E k \in 1 .. m + 1 : \E i \in Slots :
                 C!Used(nfree, m, k, i) /\ C!Seg(free, m, spine, k)[i] = b
    <3>1. PICK s \in Live : List[s] = b
      BY DEF Pool
    <3>2. /\ s[1] \in 1 .. m + 1 /\ s[2] \in Slots
          /\ C!Used(nfree, m, s[1], s[2]) /\ Seg(s[1])[s[2]] = b
      BY <1>4, <3>1 DEF Live, List, C!Used
    <3> QED BY <1>2, <3>2
  <2> QED BY <1>4, <2>1, <2>2, <2>3 DEF C!Lists
<1> QED BY <1>1, <1>5, <1>6, <1>7, <1>8 DEF C!Chain

(* On every closed volume, whatever was allocated, freed and written before,
   phases 2 and 3 of fsck (cmd_fsck.c) find nothing wrong with the free list
   that s5fs_core.c left.                                                   *)
THEOREM ClosedVolumeClean == Spec => []FsckClean
<1>1. TypeOK /\ ListInv => FsckClean
  <2> SUFFICES ASSUME TypeOK, ListInv, ~open, ~error
               PROVE  Walker!FsckBlocks(disk, sb, held) = {}
    BY DEF FsckClean
  <2>1. C!Chain(disk, nfree, free, Len(spine), spine, Pool)
    BY ListIsChain
  <2>2. sb.nfree = nfree /\ sb.free = free
    BY DEF ListInv, SuperCurrent
  <2>3. \A b \in Block : disk[b].nfree \in Int
    BY FreeListAssumption DEF TypeOK, Fblk
  <2>4. Pool \cap held = {} /\ Block \subseteq Pool \cup held
    BY DEF ListInv, NoDoubleUse, NoneLost
  <2>5. C!ChainConstants
    BY FreeListAssumption DEF C!ChainConstants, IsFiniteSet, C!IsFiniteSet
  <2>6. C!Chain(disk, sb.nfree, sb.free, Len(spine), spine, Pool)
    BY <2>1, <2>2
  <2>7. C!FsckBlocks(disk, sb, held) = {}
    BY <2>3, <2>4, <2>5, <2>6, C!BlocksAccepted
  <2> QED BY <2>7, SameWalk
<1> QED BY <1>1, TypeCorrect, ListCorrect, PTL
===============================================================================
