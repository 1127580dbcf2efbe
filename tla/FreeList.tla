------------------------------- MODULE FreeList -------------------------------
(***************************************************************************)
(* The chained free list of s5fs_core.c: a cache of NICFREE block numbers  *)
(* in the superblock, spilled whole into the block being freed when it is  *)
(* full, and reloaded from the block being handed out when it runs dry.    *)
(* Chain blocks are ordinary data blocks: once handed out, their caller    *)
(* overwrites them.  0 is the terminator of the list and no data block.    *)
(***************************************************************************)
EXTENDS Integers, Sequences, FiniteSets

CONSTANTS NICFREE,      \* entries in the superblock cache (P11_NICFREE, 50)
          Block,        \* data blocks, s_isize .. s_fsize-1
          Payload       \* what a caller may write in its block, read as a
                        \* struct fblk

Slots  == 0 .. NICFREE - 1
Blk0   == Block \cup {0}
Cache  == [Slots -> Blk0]
Fblk   == [nfree : 0 .. NICFREE, free : Cache]

ASSUME FreeListAssumption ==
  /\ NICFREE \in Nat \ {0}
  /\ 0 \notin Block
  /\ IsFiniteSet(Block)
  /\ Payload \subseteq Fblk

VARIABLES
  nfree, free, tfree,   \* s_nfree, s_free[], s_tfree of the open handle
  error,                \* the handle's sticky error flag
  open,                 \* a writable handle is open
  disk,                 \* contents of every data block, read as struct fblk
  sb,                   \* the free-list part of block 1 on disk
  held,                 \* blocks allocated by callers and not freed
  spine                 \* history: the spilled caches, oldest first

incore == <<nfree, free, tfree>>
vars   == <<nfree, free, tfree, error, open, disk, sb, held, spine>>

ZeroCache == [i \in Slots |-> 0]
Super     == [nfree : 0 .. NICFREE, free : Cache, tfree : Int]

(* s5fs_begin leaves a zeroed image; s5fs_freelist then frees block 0, the
   terminator, before it frees any data block.                              *)
Init ==
  /\ nfree = 1
  /\ free = ZeroCache
  /\ tfree = 0
  /\ error = FALSE
  /\ open = TRUE
  /\ disk = [b \in Block |-> [nfree |-> 0, free |-> ZeroCache]]
  /\ sb = [nfree |-> 0, free |-> ZeroCache, tfree |-> 0]
  /\ held = Block
  /\ spine = << >>

Usable == open /\ ~error

-------------------------------------------------------------------------------
(* Each definition named "slip" below is a mistake one could make in the one
   that follows it, kept to show that the properties notice.                *)

(* s5fs_put_fblk: the whole cache, stale slots included, goes into block b. *)
SlipPutFblk(b) == disk' = [disk EXCEPT ![b] = [nfree |-> nfree - 1, free |-> free]]
PutFblk(b) == disk' = [disk EXCEPT ![b] = [nfree |-> nfree, free |-> free]]

(* s5fs_get_fblk: the cache becomes what block b holds.                     *)
SlipGetFblk(b) == /\ nfree' = disk[b].nfree - 1
                  /\ free' = disk[b].free
GetFblk(b) == /\ nfree' = disk[b].nfree
              /\ free' = disk[b].free

(* s5fs_alloc.  A zero popped from the cache is the terminator: the handle
   fails for good, its cursor left at 0 and its total already decremented.
   The block popped from slot 0 is the one that chains the list.            *)
Alloc ==
  /\ Usable
  /\ nfree > 0
  /\ tfree' = tfree - 1
  /\ UNCHANGED <<open, disk, sb>>
  /\ LET bno == free[nfree - 1] IN
       \/ /\ bno = 0
          /\ nfree' = nfree - 1
          /\ error' = TRUE
          /\ UNCHANGED <<free, held, spine>>
       \/ /\ bno # 0
          /\ nfree > 1
          /\ nfree' = nfree - 1
          /\ held' = held \cup {bno}
          /\ UNCHANGED <<error, free, spine>>
       \/ /\ bno # 0
          /\ nfree = 1
          /\ GetFblk(bno)
          /\ held' = held \cup {bno}
          /\ spine' = SubSeq(spine, 1, Len(spine) - 1)
          /\ UNCHANGED error

(* s5fs_bfree of a block its caller holds.                                  *)
SlipBfree(b) ==           \* never spills
  /\ Usable
  /\ b \in held
  /\ held' = held \ {b}
  /\ tfree' = tfree + 1
  /\ free' = [free EXCEPT ![nfree] = b]
  /\ nfree' = nfree + 1
  /\ UNCHANGED <<error, open, sb, disk, spine>>
Bfree(b) ==
  /\ Usable
  /\ b \in held
  /\ held' = held \ {b}
  /\ tfree' = tfree + 1
  /\ UNCHANGED <<error, open, sb>>
  /\ \/ /\ nfree >= NICFREE
        /\ PutFblk(b)
        /\ spine' = Append(spine, free)
        /\ free' = [free EXCEPT ![0] = b]
        /\ nfree' = 1
     \/ /\ nfree < NICFREE
        /\ free' = [free EXCEPT ![nfree] = b]
        /\ nfree' = nfree + 1
        /\ UNCHANGED <<disk, spine>>

(* s5fs_wtblk by a caller, into a block it holds: file data, a directory
   block or an indirect block, whatever it reads as.                        *)
WriteData(b) ==
  /\ Usable
  /\ b \in held
  /\ \E p \in Payload : disk' = [disk EXCEPT ![b] = p]
  /\ UNCHANGED <<incore, error, open, sb, held, spine>>

(* s5fs_finish: serialise the superblock.  s5fs_wtblk writes nothing once
   the handle has failed.                                                   *)
SlipFlushSuper ==         \* the cache of the list is left as it was
  sb' = IF error THEN sb ELSE [sb EXCEPT !.nfree = nfree, !.tfree = tfree]
FlushSuper ==
  sb' = IF error THEN sb ELSE [nfree |-> nfree, free |-> free, tfree |-> tfree]

(* rw_sync, and the last step of every builder.                             *)
Sync ==
  /\ open
  /\ FlushSuper
  /\ UNCHANGED <<incore, error, open, disk, held, spine>>

(* rw_close flushes and drops the handle.  The cache keeps its last value here
   only so that Pool still says which blocks the closed volume has free: Mount
   takes everything from the disk.                                          *)
Close ==
  /\ open
  /\ FlushSuper
  /\ open' = FALSE
  /\ UNCHANGED <<incore, error, disk, held, spine>>

(* s5fs_mount: a new handle reads the superblock back.  P11_CLAMP_NFREE
   changes no count this program wrote.  What a handle that failed leaves
   behind is not this module's subject: see RWEngine.                       *)
Clamp(n) == IF n < 0 THEN 0 ELSE IF n > NICFREE THEN NICFREE ELSE n

Mount ==
  /\ ~open /\ ~error
  /\ open' = TRUE
  /\ nfree' = Clamp(sb.nfree)
  /\ free' = sb.free
  /\ tfree' = sb.tfree
  /\ UNCHANGED <<error, disk, sb, held, spine>>

Next ==
  \/ Alloc
  \/ \E b \in Block : Bfree(b)
  \/ \E b \in Block : WriteData(b)
  \/ Sync
  \/ Close
  \/ Mount

Spec == Init /\ [][Next]_vars

-------------------------------------------------------------------------------
(* The list a reader of the cache and the chain would see: segment k of the
   chain is a spilled cache, the last segment is the in-core cache.         *)
Seg(k)  == IF k <= Len(spine) THEN spine[k] ELSE free
Live    == {s \in (1 .. Len(spine) + 1) \X Slots :
              s[1] = Len(spine) + 1 => s[2] < nfree}
List    == [s \in Live |-> Seg(s[1])[s[2]]]
Pool    == {List[s] : s \in Live} \ {0}

(* Types of the handle, of the disk and of the history.                     *)
TypeOK ==
  /\ nfree \in 0 .. NICFREE
  /\ free \in Cache
  /\ tfree \in Int
  /\ error \in BOOLEAN
  /\ open \in BOOLEAN
  /\ disk \in [Block -> Fblk]
  /\ sb \in Super
  /\ held \in SUBSET Block
  /\ spine \in Seq(Cache)

(* Every spilled cache is still on disk, whole, in the block that the next
   segment names in its slot 0: no caller's write has reached a chain block,
   and no reload can find anything but what was spilled (s5fs_core.c
   put_fblk / get_fblk).                                                    *)
ChainOnDisk ==
  \A k \in 1 .. Len(spine) :
    disk[Seg(k + 1)[0]] = [nfree |-> NICFREE, free |-> spine[k]]

(* No block is listed twice, the terminator stands at the very bottom of the
   list and nowhere else, and a listed block is nobody's: s5fs_alloc hands
   out neither a block in use nor the same block twice.                     *)
NoDoubleUse ==
  /\ \A s, t \in Live : List[s] = List[t] => s = t
  /\ \A s \in Live : List[s] = 0 <=> s = <<1, 0>>
  /\ Pool \cap held = {}

(* No data block is lost: it is on the list or held.                        *)
NoneLost == Pool \cup held = Block

(* s_tfree is the number of blocks on the list (until the handle fails).    *)
TotalExact == ~error => tfree = Cardinality(Pool)

(* A handle that has been closed can be reopened on the same list.          *)
SuperCurrent ==
  ~open /\ ~error => sb = [nfree |-> nfree, free |-> free, tfree |-> tfree]

(* fsck on a volume that has just been closed: its walk of the chain meets no
   diagnostic and its partition check balances (cmd_fsck.c phases 2 and 3
   against the allocator of s5fs_core.c).                                   *)
Walker == INSTANCE FsckWalk
FsckClean ==
  ~open /\ ~error => Walker!FsckBlocks(disk, sb, held) = {}

(* The inductive invariant that carries the above.                          *)
ListInv ==
  /\ ~error => nfree > 0
  /\ error => nfree = 0 /\ spine = << >>
  /\ ChainOnDisk
  /\ NoDoubleUse
  /\ NoneLost
  /\ SuperCurrent

(* The allocator keeps the promise of BlockPool: it fails only when no block
   is free, and closing and reopening the volume changes nothing.           *)
Abstract == INSTANCE BlockPool WITH pool <- Pool, total <- tfree, failed <- error
PoolSpec == Abstract!PoolSpec
===============================================================================
