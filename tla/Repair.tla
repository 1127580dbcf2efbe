-------------------------------- MODULE Repair --------------------------------
(***************************************************************************)
(* s5fs fsck -p, icheck -s and clri (cmd_fsck.c): the commands that change *)
(* a volume no handle has open, without the engine.  Each works on the     *)
(* disk alone; Mount is what the next process then sees.  order lists the  *)
(* data blocks from the last to the first.                                 *)
(***************************************************************************)
EXTENDS RWEngine, Fsck

(* (a) The inode number of an entry that leads to no allocated inode is zeroed,
   its name stays, in whole blocks, whatever the size of the directory; each
   directory in turn, each of its blocks written back if it changed.        *)
SlipKeeping(alloc, entries) ==             \* the whole block goes
  IF \E s \in DOMAIN entries : entries[s].ino \notin alloc \cup {0}
  THEN [s \in DOMAIN entries |-> NoEntry] ELSE entries
Keeping(alloc, entries) ==
  [s \in DOMAIN entries |->
     [entries[s] EXCEPT !.ino = IF @ \in alloc THEN @ ELSE 0]]
Dangling(v, b) ==
  \E s \in 0 .. NDIR - 1 : AsDir(v.blk[b])[s].ino \notin Allocated(v) \cup {0}
ZapBlock(v, b) ==
  IF b \in Block /\ Dangling(v, b)
  THEN SetBlk(v, b, DirBlk(Keeping(Allocated(v), AsDir(v.blk[b])))) ELSE v
SlipZap(v) == v                            \* they stay
ZapDir(v, i) ==
  IF v.ino[i].mode = "dir" THEN FoldLeft(ZapBlock, v, DirAddrs(v, i)) ELSE v
Zap(v) == FoldLeft(ZapDir, v, [i \in Ino |-> i])

(* (b) An allocated inode that is not reached is entered in lost+found, in a
   slot already there (dir_reuse_slot), and what it leads to counts as reached
   from then on.  A directory gets its new parent (ck_set_dotdot).          *)
OrphanName(i) == [ino |-> i, name |-> "#"]
SlipRehung(v, lf, i) == v                  \* ".." is left as it was
Rehung(v, lf, i) == IF v.ino[i].mode = "dir" THEN SetDotdot(v, i, lf) ELSE v
Hung(r, i, v) == [r EXCEPT !.v = v, !.reached = MarkReached(v, @ \cup {i})]
Reconnected(r, lf, i, free) ==
  IF free = {} THEN [r EXCEPT !.full = TRUE]
  ELSE Hung(r, i, Rehung(PutSlot(r.v, lf, Min(free), OrphanName(i)), lf, i))
Rescued(r, lf, i) ==
  IF r.full \/ i \in r.reached \/ r.v.ino[i].mode = "none" THEN r
  ELSE Reconnected(r, lf, i, FreeSlots(r.v, lf))
Reconnect(v, lf, reached) ==
  FoldLeft(LAMBDA r, i : Rescued(r, lf, i),
           [v |-> v, reached |-> reached, full |-> lf = 0],
           [x \in 1 .. NINO - ROOTINO |-> ROOTINO + x]).v

(* (c) Every allocated inode's count becomes what the directories now say.  *)
SetNlink(v, i, n) ==
  IF v.ino[i].mode = "none" \/ v.ino[i].nlink = n THEN v
  ELSE SetIno(v, i, [v.ino[i] EXCEPT !.nlink = n])
Recounted(v, entries) ==
  FoldLeft(LAMBDA w, i : SetNlink(w, i, LinkCount(entries, i)), v, [i \in Ino |-> i])
Recount(v) == Recounted(v, AllEntries(v))

(* The free list anew, of all blocks no inode names (rep_bfree, first for the
   terminator), and the totals.                                             *)
Unnamed(used, v, b) == IF b \in used THEN v ELSE Bfree(v, b)
Relaid(v, used, order) ==
  Sync(FoldLeft(LAMBDA w, b : Unnamed(used, w, b), Bfree(v, 0), order))
SlipRebuild(v, used, order) ==             \* the totals are not started anew
  Relaid([v EXCEPT !.nfree = 0, !.free = NoCache, !.error = FALSE], used, order)
Emptied(v) == [v EXCEPT !.nfree = 0, !.free = NoCache, !.tfree = 0, !.error = FALSE,
                        !.tinode = NINO - Cardinality(Allocated(v))]
Rebuild(v, used, order) == Relaid(Emptied(v), used, order)

(* icheck -s, and fsck -p: which inodes are reached and where lost+found is
   is found out before anything is repaired.                                *)
SlipDirectOnly(v) == [v EXCEPT !.ino = [i \in Ino |-> [@[i] EXCEPT !.addr[LADDR] = 0]]]
SlipSalvage(v, order) ==                   \* what an indirect block lists is free
  Rebuild(v, Refs(SlipDirectOnly(v)), order)
Salvage(v, order) == Rebuild(v, Refs(v), order)
SlipFsckP(v, order) ==                     \* likewise
  Rebuild(Recount(Reconnect(Zap(v), Lookup(v, ROOTINO, LostFound), Reached(v))),
          Refs(SlipDirectOnly(v)), order)
FsckP(v, order) ==
  Rebuild(Recount(Reconnect(Zap(v), Lookup(v, ROOTINO, LostFound), Reached(v))),
          Refs(v), order)

(* clri: the inode is zeroed, its blocks and its names are left.            *)
Clri(v, i) == SetIno(v, i, FreeIno)
===============================================================================
