-------------------------------- MODULE Session --------------------------------
(***************************************************************************)
(* A volume over several processes: calls of the engine, the last of them  *)
(* killed between two of its block writes or failing for want of space, a  *)
(* second handle on the same image that is only closed, inodes cleared by  *)
(* hand, and then a repair, which may be killed and run again.  A volume   *)
(* that needs one is repaired before it is used again: nothing in the code *)
(* sees to that, the manual asks for it.                                   *)
(***************************************************************************)
EXTENDS Repair

CONSTANTS MaxCalls,     \* calls before the one that is watched
          MaxClears     \* inodes cleared by hand

VARIABLES phase,        \* what has happened to the volume last
          calls,
          before,       \* the volume before that
          whole,        \* and as it would be had all of it happened
          copied        \* of a last copy: the inode read, the one written, and
                      \* what the latter's name was entered in
svars == <<fs, phase, calls, before, whole, copied>>

NBLOCKS == Cardinality(Block)

ASSUME SessionAssumption ==
  Block = 1 .. NBLOCKS /\ MaxCalls \in Nat /\ MaxClears \in Nat

(* Every data block, from the last to the first.                            *)
Order == [x \in 1 .. NBLOCKS |-> NBLOCKS + 1 - x]

-------------------------------------------------------------------------------
(* One write of a call reaching the disk, and the first n of them.          *)
Apply(v, x) ==
  IF x.k = "blk" THEN [v EXCEPT !.blk[x.b] = x.c]
  ELSE IF x.k = "ino" THEN [v EXCEPT !.ino[x.i] = x.r]
  ELSE IF x.k = "sb" THEN [v EXCEPT !.sb = x.r]
  ELSE [v EXCEPT !.ino = [j \in Ino |-> IF j \in IlistBlock(x.i) THEN x.r[j] ELSE @[j]]]
AfterWrites(v, w, n) == Mount(FoldLeft(Apply, v, SubSeq(w, 1, n)))

Fresh == Formatted(Order)

(* A deeper tree, as five calls leave it: three directories, each in the one
   before, the innermost with the lowest number, for it took the place of a
   file first created in lost+found and removed.                            *)
Made(v, i, d, name) == Entered(DirAdd(WriteNewDir(Alloc(v), i, d), d, name, i), d)
Deep == LET v == Made(Made(Fresh, 5, ROOTINO, "a"), 6, 5, "a")
        IN Made(v, 4, 6, "a")

SessionInit ==
  /\ \/ fs = Fresh /\ calls = 0
     \/ NINO >= 6 /\ fs = Deep /\ calls = MaxCalls
  /\ phase = "up" /\ before = fs /\ whole = fs /\ copied = << >>

Call ==
  /\ phase = "up" /\ calls < MaxCalls
  /\ Operation /\ ~fs'.error
  /\ calls' = calls + 1 /\ before' = fs' /\ whole' = fs'
  /\ UNCHANGED <<phase, copied>>

(* The last call, its writes recorded.                                      *)
Begin ==
  /\ phase = "up"
  /\ phase' = "last"
  /\ fs' = [fs EXCEPT !.log.on = TRUE]
  /\ UNCHANGED <<calls, before, whole, copied>>
LastCall ==
  /\ phase = "last"
  /\ Operation
  /\ phase' = "done" /\ whole' = fs'
  /\ UNCHANGED <<calls, before, copied>>
LastCopy(c, td, tl) ==
  /\ phase = "last"
  /\ Copy(c, td, tl)
  /\ phase' = "done" /\ whole' = fs'
  /\ copied' =
       IF Lookup(fs, td, tl) # 0 THEN <<c, Lookup(fs, td, tl), 0>>
       ELSE IF DoCreat(fs, td, tl, IallocScan(fs)).ok THEN <<c, IallocScan(fs), td>>
       ELSE << >>
  /\ UNCHANGED <<calls, before>>

(* Its process is killed, or its handle closed after it failed: s5fs_finish
   writes no superblock then.                                               *)
Stop ==
  /\ phase = "done"
  /\ phase' = "down"
  /\ \E n \in 1 .. Len(fs.log.w) : fs' = AfterWrites(before, fs.log.w, n)
  /\ UNCHANGED <<calls, before, whole, copied>>

(* A handle opened when the volume was new is closed without having done
   anything (rw_close): the superblock it read then goes to disk.           *)
StaleClose ==
  /\ phase = "up" /\ calls > 0
  /\ phase' = "stale"
  /\ fs' = Mount([fs EXCEPT !.sb = Fresh.sb])
  /\ UNCHANGED <<calls, before, whole, copied>>

(* mv between two mounts of one image, the second mounted just before: the
   copy goes through its handle, the unlink through the first one's, whose
   free list is the one from before the copy.  A copy that fails for space
   ends the command, as LastCopy and Stop have it, and is left out here.    *)
Handle(a, disk) ==
  [disk EXCEPT !.nfree = a.nfree, !.free = a.free, !.tfree = a.tfree, !.tinode = a.tinode,
               !.error = a.error]
MoveAcross(d, leaf, td, tl) ==
  LET c == Lookup(fs, d, leaf)
      i == Lookup(fs, td, tl)
  IN /\ phase = "up"
     /\ c \in Ino /\ CanCopy(c, td, tl, i)
     /\ LET w == Copied(fs, c, td, tl, i)
        IN /\ ~w.error /\ SlotsNamed(w, d, leaf) # {}
           /\ fs' = Unlinked(Handle(fs, w), d, leaf, c)
           /\ whole' = Unlinked(w, d, leaf, c)
           /\ before' = whole'
     /\ phase' = "stale"
     /\ UNCHANGED <<calls, copied>>

Clear(i) ==
  /\ phase \in {"up", "cleared"}
  /\ i \in Allocated(fs) \ {ROOTINO, BADBLKINO}
  /\ Cardinality(Allocated(before)) - Cardinality(Allocated(fs)) < MaxClears
  /\ phase' = "cleared"
  /\ fs' = Clri(fs, i) /\ whole' = fs'
  /\ UNCHANGED <<calls, before, copied>>

RunFsckP ==
  /\ phase \in {"down", "stale", "cleared", "halfway"}
  /\ phase' = IF phase = "halfway" THEN "resumed" ELSE "repaired"
  /\ fs' = FsckP(fs, Order)
  /\ UNCHANGED <<calls, before, whole, copied>>

(* fsck -p killed itself, between two of its writes; it will be run again.
   After a killed call only on volumes of fewer calls, to bound the states.  *)
KillFsckP ==
  /\ phase \in {"down", "cleared"}
  /\ phase = "down" => calls < MaxCalls
  /\ phase' = "halfway"
  /\ LET w == FsckP([fs EXCEPT !.log.on = TRUE], Order).log.w
     IN \E n \in 1 .. Len(w) - 1 : fs' = AfterWrites(fs, w, n)
  /\ UNCHANGED <<calls, before, whole, copied>>
RunIcheckS ==
  /\ phase = "stale"
  /\ phase' = "salvaged"
  /\ fs' = Salvage(fs, Order)
  /\ UNCHANGED <<calls, before, whole, copied>>

SessionNext ==
  \/ Call
  \/ Begin
  \/ LastCall
  \/ \E c \in Ino \ {BADBLKINO}, td \in Parents(fs), tl \in Leaves : LastCopy(c, td, tl)
  \/ Stop
  \/ StaleClose
  \/ \E d, td \in Parents(fs), leaf, tl \in Leaves : MoveAcross(d, leaf, td, tl)
  \/ \E i \in Ino : Clear(i)
  \/ RunFsckP
  \/ KillFsckP
  \/ RunIcheckS

SessionSpec == SessionInit /\ [][SessionNext]_svars
===============================================================================
