---------------------------------- MODULE Tape ----------------------------------
(***************************************************************************)
(* The records of a dump tape, and how restore goes through them           *)
(* (cmd_dump.c, cmd_restore.c).  A header says what follows it; sum tells  *)
(* whether its checksum verifies.  Any other record is a block of data.    *)
(***************************************************************************)
EXTENDS Integers, Sequences, SequencesExt

(* spclrec: flags say which of the addresses it stands for have a block.     *)
HeaderRec(t, inum, body, flags) ==
  [k |-> "header", t |-> t, inum |-> inum, body |-> body, flags |-> flags, sum |-> TRUE]
DataRec(c) == [k |-> "data", c |-> c]

(* A header for some addresses and the blocks there, disk[b] being in b.     *)
Mapped(t, inum, body, addrs, disk) ==
  LET present == SelectSeq(addrs, LAMBDA b : b # 0)
  IN <<HeaderRec(t, inum, body, [x \in DOMAIN addrs |-> addrs[x] # 0])>>
       \o [x \in DOMAIN present |-> DataRec(disk[present[x]])]

-------------------------------------------------------------------------------
(* r is where restore stands: the header it is at, if there is one, and the
   record after it.  gethead; with -f a bad checksum is passed over.        *)
SlipGethead(tape, pos, force) ==       \* the checksum is not looked at
  IF pos <= Len(tape) /\ tape[pos].k = "header"
  THEN [ok |-> TRUE, pos |-> pos + 1, hdr |-> tape[pos]]
  ELSE [ok |-> FALSE, pos |-> pos + 1, hdr |-> << >>]
Gethead(tape, pos, force) ==
  IF pos <= Len(tape) /\ tape[pos].k = "header" /\ (tape[pos].sum \/ force)
  THEN [ok |-> TRUE, pos |-> pos + 1, hdr |-> tape[pos]]
  ELSE [ok |-> FALSE, pos |-> pos + 1, hdr |-> << >>]

(* skip_map: the blocks of a map are all there.                              *)
SkipMap(tape, r, force) == Gethead(tape, r.pos + Len(r.hdr.flags), force)

(* read_blocks for a file of n blocks: da is what goes in each, so far.  The
   tape may end in the middle; once n are in, the headers that go
   on with the same file are passed over.                                   *)
Hole == [k |-> "hole"]
SlipTake(tape, s, present, n) ==       \* holes are left out
  IF ~s.ok \/ Len(s.da) >= n \/ ~present THEN s
  ELSE IF s.pos > Len(tape) THEN [s EXCEPT !.ok = FALSE]
  ELSE [s EXCEPT !.da = Append(@, tape[s.pos]), !.pos = @ + 1]
Take(tape, s, present, n) ==
  IF ~s.ok \/ Len(s.da) >= n THEN s
  ELSE IF ~present THEN [s EXCEPT !.da = Append(@, Hole)]
  ELSE IF s.pos > Len(tape) THEN [s EXCEPT !.ok = FALSE]
  ELSE [s EXCEPT !.da = Append(@, tape[s.pos]), !.pos = @ + 1]

RECURSIVE SkipAddr(_, _, _)
SkipAddr(tape, r, force) ==
  IF r.ok /\ r.hdr.t = "addr" THEN SkipAddr(tape, Gethead(tape, r.pos, force), force) ELSE r

RECURSIVE ReadOn(_, _, _, _, _)
AfterMap(tape, s, n, force, next) ==
  IF ~s.ok THEN [r |-> [s.r EXCEPT !.ok = FALSE], da |-> s.da]
  ELSE IF Len(s.da) >= n THEN [r |-> SkipAddr(tape, next, force), da |-> s.da]
  ELSE IF next.ok /\ next.hdr.t = "addr" THEN ReadOn(tape, next, s.da, n, force)
  ELSE [r |-> next, da |-> s.da]
TakeAll(tape, r, da, n) ==
  FoldLeft(LAMBDA s, present : Take(tape, s, present, n),
           [ok |-> TRUE, pos |-> r.pos, da |-> da, r |-> r], r.hdr.flags)
ReadFrom(tape, s, n, force) == AfterMap(tape, s, n, force, Gethead(tape, s.pos, force))
ReadOn(tape, r, da, n, force) == ReadFrom(tape, TakeAll(tape, r, da, n), n, force)

(* The blocks the tape has nothing to say of are never assigned: whatever the
   memory of da held becomes their addresses.                               *)
Unset == [k |-> "unset"]
Assigned(q, n) ==
  [q EXCEPT !.da = [x \in 1 .. n |-> IF x <= Len(@) THEN @[x] ELSE Unset]]
ReadBlocks(tape, r, n, force) == Assigned(ReadOn(tape, r, << >>, n, force), n)
=================================================================================
