-------------------------------- MODULE FileTape --------------------------------
(***************************************************************************)
(* One file with all its levels of indirection, dumped and restored        *)
(* (dump_inode and indir of cmd_dump.c, read_blocks of cmd_restore.c).     *)
(***************************************************************************)
EXTENDS BlockMap, Tape

(* indir, from block b of level L: a header for each block of level 1, and
   none for what is not there.                                              *)
Same == [b \in Block |-> b]
Listed(b) == [e \in 1 .. NINDIR |-> blk[b][e - 1]]
RECURSIVE Indir(_, _)
Indir(b, L) ==
  IF L = 1 THEN Mapped("addr", 1, << >>, Listed(b), Same)
  ELSE FoldLeft(LAMBDA q, d : IF d = 0 THEN q ELSE q \o Indir(d, L - 1), << >>, Listed(b))

(* dump_inode, then the end of the tape.                                     *)
DumpFile ==
  LET level(q, L) == LET d == addr[LADDR - 1 + L] IN IF d = 0 THEN q ELSE q \o Indir(d, L)
  IN FoldLeft(level, Mapped("inode", 1, << >>, [s \in 1 .. LADDR |-> addr[s - 1]], Same),
              <<1, 2, 3>>)
     \o <<HeaderRec("end", 1, << >>, << >>)>>

(* The blocks restored, for a file whose inode says it has n.                *)
RestoredFrom(tape, n) == ReadBlocks(tape, Gethead(tape, 1, FALSE), n, FALSE)

-------------------------------------------------------------------------------
(* The size of a file is at least up to its last block.                      *)
MapNow == [l \in 0 .. Reach - 1 |-> Bmap(Now, l)]
Sizes(map) == {n \in 0 .. Reach : \A l \in n .. Reach - 1 : map[l] = 0}

(* What the headers stand for, in the order of the file; the rest is behind
   an indirect block that is not there.                                     *)
Told(l) ==
  LET r == Route(l)
      below(b, L) == IF b = 0 THEN 0 ELSE blk[b][IndIndex(r.idx, L)]
      top == addr[r.slot]
  IN IF r.level = 0 THEN TRUE
     ELSE IF r.level = 1 THEN top # 0
     ELSE IF r.level = 2 THEN below(top, 2) # 0
     ELSE below(below(top, 3), 2) # 0
RestoresExactly(map, told, n, da) ==
  (\A l \in 0 .. n - 1 : da[l + 1] = IF map[l] = 0 THEN Hole ELSE DataRec(map[l]))
    <=> /\ \A l \in 0 .. n - 1 : map[l] # 0 => \A k \in 0 .. l : k \in told
        /\ n <= Cardinality(told)

(* A dump restores to the same file, block for block, just when no indirect
   block is missing before one that leads to data, and the headers go as far
   as its size: otherwise what follows the missing one moves up, and the end
   of the file is made of addresses that were never assigned.  Either way the
   tape is read to its end.                                                 *)
DumpRestores ==
  ~error =>
    LET map == MapNow
        told == {l \in 0 .. Reach - 1 : Told(l)}
        tape == DumpFile
    IN \A n \in Sizes(map) :
         LET q == RestoredFrom(tape, n)
         IN /\ q.r.ok /\ q.r.hdr.t = "end"
            /\ RestoresExactly(map, told, n, q.da)
=================================================================================
