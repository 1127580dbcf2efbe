-------------------------------- MODULE Manifest --------------------------------
(***************************************************************************)
(* s5fs manifest and verify (cmd_manifest.c): a line for each inode met in *)
(* a walk of the tree, and the comparison of a volume with such lines.     *)
(* The attributes of an inode but its type are left out.                   *)
(***************************************************************************)
EXTENDS RWEngine, Report

CONSTANT SUMBUF     \* blocks file_crc reads at once

(* file_crc: the checksum stands for what went into it, which is every piece
   before the first that cannot be read.                                    *)
Piece(rec, x) ==
  {l \in 0 .. rec.size - 1 : l \div SUMBUF = x - 1}
Readable(v, rec, ls) == \A l \in ls : Bmap(v, rec.addr, l) \in Block \cup {0}
Summed(v, rec) ==
  LET pieces == {x \in 1 .. rec.size : \A y \in 1 .. x : Readable(v, rec, Piece(rec, y))}
  IN [l \in UNION {Piece(rec, x) : x \in pieces} |-> ReadAt(v, rec.addr, l)]

Line(v, i, path) ==
  LET rec == v.ino[i]
  IN [path |-> path, type |-> rec.mode, size |-> rec.size,
      sum |-> IF rec.mode = "file" THEN Summed(v, rec) ELSE << >>]

(* walk, from the root, in the order of the entries, which are those of
   fsr_readdir.                                                             *)
RECURSIVE WalkFrom(_, _, _, _)
WalkFrom(v, s, i, path) ==
  LET here == [s EXCEPT !.lines = Append(@, Line(v, i, path))]
  IN IF v.ino[i].mode = "none" THEN s
     ELSE FoldLeft(LAMBDA q, en :
                     IF en.name \in {".", ".."} \/ ~MayEnter(v, q, en.ino) THEN q
                     ELSE WalkFrom(v, [q EXCEPT !.seen = @ \cup {en.ino}], en.ino,
                                   Append(path, en.name)),
                   here, Entries(v, i))
Manifested(v) == WalkFrom(v, [seen |-> {}, lines |-> << >>], ROOTINO, << >>).lines

(* verify: extra, changed and missing lines.  Only the first line of a path is
   ever compared, or seen.                                                  *)
FirstLine(lines, path) ==
  LET hits == {x \in DOMAIN lines : lines[x].path = path}
  IN IF hits = {} THEN 0 ELSE CHOOSE x \in hits : \A y \in hits : x <= y
Differs(e, m) ==
  e.type # m.type \/ (e.type = "file" /\ <<e.size, e.sum>> # <<m.size, m.sum>>)
SlipVerified(v, lines) ==                  \* nothing is ever missing
  \A e \in ToSet(Manifested(v)) :
    LET x == FirstLine(lines, e.path) IN x # 0 /\ ~Differs(e, lines[x])
Verified(v, lines) ==
  LET now == ToSet(Manifested(v))
      seen == {FirstLine(lines, e.path) : e \in now}
  IN /\ seen = DOMAIN lines
     /\ \A e \in now : ~Differs(e, lines[FirstLine(lines, e.path)])
=================================================================================
