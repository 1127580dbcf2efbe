---------------------------------- MODULE Tar ----------------------------------
(***************************************************************************)
(* s5fs tar (cmd_tar.c): an image from an archive and an archive from an   *)
(* image.  An entry has a type ("sym" for all that have no place on an     *)
(* s5fs), a path, the path it links to, and the blocks of its data.        *)
(***************************************************************************)
EXTENDS Tree

TarEntry(type, path, link, data) ==
  [type |-> type, path |-> path, link |-> link, data |-> data]

(* The body of parse_tar's loop.  The path is looked up, and entered, before
   the type is: a path refused for its length leaves the directories before
   it, and one that leads through no directory is entered twice.            *)
Become(w, e) ==
  LET t == [w.t EXCEPT ![w.at].kind = e.type]
  IN IF e.type = "link" THEN [t EXCEPT ![w.at].linkto = TreeFind(t, e.link)]
     ELSE IF e.type = "reg" THEN [t EXCEPT ![w.at].data = e.data]
     ELSE t
EnterAgain(w, e) == IF w.at = 0 THEN w.t ELSE Become(TreeInsert(w.t, e.path), e)
SlipParseEntry(t, e) ==                \* what is there already is kept
  IF e.type = "sym" \/ TreeFind(t, e.path) # 0 THEN t
  ELSE EnterAgain(TreeInsert(t, e.path), e)
ParseEntry(t, e) ==
  IF e.type = "sym" THEN t
  ELSE IF TreeFind(t, e.path) # 0 THEN Become(TreeInsert(t, e.path), e)
  ELSE EnterAgain(TreeInsert(t, e.path), e)

(* tar x.                                                                    *)
Extracted(archive, order) ==
  Sync(Serialize(Begun(order), FoldLeft(ParseEntry, TreeRoot, archive)))

-------------------------------------------------------------------------------
(* tar c.  s is the archive so far, the directories entered (fsr_walk_enter),
   and the path each file with more links was first met under (thl).        *)
SlipTarFile(v, s, i, path) ==          \* every name is a file of its own
  [s EXCEPT !.out = Append(@, TarEntry("reg", path, << >>,
                [x \in 1 .. v.ino[i].size |-> ReadAt(v, v.ino[i].addr, x - 1)]))]
TarFile(v, s, i, path) ==
  LET rec == v.ino[i]
      known == {x \in DOMAIN s.thl : s.thl[x].ino = i}
  IN IF rec.nlink > 1 /\ known # {}
     THEN [s EXCEPT !.out = Append(@, TarEntry("link", path,
                                        s.thl[CHOOSE x \in known : TRUE].path, << >>))]
     ELSE [s EXCEPT !.out = Append(@, TarEntry("reg", path, << >>,
                                 [x \in 1 .. rec.size |-> ReadAt(v, rec.addr, x - 1)])),
                    !.thl = IF rec.nlink > 1 THEN Append(@, [ino |-> i, path |-> path]) ELSE @]

RECURSIVE TarWalk(_, _, _, _)
TarEmit(v, s, i, path) ==
  IF v.ino[i].mode = "file" THEN TarFile(v, s, i, path)
  ELSE IF v.ino[i].mode = "dir"
  THEN TarWalk(v, [s EXCEPT !.out = Append(@, TarEntry("dir", path, << >>, << >>))], i, path)
  ELSE IF v.ino[i].mode = "dev"
  THEN [s EXCEPT !.out = Append(@, TarEntry("dev", path, << >>, << >>))]
  ELSE s
TarWalk(v, s, d, prefix) ==
  IF d \in s.seen THEN s
  ELSE FoldLeft(LAMBDA q, en : IF en.name \in {".", ".."} \/ en.ino \notin Ino THEN q
                               ELSE TarEmit(v, q, en.ino, Append(prefix, en.name)),
                [s EXCEPT !.seen = @ \cup {d}], Entries(v, d))
Archived(v) ==
  TarWalk(v, [out |-> << >>, seen |-> {}, thl |-> << >>], ROOTINO, << >>).out
===============================================================================
