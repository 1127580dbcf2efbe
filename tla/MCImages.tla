------------------------------- MODULE MCImages -------------------------------
(***************************************************************************)
(* What is in a volume made from an archive or a directory of the host, and*)
(* what of it arrives when it is carried to another.                       *)
(***************************************************************************)
EXTENDS Images, Manifest, TLC

MCJunk == {0, Stray, 2}

MCShapes ==
  {[type |-> e[1], path |-> e[2], link |-> e[3], n |-> e[4]] : e \in
     {<<"dir", << >>, << >>, 0>>, <<"dir", <<"a">>, << >>, 0>>,
      <<"reg", <<"a">>, << >>, 1>>, <<"reg", <<"b">>, << >>, 3>>,
      <<"reg", <<"a", "b">>, << >>, 0>>, <<"reg", <<"b", "..", "b">>, << >>, 1>>,
      <<"reg", <<"b", "long">>, << >>, 1>>, <<"dev", <<"b">>, << >>, 0>>,
      <<"link", <<"lf">>, <<"a">>, 0>>, <<"link", <<"b">>, <<"a", "b">>, 0>>,
      <<"link", <<"a">>, <<"b">>, 0>>, <<"sym", <<"a">>, << >>, 0>>}}

(* Directories of the host: two files, each under several names, a directory
   with more entries and one below it, a symlink, a name too long, and names
   that mktree makes itself.                                                *)
Entry(name, kind, num) == HostEntry(name, kind, num, IF num = 12 THEN 3 ELSE 1)
RootEntries ==
  {Entry("a", "file", 11), Entry("b", "file", 11),
   Entry("c", "dir", 2), Entry("c", "other", 13), Entry("lf", "dir", 2),
   Entry("long", "file", 12), Entry("dev", "file", 12)}
Distinct(q) == \A x, y \in DOMAIN q : x # y => q[x].name # q[y].name
RootSeqs == {q \in UNION {[1 .. n -> RootEntries] : n \in 0 .. 3} : Distinct(q)}
Uses(q, num) == \E en \in ToSet(q) : en.num = num
Inner ==
  {<<sub, deep>> \in
     {<< >>, <<Entry("a", "file", 11)>>, <<Entry("a", "file", 12), Entry("c", "dir", 3)>>,
      <<Entry("c", "dir", 3), Entry("b", "file", 11)>>}
     \X {<< >>, <<Entry("a", "file", 11)>>} : Uses(sub, 3) \/ deep = << >>}
MCHosts ==
  {[host |-> <<h[1], h[2][1], h[2][2]>>, unreadable |-> m[1], devspec |-> m[2]] :
     h \in {q \in RootSeqs \X Inner : Uses(q[1], 2) \/ q[2] = <<<< >>, << >>>>},
     m \in {<<{}, << >>>>, <<{2}, << >>>>, <<{11}, << >>>>, <<{}, <<<<"a">>>>>>,
           <<{}, <<<< >>>>>>}}

-------------------------------------------------------------------------------
(* What a user finds on a volume: every path, with its inode, its mode and
   what it holds.                                                           *)
Content(v, i) == [l \in 0 .. v.ino[i].size - 1 |-> ReadAt(v, v.ino[i].addr, l)]
Item(v, path, i) ==
  [path |-> path, ino |-> i, mode |-> v.ino[i].mode,
   data |-> IF v.ino[i].mode = "file" THEN Content(v, i) ELSE << >>]
Kids(v, d) == {en \in ToSet(Entries(v, d)) : en.name \notin {".", ".."}
                                             /\ en.ino \in Allocated(v)}
RECURSIVE Below(_, _, _, _)
Below(v, d, path, depth) ==
  UNION {{Item(v, Append(path, en.name), en.ino)}
         \cup (IF v.ino[en.ino].mode # "dir" \/ depth = 0 THEN {}
               ELSE Below(v, en.ino, Append(path, en.name), depth - 1)) : en \in Kids(v, d)}
Items(v) == Below(v, ROOTINO, << >>, 4)
View(items) == {<<x.path, x.mode, x.data>> : x \in items}
SameFile(items) ==
  {<<x.path, y.path>> : <<x, y>> \in {q \in items \X items : q[1].ino = q[2].ino
                                                             /\ q[1].mode = "file"}}

-------------------------------------------------------------------------------
(* Archives a tar of the host would make: nothing below what is no directory,
   a link only to a file that came before.                                  *)
Taken == SelectSeq(given, LAMBDA e : e.type # "sym")
PrefixesOf(p) == {SubSeq(p, 1, n) : n \in 0 .. Len(p) - 1}
IndicesOf(p) == {x \in DOMAIN Taken : Taken[x].path = p}
WellFormed ==
  \A x \in DOMAIN Taken :
    /\ {"..", LongName} \cap ToSet(Taken[x].path) = {}
    /\ \A q \in PrefixesOf(Taken[x].path) : \A y \in IndicesOf(q) : Taken[y].type = "dir"
    /\ Taken[x].type = "link" =>
         \E y \in IndicesOf(Taken[x].link) :
           y < x /\ \A z \in IndicesOf(Taken[x].link) : Taken[z].type = "reg"
LastAt(p) == Taken[CHOOSE x \in IndicesOf(p) : \A y \in IndicesOf(p) : y <= x]
Origin(p) == IF LastAt(p).type = "link" THEN LastAt(p).link ELSE p
Promised ==
  LET paths == {e.path : e \in ToSet(Taken)}
      implied == UNION {PrefixesOf(p) : p \in paths} \ paths
      of(p) == LastAt(Origin(p))
      data(e) == IF e.type = "reg" THEN [l \in 0 .. Len(e.data) - 1 |-> e.data[l + 1]] ELSE << >>
      mode(e) == IF e.type = "reg" THEN "file" ELSE e.type
  IN {<<p, "dir", << >>>> : p \in implied \ {<< >>}}
     \cup {<<p, mode(of(p)), data(of(p))>> : p \in paths \ {<< >>}}

(* An archive gives the image it describes: every path with the last data
   entered under it, links to a file the same inode and no others.          *)
TarExact ==
  stage = "extracted" /\ ~fs.error /\ WellFormed =>
    LET items == Items(fs) IN
    /\ View(items) = Promised
    /\ SameFile(items) =
         {<<x.path, y.path>> : <<x, y>> \in
            {q \in items \X items : /\ q[1].mode = "file" /\ q[2].mode = "file"
                                    /\ Origin(q[1].path) = Origin(q[2].path)}}

-------------------------------------------------------------------------------
(* What mktree is to make of a directory of the host: the regular files and
   directories it can read, under the names that fit.                       *)
RECURSIVE HostItems(_, _, _)
HostItems(h, d, path) ==
  LET wanted(en) ==
        /\ en.kind \in {"file", "dir"} /\ en.name # LongName
        /\ path = << >> => en.name # LostFound /\ (h.devspec # << >> => en.name # "dev")
        /\ en.num \notin h.unreadable
      item(en) ==
        [path |-> Append(path, en.name), num |-> en.num,
         mode |-> en.kind,
         data |-> IF en.kind = "dir" THEN << >>
                  ELSE [l \in 0 .. en.size - 1 |-> Data(en.num, l)]]
  IN UNION {{item(en)} \cup (IF en.kind # "dir" THEN {}
                             ELSE HostItems(h, en.num, Append(path, en.name)))
            : en \in {x \in ToSet(h.host[d]) : wanted(x)}}
Synthetic(h) ==
  {<<<<LostFound>>, "dir", << >>>>}
  \cup IF h.devspec = << >> THEN {}
       ELSE {<<<<"dev">>, "dir", << >>>>}
            \cup {<<<<"dev", name>>, "dev", << >>>> : name \in ToSet(h.devspec[1])}

(* mktree stores every file and directory it can read under its path, files
   that are one on the host as one, those too that a directory not yet built
   holds, with lost+found and /dev besides.  That is what build_dir does with
   its table of links; the comment at cmd_mktree.c:12 denies it.            *)
MktreeKept ==
  stage = "built" /\ ~fs.error =>
    LET items == Items(fs)
        asked == HostItems(given, HOSTROOT, << >>)
    IN /\ View(items) = View(asked) \cup Synthetic(given)
       /\ SameFile(items) =
            {<<x.path, y.path>> : <<x, y>> \in
               {q \in asked \X asked : q[1].num = q[2].num /\ q[1].mode = "file"}}

-------------------------------------------------------------------------------
(* The files of a directory of the host in the order mktree numbers them, all
   of a directory before any below it, and in the order it stores them.     *)
Wanted(h, d) ==
  SelectSeq(h.host[d], LAMBDA en :
    /\ en.kind \in {"file", "dir"} /\ en.name # LongName
    /\ d = HOSTROOT => en.name # LostFound /\ (h.devspec # << >> => en.name # "dev"))
IsFile(en) == en.kind = "file"
RECURSIVE Numbered(_, _, _)
Numbered(h, d, path) ==
  LET here == Wanted(h, d)
      below(en) == IF IsFile(en) THEN << >> ELSE Numbered(h, en.num, Append(path, en.name))
  IN [x \in DOMAIN SelectSeq(here, IsFile) |->
        [num |-> SelectSeq(here, IsFile)[x].num,
         path |-> Append(path, SelectSeq(here, IsFile)[x].name)]]
     \o FlattenSeq([x \in DOMAIN here |-> below(here[x])])
RECURSIVE Stored(_, _, _)
Stored(h, d, path) ==
  LET here == Wanted(h, d)
      of(en) == IF IsFile(en) THEN <<[num |-> en.num, path |-> Append(path, en.name)]>>
                ELSE Stored(h, en.num, Append(path, en.name))
  IN FlattenSeq([x \in DOMAIN here |-> of(here[x])])
FirstOf(q, num) == SelectSeq(q, LAMBDA f : f.num = num)[1].path
LinkedTooSoon(h) ==
  \E f \in ToSet(Numbered(h, HOSTROOT, << >>)) :
    FirstOf(Numbered(h, HOSTROOT, << >>), f.num) # FirstOf(Stored(h, HOSTROOT, << >>), f.num)

(* Every archive, whatever its entries, gives an image fsck calls clean.  So
   does every directory of the host that can be read, with one exception: a
   hard link in a directory that comes before the file, where the count that
   s5fs_bumplink raised is overwritten when the file is stored.             *)
ImagesClean ==
  ~fs.error =>
    /\ stage = "extracted" => FsckErrors(fs) = {}
    /\ stage = "built" /\ given.unreadable = {} =>
         FsckErrors(fs) = IF LinkedTooSoon(given) THEN {"link count"} ELSE {}

-------------------------------------------------------------------------------
(* An archive of a volume, extracted, is that volume again: every path with
   what it held, holes as zeros, and hard links of files.  Only an image from
   an archive that is none of tar's own can be in the way, with two entries of
   one name in a directory or a directory under two names; and a link count
   that is too low to tell that a file has another name.                    *)
NamesUnique(v) ==
  \A d \in DirInos(v) : \A x, y \in DOMAIN Entries(v, d) :
    x # y => Entries(v, d)[x].name # Entries(v, d)[y].name
DirsOnce(v) ==
  \A d, e \in DirInos(v) : \A k \in Kids(v, d), l \in Kids(v, e) :
    k.ino = l.ino /\ k.ino \in DirInos(v) => <<d, k>> = <<e, l>>
RoundTrip ==
  stage = "again" /\ ~fs.error /\ NamesUnique(image) /\ DirsOnce(image) =>
    LET was == Items(image)
        is == Items(fs)
    IN /\ View(is) = View(was)
       /\ "link count" \notin LinkErrors(image) => SameFile(is) = SameFile(was)

-------------------------------------------------------------------------------
(* Where every address on a volume can be read, verify with the manifest of
   the volume it was made from tells whether the two have the same paths, of
   the same types and contents; except that neither command looks at further
   names of a file: with hard links, a pass says that of the only names of an
   inode alone.                                                             *)
AllReadable(v) == \A i \in Allocated(v) : ToSet(BlocksOf(v, v.ino[i].addr)) \subseteq Block
OnlyNames(items) ==
  View({x \in items : \A y \in items : y.ino = x.ino => y.path = x.path})
VerifyTells ==
  stage \in {"used", "again", "restored", "forced"} /\ ~fs.error /\ fs # Blank
  /\ AllReadable(fs) /\ NamesUnique(image) /\ NamesUnique(fs) =>
    LET was == Items(image)
        is == Items(fs)
        passes == Verified(fs, Manifested(image))
    IN /\ passes => OnlyNames(was) \subseteq View(is) /\ OnlyNames(is) \subseteq View(was)
       /\ OnlyNames(was) = View(was) /\ OnlyNames(is) = View(is) =>
            (View(is) = View(was) => passes)

(* On every volume made from an archive or a directory, ncheck lists each
   inode in use once, under a path that leads to it, and du counts what quot
   does, a file with many names once.                                       *)
WalksMeetOnce ==
  stage \in {"extracted", "built"} /\ ~fs.error =>
    LET met == ToSet(Ncheck(fs)) IN
    /\ Du(fs) = Quot(fs)
    /\ Len(Ncheck(fs)) = Cardinality({x.ino : x \in met})
    /\ Allocated(fs) \ {BADBLKINO} \subseteq {x.ino : x \in met}
    /\ \A x \in met : FoldLeft(LAMBDA d, name : Lookup(fs, d, name), ROOTINO, x.path)
                       \in IF NamesUnique(fs) THEN {x.ino} ELSE Ino

-------------------------------------------------------------------------------
(* The tape as it was made, where its records of an inode begin and end, and
   the first of its records that restore cannot read.                       *)
Restoring == stage \in {"restored", "forced"}
Whole == Dumped(image)
Least(S) == CHOOSE n \in S : \A m \in S : n <= m
HeadersFrom(tape, n) == {m \in n .. Len(tape) : tape[m].k = "header"}
StartsAt(tape, i) ==
  Least({n \in HeadersFrom(tape, 1) : tape[n].t = "inode" /\ tape[n].inum = i})
EndsBefore(tape, i) ==
  Least({n \in HeadersFrom(tape, StartsAt(tape, i)) :
           tape[n].t = "end" \/ (tape[n].t = "inode" /\ tape[n].inum # i)})
Broken ==
  Least({n \in 1 .. Len(media) + 1 :
           \/ n > Len(media)
           \/ media[n].k = "header" /\ ~media[n].sum /\ stage = "restored"})
OnTape == Allocated(image) \ {BADBLKINO}
Begins(tape, i) == StartsAt(tape, i) < Broken
Complete(tape, i) == EndsBefore(tape, i) <= Broken
Told(i) == {l \in 0 .. Blocks(image.ino[i]) - 1 : l < LADDR \/ image.ino[i].addr[LADDR] # 0}
AsItWas(i) ==
  LET was == image.ino[i]
      is == fs.ino[i]
  IN /\ <<is.mode, is.nlink, is.size>> = <<was.mode, was.nlink, was.size>>
     /\ \A l \in Told(i) : ReadAt(fs, is.addr, l) = ReadAt(image, was.addr, l)
     /\ \A l \in (0 .. Blocks(was) - 1) \ Told(i) : Bmap(fs, is.addr, l) \in Junk

(* restore makes every inode whose first header it comes to, and none after a
   tape breaks off or a header does not verify, unless -f; those that it could
   read to the end are as they were, save in blocks past the last address the
   tape tells, which are whatever memory held.  A tape that breaks before its
   first inode makes nothing.                                               *)
ReadableRestored ==
  Restoring /\ ~fs.error =>
    LET tape == Whole
        begun == {i \in OnTape : Begins(tape, i)}
    IN IF begun = {} THEN fs = Blank
       ELSE /\ Allocated(fs) = begun \cup {BADBLKINO}
            /\ \A i \in begun : Complete(tape, i) => AsItWas(i)

(* Where the tape tells of every block, what is restored has its blocks to
   itself, and the whole tape gives a volume just as clean as the one dumped.*)
AllTold(i) == Cardinality(Told(i)) = Blocks(image.ino[i])
===============================================================================
