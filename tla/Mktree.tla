--------------------------------- MODULE Mktree ---------------------------------
(***************************************************************************)
(* s5fs mktree (cmd_mktree.c): an image from a directory of the host.      *)
(* host gives each directory of the host, by its number, its entries in    *)
(* the order readdir has them; an entry has a name, a kind ("other" for    *)
(* symlinks and special files), the number of the directory or file, and   *)
(* the blocks in it.  Files with two entries are hard links.  devspec is   *)
(* empty without -D, and else holds one list, the names in the file that   *)
(* -D names: none of them if it cannot be opened.                          *)
(***************************************************************************)
EXTENDS Builder

HOSTROOT == 1
HostEntry(name, kind, num, size) ==
  [name |-> name, kind |-> kind, num |-> num, size |-> size]
HostFiles(host) ==
  UNION {{en.num : en \in {x \in ToSet(host[d]) : x.kind = "file"}} : d \in DOMAIN host}
Linked(host, f) ==
  \E d, e \in DOMAIN host : \E x \in DOMAIN host[d], y \in DOMAIN host[e] :
    /\ <<d, x>> # <<e, y>>
    /\ host[d][x].kind = "file" /\ host[e][y].kind = "file"
    /\ host[d][x].num = f /\ host[e][y].num = f

-------------------------------------------------------------------------------
(* s is the build so far: the volume, the last inode number given out, and the
   number of each file with more links (hl_add), 0 if none.                 *)
Ialloc(s) == [s EXCEPT !.ino = @ + 1]

(* The readdir loop of build_dir, which stores nothing yet: kids so far.     *)
Kid(q, ino, kind, en) == Append(q, [en EXCEPT !.kind = kind] @@ [ino |-> ino])
SlipGather(s, host, en) ==             \* the number is not remembered
  [Ialloc(s) EXCEPT !.kids = Kid(@, s.ino + 1, en.kind, en)]
Gather(s, host, en) ==
  IF en.kind = "file" /\ Linked(host, en.num)
  THEN IF s.hl[en.num] # 0
       THEN [s EXCEPT !.kids = Kid(@, s.hl[en.num], "hardlink", en)]
       ELSE [Ialloc(s) EXCEPT !.hl[en.num] = s.ino + 1, !.kids = Kid(@, s.ino + 1, "file", en)]
  ELSE [Ialloc(s) EXCEPT !.kids = Kid(@, s.ino + 1, en.kind, en)]
GatherAll(s, host, d, root, devspec) ==
  FoldLeft(LAMBDA q, en : Gather(q, host, en),
           [s EXCEPT !.kids = << >>],
           SelectSeq(host[d], LAMBDA en :
             /\ ~(root /\ en.name = LostFound)
             /\ ~(root /\ devspec # << >> /\ en.name = "dev")
             /\ en.kind # "other"
             /\ en.name # LongName))

(* At the root, lost+found and /dev follow.                                  *)
Synthesized(s, devspec) ==
  LET lf == [Ialloc(s) EXCEPT !.kids =
               Kid(@, s.ino + 1, "lostfound", HostEntry(LostFound, "dir", 0, 0))]
  IN IF devspec = << >> THEN lf
     ELSE [Ialloc(lf) EXCEPT !.kids = Kid(@, lf.ino + 1, "dev", HostEntry("dev", "dir", 0, 0))]

-------------------------------------------------------------------------------
(* store_regfile; a file that cannot be opened is skipped, its entry stays.  *)
StoreRegfile(v, k, unreadable) ==
  IF k.num \in unreadable THEN v
  ELSE StoreFile(v, k.ino, 1, [l \in 1 .. k.size |-> Data(k.num, l - 1)])

(* s5fs_bumplink.                                                            *)
Bumplink(v, i) == SetIno(v, i, [v.ino[i] EXCEPT !.nlink = @ + 1])

(* build_devdir: all numbers, then the directory, then the nodes.           *)
BuildDevdir(s, ino, parent, names) ==
  LET num(x) == s.ino + x
      dir == StoreDir(s.v, ino, parent, 2,
                      [x \in DOMAIN names |-> [ino |-> num(x), name |-> names[x]]])
  IN [s EXCEPT !.ino = @ + Len(names),
               !.v = FoldLeft(LAMBDA v, x : StoreDev(v, num(x), 1), dir,
                              [x \in DOMAIN names |-> x])]

(* build_dir: the directory with all its entries, then what they name, in
   order, until the handle fails.                                           *)
RECURSIVE BuildDir(_, _, _, _, _, _, _, _)
BuildKid(s, host, unreadable, k, parent, devspec) ==
  IF s.v.error THEN s
  ELSE CASE k.kind = "hardlink"  -> [s EXCEPT !.v = Bumplink(@, k.ino)]
         [] k.kind = "lostfound" -> [s EXCEPT !.v = StoreDir(@, k.ino, parent, 2, << >>)]
         [] k.kind = "dev"       -> BuildDevdir(s, k.ino, parent, devspec[1])
         [] k.kind = "dir"       -> BuildDir(s, host, unreadable, k.num, k.ino, parent, FALSE, << >>)
         [] k.kind = "file"      -> [s EXCEPT !.v = StoreRegfile(@, k, unreadable)]
WithDir(s, ino, parent) ==
  [s EXCEPT !.v =
     StoreDir(@, ino, parent,
              2 + Len(SelectSeq(s.kids, LAMBDA k : k.kind \in {"dir", "lostfound", "dev"})),
              [x \in DOMAIN s.kids |-> [ino |-> s.kids[x].ino, name |-> s.kids[x].name]])]
BuildKids(s, host, unreadable, ino, parent, devspec) ==
  FoldLeft(LAMBDA q, k : BuildKid(q, host, unreadable, k, ino, devspec),
           WithDir(s, ino, parent), s.kids)
BuildDir(s, host, unreadable, d, ino, parent, root, devspec) ==
  LET all == GatherAll(s, host, d, root, devspec)
  IN IF d \in unreadable THEN s
     ELSE BuildKids(IF root THEN Synthesized(all, devspec) ELSE all,
                    host, unreadable, ino, parent, devspec)

(* mktree.                                                                   *)
Mktree(host, unreadable, devspec, order) ==
  Sync(BuildDir([v |-> Begun(order), ino |-> ROOTINO,
                 hl |-> [f \in HostFiles(host) |-> 0], kids |-> << >>],
                host, unreadable, HOSTROOT, ROOTINO, ROOTINO, TRUE, devspec).v)
=================================================================================
