---------------------------------- MODULE Tree ----------------------------------
(***************************************************************************)
(* The tree in memory that an archive is read into, and its serializer     *)
(* (tree.c).  t is a sequence of nodes, the root first; 0 is NULL.  A node *)
(* keeps its children whatever it turns into.                              *)
(***************************************************************************)
EXTENDS Builder

NodeNew(name, kind, parent) ==
  [name |-> name, kind |-> kind, parent |-> parent, kids |-> << >>,
   linkto |-> 0, data |-> << >>]
TreeRoot == <<NodeNew("", "dir", 1)>>

DirChild(t, d, name) ==
  LET hits == IF t[d].kind # "dir" THEN << >>
              ELSE SelectSeq(t[d].kids, LAMBDA k : t[k].name = name)
  IN IF hits = << >> THEN 0 ELSE hits[1]

AddChild(w, name) ==
  LET new == Len(w.t) + 1
  IN [t |-> Append([w.t EXCEPT ![w.at].kids = Append(@, new)], NodeNew(name, "dir", w.at)),
      at |-> new]

(* walk: one component after the other; with create what is missing becomes a
   directory, below a node that is none too.                                *)
Descend(w, child, name, create) ==
  IF child # 0 THEN [w EXCEPT !.at = child]
  ELSE IF create THEN AddChild(w, name) ELSE [w EXCEPT !.at = 0]
Component(w, name, create) ==
  IF w.at = 0 \/ name = "." THEN w
  ELSE IF name = ".." THEN [w EXCEPT !.at = w.t[@].parent]
  ELSE IF name = LongName THEN [w EXCEPT !.at = 0]
  ELSE Descend(w, DirChild(w.t, w.at, name), name, create)
Walk(t, path, create) ==
  FoldLeft(LAMBDA w, name : Component(w, name, create), [t |-> t, at |-> 1], path)
TreeInsert(t, path) == Walk(t, path, TRUE)
TreeFind(t, path) == Walk(t, path, FALSE).at

-------------------------------------------------------------------------------
(* The serializer.  assign_inodes: in this order, from the root's number up. *)
RECURSIVE PreOrder(_, _)
PreOrder(t, n) ==
  IF t[n].kind = "link" THEN << >>
  ELSE <<n>> \o (IF t[n].kind # "dir" THEN << >>
                 ELSE FlattenSeq([x \in DOMAIN t[n].kids |-> PreOrder(t, t[n].kids[x])]))
NumberOf(pre, n) ==
  IF n \in ToSet(pre) THEN ROOTINO - 1 + (CHOOSE x \in DOMAIN pre : pre[x] = n) ELSE 0

(* A hard link stands for the node it leads to.                             *)
Target(t, c) == IF t[c].kind = "link" THEN t[c].linkto ELSE c

(* count_links: the entries that will name n.                               *)
SlipCountLinks(t, pre, n) ==           \* ".." is forgotten
  Cardinality({<<d, x>> \in ToSet(pre) \X (1 .. Len(t)) :
                 /\ t[d].kind = "dir"
                 /\ x \in DOMAIN t[d].kids /\ Target(t, t[d].kids[x]) = n})
  + (IF t[n].kind = "dir" THEN 1 ELSE 0)
CountLinks(t, pre, n) ==
  LET dirs == {d \in ToSet(pre) : t[d].kind = "dir"}
      named == {<<d, x>> \in dirs \X (1 .. Len(t)) :
                  x \in DOMAIN t[d].kids /\ Target(t, t[d].kids[x]) = n}
  IN Cardinality(named) + Cardinality({d \in dirs : t[d].parent = n})
       + (IF n \in dirs THEN 1 ELSE 0)

(* write_dir and write_node.                                                 *)
KidEntry(t, pre, c) ==
  LET n == Target(t, c)
  IN IF n = 0 \/ NumberOf(pre, n) = 0 THEN NoEntry
     ELSE [ino |-> NumberOf(pre, n), name |-> t[c].name]
WriteNode(v, t, pre, n) ==
  LET i == NumberOf(pre, n)
      nlink == CountLinks(t, pre, n)
  IN IF t[n].kind = "dir"
     THEN StoreDir(v, i, NumberOf(pre, t[n].parent), nlink,
                   [x \in DOMAIN t[n].kids |-> KidEntry(t, pre, t[n].kids[x])])
     ELSE IF t[n].kind = "reg" THEN StoreFile(v, i, nlink, t[n].data)
     ELSE StoreDev(v, i, nlink)
Serialize(v, t) ==
  LET pre == PreOrder(t, 1) IN FoldLeft(LAMBDA w, n : WriteNode(w, t, pre, n), v, pre)
=================================================================================
