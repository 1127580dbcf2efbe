---------------------------- MODULE NamespaceProofs ----------------------------
(***************************************************************************)
(* Proofs that what Namespace promises is a tree, for every set of inodes  *)
(* and of names, finite or not.                                            *)
(***************************************************************************)
EXTENDS Namespace, TLAPS

(* Two links to one inode, or two links in one place, are one link.         *)
LEMMA SameLink ==
  ASSUME Tree, NEW l \in links, NEW m \in links,
         l.ino = m.ino \/ (l.dir = m.dir /\ l.name = m.name)
  PROVE  l = m
  BY DEF Tree, OneName

(* The first volume: the top and one directory in it.                       *)
LEMMA InitTree ==
  ASSUME Top \in Inode, NsInit
  PROVE  Tree
<1>1. PICK lf \in Inode \ {Top}, n \in Label :
        /\ kind = [i \in Inode |-> IF i \in {Top, lf} THEN "dir" ELSE "none"]
        /\ links = {[dir |-> Top, name |-> n, ino |-> lf]}
  BY DEF NsInit
<1>2. Typed
  BY <1>1 DEF Typed, Link
<1>3. Ends
  BY <1>1 DEF Ends
<1>4. OneName
  BY <1>1 DEF OneName
<1>5. Rooted
  <2> SUFFICES ASSUME NEW S \in SUBSET Directories, S # {}, Top \notin S
               PROVE  Entered(S)
    BY DEF Rooted
  <2>1. lf \in S
    BY <1>1 DEF Directories
  <2> QED
    BY <1>1, <2>1 DEF Entered
<1> QED
  BY <1>2, <1>3, <1>4, <1>5 DEF Tree

(* A file or directory made (rw_creat, rw_mkdir): nothing led to its inode, so
   nothing stood in it either.                                              *)
LEMMA MakeTree ==
  ASSUME Top \in Inode, Tree, NEW l \in (links' \ links) \cap Link, Make(l)
  PROVE  Tree'
<1>1. /\ l.dir \in Inode /\ l.ino \in Inode /\ l.name \in Label
      /\ kind[l.dir] = "dir" /\ kind[l.ino] = "none"
      /\ \A m \in links : ~(m.dir = l.dir /\ m.name = l.name)
      /\ links' = links \cup {l}
  BY DEF Make, Place, Link
<1>2. PICK k \in {"file", "dir"} : kind' = [kind EXCEPT ![l.ino] = k]
  BY DEF Make
<1>3. kind \in [Inode -> {"none", "file", "dir"}] /\ links \subseteq Link
  BY DEF Tree, Typed
<1>4. kind'[l.ino] = k /\ \A i \in Inode \ {l.ino} : kind'[i] = kind[i]
  BY <1>1, <1>2, <1>3
<1>5. \A m \in links : /\ m.dir \in Inode /\ m.ino \in Inode
                       /\ m.dir # l.ino /\ m.ino # l.ino
  BY <1>1, <1>3 DEF Tree, Ends, Link
<1>6. l.ino # Top /\ l.dir # l.ino
  BY <1>1 DEF Tree, Ends
<1>7. Typed'
  BY <1>1, <1>2, <1>3 DEF Typed
<1>8. Ends'
  BY <1>1, <1>4, <1>5, <1>6 DEF Tree, Ends
<1>9. OneName'
  BY <1>1, <1>4, <1>5, <1>6 DEF Tree, OneName
<1>10. Rooted'
  <2> SUFFICES ASSUME NEW S \in SUBSET Directories', S # {}, Top \notin S
               PROVE  Entered(S)'
    BY DEF Rooted
  <2>1. CASE S = {l.ino}
    BY <2>1, <1>1, <1>6 DEF Entered
  <2>2. CASE S # {l.ino}
    <3> DEFINE T == S \ {l.ino}
    <3>1. T # {} /\ T \in SUBSET Directories /\ Top \notin T
      BY <2>2, <1>4 DEF Directories
    <3>2. PICK m \in links : m.ino \in T /\ m.dir \notin T
      BY <3>1 DEF Tree, Rooted, Entered
    <3> QED
      BY <3>2, <1>1, <1>5 DEF Entered
  <2> QED
    BY <2>1, <2>2
<1> QED
  BY <1>7, <1>8, <1>9, <1>10 DEF Tree

(* A file or an empty directory removed (rw_unlink, rw_rmdir).               *)
LEMMA RemoveTree ==
  ASSUME Top \in Inode, Tree, NEW l \in links, Remove(l)
  PROVE  Tree'
<1>1. /\ links' = links \ {l}
      /\ kind' = [kind EXCEPT ![l.ino] = "none"]
      /\ \A m \in links : m.dir # l.ino
  BY DEF Remove, Under
<1>2. kind \in [Inode -> {"none", "file", "dir"}] /\ links \subseteq Link
  BY DEF Tree, Typed
<1>3. l.ino \in Inode /\ l.ino # Top
  BY <1>2 DEF Tree, Ends, Link
<1>4. kind'[l.ino] = "none" /\ \A i \in Inode \ {l.ino} : kind'[i] = kind[i]
  BY <1>1, <1>2, <1>3
<1>5. \A m \in links : m.dir \in Inode /\ m.ino \in Inode
  BY <1>2 DEF Link
<1>6. \A m \in links' : m \in links /\ m.ino # l.ino
  BY <1>1, SameLink
<1>7. Typed'
  BY <1>1, <1>2 DEF Typed
<1>8. Ends'
  BY <1>1, <1>3, <1>4, <1>5, <1>6 DEF Tree, Ends
<1>9. OneName'
  BY <1>1, <1>3, <1>4, <1>5, <1>6 DEF Tree, OneName
<1>10. Rooted'
  <2> SUFFICES ASSUME NEW S \in SUBSET Directories', S # {}, Top \notin S
               PROVE  Entered(S)'
    BY DEF Rooted
  <2>1. S \in SUBSET Directories /\ l.ino \notin S
    BY <1>4 DEF Directories
  <2>2. PICK m \in links : m.ino \in S /\ m.dir \notin S
    BY <2>1 DEF Tree, Rooted, Entered
  <2> QED
    BY <2>1, <2>2, <1>1 DEF Entered
<1> QED
  BY <1>7, <1>8, <1>9, <1>10 DEF Tree

(* A name moved (rw_rename).  A set that was entered through the old name
   alone, and holds the new parent, would cover the climb from there to what
   is moved; as is_ancestor found none, some other member has its parent
   outside, and that link stays.                                            *)
LEMMA MoveTree ==
  ASSUME Top \in Inode, Tree,
         NEW m \in links \ links', NEW l \in (links' \ links) \cap Link, Move(m, l)
  PROVE  Tree'
<1>1. /\ l.ino = m.ino /\ kind[l.dir] = "dir"
      /\ kind[m.ino] = "dir" => ~Covers(m.ino, l.dir)
      /\ \A r \in Place(l) : \A x \in links : x.dir # r.ino
      /\ links' = (links \ ({m} \cup Place(l))) \cup {l}
      /\ kind' = [i \in Inode |-> IF \E r \in Place(l) : r.ino = i THEN "none" ELSE kind[i]]
  BY DEF Move, Under
<1>2. kind \in [Inode -> {"none", "file", "dir"}] /\ links \subseteq Link
  BY DEF Tree, Typed
<1>3. l.dir \in Inode /\ l.name \in Label /\ l.ino \in Inode /\ l \notin links
  BY DEF Link
<1>4. \A x \in links : x.dir \in Inode /\ x.ino \in Inode /\ x.ino # Top
  BY <1>2 DEF Tree, Ends, Link
<1>5. \A r \in Place(l) : r \in links /\ r.ino # m.ino /\ r.dir = l.dir /\ r.name = l.name
  <2> SUFFICES ASSUME NEW r \in Place(l) PROVE r \in links /\ r.ino # m.ino
                                               /\ r.dir = l.dir /\ r.name = l.name
    OBVIOUS
  <2>1. r \in links /\ r.dir = l.dir /\ r.name = l.name
    BY DEF Place
  <2>2. ASSUME r.ino = m.ino PROVE FALSE
    <3>1. r \in Link
      BY <2>1, <1>2
    <3>2. r = l
      BY <3>1, <2>1, <2>2, <1>1 DEF Link
    <3> QED
      BY <3>2, <2>1, <1>3
  <2> QED
    BY <2>1, <2>2
<1>6. \A i \in Inode : kind'[i] = IF \E r \in Place(l) : r.ino = i THEN "none" ELSE kind[i]
  BY <1>1
<1>7. \A x \in links' \ {l} : /\ x \in links /\ x # m /\ x \notin Place(l)
                              /\ x.ino # m.ino
                              /\ \A r \in Place(l) : x.ino # r.ino
                              /\ ~(x.dir = l.dir /\ x.name = l.name)
  <2> SUFFICES ASSUME NEW x \in links' \ {l}
               PROVE  /\ x \in links /\ x # m /\ x \notin Place(l)
                      /\ x.ino # m.ino
                      /\ \A r \in Place(l) : x.ino # r.ino
                      /\ ~(x.dir = l.dir /\ x.name = l.name)
    OBVIOUS
  <2>1. x \in links /\ x # m /\ x \notin Place(l)
    BY <1>1
  <2> QED
    BY <2>1, <1>5, SameLink DEF Place
<1>8. l \in links'
  BY <1>1
<1>9. \A x \in links : x # m /\ x \notin Place(l) => x \in links'
  BY <1>1
<1>10. Typed'
  <2>1. kind' \in [Inode -> {"none", "file", "dir"}]
    BY <1>1, <1>2
  <2>2. links' \subseteq Link
    BY <1>1, <1>2
  <2> QED
    BY <2>1, <2>2 DEF Typed
<1>11. Ends'
  <2>1. kind'[Top] = "dir"
    BY <1>4, <1>5, <1>6 DEF Tree, Ends
  <2>2. \A r \in Place(l) : r.ino # l.dir
    BY <1>1, <1>5
  <2>3. kind'[l.dir] = "dir" /\ kind'[l.ino] # "none" /\ l.ino # Top
    BY <1>1, <1>3, <1>4, <1>5, <1>6 DEF Tree, Ends
  <2>4. ASSUME NEW x \in links' \ {l}
        PROVE  kind'[x.dir] = "dir" /\ kind'[x.ino] # "none" /\ x.ino # Top
    <3>1. x \in links /\ \A r \in Place(l) : x.dir # r.ino /\ x.ino # r.ino
      BY <1>1, <1>7
    <3>2. kind'[x.dir] = kind[x.dir] /\ kind'[x.ino] = kind[x.ino]
      BY <3>1, <1>4, <1>6
    <3> QED
      BY <3>1, <3>2 DEF Tree, Ends
  <2> QED
    BY <2>1, <2>3, <2>4 DEF Ends
<1>12. OneName'
  <2>1. ASSUME NEW i \in Inode \ {Top}, kind'[i] # "none" PROVE \E x \in links' : x.ino = i
    <3>1. kind[i] # "none" /\ \A r \in Place(l) : r.ino # i
      BY <2>1, <1>6
    <3>2. PICK x \in links : x.ino = i
      BY <3>1 DEF Tree, OneName
    <3> QED
      BY <3>1, <3>2, <1>1, <1>8, <1>9
  <2>2. \A x, y \in links' : x.ino = y.ino => x = y
    BY <1>1, <1>7 DEF Tree, OneName
  <2>3. \A x, y \in links' : x.dir = y.dir /\ x.name = y.name => x = y
    BY <1>7 DEF Tree, OneName
  <2> QED
    BY <2>1, <2>2, <2>3 DEF OneName
<1>13. Rooted'
  <2> SUFFICES ASSUME NEW S \in SUBSET Directories', S # {}, Top \notin S
               PROVE  Entered(S)'
    BY DEF Rooted
  <2>1. S \in SUBSET Directories /\ \A r \in Place(l) : r.ino \notin S
    BY <1>6 DEF Directories
  <2>2. PICK x \in links : x.ino \in S /\ x.dir \notin S
    BY <2>1 DEF Tree, Rooted, Entered
  <2>3. CASE x # m
    BY <2>1, <2>2, <2>3, <1>9 DEF Entered
  <2>4. CASE x = m /\ l.dir \notin S
    BY <2>2, <2>4, <1>1, <1>8 DEF Entered
  <2>5. CASE x = m /\ l.dir \in S
    <3>1. ~Covers(m.ino, l.dir)
      BY <2>1, <2>2, <2>5, <1>1 DEF Directories
    <3>2. PICK y \in S \ {m.ino} : \A z \in links : z.ino = y => z.dir \notin S
      <4>1. S \in SUBSET Inode /\ {m.ino, l.dir} \subseteq S
        BY <2>1, <2>2, <2>5 DEF Directories
      <4> QED
        BY <3>1, <4>1 DEF Covers
    <3>3. y \in Inode /\ y # Top /\ kind[y] # "none"
      BY <2>1 DEF Directories
    <3>4. PICK z \in links : z.ino = y
      BY <3>3 DEF Tree, OneName
    <3>5. z # m /\ z \notin Place(l)
      BY <3>2, <3>4, <2>1
    <3> QED
      BY <3>2, <3>4, <3>5, <1>9 DEF Entered
  <2> QED
    BY <2>3, <2>4, <2>5
<1> QED
  BY <1>10, <1>11, <1>12, <1>13 DEF Tree

(* Whatever is done through the mutation engine, its calls being those of
   Namespace, the names form one tree under the root: until a call fails.   *)
THEOREM NamesFormTree ==
  ASSUME Top \in Inode
  PROVE  NsSpec => []TreeOfNames
<1>1. NsInit => TreeOfNames
  BY InitTree DEF TreeOfNames
<1>2. TreeOfNames /\ [Operate \/ Break]_nsVars => TreeOfNames'
  <2> SUFFICES ASSUME TreeOfNames, [Operate \/ Break]_nsVars, ~failed' PROVE Tree'
    BY DEF TreeOfNames
  <2>1. CASE Operate
    <3>1. Tree
      BY <2>1 DEF Operate, TreeOfNames
    <3>2. CASE \E l \in (links' \ links) \cap Link : Make(l)
      BY <3>1, <3>2, MakeTree
    <3>3. CASE \E l \in links \ links' : Remove(l)
      BY <3>1, <3>3, RemoveTree
    <3>4. CASE \E m \in links \ links', l \in (links' \ links) \cap Link : Move(m, l)
      BY <3>1, <3>4, MoveTree
    <3> QED
      BY <2>1, <3>2, <3>3, <3>4 DEF Operate
  <2>2. CASE Break
    BY <2>2 DEF Break
  <2>3. CASE UNCHANGED nsVars
    <3>1. Tree
      BY <2>3 DEF TreeOfNames, nsVars
    <3> QED
      BY <2>3, <3>1 DEF nsVars, Tree, Typed, Ends, OneName, Rooted, Entered, Directories
  <2> QED
    BY <2>1, <2>2, <2>3
<1> QED
  BY <1>1, <1>2, PTL DEF NsSpec

(* In such a tree a directory is in no set of directories each of which stands
   in another of the set: it is not below itself.                           *)
COROLLARY NoLoop ==
  ASSUME Tree, NEW S \in SUBSET Directories, S # {},
         \A i \in S : \E l \in links : l.ino = i /\ l.dir \in S
  PROVE  FALSE
<1>1. Top \notin S
  BY DEF Tree, Ends
<1>2. PICK l \in links : l.ino \in S /\ l.dir \notin S
  BY <1>1 DEF Tree, Rooted, Entered
<1>3. PICK m \in links : m.ino = l.ino /\ m.dir \in S
  BY <1>2
<1> QED
  BY <1>2, <1>3, SameLink
================================================================================
