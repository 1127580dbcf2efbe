------------------------------- MODULE Namespace -------------------------------
(***************************************************************************)
(* What the mutation engine promises of names: a tree of links in which    *)
(* every operation happens whole or not at all.  No blocks, slots, link    *)
(* counts or write orders.  RWEngine implements it until its handle fails. *)
(***************************************************************************)
EXTENDS FiniteSets

CONSTANTS Inode,       \* inode numbers a name may stand for
          Top,         \* the root directory
          Label        \* names

VARIABLES kind,        \* what each inode is: "none", "file" or "dir"
          links,       \* the names: [dir, name, ino]
          failed       \* the handle's sticky error

nsVars == <<kind, links, failed>>

Link == [dir : Inode, name : Label, ino : Inode]

(* The links of directory d; those that stand where l stands or would.      *)
Under(d) == {m \in links : m.dir = d}
Place(l) == {m \in links : m.dir = l.dir /\ m.name = l.name}

(* Make a new file or directory.                                            *)
Make(l) ==
  /\ kind[l.dir] = "dir" /\ kind[l.ino] = "none"
  /\ Place(l) = {}
  /\ links' = links \cup {l}
  /\ \E k \in {"file", "dir"} : kind' = [kind EXCEPT ![l.ino] = k]

(* Remove a file or an empty directory.                                     *)
Remove(l) ==
  /\ Under(l.ino) = {}
  /\ links' = links \ {l}
  /\ kind' = [kind EXCEPT ![l.ino] = "none"]

(* Directory a is d or above it.                                            *)
Covers(a, d) ==
  LET below == {<<m.ino, m.dir>> : m \in links} IN
  \E S \in SUBSET Inode :
    /\ {a, d} \subseteq S
    /\ \A x \in S \ {a} : \E y \in S : <<x, y>> \in below

(* Move a name, replacing a file by a file or an empty directory by a
   directory.  A directory never moves below itself.                        *)
Move(m, l) ==
  /\ l.ino = m.ino
  /\ kind[l.dir] = "dir"
  /\ kind[m.ino] = "dir" => ~Covers(m.ino, l.dir)
  /\ \A r \in Place(l) : kind[r.ino] = kind[m.ino] /\ Under(r.ino) = {}
  /\ links' = (links \ ({m} \cup Place(l))) \cup {l}
  /\ kind' = [i \in Inode |-> IF \E r \in Place(l) : r.ino = i THEN "none" ELSE kind[i]]

(* The link an operation enters is the one the next state has more.         *)
Operate ==
  /\ ~failed /\ failed' = FALSE
  /\ LET old == links \ links'
         new == links' \ links
     IN \/ \E l \in new \cap Link : Make(l)
        \/ \E l \in old : Remove(l)
        \/ \E m \in old, l \in new \cap Link : Move(m, l)

(* A call that fails half way promises nothing about names.                 *)
Break == ~failed /\ failed' = TRUE

NsInit ==
  /\ failed = FALSE
  /\ \E lf \in Inode \ {Top}, n \in Label :
       /\ kind = [i \in Inode |-> IF i \in {Top, lf} THEN "dir" ELSE "none"]
       /\ links = {[dir |-> Top, name |-> n, ino |-> lf]}

NsSpec == NsInit /\ [][Operate \/ Break]_nsVars

-------------------------------------------------------------------------------
Typed ==
  /\ kind \in [Inode -> {"none", "file", "dir"}]
  /\ links \subseteq Link

(* A link stands in a directory and leads to something, but never to the top.*)
Ends ==
  /\ kind[Top] = "dir"
  /\ \A l \in links : kind[l.dir] = "dir" /\ kind[l.ino] # "none" /\ l.ino # Top

(* Whatever there is has one name, and a name one meaning.                  *)
OneName ==
  /\ \A i \in Inode \ {Top} : kind[i] # "none" => \E l \in links : l.ino = i
  /\ \A l, m \in links : l.ino = m.ino => l = m
  /\ \A l, m \in links : l.dir = m.dir /\ l.name = m.name => l = m

(* Every set of directories without the top is entered from outside it: none
   is cut off from the top, and none lies below itself.                     *)
Directories == {i \in Inode : kind[i] = "dir"}
Entered(S) == \E l \in links : l.ino \in S /\ l.dir \notin S
Rooted == \A S \in SUBSET Directories : S # {} /\ Top \notin S => Entered(S)

Tree == Typed /\ Ends /\ OneName /\ Rooted
(* The names form one tree under the top, until a call fails.               *)
TreeOfNames == ~failed => Tree
================================================================================
