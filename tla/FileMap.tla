-------------------------------- MODULE FileMap --------------------------------
(***************************************************************************)
(* What the block map of a file promises: a function from positions to     *)
(* blocks.  A write maps the one position it is about, a truncation unmaps *)
(* those from the new end on, and a build maps the first n.                *)
(***************************************************************************)
EXTENDS Naturals

CONSTANTS Pos,      \* positions in the file that can be mapped, from 0
          Blk,      \* blocks; 0, none of them, is a hole
          MaxLen    \* positions in all

VARIABLES map, failed
fmVars == <<map, failed>>

(* A step from the old map to the new one changes these positions.          *)
Changed(old, new) == {l \in Pos : new[l] # old[l]}

Assign(old, new, changed) ==
  \E l \in changed : /\ changed = {l}
                     /\ old[l] = 0
                     /\ new[l] \in Blk \ {old[k] : k \in Pos}

(* What changed is unmapped, and so is everything after it.                  *)
Cut(new, changed) ==
  \A l \in changed : \A k \in Pos : k >= l => new[k] = 0

Step(old, new) ==
  LET changed == Changed(old, new)
  IN Assign(old, new, changed) \/ Cut(new, changed)

FmNext ==
  /\ ~failed
  /\ \/ failed' = TRUE                    \* out of space promises nothing
     \/ failed' = FALSE /\ Step(map, map')

(* A builder fills blocks 1, 2, ... with the parts of a file, in order, and
   maps them; or there is no room, and nothing is mapped.                   *)
FmInit ==
  \/ failed = TRUE /\ map = [l \in Pos |-> 0]
  \/ /\ failed = FALSE
     /\ \E n \in Pos \cup {MaxLen} : map = [l \in Pos |-> IF l < n THEN l + 1 ELSE 0]

FmSpec == FmInit /\ [][FmNext]_fmVars
================================================================================
