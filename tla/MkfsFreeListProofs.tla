-------------------------- MODULE MkfsFreeListProofs --------------------------
(***************************************************************************)
(* For every volume size, i-list size, stride and group size: mkfs frees   *)
(* no block twice and none outside the data region, and leaves out at most *)
(* the volume's last block.                                                *)
(*                                                                         *)
(* The permutation loop is right because the offsets placed are distinct   *)
(* and counted: when n are placed none is left.  The sweep is right because*)
(* what is freed is always exactly the data blocks from d up to the top of *)
(* the highest group, and those of the current group already reached.      *)
(***************************************************************************)
EXTENDS MkfsFreeList, FiniteSetTheorems, TLAPS

Placed == {o \in Offset : flg[o]}

(* adr[0..j-1] lists, once each, the offsets that are taken.                *)
PermInv ==
  /\ \A k \in 0 .. j - 1 : adr[k] \in 1 .. fn /\ flg[adr[k] - 1]
  /\ \A k, l \in 0 .. j - 1 : adr[k] = adr[l] => k = l
  /\ \A o \in Offset : flg[o] => \E k \in 0 .. j - 1 : adr[k] = o + 1
  /\ Cardinality(Placed) = j

PhaseInv ==
  /\ pc = "permute" => i \in Offset /\ \A b \in 0 .. fsize - 1 : times[b] = 0
  /\ pc # "permute" => j = fn /\ d % fn = 0 /\ d <= Highest
  /\ pc = "done" => d = 0

(* The blocks the sweep has reached.                                        *)
Reached(b) == b >= d \/ \E k \in 0 .. i - 1 : b = d - adr[k]
SweepInv ==
  pc # "permute" => \A b \in 0 .. fsize - 1 :
    times[b] = IF b \in DataBlock /\ b < Highest /\ Reached(b) THEN 1 ELSE 0

IInv == TypeOK /\ PermInv /\ PhaseInv /\ SweepInv

-------------------------------------------------------------------------------
(* Arithmetic: a multiple leaves no remainder.                               *)
LEMMA Multiple ==
  ASSUME NEW n \in Nat \ {0}, NEW k \in Int PROVE (n * k) % n = 0
OBVIOUS

(* Arithmetic of groups: the top of the highest group is the first multiple
   of n from x up, and stepping down by n keeps to multiples.               *)
LEMMA TopOfGroups ==
  ASSUME NEW x \in Nat, NEW n \in Nat \ {0}
  PROVE  /\ x + ((-x) % n) \in Nat
         /\ x + ((-x) % n) >= x
         /\ (x + ((-x) % n)) % n = 0
         /\ x + ((-x) % n) = x <=> x % n = 0
<1> DEFINE r == (-x) % n
           q == (-x) \div n
<1>1. q \in Int /\ r \in 0 .. n - 1 /\ -x = n * q + r
  OBVIOUS
<1>2. x + r = n * (-q) /\ -q \in Int
  BY <1>1
<1>3. (x + r) % n = 0
  <2>1. (n * (-q)) % n = 0
    BY <1>2, Multiple
  <2> QED
    BY <1>2, <2>1
<1>4. r = 0 => x % n = 0
  BY <1>3
<1>5. ASSUME x % n = 0 PROVE r = 0
  <2>1. x = n * (x \div n) /\ x \div n \in Int
    BY <1>5
  <2>2. PICK k \in Int : x = n * k
    BY <2>1
  <2>3. -k \in Int /\ -x = n * (-k)
    BY <2>2
  <2>4. (n * (-k)) % n = 0
    BY <2>3, Multiple
  <2> QED
    BY <2>3, <2>4
<1> QED
  BY <1>1, <1>3, <1>4, <1>5

(* Arithmetic: the multiple below a multiple.                                *)
LEMMA GroupBelow ==
  ASSUME NEW x \in Nat, NEW n \in Nat \ {0}, x > 0, x % n = 0
  PROVE  x - n \in Nat /\ (x - n) % n = 0
<1>1. PICK k \in Int : x = k * n
  <2>1. x = (x \div n) * n /\ x \div n \in Int
    OBVIOUS
  <2> QED
    BY <2>1
<1>2. k >= 1
  BY <1>1
<1>3. x - n = n * (k - 1) /\ n * (k - 1) >= 0
  BY <1>1, <1>2
<1>4. (n * (k - 1)) % n = 0
  BY Multiple
<1> QED
  BY <1>3, <1>4

(* Offsets that are counted n times over n are all of them.                 *)
LEMMA AllPlaced ==
  ASSUME TypeOK, PermInv, j = fn
  PROVE  \A o \in Offset : \E k \in 0 .. fn - 1 : adr[k] = o + 1
<1>1. IsFiniteSet(Offset) /\ Cardinality(Offset) = fn
  BY FS_Interval DEF TypeOK, Offset
<1>2. Placed \subseteq Offset /\ Cardinality(Placed) = Cardinality(Offset)
  BY <1>1 DEF Placed, PermInv
<1>3. Placed = Offset
  BY <1>1, <1>2, FS_Subset
<1> QED
  BY <1>3 DEF Placed, PermInv

-------------------------------------------------------------------------------
(* One lemma for the initial states and one for each action.                 *)
LEMMA InitInv == Init => IInv
<1> SUFFICES ASSUME Init PROVE IInv
  OBVIOUS
<1>1. TypeOK
  <2>1. \A n \in OptN : ClampN(n) \in 1 .. MAXFN
    BY MkfsAssumption DEF ClampN
  <2>2. \A m \in OptM : ClampM(m, fn) \in Nat \ {0}
    BY MkfsAssumption, <2>1 DEF ClampM, Init
  <2> QED
    BY <2>1, <2>2, MkfsAssumption DEF TypeOK, Init, Offset
<1>2. PermInv
  <2>1. Placed = {}
    BY DEF Placed, Init
  <2> QED
    BY <2>1, FS_EmptySet DEF PermInv, Init, Offset
<1>3. PhaseInv
  BY <1>1 DEF PhaseInv, Init, Offset, TypeOK
<1>4. SweepInv
  BY DEF SweepInv, Init
<1> QED
  BY <1>1, <1>2, <1>3, <1>4 DEF IInv

(* The offset at i has a place already: i moves on.                          *)
LEMMA ProbeStep == IInv /\ Probe => IInv'
<1> SUFFICES ASSUME IInv, Probe PROVE IInv'
  OBVIOUS
<1> USE DEF IInv, Probe, params
<1>1. i' \in Offset
  BY DEF TypeOK, Offset, PhaseInv
<1>2. TypeOK'
  BY <1>1 DEF TypeOK, Offset
<1>3. PermInv'
  BY DEF PermInv, Placed, Offset
<1>4. PhaseInv'
  BY <1>1 DEF PhaseInv, Offset
<1>5. SweepInv'
  BY DEF SweepInv
<1> QED
  BY <1>2, <1>3, <1>4, <1>5

(* An offset gets its place in the interleave.                               *)
LEMMA PlaceStep == IInv /\ Place => IInv'
<1> SUFFICES ASSUME IInv, Place PROVE IInv'
  OBVIOUS
<1> USE DEF IInv, Place, params
<1>1. i \in Offset /\ i' \in Offset /\ j \in Offset
  BY DEF TypeOK, Offset, PhaseInv
<1>2. TypeOK'
  BY <1>1 DEF TypeOK, Offset
<1>3. PermInv'
  <2>1. \A k \in 0 .. j - 1 : adr'[k] = adr[k] /\ adr[k] # i + 1
    <3> SUFFICES ASSUME NEW k \in 0 .. j - 1 PROVE adr'[k] = adr[k] /\ adr[k] # i + 1
      OBVIOUS
    <3>1. k # j /\ k \in Offset
      BY <1>1 DEF TypeOK, Offset
    <3>2. adr[k] \in 1 .. fn /\ flg[adr[k] - 1]
      BY DEF PermInv
    <3>3. adr[k] # i + 1
      <4> SUFFICES ASSUME adr[k] = i + 1 PROVE FALSE
        OBVIOUS
      <4>1. adr[k] - 1 = i
        BY <1>1 DEF Offset
      <4> QED
        BY <3>2, <4>1
    <3> QED
      BY <3>1, <3>3 DEF TypeOK
  <2>2. adr'[j] = i + 1
    BY <1>1 DEF TypeOK
  <2>3. \A k \in 0 .. j' - 1 : k \in 0 .. j - 1 \/ k = j
    BY DEF TypeOK
  <2>4. \A k \in 0 .. j' - 1 : adr'[k] \in 1 .. fn' /\ flg'[adr'[k] - 1]
    BY <1>1, <2>1, <2>2, <2>3 DEF TypeOK, PermInv, Offset
  <2>5. \A k, l \in 0 .. j' - 1 : adr'[k] = adr'[l] => k = l
    BY <2>1, <2>2, <2>3 DEF PermInv
  <2>6. \A o \in Offset' : flg'[o] => \E k \in 0 .. j' - 1 : adr'[k] = o + 1
    <3> SUFFICES ASSUME NEW o \in Offset, flg'[o]
                 PROVE  \E k \in 0 .. j' - 1 : adr'[k] = o + 1
      BY DEF Offset
    <3>1. CASE o = i
      BY <3>1, <2>2, <1>1 DEF Offset, TypeOK
    <3>2. CASE o # i
      <4>1. flg[o]
        BY <3>2, <1>1 DEF TypeOK
      <4>2. PICK k \in 0 .. j - 1 : adr[k] = o + 1
        BY <4>1 DEF PermInv
      <4> QED
        BY <4>2, <2>1 DEF TypeOK
    <3> QED
      BY <3>1, <3>2
  <2>7. Cardinality(Placed') = j'
    <3>1. Placed' = Placed \cup {i} /\ i \notin Placed
      BY <1>1 DEF Placed, Offset, TypeOK
    <3>2. IsFiniteSet(Placed)
      <4>1. IsFiniteSet(Offset)
        BY FS_Interval DEF Offset, TypeOK
      <4> QED
        BY <4>1, FS_Subset DEF Placed
    <3> QED
      BY <3>1, <3>2, FS_AddElement DEF PermInv
  <2> QED
    BY <2>4, <2>5, <2>6, <2>7 DEF PermInv
<1>4. PhaseInv'
  BY <1>1 DEF PhaseInv, Offset
<1>5. SweepInv'
  BY DEF SweepInv
<1> QED
  BY <1>2, <1>3, <1>4, <1>5

(* The permutation is complete and the sweep starts at the highest group.    *)
LEMMA StartStep == IInv /\ StartSweep => IInv'
<1> SUFFICES ASSUME IInv, StartSweep PROVE IInv'
  OBVIOUS
<1> USE DEF IInv, StartSweep, params
<1>1. Highest \in Nat /\ Highest % fn = 0 /\ Highest' = Highest
  <2>1. fsize - 1 \in Nat /\ fn \in Nat \ {0}
    BY DEF TypeOK
  <2>2. /\ (fsize - 1) + ((-(fsize - 1)) % fn) \in Nat
        /\ ((fsize - 1) + ((-(fsize - 1)) % fn)) % fn = 0
    BY ONLY <2>1, TopOfGroups
  <2>3. Highest \in Nat /\ Highest % fn = 0
    BY <2>2 DEF Highest
  <2> QED
    BY <2>3 DEF Highest
<1>2. TypeOK'
  BY <1>1 DEF TypeOK, Offset
<1>3. PermInv'
  BY DEF PermInv, Placed, Offset
<1>4. PhaseInv'
  BY <1>1 DEF PhaseInv
<1>5. SweepInv'
  BY <1>1, <1>2 DEF SweepInv, PhaseInv, TypeOK, Reached
<1> QED
  BY <1>2, <1>3, <1>4, <1>5
(* The block at i of the group is counted if it is a data block.             *)
LEMMA SweepStep == IInv /\ Sweep => IInv'
<1> SUFFICES ASSUME IInv, Sweep PROVE IInv'
  OBVIOUS
<1> USE DEF IInv, Sweep, params
<1> DEFINE f == d - adr[i]
<1>1. i \in 0 .. fn - 1 /\ j = fn /\ adr[i] \in 1 .. fn /\ f < d
  BY DEF TypeOK, PhaseInv, PermInv
<1>2. \A k \in 0 .. i - 1 : f # d - adr[k]
  BY <1>1 DEF TypeOK, PermInv
<1>3. Highest' = Highest /\ Highest \in Int /\ d \in Nat /\ d <= Highest /\ f \in Int
  BY <1>1 DEF TypeOK, PhaseInv, Highest
<1>4. IsData(f) <=> f \in DataBlock
  BY <1>3 DEF IsData, DataBlock, TypeOK
<1>5. DataBlock \subseteq 0 .. fsize - 1
  BY DEF DataBlock, TypeOK
<1>6. TypeOK'
  BY <1>1, <1>4, <1>5 DEF TypeOK, Offset
<1>7. PermInv'
  BY DEF PermInv, Placed, Offset
<1>8. PhaseInv'
  BY <1>3 DEF PhaseInv
<1>9. SweepInv'
  <2> SUFFICES ASSUME NEW b \in 0 .. fsize - 1
               PROVE  times'[b] = IF b \in DataBlock /\ b < Highest /\ Reached(b)' THEN 1 ELSE 0
    BY <1>3 DEF SweepInv, DataBlock
  <2>1. times[b] = IF b \in DataBlock /\ b < Highest /\ Reached(b) THEN 1 ELSE 0
    BY DEF SweepInv
  <2>2. Reached(b)' <=> Reached(b) \/ b = f
    BY <1>1 DEF Reached, TypeOK
  <2>3. CASE b # f
    <3>1. times'[b] = times[b]
      BY <2>3 DEF TypeOK
    <3> QED
      BY <2>1, <2>2, <2>3, <3>1
  <2>4. CASE b = f
    <3>1. ~Reached(b) /\ b < Highest
      BY <2>4, <1>1, <1>2, <1>3 DEF Reached
    <3>2. times'[b] = IF b \in DataBlock THEN 1 ELSE 0
      BY <2>1, <2>4, <3>1, <1>4 DEF TypeOK
    <3> QED
      BY <2>2, <2>4, <3>1, <3>2
  <2> QED
    BY <2>3, <2>4
<1> QED
  BY <1>6, <1>7, <1>8, <1>9

(* The sweep goes on to the group below.                                     *)
LEMMA NextGroupStep == IInv /\ NextGroup => IInv'
<1> SUFFICES ASSUME IInv, NextGroup PROVE IInv'
  OBVIOUS
<1> USE DEF IInv, NextGroup, params
<1>1. d - fn \in Nat /\ (d - fn) % fn = 0
  BY GroupBelow DEF TypeOK, PhaseInv
<1>2. Highest' = Highest /\ Highest \in Int /\ DataBlock' = DataBlock
  BY DEF Highest, DataBlock, TypeOK
<1>3. TypeOK'
  BY <1>1 DEF TypeOK, Offset
<1>4. PermInv'
  BY DEF PermInv, Placed, Offset
<1>5. PhaseInv'
  BY <1>1, <1>2 DEF PhaseInv, TypeOK
<1>6. SweepInv'
  <2> SUFFICES ASSUME NEW b \in 0 .. fsize - 1
               PROVE  Reached(b)' <=> Reached(b)
    BY <1>2 DEF SweepInv
  <2>1. Reached(b)' <=> b >= d - fn
    BY DEF Reached
  <2>2. Reached(b) => b >= d - fn
    BY DEF Reached, TypeOK, PermInv, PhaseInv
  <2>3. ASSUME b >= d - fn, b < d PROVE Reached(b)
    <3>1. d - b - 1 \in Offset
      BY <2>3 DEF Offset, TypeOK
    <3>2. PICK k \in 0 .. fn - 1 : adr[k] = d - b - 1 + 1
      BY <3>1, AllPlaced DEF PhaseInv
    <3> QED
      BY <3>2 DEF Reached, TypeOK
  <2> QED
    BY <2>1, <2>2, <2>3 DEF Reached, TypeOK
<1> QED
  BY <1>3, <1>4, <1>5, <1>6

(* The sweep is over.                                                        *)
LEMMA FinishStep == IInv /\ Finish => IInv'
<1> SUFFICES ASSUME IInv, Finish PROVE IInv'
  OBVIOUS
<1> USE DEF IInv, Finish, params
<1>1. TypeOK' /\ PermInv'
  BY DEF TypeOK, PermInv, Placed, Offset
<1>2. PhaseInv'
  BY DEF PhaseInv, TypeOK, Highest
<1>3. SweepInv'
  BY DEF SweepInv, Reached, Highest, DataBlock
<1> QED
  BY <1>1, <1>2, <1>3

(* Nothing moves.                                                            *)
LEMMA StutterStep == IInv /\ UNCHANGED vars => IInv'
<1> SUFFICES ASSUME IInv, UNCHANGED vars PROVE IInv'
  OBVIOUS
<1> USE DEF IInv, vars
<1>1. TypeOK' /\ PermInv'
  BY DEF TypeOK, PermInv, Placed, Offset
<1>2. PhaseInv' /\ SweepInv'
  BY DEF PhaseInv, SweepInv, Reached, Highest, DataBlock, Offset
<1> QED
  BY <1>1, <1>2

(* The invariant holds throughout the format.                                *)
LEMMA Invariance == Spec => []IInv
<1>1. IInv /\ [Next]_vars => IInv'
  BY ProbeStep, PlaceStep, StartStep, SweepStep, NextGroupStep, FinishStep,
     StutterStep DEF Next
<1> QED
  BY InitInv, <1>1, PTL DEF Spec

-------------------------------------------------------------------------------
(* The types of s5fs_freelist's state: the interleave clamps give a group of at
   least one block, every index stays in its array, and d never drops below
   0 between groups.                                                        *)
THEOREM TypeCorrect == Spec => []TypeOK
<1>1. IInv => TypeOK
  BY DEF IInv
<1> QED
  BY Invariance, <1>1, PTL

(* No block is freed twice and none outside the data region, while the list is
   built and after (s5fs_freelist's calls of s5fs_bfree).                   *)
THEOREM NoBlockTwice == Spec => []AtMostOnce
<1>1. IInv => AtMostOnce
  BY DEF IInv, AtMostOnce, SweepInv, PhaseInv, TypeOK
<1> QED
  BY Invariance, <1>1, PTL

(* The finished list holds every data block but the last of a volume whose size
   is one more than a multiple of n (s5fs_freelist's start of the sweep).   *)
THEOREM CoverageCorrect == Spec => []Coverage
<1>1. IInv => Coverage
  <2> SUFFICES ASSUME IInv, pc = "done", NEW b \in DataBlock
               PROVE  times[b] = 0 <=> b = fsize - 1 /\ (fsize - 1) % fn = 0
    BY DEF Coverage
  <2> USE DEF IInv
  <2>1. fsize - 1 \in Nat /\ fn \in Nat \ {0} /\ b \in 0 .. fsize - 1
    BY DEF TypeOK, DataBlock
  <2>2. /\ Highest \in Nat /\ Highest >= fsize - 1
        /\ Highest = fsize - 1 <=> (fsize - 1) % fn = 0
    <3>1. LET x == fsize - 1 IN
            /\ x + ((-x) % fn) \in Nat /\ x + ((-x) % fn) >= x
            /\ x + ((-x) % fn) = x <=> x % fn = 0
      BY ONLY <2>1, TopOfGroups
    <3> QED
      BY <3>1 DEF Highest
  <2>3. times[b] = IF b < Highest THEN 1 ELSE 0
    BY <2>1 DEF SweepInv, Reached, PhaseInv
  <2> QED
    BY <2>1, <2>2, <2>3
<1> QED
  BY Invariance, <1>1, PTL
===============================================================================
