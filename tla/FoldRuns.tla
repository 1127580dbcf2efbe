------------------------------- MODULE FoldRuns -------------------------------
(***************************************************************************)
(* What FoldLeft computes, step by step.  The library defines a fold by a  *)
(* function over the sets of indices, of which nothing is known but that   *)
(* it solves its equation.  Here it is shown that the equation has a       *)
(* solution, and that any solution passes through the values one expects:  *)
(* base, Op of base and the first element, and so on.  An invariant of the *)
(* fold then follows by induction on the steps.  Op is a parameter: a      *)
(* module instantiates this one with the operator it folds.                *)
(***************************************************************************)
EXTENDS Integers, WellFoundedInduction, TLAPS

CONSTANT Op(_, _, _)     \* a parameter of the step, the value so far, the element

(* Induction over the naturals, for a set: a number outside it would have a
   least one.                                                               *)
LEMMA NatSetInduction ==
  ASSUME NEW S, 0 \in S, \A n \in Nat : n \in S => n + 1 \in S
  PROVE  \A n \in Nat : n \in S
<1> DEFINE R == {ss \in Nat \X Nat : ss[1] < ss[2]}
           T == {n \in Nat : n \notin S}
<1>1. IsWellFoundedOn(R, Nat)
  BY NatLessThanWellFounded DEF OpToRel
<1> SUFFICES ASSUME T # {} PROVE FALSE
  OBVIOUS
<1>2. PICK m \in T : \A y \in T : <<y, m>> \notin R
  <2>1. T \subseteq Nat
    OBVIOUS
  <2> HIDE DEF R, T
  <2> QED BY <1>1, <2>1, WFMin
<1>3. m - 1 \in Nat
  OBVIOUS
<1>4. m - 1 \notin T
  <2>1. <<m - 1, m>> \in R
    BY <1>3
  <2> QED
    BY <1>2, <2>1
<1>5. m - 1 + 1 \in S
  BY <1>3, <1>4
<1> QED
  BY <1>5

(* The same up to a bound.                                                   *)
LEMMA UpTo ==
  ASSUME NEW n \in Nat, NEW S, 0 \in S, \A k \in 1 .. n : k - 1 \in S => k \in S
  PROVE  n \in S
<1> DEFINE T == {k \in Nat : k <= n => k \in S}
<1>1. 0 \in T
  OBVIOUS
<1>2. ASSUME NEW k \in Nat, k \in T PROVE k + 1 \in T
  <2>1. CASE k + 1 <= n
    <3>1. k + 1 \in 1 .. n /\ (k + 1) - 1 = k /\ k \in S
      BY <1>2, <2>1
    <3>2. k + 1 \in S
      BY <3>1
    <3> QED BY <3>2
  <2>2. CASE ~(k + 1 <= n)
    BY <2>2
  <2> QED BY <2>1, <2>2
<1>3. n \in T
  <2> HIDE DEF T
  <2> QED BY <1>1, <1>2, NatSetInduction
<1> QED BY <1>3

(* A nonempty set of indices has a greatest element.                         *)
LEMMA Greatest ==
  ASSUME NEW n \in Nat, NEW s \in SUBSET (1 .. n), s # {}
  PROVE  \E x \in s : \A y \in s : x >= y
<1> DEFINE S == {k \in Nat : \A t \in SUBSET (1 .. k) :
                               t # {} => \E x \in t : \A y \in t : x >= y}
<1>1. 0 \in S
  <2>1. 1 .. 0 = {}
    OBVIOUS
  <2> QED BY <2>1
<1>2. ASSUME NEW k \in Nat, k \in S PROVE k + 1 \in S
  <2> SUFFICES ASSUME NEW t \in SUBSET (1 .. k + 1), t # {}
               PROVE  \E x \in t : \A y \in t : x >= y
    OBVIOUS
  <2>1. CASE k + 1 \in t
    BY <2>1
  <2>2. CASE k + 1 \notin t
    <3>1. t \in SUBSET (1 .. k)
      BY <2>2
    <3> QED BY <3>1, <1>2
  <2> QED BY <2>1, <2>2
<1>3. n \in S
  <2> HIDE DEF S
  <2> QED BY <1>1, <1>2, NatSetInduction
<1> QED BY <1>3

(* f gives the value folded over each set of indices, where the new index is
   above all the others.                                                    *)
Steps(f, p, base, q, n) ==
  /\ f = [s \in SUBSET (1 .. n) |-> f[s]]
  /\ f[{}] = base
  /\ \A k \in 1 .. n : \A s \in SUBSET (1 .. k - 1) :
       f[s \cup {k}] = Op(p, f[s], q[k])

(* There is such a function: one index more extends it.                      *)
LEMMA StepsExist ==
  ASSUME NEW p, NEW base, NEW q, NEW n \in Nat
  PROVE  \E f : Steps(f, p, base, q, n)
<1> DEFINE S == {k \in Nat : \E f : Steps(f, p, base, q, k)}
<1>1. 0 \in S
  <2>1. Steps([s \in SUBSET (1 .. 0) |-> base], p, base, q, 0)
    BY DEF Steps
  <2> QED BY <2>1
<1>2. ASSUME NEW k \in Nat, k \in S PROVE k + 1 \in S
  <2>1. PICK f : Steps(f, p, base, q, k)
    BY <1>2
  <2> DEFINE g == [s \in SUBSET (1 .. k + 1) |->
                     IF k + 1 \in s THEN Op(p, f[s \ {k + 1}], q[k + 1]) ELSE f[s]]
  <2>2. g[{}] = base
    BY <2>1 DEF Steps
  <2>3. ASSUME NEW j \in 1 .. k + 1, NEW s \in SUBSET (1 .. j - 1)
        PROVE  g[s \cup {j}] = Op(p, g[s], q[j])
    <3>1. s \cup {j} \in SUBSET (1 .. k + 1) /\ s \in SUBSET (1 .. k) /\ k + 1 \notin s
      OBVIOUS
    <3>2. g[s] = f[s]
      BY <3>1
    <3>3. CASE j = k + 1
      <4>1. (s \cup {j}) \ {k + 1} = s
        BY <3>1, <3>3
      <4>2. g[s \cup {j}] = Op(p, f[(s \cup {j}) \ {k + 1}], q[k + 1])
        BY <3>1, <3>3
      <4> QED BY <3>2, <3>3, <4>1, <4>2
    <3>4. CASE j # k + 1
      <4>1. k + 1 \notin s \cup {j} /\ j \in 1 .. k
        BY <3>1, <3>4
      <4>2. g[s \cup {j}] = f[s \cup {j}]
        BY <3>1, <4>1
      <4>3. f[s \cup {j}] = Op(p, f[s], q[j])
        BY <2>1, <4>1 DEF Steps
      <4> QED BY <3>2, <4>2, <4>3
    <3> QED BY <3>3, <3>4
  <2>4. g = [s \in SUBSET (1 .. k + 1) |-> g[s]]
    OBVIOUS
  <2>5. Steps(g, p, base, q, k + 1)
    <3> HIDE DEF g
    <3> QED BY <2>2, <2>3, <2>4 DEF Steps
  <2>6. k + 1 \in Nat
    OBVIOUS
  <2> QED BY <2>5, <2>6
<1>3. n \in S
  <2> HIDE DEF S
  <2> QED BY <1>1, <1>2, NatSetInduction
<1> QED BY <1>3

(* The greatest element mx[s] of each set of indices: what taking it off
   leaves lies below it, and of a prefix it is the last.                    *)
Picks(mx, n) ==
  \A s \in SUBSET (1 .. n) : s # {} => mx[s] \in s /\ \A y \in s : mx[s] >= y

(* What is left of a set of indices without its greatest lies below that.    *)
LEMMA Below ==
  ASSUME NEW n \in Nat, NEW s \in SUBSET (1 .. n), NEW x \in s, \A y \in s : x >= y
  PROVE  x \in 1 .. n /\ s \ {x} \in SUBSET (1 .. x - 1) /\ s = (s \ {x}) \cup {x}
OBVIOUS

(* The prefixes of the indices, and what they are without their last.        *)
LEMMA Prefix ==
  ASSUME NEW n \in Nat, NEW k \in 1 .. n
  PROVE  /\ 1 .. k # {} /\ 1 .. k \in SUBSET (1 .. n) /\ k \in 1 .. k
         /\ 1 .. k - 1 \in SUBSET (1 .. n) /\ (1 .. k) \ {k} = 1 .. k - 1
<1>1. \A x \in 1 .. k : x \in 1 .. n
  OBVIOUS
<1>2. \A x \in 1 .. k - 1 : x \in 1 .. n
  OBVIOUS
<1>3. \A x : x \in (1 .. k) \ {k} <=> x \in 1 .. k - 1
  OBVIOUS
<1>4. k \in 1 .. k
  OBVIOUS
<1> QED BY <1>1, <1>2, <1>3, <1>4

(* The equation of the library's fold.                                       *)
Folded(f, p, base, q, mx, n) ==
  f = [s \in SUBSET (1 .. n) |->
         IF s = {} THEN base ELSE Op(p, f[s \ {mx[s]}], q[mx[s]])]

(* The equation has a solution, so what the library chooses is one.          *)
LEMMA FoldedExists ==
  ASSUME NEW p, NEW base, NEW q, NEW n \in Nat, NEW mx, Picks(mx, n)
  PROVE  \E f : Folded(f, p, base, q, mx, n)
<1>1. PICK f : Steps(f, p, base, q, n)
  BY StepsExist
<1>2. ASSUME NEW s \in SUBSET (1 .. n), s # {}
      PROVE  f[s] = Op(p, f[s \ {mx[s]}], q[mx[s]])
  <2> DEFINE x == mx[s]
  <2>1. x \in s /\ \A y \in s : x >= y
    BY <1>2 DEF Picks
  <2> HIDE DEF x
  <2>2. x \in 1 .. n /\ s \ {x} \in SUBSET (1 .. x - 1) /\ s = (s \ {x}) \cup {x}
    BY <2>1, Below
  <2>3. f[(s \ {x}) \cup {x}] = Op(p, f[s \ {x}], q[x])
    BY <1>1, <2>2 DEF Steps
  <2>4. f[s] = Op(p, f[s \ {x}], q[x])
    BY <2>2, <2>3
  <2> QED BY <2>4 DEF x
<1>3. Folded(f, p, base, q, mx, n)
  BY <1>1, <1>2 DEF Folded, Steps
<1> QED BY <1>3

(* The values a fold passes through.                                         *)
IsRun(r, p, base, q, n) ==
  r[0] = base /\ \A k \in 1 .. n : r[k] = Op(p, r[k - 1], q[k])

(* Any solution of the equation ends where the steps, taken one by one, end. *)
LEMMA RunOfFolded ==
  ASSUME NEW p, NEW base, NEW q, NEW n \in Nat, NEW mx, Picks(mx, n),
         NEW f, Folded(f, p, base, q, mx, n)
  PROVE  \E r : IsRun(r, p, base, q, n) /\ f[1 .. n] = r[n]
<1> DEFINE r == [k \in 0 .. n |-> f[1 .. k]]
<1>1. f[{}] = base
  BY DEF Folded
<1>2. 1 .. 0 = {}
  OBVIOUS
<1>3. ASSUME NEW k \in 1 .. n PROVE f[1 .. k] = Op(p, f[1 .. k - 1], q[k])
  <2>1. /\ 1 .. k # {} /\ 1 .. k \in SUBSET (1 .. n) /\ k \in 1 .. k
        /\ (1 .. k) \ {k} = 1 .. k - 1
    BY Prefix
  <2>2. mx[1 .. k] \in 1 .. k /\ \A y \in 1 .. k : mx[1 .. k] >= y
    BY <2>1 DEF Picks
  <2>3. \A x \in 1 .. k : x >= k => x = k
    OBVIOUS
  <2>4. mx[1 .. k] = k
    BY <2>1, <2>2, <2>3
  <2> QED BY <2>1, <2>4 DEF Folded
<1>4. r[0] = base
  BY <1>1, <1>2
<1>5. \A k \in 1 .. n : r[k] = Op(p, r[k - 1], q[k])
  BY <1>3
<1>6. f[1 .. n] = r[n]
  OBVIOUS
<1> HIDE DEF r
<1> QED BY <1>4, <1>5, <1>6 DEF IsRun

(* FoldLeft(Op, base, q) over a q of n elements, as the library computes it.  *)
Leftmost(s) == CHOOSE x \in s : \A y \in s : x >= y
Left(p, base, q, n) ==
  LET iter[s \in SUBSET (1 .. n)] ==
        IF s = {} THEN base ELSE Op(p, iter[s \ {Leftmost(s)}], q[Leftmost(s)])
  IN iter[1 .. n]

(* So it is where a run ends.                                                *)
LEMMA LeftRun ==
  ASSUME NEW p, NEW base, NEW q, NEW n \in Nat
  PROVE  \E r : IsRun(r, p, base, q, n) /\ Left(p, base, q, n) = r[n]
<1> DEFINE mx == [s \in SUBSET (1 .. n) |-> Leftmost(s)]
           Body(f) == [s \in SUBSET (1 .. n) |->
                         IF s = {} THEN base ELSE Op(p, f[s \ {Leftmost(s)}], q[Leftmost(s)])]
           it == CHOOSE f : f = Body(f)
<1>1. Picks(mx, n)
  <2>1. ASSUME NEW s \in SUBSET (1 .. n), s # {}
        PROVE  Leftmost(s) \in s /\ \A y \in s : Leftmost(s) >= y
    BY <2>1, Greatest DEF Leftmost
  <2> QED BY <2>1 DEF Picks
<1>2. \A f : Folded(f, p, base, q, mx, n) <=> f = Body(f)
  BY DEF Folded
<1>3. it = Body(it)
  <2> HIDE DEF Body, mx
  <2> QED BY <1>1, <1>2, FoldedExists
<1>4. Left(p, base, q, n) = it[1 .. n]
  BY DEF Left
<1> HIDE DEF it
<1>5. Folded(it, p, base, q, mx, n)
  BY <1>2, <1>3
<1> HIDE DEF mx
<1>6. PICK r : IsRun(r, p, base, q, n) /\ it[1 .. n] = r[n]
  BY <1>1, <1>5, RunOfFolded
<1> QED BY <1>4, <1>6
===============================================================================
