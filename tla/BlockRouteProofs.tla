--------------------------- MODULE BlockRouteProofs ---------------------------
(***************************************************************************)
(* The route of the readers, the descent of the engine and the fill order  *)
(* of the builders are inverses of each other, for every number of direct  *)
(* addresses and every size of an indirect block.                          *)
(***************************************************************************)
EXTENDS BlockRoute, TLAPS

Digit == 0 .. NINDIR - 1

(* The index of a block below an address of level 3, from its entries.      *)
Index3(a, b, c) == (NINDIR * NINDIR) * a + NINDIR * b + c

-------------------------------------------------------------------------------
(* A larger factor makes a larger product.                                  *)
LEMMA Larger ==
  ASSUME NEW m \in Nat, NEW p \in Int, NEW q \in Int, p + 1 <= q
  PROVE  m * p + m <= m * q
<1>1. PICK k \in Nat : q = p + 1 + k
  <2>1. q - p - 1 \in Nat /\ q = p + 1 + (q - p - 1)
    OBVIOUS
  <2> QED
    BY <2>1
<1>2. m * q = m * p + m + m * k
  BY <1>1
<1>3. m * k \in Nat
  BY <1>1
<1>4. m * p \in Int /\ m * q \in Int
  OBVIOUS
<1> QED
  BY <1>2, <1>3, <1>4

(* Quotient and remainder are the only pair of their kind.                  *)
LEMMA DivisionUnique ==
  ASSUME NEW m \in Nat \ {0}, NEW q \in Nat, NEW r \in 0 .. m - 1
  PROVE  (m * q + r) \div m = q /\ (m * q + r) % m = r
<1> DEFINE x == m * q + r
           d == x \div m
           e == x % m
<1>1. m * q \in Nat /\ x \in Nat
  OBVIOUS
<1>2. d \in Int /\ e \in 0 .. m - 1 /\ x = m * d + e
  BY <1>1
<1> HIDE DEF d, e
<1>3. m * d \in Int
  BY <1>2
<1>4. ~(d + 1 <= q)
  <2> SUFFICES ASSUME d + 1 <= q PROVE FALSE
    OBVIOUS
  <2>1. m * d + m <= m * q
    BY <1>2, Larger
  <2> QED
    BY <2>1, <1>1, <1>2, <1>3
<1>5. ~(q + 1 <= d)
  <2> SUFFICES ASSUME q + 1 <= d PROVE FALSE
    OBVIOUS
  <2>1. m * q + m <= m * d
    BY <1>2, Larger
  <2> QED
    BY <2>1, <1>1, <1>2, <1>3
<1>6. d = q
  BY <1>2, <1>4, <1>5
<1>7. e = r
  BY <1>1, <1>2, <1>6
<1> QED
  BY <1>6, <1>7 DEF d, e

(* The entries of an index below an address of level 3.                     *)
LEMMA Digits ==
  ASSUME NEW a \in Digit, NEW b \in Digit, NEW c \in Digit
  PROVE  LET n == NINDIR
             idx == Index3(a, b, c)
         IN /\ idx \div (n * n) = a /\ idx % (n * n) = n * b + c
            /\ idx \div n = n * a + b /\ idx % n = c
            /\ (n * b + c) \div n = b /\ (n * b + c) % n = c
            /\ (n * a + b) % n = b
<1> DEFINE n == NINDIR
<1>1. n \in Nat \ {0}
  BY RouteAssumption
<1>2. a \in 0 .. n - 1 /\ b \in 0 .. n - 1 /\ c \in 0 .. n - 1
  BY DEF Digit
<1> HIDE DEF n
<1>3. n * n \in Nat \ {0} /\ n * a \in Nat /\ n * b \in Nat
  <2>1. n * n # 0
    BY <1>1
  <2> QED
    BY <1>1, <1>2, <2>1
<1>4. n * b + c \in 0 .. n * n - 1
  <2>1. n * b + n <= n * n
    BY <1>1, <1>2, Larger
  <2> QED
    BY <2>1, <1>1, <1>2, <1>3
<1>5. ((n * n) * a + (n * b + c)) \div (n * n) = a
      /\ ((n * n) * a + (n * b + c)) % (n * n) = n * b + c
  <2> DEFINE m == n * n
             r == n * b + c
  <2>1. m \in Nat \ {0} /\ a \in Nat /\ r \in 0 .. m - 1
    BY <1>1, <1>2, <1>3, <1>4
  <2> HIDE DEF m, r
  <2>2. (m * a + r) \div m = a /\ (m * a + r) % m = r
    BY <2>1, DivisionUnique
  <2> QED
    BY <2>2 DEF m, r
<1>6. (n * (n * a + b) + c) \div n = n * a + b /\ (n * (n * a + b) + c) % n = c
  <2>1. n * a + b \in Nat
    BY <1>2, <1>3
  <2> QED
    BY <2>1, <1>1, <1>2, DivisionUnique
<1>7. (n * b + c) \div n = b /\ (n * b + c) % n = c
  <2>1. b \in Nat
    BY <1>2
  <2> QED
    BY <2>1, <1>1, <1>2, DivisionUnique
<1>8. (n * a + b) % n = b
  <2>1. a \in Nat
    BY <1>2
  <2> QED
    BY <2>1, <1>1, <1>2, DivisionUnique
<1>9. /\ (n * n) * a + (n * b + c) = (n * n) * a + n * b + c
      /\ n * (n * a + b) + c = (n * n) * a + n * b + c
  <2>1. n * (n * a + b) = (n * n) * a + n * b
    BY <1>1, <1>2
  <2>2. (n * n) * a \in Nat
    BY <1>2, <1>3
  <2> QED
    BY <2>1, <2>2, <1>2, <1>3
<1> QED
  BY <1>5, <1>6, <1>7, <1>8, <1>9 DEF n, Index3

(* Every index below Cap(3) has three entries, those below Cap(2) and Cap(1)
   with zeros in front.                                                     *)
LEMMA HasDigits ==
  ASSUME NEW top \in Level, NEW idx \in 0 .. Cap(top) - 1
  PROVE  \E a, b, c \in Digit : /\ idx = Index3(a, b, c)
                                /\ top <= 2 => a = 0
                                /\ top = 1 => b = 0
<1> DEFINE n == NINDIR
           q == idx \div n
           c == idx % n
           a == q \div n
           b == q % n
<1>1. n \in Nat \ {0}
  BY RouteAssumption
<1>2. idx \in Nat /\ idx < Cap(top) /\ Cap(top) \in Int
  <2>1. Cap(top) \in Int
    BY <1>1 DEF Cap
  <2> QED
    BY <2>1
<1>3. q \in Nat /\ c \in 0 .. n - 1 /\ idx = n * q + c
  BY <1>1, <1>2
<1>4. a \in Nat /\ b \in 0 .. n - 1 /\ q = n * a + b
  BY <1>1, <1>3
<1> HIDE DEF n, q, a, b, c
<1>5. n * n \in Nat /\ n * q \in Nat /\ n * a \in Nat /\ (n * n) * a \in Nat
  BY <1>1, <1>3, <1>4
<1>6. idx = (n * n) * a + n * b + c
  <2>1. n * q = (n * n) * a + n * b
    BY <1>1, <1>4
  <2> QED
    BY <2>1, <1>3
<1>7. a < n
  <2> SUFFICES ASSUME n <= a PROVE FALSE
    BY <1>1, <1>4
  <2>1. (n * n) * (n - 1) + n * n <= (n * n) * a
    BY <1>1, <1>4, <1>5, Larger
  <2>2. (n * n) * (n - 1) + n * n = n * n * n
    BY <1>1
  <2>3. Cap(top) <= n * n * n
    <3>1. n <= n * n /\ n * n <= n * n * n
      <4>1. n * 0 + n <= n * n /\ (n * n) * 0 + n * n <= (n * n) * n
        BY <1>1, <1>5, Larger
      <4> QED
        BY <4>1, <1>1, <1>5
    <3> QED
      BY <3>1, <1>1, <1>5 DEF Cap, n
  <2>4. n * b \in Nat
    BY <1>1, <1>4
  <2>5. idx < n * n * n
    <3>1. n * n * n \in Nat
      BY <1>1
    <3> QED
      BY ONLY <3>1, <2>3, <1>2
  <2>6. n * n * n <= (n * n) * a
    BY ONLY <2>1, <2>2
  <2>7. (n * n) * a <= idx
    BY <2>4, <1>1, <1>3, <1>5, <1>6
  <2>8. n * n * n \in Nat
    BY <1>1
  <2> QED
    BY ONLY <2>5, <2>6, <2>7, <2>8, <1>2, <1>5
<1>8. ASSUME top <= 2 PROVE a = 0
  <2> SUFFICES ASSUME 0 + 1 <= a PROVE FALSE
    BY <1>4
  <2>1. (n * n) * 0 + n * n <= (n * n) * a
    BY <1>4, <1>5, Larger
  <2>2. Cap(top) <= n * n
    <3>1. n * 0 + n <= n * n
      BY <1>1, Larger
    <3> QED
      BY <3>1, <1>1, <1>5, <1>8 DEF Cap, n, Level
  <2>3. n * b \in Nat
    BY <1>1, <1>4
  <2>4. (n * n) * a <= idx
    BY <2>3, <1>1, <1>3, <1>5, <1>6
  <2>5. n * n <= (n * n) * a
    BY ONLY <2>1, <1>5
  <2> QED
    BY ONLY <2>2, <2>4, <2>5, <1>2, <1>5
<1>9. ASSUME top = 1 PROVE b = 0
  <2> SUFFICES ASSUME 0 + 1 <= b PROVE FALSE
    BY <1>1, <1>4
  <2>1. n * 0 + n <= n * b
    BY <1>1, <1>4, Larger
  <2>2. Cap(top) = n
    BY <1>9 DEF Cap, n
  <2> QED
    BY <2>1, <2>2, <1>1, <1>2, <1>3, <1>4, <1>5, <1>6
<1> QED
  BY <1>1, <1>3, <1>4, <1>6, <1>7, <1>8, <1>9 DEF Digit, Index3, n

(* The entries of an index, at each level the readers look at.              *)
LEMMA IndexEntries ==
  ASSUME NEW a \in Digit, NEW b \in Digit, NEW c \in Digit
  PROVE  LET idx == Index3(a, b, c)
         IN IndIndex(idx, 3) = a /\ IndIndex(idx, 2) = b /\ IndIndex(idx, 1) = c
<1> DEFINE n == NINDIR
           idx == Index3(a, b, c)
<1>1. n \in Nat \ {0} /\ a \in 0 .. n - 1 /\ b \in 0 .. n - 1 /\ c \in 0 .. n - 1
  BY RouteAssumption DEF Digit
<1>2. idx \in Nat
  <2>1. n * n \in Nat /\ n * b \in Nat
    BY <1>1
  <2>2. (n * n) * a \in Nat
    BY <2>1, <1>1
  <2> QED
    BY <2>1, <2>2, <1>1 DEF Index3
<1>3. /\ idx \div (n * n) = a /\ idx \div n = n * a + b
      /\ idx % n = c /\ (n * a + b) % n = b
  BY Digits
<1> HIDE DEF n, idx
<1>4. a % n = a
  BY <1>1
<1>5. idx \div 1 = idx
  BY <1>2
<1> QED
  BY <1>3, <1>4, <1>5 DEF IndIndex, Per, n, idx

-------------------------------------------------------------------------------
(* The engine, which divides its way down, follows the entries the readers
   compute from the whole index, at every level (ind_map and bfree_at in
   s5fs_rw.c against fsr_ind_index in fsread.c).                            *)
THEOREM EngineFollowsReaders ==
  ASSUME NEW top \in Level, NEW idx \in 0 .. Cap(top) - 1, NEW L \in 1 .. top
  PROVE  EngineIndex(idx, top, L) = IndIndex(idx, L) /\ IndIndex(idx, L) \in Digit
<1> DEFINE n == NINDIR
<1>1. PICK a \in Digit, b \in Digit, c \in Digit :
        idx = Index3(a, b, c) /\ (top <= 2 => a = 0) /\ (top = 1 => b = 0)
  BY HasDigits
<1>2. IndIndex(idx, 3) = a /\ IndIndex(idx, 2) = b /\ IndIndex(idx, 1) = c
  BY <1>1, IndexEntries
<1>3. /\ idx \div (n * n) = a /\ idx % (n * n) = n * b + c
      /\ idx \div n = n * a + b /\ idx % n = c
      /\ (n * b + c) \div n = b /\ (n * b + c) % n = c
  BY <1>1, Digits
<1>4. n \in Nat \ {0} /\ a \in Nat /\ b \in Nat /\ c \in Nat /\ n * b \in Nat
  BY RouteAssumption DEF Digit
<1>5. c \div 1 = c
  BY <1>4
<1>6. CASE top = 3
  <2>1. EngineIndex(idx, 3, 3) = a
    BY <1>3 DEF EngineIndex, Entry, Per
  <2>2. EngineIndex(idx, 3, 2) = b
    BY <1>3 DEF EngineIndex, Entry, Below, Per
  <2>3. EngineIndex(idx, 3, 1) = c
    BY <1>3, <1>5 DEF EngineIndex, Entry, Below, Per
  <2> QED
    BY <2>1, <2>2, <2>3, <1>1, <1>2, <1>6
<1>7. CASE top = 2
  <2>1. n * a = 0
    BY <1>1, <1>4, <1>7
  <2>2. EngineIndex(idx, 2, 2) = b
    BY <2>1, <1>3, <1>4 DEF EngineIndex, Entry, Per
  <2>3. EngineIndex(idx, 2, 1) = c
    BY <1>3, <1>5 DEF EngineIndex, Entry, Below, Per
  <2> QED
    BY <2>2, <2>3, <1>1, <1>2, <1>7
<1>8. CASE top = 1
  <2>1. (n * n) * a = 0 /\ n * b = 0
    BY <1>1, <1>4, <1>8
  <2>2. idx = c
    BY <2>1, <1>1, <1>4 DEF Index3
  <2>3. EngineIndex(idx, 1, 1) = c
    BY <2>2, <1>5 DEF EngineIndex, Entry, Per
  <2> QED
    BY <2>3, <1>1, <1>2, <1>8
<1> QED
  BY <1>6, <1>7, <1>8 DEF Level

(* The readers find block lbn where the builder puts it: the route of any
   block within reach leads to an address of the inode, or to entries that
   the fill order of s5fs_setblocks gives that very position.               *)
THEOREM RouteIsWhereFilled ==
  ASSUME NEW lbn \in 0 .. Reach - 1
  PROVE  LET r == Route(lbn)
             e == [L \in Level |-> IndIndex(r.idx, L)]
         IN \/ r.level = 0 /\ r.slot = lbn /\ lbn < LADDR
            \/ /\ r.level \in Level
               /\ r.slot = LADDR - 1 + r.level
               /\ r.idx \in 0 .. Cap(r.level) - 1
               /\ Filled(r.level, e) = lbn
<1> DEFINE n == NINDIR
           r == Route(lbn)
           e == [L \in Level |-> IndIndex(r.idx, L)]
<1>1. n \in Nat \ {0} /\ LADDR \in Nat
  BY RouteAssumption
<1>2. Cap(1) \in Nat /\ Cap(2) \in Nat /\ Cap(3) \in Nat
  <2>1. n * n \in Nat /\ n * n * n \in Nat
    BY <1>1
  <2> QED
    BY <1>1, <2>1 DEF Cap
<1>3. lbn \in Nat /\ lbn < LADDR + Cap(1) + Cap(2) + Cap(3)
  BY <1>1, <1>2 DEF Reach, Start
<1>4. CASE lbn < LADDR
  BY <1>4 DEF Route
<1>5. CASE ~(lbn < LADDR)
  <2>1. /\ r.level \in Level /\ r.slot = LADDR - 1 + r.level
        /\ r.idx \in 0 .. Cap(r.level) - 1 /\ lbn = Start(r.level) + r.idx
    BY <1>1, <1>2, <1>3, <1>5 DEF Route, Start, Level
  <2> HIDE DEF r
  <2>2. PICK a \in Digit, b \in Digit, c \in Digit :
          r.idx = Index3(a, b, c) /\ (r.level <= 2 => a = 0) /\ (r.level = 1 => b = 0)
    BY <2>1, HasDigits
  <2>3. e[3] = a /\ e[2] = b /\ e[1] = c
    BY <2>2, IndexEntries DEF Level
  <2> HIDE DEF e
  <2>4. a \in Nat /\ b \in Nat /\ c \in Nat /\ n * b \in Nat /\ n * n \in Nat
    BY <1>1 DEF Digit
  <2>5. (n * n) * a \in Nat /\ b * n = n * b /\ a * (n * n) = (n * n) * a
    BY <2>4, <1>1
  <2>6. Start(r.level) \in Nat
    BY <1>1, <1>2, <2>1 DEF Start
  <2>7. Filled(r.level, e) = Start(r.level) + r.idx
    <3>1. CASE r.level = 3
      BY <3>1, <2>2, <2>3, <2>4, <2>5, <2>6 DEF Filled, Per, Index3
    <3>2. CASE r.level = 2
      <4>1. (n * n) * a = 0
        BY <3>2, <2>2, <2>4
      <4> QED
        BY <4>1, <3>2, <2>2, <2>3, <2>4, <2>5, <2>6 DEF Filled, Per, Index3
    <3>3. CASE r.level = 1
      <4>1. (n * n) * a = 0 /\ n * b = 0
        BY <3>3, <2>2, <2>4, <1>1
      <4> QED
        BY <4>1, <3>3, <2>2, <2>3, <2>4, <2>5, <2>6 DEF Filled, Per, Index3
    <3> QED
      BY <3>1, <3>2, <3>3, <2>1 DEF Level
  <2> QED
    BY <2>1, <2>7 DEF r, e
<1> QED
  BY <1>4, <1>5

(* And nothing else is put where the readers look: what the builder stores at
   entries e of the tree of level top is the block the readers find there.   *)
THEOREM FilledIsRouted ==
  ASSUME NEW top \in Level, NEW e \in [Level -> Digit]
  PROVE  LET r == Route(Filled(top, e))
         IN /\ Filled(top, e) \in 0 .. Reach - 1
            /\ r.level = top /\ r.slot = LADDR - 1 + top
            /\ \A L \in 1 .. top : IndIndex(r.idx, L) = e[L]
<1> DEFINE n == NINDIR
           a == IF top = 3 THEN e[3] ELSE 0
           b == IF top >= 2 THEN e[2] ELSE 0
           c == e[1]
           idx == Index3(a, b, c)
<1>1. n \in Nat \ {0} /\ LADDR \in Nat
  BY RouteAssumption
<1>2. a \in Digit /\ b \in Digit /\ c \in Digit
  BY <1>1 DEF Digit, Level
<1>3. a \in 0 .. n - 1 /\ b \in 0 .. n - 1 /\ c \in 0 .. n - 1
  BY <1>2 DEF Digit
<1>4. (top = 3 => a = e[3]) /\ (top <= 2 => a = 0) /\ (top = 1 => b = 0)
      /\ (top >= 2 => b = e[2]) /\ c = e[1]
  BY DEF Level
<1> HIDE DEF a, b, c
<1>5. n * n \in Nat /\ n * n * n \in Nat /\ n * b \in Nat /\ n * a \in Nat
  BY <1>1, <1>3
<1>6. (n * n) * a \in Nat
  BY <1>3, <1>5
<1>7. idx = (n * n) * a + n * b + c /\ idx \in Nat
  BY <1>3, <1>5, <1>6 DEF Index3
<1> HIDE DEF idx
<1>8. Cap(1) \in Nat /\ Cap(2) \in Nat /\ Cap(3) \in Nat
  BY <1>1, <1>5 DEF Cap
<1>9. idx < Cap(top)
  <2>1. n * b + n <= n * n
    BY <1>1, <1>3, Larger
  <2>2. (n * n) * a + n * n <= n * n * n
    <3>1. (n * n) * a + n * n <= (n * n) * n
      BY <1>1, <1>3, <1>5, Larger
    <3> QED
      BY ONLY <3>1
  <2>3. CASE top = 3
    <3>1. Cap(top) = n * n * n
      BY <2>3 DEF Cap
    <3>2. c + 1 <= n
      BY <1>1, <1>3
    <3> QED
      BY ONLY <3>1, <3>2, <2>1, <2>2, <1>3, <1>5, <1>6, <1>7, <1>1
  <2>4. CASE top = 2
    <3>1. Cap(top) = n * n
      BY <2>4 DEF Cap
    <3>2. (n * n) * a = 0
      BY <2>4, <1>4, <1>5
    <3>3. c + 1 <= n
      BY <1>1, <1>3
    <3> QED
      BY ONLY <3>1, <3>2, <3>3, <2>1, <1>3, <1>5, <1>7, <1>1
  <2>5. CASE top = 1
    <3>1. (n * n) * a = 0 /\ n * b = 0
      BY <2>5, <1>4, <1>5, <1>1
    <3> QED
      BY <3>1, <2>5, <1>3, <1>7, <1>1 DEF Cap
  <2> QED
    BY <2>3, <2>4, <2>5 DEF Level
<1>10. Filled(top, e) = Start(top) + idx
  <2>1. a * (n * n) = (n * n) * a /\ b * n = n * b
    BY <1>1, <1>3, <1>5
  <2>2. Start(top) \in Nat
    BY <1>1, <1>8 DEF Start
  <2>3. CASE top = 3
    BY <2>1, <2>2, <2>3, <1>3, <1>4, <1>5, <1>6, <1>7 DEF Filled, Per
  <2>4. CASE top = 2
    <3>1. (n * n) * a = 0
      BY <2>4, <1>4, <1>5
    <3> QED
      BY <3>1, <2>1, <2>2, <2>4, <1>3, <1>4, <1>5, <1>7 DEF Filled, Per
  <2>5. CASE top = 1
    <3>1. (n * n) * a = 0 /\ n * b = 0
      BY <2>5, <1>4, <1>5, <1>1
    <3> QED
      BY <3>1, <2>2, <2>5, <1>3, <1>4, <1>7 DEF Filled
  <2> QED
    BY <2>3, <2>4, <2>5 DEF Level
<1>11. Route(Filled(top, e)) = [level |-> top, slot |-> LADDR - 1 + top, idx |-> idx]
  <2>1. CASE top = 3
    BY <2>1, <1>1, <1>7, <1>8, <1>9, <1>10 DEF Route, Start
  <2>2. CASE top = 2
    BY <2>2, <1>1, <1>7, <1>8, <1>9, <1>10 DEF Route, Start
  <2>3. CASE top = 1
    BY <2>3, <1>1, <1>7, <1>8, <1>9, <1>10 DEF Route, Start
  <2> QED
    BY <2>1, <2>2, <2>3 DEF Level
<1>12. Filled(top, e) \in 0 .. Reach - 1
  BY <1>1, <1>7, <1>8, <1>9, <1>10 DEF Reach, Start, Level
<1>13. IndIndex(idx, 3) = a /\ IndIndex(idx, 2) = b /\ IndIndex(idx, 1) = c
  BY <1>2, IndexEntries DEF idx
<1> QED
  BY <1>4, <1>11, <1>12, <1>13 DEF Level
===============================================================================
