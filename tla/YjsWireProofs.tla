--------------------------- MODULE YjsWireProofs ---------------------------
(***************************************************************************)
(* That the byte formats of YjsWire can be read back: for every group size,*)
(* width, length size and magic, and every byte string.                    *)
(*                                                                         *)
(* The definitions recurse over numbers and sequences.  Induction is used  *)
(* in its first-order form: a SET that holds 0 and n + 1 with n holds all  *)
(* naturals.  RecursionExists derives from it, once, that a function may   *)
(* be defined by recursion along a falling measure.                        *)
(***************************************************************************)
EXTENDS YjsWire, SequenceTheorems, WellFoundedInduction, TLAPS

\* A set that holds 0 and with each natural the next holds them all: the least natural
\* outside it would have one before it.
LEMMA NatSetInduction ==
  ASSUME NEW S, 0 \in S, \A n \in Nat : n \in S => n + 1 \in S
  PROVE  Nat \subseteq S
<1> DEFINE R == {ss \in Nat \X Nat : ss[1] < ss[2]}
           T == Nat \ S
<1> SUFFICES ASSUME T # {} PROVE FALSE
  OBVIOUS
<1>1. IsWellFoundedOn(R, Nat)
  BY NatLessThanWellFounded DEF OpToRel
<1>2. \A x, y \in Nat : x < y => <<x, y>> \in R
  OBVIOUS
<1> HIDE DEF R
<1>3. PICK x \in T : \A y \in T : ~(<<y, x>> \in R)
  BY <1>1, WFMin
<1>4. x \in Nat /\ x # 0
  OBVIOUS
<1>5. x - 1 \in Nat /\ x - 1 < x /\ (x - 1) + 1 = x
  BY <1>4
<1>6. x - 1 \notin T
  BY <1>2, <1>3, <1>5
<1> QED
  BY <1>4, <1>5, <1>6

\* Course of values: what holds of n when it holds of all smaller ones.
LEMMA NatSetStrongInduction ==
  ASSUME NEW S, \A n \in Nat : (\A k \in Nat : k < n => k \in S) => n \in S
  PROVE  Nat \subseteq S
<1> DEFINE P == {n \in Nat : \A k \in Nat : k < n => k \in S}
<1>1. 0 \in P
  OBVIOUS
<1>2. ASSUME NEW n \in Nat, n \in P PROVE n + 1 \in P
  <2>1. n \in S
    BY <1>2
  <2>2. \A k \in Nat : k < n + 1 => k < n \/ k = n
    OBVIOUS
  <2> QED
    BY <1>2, <2>1, <2>2
<1> HIDE DEF P
<1>3. Nat \subseteq P
  BY <1>1, <1>2, NatSetInduction
<1> QED
  BY <1>3 DEF P

\* The same along a measure.
LEMMA MeasureInduction ==
  ASSUME NEW X, NEW measure \in [X -> Nat], NEW T,
         \A x \in X : (\A y \in X : measure[y] < measure[x] => y \in T) => x \in T
  PROVE  X \subseteq T
<1> DEFINE S == {n \in Nat : \A x \in X : measure[x] = n => x \in T}
<1>1. ASSUME NEW n \in Nat, \A k \in Nat : k < n => k \in S
      PROVE  n \in S
  <2> SUFFICES ASSUME NEW x \in X, measure[x] = n PROVE x \in T
    OBVIOUS
  <2>1. \A y \in X : measure[y] \in Nat /\ (measure[y] < n => measure[y] \in S)
    BY <1>1
  <2> QED
    BY <2>1
<1> HIDE DEF S
<1>2. Nat \subseteq S
  BY <1>1, NatSetStrongInduction
<1> QED
  BY <1>2 DEF S

\* What a recursion needs from x to D[x] with values in V: it stops or comes closer.
Recursion(X, V, measure, Stop, A, D, G) ==
  /\ V # {} /\ measure \in [X -> Nat]
  /\ \A x \in X : x \in Stop => A[x] \in V
  /\ \A x \in X : x \notin Stop => D[x] \in X /\ measure[D[x]] < measure[x]
  /\ \A x \in X, v \in V : x \notin Stop => G[x][v] \in V

\* f is the function of that recursion.
Unfolds(f, X, Stop, A, D, G) ==
  \A x \in X : f[x] = IF x \in Stop THEN A[x] ELSE G[x][f[D[x]]]

\* Then the function exists.
LEMMA RecursionExists ==
  ASSUME NEW X, NEW V, NEW measure, NEW Stop, NEW A, NEW D, NEW G,
         Recursion(X, V, measure, Stop, A, D, G)
  PROVE  \E f \in [X -> V] : Unfolds(f, X, Stop, A, D, G)
<1> USE DEF Recursion
<1> DEFINE Right(g, x) == g[x] = IF x \in Stop THEN A[x] ELSE G[x][g[D[x]]]
           Below(k) == {x \in X : measure[x] < k}
           Good(k) == {g \in [X -> V] : \A x \in Below(k) : Right(g, x)}
           Some == {k \in Nat : Good(k) # {}}
           Same == {k \in Nat : \A g, h \in Good(k) : \A x \in Below(k) : g[x] = h[x]}
<1>a. ASSUME NEW k \in Nat, NEW l \in Nat, k <= l
      PROVE  Below(k) \subseteq Below(l)
  BY <1>a
<1>b. ASSUME NEW k \in Nat, NEW l \in Nat, k <= l
      PROVE  Good(l) \subseteq Good(k)
  <2> HIDE DEF Right, Below
  <2> QED
    BY <1>a, <1>b
<1>1. Nat \subseteq Some
  <2>1. 0 \in Some
    <3>1. PICK v : v \in V
      OBVIOUS
    <3>2. [x \in X |-> v] \in Good(0)
      BY <3>1
    <3> QED
      BY <3>2
  <2>2. ASSUME NEW k \in Nat, k \in Some PROVE k + 1 \in Some
    <3>1. PICK g \in Good(k) : TRUE
      BY <2>2
    <3> DEFINE h == [x \in X |-> IF measure[x] < k THEN g[x]
                                 ELSE IF x \in Stop THEN A[x]
                                 ELSE IF measure[x] = k THEN G[x][g[D[x]]] ELSE g[x]]
    <3>2. ASSUME NEW x \in X PROVE h[x] \in V
      BY <3>1, <3>2
    <3>3. h \in [X -> V]
      BY <3>2
    <3>4. ASSUME NEW x \in X, measure[x] < k + 1 PROVE Right(h, x)
      <4>1. CASE x \in Stop
        BY <4>1, <3>1
      <4>2. CASE x \notin Stop
        <5>1. D[x] \in X /\ measure[D[x]] < measure[x] /\ measure[x] \in Nat
              /\ measure[D[x]] \in Nat
          BY <4>2
        <5>2. measure[D[x]] < k /\ (measure[x] < k \/ measure[x] = k)
          BY <5>1, <3>4
        <5>3. h[D[x]] = g[D[x]]
          BY <5>1, <5>2
        <5>4. h[x] = G[x][g[D[x]]]
          BY <4>2, <5>2, <3>1
        <5> QED
          BY <4>2, <5>3, <5>4
      <4> QED
        BY <4>1, <4>2
    <3>5. h \in Good(k + 1)
      BY <3>3, <3>4
    <3> HIDE DEF h, Good
    <3> QED
      BY <3>5
  <2> HIDE DEF Some
  <2> QED
    BY <2>1, <2>2, NatSetInduction
<1>2. Nat \subseteq Same
  <2>1. 0 \in Same
    OBVIOUS
  <2>2. ASSUME NEW k \in Nat, k \in Same PROVE k + 1 \in Same
    <3> SUFFICES ASSUME NEW g \in Good(k + 1), NEW h \in Good(k + 1), NEW x \in Below(k + 1)
                 PROVE  g[x] = h[x]
      OBVIOUS
    <3>1. g \in Good(k) /\ h \in Good(k)
      <4> HIDE DEF Good
      <4> QED
        BY <1>b
    <3>2. CASE x \in Stop
      BY <3>2
    <3>3. CASE x \notin Stop
      <4>1. D[x] \in X /\ measure[D[x]] < k
        BY <3>3
      <4>2. g[D[x]] = h[D[x]]
        BY <4>1, <3>1, <2>2
      <4> QED
        BY <3>3, <4>2
    <3> QED
      BY <3>2, <3>3
  <2> HIDE DEF Same
  <2> QED
    BY <2>1, <2>2, NatSetInduction
<1> DEFINE F == [k \in Nat |-> CHOOSE g \in Good(k) : TRUE]
           f == [x \in X |-> F[measure[x] + 1][x]]
<1>3. ASSUME NEW k \in Nat PROVE F[k] \in Good(k)
  <2> HIDE DEF Good
  <2> QED
    BY <1>1
<1> HIDE DEF F
<1>4. ASSUME NEW x \in X
      PROVE  /\ measure[x] \in Nat /\ F[measure[x] + 1] \in [X -> V]
             /\ Right(F[measure[x] + 1], x)
  <2>1. measure[x] \in Nat /\ measure[x] + 1 \in Nat /\ x \in Below(measure[x] + 1)
    OBVIOUS
  <2>2. F[measure[x] + 1] \in Good(measure[x] + 1)
    BY <1>3, <2>1
  <2> HIDE DEF Right, Below
  <2> QED
    BY <2>1, <2>2
<1>5. f \in [X -> V]
  BY <1>4
<1>6. ASSUME NEW x \in X PROVE Right(f, x)
  <2>1. CASE x \in Stop
    BY <2>1, <1>4
  <2>2. CASE x \notin Stop
    <3>1. PICK y : y = D[x]
      OBVIOUS
    <3>2. y \in X /\ measure[y] \in Nat /\ measure[x] \in Nat /\ measure[y] < measure[x]
      BY <2>2, <3>1
    <3>3. measure[y] + 1 \in Nat /\ measure[x] + 1 \in Nat /\ measure[y] + 1 <= measure[x] + 1
          /\ y \in Below(measure[y] + 1)
      BY <3>2
    <3>4. F[measure[x] + 1] \in Good(measure[y] + 1)
      <4> HIDE DEF Good
      <4> QED
        BY <3>3, <1>3, <1>b
    <3>5. F[measure[y] + 1] \in Good(measure[y] + 1)
      BY <3>3, <1>3
    <3>6. F[measure[x] + 1][y] = F[measure[y] + 1][y]
      <4> HIDE DEF Good, Below
      <4> QED
        BY <3>3, <3>4, <3>5, <1>2
    <3>7. f[y] = F[measure[y] + 1][y] /\ f[x] = F[measure[x] + 1][x]
      BY <3>2
    <3>8. F[measure[x] + 1][x] = G[x][F[measure[x] + 1][y]]
      BY <1>4, <2>2, <3>1
    <3> HIDE DEF f
    <3> QED
      BY <2>2, <3>1, <3>6, <3>7, <3>8
  <2> QED
    BY <2>1, <2>2
<1> QED
  BY <1>5, <1>6 DEF Unfolds

\* f has the equation of a recursion wherever its values are in V.
Follows(f, X, V, Stop, A, D, G) ==
  /\ \A x \in X : x \in Stop => f[x] = A[x]
  /\ \A x \in X : x \notin Stop /\ f[D[x]] \in V => f[x] = G[x][f[D[x]]]

\* Then they all are.
LEMMA RecursionTypes ==
  ASSUME NEW X, NEW V, NEW measure, NEW Stop, NEW A, NEW D, NEW G, NEW f,
         Recursion(X, V, measure, Stop, A, D, G), Follows(f, X, V, Stop, A, D, G)
  PROVE  \A x \in X : f[x] \in V
<1> DEFINE T == {x \in X : f[x] \in V}
<1>1. ASSUME NEW x \in X, \A y \in X : measure[y] < measure[x] => y \in T
      PROVE  x \in T
  <2>1. CASE x \in Stop
    BY <2>1 DEF Recursion, Follows
  <2>2. CASE x \notin Stop
    <3>1. D[x] \in T
      <4> HIDE DEF T
      <4> QED
        BY <2>2, <1>1 DEF Recursion
    <3> QED
      BY <2>2, <3>1 DEF Recursion, Follows
  <2> QED
    BY <2>1, <2>2
<1> HIDE DEF T
<1>2. X \subseteq T
  BY <1>1, MeasureInduction DEF Recursion
<1> QED
  BY <1>2 DEF T

-----------------------------------------------------------------------------
(***************************************************************************)
(* Arithmetic: powers and division.                                        *)
(***************************************************************************)
LEMMA PowDef ==
  ASSUME NEW b \in Nat
  PROVE  /\ Pow(b, 0) = 1
         /\ \A n \in Nat : Pow(b, n) \in Nat /\ Pow(b, n + 1) = b * Pow(b, n)
<1> DEFINE P == CHOOSE P : P = [i \in Nat |-> IF i = 0 THEN 1 ELSE b * P[i - 1]]
           measure == [i \in Nat |-> i]
           Stop == {0}
           A == [i \in Nat |-> 1]
           D == [i \in Nat |-> i - 1]
           G == [i \in Nat |-> [v \in Nat |-> b * v]]
<1>1. PICK f \in [Nat -> Nat] : Unfolds(f, Nat, Stop, A, D, G)
  <2>1. Nat # {} /\ measure \in [Nat -> Nat]
    OBVIOUS
  <2>2. ASSUME NEW i \in Nat, i \notin Stop PROVE D[i] \in Nat /\ measure[D[i]] < measure[i]
    BY <2>2
  <2>3. \A i \in Nat, v \in Nat : A[i] \in Nat /\ G[i][v] \in Nat
    OBVIOUS
  <2> HIDE DEF measure, A, D, G, Stop
  <2>4. Recursion(Nat, Nat, measure, Stop, A, D, G)
    BY <2>1, <2>2, <2>3 DEF Recursion
  <2> QED
    BY <2>4, RecursionExists
<1>2. ASSUME NEW i \in Nat PROVE f[i] = IF i = 0 THEN 1 ELSE b * f[i - 1]
  <2>1. CASE i = 0
    BY <1>1, <2>1 DEF Unfolds
  <2>2. CASE i # 0
    <3>1. i - 1 \in Nat /\ f[i - 1] \in Nat
      BY <2>2
    <3>2. D[i] = i - 1 /\ f[i] = G[i][f[D[i]]]
      BY <1>1, <2>2 DEF Unfolds
    <3> QED
      BY <3>1, <3>2, <2>2
  <2> QED
    BY <2>1, <2>2
<1>3. f = [i \in Nat |-> IF i = 0 THEN 1 ELSE b * f[i - 1]]
  BY <1>2
<1>4. P = [i \in Nat |-> IF i = 0 THEN 1 ELSE b * P[i - 1]]
  BY <1>3, Zenon
<1>5. \A n \in Nat : Pow(b, n) = P[n]
  BY DEF Pow
<1> HIDE DEF P
<1>6. P[0] = 1 /\ \A n \in Nat : P[n + 1] = b * P[n]
  BY <1>4
<1>7. \A n \in Nat : P[n] \in Nat
  <2> DEFINE S == {n \in Nat : P[n] \in Nat}
  <2>1. 0 \in S /\ \A n \in Nat : n \in S => n + 1 \in S
    BY <1>6
  <2> HIDE DEF S
  <2>2. Nat \subseteq S
    BY <2>1, NatSetInduction
  <2> QED
    BY <2>2 DEF S
<1> QED
  BY <1>5, <1>6, <1>7

\* No power of a positive number is zero.
LEMMA PowPositive ==
  ASSUME NEW b \in Nat \ {0}
  PROVE  \A n \in Nat : Pow(b, n) \in Nat \ {0}
<1> DEFINE S == {n \in Nat : Pow(b, n) # 0}
<1>1. 0 \in S
  BY PowDef
<1>2. ASSUME NEW n \in Nat, n \in S PROVE n + 1 \in S
  <2>1. Pow(b, n) \in Nat /\ Pow(b, n) # 0 /\ Pow(b, n + 1) = b * Pow(b, n)
    BY <1>2, PowDef
  <2>2. b * Pow(b, n) # 0
    BY <2>1
  <2> QED
    BY <2>1, <2>2
<1> HIDE DEF S
<1>3. Nat \subseteq S
  BY <1>1, <1>2, NatSetInduction
<1> QED
  BY <1>3, PowDef DEF S

\* Exponents add.
LEMMA PowSum ==
  ASSUME NEW b \in Nat, NEW m \in Nat
  PROVE  \A n \in Nat : Pow(b, m + n) = Pow(b, m) * Pow(b, n)
<1> DEFINE S == {n \in Nat : Pow(b, m + n) = Pow(b, m) * Pow(b, n)}
<1>1. 0 \in S
  <2>1. m + 0 = m /\ Pow(b, 0) = 1 /\ Pow(b, m) \in Nat
    BY PowDef
  <2> QED
    BY <2>1
<1>2. ASSUME NEW n \in Nat, n \in S PROVE n + 1 \in S
  <2>1. Pow(b, m + (n + 1)) = b * Pow(b, m + n)
    <3>1. m + (n + 1) = (m + n) + 1 /\ m + n \in Nat
      OBVIOUS
    <3> QED
      BY <3>1, PowDef
  <2>2. /\ Pow(b, m) \in Nat /\ Pow(b, n) \in Nat /\ Pow(b, n + 1) = b * Pow(b, n)
        /\ Pow(b, m + n) = Pow(b, m) * Pow(b, n)
    BY <1>2, PowDef
  <2>3. b * (Pow(b, m) * Pow(b, n)) = Pow(b, m) * (b * Pow(b, n))
    BY <2>2
  <2> QED
    BY <2>1, <2>2, <2>3
<1> HIDE DEF S
<1>3. Nat \subseteq S
  BY <1>1, <1>2, NatSetInduction
<1> QED
  BY <1>3 DEF S

\* A power of a power, and powers grow.
LEMMA PowProduct ==
  ASSUME NEW b \in Nat, NEW m \in Nat
  PROVE  \A n \in Nat : Pow(b, n * m) = Pow(Pow(b, m), n)
<1> DEFINE S == {n \in Nat : Pow(b, n * m) = Pow(Pow(b, m), n)}
<1>0. Pow(b, m) \in Nat
  BY PowDef
<1>1. 0 \in S
  <2>1. 0 * m = 0
    OBVIOUS
  <2> QED
    BY <1>0, <2>1, PowDef
<1>2. ASSUME NEW n \in Nat, n \in S PROVE n + 1 \in S
  <2>1. n * m \in Nat /\ (n + 1) * m = m + n * m
    OBVIOUS
  <2>2. Pow(b, (n + 1) * m) = Pow(b, m) * Pow(b, n * m)
    BY <2>1, PowSum
  <2>3. Pow(Pow(b, m), n + 1) = Pow(b, m) * Pow(Pow(b, m), n)
    BY <1>0, PowDef
  <2> QED
    BY <1>2, <2>2, <2>3
<1> HIDE DEF S
<1>3. Nat \subseteq S
  BY <1>1, <1>2, NatSetInduction
<1> QED
  BY <1>3 DEF S

\* Powers grow with the exponent.
LEMMA PowMonotone ==
  ASSUME NEW b \in Nat \ {0}, NEW m \in Nat, NEW n \in Nat, m <= n
  PROVE  Pow(b, m) <= Pow(b, n)
<1>1. n - m \in Nat /\ m + (n - m) = n
  OBVIOUS
<1>2. Pow(b, n) = Pow(b, m) * Pow(b, n - m)
  BY <1>1, PowSum
<1>3. Pow(b, m) \in Nat \ {0} /\ Pow(b, n - m) \in Nat \ {0}
  BY <1>1, PowPositive
<1>4. \A x, y \in Nat \ {0} : x <= x * y
  OBVIOUS
<1> QED
  BY <1>2, <1>3, <1>4

\* The bases of the groups and bytes are at least two, and three numbers fit the width.
LEMMA Bases ==
  /\ Base \in Nat /\ Base >= 2 /\ ByteBase \in Nat /\ ByteBase = 2 * Base
  /\ Byte = 0 .. ByteBase - 1 /\ Pow(2, Width) \in Nat /\ Pow(2, Width) > 2
<1>1. Pow(2, 1) = 2 /\ Pow(2, 2) = 4
  <2>1. Pow(2, 0) = 1 /\ Pow(2, 0 + 1) = 2 * Pow(2, 0) /\ Pow(2, 1 + 1) = 2 * Pow(2, 1)
    BY PowDef
  <2> QED
    BY <2>1
<1>2. Base \in Nat /\ Base >= 2
  <2>1. GroupBits \in Nat /\ 1 <= GroupBits
    BY WireAssumption
  <2>2. Pow(2, 1) <= Pow(2, GroupBits) /\ Pow(2, GroupBits) \in Nat
    BY <2>1, PowDef, PowMonotone
  <2> QED
    BY <1>1, <2>2 DEF Base
<1>3. Pow(2, Width) \in Nat /\ Pow(2, Width) >= 4
  <2>1. Width \in Nat /\ 2 <= Width
    BY WireAssumption
  <2>2. Pow(2, 2) <= Pow(2, Width) /\ Pow(2, Width) \in Nat
    BY <2>1, PowDef, PowMonotone
  <2> QED
    BY <1>1, <2>2
<1> QED
  BY <1>2, <1>3 DEF ByteBase, Byte

\* Division with remainder, by any divisor.
LEMMA Division ==
  ASSUME NEW v \in Nat, NEW b \in Nat, b > 0
  PROVE  /\ v \div b \in Nat /\ v % b \in Nat /\ v % b < b
         /\ v = b * (v \div b) + (v % b)
         /\ v < b => v % b = v
         /\ b >= 2 /\ v >= b => v \div b < v
<1>1. v % b \in Nat /\ v % b < b
  OBVIOUS
<1>2. v \div b \in Nat
  OBVIOUS
<1>3. v = b * (v \div b) + (v % b)
  OBVIOUS
<1>4. v < b => v % b = v
  OBVIOUS
<1>5. b >= 2 /\ v >= b => v \div b < v
  OBVIOUS
<1> QED
  BY <1>1, <1>2, <1>3, <1>4, <1>5

-----------------------------------------------------------------------------
(***************************************************************************)
(* Variable-length integers.                                               *)
(***************************************************************************)
LEMMA VarUintDef ==
  \A v \in Nat :
    /\ VarUint(v) \in Seq(Byte)
    /\ VarUint(v) = IF v < Base THEN <<v>>
                    ELSE <<(v % Base) + Base>> \o VarUint(v \div Base)
<1> DEFINE P == CHOOSE P : P = [w \in Nat |-> IF w < Base THEN <<w>>
                                              ELSE <<(w % Base) + Base>> \o P[w \div Base]]
           measure == [w \in Nat |-> w]
           Stop == {w \in Nat : w < Base}
           A == [w \in Nat |-> <<w>>]
           D == [w \in Nat |-> w \div Base]
           G == [w \in Nat |-> [s \in Seq(Byte) |-> <<(w % Base) + Base>> \o s]]
<1>0. ASSUME NEW w \in Nat
      PROVE  /\ w \div Base \in Nat /\ (w % Base) + Base \in Byte
             /\ w < Base => w \in Byte
             /\ w >= Base => w \div Base < w
  BY Division, Bases
<1>1. PICK f \in [Nat -> Seq(Byte)] : Unfolds(f, Nat, Stop, A, D, G)
  <2>1. Seq(Byte) # {} /\ measure \in [Nat -> Nat]
    BY EmptySeq
  <2>2. ASSUME NEW w \in Nat, w \notin Stop PROVE D[w] \in Nat /\ measure[D[w]] < measure[w]
    <3>1. w >= Base
      BY <2>2, Bases
    <3> QED
      BY <3>1, <1>0
  <2>3. ASSUME NEW w \in Nat, w \in Stop PROVE A[w] \in Seq(Byte)
    BY <2>3, <1>0
  <2>4. ASSUME NEW w \in Nat, NEW s \in Seq(Byte) PROVE G[w][s] \in Seq(Byte)
    <3>1. <<(w % Base) + Base>> \in Seq(Byte)
      BY <1>0
    <3> QED
      BY <3>1, ConcatProperties
  <2> HIDE DEF measure, A, D, G, Stop
  <2>5. Recursion(Nat, Seq(Byte), measure, Stop, A, D, G)
    BY <2>1, <2>2, <2>3, <2>4 DEF Recursion
  <2> QED
    BY <2>5, RecursionExists
<1>2. ASSUME NEW w \in Nat
      PROVE  f[w] = IF w < Base THEN <<w>> ELSE <<(w % Base) + Base>> \o f[w \div Base]
  <2>1. CASE w < Base
    BY <1>1, <2>1 DEF Unfolds
  <2>2. CASE ~(w < Base)
    <3>1. w \div Base \in Nat /\ f[w \div Base] \in Seq(Byte)
      BY <1>0
    <3>2. D[w] = w \div Base /\ f[w] = G[w][f[D[w]]]
      BY <1>1, <2>2 DEF Unfolds
    <3> QED
      BY <3>1, <3>2, <2>2
  <2> QED
    BY <2>1, <2>2
<1>3. f = [w \in Nat |-> IF w < Base THEN <<w>> ELSE <<(w % Base) + Base>> \o f[w \div Base]]
  BY <1>2
<1>4. P = [w \in Nat |-> IF w < Base THEN <<w>> ELSE <<(w % Base) + Base>> \o P[w \div Base]]
  BY <1>3, Zenon
<1>5. \A v \in Nat : VarUint(v) = P[v]
  BY DEF VarUint
<1> HIDE DEF P
<1>6. \A v \in Nat : P[v] = IF v < Base THEN <<v>> ELSE <<(v % Base) + Base>> \o P[v \div Base]
  BY <1>4
<1>7. \A v \in Nat : P[v] \in Seq(Byte)
  <2> DEFINE S == {v \in Nat : P[v] \in Seq(Byte)}
  <2>1. ASSUME NEW v \in Nat, \A k \in Nat : k < v => k \in S PROVE v \in S
    <3>1. CASE v < Base
      <4>1. P[v] = <<v>> /\ v \in Byte
        BY <3>1, <1>0, <1>6
      <4>2. <<v>> \in Seq(Byte)
        BY <4>1
      <4> QED
        BY <4>1, <4>2
    <3>2. CASE ~(v < Base)
      <4>1. v \div Base \in Nat /\ v \div Base < v
        <5>1. v >= Base
          BY <3>2, Bases
        <5> QED
          BY <5>1, <1>0
      <4>2. P[v \div Base] \in Seq(Byte) /\ <<(v % Base) + Base>> \in Seq(Byte)
        <5>1. v \div Base \in S /\ (v % Base) + Base \in Byte
          BY <4>1, <2>1, <1>0
        <5> QED
          BY <5>1
      <4>3. <<(v % Base) + Base>> \o P[v \div Base] \in Seq(Byte)
        BY <4>2, ConcatProperties
      <4>4. P[v] = <<(v % Base) + Base>> \o P[v \div Base]
        BY <3>2, <1>6
      <4> QED
        BY <4>3, <4>4
    <3> QED
      BY <3>1, <3>2
  <2> HIDE DEF S
  <2>2. Nat \subseteq S
    BY <2>1, NatSetStrongInduction
  <2> QED
    BY <2>2 DEF S
<1> QED
  BY <1>0, <1>5, <1>6, <1>7

\* A sequence with an element put before it.
LEMMA Prepended ==
  ASSUME NEW S, NEW e \in S, NEW s \in Seq(S)
  PROVE  /\ <<e>> \o s \in Seq(S) /\ <<e>> \o s # << >>
         /\ Len(<<e>> \o s) = 1 + Len(s)
         /\ Head(<<e>> \o s) = e /\ Tail(<<e>> \o s) = s
         /\ \A i \in 1 .. 1 + Len(s) : (<<e>> \o s)[i] = IF i = 1 THEN e ELSE s[i - 1]
<1>1. <<e>> \in Seq(S)
  OBVIOUS
<1>2. <<e>> \o s \in Seq(S)
  BY <1>1, ConcatProperties
<1> QED
  BY <1>2

\* The first n elements of a sequence; all but the last.
LEMMA Cutting ==
  ASSUME NEW S, NEW data \in Seq(S), NEW n \in 0 .. Len(data)
  PROVE  /\ SubSeq(data, 1, n) \in Seq(S) /\ Len(SubSeq(data, 1, n)) = n
         /\ \A i \in 1 .. n : SubSeq(data, 1, n)[i] = data[i]
BY LenProperties

\* A sequence without its last element, and that element.
LEMMA FrontLast ==
  ASSUME NEW S, NEW s \in Seq(S), s # << >>
  PROVE  /\ Front(s) \in Seq(S) /\ Len(Front(s)) = Len(s) - 1 /\ Last(s) \in S
         /\ \A i \in 1 .. Len(s) - 1 : Front(s)[i] = s[i]
<1>1. Len(s) \in Nat /\ Len(s) \in 1 .. Len(s) /\ Len(s) - 1 \in 0 .. Len(s)
  BY EmptySeq
<1>2. s[Len(s)] \in S
  BY <1>1, ElementOfSeq
<1>3. /\ SubSeq(s, 1, Len(s) - 1) \in Seq(S) /\ Len(SubSeq(s, 1, Len(s) - 1)) = Len(s) - 1
      /\ \A i \in 1 .. Len(s) - 1 : SubSeq(s, 1, Len(s) - 1)[i] = s[i]
  BY <1>1, Cutting
<1> QED
  BY <1>2, <1>3 DEF Front, Last

\* Sequences are measured by their length.
LengthOf(X) == [s \in X |-> Len(s)]

\* The length is a natural number, so recursion may go along it.
LEMMA Lengths ==
  ASSUME NEW S
  PROVE  LengthOf(Seq(S)) \in [Seq(S) -> Nat]
BY DEF LengthOf

\* The equation of Denoted: the first byte is the lowest group.
LEMMA DenotedDef ==
  \A s \in Seq(Byte) :
    /\ Denoted(s) \in Nat
    /\ s = << >> => Denoted(s) = 0
    /\ s # << >> => Denoted(s) = Denoted(Tail(s)) * Base + (Head(s) % Base)
<1> DEFINE P == CHOOSE P : P = [t \in Seq(Byte) |->
                  IF t = << >> THEN 0 ELSE P[Tail(t)] * Base + (Head(t) % Base)]
           measure == LengthOf(Seq(Byte))
           Stop == {<< >>}
           A == [t \in Seq(Byte) |-> 0]
           D == [t \in Seq(Byte) |-> Tail(t)]
           G == [t \in Seq(Byte) |-> [v \in Nat |-> v * Base + (Head(t) % Base)]]
<1>0. ASSUME NEW t \in Seq(Byte), t # << >>
      PROVE  /\ Tail(t) \in Seq(Byte) /\ measure[Tail(t)] < measure[t]
             /\ Head(t) \in Nat /\ Head(t) % Base \in Nat
  <2>1. Tail(t) \in Seq(Byte) /\ Len(Tail(t)) = Len(t) - 1 /\ Head(t) \in Byte /\ Len(t) \in Nat
    BY <1>0, HeadTailProperties, LenProperties
  <2>2. Head(t) \in Nat
    BY <2>1, Bases
  <2> QED
    BY <2>1, <2>2, Bases, Division DEF LengthOf
<1>1. Recursion(Seq(Byte), Nat, measure, Stop, A, D, G)
  <2>1. ASSUME NEW t \in Seq(Byte), t \notin Stop, NEW v \in Nat PROVE G[t][v] \in Nat
    BY <2>1, <1>0, Bases
  <2>2. \A t \in Seq(Byte) : t \notin Stop => D[t] \in Seq(Byte) /\ measure[D[t]] < measure[t]
    BY <1>0
  <2>3. measure \in [Seq(Byte) -> Nat] /\ Nat # {} /\ \A t \in Seq(Byte) : A[t] \in Nat
    BY Lengths
  <2> HIDE DEF measure, A, D, G, Stop
  <2> QED
    BY <2>1, <2>2, <2>3 DEF Recursion
<1>2. PICK f \in [Seq(Byte) -> Nat] : Unfolds(f, Seq(Byte), Stop, A, D, G)
  <2> HIDE DEF measure, A, D, G, Stop
  <2> QED
    BY <1>1, RecursionExists
<1>3. ASSUME NEW t \in Seq(Byte)
      PROVE  f[t] = IF t = << >> THEN 0 ELSE f[Tail(t)] * Base + (Head(t) % Base)
  <2>1. CASE t = << >>
    BY <1>2, <2>1 DEF Unfolds
  <2>2. CASE t # << >>
    <3>1. f[t] = G[t][f[D[t]]] /\ D[t] = Tail(t)
      BY <1>2, <2>2 DEF Unfolds
    <3>2. f[Tail(t)] \in Nat
      BY <2>2, <1>0
    <3> QED
      BY <2>2, <3>1, <3>2
  <2> QED
    BY <2>1, <2>2
<1>4. f = [t \in Seq(Byte) |-> IF t = << >> THEN 0 ELSE f[Tail(t)] * Base + (Head(t) % Base)]
  BY <1>3
<1>5. P = [t \in Seq(Byte) |-> IF t = << >> THEN 0 ELSE P[Tail(t)] * Base + (Head(t) % Base)]
  BY <1>4, Zenon
<1>6. \A s \in Seq(Byte) : Denoted(s) = P[s]
  BY DEF Denoted
<1> HIDE DEF P
<1>7. ASSUME NEW t \in Seq(Byte)
      PROVE  /\ t = << >> => P[t] = 0
             /\ t # << >> => P[t] = P[Tail(t)] * Base + (Head(t) % Base)
  BY <1>5
<1>8. \A t \in Seq(Byte) : P[t] \in Nat
  <2>1. ASSUME NEW t \in Seq(Byte), t \in Stop PROVE P[t] = A[t]
    BY <1>7, <2>1
  <2>2. ASSUME NEW t \in Seq(Byte), t \notin Stop, P[D[t]] \in Nat PROVE P[t] = G[t][P[D[t]]]
    BY <1>7, <2>2
  <2> HIDE DEF measure, A, D, G, Stop
  <2>3. Follows(P, Seq(Byte), Nat, Stop, A, D, G)
    BY <2>1, <2>2 DEF Follows
  <2> QED
    BY <1>1, <2>3, RecursionTypes
<1> QED
  BY <1>0, <1>6, <1>7, <1>8

\* appendVarUint appends bytes.
LEMMA VarUintType == \A v \in Nat : VarUint(v) \in Seq(Byte)
BY VarUintDef

\* What appendVarUint writes: continuation bytes, then one that ends; they denote v.
IsWritten(s, v) ==
  /\ s \in Seq(Byte) /\ Len(s) > 0
  /\ \A i \in 1 .. Len(s) : s[i] < Base <=> i = Len(s)
  /\ Denoted(s) = v

\* appendVarUint does so for every number.
LEMMA VarUintWrites ==
  \A v \in Nat : IsWritten(VarUint(v), v)
<1> DEFINE S == {v \in Nat : IsWritten(VarUint(v), v)}
<1>1. ASSUME NEW v \in Nat, \A k \in Nat : k < v => k \in S
      PROVE  IsWritten(VarUint(v), v)
  <2>1. CASE v < Base
    <3>1. PICK s : s = <<v>>
      OBVIOUS
    <3>2. v \in Byte /\ v % Base = v
      BY <2>1, Bases, Division
    <3>3. s \in Seq(Byte) /\ Len(s) = 1 /\ s[1] = v /\ s # << >> /\ Head(s) = v /\ Tail(s) = << >>
      BY <3>1, <3>2
    <3>4. << >> \in Seq(Byte)
      BY EmptySeq
    <3>5. Denoted(s) = v
      <4>1. Denoted(s) = Denoted(Tail(s)) * Base + (Head(s) % Base) /\ Denoted(Tail(s)) = 0
        BY <3>3, <3>4, DenotedDef
      <4> QED
        BY <4>1, <3>2, <3>3, Bases
    <3>6. VarUint(v) = s
      BY <2>1, <3>1, VarUintDef
    <3>7. IsWritten(s, v)
      <4>1. Len(s) > 0 /\ \A i \in 1 .. Len(s) : s[i] < Base <=> i = Len(s)
        BY <2>1, <3>3
      <4> QED
        BY <4>1, <3>3, <3>5 DEF IsWritten
    <3> QED
      BY <3>6, <3>7
  <2>2. CASE ~(v < Base)
    <3>1. PICK q \in Nat, r \in Nat, b \in Byte :
             /\ q = v \div Base /\ r = v % Base /\ b = r + Base
             /\ q < v /\ r < Base /\ v = Base * q + r
      BY <2>2, Bases, Division
    <3>2. PICK t \in Seq(Byte) : t = VarUint(q)
      BY VarUintDef
    <3>3. IsWritten(t, q)
      BY <3>1, <3>2, <1>1
    <3>4. PICK s \in Seq(Byte) : s = <<b>> \o t
      BY Prepended
    <3>5. /\ Len(s) = 1 + Len(t) /\ Len(t) \in Nat /\ s # << >>
          /\ \A i \in 1 .. Len(s) : s[i] = IF i = 1 THEN b ELSE t[i - 1]
      BY <3>4
    <3>6. Head(s) = b /\ Tail(s) = t
      BY <3>4
    <3>7. b % Base = r
      <4>1. \A m \in Nat, k \in Nat : m >= 2 /\ k < m => (k + m) % m = k
        OBVIOUS
      <4> QED
        BY <4>1, <3>1, Bases
    <3>8. Denoted(s) = v
      <4>1. Denoted(s) = q * Base + r
        BY <3>3, <3>5, <3>6, <3>7, DenotedDef DEF IsWritten
      <4> QED
        BY <4>1, <3>1, Bases
    <3>9. VarUint(v) = s
      BY <2>2, <3>1, <3>2, <3>4, VarUintDef
    <3>10. \A i \in 1 .. Len(s) : s[i] < Base <=> i = Len(s)
      <4> SUFFICES ASSUME NEW i \in 1 .. Len(s) PROVE s[i] < Base <=> i = Len(s)
        OBVIOUS
      <4>1. Len(t) > 0 /\ \A j \in 1 .. Len(t) : t[j] < Base <=> j = Len(t)
        BY <3>3 DEF IsWritten
      <4>2. CASE i = 1
        BY <4>1, <4>2, <3>1, <3>5, Bases
      <4>3. CASE i # 1
        <5>1. i - 1 \in 1 .. Len(t) /\ s[i] = t[i - 1]
          BY <4>3, <3>5
        <5> QED
          BY <5>1, <4>1, <3>5
      <4> QED
        BY <4>2, <4>3
    <3> QED
      BY <3>5, <3>8, <3>9, <3>10 DEF IsWritten
  <2> QED
    BY <2>1, <2>2
<1>2. \A v \in Nat : (\A k \in Nat : k < v => k \in S) => v \in S
  BY <1>1
<1> HIDE DEF S
<1>3. Nat \subseteq S
  BY <1>2, NatSetStrongInduction
<1> QED
  BY <1>3 DEF S

\* A number below the k-th power of Base needs no more than k bytes.
LEMMA VarUintLength ==
  \A k \in Nat : \A v \in Nat : v < Pow(Base, k + 1) => Len(VarUint(v)) <= k + 1
<1> DEFINE S == {k \in Nat : \A v \in Nat : v < Pow(Base, k + 1) => Len(VarUint(v)) <= k + 1}
<1>1. 0 \in S
  <2> SUFFICES ASSUME NEW v \in Nat, v < Pow(Base, 0 + 1) PROVE Len(VarUint(v)) <= 0 + 1
    OBVIOUS
  <2>1. Pow(Base, 0) = 1 /\ Pow(Base, 0 + 1) = Base * Pow(Base, 0)
    BY Bases, PowDef
  <2>2. v < Base
    BY <2>1, Bases
  <2>3. VarUint(v) = <<v>>
    BY <2>2, VarUintDef
  <2> QED
    BY <2>3
<1>2. ASSUME NEW k \in Nat, k \in S PROVE k + 1 \in S
  <2> SUFFICES ASSUME NEW v \in Nat, v < Pow(Base, (k + 1) + 1)
               PROVE  Len(VarUint(v)) <= (k + 1) + 1
    OBVIOUS
  <2>1. CASE v < Base
    <3>1. VarUint(v) = <<v>>
      BY <2>1, VarUintDef
    <3> QED
      BY <3>1
  <2>2. CASE ~(v < Base)
    <3>1. PICK p \in Nat : p = Pow(Base, k + 1)
      BY Bases, PowDef
    <3>2. Pow(Base, (k + 1) + 1) = Base * p
      BY <3>1, Bases, PowDef
    <3>3. \A m \in Nat, u \in Nat, w \in Nat : m >= 2 /\ u < m * w => u \div m < w
      OBVIOUS
    <3>4. v \div Base \in Nat /\ v \div Base < p
      <4>1. v \div Base \in Nat
        BY Bases, Division
      <4>2. Base \in Nat /\ Base >= 2 /\ v < Base * p
        BY <3>1, <3>2, Bases
      <4> QED
        BY <4>1, <4>2, <3>1, <3>3
    <3>5. Len(VarUint(v \div Base)) <= k + 1
      BY <3>1, <3>4, <1>2
    <3>6. (v % Base) + Base \in Byte
      <4>1. v % Base \in Nat /\ v % Base < Base
        BY Bases, Division
      <4> QED
        BY <4>1, Bases
    <3>7. VarUint(v) = <<(v % Base) + Base>> \o VarUint(v \div Base)
      BY <2>2, VarUintDef
    <3>8. PICK t \in Seq(Byte) : t = VarUint(v \div Base)
      BY <3>4, VarUintDef
    <3>9. Len(<<(v % Base) + Base>> \o t) = 1 + Len(t)
      BY <3>6, Prepended
    <3> QED
      BY <3>5, <3>7, <3>8, <3>9
  <2> QED
    BY <2>1, <2>2
<1> HIDE DEF S
<1>3. Nat \subseteq S
  BY <1>1, <1>2, NatSetInduction
<1> QED
  BY <1>3 DEF S

\* A set of naturals that is not empty has its Min, and nothing below it.
LEMMA MinOfNats ==
  ASSUME NEW S, S \subseteq Nat, S # {}
  PROVE  Min(S) \in S /\ \A n \in S : Min(S) <= n
<1>1. \E m \in S : \A n \in S : m <= n
  <2> SUFFICES ASSUME ~ \E m \in S : \A n \in S : m <= n PROVE FALSE
    OBVIOUS
  <2>1. ASSUME NEW m \in Nat, \A k \in Nat : k < m => k \in Nat \ S PROVE m \in Nat \ S
    <3>1. CASE m \in S
      <4>1. PICK n \in S : ~(m <= n)
        BY <3>1
      <4>2. n \in Nat /\ n < m
        BY <4>1
      <4> QED
        BY <4>2, <2>1
    <3> QED
      BY <3>1
  <2>2. Nat \subseteq Nat \ S
    BY <2>1, NatSetStrongInduction
  <2> QED
    BY <2>2
<1> QED
  BY <1>1 DEF Min

\* Groups bytes are enough for the width.
LEMMA GroupsEnough ==
  Groups \in Nat /\ Groups >= 1 /\ Pow(2, Width) <= Pow(Base, Groups)
<1>0. Width \in Nat /\ Width >= 1 /\ GroupBits \in Nat /\ GroupBits >= 1
  BY WireAssumption
<1> DEFINE S == {g \in 1 .. Width : g * GroupBits >= Width}
<1>1. S \subseteq Nat /\ Width \in S
  <2>1. Width * GroupBits >= Width
    BY <1>0
  <2> QED
    BY <1>0, <2>1
<1>2. Groups \in S
  <2> HIDE DEF S
  <2>1. Min(S) \in S
    BY <1>1, MinOfNats
  <2> QED
    BY <2>1 DEF S, Groups
<1>3. Groups \in Nat /\ Groups >= 1 /\ Groups * GroupBits \in Nat /\ Width <= Groups * GroupBits
  BY <1>0, <1>2
<1>4. Pow(2, Width) <= Pow(2, Groups * GroupBits)
  BY <1>0, <1>3, PowMonotone
<1>5. Pow(2, Groups * GroupBits) = Pow(Base, Groups)
  BY <1>0, <1>3, PowProduct DEF Base
<1> QED
  BY <1>3, <1>4, <1>5

\* A number of the width is written in no more bytes than are read.
LEMMA VarUintFits ==
  ASSUME NEW v \in Nat, v < Pow(2, Width)
  PROVE  Len(VarUint(v)) <= Groups
<1>1. PICK k \in Nat : k + 1 = Groups
  BY GroupsEnough
<1>2. Pow(Base, Groups) \in Nat
  BY GroupsEnough, Bases, PowDef
<1>3. v < Pow(Base, k + 1)
  BY <1>1, <1>2, GroupsEnough, Bases
<1> QED
  BY <1>1, <1>3, VarUintLength

\* s stands in data at off.
StandsIn(s, data, off) ==
  off + Len(s) <= Len(data) /\ \A i \in 1 .. Len(s) : data[off + i] = s[i]

\* What was written is read, wherever it stands.
LEMMA ReadsWritten ==
  ASSUME NEW data \in Seq(Byte), NEW off \in Nat, NEW v \in Nat, v < Pow(2, Width),
         StandsIn(VarUint(v), data, off)
  PROVE  ReadVarUint(data, off) = [ok |-> TRUE, n |-> Len(VarUint(v)), val |-> v]
<1>1. PICK s : s = VarUint(v)
  OBVIOUS
<1>2. IsWritten(s, v) /\ Len(s) <= Groups
  BY <1>1, VarUintWrites, VarUintFits
<1>3. /\ s \in Seq(Byte) /\ Len(s) \in Nat /\ Len(s) > 0 /\ Len(data) \in Nat
      /\ off + Len(s) <= Len(data) /\ \A i \in 1 .. Len(s) : data[off + i] = s[i]
      /\ \A i \in 1 .. Len(s) : s[i] < Base <=> i = Len(s)
  BY <1>1, <1>2 DEF StandsIn, IsWritten
<1> DEFINE ends == {n \in 1 .. Groups : off + n <= Len(data) /\ data[off + n] < Base}
<1>4. Len(s) \in ends
  BY <1>2, <1>3, GroupsEnough
<1>5. \A n \in ends : n >= Len(s)
  <2> SUFFICES ASSUME NEW n \in ends, ~(n >= Len(s)) PROVE FALSE
    OBVIOUS
  <2>1. n \in 1 .. Len(s) /\ n # Len(s) /\ data[off + n] < Base
    BY <1>3, GroupsEnough
  <2> QED
    BY <2>1, <1>3
<1>6. ends \subseteq Nat
  BY GroupsEnough
<1>7. Min(ends) = Len(s)
  <2> HIDE DEF ends
  <2>1. Min(ends) \in ends /\ \A n \in ends : Min(ends) <= n
    BY <1>4, <1>6, MinOfNats
  <2>2. Min(ends) \in Nat /\ Min(ends) >= Len(s) /\ Min(ends) <= Len(s)
    BY <2>1, <1>4, <1>5, <1>6
  <2> QED
    BY <2>2, <1>3
<1>8. SubSeq(data, off + 1, off + Len(s)) = s
  <2>1. /\ SubSeq(data, off + 1, off + Len(s)) \in Seq(Byte)
        /\ Len(SubSeq(data, off + 1, off + Len(s))) = Len(s)
        /\ \A i \in 1 .. Len(s) : SubSeq(data, off + 1, off + Len(s))[i] = data[off + i]
    BY <1>3
  <2> QED
    BY <2>1, <1>3, SeqEqual
<1>9. v % Pow(2, Width) = v
  <2>1. PICK m \in Nat : m = Pow(2, Width) /\ m > 2
    BY Bases
  <2>2. v % m = v
    BY <2>1, Division
  <2> QED
    BY <2>1, <2>2
<1> QED
  <2>1. Denoted(SubSeq(data, off + 1, off + Min(ends))) % Pow(2, Width) = v
    BY <1>2, <1>7, <1>8, <1>9 DEF IsWritten
  <2>2. ReadVarUint(data, off) =
          IF ends = {} THEN Refused
          ELSE [ok |-> TRUE, n |-> Min(ends),
                val |-> Denoted(SubSeq(data, off + 1, off + Min(ends))) % Pow(2, Width)]
    BY DEF ReadVarUint
  <2> HIDE DEF ends
  <2> QED
    BY <1>1, <1>4, <1>7, <2>1, <2>2

\* Continuation bytes up to the end of the data are refused.
LEMMA CutNumberRefused ==
  ASSUME NEW data \in Seq(Byte), NEW off \in Nat,
         \A i \in off + 1 .. Len(data) : data[i] >= Base
  PROVE  ReadVarUint(data, off) = Refused
<1> DEFINE ends == {n \in 1 .. Groups : off + n <= Len(data) /\ data[off + n] < Base}
<1>1. ends = {}
  <2> SUFFICES ASSUME NEW n \in ends PROVE FALSE
    OBVIOUS
  <2>1. n \in Nat /\ n >= 1 /\ off + n \in off + 1 .. Len(data)
    BY GroupsEnough
  <2>2. data[off + n] \in Byte
    BY <2>1
  <2> QED
    BY <2>1, <2>2, Bases
<1> QED
  BY <1>1 DEF ReadVarUint

\* A number that is read ends within the data and fits the width.
LEMMA ReadsWithin ==
  ASSUME NEW data \in Seq(Byte), NEW off \in Nat
  PROVE  \/ ReadVarUint(data, off) = Refused
         \/ \E n \in Nat, v \in Nat :
              /\ ReadVarUint(data, off) = [ok |-> TRUE, n |-> n, val |-> v]
              /\ n > 0 /\ off + n <= Len(data) /\ v < Pow(2, Width)
<1> DEFINE ends == {n \in 1 .. Groups : off + n <= Len(data) /\ data[off + n] < Base}
<1>1. ends \subseteq Nat
  BY GroupsEnough
<1>2. ReadVarUint(data, off) =
          IF ends = {} THEN Refused
          ELSE [ok |-> TRUE, n |-> Min(ends),
                val |-> Denoted(SubSeq(data, off + 1, off + Min(ends))) % Pow(2, Width)]
  BY DEF ReadVarUint
<1>3. CASE ends = {}
  BY <1>2, <1>3
<1>4. CASE ends # {}
  <2>1. PICK n \in Nat : n = Min(ends) /\ n \in ends
    <3> HIDE DEF ends
    <3> QED
      BY <1>1, <1>4, MinOfNats
  <2>2. n > 0 /\ off + n <= Len(data) /\ Len(data) \in Nat
    BY <2>1, GroupsEnough
  <2>3. PICK d \in Nat : d = Denoted(SubSeq(data, off + 1, off + n))
    <3>1. SubSeq(data, off + 1, off + n) \in Seq(Byte)
      BY <2>2
    <3> QED
      BY <3>1, DenotedDef
  <2>4. PICK v \in Nat : v = d % Pow(2, Width) /\ v < Pow(2, Width)
    <3>1. PICK m \in Nat : m = Pow(2, Width) /\ m > 2
      BY Bases
    <3>2. d % m \in Nat /\ d % m < m
      BY <3>1, Division
    <3> QED
      BY <3>1, <3>2
  <2> HIDE DEF ends
  <2>5. ReadVarUint(data, off) = [ok |-> TRUE, n |-> n, val |-> v]
    BY <1>2, <1>4, <2>1, <2>3, <2>4
  <2> QED
    BY <2>2, <2>4, <2>5
<1> QED
  BY <1>3, <1>4

-----------------------------------------------------------------------------
(***************************************************************************)
(* Byte strings and the two messages with an update.                       *)
(***************************************************************************)
\* A length that stands before its payload is read with it.
LEMMA ReadsBytes ==
  ASSUME NEW data \in Seq(Byte), NEW off \in Nat, NEW payload \in Seq(Byte),
         Len(payload) < Pow(2, Width),
         StandsIn(VarUint(Len(payload)), data, off),
         StandsIn(payload, data, off + Len(VarUint(Len(payload))))
  PROVE  ReadVarBytes(data, off) = [ok |-> TRUE, payload |-> payload]
<1>1. PICK l \in Nat : l = Len(payload)
  BY LenProperties
<1>2. PICK w \in Nat : w = Len(VarUint(l))
  BY VarUintDef, LenProperties
<1>3. ReadVarUint(data, off) = [ok |-> TRUE, n |-> w, val |-> l]
  BY <1>1, <1>2, ReadsWritten
<1>4. Len(data) \in Nat /\ off + w + l <= Len(data)
      /\ \A i \in 1 .. l : data[off + w + i] = payload[i]
  BY <1>1, <1>2 DEF StandsIn
<1>5. SubSeq(data, off + w + 1, off + w + l) = payload
  <2>1. /\ SubSeq(data, off + w + 1, off + w + l) \in Seq(Byte)
        /\ Len(SubSeq(data, off + w + 1, off + w + l)) = l
        /\ \A i \in 1 .. l : SubSeq(data, off + w + 1, off + w + l)[i] = data[off + w + i]
    BY <1>4
  <2> QED
    BY <2>1, <1>1, <1>4, SeqEqual
<1>6. ~(l > Len(data) - (off + w))
  BY <1>4
<1>7. PICK r : r = ReadVarUint(data, off) /\ r.ok /\ r.n = w /\ r.val = l
  BY <1>3
<1>8. ReadVarBytes(data, off) =
        IF ~r.ok \/ r.val > Len(data) - (off + r.n) THEN Refused
        ELSE [ok |-> TRUE, payload |-> SubSeq(data, off + r.n + 1, off + r.n + r.val)]
  BY <1>7 DEF ReadVarBytes
<1> QED
  BY <1>5, <1>6, <1>7, <1>8

\* A payload that was cut is refused.
LEMMA CutBytesRefused ==
  ASSUME NEW data \in Seq(Byte), NEW off \in Nat, NEW l \in Nat, l < Pow(2, Width),
         StandsIn(VarUint(l), data, off),
         Len(data) < off + Len(VarUint(l)) + l
  PROVE  ReadVarBytes(data, off) = Refused
<1>1. PICK w \in Nat : w = Len(VarUint(l))
  BY VarUintDef, LenProperties
<1>2. ReadVarUint(data, off) = [ok |-> TRUE, n |-> w, val |-> l]
  BY <1>1, ReadsWritten
<1>3. l > Len(data) - (off + w)
  BY <1>1
<1> QED
  BY <1>2, <1>3 DEF ReadVarBytes

\* The message of a sync step with an update: encodeSyncStep2 and encodeSyncUpdate.
Frame(step, payload) == VarUint(msgSync) \o VarUint(step) \o VarBytes(payload)

\* What stands in a part stands in the whole.
LEMMA StandsInConcat ==
  ASSUME NEW s \in Seq(Byte), NEW t \in Seq(Byte), NEW x \in Seq(Byte), NEW off \in Nat
  PROVE  /\ StandsIn(s, s \o t, 0) /\ StandsIn(t, s \o t, Len(s))
         /\ StandsIn(x, s, off) => StandsIn(x, s \o t, off)
         /\ StandsIn(x, t, off) => StandsIn(x, s \o t, Len(s) + off)
<1>1. /\ s \o t \in Seq(Byte) /\ Len(s \o t) = Len(s) + Len(t)
      /\ \A i \in 1 .. Len(s) + Len(t) : (s \o t)[i] = IF i <= Len(s) THEN s[i] ELSE t[i - Len(s)]
  BY ConcatProperties
<1>2. PICK u : u = s \o t
  OBVIOUS
<1>3. /\ Len(s) \in Nat /\ Len(t) \in Nat /\ Len(x) \in Nat /\ Len(u) = Len(s) + Len(t)
      /\ \A i \in 1 .. Len(s) : u[i] = s[i]
      /\ \A i \in 1 .. Len(t) : u[Len(s) + i] = t[i]
  <2>1. Len(s) \in Nat /\ Len(t) \in Nat /\ Len(x) \in Nat
    BY LenProperties
  <2>2. ASSUME NEW i \in 1 .. Len(t) PROVE u[Len(s) + i] = t[i]
    <3>1. Len(s) + i \in 1 .. Len(s) + Len(t) /\ ~(Len(s) + i <= Len(s)) /\ (Len(s) + i) - Len(s) = i
      BY <2>1
    <3> QED
      BY <1>1, <1>2, <3>1
  <2> QED
    BY <1>1, <1>2, <2>1, <2>2
<1>4. StandsIn(s, u, 0) /\ StandsIn(t, u, Len(s))
  BY <1>3 DEF StandsIn
<1>5. ASSUME StandsIn(x, s, off) PROVE StandsIn(x, u, off)
  <2>1. off + Len(x) <= Len(s) /\ \A i \in 1 .. Len(x) : s[off + i] = x[i]
    BY <1>5 DEF StandsIn
  <2>2. \A i \in 1 .. Len(x) : off + i \in 1 .. Len(s)
    BY <1>3, <2>1
  <2>3. \A i \in 1 .. Len(x) : u[off + i] = x[i]
    BY <1>3, <2>1, <2>2
  <2> QED
    BY <1>3, <2>1, <2>3 DEF StandsIn
<1>6. ASSUME StandsIn(x, t, off) PROVE StandsIn(x, u, Len(s) + off)
  <2>1. off + Len(x) <= Len(t) /\ \A i \in 1 .. Len(x) : t[off + i] = x[i]
    BY <1>6 DEF StandsIn
  <2>2. \A i \in 1 .. Len(x) : off + i \in 1 .. Len(t) /\ Len(s) + (off + i) = (Len(s) + off) + i
    BY <1>3, <2>1
  <2>3. \A i \in 1 .. Len(x) : u[(Len(s) + off) + i] = x[i]
    BY <1>3, <2>1, <2>2
  <2> QED
    BY <1>3, <2>1, <2>3 DEF StandsIn
<1> QED
  BY <1>2, <1>4, <1>5, <1>6

\* Where its parts stand.
LEMMA FrameParts ==
  ASSUME NEW step \in {syncStep2, syncUpdate}, NEW payload \in Seq(Byte)
  PROVE  LET s == Frame(step, payload)
             a == Len(VarUint(msgSync))
             b == Len(VarUint(step))
             c == Len(VarUint(Len(payload)))
         IN  /\ s \in Seq(Byte) /\ a \in Nat /\ b \in Nat /\ c \in Nat
             /\ Len(s) = a + b + c + Len(payload)
             /\ StandsIn(VarUint(msgSync), s, 0) /\ StandsIn(VarUint(step), s, a)
             /\ StandsIn(VarUint(Len(payload)), s, a + b)
             /\ StandsIn(payload, s, a + b + c)
<1>1. PICK p \in Seq(Byte), q \in Seq(Byte), r \in Seq(Byte) :
        p = VarUint(msgSync) /\ q = VarUint(step) /\ r = VarUint(Len(payload))
  <2>1. msgSync \in Nat /\ step \in Nat /\ Len(payload) \in Nat
    BY LenProperties DEF msgSync, syncStep2, syncUpdate
  <2> QED
    BY <2>1, VarUintDef
<1>2. PICK s : s = (p \o q) \o (r \o payload)
  OBVIOUS
<1>3. s = Frame(step, payload)
  BY <1>1, <1>2 DEF Frame, VarBytes
<1>4. /\ Len(p) \in Nat /\ Len(q) \in Nat /\ Len(r) \in Nat /\ Len(payload) \in Nat
      /\ p \o q \in Seq(Byte) /\ Len(p \o q) = Len(p) + Len(q)
      /\ r \o payload \in Seq(Byte) /\ Len(r \o payload) = Len(r) + Len(payload)
  BY LenProperties, ConcatProperties
<1>5. s \in Seq(Byte) /\ Len(s) = Len(p) + Len(q) + Len(r) + Len(payload)
  BY <1>2, <1>4, ConcatProperties
<1>6. StandsIn(p, s, 0) /\ StandsIn(q, s, Len(p))
  <2>1. StandsIn(p, p \o q, 0) /\ StandsIn(q, p \o q, Len(p))
    BY StandsInConcat
  <2> QED
    BY <2>1, <1>2, <1>4, StandsInConcat
<1>7. StandsIn(r, s, Len(p \o q) + 0) /\ StandsIn(payload, s, Len(p \o q) + Len(r))
  <2>1. StandsIn(r, r \o payload, 0) /\ StandsIn(payload, r \o payload, Len(r))
    BY StandsInConcat
  <2> QED
    BY <2>1, <1>2, <1>4, StandsInConcat
<1>8. Len(p \o q) + 0 = Len(p) + Len(q) /\ Len(p \o q) + Len(r) = Len(p) + Len(q) + Len(r)
  BY <1>4
<1> QED
  BY <1>1, <1>3, <1>4, <1>5, <1>6, <1>7, <1>8

\* What stands before a cut stands in what the cut leaves.
LEMMA StandsInCut ==
  ASSUME NEW data \in Seq(Byte), NEW n \in 0 .. Len(data), NEW x \in Seq(Byte),
         NEW off \in Nat, StandsIn(x, data, off), off + Len(x) <= n
  PROVE  StandsIn(x, SubSeq(data, 1, n), off)
<1>1. \A i \in 1 .. Len(x) : off + i \in 1 .. n
  BY LenProperties
<1> QED
  BY <1>1, Cutting DEF StandsIn

\* A written number that the cut goes through is refused.
LEMMA CutWrittenRefused ==
  ASSUME NEW data \in Seq(Byte), NEW n \in 0 .. Len(data), NEW off \in Nat, NEW v \in Nat,
         StandsIn(VarUint(v), data, off), n < off + Len(VarUint(v))
  PROVE  ReadVarUint(SubSeq(data, 1, n), off) = Refused
<1>1. PICK s \in Seq(Byte) : s = VarUint(v) /\ IsWritten(s, v)
  BY VarUintDef, VarUintWrites
<1>2. PICK c \in Seq(Byte) : c = SubSeq(data, 1, n) /\ Len(c) = n /\ \A i \in 1 .. n : c[i] = data[i]
  BY Cutting
<1>3. ASSUME NEW i \in off + 1 .. Len(c) PROVE c[i] >= Base
  <2>1. Len(s) \in Nat /\ n \in Nat /\ n < off + Len(s)
    BY <1>1, LenProperties
  <2>2. i \in 1 .. n /\ i - off \in 1 .. Len(s) /\ i - off # Len(s) /\ off + (i - off) = i
    BY <1>2, <2>1
  <2>3. c[i] = s[i - off]
    BY <1>1, <1>2, <2>2 DEF StandsIn
  <2>4. ~(s[i - off] < Base)
    BY <1>1, <2>2 DEF IsWritten
  <2>5. s[i - off] \in Byte
    BY <1>1, <2>2, ElementOfSeq
  <2> QED
    BY <2>3, <2>4, <2>5, Bases
<1> QED
  BY <1>2, <1>3, CutNumberRefused

\* The kinds of sync messages are numbers of the width.
LEMMA Steps ==
  ASSUME NEW step \in {syncStep2, syncUpdate}
  PROVE  /\ msgSync \in Nat /\ msgSync < Pow(2, Width)
         /\ step \in Nat /\ step < Pow(2, Width)
BY Bases DEF msgSync, syncStep2, syncUpdate

\* A whole message is parsed into its parts.
LEMMA ParsesFrame ==
  ASSUME NEW step \in {syncStep2, syncUpdate}, NEW payload \in Seq(Byte),
         Len(payload) < Pow(2, Width)
  PROVE  ParseYjsWire(Frame(step, payload)) =
           [ok |-> TRUE, top |-> msgSync, step |-> step, inner |-> payload]
<1>1. PICK s \in Seq(Byte), a \in Nat, b \in Nat :
        /\ s = Frame(step, payload) /\ a = Len(VarUint(msgSync)) /\ b = Len(VarUint(step))
        /\ StandsIn(VarUint(msgSync), s, 0) /\ StandsIn(VarUint(step), s, a)
        /\ StandsIn(VarUint(Len(payload)), s, a + b)
        /\ StandsIn(payload, s, a + b + Len(VarUint(Len(payload))))
  BY FrameParts
<1>2. PICK top : top = ReadVarUint(s, 0) /\ top.ok /\ top.n = a /\ top.val = msgSync
  BY <1>1, Steps, ReadsWritten
<1>3. PICK r : r = ReadVarUint(s, a) /\ r.ok /\ r.n = b /\ r.val = step
  BY <1>1, Steps, ReadsWritten
<1>4. PICK inner : inner = ReadVarBytes(s, a + b) /\ inner.ok /\ inner.payload = payload
  <2>1. a + b \in Nat
    OBVIOUS
  <2> QED
    BY <1>1, <2>1, ReadsBytes
<1> QED
  BY <1>1, <1>2, <1>3, <1>4 DEF ParseYjsWire

\* A message that was cut anywhere is refused.
LEMMA RefusesCutFrame ==
  ASSUME NEW step \in {syncStep2, syncUpdate}, NEW payload \in Seq(Byte),
         Len(payload) < Pow(2, Width), NEW n \in Nat, n < Len(Frame(step, payload))
  PROVE  ParseYjsWire(SubSeq(Frame(step, payload), 1, n)) = Refused
<1>1. PICK s \in Seq(Byte), a \in Nat, b \in Nat, w \in Nat, l \in Nat :
        /\ s = Frame(step, payload) /\ a = Len(VarUint(msgSync)) /\ b = Len(VarUint(step))
        /\ l = Len(payload) /\ w = Len(VarUint(l)) /\ Len(s) = a + b + w + l
        /\ StandsIn(VarUint(msgSync), s, 0) /\ StandsIn(VarUint(step), s, a)
        /\ StandsIn(VarUint(l), s, a + b)
  BY FrameParts, LenProperties
<1>2. n \in 0 .. Len(s)
  BY <1>1
<1>3. PICK c \in Seq(Byte) : c = SubSeq(s, 1, n) /\ Len(c) = n
  BY <1>2, Cutting
<1>4. /\ VarUint(msgSync) \in Seq(Byte) /\ VarUint(step) \in Seq(Byte) /\ VarUint(l) \in Seq(Byte)
      /\ a + b \in Nat
  <2>1. VarUint(msgSync) \in Seq(Byte)
    BY Steps, VarUintType
  <2>2. VarUint(step) \in Seq(Byte)
    BY Steps, VarUintType
  <2> QED
    BY <2>1, <2>2, VarUintType
<1>5. CASE n < a
  <2>1. n < 0 + Len(VarUint(msgSync))
    BY <1>1, <1>5
  <2>2. ReadVarUint(c, 0) = Refused
    <3>1. msgSync \in Nat /\ StandsIn(VarUint(msgSync), s, 0) /\ 0 \in Nat
      BY <1>1, Steps
    <3> QED
      BY <1>2, <1>3, <2>1, <3>1, CutWrittenRefused
  <2> QED
    BY <1>1, <1>3, <2>2 DEF ParseYjsWire, Refused
<1>6. CASE ~(n < a)
  <2>1. StandsIn(VarUint(msgSync), c, 0)
    <3>1. 0 + Len(VarUint(msgSync)) <= n
      BY <1>1, <1>6
    <3> QED
      BY <1>1, <1>2, <1>3, <1>4, <3>1, StandsInCut
  <2>2. PICK top : top = ReadVarUint(c, 0) /\ top.ok /\ top.n = a /\ top.val = msgSync
    BY <1>1, <2>1, Steps, ReadsWritten
  <2>3. CASE n < a + b
    <3>1. PICK r : r = ReadVarUint(c, a) /\ ~r.ok
      <4>1. step \in Nat /\ StandsIn(VarUint(step), s, a) /\ n < a + Len(VarUint(step))
        BY <1>1, <2>3, Steps
      <4>2. ReadVarUint(c, a) = Refused
        BY <1>2, <1>3, <4>1, CutWrittenRefused
      <4> QED
        BY <4>2 DEF Refused
    <3> QED
      BY <1>1, <1>3, <2>2, <3>1 DEF ParseYjsWire
  <2>4. CASE ~(n < a + b)
    <3>1. StandsIn(VarUint(step), c, a)
      <4>1. StandsIn(VarUint(step), s, a) /\ a + Len(VarUint(step)) <= n
        BY <1>1, <2>4
      <4> QED
        BY <1>2, <1>3, <1>4, <4>1, StandsInCut
    <3>2. PICK r : r = ReadVarUint(c, a) /\ r.ok /\ r.n = b /\ r.val = step
      BY <1>1, <3>1, Steps, ReadsWritten
    <3>3. PICK inner : inner = ReadVarBytes(c, a + b) /\ ~inner.ok
      <4>1. CASE n < a + b + w
        <5>1. ReadVarUint(c, a + b) = Refused
          <6>1. StandsIn(VarUint(l), s, a + b) /\ n < (a + b) + Len(VarUint(l))
            BY <1>1, <4>1
          <6> QED
            BY <1>2, <1>3, <1>4, <6>1, CutWrittenRefused
        <5> QED
          BY <5>1 DEF ReadVarBytes, Refused
      <4>2. CASE ~(n < a + b + w)
        <5>1. StandsIn(VarUint(l), c, a + b)
          <6>1. StandsIn(VarUint(l), s, a + b) /\ (a + b) + Len(VarUint(l)) <= n
            BY <1>1, <4>2
          <6> QED
            BY <1>2, <1>3, <1>4, <6>1, StandsInCut
        <5>2. Len(c) < a + b + Len(VarUint(l)) + l
          BY <1>1, <1>3
        <5>3. ReadVarBytes(c, a + b) = Refused
          BY <1>1, <1>4, <5>1, <5>2, CutBytesRefused
        <5> QED
          BY <5>3 DEF Refused
      <4> QED
        BY <4>1, <4>2
    <3> QED
      BY <1>1, <1>3, <2>2, <3>2, <3>3 DEF ParseYjsWire
  <2> QED
    BY <2>3, <2>4
<1> QED
  BY <1>5, <1>6

-----------------------------------------------------------------------------
(***************************************************************************)
(* The strings looked at: Room bounds each of them.                        *)
(***************************************************************************)
LEMMA LastIsInFlat ==
  ASSUME NEW us \in Seq(Seq(Byte)), us # << >>
  PROVE  Len(FlattenSeq(us)) \in Nat /\ Len(Last(us)) <= Len(FlattenSeq(us))
<1>0. PICK m \in Nat : m = Len(us) /\ m >= 1
  BY EmptySeq
<1> DEFINE P == CHOOSE P : P = [i \in 1 .. Len(us) |-> IF i = 1 THEN us[i] ELSE P[i - 1] \o us[i]]
           X == 1 .. Len(us)
           measure == [i \in X |-> i]
           Stop == {1}
           A == [i \in X |-> us[i]]
           D == [i \in X |-> i - 1]
           G == [i \in X |-> [s \in Seq(Byte) |-> s \o us[i]]]
<1>1. Recursion(X, Seq(Byte), measure, Stop, A, D, G)
  <2>1. Seq(Byte) # {} /\ measure \in [X -> Nat]
    BY EmptySeq
  <2>2. ASSUME NEW i \in X, i \notin Stop PROVE D[i] \in X /\ measure[D[i]] < measure[i]
    BY <2>2, <1>0
  <2>3. \A i \in X : A[i] \in Seq(Byte)
    OBVIOUS
  <2>4. ASSUME NEW i \in X, NEW s \in Seq(Byte) PROVE G[i][s] \in Seq(Byte)
    BY ConcatProperties
  <2> HIDE DEF X, measure, A, D, G, Stop
  <2> QED
    BY <2>1, <2>2, <2>3, <2>4 DEF Recursion
<1>2. PICK f \in [X -> Seq(Byte)] : Unfolds(f, X, Stop, A, D, G)
  <2> HIDE DEF X, measure, A, D, G, Stop
  <2> QED
    BY <1>1, RecursionExists
<1>3. ASSUME NEW i \in X PROVE f[i] = IF i = 1 THEN us[i] ELSE f[i - 1] \o us[i]
  <2>1. CASE i = 1
    BY <1>2, <2>1 DEF Unfolds
  <2>2. CASE i # 1
    <3>1. i - 1 \in X
      BY <1>0, <2>2
    <3>2. f[i - 1] \in Seq(Byte) /\ D[i] = i - 1
      BY <3>1
    <3>3. f[i] = G[i][f[D[i]]]
      BY <1>2, <2>2 DEF Unfolds
    <3> QED
      BY <2>2, <3>2, <3>3
  <2> QED
    BY <2>1, <2>2
<1>4. f = [i \in X |-> IF i = 1 THEN us[i] ELSE f[i - 1] \o us[i]]
  BY <1>3
<1>5. P = [i \in X |-> IF i = 1 THEN us[i] ELSE P[i - 1] \o us[i]]
  BY <1>4, Zenon
<1>6. FlattenSeq(us) = P[Len(us)]
  BY <1>0 DEF FlattenSeq
<1> HIDE DEF P
<1>7. \A i \in X : P[i] \in Seq(Byte)
  <2>1. ASSUME NEW i \in X, i \in Stop PROVE P[i] = A[i]
    BY <1>5, <2>1
  <2>2. ASSUME NEW i \in X, i \notin Stop, P[D[i]] \in Seq(Byte) PROVE P[i] = G[i][P[D[i]]]
    BY <1>5, <2>2
  <2> HIDE DEF X, measure, A, D, G, Stop
  <2>3. Follows(P, X, Seq(Byte), Stop, A, D, G)
    BY <2>1, <2>2 DEF Follows
  <2> QED
    BY <1>1, <2>3, RecursionTypes
<1>8. Last(us) = us[m] /\ us[m] \in Seq(Byte) /\ P[m] \in Seq(Byte)
  BY <1>0, <1>7 DEF Last
<1>9. Len(P[m]) \in Nat /\ Len(us[m]) <= Len(P[m])
  <2>1. CASE m = 1
    BY <1>0, <1>5, <1>8, <2>1
  <2>2. CASE m # 1
    <3>1. m \in X /\ m - 1 \in X
      BY <1>0, <2>2
    <3>2. P[m] = P[m - 1] \o us[m]
      BY <1>5, <2>2, <3>1
    <3>3. PICK p \in Seq(Byte) : p = P[m - 1]
      BY <1>7, <3>1
    <3>4. PICK u \in Seq(Byte) : u = us[m]
      BY <1>8
    <3>5. Len(p \o u) = Len(p) + Len(u) /\ Len(p) \in Nat /\ Len(u) \in Nat
      BY ConcatProperties, LenProperties
    <3>6. P[m] = p \o u
      BY <3>2, <3>3, <3>4
    <3>7. Len(u) <= Len(p) + Len(u) /\ Len(p) + Len(u) \in Nat
      BY <3>5
    <3> QED
      BY <3>4, <3>5, <3>6, <3>7
  <2> QED
    BY <2>1, <2>2
<1> QED
  BY <1>0, <1>6, <1>8, <1>9

\* The inductive invariant: strings of bytes, none longer than MaxLen.
Strings ==
  /\ updates \in Seq(Seq(Byte)) /\ updates # << >>
  /\ \A i \in 1 .. Len(updates) : Len(updates[i]) <= MaxLen

\* Then the last of them is such a string.
LEMMA BufType == Strings => buf \in Seq(Byte) /\ Len(buf) \in Nat /\ Len(buf) <= MaxLen
<1> SUFFICES ASSUME Strings PROVE buf \in Seq(Byte) /\ Len(buf) \in Nat /\ Len(buf) <= MaxLen
  OBVIOUS
<1>1. Len(updates) \in 1 .. Len(updates)
  BY EmptySeq DEF Strings
<1>2. updates[Len(updates)] \in Seq(Byte)
  BY <1>1 DEF Strings
<1> QED
  BY <1>1, <1>2, LenProperties DEF Strings, buf, Last

\* Every string has at most MaxLen bytes, for Room counts them all.
LEMMA StringsInvariant == Spec => []Strings
<1>1. Init => Strings
  <2> SUFFICES ASSUME Init PROVE Strings
    OBVIOUS
  <2>1. << >> \in Seq(Byte) /\ Len(<< >>) = 0
    BY EmptySeq
  <2>2. updates = << << >> >>
    BY DEF Init
  <2>3. PICK e \in Seq(Byte) : e = << >> /\ Len(e) = 0
    BY <2>1
  <2>4. updates \in Seq(Seq(Byte)) /\ Len(updates) = 1 /\ updates[1] = e /\ updates # << >>
    BY <2>2, <2>3
  <2>5. MaxLen \in Nat
    BY WireAssumption
  <2> QED
    BY <2>3, <2>4, <2>5 DEF Strings
<1>2. Strings /\ [Next]_updates => Strings'
  <2> SUFFICES ASSUME Strings, [Next]_updates PROVE Strings'
    OBVIOUS
  <2>0. PICK m \in Nat : m = Len(updates) /\ m >= 1
    BY EmptySeq DEF Strings
  <2>1. ASSUME NEW b \in Byte, AddByte(b) PROVE Strings'
    <3>1. Len(buf) < MaxLen
      BY <2>0, <2>1, LastIsInFlat, WireAssumption, BufType DEF Strings, AddByte, Room, buf
    <3>2. PICK u \in Seq(Byte) : u = Append(buf, b) /\ Len(u) <= MaxLen
      <4>1. MaxLen \in Nat /\ buf \in Seq(Byte) /\ Len(buf) \in Nat
        BY BufType, WireAssumption
      <4>2. Append(buf, b) \in Seq(Byte) /\ Len(Append(buf, b)) = Len(buf) + 1
        BY <4>1, AppendProperties
      <4>3. Len(buf) + 1 <= MaxLen
        BY <3>1, <4>1
      <4> QED
        BY <4>2, <4>3
    <3>3. PICK t \in Seq(Seq(Byte)) : /\ t = Front(updates) /\ Len(t) = m - 1
                                      /\ \A i \in 1 .. m - 1 : t[i] = updates[i]
      <4>1. /\ SubSeq(updates, 1, m - 1) \in Seq(Seq(Byte))
            /\ Len(SubSeq(updates, 1, m - 1)) = m - 1
            /\ \A i \in 1 .. m - 1 : SubSeq(updates, 1, m - 1)[i] = updates[i]
        BY <2>0 DEF Strings
      <4> QED
        BY <2>0, <4>1 DEF Front
    <3>4. updates' = t \o <<u>>
      BY <2>1, <3>2, <3>3 DEF AddByte
    <3>5. /\ updates' \in Seq(Seq(Byte)) /\ Len(updates') = m
          /\ \A i \in 1 .. m : updates'[i] = IF i < m THEN updates[i] ELSE u
      BY <2>0, <3>3, <3>4
    <3>6. ASSUME NEW i \in 1 .. m PROVE Len(updates'[i]) <= MaxLen
      BY <2>0, <3>2, <3>5 DEF Strings
    <3> QED
      BY <2>0, <3>5, <3>6 DEF Strings
  <2>2. ASSUME Complete PROVE Strings'
    <3>1. updates' = Append(updates, << >>) /\ << >> \in Seq(Byte) /\ Len(<< >>) = 0
      BY <2>2, EmptySeq DEF Complete
    <3>2. /\ updates' \in Seq(Seq(Byte)) /\ Len(updates') = m + 1
          /\ \A i \in 1 .. m + 1 : updates'[i] = IF i <= m THEN updates[i] ELSE << >>
      BY <2>0, <3>1, AppendProperties DEF Strings
    <3>3. MaxLen \in Nat /\ updates' # << >>
      BY <2>0, <3>2, WireAssumption
    <3>4. ASSUME NEW i \in 1 .. m + 1 PROVE Len(updates'[i]) <= MaxLen
      <4>1. CASE i <= m
        BY <4>1, <2>0, <3>2 DEF Strings
      <4>2. CASE ~(i <= m)
        BY <4>2, <3>1, <3>2, <3>3
      <4> QED
        BY <4>1, <4>2
    <3> QED
      BY <3>2, <3>3, <3>4 DEF Strings
  <2>3. CASE UNCHANGED updates
    BY <2>3 DEF Strings
  <2> QED
    BY <2>1, <2>2, <2>3 DEF Next
<1> QED
  BY <1>1, <1>2, PTL DEF Spec

-----------------------------------------------------------------------------
\* A varuint is read back wherever it stands and whatever follows it: every number of
\* the width, in at most Groups bytes (yjswire.go:23-50).
THEOREM VarUintsAreReadBack == Spec => []VarUintRoundTrip
<1>1. Strings => VarUintRoundTrip
  <2> SUFFICES ASSUME Strings, NEW v \in 0 .. Pow(2, Width) - 1
               PROVE  LET r == ReadVarUint(buf \o VarUint(v) \o buf, Len(buf))
                      IN  r.ok /\ r.val = v /\ r.n = Len(VarUint(v))
    BY DEF VarUintRoundTrip
  <2>1. v \in Nat /\ v < Pow(2, Width)
    BY Bases
  <2>2. PICK b \in Seq(Byte), s \in Seq(Byte) : b = buf /\ s = VarUint(v) /\ Len(b) \in Nat
    BY <2>1, BufType, VarUintType
  <2>3. StandsIn(s, b \o s, Len(b)) /\ b \o s \in Seq(Byte)
    BY StandsInConcat, ConcatProperties
  <2>4. StandsIn(s, (b \o s) \o b, Len(b)) /\ (b \o s) \o b \in Seq(Byte)
    BY <2>2, <2>3, StandsInConcat, ConcatProperties
  <2>5. ReadVarUint((b \o s) \o b, Len(b)) = [ok |-> TRUE, n |-> Len(s), val |-> v]
    BY <2>1, <2>2, <2>4, ReadsWritten
  <2> QED
    BY <2>2, <2>5
<1> QED
  BY <1>1, StringsInvariant, PTL

\* The two encoders write such frames.
LEMMA EncodedFrames ==
  \A s : /\ EncodeSyncStep2(s) = Frame(syncStep2, s)
         /\ EncodeSyncUpdate(s) = Frame(syncUpdate, s)
BY DEF EncodeSyncStep2, EncodeSyncUpdate, Frame

\* A message that was cut anywhere is ignored: it is neither kept nor passed on
\* (yjswire.go:52-63, 85-120, hub.go:155-198).
THEOREM CutFramesAreIgnored == Spec => []CutFramesAreNoUpdates
<1>1. Strings => CutFramesAreNoUpdates
  <2> SUFFICES ASSUME Strings, NEW step \in {syncStep2, syncUpdate},
                      NEW n \in 0 .. Len(Frame(step, buf)) - 1
               PROVE  Kind(SubSeq(Frame(step, buf), 1, n)) = "ignored"
    BY EncodedFrames DEF CutFramesAreNoUpdates
  <2>1. PICK b \in Seq(Byte) : b = buf /\ Len(b) \in Nat /\ Len(b) <= MaxLen
    BY BufType
  <2>2. Len(b) < Pow(2, Width)
    BY <2>1, WireAssumption, Bases
  <2>3. Len(Frame(step, b)) \in Nat
    BY FrameParts, LenProperties
  <2>4. n \in Nat /\ n < Len(Frame(step, b))
    BY <2>1, <2>3
  <2>5. ParseYjsWire(SubSeq(Frame(step, b), 1, n)) = Refused
    BY <2>2, <2>4, RefusesCutFrame
  <2> QED
    BY <2>1, <2>5 DEF Kind, Refused
<1> QED
  BY <1>1, StringsInvariant, PTL

\* What a frame is parsed to.
LEMMA ParsedEdit ==
  ASSUME NEW msg \in Seq(Byte), Kind(msg) = "edit"
  PROVE  \E step \in {syncStep2, syncUpdate}, inner \in Seq(Byte) :
           /\ ParseYjsWire(msg) = [ok |-> TRUE, top |-> msgSync, step |-> step, inner |-> inner]
           /\ inner # << >> /\ Len(inner) < Pow(2, Width)
<1>1. PICK p : p = ParseYjsWire(msg)
  OBVIOUS
<1>2. /\ p.ok /\ p.top = msgSync /\ p.step \in {syncStep2, syncUpdate} /\ p.inner # << >>
  BY <1>1 DEF Kind
<1>3. PICK top : top = ReadVarUint(msg, 0)
  OBVIOUS
<1>4. PICK step : step = ReadVarUint(msg, top.n)
  OBVIOUS
<1>5. PICK inner : inner = ReadVarBytes(msg, top.n + step.n)
  OBVIOUS
<1>6. /\ top.ok /\ step.ok /\ inner.ok /\ step.val \in {syncStep2, syncUpdate}
      /\ p = [ok |-> TRUE, top |-> msgSync, step |-> step.val, inner |-> inner.payload]
  BY <1>1, <1>2, <1>3, <1>4, <1>5 DEF ParseYjsWire, Refused
<1>7. top.n \in Nat
  BY <1>3, <1>6, ReadsWithin DEF Refused
<1>8. step.n \in Nat
  BY <1>4, <1>6, <1>7, ReadsWithin DEF Refused
<1>9. PICK off \in Nat : off = top.n + step.n
  BY <1>7, <1>8
<1>10. PICK l : l = ReadVarUint(msg, off)
  OBVIOUS
<1>11. /\ l.ok /\ ~(l.val > Len(msg) - (off + l.n))
       /\ inner.payload = SubSeq(msg, off + l.n + 1, off + l.n + l.val)
  BY <1>5, <1>6, <1>9, <1>10 DEF ReadVarBytes, Refused
<1>12. PICK n \in Nat, v \in Nat : l.n = n /\ l.val = v /\ v < Pow(2, Width)
  BY <1>10, <1>11, ReadsWithin DEF Refused
<1>13. off + n + v <= Len(msg) /\ Len(msg) \in Nat
  BY <1>11, <1>12, LenProperties
<1>14. /\ SubSeq(msg, off + n + 1, off + n + v) \in Seq(Byte)
       /\ Len(SubSeq(msg, off + n + 1, off + n + v)) = v
  BY <1>13
<1>15. PICK payload \in Seq(Byte) : payload = inner.payload /\ Len(payload) = v
  BY <1>11, <1>12, <1>14
<1>16. PICK k \in {syncStep2, syncUpdate} : k = step.val
  BY <1>6
<1>17. p = [ok |-> TRUE, top |-> msgSync, step |-> k, inner |-> payload]
  BY <1>6, <1>15, <1>16
<1>18. p.inner = payload
  BY <1>17
<1> QED
  BY <1>1, <1>2, <1>12, <1>15, <1>17, <1>18

\* Every peer reads in the frame it is sent the update that the hub keeps, and reads it
\* in an Update (hub.go:172-187).
THEOREM PeersReadWhatIsKept == Spec => []PeersReadTheUpdate
<1>1. Strings => PeersReadTheUpdate
  <2> SUFFICES ASSUME Strings, Kind(buf) = "edit"
               PROVE  LET sent == ParseYjsWire(ForPeers(buf))
                      IN  /\ Kind(ForPeers(buf)) = "edit"
                          /\ sent.step = syncUpdate /\ sent.inner = ParseYjsWire(buf).inner
    BY DEF PeersReadTheUpdate
  <2>1. PICK b \in Seq(Byte) : b = buf
    BY BufType
  <2>2. PICK step \in {syncStep2, syncUpdate}, inner \in Seq(Byte) :
           /\ ParseYjsWire(b) = [ok |-> TRUE, top |-> msgSync, step |-> step, inner |-> inner]
           /\ inner # << >> /\ Len(inner) < Pow(2, Width)
    BY <2>1, ParsedEdit
  <2>3. CASE step = syncStep2
    <3>1. ForPeers(b) = Frame(syncUpdate, inner)
      BY <2>2, <2>3, EncodedFrames DEF ForPeers
    <3>2. ParseYjsWire(ForPeers(b)) =
            [ok |-> TRUE, top |-> msgSync, step |-> syncUpdate, inner |-> inner]
      BY <2>2, <3>1, ParsesFrame
    <3>3. Kind(ForPeers(b)) = "edit"
      BY <2>2, <3>2 DEF Kind, syncStep1, syncUpdate
    <3> QED
      BY <2>1, <2>2, <3>2, <3>3
  <2>4. CASE step # syncStep2
    <3>1. ForPeers(b) = b /\ step = syncUpdate
      BY <2>2, <2>4 DEF ForPeers
    <3> QED
      BY <2>1, <2>2, <3>1
  <2> QED
    BY <2>3, <2>4
<1> QED
  BY <1>1, StringsInvariant, PTL

-----------------------------------------------------------------------------
(***************************************************************************)
(* The stored list of updates.                                             *)
(***************************************************************************)
\* The equation of Number: the last byte is the lowest.
LEMMA NumberDef ==
  \A s \in Seq(Byte) :
    /\ Number(s) \in Nat
    /\ s = << >> => Number(s) = 0
    /\ s # << >> => Number(s) = Number(Front(s)) * ByteBase + Last(s)
<1> DEFINE P == CHOOSE P : P = [t \in Seq(Byte) |->
                  IF t = << >> THEN 0 ELSE P[Front(t)] * ByteBase + Last(t)]
           measure == LengthOf(Seq(Byte))
           Stop == {<< >>}
           A == [t \in Seq(Byte) |-> 0]
           D == [t \in Seq(Byte) |-> Front(t)]
           G == [t \in Seq(Byte) |-> [v \in Nat |-> v * ByteBase + Last(t)]]
<1>0. ASSUME NEW t \in Seq(Byte), t # << >>
      PROVE  Front(t) \in Seq(Byte) /\ measure[Front(t)] < measure[t] /\ Last(t) \in Nat
  <2>1. Len(t) \in Nat /\ Front(t) \in Seq(Byte) /\ Len(Front(t)) = Len(t) - 1 /\ Last(t) \in Byte
    BY <1>0, FrontLast, LenProperties
  <2> QED
    BY <2>1, Bases DEF LengthOf
<1>1. Recursion(Seq(Byte), Nat, measure, Stop, A, D, G)
  <2>1. ASSUME NEW t \in Seq(Byte), t \notin Stop, NEW v \in Nat PROVE G[t][v] \in Nat
    BY <2>1, <1>0, Bases
  <2>2. \A t \in Seq(Byte) : t \notin Stop => D[t] \in Seq(Byte) /\ measure[D[t]] < measure[t]
    BY <1>0
  <2>3. measure \in [Seq(Byte) -> Nat] /\ Nat # {} /\ \A t \in Seq(Byte) : A[t] \in Nat
    BY Lengths
  <2> HIDE DEF measure, A, D, G, Stop
  <2> QED
    BY <2>1, <2>2, <2>3 DEF Recursion
<1>2. PICK f \in [Seq(Byte) -> Nat] : Unfolds(f, Seq(Byte), Stop, A, D, G)
  <2> HIDE DEF measure, A, D, G, Stop
  <2> QED
    BY <1>1, RecursionExists
<1>3. ASSUME NEW t \in Seq(Byte)
      PROVE  f[t] = IF t = << >> THEN 0 ELSE f[Front(t)] * ByteBase + Last(t)
  <2>1. CASE t = << >>
    BY <1>2, <2>1 DEF Unfolds
  <2>2. CASE t # << >>
    <3>1. f[t] = G[t][f[D[t]]] /\ D[t] = Front(t)
      BY <1>2, <2>2 DEF Unfolds
    <3>2. f[Front(t)] \in Nat
      BY <2>2, <1>0
    <3> QED
      BY <2>2, <3>1, <3>2
  <2> QED
    BY <2>1, <2>2
<1>4. f = [t \in Seq(Byte) |-> IF t = << >> THEN 0 ELSE f[Front(t)] * ByteBase + Last(t)]
  BY <1>3
<1>5. P = [t \in Seq(Byte) |-> IF t = << >> THEN 0 ELSE P[Front(t)] * ByteBase + Last(t)]
  BY <1>4, Zenon
<1>6. \A s \in Seq(Byte) : Number(s) = P[s]
  BY DEF Number
<1> HIDE DEF P
<1>7. ASSUME NEW t \in Seq(Byte)
      PROVE  /\ t = << >> => P[t] = 0
             /\ t # << >> => P[t] = P[Front(t)] * ByteBase + Last(t)
  BY <1>5
<1>8. \A t \in Seq(Byte) : P[t] \in Nat
  <2>1. ASSUME NEW t \in Seq(Byte), t \in Stop PROVE P[t] = A[t]
    BY <1>7, <2>1
  <2>2. ASSUME NEW t \in Seq(Byte), t \notin Stop, P[D[t]] \in Nat PROVE P[t] = G[t][P[D[t]]]
    BY <1>7, <2>2
  <2> HIDE DEF measure, A, D, G, Stop
  <2>3. Follows(P, Seq(Byte), Nat, Stop, A, D, G)
    BY <2>1, <2>2 DEF Follows
  <2> QED
    BY <1>1, <2>3, RecursionTypes
<1> QED
  BY <1>0, <1>6, <1>7, <1>8

\* A length that fits in LenBytes bytes is read back.
LEMMA BigEndianRead ==
  ASSUME NEW n \in Nat, n < Pow(ByteBase, LenBytes)
  PROVE  BigEndian(n) \in Seq(Byte) /\ Len(BigEndian(n)) = LenBytes /\ Number(BigEndian(n)) = n
<1>1. PICK B \in Nat : B = ByteBase /\ B >= 2 /\ Byte = 0 .. B - 1
  BY Bases
<1>2. PICK L \in Nat : L = LenBytes /\ L >= 1
  BY WireAssumption
<1>3. \A k \in Nat : Pow(B, k) \in Nat \ {0} /\ Pow(B, k + 1) = B * Pow(B, k)
  <2>1. B \in Nat \ {0}
    BY <1>1
  <2> QED
    BY <2>1, PowPositive, PowDef
<1> DEFINE Quotient(k) == n \div Pow(B, L - k)
<1>4. ASSUME NEW k \in 0 .. L PROVE Quotient(k) \in Nat /\ Quotient(k) % B \in Byte
  <2>1. PICK p \in Nat : p = Pow(B, L - k) /\ p > 0
    <3>1. L - k \in Nat
      BY <1>2
    <3> QED
      BY <3>1, <1>3
  <2>2. n \div p \in Nat
    BY <2>1, Division
  <2>3. (n \div p) % B \in Nat /\ (n \div p) % B < B
    BY <2>2, <1>1, Division
  <2> QED
    BY <2>1, <2>2, <2>3, <1>1
<1>5. PICK s : s = BigEndian(n)
  OBVIOUS
<1>6. s = [i \in 1 .. L |-> Quotient(i) % B]
  BY <1>1, <1>2, <1>5 DEF BigEndian
<1> HIDE DEF Quotient
<1>7. s \in Seq(Byte) /\ Len(s) = L /\ \A i \in 1 .. L : s[i] = Quotient(i) % B
  BY <1>2, <1>4, <1>6
<1>8. ASSUME NEW k \in 0 .. L - 1
      PROVE  Quotient(k + 1) = Quotient(k) * B + (Quotient(k + 1) % B)
  <2>1. PICK p \in Nat : p = Pow(B, L - (k + 1)) /\ p > 0 /\ Pow(B, L - k) = B * p
    <3>1. L - (k + 1) \in Nat /\ (L - (k + 1)) + 1 = L - k
      BY <1>2
    <3> QED
      BY <3>1, <1>3
  <2>2. PICK q \in Nat : q = n \div p
    BY <2>1, Division
  <2>3. n \div (B * p) = q \div B
    <3>1. \A v, m, d \in Nat : m >= 2 /\ d > 0 => v \div (m * d) = (v \div d) \div m
      OBVIOUS
    <3> QED
      BY <3>1, <1>1, <2>1, <2>2
  <2>4. q = B * (q \div B) + (q % B) /\ q \div B \in Nat /\ q % B \in Nat
    BY <1>1, Division
  <2>5. B * (q \div B) = (q \div B) * B
    BY <2>4
  <2>6. Quotient(k + 1) = q /\ Quotient(k) = q \div B
    BY <2>1, <2>2, <2>3 DEF Quotient
  <2> QED
    BY <2>4, <2>5, <2>6
<1> DEFINE S == {k \in Nat : k <= L => Number(SubSeq(s, 1, k)) = Quotient(k)}
<1>9. 0 \in S
  <2>1. SubSeq(s, 1, 0) = << >> /\ << >> \in Seq(Byte)
    BY <1>7
  <2>2. PICK p \in Nat : p = Pow(B, L) /\ n < p
    BY <1>1, <1>2, <1>3
  <2>3. n \div p = 0
    <3>1. \A v, d \in Nat : v < d => v \div d = 0
      OBVIOUS
    <3> QED
      BY <2>2, <3>1
  <2>4. Quotient(0) = 0
    BY <2>2, <2>3 DEF Quotient
  <2> QED
    BY <2>1, <2>4, NumberDef
<1>10. ASSUME NEW k \in Nat, k \in S PROVE k + 1 \in S
  <2> SUFFICES ASSUME k + 1 <= L PROVE Number(SubSeq(s, 1, k + 1)) = Quotient(k + 1)
    OBVIOUS
  <2>1. Number(SubSeq(s, 1, k)) = Quotient(k)
    BY <1>10
  <2>2. PICK t \in Seq(Byte) : /\ t = SubSeq(s, 1, k + 1) /\ Len(t) = k + 1
                               /\ \A i \in 1 .. k + 1 : t[i] = s[i]
    <3>1. k + 1 \in 0 .. Len(s)
      BY <1>2, <1>7
    <3> QED
      BY <1>7, <3>1, Cutting
  <2>3. t # << >> /\ Last(t) = Quotient(k + 1) % B
    <3>1. k + 1 \in 1 .. L /\ t[k + 1] = s[k + 1]
      BY <1>2, <2>2
    <3> QED
      BY <1>7, <2>2, <3>1 DEF Last
  <2>4. Front(t) = SubSeq(s, 1, k)
    <3>1. k \in 0 .. Len(s)
      BY <1>2, <1>7
    <3>2. /\ SubSeq(s, 1, k) \in Seq(Byte) /\ Len(SubSeq(s, 1, k)) = k
          /\ \A i \in 1 .. k : SubSeq(s, 1, k)[i] = s[i]
      BY <1>7, <3>1, Cutting
    <3>3. /\ Front(t) \in Seq(Byte) /\ Len(Front(t)) = Len(t) - 1
          /\ \A i \in 1 .. Len(t) - 1 : Front(t)[i] = t[i]
      BY <2>3, FrontLast
    <3>4. Len(t) - 1 = k
      BY <2>2
    <3>5. \A i \in 1 .. k : Front(t)[i] = SubSeq(s, 1, k)[i]
      BY <2>2, <3>2, <3>3, <3>4
    <3> QED
      BY <3>2, <3>3, <3>4, <3>5, SeqEqual
  <2>5. Number(t) = Number(Front(t)) * ByteBase + Last(t)
    BY <2>2, <2>3, NumberDef
  <2>6. Number(t) = Quotient(k) * B + (Quotient(k + 1) % B)
    BY <1>1, <2>1, <2>3, <2>4, <2>5
  <2>7. k \in 0 .. L - 1
    BY <1>2
  <2> QED
    BY <1>8, <2>2, <2>6, <2>7
<1> HIDE DEF S
<1>11. Nat \subseteq S
  BY <1>9, <1>10, NatSetInduction
<1>12. Number(SubSeq(s, 1, L)) = Quotient(L)
  BY <1>2, <1>11 DEF S
<1>13. Quotient(L) = n
  <2>1. L - L = 0 /\ Pow(B, 0) = 1
    BY <1>1, PowDef
  <2> QED
    BY <2>1 DEF Quotient
<1>14. SubSeq(s, 1, L) = s
  BY <1>7, SubSeqFull
<1> QED
  BY <1>2, <1>5, <1>7, <1>12, <1>13, <1>14

\* Every update fits in the stored length.
Short == {us \in Seq(Seq(Byte)) :
            \A i \in 1 .. Len(us) : Len(us[i]) < Pow(ByteBase, LenBytes)}

\* The first of such updates, and the others.
LEMMA ShortTail ==
  ASSUME NEW us \in Short, us # << >>
  PROVE  /\ Head(us) \in Seq(Byte) /\ Len(Head(us)) \in Nat
         /\ Len(Head(us)) < Pow(ByteBase, LenBytes)
         /\ Tail(us) \in Short /\ Tail(us) \in Seq(Seq(Byte)) /\ Len(Tail(us)) = Len(us) - 1
         /\ \A i \in 1 .. Len(us) - 1 : Tail(us)[i] = us[i + 1]
<1>1. PICK m \in Nat : m = Len(us) /\ m >= 1
  BY EmptySeq DEF Short
<1>2. us \in Seq(Seq(Byte)) /\ \A i \in 1 .. m : Len(us[i]) < Pow(ByteBase, LenBytes)
  BY <1>1 DEF Short
<1>3. PICK t : t = Tail(us)
  OBVIOUS
<1>4. t \in Seq(Seq(Byte)) /\ Len(t) = m - 1 /\ \A i \in 1 .. m - 1 : t[i] = us[i + 1]
  BY <1>1, <1>2, <1>3, HeadTailProperties
<1>5. Head(us) = us[1] /\ us[1] \in Seq(Byte)
  BY <1>1, <1>2
<1>6. ASSUME NEW i \in 1 .. m - 1 PROVE Len(t[i]) < Pow(ByteBase, LenBytes)
  <2>1. i + 1 \in 1 .. m
    BY <1>1
  <2> QED
    BY <2>1, <1>2, <1>4
<1>7. t \in Short
  BY <1>4, <1>6 DEF Short
<1> QED
  BY <1>1, <1>2, <1>3, <1>4, <1>5, <1>7, LenProperties

\* encodeStoredState writes the magic, then the blocks: a length and its update.
LEMMA BlocksExist ==
  \E B : /\ B = CHOOSE P : P = [l \in Seq(Seq(Byte)) |->
                  IF l = << >> THEN << >>
                  ELSE BigEndian(Len(Head(l))) \o Head(l) \o P[Tail(l)]]
         /\ \A l \in Seq(Seq(Byte)) :
              B[l] = IF l = << >> THEN << >>
                     ELSE BigEndian(Len(Head(l))) \o Head(l) \o B[Tail(l)]
<1> DEFINE P == CHOOSE P : P = [l \in Seq(Seq(Byte)) |->
                  IF l = << >> THEN << >>
                  ELSE BigEndian(Len(Head(l))) \o Head(l) \o P[Tail(l)]]
           X == Seq(Seq(Byte))
           measure == LengthOf(X)
           Stop == {<< >>}
           A == [l \in X |-> << >>]
           D == [l \in X |-> Tail(l)]
           G == [l \in X |-> [s \in Seq(Int) |-> BigEndian(Len(Head(l))) \o Head(l) \o s]]
<1>0. ASSUME NEW l \in X, l # << >>
      PROVE  /\ Tail(l) \in X /\ measure[Tail(l)] < measure[l]
             /\ Head(l) \in Seq(Int) /\ BigEndian(Len(Head(l))) \in Seq(Int)
  <2>1. /\ Tail(l) \in X /\ Len(Tail(l)) = Len(l) - 1 /\ Head(l) \in Seq(Byte) /\ Len(l) \in Nat
    BY <1>0, HeadTailProperties, LenProperties
  <2>2. Byte \subseteq Int
    BY Bases
  <2>3. Head(l) \in Seq(Int)
    BY <2>1, <2>2, SeqMonotonic
  <2>4. BigEndian(Len(Head(l))) \in Seq(Int)
    <3>1. PICK n \in Nat : n = Len(Head(l))
      BY <2>1, LenProperties
    <3>2. \A p \in Nat : p > 0 => (n \div p) % ByteBase \in Nat
      <4>1. ByteBase \in Nat /\ ByteBase > 0
        BY Bases
      <4>2. ASSUME NEW p \in Nat, p > 0 PROVE n \div p \in Nat
        BY <4>2
      <4>3. \A q \in Nat : q % ByteBase \in Nat
        BY <4>1
      <4> QED
        BY <4>2, <4>3
    <3>3. ASSUME NEW i \in 1 .. LenBytes
          PROVE  Pow(ByteBase, LenBytes - i) \in Nat /\ Pow(ByteBase, LenBytes - i) > 0
      <4>1. LenBytes - i \in Nat /\ ByteBase \in Nat \ {0}
        BY WireAssumption, Bases
      <4>2. \A k \in Nat : Pow(ByteBase, k) \in Nat /\ Pow(ByteBase, k) # 0
        BY <4>1, PowPositive
      <4>3. PICK p \in Nat : p = Pow(ByteBase, LenBytes - i) /\ p # 0
        BY <4>1, <4>2
      <4> QED
        BY <4>3
    <3>4. ASSUME NEW i \in 1 .. LenBytes
          PROVE  (n \div Pow(ByteBase, LenBytes - i)) % ByteBase \in Int
      BY <3>2, <3>3
    <3> QED
      BY <3>1, <3>4, WireAssumption DEF BigEndian
  <2> QED
    BY <2>1, <2>3, <2>4 DEF LengthOf
<1>1. Recursion(X, Seq(Int), measure, Stop, A, D, G)
  <2>1. ASSUME NEW l \in X, l \notin Stop, NEW s \in Seq(Int) PROVE G[l][s] \in Seq(Int)
    BY <2>1, <1>0, ConcatProperties
  <2>2. \A l \in X : l \notin Stop => D[l] \in X /\ measure[D[l]] < measure[l]
    BY <1>0
  <2>3. measure \in [X -> Nat] /\ Seq(Int) # {} /\ \A l \in X : A[l] \in Seq(Int)
    BY Lengths, EmptySeq
  <2> HIDE DEF X, measure, A, D, G, Stop
  <2> QED
    BY <2>1, <2>2, <2>3 DEF Recursion
<1>2. PICK f \in [X -> Seq(Int)] : Unfolds(f, X, Stop, A, D, G)
  <2> HIDE DEF X, measure, A, D, G, Stop
  <2> QED
    BY <1>1, RecursionExists
<1>3. ASSUME NEW l \in X
      PROVE  f[l] = IF l = << >> THEN << >>
                    ELSE BigEndian(Len(Head(l))) \o Head(l) \o f[Tail(l)]
  <2>1. CASE l = << >>
    BY <1>2, <2>1 DEF Unfolds
  <2>2. CASE l # << >>
    <3>1. f[l] = G[l][f[D[l]]] /\ D[l] = Tail(l)
      BY <1>2, <2>2 DEF Unfolds
    <3>2. f[Tail(l)] \in Seq(Int)
      BY <2>2, <1>0
    <3> QED
      BY <2>2, <3>1, <3>2
  <2> QED
    BY <2>1, <2>2
<1>4. f = [l \in Seq(Seq(Byte)) |->
             IF l = << >> THEN << >> ELSE BigEndian(Len(Head(l))) \o Head(l) \o f[Tail(l)]]
  BY <1>3
<1>5. P = [l \in Seq(Seq(Byte)) |->
             IF l = << >> THEN << >> ELSE BigEndian(Len(Head(l))) \o Head(l) \o P[Tail(l)]]
  BY <1>4, Zenon
<1>6. ASSUME NEW l \in Seq(Seq(Byte))
      PROVE  P[l] = IF l = << >> THEN << >>
                    ELSE BigEndian(Len(Head(l))) \o Head(l) \o P[Tail(l)]
  <2> HIDE DEF P
  <2> QED
    BY <1>5
<1> QED
  BY <1>6, Zenon

\* A part of a sequence.
LEMMA Middle ==
  ASSUME NEW S, NEW data \in Seq(S), NEW m \in Nat, NEW n \in Nat,
         1 <= m, m <= n + 1, n <= Len(data)
  PROVE  /\ SubSeq(data, m, n) \in Seq(S) /\ Len(SubSeq(data, m, n)) = (n - m) + 1
         /\ \A i \in 1 .. (n - m) + 1 : SubSeq(data, m, n)[i] = data[(m + i) - 1]
<1>1. \A i \in m .. n : data[i] \in S
  BY LenProperties, ElementOfSeq
<1>2. /\ SubSeq(data, m, n) \in Seq(S)
      /\ Len(SubSeq(data, m, n)) = IF m <= n THEN n - m + 1 ELSE 0
      /\ \A i \in 1 .. n - m + 1 : SubSeq(data, m, n)[i] = data[m + i - 1]
  BY <1>1, SubSeqProperties
<1> QED
  BY <1>2

\* What parseStoredState makes of the bytes that are left: the end of their first
\* update, whether it is cut, the update and the bytes behind it.
End(b) == LenBytes + Number(SubSeq(b, 1, LenBytes))
IsCut(b) == Len(b) < LenBytes \/ Len(b) < End(b)
First(b) == SubSeq(b, LenBytes + 1, End(b))
Rest(b) == SubSeq(b, End(b) + 1, Len(b))

\* An update that is not cut, and what is behind it, are parts of the bytes.
LEMMA Parts ==
  ASSUME NEW b \in Seq(Byte), ~IsCut(b)
  PROVE  /\ End(b) \in Nat /\ LenBytes <= End(b) /\ End(b) <= Len(b)
         /\ First(b) \in Seq(Byte) /\ Len(First(b)) = End(b) - LenBytes
         /\ Rest(b) \in Seq(Byte) /\ Len(Rest(b)) = Len(b) - End(b) /\ Len(Rest(b)) < Len(b)
         /\ \A i \in 1 .. End(b) - LenBytes : First(b)[i] = b[LenBytes + i]
         /\ \A i \in 1 .. Len(b) - End(b) : Rest(b)[i] = b[End(b) + i]
<1>1. PICK L \in Nat : L = LenBytes /\ L >= 1
  BY WireAssumption
<1>2. PICK l \in Nat : l = Len(b) /\ L <= l /\ ~(l < End(b))
  BY <1>1, LenProperties DEF IsCut
<1>3. PICK e \in Nat : e = End(b) /\ L <= e /\ e <= l
  <2>1. SubSeq(b, 1, L) \in Seq(Byte)
    BY <1>1, <1>2, Cutting
  <2>2. PICK k \in Nat : k = Number(SubSeq(b, 1, LenBytes))
    BY <1>1, <2>1, NumberDef
  <2>3. End(b) = L + k
    BY <1>1, <2>2 DEF End
  <2> QED
    BY <1>2, <2>3
<1>4. /\ SubSeq(b, L + 1, e) \in Seq(Byte) /\ Len(SubSeq(b, L + 1, e)) = (e - (L + 1)) + 1
      /\ \A i \in 1 .. (e - (L + 1)) + 1 : SubSeq(b, L + 1, e)[i] = b[((L + 1) + i) - 1]
  <2>1. L + 1 \in Nat /\ 1 <= L + 1 /\ L + 1 <= e + 1 /\ e <= Len(b)
    BY <1>2, <1>3
  <2> QED
    BY <2>1, Middle
<1>5. /\ SubSeq(b, e + 1, l) \in Seq(Byte) /\ Len(SubSeq(b, e + 1, l)) = (l - (e + 1)) + 1
      /\ \A i \in 1 .. (l - (e + 1)) + 1 : SubSeq(b, e + 1, l)[i] = b[((e + 1) + i) - 1]
  <2>1. e + 1 \in Nat /\ 1 <= e + 1 /\ e + 1 <= l + 1 /\ l <= Len(b)
    BY <1>2, <1>3
  <2> QED
    BY <2>1, Middle
<1>6. PICK s, t : s = SubSeq(b, L + 1, e) /\ t = SubSeq(b, e + 1, l)
  OBVIOUS
<1>7. s = First(b) /\ t = Rest(b)
  BY <1>1, <1>2, <1>3, <1>6 DEF First, Rest
<1>8. (e - (L + 1)) + 1 = e - L /\ (l - (e + 1)) + 1 = l - e
  OBVIOUS
<1>9. \A i \in Nat : ((L + 1) + i) - 1 = L + i /\ ((e + 1) + i) - 1 = e + i
  OBVIOUS
<1>10. /\ s \in Seq(Byte) /\ Len(s) = e - L /\ t \in Seq(Byte) /\ Len(t) = l - e
       /\ \A i \in 1 .. e - L : s[i] = b[L + i]
       /\ \A i \in 1 .. l - e : t[i] = b[e + i]
  BY <1>4, <1>5, <1>6, <1>8, <1>9
<1>11. l - e < l
  BY <1>1, <1>3
<1> QED
  BY <1>1, <1>2, <1>3, <1>7, <1>10, <1>11

\* The equation of Updates, the loop of parseStoredState.
LEMMA UpdatesDef ==
  \A b \in Seq(Byte) :
    /\ Updates(b) \in Seq(Seq(Byte))
    /\ IsCut(b) => Updates(b) = << >>
    /\ ~IsCut(b) => Updates(b) = <<First(b)>> \o Updates(Rest(b))
<1> DEFINE P == CHOOSE P : P = [b \in Seq(Byte) |->
                  IF Len(b) < LenBytes \/ Len(b) < LenBytes + Number(SubSeq(b, 1, LenBytes))
                  THEN << >>
                  ELSE <<SubSeq(b, LenBytes + 1, LenBytes + Number(SubSeq(b, 1, LenBytes)))>>
                       \o P[SubSeq(b, LenBytes + Number(SubSeq(b, 1, LenBytes)) + 1, Len(b))]]
           X == Seq(Byte)
           V == Seq(Seq(Byte))
           measure == LengthOf(X)
           Stop == {b \in X : IsCut(b)}
           A == [b \in X |-> << >>]
           D == [b \in X |-> Rest(b)]
           G == [b \in X |-> [us \in V |-> <<First(b)>> \o us]]
<1>0. ASSUME NEW b \in X, ~IsCut(b)
      PROVE  Rest(b) \in X /\ measure[Rest(b)] < measure[b] /\ First(b) \in Seq(Byte)
  BY <1>0, Parts DEF LengthOf
<1>1. Recursion(X, V, measure, Stop, A, D, G)
  <2>1. ASSUME NEW b \in X, b \notin Stop, NEW us \in V PROVE G[b][us] \in V
    BY <2>1, <1>0, Prepended
  <2>2. \A b \in X : b \notin Stop => D[b] \in X /\ measure[D[b]] < measure[b]
    BY <1>0
  <2>3. measure \in [X -> Nat] /\ V # {} /\ \A b \in X : A[b] \in V
    BY Lengths, EmptySeq
  <2> HIDE DEF X, V, measure, A, D, G, Stop
  <2> QED
    BY <2>1, <2>2, <2>3 DEF Recursion
<1>2. PICK f \in [X -> V] : Unfolds(f, X, Stop, A, D, G)
  <2> HIDE DEF X, V, measure, A, D, G, Stop
  <2> QED
    BY <1>1, RecursionExists
<1>3. ASSUME NEW b \in X
      PROVE  f[b] = IF IsCut(b) THEN << >> ELSE <<First(b)>> \o f[Rest(b)]
  <2>1. CASE IsCut(b)
    BY <1>2, <2>1 DEF Unfolds
  <2>2. CASE ~IsCut(b)
    <3>1. f[b] = G[b][f[D[b]]] /\ D[b] = Rest(b)
      BY <1>2, <2>2 DEF Unfolds
    <3>2. f[Rest(b)] \in V
      BY <2>2, <1>0
    <3> QED
      BY <2>2, <3>1, <3>2
  <2> QED
    BY <2>1, <2>2
<1>4. f = [b \in Seq(Byte) |-> IF IsCut(b) THEN << >> ELSE <<First(b)>> \o f[Rest(b)]]
  BY <1>3
<1>5. P = [b \in Seq(Byte) |-> IF IsCut(b) THEN << >> ELSE <<First(b)>> \o P[Rest(b)]]
  BY <1>4, Zenon DEF IsCut, First, Rest, End
<1>6. \A b \in Seq(Byte) : Updates(b) = P[b]
  BY DEF Updates
<1> HIDE DEF P
<1>7. ASSUME NEW b \in Seq(Byte)
      PROVE  /\ IsCut(b) => P[b] = << >>
             /\ ~IsCut(b) => P[b] = <<First(b)>> \o P[Rest(b)]
  BY <1>5
<1>8. \A b \in X : P[b] \in V
  <2>1. ASSUME NEW b \in X, b \in Stop PROVE P[b] = A[b]
    BY <1>7, <2>1
  <2>2. ASSUME NEW b \in X, b \notin Stop, P[D[b]] \in V PROVE P[b] = G[b][P[D[b]]]
    BY <1>7, <2>2
  <2> HIDE DEF X, V, measure, A, D, G, Stop
  <2>3. Follows(P, X, V, Stop, A, D, G)
    BY <2>1, <2>2 DEF Follows
  <2> QED
    BY <1>1, <2>3, RecursionTypes
<1> QED
  BY <1>0, <1>6, <1>7, <1>8

\* No update is longer than what it was read from.
LEMMA UpdatesWithin ==
  \A b \in Seq(Byte) : \A i \in 1 .. Len(Updates(b)) : Len(Updates(b)[i]) <= Len(b)
<1> DEFINE T == {b \in Seq(Byte) :
                   \A i \in 1 .. Len(Updates(b)) : Len(Updates(b)[i]) <= Len(b)}
           X == Seq(Byte)
           measure == LengthOf(X)
<1>1. ASSUME NEW b \in Seq(Byte), \A d \in Seq(Byte) : measure[d] < measure[b] => d \in T
      PROVE  b \in T
  <2>1. CASE IsCut(b)
    <3>1. Updates(b) = << >> /\ Len(Updates(b)) = 0
      BY <2>1, UpdatesDef, EmptySeq
    <3> QED
      BY <3>1
  <2>2. CASE ~IsCut(b)
    <3>1. PICK u \in Seq(Byte), r \in Seq(Byte) :
            /\ u = First(b) /\ r = Rest(b) /\ Len(u) <= Len(b) /\ Len(r) < Len(b)
            /\ Len(u) \in Nat /\ Len(r) \in Nat /\ Len(b) \in Nat
      <4>1. PICK L \in Nat, e \in Nat, l \in Nat :
              L = LenBytes /\ e = End(b) /\ l = Len(b) /\ e <= l
        BY <2>2, Parts, WireAssumption, LenProperties
      <4>2. Len(First(b)) = e - L /\ Len(Rest(b)) < l /\ First(b) \in Seq(Byte) /\ Rest(b) \in Seq(Byte)
        BY <2>2, <4>1, Parts
      <4> QED
        BY <4>1, <4>2, LenProperties
    <3>2. r \in T
      BY <1>1, <3>1 DEF LengthOf
    <3>3. PICK us \in Seq(Seq(Byte)) : us = Updates(r)
      BY <3>1, UpdatesDef
    <3>4. \A i \in 1 .. Len(us) : us[i] \in Seq(Byte) /\ Len(us[i]) <= Len(r) /\ Len(us[i]) \in Nat
      BY <3>2, <3>3, ElementOfSeq, LenProperties
    <3>5. Updates(b) = <<u>> \o us
      BY <2>2, <3>1, <3>3, UpdatesDef
    <3>6. /\ Len(us) \in Nat /\ Len(<<u>> \o us) = 1 + Len(us)
          /\ \A i \in 1 .. 1 + Len(us) : (<<u>> \o us)[i] = IF i = 1 THEN u ELSE us[i - 1]
      BY <3>1, <3>3, Prepended, LenProperties
    <3>7. ASSUME NEW i \in 1 .. 1 + Len(us) PROVE Len((<<u>> \o us)[i]) <= Len(b)
      <4>1. CASE i = 1
        BY <4>1, <3>1, <3>6
      <4>2. CASE i # 1
        <5>1. i - 1 \in 1 .. Len(us) /\ (<<u>> \o us)[i] = us[i - 1]
          BY <4>2, <3>6
        <5>2. PICK v : v = us[i - 1]
          OBVIOUS
        <5>3. Len(v) <= Len(r) /\ Len(v) \in Nat
          BY <5>1, <5>2, <3>4
        <5>4. Len(v) <= Len(b)
          BY <3>1, <5>3
        <5> QED
          BY <5>1, <5>2, <5>4
      <4> QED
        BY <4>1, <4>2
    <3> QED
      BY <3>5, <3>6, <3>7
  <2> QED
    BY <2>1, <2>2
<1> HIDE DEF T
<1>2. Seq(Byte) \subseteq T
  <2>1. measure \in [X -> Nat]
    BY Lengths
  <2>2. \A b \in X : (\A d \in X : measure[d] < measure[b] => d \in T) => b \in T
    BY <1>1
  <2> HIDE DEF measure, X
  <2>3. X \subseteq T
    BY <2>1, <2>2, MeasureInduction
  <2> QED
    BY <2>3 DEF X
<1> QED
  BY <1>2 DEF T

\* What is read of a block with more behind it, cut at n.
LEMMA BlockCut ==
  ASSUME NEW u \in Seq(Byte), Len(u) < Pow(ByteBase, LenBytes), NEW t \in Seq(Byte),
         NEW n \in 0 .. LenBytes + Len(u) + Len(t)
  PROVE  LET x == BigEndian(Len(u)) \o u \o t
             c == SubSeq(x, 1, n)
         IN  /\ x \in Seq(Byte) /\ Len(x) = LenBytes + Len(u) + Len(t) /\ c \in Seq(Byte)
             /\ n < LenBytes + Len(u) => IsCut(c)
             /\ n >= LenBytes + Len(u)
                  => /\ ~IsCut(c) /\ First(c) = u
                     /\ Rest(c) = SubSeq(t, 1, n - (LenBytes + Len(u)))
<1>1. PICK h \in Seq(Byte) :
        h = BigEndian(Len(u)) /\ Len(h) = LenBytes /\ Number(h) = Len(u)
  BY LenProperties, BigEndianRead
<1>2. Len(h) \in Nat /\ Len(u) \in Nat /\ Len(t) \in Nat
  BY LenProperties
<1>3. /\ h \o u \in Seq(Byte) /\ Len(h \o u) = Len(h) + Len(u)
      /\ StandsIn(h, h \o u, 0) /\ StandsIn(u, h \o u, Len(h))
  BY ConcatProperties, StandsInConcat
<1>4. PICK x \in Seq(Byte) : x = h \o u \o t /\ Len(x) = Len(h) + Len(u) + Len(t)
  <2>1. h \o u \o t \in Seq(Byte) /\ Len(h \o u \o t) = Len(h) + Len(u) + Len(t)
    BY <1>3, ConcatProperties
  <2> QED
    BY <2>1, Zenon
<1>5. StandsIn(h, x, 0) /\ StandsIn(u, x, Len(h)) /\ StandsIn(t, x, Len(h) + Len(u))
  BY <1>2, <1>3, <1>4, StandsInConcat
<1>6. n \in Nat /\ n \in 0 .. Len(x)
  BY <1>1, <1>2, <1>4
<1>7. PICK c \in Seq(Byte) :
        c = SubSeq(x, 1, n) /\ Len(c) = n /\ \A i \in 1 .. n : c[i] = x[i]
  BY <1>6, Cutting, Zenon
<1>8. ASSUME n >= Len(h) PROVE End(c) = Len(h) + Len(u)
  <2>1. Len(h) \in 0 .. Len(c)
    BY <1>2, <1>7, <1>8
  <2>2. PICK g \in Seq(Byte) :
          g = SubSeq(c, 1, Len(h)) /\ Len(g) = Len(h) /\ \A i \in 1 .. Len(h) : g[i] = c[i]
    BY <2>1, Cutting, Zenon
  <2>3. \A i \in 1 .. Len(h) : x[0 + i] = h[i]
    BY <1>5 DEF StandsIn
  <2>4. \A i \in 1 .. Len(h) : 0 + i = i /\ i \in 1 .. n
    BY <1>2, <1>6, <1>8
  <2>5. \A i \in 1 .. Len(g) : g[i] = h[i]
    BY <1>7, <2>2, <2>3, <2>4
  <2>6. g = h
    BY <2>2, <2>5, SeqEqual
  <2> QED
    BY <1>1, <2>2, <2>6 DEF End
<1>9. ASSUME n < Len(h) + Len(u) PROVE IsCut(c)
  <2>1. CASE n < Len(h)
    BY <1>1, <1>7, <2>1 DEF IsCut
  <2>2. CASE ~(n < Len(h))
    <3>1. n >= Len(h)
      BY <1>2, <1>6, <2>2
    <3>2. End(c) = Len(h) + Len(u)
      BY <1>8, <3>1
    <3> QED
      BY <1>7, <1>9, <3>2 DEF IsCut
  <2> QED
    BY <2>1, <2>2
<1>10. ASSUME n >= Len(h) + Len(u)
       PROVE  ~IsCut(c) /\ First(c) = u /\ Rest(c) = SubSeq(t, 1, n - (Len(h) + Len(u)))
  <2>1. n >= Len(h) /\ ~(n < Len(h) + Len(u)) /\ ~(n < Len(h))
    BY <1>2, <1>6, <1>10
  <2>2. End(c) = Len(h) + Len(u)
    BY <1>8, <2>1
  <2>3. ~IsCut(c)
    BY <1>1, <1>7, <2>1, <2>2 DEF IsCut
  <2>4. /\ First(c) \in Seq(Byte) /\ Len(First(c)) = (Len(h) + Len(u)) - Len(h)
        /\ Rest(c) \in Seq(Byte) /\ Len(Rest(c)) = n - (Len(h) + Len(u))
        /\ \A i \in 1 .. (Len(h) + Len(u)) - Len(h) : First(c)[i] = c[Len(h) + i]
        /\ \A i \in 1 .. n - (Len(h) + Len(u)) : Rest(c)[i] = c[Len(h) + Len(u) + i]
    <3>1. /\ First(c) \in Seq(Byte) /\ Len(First(c)) = End(c) - LenBytes
          /\ Rest(c) \in Seq(Byte) /\ Len(Rest(c)) = Len(c) - End(c)
          /\ \A i \in 1 .. End(c) - LenBytes : First(c)[i] = c[LenBytes + i]
          /\ \A i \in 1 .. Len(c) - End(c) : Rest(c)[i] = c[End(c) + i]
      BY <2>3, Parts
    <3> QED
      BY <1>1, <1>7, <2>2, <3>1
  <2>5. (Len(h) + Len(u)) - Len(h) = Len(u)
    BY <1>2
  <2>6. First(c) = u
    <3>1. \A i \in 1 .. Len(u) : Len(h) + i \in 1 .. n
      BY <1>2, <1>6, <1>10
    <3>2. \A i \in 1 .. Len(u) : x[Len(h) + i] = u[i]
      BY <1>5 DEF StandsIn
    <3>3. Len(First(c)) = Len(u) /\ \A i \in 1 .. Len(u) : First(c)[i] = c[Len(h) + i]
      BY <2>4, <2>5
    <3>4. \A i \in 1 .. Len(First(c)) : First(c)[i] = u[i]
      BY <1>7, <3>1, <3>2, <3>3
    <3> QED
      BY <2>4, <3>3, <3>4, SeqEqual
  <2>7. Rest(c) = SubSeq(t, 1, n - (Len(h) + Len(u)))
    <3>1. n - (Len(h) + Len(u)) \in 0 .. Len(t)
      BY <1>2, <1>4, <1>6, <1>10
    <3>2. PICK g \in Seq(Byte) :
            /\ g = SubSeq(t, 1, n - (Len(h) + Len(u))) /\ Len(g) = n - (Len(h) + Len(u))
            /\ \A i \in 1 .. n - (Len(h) + Len(u)) : g[i] = t[i]
      BY <3>1, Cutting
    <3>3. \A i \in 1 .. n - (Len(h) + Len(u)) :
            Len(h) + Len(u) + i \in 1 .. n /\ i \in 1 .. Len(t)
      BY <1>2, <1>6, <3>1
    <3>4. \A i \in 1 .. Len(t) : x[Len(h) + Len(u) + i] = t[i]
      BY <1>5 DEF StandsIn
    <3>5. \A i \in 1 .. n - (Len(h) + Len(u)) : Rest(c)[i] = g[i]
      BY <1>7, <2>4, <3>2, <3>3, <3>4
    <3> QED
      BY <2>4, <3>2, <3>5, SeqEqual
  <2> QED
    BY <2>3, <2>6, <2>7
<1> QED
  BY <1>1, <1>4, <1>7, <1>9, <1>10

\* s is a beginning of us, element by element.
Starts(s, us) == Len(s) <= Len(us) /\ \A i \in 1 .. Len(s) : s[i] = us[i]

\* That is what IsPrefix says.
LEMMA StartsIsPrefix ==
  ASSUME NEW s \in Seq(Seq(Byte)), NEW us \in Seq(Seq(Byte)), Starts(s, us)
  PROVE  IsPrefix(s, us)
<1>1. Len(s) <= Len(us) /\ \A i \in 1 .. Len(s) : s[i] = us[i]
  BY DEF Starts
<1>2. Len(s) \in 0 .. Len(us)
  BY <1>1, LenProperties
<1>3. /\ SubSeq(us, 1, Len(s)) \in Seq(Seq(Byte)) /\ Len(SubSeq(us, 1, Len(s))) = Len(s)
      /\ \A i \in 1 .. Len(s) : SubSeq(us, 1, Len(s))[i] = us[i]
  BY <1>2, Cutting
<1>4. s = SubSeq(us, 1, Len(s))
  BY <1>1, <1>3, SeqEqual
<1>5. SubSeq(s, 1, Len(s)) = s
  BY SubSeqFull
<1> QED
  BY <1>1, <1>4, <1>5 DEF IsPrefix

\* x is read as us, and cut anywhere as a beginning of us.
ReadAs(x, us) ==
  /\ x \in Seq(Byte) /\ Updates(x) = us
  /\ \A n \in 0 .. Len(x) : Starts(Updates(SubSeq(x, 1, n)), us)

\* Nothing is read as no updates.
LEMMA NothingReadAs == ReadAs(<< >>, << >>)
<1>1. << >> \in Seq(Byte) /\ Len(<< >>) = 0
  BY EmptySeq
<1>2. IsCut(<< >>)
  BY <1>1, WireAssumption DEF IsCut
<1>3. Updates(<< >>) = << >>
  BY <1>1, <1>2, UpdatesDef
<1>4. \A n \in 0 .. Len(<< >>) : SubSeq(<< >>, 1, n) = << >>
  BY <1>1
<1>5. Starts(<< >>, << >>)
  BY <1>1 DEF Starts
<1> QED
  BY <1>1, <1>3, <1>4, <1>5 DEF ReadAs

\* A block before bytes that are read as us is read as one update more.
LEMMA BlockReadAs ==
  ASSUME NEW u \in Seq(Byte), Len(u) < Pow(ByteBase, LenBytes),
         NEW us \in Seq(Seq(Byte)), NEW t \in Seq(Byte), ReadAs(t, us)
  PROVE  ReadAs(BigEndian(Len(u)) \o u \o t, <<u>> \o us)
<1>1. PICK x : x = BigEndian(Len(u)) \o u \o t
  OBVIOUS
<1>2. LenBytes \in Nat /\ Len(u) \in Nat /\ Len(t) \in Nat /\ Len(us) \in Nat
  BY WireAssumption, LenProperties
<1>3. x \in Seq(Byte) /\ Len(x) = LenBytes + Len(u) + Len(t)
  <2>1. 0 \in 0 .. LenBytes + Len(u) + Len(t)
    BY <1>2
  <2> QED
    BY <1>1, <2>1, BlockCut
<1>4. PICK all : all = <<u>> \o us
  OBVIOUS
<1>5. /\ Len(all) = 1 + Len(us) /\ all \in Seq(Seq(Byte))
      /\ \A i \in 1 .. 1 + Len(us) : all[i] = IF i = 1 THEN u ELSE us[i - 1]
  BY <1>4, Prepended
<1>6. Updates(x) = all
  <2>1. Len(x) \in 0 .. LenBytes + Len(u) + Len(t) /\ Len(x) >= LenBytes + Len(u)
        /\ Len(x) - (LenBytes + Len(u)) = Len(t)
    BY <1>2, <1>3
  <2>2. SubSeq(x, 1, Len(x)) = x /\ SubSeq(t, 1, Len(t)) = t
    BY <1>3, SubSeqFull
  <2>3. ~IsCut(x) /\ First(x) = u /\ Rest(x) = t
    <3>1. LET c == SubSeq(x, 1, Len(x))
          IN  ~IsCut(c) /\ First(c) = u
              /\ Rest(c) = SubSeq(t, 1, Len(x) - (LenBytes + Len(u)))
      BY <1>1, <2>1, BlockCut
    <3> QED
      BY <2>1, <2>2, <3>1
  <2> QED
    BY <1>3, <1>4, <2>3, UpdatesDef DEF ReadAs
<1>7. ASSUME NEW n \in 0 .. Len(x) PROVE Starts(Updates(SubSeq(x, 1, n)), all)
  <2>1. PICK c \in Seq(Byte) :
          /\ c = SubSeq(x, 1, n)
          /\ n < LenBytes + Len(u) => IsCut(c)
          /\ n >= LenBytes + Len(u)
               => /\ ~IsCut(c) /\ First(c) = u
                  /\ Rest(c) = SubSeq(t, 1, n - (LenBytes + Len(u)))
    <3>1. n \in 0 .. LenBytes + Len(u) + Len(t)
      BY <1>3
    <3>2. LET d == SubSeq(x, 1, n)
          IN  /\ d \in Seq(Byte)
              /\ n < LenBytes + Len(u) => IsCut(d)
              /\ n >= LenBytes + Len(u)
                   => /\ ~IsCut(d) /\ First(d) = u
                      /\ Rest(d) = SubSeq(t, 1, n - (LenBytes + Len(u)))
      BY <1>1, <3>1, BlockCut
    <3> QED
      BY <3>2, Zenon
  <2>2. CASE n < LenBytes + Len(u)
    <3>1. Updates(c) = << >>
      BY <2>1, <2>2, UpdatesDef
    <3>2. Starts(<< >>, all)
      BY <1>2, <1>5, EmptySeq DEF Starts
    <3> QED
      BY <2>1, <3>1, <3>2
  <2>3. CASE n >= LenBytes + Len(u)
    <3>1. PICK r : r = Updates(Rest(c))
      OBVIOUS
    <3>2. Rest(c) \in Seq(Byte)
      BY <2>1, <2>3, Parts
    <3>3. r \in Seq(Seq(Byte)) /\ Len(r) \in Nat
      BY <3>1, <3>2, UpdatesDef, LenProperties
    <3>4. Updates(c) = <<u>> \o r
      BY <2>1, <2>3, <3>1, UpdatesDef
    <3>5. Starts(r, us)
      <4>1. n - (LenBytes + Len(u)) \in 0 .. Len(t)
        BY <1>2, <1>3, <2>3
      <4> QED
        BY <2>1, <2>3, <3>1, <4>1 DEF ReadAs
    <3>6. Len(r) <= Len(us) /\ \A i \in 1 .. Len(r) : r[i] = us[i]
      BY <3>5 DEF Starts
    <3>7. /\ Len(<<u>> \o r) = 1 + Len(r)
          /\ \A i \in 1 .. 1 + Len(r) : (<<u>> \o r)[i] = IF i = 1 THEN u ELSE r[i - 1]
      BY <3>3, Prepended
    <3>8. ASSUME NEW i \in 1 .. 1 + Len(r) PROVE (<<u>> \o r)[i] = all[i]
      <4>1. i \in 1 .. 1 + Len(us) /\ (i # 1 => i - 1 \in 1 .. Len(r))
        <5>1. \A m, k \in Nat : m <= k /\ i \in 1 .. 1 + m
                => i \in 1 .. 1 + k /\ (i # 1 => i - 1 \in 1 .. m)
          OBVIOUS
        <5> QED
          BY <1>2, <3>3, <3>6, <5>1
      <4> QED
        BY <1>5, <3>6, <3>7, <4>1
    <3>9. Starts(<<u>> \o r, all)
      BY <1>2, <1>5, <3>3, <3>6, <3>7, <3>8 DEF Starts
    <3> QED
      BY <2>1, <3>4, <3>9
  <2>4. n < LenBytes + Len(u) \/ n >= LenBytes + Len(u)
    BY <1>2, <1>3
  <2> QED
    BY <2>2, <2>3, <2>4
<1> QED
  BY <1>1, <1>3, <1>4, <1>6, <1>7 DEF ReadAs

\* What encodeStoredState writes behind the magic is read back as it was.
LEMMA ListReadBack ==
  ASSUME NEW us \in Short
  PROVE  \E x : EncodeStoredState(us) = Magic \o x /\ ReadAs(x, us)
<1>1. PICK B : /\ B = CHOOSE P : P = [l \in Seq(Seq(Byte)) |->
                        IF l = << >> THEN << >>
                        ELSE BigEndian(Len(Head(l))) \o Head(l) \o P[Tail(l)]]
               /\ \A l \in Seq(Seq(Byte)) :
                    B[l] = IF l = << >> THEN << >>
                           ELSE BigEndian(Len(Head(l))) \o Head(l) \o B[Tail(l)]
  BY BlocksExist
<1>2. EncodeStoredState(us) = Magic \o B[us]
  BY <1>1, Zenon DEF EncodeStoredState
<1>3. ASSUME NEW l \in Seq(Seq(Byte))
      PROVE  /\ l = << >> => B[l] = << >>
             /\ l # << >> => B[l] = BigEndian(Len(Head(l))) \o Head(l) \o B[Tail(l)]
  <2>1. B[l] = IF l = << >> THEN << >> ELSE BigEndian(Len(Head(l))) \o Head(l) \o B[Tail(l)]
    BY <1>1, Zenon
  <2> QED
    BY <2>1, Zenon
<1> DEFINE T == {l \in Short : ReadAs(B[l], l)}
           measure == LengthOf(Short)
<1>4. measure \in [Short -> Nat]
  BY LenProperties DEF LengthOf, Short
<1>5. ASSUME NEW l \in Short, \A k \in Short : measure[k] < measure[l] => k \in T
      PROVE  ReadAs(B[l], l)
  <2>0. l \in Seq(Seq(Byte))
    BY DEF Short
  <2>1. CASE l = << >>
    BY <2>0, <2>1, <1>3, NothingReadAs
  <2>2. CASE l # << >>
    <3>1. PICK u, k : u = Head(l) /\ k = Tail(l)
      OBVIOUS
    <3>2. /\ u \in Seq(Byte) /\ Len(u) < Pow(ByteBase, LenBytes)
          /\ k \in Short /\ k \in Seq(Seq(Byte)) /\ Len(k) = Len(l) - 1 /\ Len(l) \in Nat
      BY <2>0, <2>2, <3>1, ShortTail, LenProperties
    <3>3. measure[k] < measure[l]
      BY <3>2 DEF LengthOf
    <3>4. ReadAs(B[k], k)
      <4>1. k \in T
        <5> HIDE DEF T, measure
        <5> QED
          BY <1>5, <3>2, <3>3
      <4> QED
        BY <4>1
    <3>5. B[k] \in Seq(Byte)
      BY <3>4 DEF ReadAs
    <3>6. l = <<u>> \o k
      <4>1. /\ <<u>> \o k \in Seq(Seq(Byte)) /\ Len(<<u>> \o k) = 1 + Len(k)
            /\ \A i \in 1 .. 1 + Len(k) : (<<u>> \o k)[i] = IF i = 1 THEN u ELSE k[i - 1]
        BY <3>2, Prepended
      <4>2. l[1] = u /\ \A i \in 1 .. Len(k) : k[i] = l[i + 1]
        BY <2>0, <2>2, <3>1, <3>2, ShortTail
      <4>3. ASSUME NEW i \in 1 .. Len(l) PROVE l[i] = (<<u>> \o k)[i]
        <5>1. CASE i = 1
          BY <3>2, <4>1, <4>2, <5>1
        <5>2. CASE i # 1
          <6>1. i - 1 \in 1 .. Len(k) /\ (i - 1) + 1 = i /\ i \in 1 .. 1 + Len(k)
            BY <3>2, <5>2
          <6> QED
            BY <4>1, <4>2, <5>2, <6>1
        <5> QED
          BY <5>1, <5>2
      <4>4. Len(l) = Len(<<u>> \o k)
        BY <3>2, <4>1
      <4> QED
        BY <2>0, <4>1, <4>3, <4>4, SeqEqual
    <3>7. B[l] = BigEndian(Len(u)) \o u \o B[k]
      BY <2>0, <2>2, <1>3, <3>1
    <3>8. ReadAs(BigEndian(Len(u)) \o u \o B[k], <<u>> \o k)
      BY <3>2, <3>4, <3>5, BlockReadAs
    <3> QED
      BY <3>6, <3>7, <3>8, Zenon
  <2> QED
    BY <2>1, <2>2
<1>6. Short \subseteq T
  <2>1. \A l \in Short : (\A k \in Short : measure[k] < measure[l] => k \in T) => l \in T
    BY <1>5
  <2> HIDE DEF T, measure
  <2> QED
    BY <1>4, <2>1, MeasureInduction
<1> QED
  BY <1>2, <1>6

\* Two lists of updates that fit, one after the other, fit.
LEMMA ShortConcat ==
  ASSUME NEW a \in Short, NEW b \in Short
  PROVE  a \o b \in Short
<1>1. /\ a \in Seq(Seq(Byte)) /\ \A i \in 1 .. Len(a) : Len(a[i]) < Pow(ByteBase, LenBytes)
      /\ b \in Seq(Seq(Byte)) /\ \A i \in 1 .. Len(b) : Len(b[i]) < Pow(ByteBase, LenBytes)
  BY DEF Short
<1>2. /\ a \o b \in Seq(Seq(Byte)) /\ Len(a \o b) = Len(a) + Len(b)
      /\ \A i \in 1 .. Len(a) + Len(b) :
           (a \o b)[i] = IF i <= Len(a) THEN a[i] ELSE b[i - Len(a)]
      /\ Len(a) \in Nat /\ Len(b) \in Nat
  BY <1>1, ConcatProperties, LenProperties
<1>3. ASSUME NEW i \in 1 .. Len(a) + Len(b)
      PROVE  Len((a \o b)[i]) < Pow(ByteBase, LenBytes)
  <2>1. CASE i <= Len(a)
    <3>1. i \in 1 .. Len(a) /\ (a \o b)[i] = a[i]
      BY <1>2, <2>1
    <3> QED
      BY <1>1, <3>1
  <2>2. CASE ~(i <= Len(a))
    <3>1. i - Len(a) \in 1 .. Len(b) /\ (a \o b)[i] = b[i - Len(a)]
      BY <1>2, <2>2
    <3> QED
      BY <1>1, <3>1
  <2> QED
    BY <2>1, <2>2
<1> QED
  BY <1>2, <1>3 DEF Short

\* Nothing longer than a frame is read of one, or of a blob of its length.
LEMMA Fits ==
  ASSUME NEW u \in Seq(Byte), Len(u) <= MaxLen
  PROVE  Len(u) < Pow(ByteBase, LenBytes)
<1>1. PICK p \in Nat : p = Pow(ByteBase, LenBytes)
  BY Bases, PowDef, WireAssumption
<1>2. MaxLen \in Nat /\ MaxLen < p /\ Len(u) \in Nat
  BY <1>1, WireAssumption, LenProperties
<1>3. Len(u) < p
  BY <1>2
<1> QED
  BY <1>1, <1>3

\* So whatever was stored, what is read of it fits when written again.
LEMMA ParsedIsShort ==
  ASSUME NEW b \in Seq(Byte), Len(b) <= MaxLen
  PROVE  ParseStoredState(b) \in Short
<1>1. CASE b = << >>
  <2>1. << >> \in Seq(Seq(Byte)) /\ Len(<< >>) = 0
    BY EmptySeq
  <2>2. << >> \in Short
    BY <2>1 DEF Short
  <2> QED
    BY <1>1, <2>2 DEF ParseStoredState
<1>2. CASE b # << >> /\ ~IsPrefix(Magic, b)
  <2>1. <<b>> \in Seq(Seq(Byte)) /\ Len(<<b>>) = 1 /\ <<b>>[1] = b
    OBVIOUS
  <2>2. <<b>> \in Short
    BY <2>1, Fits DEF Short
  <2> QED
    BY <1>2, <2>2 DEF ParseStoredState
<1>3. CASE b # << >> /\ IsPrefix(Magic, b)
  <2>1. Len(Magic) \in Nat /\ Len(b) \in Nat /\ Len(Magic) <= Len(b)
    BY <1>3, WireAssumption, LenProperties DEF IsPrefix
  <2>2. PICK body : body = SubSeq(b, Len(Magic) + 1, Len(b))
    OBVIOUS
  <2>3. body \in Seq(Byte) /\ Len(body) = (Len(b) - (Len(Magic) + 1)) + 1
    <3>1. Len(Magic) + 1 \in Nat /\ 1 <= Len(Magic) + 1 /\ Len(Magic) + 1 <= Len(b) + 1
          /\ Len(b) <= Len(b)
      BY <2>1
    <3> QED
      BY <2>1, <2>2, <3>1, Middle
  <2>4. Len(body) <= Len(b) /\ Len(body) \in Nat /\ MaxLen \in Nat
    BY <2>1, <2>3, LenProperties, WireAssumption
  <2>5. PICK us : us = Updates(body)
    OBVIOUS
  <2>6. us \in Seq(Seq(Byte)) /\ \A i \in 1 .. Len(us) : Len(us[i]) <= Len(body)
    BY <2>3, <2>5, UpdatesDef, UpdatesWithin
  <2>7. ASSUME NEW i \in 1 .. Len(us) PROVE Len(us[i]) < Pow(ByteBase, LenBytes)
    <3>1. PICK u \in Seq(Byte) : u = us[i] /\ Len(u) <= Len(body) /\ Len(u) \in Nat
      BY <2>6, ElementOfSeq, LenProperties
    <3>2. Len(u) <= MaxLen
      BY <2>4, <3>1
    <3> QED
      BY <3>1, <3>2, Fits
  <2>8. us \in Short
    BY <2>6, <2>7 DEF Short
  <2> QED
    BY <1>3, <2>2, <2>5, <2>8 DEF ParseStoredState
<1> QED
  BY <1>1, <1>2, <1>3

\* What the code wrote starts with the magic, whole or cut behind it.
LEMMA BehindTheMagic ==
  ASSUME NEW x \in Seq(Byte)
  PROVE  /\ Len(Magic \o x) = Len(Magic) + Len(x)
         /\ ParseStoredState(Magic \o x) = Updates(x)
         /\ \A n \in 0 .. Len(x) :
              SubSeq(Magic \o x, 1, Len(Magic) + n) = Magic \o SubSeq(x, 1, n)
<1>1. PICK m : m = Magic
  OBVIOUS
<1>2. m \in Seq(Byte) /\ m # << >> /\ Len(m) \in Nat /\ Len(m) >= 1 /\ Len(x) \in Nat
  BY <1>1, WireAssumption, EmptySeq, LenProperties
<1>3. ASSUME NEW y \in Seq(Byte)
      PROVE  /\ m \o y \in Seq(Byte) /\ Len(m \o y) = Len(m) + Len(y) /\ Len(y) \in Nat
             /\ \A i \in 1 .. Len(m) : (m \o y)[i] = m[i]
             /\ \A i \in 1 .. Len(y) : (m \o y)[Len(m) + i] = y[i]
  <2>1. StandsIn(m, m \o y, 0) /\ StandsIn(y, m \o y, Len(m))
    BY <1>2, StandsInConcat
  <2>2. \A i \in 1 .. Len(m) : (m \o y)[0 + i] = m[i] /\ 0 + i = i
    BY <1>2, <2>1 DEF StandsIn
  <2>3. \A i \in 1 .. Len(y) : (m \o y)[Len(m) + i] = y[i]
    BY <2>1 DEF StandsIn
  <2> QED
    BY <1>2, <2>2, <2>3, ConcatProperties, LenProperties
<1>4. PICK w \in Seq(Byte) :
        /\ w = m \o x /\ Len(w) = Len(m) + Len(x)
        /\ \A i \in 1 .. Len(m) : w[i] = m[i]
        /\ \A i \in 1 .. Len(x) : w[Len(m) + i] = x[i]
  BY <1>3, Zenon
<1>5. IsPrefix(m, w)
  <2>1. Len(m) \in 0 .. Len(w) /\ Len(m) <= Len(w)
    BY <1>2, <1>4
  <2>2. /\ SubSeq(w, 1, Len(m)) \in Seq(Byte) /\ Len(SubSeq(w, 1, Len(m))) = Len(m)
        /\ \A i \in 1 .. Len(m) : SubSeq(w, 1, Len(m))[i] = w[i]
    BY <2>1, Cutting
  <2>3. m = SubSeq(w, 1, Len(m))
    BY <1>2, <1>4, <2>2, SeqEqual
  <2>4. SubSeq(m, 1, Len(m)) = m
    BY <1>2, SubSeqFull
  <2> QED
    BY <2>1, <2>3, <2>4 DEF IsPrefix
<1>6. SubSeq(w, Len(m) + 1, Len(w)) = x
  <2>1. Len(m) + 1 \in Nat /\ Len(w) \in Nat /\ 1 <= Len(m) + 1 /\ Len(m) + 1 <= Len(w) + 1
        /\ Len(w) <= Len(w)
    BY <1>2, <1>4
  <2>2. PICK v : v = SubSeq(w, Len(m) + 1, Len(w))
    OBVIOUS
  <2>3. /\ v \in Seq(Byte) /\ Len(v) = (Len(w) - (Len(m) + 1)) + 1
        /\ \A i \in 1 .. (Len(w) - (Len(m) + 1)) + 1 : v[i] = w[((Len(m) + 1) + i) - 1]
    BY <2>1, <2>2, Middle
  <2>4. (Len(w) - (Len(m) + 1)) + 1 = Len(x)
        /\ \A i \in 1 .. Len(x) : ((Len(m) + 1) + i) - 1 = Len(m) + i
    BY <1>2, <1>4
  <2>5. Len(v) = Len(x) /\ \A i \in 1 .. Len(x) : v[i] = w[((Len(m) + 1) + i) - 1]
    BY <2>3, <2>4
  <2>6. ASSUME NEW i \in 1 .. Len(x) PROVE v[i] = x[i]
    <3>1. v[i] = w[Len(m) + i]
      BY <2>4, <2>5, Zenon
    <3> QED
      BY <1>4, <3>1
  <2> QED
    BY <2>2, <2>3, <2>5, <2>6, SeqEqual
<1>7. w # << >>
  <2>1. Len(w) # 0
    BY <1>2, <1>4
  <2> QED
    BY <2>1, EmptySeq
<1>8. ParseStoredState(w) = Updates(x)
  BY <1>1, <1>5, <1>6, <1>7 DEF ParseStoredState
<1>9. ASSUME NEW n \in 0 .. Len(x) PROVE SubSeq(w, 1, Len(m) + n) = m \o SubSeq(x, 1, n)
  <2>1. PICK y \in Seq(Byte) :
          y = SubSeq(x, 1, n) /\ Len(y) = n /\ \A i \in 1 .. n : y[i] = x[i]
    BY Cutting, Zenon
  <2>2. /\ m \o y \in Seq(Byte) /\ Len(m \o y) = Len(m) + n
        /\ \A i \in 1 .. Len(m) : (m \o y)[i] = m[i]
        /\ \A i \in 1 .. n : (m \o y)[Len(m) + i] = y[i]
    BY <1>3, <2>1
  <2>3. Len(m) + n \in 0 .. Len(w)
    BY <1>2, <1>4
  <2>4. /\ SubSeq(w, 1, Len(m) + n) \in Seq(Byte) /\ Len(SubSeq(w, 1, Len(m) + n)) = Len(m) + n
        /\ \A i \in 1 .. Len(m) + n : SubSeq(w, 1, Len(m) + n)[i] = w[i]
    BY <2>3, Cutting
  <2>5. ASSUME NEW i \in 1 .. Len(m) + n PROVE w[i] = (m \o y)[i]
    <3>1. CASE i \in 1 .. Len(m)
      BY <1>4, <2>2, <3>1
    <3>2. CASE i \notin 1 .. Len(m)
      <4>1. PICK j \in 1 .. n : i = Len(m) + j
        <5>1. i - Len(m) \in 1 .. n /\ i = Len(m) + (i - Len(m))
          BY <1>2, <3>2
        <5> QED
          BY <5>1, Zenon
      <4>2. j \in 1 .. Len(x)
        BY <1>2
      <4>3. w[Len(m) + j] = x[j] /\ (m \o y)[Len(m) + j] = x[j]
        BY <1>4, <2>1, <2>2, <4>2
      <4> QED
        BY <4>1, <4>3
    <3> QED
      BY <3>1, <3>2
  <2>6. SubSeq(w, 1, Len(m) + n) = m \o y
    BY <2>2, <2>4, <2>5, SeqEqual
  <2> QED
    BY <2>1, <2>6
<1> QED
  BY <1>1, <1>4, <1>8, <1>9

\* The stored blob is read back, by the hub after the one that wrote it, whatever it
\* was made of, and what is left of a blob cut behind its magic is a beginning of the
\* list (yjswire.go:135-171).
THEOREM StoredStateIsReadBack == Spec => []StoredStateSurvives
<1>1. Strings => StoredStateSurvives
  <2> SUFFICES ASSUME Strings PROVE StoredStateSurvives
    OBVIOUS
  <2>1. PICK known : known = ParseStoredState(buf) \o updates
    OBVIOUS
  <2>2. known \in Short
    <3>1. ParseStoredState(buf) \in Short
      BY BufType, ParsedIsShort
    <3>2. updates \in Short
      <4>1. ASSUME NEW i \in 1 .. Len(updates) PROVE Len(updates[i]) < Pow(ByteBase, LenBytes)
        BY ElementOfSeq, Fits DEF Strings
      <4> QED
        BY <4>1 DEF Strings, Short
    <3> QED
      BY <2>1, <3>1, <3>2, ShortConcat
  <2>3. PICK x : EncodeStoredState(known) = Magic \o x /\ ReadAs(x, known)
    BY <2>2, ListReadBack
  <2>4. PICK blob : blob = Magic \o x /\ blob = EncodeStoredState(known)
    BY <2>3
  <2>5. x \in Seq(Byte) /\ Updates(x) = known /\ known \in Seq(Seq(Byte))
    BY <2>2, <2>3 DEF ReadAs, Short
  <2>6. ParseStoredState(blob) = known
    BY <2>4, <2>5, BehindTheMagic
  <2>7. ASSUME NEW n \in Len(Magic) .. Len(blob)
        PROVE  IsPrefix(ParseStoredState(SubSeq(blob, 1, n)), known)
    <3>1. Len(Magic) \in Nat /\ Len(x) \in Nat /\ Len(blob) = Len(Magic) + Len(x)
      BY <2>4, <2>5, BehindTheMagic, WireAssumption, LenProperties
    <3>2. PICK k \in 0 .. Len(x) : n = Len(Magic) + k
      <4>1. n - Len(Magic) \in 0 .. Len(x) /\ n = Len(Magic) + (n - Len(Magic))
        BY <3>1
      <4> QED
        BY <4>1, Zenon
    <3>3. PICK y \in Seq(Byte) : y = SubSeq(x, 1, k)
      BY <2>5, Cutting, Zenon
    <3>4. SubSeq(blob, 1, n) = Magic \o y
      BY <2>4, <2>5, <3>2, <3>3, BehindTheMagic
    <3>5. ParseStoredState(SubSeq(blob, 1, n)) = Updates(y)
      BY <3>3, <3>4, BehindTheMagic
    <3>6. Starts(Updates(y), known)
      BY <2>3, <3>3 DEF ReadAs
    <3>7. IsPrefix(Updates(y), known)
      BY <2>5, <3>3, <3>6, UpdatesDef, StartsIsPrefix
    <3> QED
      BY <3>5, <3>7
  <2> QED
    BY <2>1, <2>4, <2>6, <2>7 DEF StoredStateSurvives
<1> QED
  BY <1>1, StringsInvariant, PTL
=============================================================================
