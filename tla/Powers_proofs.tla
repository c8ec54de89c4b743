---------------------------- MODULE Powers_proofs ----------------------------
(***************************************************************************)
(* What the proofs about the other modules need to know of numbers:        *)
(* induction and recursion over them, division, and the powers of 2.       *)
(*                                                                         *)
(* An operator cannot be a parameter of a fact that is used, so induction  *)
(* is stated with a set for the predicate, and recursion with a function   *)
(* for the step.                                                           *)
(***************************************************************************)
EXTENDS Powers, WellFoundedInduction, TLAPS

-----------------------------------------------------------------------------
(* Numbers: the least of a set, induction and recursion.                   *)

LEMMA Least ==
    ASSUME NEW S \in SUBSET Nat, S # {}
    PROVE  \E x \in S : \A y \in S : x <= y
<1> DEFINE R == OpToRel(<, Nat)
<1>1. IsWellFoundedOn(R, Nat)
  BY NatLessThanWellFounded, Zenon
<1>2. \A x, y \in Nat : <<y, x>> \in R <=> y < x
  BY DEF OpToRel
<1> HIDE DEF R
<1>3. PICK x \in S : \A y \in S : ~ (<<y, x>> \in R)
  BY <1>1, WFMin
<1>4. ASSUME NEW y \in S PROVE x <= y
  <2>1. x \in Nat /\ y \in Nat /\ ~ (<<y, x>> \in R)
    BY <1>3
  <2>2. ~ (y < x)
    BY <1>2, <2>1
  <2> QED
    BY <2>1, <2>2
<1> QED
  BY <1>4

(* Induction, with a set instead of a predicate.                           *)
LEMMA SetInduction ==
    ASSUME NEW S, 0 \in S, \A n \in Nat : n \in S => n + 1 \in S
    PROVE  Nat \subseteq S
<1> SUFFICES ASSUME Nat \ S # {} PROVE FALSE
  OBVIOUS
<1>1. PICK x \in Nat \ S : \A y \in Nat \ S : x <= y
  BY Least
<1>2. x - 1 \in Nat \ S
  BY <1>1
<1> QED
  BY <1>1, <1>2

(* A function on the numbers of D is defined by its first value and a step *)
(* from each value to the next.                                            *)
Iterates(f, base, step, D) ==
    f[0] = base /\ \A k \in D \ {0} : f[k] = step[<<f[k - 1], k>>]

LEMMA Recursion ==
    ASSUME NEW T, NEW base \in T, NEW D \in SUBSET Nat, 0 \in D,
           \A k \in D \ {0} : k - 1 \in D, NEW step \in [T \X (D \ {0}) -> T]
    PROVE  \E f \in [D -> T] : Iterates(f, base, step, D)
<1> DEFINE Part(n) == {k \in D : k <= n}
           Fits(f, n) == Iterates(f, base, step, Part(n))
           S == {n \in Nat : \E f \in [D -> T] : Fits(f, n)}
           g == [n \in Nat |-> CHOOSE f \in [D -> T] : Fits(f, n)]
           h == [n \in D |-> g[n][n]]
<1>1. 0 \in S
  <2> DEFINE f == [k \in D |-> base]
  <2>1. f \in [D -> T] /\ Fits(f, 0)
    BY DEF Iterates
  <2> HIDE DEF f
  <2> QED
    BY <2>1
<1>2. ASSUME NEW n \in Nat, n \in S PROVE n + 1 \in S
  <2>1. PICK f \in [D -> T] : Fits(f, n)
    BY <1>2
  <2> DEFINE e == [k \in D |-> IF k = n + 1 THEN step[<<f[k - 1], k>>] ELSE f[k]]
  <2>2. e \in [D -> T]
    <3>1. ASSUME NEW k \in D, k = n + 1 PROVE step[<<f[k - 1], k>>] \in T
      <4>1. k \in D \ {0} /\ k - 1 \in D
        BY <3>1
      <4> QED
        BY <4>1
    <3> QED
      BY <3>1
  <2>3. Fits(e, n + 1)
    <3>1. e[0] = base
      BY <2>1 DEF Iterates
    <3>2. ASSUME NEW k \in Part(n + 1) \ {0} PROVE e[k] = step[<<e[k - 1], k>>]
      <4>1. k - 1 \in D /\ k - 1 # n + 1 /\ e[k - 1] = f[k - 1]
        BY <2>1
      <4>2. CASE k = n + 1
        BY <2>1, <4>1, <4>2
      <4>3. CASE k # n + 1
        <5>1. k \in Part(n) \ {0} /\ e[k] = f[k]
          BY <2>1, <4>3
        <5> QED
          BY <2>1, <4>1, <5>1 DEF Iterates
      <4> QED
        BY <4>2, <4>3
    <3> QED
      BY <3>1, <3>2 DEF Iterates
  <2> HIDE DEF e
  <2>4. \E d \in [D -> T] : Fits(d, n + 1)
    BY <2>2, <2>3
  <2> HIDE DEF Fits
  <2> QED
    BY <2>4
<1> HIDE DEF S
<1>3. Nat \subseteq S
  BY <1>1, <1>2, SetInduction
<1>4. \A n \in Nat : g[n] \in [D -> T] /\ Fits(g[n], n)
  BY <1>3 DEF S
<1> HIDE DEF g
<1>5. ASSUME NEW n \in D, n + 1 \in D PROVE g[n + 1][n] = g[n][n]
  <2> DEFINE Q == {k \in Nat : k <= n /\ k \in D => g[n + 1][k] = g[n][k]}
  <2>1. 0 \in Q
    BY <1>4 DEF Iterates
  <2>2. ASSUME NEW k \in Nat, k \in Q PROVE k + 1 \in Q
    <3> SUFFICES ASSUME k + 1 <= n, k + 1 \in D PROVE g[n + 1][k + 1] = g[n][k + 1]
      OBVIOUS
    <3>0. k + 1 \in D \ {0} /\ (k + 1) - 1 = k
      OBVIOUS
    <3>1. k + 1 \in Part(n) \ {0} /\ k + 1 \in Part(n + 1) \ {0} /\ (k + 1) - 1 = k /\ k \in D
      BY <3>0
    <3>2. g[n + 1][k] = g[n][k]
      <4>1. n \in Nat /\ k <= n
        OBVIOUS
      <4> QED
        BY <2>2, <3>1, <4>1, Zenon
    <3>3. PICK j \in D \ {0} : j = k + 1 /\ j - 1 = k
      BY <3>0
    <3>4. g[n + 1][j] = step[<<g[n + 1][j - 1], j>>]
      <4>1. n + 1 \in Nat /\ j \in Part(n + 1) \ {0}
        BY <3>1, <3>3
      <4>2. Fits(g[n + 1], n + 1)
        BY <1>4, <4>1, Zenon
      <4> QED
        BY <4>1, <4>2 DEF Iterates
    <3>5. g[n][j] = step[<<g[n][j - 1], j>>]
      <4>1. Fits(g[n], n) /\ j \in Part(n) \ {0}
        BY <1>4, <3>1, <3>3
      <4> QED
        BY <4>1 DEF Iterates
    <3> QED
      BY <3>2, <3>3, <3>4, <3>5
  <2> HIDE DEF Q
  <2>3. n \in Q
    BY <2>1, <2>2, SetInduction
  <2> QED
    BY <2>3 DEF Q
<1>6. h \in [D -> T]
  BY <1>4
<1>7. Iterates(h, base, step, D)
  <2>1. h[0] = base
    BY <1>4 DEF Iterates
  <2>2. ASSUME NEW k \in D \ {0} PROVE h[k] = step[<<h[k - 1], k>>]
    <3>1. PICK n \in D : n = k - 1 /\ k = n + 1
      OBVIOUS
    <3>2. g[k][k] = step[<<g[k][n], k>>]
      <4>1. k \in Part(k) \ {0} /\ k \in Nat
        OBVIOUS
      <4> QED
        BY <1>4, <3>1, <4>1 DEF Iterates
    <3>3. g[k][n] = g[n][n]
      BY <1>5, <3>1
    <3> QED
      BY <3>1, <3>2, <3>3
  <2> QED
    BY <2>1, <2>2 DEF Iterates
<1> HIDE DEF h
<1> QED
  BY <1>6, <1>7

-----------------------------------------------------------------------------
(* Division.                                                               *)

(* Quotient and rest, and that no others are.                              *)
LEMMA DivMod ==
    ASSUME NEW a \in Int, NEW b \in Nat \ {0}
    PROVE  a \div b \in Int /\ a % b \in 0..b - 1 /\ a = b * (a \div b) + (a % b)
  OBVIOUS

LEMMA DivUnique ==
    ASSUME NEW a \in Int, NEW b \in Nat \ {0}, NEW q \in Int, NEW r \in 0..b - 1, a = b * q + r
    PROVE  a \div b = q /\ a % b = r
<1> DEFINE p == a \div b
           s == a % b
<1>1. p \in Int /\ s \in 0..b - 1 /\ a = b * p + s
  BY DivMod
<1> HIDE DEF p, s
<1>2. b * (p - q) = r - s /\ p - q \in Int
  BY <1>1
<1>3. CASE p - q >= 1
  <2>1. b * (p - q) >= b
    BY <1>2, <1>3
  <2> QED
    BY <1>1, <1>2, <2>1
<1>4. CASE p - q <= -1
  <2>1. b * (p - q) <= -b
    BY <1>2, <1>4
  <2> QED
    BY <1>1, <1>2, <2>1
<1>5. CASE p = q
  BY <1>1, <1>5 DEF p, s
<1> QED
  BY <1>1, <1>3, <1>4, <1>5

LEMMA DivDiv ==
    ASSUME NEW a \in Int, NEW b \in Nat \ {0}, NEW c \in Nat \ {0}
    PROVE  (a \div b) \div c = a \div (b * c)
<1> DEFINE p == a \div b
           r == a % b
           q == p \div c
           s == p % c
<1>1. p \in Int /\ r \in 0..b - 1 /\ a = b * p + r
  BY DivMod
<1>2. q \in Int /\ s \in 0..c - 1 /\ p = c * q + s
  BY <1>1, DivMod
<1> HIDE DEF p, r, q, s
<1>3. a = (b * c) * q + (b * s + r)
  <2>1. a = b * (c * q + s) + r
    BY <1>1, <1>2
  <2>2. b * (c * q + s) = (b * c) * q + b * s
    BY <1>1, <1>2
  <2> QED
    BY <1>1, <1>2, <2>1, <2>2
<1>4. b * c \in Nat \ {0} /\ b * s + r \in 0..b * c - 1
  <2>1. /\ b * s \in Int /\ b * s >= 0 /\ b * s <= b * (c - 1)
        /\ b * c \in Int /\ b * (c - 1) = b * c - b
    BY <1>1, <1>2
  <2>2. b * c >= b
    OBVIOUS
  <2> QED
    BY <1>1, <2>1, <2>2
<1>5. a \div (b * c) = q
  BY <1>2, <1>3, <1>4, DivUnique
<1> QED
  BY <1>5 DEF q, p

(* What is added above the lowest digit to the base b.                     *)
LEMMA ModAdd ==
    ASSUME NEW a \in Int, NEW b \in Nat \ {0}, NEW d \in Int
    PROVE  (a + b * d) % b = a % b
<1>1. PICK q \in Int, r \in 0..b - 1 : a = b * q + r /\ r = a % b
  BY DivMod
<1>2. b * (q + d) = b * q + b * d
  BY <1>1
<1>3. a + b * d = b * (q + d) + r /\ a + b * d \in Int /\ q + d \in Int
  BY <1>1, <1>2
<1> QED
  BY <1>1, <1>3, DivUnique

LEMMA DivAdd ==
    ASSUME NEW a \in Int, NEW b \in Nat \ {0}, NEW d \in Int
    PROVE  (a + b * d) \div b = (a \div b) + d
<1>1. PICK q \in Int, r \in 0..b - 1 : a = b * q + r /\ q = a \div b
  BY DivMod
<1>2. b * (q + d) = b * q + b * d
  BY <1>1
<1>3. a + b * d = b * (q + d) + r /\ a + b * d \in Int /\ q + d \in Int
  BY <1>1, <1>2
<1> QED
  BY <1>1, <1>3, DivUnique

LEMMA DivBound ==
    ASSUME NEW b \in Nat \ {0}, NEW c \in Nat \ {0}, NEW a \in 0..b * c - 1
    PROVE  a \div b \in 0..c - 1
<1> DEFINE q == a \div b
           r == a % b
<1>1. q \in Int /\ r \in 0..b - 1 /\ a = b * q + r
  BY DivMod
<1> HIDE DEF q, r
<1>2. CASE q >= c
  <2>1. b * q >= b * c
    BY <1>1, <1>2
  <2> QED
    BY <1>1, <2>1
<1>3. CASE q <= -1
  <2>1. b * q <= -b
    BY <1>1, <1>3
  <2> QED
    BY <1>1, <2>1
<1> QED
  BY <1>1, <1>2, <1>3 DEF q

(* The lowest digit to the base b and those above it, cut off.             *)
LEMMA ModProduct ==
    ASSUME NEW b \in Nat \ {0}, NEW c \in Nat \ {0}, NEW low \in 0..b - 1, NEW high \in Int
    PROVE  (low + b * high) % (b * c) = low + b * (high % c)
<1>1. PICK q \in Int, r \in 0..c - 1 : high = c * q + r /\ r = high % c
  BY DivMod
<1>2. low + b * high = (b * c) * q + (low + b * r)
  <2>1. b * (c * q + r) = (b * c) * q + b * r
    BY <1>1
  <2> QED
    BY <1>1, <2>1
<1>3. b * c \in Nat \ {0} /\ low + b * r \in 0..b * c - 1
  <2>1. /\ b * r \in Int /\ b * r >= 0 /\ b * r <= b * (c - 1)
        /\ b * c \in Int /\ b * (c - 1) = b * c - b
    BY <1>1
  <2>2. b * c >= b
    OBVIOUS
  <2> QED
    BY <1>1, <2>1, <2>2
<1>4. low + b * high \in Int
  BY <1>1
<1> QED
  BY <1>1, <1>2, <1>3, <1>4, DivUnique

-----------------------------------------------------------------------------
(* Powers of 2.                                                            *)

(* Power is a function that has its definition's values.                   *)
LEMMA PowerDef ==
    Power \in [Nat -> Nat] /\ Power[0] = 1 /\ \A n \in Nat : Power[n + 1] = 2 * Power[n]
<1> DEFINE step == [p \in Nat \X (Nat \ {0}) |-> 2 * p[1]]
           Def(f) == [n \in Nat |-> IF n = 0 THEN 1 ELSE 2 * f[n - 1]]
<1>1. /\ step \in [Nat \X (Nat \ {0}) -> Nat]
      /\ \A a \in Nat, k \in Nat \ {0} : step[<<a, k>>] = 2 * a
  OBVIOUS
<1> HIDE DEF step
<1>2. PICK f \in [Nat -> Nat] : Iterates(f, 1, step, Nat)
  <2>1. \A k \in Nat \ {0} : k - 1 \in Nat
    OBVIOUS
  <2> QED
    BY <1>1, <2>1, Recursion
<1>3. f = Def(f)
  <2>1. ASSUME NEW n \in Nat PROVE f[n] = IF n = 0 THEN 1 ELSE 2 * f[n - 1]
    <3>1. CASE n = 0
      BY <1>2, <3>1 DEF Iterates
    <3>2. CASE n # 0
      <4>1. n \in Nat \ {0} /\ f[n - 1] \in Nat
        BY <1>2, <3>2
      <4> QED
        BY <1>1, <1>2, <4>1 DEF Iterates
    <3> QED
      BY <3>1, <3>2
  <2> QED
    BY <1>2, <2>1
<1>4. Power = CHOOSE g : g = Def(g)
  BY DEF Power
<1>5. Power = Def(Power)
  BY <1>3, <1>4
<1> HIDE DEF Def
<1>6. Power[0] = 1 /\ \A n \in Nat : Power[n + 1] = 2 * Power[n]
  <2>1. ASSUME NEW n \in Nat PROVE Power[n] = IF n = 0 THEN 1 ELSE 2 * Power[n - 1]
    BY <1>5 DEF Def
  <2> QED
    BY <2>1
<1>7. ASSUME NEW n \in Nat PROVE Power[n] \in Nat
  <2> DEFINE S == {k \in Nat : Power[k] \in Nat}
  <2>1. 0 \in S /\ \A k \in Nat : k \in S => k + 1 \in S
    BY <1>6
  <2> HIDE DEF S
  <2>2. n \in S
    BY <2>1, SetInduction
  <2> QED
    BY <2>2 DEF S
<1>8. Power = [n \in Nat |-> Power[n]]
  BY <1>5 DEF Def
<1> QED
  BY <1>6, <1>7, <1>8

LEMMA PowerPositive == ASSUME NEW n \in Nat PROVE Power[n] \in Nat \ {0}
<1> DEFINE S == {k \in Nat : Power[k] \in Nat \ {0}}
<1>1. 0 \in S /\ \A k \in Nat : k \in S => k + 1 \in S
  BY PowerDef
<1> HIDE DEF S
<1>2. n \in S
  BY <1>1, SetInduction
<1> QED
  BY <1>2 DEF S

LEMMA PowerSum == ASSUME NEW m \in Nat, NEW n \in Nat PROVE Power[m + n] = Power[m] * Power[n]
<1> DEFINE S == {k \in Nat : Power[m + k] = Power[m] * Power[k]}
<1>1. 0 \in S
  BY PowerDef
<1>2. ASSUME NEW k \in Nat, k \in S PROVE k + 1 \in S
  <2>1. Power[m + k] = Power[m] * Power[k]
    BY <1>2
  <2>2. Power[m + (k + 1)] = 2 * Power[m + k] /\ Power[k + 1] = 2 * Power[k]
    <3>1. m + k \in Nat /\ m + (k + 1) = (m + k) + 1
      OBVIOUS
    <3> QED
      BY <3>1, PowerDef
  <2>3. Power[m] \in Int /\ Power[k] \in Int
    BY PowerDef
  <2>4. Power[m + (k + 1)] = Power[m] * Power[k + 1]
    BY <2>1, <2>2, <2>3
  <2> QED
    BY <2>4
<1> HIDE DEF S
<1>3. n \in S
  BY <1>1, <1>2, SetInduction
<1> QED
  BY <1>3 DEF S
=============================================================================
