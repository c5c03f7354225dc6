---------------------------- MODULE Foundations ----------------------------
(***************************************************************************)
(* Facts that the proofs about the components share: induction over the    *)
(* natural numbers, stated with sets and functions, products, remainders.  *)
(***************************************************************************)
EXTENDS Integers, TLAPS, WellFoundedInduction

(* A set of natural numbers that is not empty has a least element.         *)
LEMMA NatMinimum ==
  ASSUME NEW T, T \subseteq Nat, T # {}
  PROVE  \E x \in T : \A y \in T : x <= y
<1>1. PICK x \in T : \A y \in T : ~(<<y, x>> \in OpToRel(<, Nat))
  BY NatLessThanWellFounded, WFMin
<1>2. \A y \in T : ~(y < x)
  BY <1>1 DEF OpToRel
<1> QED BY <1>2

(* A set of natural numbers that is bounded has a greatest element.        *)
LEMMA NatMaximum ==
  ASSUME NEW T, T \subseteq Nat, T # {}, NEW n \in Nat, \A x \in T : x <= n
  PROVE  \E x \in T : \A y \in T : y <= x
<1> DEFINE U == {n - x : x \in T}
<1>1. U \subseteq Nat /\ U # {}
  <2>1. \A x \in T : n - x \in Nat
    <3>1. \A x \in T : x \in Nat /\ x <= n
      OBVIOUS
    <3> QED BY <3>1
  <2> QED BY <2>1
<1>2. PICK u \in U : \A y \in U : u <= y
  <2> HIDE DEF U
  <2> QED BY <1>1, NatMinimum
<1>3. PICK x \in T : u = n - x
  OBVIOUS
<1>4. \A y \in T : n - x <= n - y
  BY <1>2, <1>3
<1>5. x \in Nat /\ \A y \in T : y \in Nat
  OBVIOUS
<1> QED BY <1>4, <1>5

(* Induction, stated with a set: what holds of 0 and goes from each number *)
(* to the next holds of all.                                               *)
LEMMA NatInductionSet ==
  ASSUME NEW P, 0 \in P, \A n \in Nat : n \in P => n + 1 \in P
  PROVE  Nat \subseteq P
<1> DEFINE T == {n \in Nat : n \notin P}
<1> SUFFICES ASSUME T # {} PROVE FALSE
  OBVIOUS
<1>1. PICK m \in T : \A y \in T : m <= y
  BY NatMinimum
<1>2. m \in Nat /\ m # 0
  OBVIOUS
<1>3. m - 1 \in Nat /\ m - 1 \notin T
  BY <1>1, <1>2
<1>4. (m - 1) + 1 \in P
  BY <1>3
<1> QED BY <1>2, <1>4

(* f starts with base, and step leads from its value at i - 1 to the one   *)
(* at i, up to n.                                                          *)
Iterates(f, S, base, step, n) ==
  /\ f \in [0 .. n -> S]
  /\ f[0] = base
  /\ \A i \in 1 .. n : f[i] = step[i][f[i - 1]]

(* A function defined by recursion exists.                                 *)
LEMMA Recursion ==
  ASSUME NEW S, NEW base \in S, NEW step \in [Nat -> [S -> S]], NEW n \in Nat
  PROVE  \E f : Iterates(f, S, base, step, n)
<1> DEFINE Is(f, m) == Iterates(f, S, base, step, m)
           P == {m \in Nat : \E f : Is(f, m)}
<1>1. 0 \in P
  <2>1. Is([i \in 0 .. 0 |-> base], 0)
    BY DEF Iterates
  <2> QED BY <2>1
<1>2. ASSUME NEW m \in Nat, m \in P PROVE m + 1 \in P
  <2>1. PICK f : Is(f, m)
    BY <1>2
  <2> DEFINE last == step[m + 1][f[m]]
             g == [i \in 0 .. (m + 1) |-> IF i = m + 1 THEN last ELSE f[i]]
  <2>2. last \in S
    BY <2>1 DEF Iterates
  <2>3. g \in [0 .. (m + 1) -> S] /\ g[0] = base
    BY <2>1, <2>2 DEF Iterates
  <2>4. ASSUME NEW i \in 1 .. (m + 1) PROVE g[i] = step[i][g[i - 1]]
    <3>1. CASE i = m + 1
      <4>1. i - 1 = m /\ g[i - 1] = f[m] /\ g[i] = last
        BY <3>1
      <4> QED BY <3>1, <4>1
    <3>2. CASE i # m + 1
      <4>1. i \in 1 .. m /\ g[i] = f[i] /\ g[i - 1] = f[i - 1]
        BY <3>2
      <4> QED BY <2>1, <4>1 DEF Iterates
    <3> QED BY <3>1, <3>2
  <2>5. Is(g, m + 1)
    BY <2>3, <2>4 DEF Iterates
  <2>6. m + 1 \in Nat
    OBVIOUS
  <2> HIDE DEF g, Is
  <2> QED BY <2>5, <2>6
<1>3. n \in P
  <2>1. \A m \in Nat : m \in P => m + 1 \in P
    BY <1>2
  <2> HIDE DEF P
  <2> QED BY <1>1, <2>1, NatInductionSet
<1> QED BY <1>3

(* Two functions that start alike and go on alike are alike.               *)
LEMMA SameSteps ==
  ASSUME NEW n \in Nat, NEW f, NEW g, f[0] = g[0],
         \A k \in 1 .. n : f[k - 1] = g[k - 1] => f[k] = g[k]
  PROVE  \A k \in 0 .. n : f[k] = g[k]
<1> DEFINE P == {k \in Nat : k <= n => f[k] = g[k]}
<1>1. 0 \in P
  OBVIOUS
<1>2. ASSUME NEW k \in Nat, k \in P PROVE k + 1 \in P
  <2> SUFFICES ASSUME k + 1 <= n PROVE f[k + 1] = g[k + 1]
    OBVIOUS
  <2>1. k + 1 \in 1 .. n /\ (k + 1) - 1 = k /\ f[k] = g[k]
    BY <1>2
  <2> QED BY <2>1
<1>3. Nat \subseteq P
  <2> HIDE DEF P
  <2> QED BY <1>1, <1>2, NatInductionSet
<1> QED BY <1>3

(* f is base where it stops, and elsewhere comes from its value further    *)
(* on, for the arguments from m to n.                                      *)
Descends(f, S, base, stop, further, step, m, n) ==
  /\ f \in [1 .. n -> S]
  /\ \A k \in m .. n : f[k] = IF stop[k] THEN base ELSE step[k][f[further[k]]]

(* A function defined by recursion towards larger arguments exists.        *)
LEMMA DescendingRecursion ==
  ASSUME NEW S, NEW base \in S, NEW n \in Nat, NEW stop \in [1 .. n -> BOOLEAN],
         NEW further, \A k \in 1 .. n : ~stop[k] => further[k] \in (k + 1) .. n,
         NEW step \in [1 .. n -> [S -> S]]
  PROVE  \E f : Descends(f, S, base, stop, further, step, 1, n)
<1> DEFINE Is(f, m) == Descends(f, S, base, stop, further, step, n + 1 - m, n)
           P == {m \in Nat : m <= n => \E f : Is(f, m)}
<1>1. 0 \in P
  <2>1. Is([k \in 1 .. n |-> base], 0)
    BY DEF Descends
  <2> HIDE DEF Is
  <2> QED BY <2>1
<1>2. ASSUME NEW m \in Nat, m \in P PROVE m + 1 \in P
  <2> SUFFICES ASSUME m + 1 <= n PROVE \E f : Is(f, m + 1)
    OBVIOUS
  <2>1. PICK f : Is(f, m)
    BY <1>2
  <2>2. f \in [1 .. n -> S]
    BY <2>1 DEF Descends
  <2> DEFINE a == n - m
             val == IF stop[a] THEN base ELSE step[a][f[further[a]]]
             g == [k \in 1 .. n |-> IF k = a THEN val ELSE f[k]]
  <2>3. a \in 1 .. n /\ n + 1 - (m + 1) = a /\ n + 1 - m = a + 1
    OBVIOUS
  <2>4. val \in S /\ (~stop[a] => further[a] \in (a + 1) .. n)
    <3> HIDE DEF a
    <3>1. CASE stop[a]
      BY <3>1
    <3>2. CASE ~stop[a]
      <4>1. further[a] \in 1 .. n /\ further[a] \in (a + 1) .. n
        BY <2>3, <3>2
      <4>2. f[further[a]] \in S /\ step[a] \in [S -> S]
        BY <2>2, <2>3, <4>1
      <4> QED BY <3>2, <4>1, <4>2
    <3> QED BY <3>1, <3>2
  <2> HIDE DEF a, val
  <2>5. g \in [1 .. n -> S]
    BY <2>2, <2>4
  <2>6. ASSUME NEW k \in a .. n
        PROVE  g[k] = IF stop[k] THEN base ELSE step[k][g[further[k]]]
    <3>1. k \in 1 .. n /\ (~stop[k] => further[k] \in 1 .. n /\ further[k] > k)
      BY <2>3
    <3>2. ~stop[k] => g[further[k]] = f[further[k]]
      BY <2>3, <3>1
    <3>3. CASE k = a
      BY <3>1, <3>2, <3>3 DEF val
    <3>4. CASE k # a
      <4>1. k \in (n + 1 - m) .. n
        BY <2>3, <3>4
      <4>2. f[k] = IF stop[k] THEN base ELSE step[k][f[further[k]]]
        BY <2>1, <4>1 DEF Descends
      <4> QED BY <3>1, <3>2, <3>4, <4>2
    <3> QED BY <3>3, <3>4
  <2>7. Is(g, m + 1)
    BY <2>3, <2>5, <2>6 DEF Descends
  <2> HIDE DEF g, Is
  <2> QED BY <2>7
<1>3. n \in P
  <2>1. \A m \in Nat : m \in P => m + 1 \in P
    BY <1>2
  <2> HIDE DEF P
  <2> QED BY <1>1, <2>1, NatInductionSet
<1>4. PICK f : Is(f, n)
  BY <1>3
<1>5. n + 1 - n = 1
  OBVIOUS
<1> QED BY <1>4, <1>5

-----------------------------------------------------------------------------
(* The product of two natural numbers is one.                              *)
LEMMA ProductNat == \A a, b \in Nat : a * b \in Nat
OBVIOUS

(* A multiple of w that is smaller than w is 0.                            *)
LEMMA SmallMultiple ==
  ASSUME NEW w \in Nat \ {0}, NEW q \in Int, -w < q * w, q * w < w
  PROVE  q = 0
<1>1. CASE q >= 1
  <2>1. (q - 1) * w \in Nat /\ q * w = (q - 1) * w + w
    BY <1>1, ProductNat
  <2> QED BY <2>1
<1>2. CASE q <= -1
  <2>1. (-1 - q) * w \in Nat /\ q * w = -((-1 - q) * w) - w
    BY <1>2, ProductNat
  <2> QED BY <2>1
<1> QED BY <1>1, <1>2

(* Division with remainder.                                                *)
LEMMA DivMod ==
  ASSUME NEW w \in Nat \ {0}, NEW a \in Int
  PROVE  /\ a \div w \in Int /\ a % w \in Int
         /\ a = (a \div w) * w + (a % w) /\ 0 <= a % w /\ a % w < w
<1>1. a \div w \in Int
  OBVIOUS
<1>2. a % w \in Int /\ 0 <= a % w /\ a % w < w
  OBVIOUS
<1>3. a = (a \div w) * w + (a % w)
  OBVIOUS
<1> QED BY <1>1, <1>2, <1>3

(* The remainder is the only number below w that differs from a by a       *)
(* multiple of w.                                                          *)
LEMMA ModUnique ==
  ASSUME NEW w \in Nat \ {0}, NEW a \in Int, NEW r \in Int, NEW q \in Int,
         a = q * w + r, 0 <= r, r < w
  PROVE  a % w = r
<1> DEFINE p == a \div w
           m == a % w
<1>1. p \in Int /\ m \in Int /\ a = p * w + m /\ 0 <= m /\ m < w
  BY DivMod
<1> HIDE DEF p, m
<1>2. q - p \in Int /\ (q - p) * w = m - r
  BY <1>1
<1>3. q - p = 0
  BY <1>1, <1>2, SmallMultiple
<1>4. q = p
  BY <1>1, <1>3
<1>5. m = r
  BY <1>1, <1>4
<1> QED BY <1>5 DEF m

(* Numbers that differ by a multiple of w have the same remainder.         *)
LEMMA ModPeriodic ==
  ASSUME NEW w \in Nat \ {0}, NEW a \in Int, NEW k \in Int
  PROVE  (a + k * w) % w = a % w
<1> DEFINE p == a \div w
           m == a % w
<1>1. p \in Int /\ m \in Int /\ a = p * w + m /\ 0 <= m /\ m < w
  BY DivMod
<1> HIDE DEF p, m
<1>2. a + k * w = (p + k) * w + m /\ a + k * w \in Int /\ p + k \in Int
  BY <1>1
<1>3. (a + k * w) % w = m
  BY <1>1, <1>2, ModUnique
<1> QED BY <1>3 DEF m

(* One turn further is the same remainder.                                 *)
LEMMA ModTurn ==
  ASSUME NEW w \in Nat \ {0}, NEW a \in Int
  PROVE  (a + w) % w = a % w
<1> DEFINE k == 1
<1>1. k \in Int /\ a + w = a + k * w
  OBVIOUS
<1> HIDE DEF k
<1> QED BY <1>1, ModPeriodic

(* A remainder may be taken before or after a sum.                         *)
LEMMA ModSum ==
  ASSUME NEW w \in Nat \ {0}, NEW a \in Int, NEW b \in Int
  PROVE  ((a % w) + b) % w = (a + b) % w
<1> DEFINE p == a \div w
           m == a % w
<1>1. p \in Int /\ m \in Int /\ a = p * w + m
  BY DivMod
<1> HIDE DEF p, m
<1>2. a + b = (m + b) + p * w /\ m + b \in Int
  BY <1>1
<1>3. ((m + b) + p * w) % w = (m + b) % w
  BY <1>1, <1>2, ModPeriodic
<1> QED BY <1>2, <1>3 DEF m

(* A remainder of a multiple of v may be taken before one of v.            *)
LEMMA ModMultiple ==
  ASSUME NEW w \in Nat \ {0}, NEW v \in Nat \ {0}, w % v = 0, NEW a \in Int, NEW b \in Int
  PROVE  ((a % w) + b) % v = (a + b) % v
<1> DEFINE p == a \div w
           d == w \div v
           m == a % w
<1>1. p \in Int /\ m \in Int /\ a = p * w + m
  BY DivMod
<1>2. d \in Int /\ w = d * v
  BY DivMod
<1> HIDE DEF p, d, m
<1>3. p * d \in Int /\ m + b \in Int
  BY <1>1, <1>2
<1>4. p * w = (p * d) * v
  BY <1>1, <1>2
<1>5. a + b = (m + b) + (p * d) * v
  BY <1>1, <1>3, <1>4
<1>6. ((m + b) + (p * d) * v) % v = (m + b) % v
  BY <1>3, ModPeriodic
<1> QED BY <1>5, <1>6 DEF m

(* Numbers less than w apart with the same remainder are equal.            *)
LEMMA ModInjective ==
  ASSUME NEW w \in Nat \ {0}, NEW a \in Int, NEW b \in Int,
         a % w = b % w, -w < a - b, a - b < w
  PROVE  a = b
<1> DEFINE p == a \div w
           q == b \div w
           m == a % w
<1>1. p \in Int /\ q \in Int /\ m \in Int /\ a = p * w + m /\ b = q * w + m
  BY DivMod
<1> HIDE DEF p, q, m
<1>2. p - q \in Int /\ (p - q) * w = a - b
  BY <1>1
<1>3. p - q = 0
  BY <1>2, SmallMultiple
<1> QED BY <1>2, <1>3

(* A number below w is its own remainder.                                  *)
LEMMA ModSmall ==
  ASSUME NEW w \in Nat \ {0}, NEW a \in 0 .. (w - 1)
  PROVE  a % w = a
<1>1. a = 0 * w + a
  OBVIOUS
<1> QED BY <1>1, ModUnique
=============================================================================
