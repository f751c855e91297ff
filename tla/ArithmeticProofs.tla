-------------------------- MODULE ArithmeticProofs --------------------------
(***************************************************************************)
(* Facts about the operators of Arithmetic, for every length.  A sum is a  *)
(* recursive function, so they are proved by induction.  The induction     *)
(* theorems of the library take an operator; here the induction predicate  *)
(* is a set, and its complement has a least element (WFMin).               *)
(***************************************************************************)
EXTENDS Arithmetic, WellFoundedInduction, TLAPS

-----------------------------------------------------------------------------
(* Induction. *)

\* A set of natural numbers that is not empty has a least element.
LEMMA LeastNatural ==
  ASSUME NEW T, T \subseteq Nat, T # {}
  PROVE  \E m \in T : \A k \in T : m <= k
<1>1. PICK m \in T : \A k \in T : ~(<<k, m>> \in OpToRel(<, Nat))
  BY NatLessThanWellFounded, WFMin, Zenon
<1>2. \A k \in T : ~(k < m)
  BY <1>1, Zenon DEF OpToRel
<1>. QED BY <1>2

\* A set that has 0, and with every number the next one, has all of them.
LEMMA SetInduction ==
  ASSUME NEW T, 0 \in T, \A n \in Nat : n \in T => n + 1 \in T
  PROVE  \A n \in Nat : n \in T
<1>. DEFINE Rest == {n \in Nat : n \notin T}
<1>1. SUFFICES ASSUME Rest # {} PROVE FALSE
  OBVIOUS
<1>2. PICK m \in Rest : \A k \in Rest : m <= k
  BY <1>1, LeastNatural, Zenon
<1>3. m - 1 \in Nat /\ m - 1 \in T
  BY <1>2
<1>. QED BY <1>2, <1>3

\* A set of natural numbers that is not empty and has a bound has a greatest
\* element.
LEMMA GreatestNatural ==
  ASSUME NEW T, T \subseteq Nat, T # {}, NEW bound \in Nat, \A k \in T : k <= bound
  PROVE  \E m \in T : \A k \in T : k <= m
<1>. DEFINE Above == {n \in Nat : \A k \in T : k <= n}
<1>1. bound \in Above /\ Above \subseteq Nat
  OBVIOUS
<1>2. PICK m \in Above : \A k \in Above : m <= k
  BY <1>1, LeastNatural, Zenon
<1>3. m \in T
  <2>1. SUFFICES ASSUME m \notin T PROVE FALSE
    OBVIOUS
  <2>2. \A k \in T : k <= m - 1
    BY <1>2, <2>1
  <2>3. m - 1 \in Nat
    <3>1. PICK x : x \in T
      OBVIOUS
    <3>2. x \in Nat /\ x <= m - 1 /\ m \in Nat
      BY <3>1, <2>2, <1>2
    <3>. QED BY <3>2
  <2>4. m - 1 \in Above
    BY <2>2, <2>3
  <2>. QED BY <2>3, <2>4, <1>2
<1>. QED BY <1>2, <1>3

-----------------------------------------------------------------------------
(* Sums. *)

IsSum(g, f, n) == g = [i \in 0 .. n |-> IF i = 0 THEN 0 ELSE g[i - 1] + f[i]]

\* The recursive function that SumTo chooses exists.
LEMMA SumExists ==
  ASSUME NEW f
  PROVE  \A n \in Nat : \E g : IsSum(g, f, n)
<1>. DEFINE T == {m \in Nat : \E g : IsSum(g, f, m)}
<1>1. 0 \in T
  <2>1. IsSum([i \in 0 .. 0 |-> 0], f, 0)
    BY DEF IsSum
  <2>. QED BY <2>1
<1>2. ASSUME NEW m \in Nat, m \in T PROVE m + 1 \in T
  <2>1. PICK g : IsSum(g, f, m)
    BY <1>2
  <2>. DEFINE h == [i \in 0 .. m + 1 |-> IF i = m + 1 THEN g[m] + f[m + 1] ELSE g[i]]
  <2>2. \A i \in 0 .. m : h[i] = g[i]
    OBVIOUS
  <2>3. \A i \in 0 .. m : g[i] = IF i = 0 THEN 0 ELSE g[i - 1] + f[i]
    BY <2>1 DEF IsSum
  <2>4. \A i \in 0 .. m + 1 : h[i] = IF i = 0 THEN 0 ELSE h[i - 1] + f[i]
    <3>1. TAKE i \in 0 .. m + 1
    <3>2. CASE i = m + 1
      BY <3>2, <2>2
    <3>3. CASE i = 0
      BY <3>3, <2>3
    <3>4. CASE i # m + 1 /\ i # 0
      <4>1. i \in 0 .. m /\ i - 1 \in 0 .. m
        BY <3>4
      <4>. QED BY <4>1, <2>2, <2>3, <3>4
    <3>. QED BY <3>2, <3>3, <3>4
  <2>5. h = [i \in 0 .. m + 1 |-> IF i = 0 THEN 0 ELSE h[i - 1] + f[i]]
    BY <2>4
  <2>6. IsSum(h, f, m + 1)
    BY <2>5 DEF IsSum
  <2>. HIDE DEF h
  <2>. QED BY <2>6
<1>. HIDE DEF T
<1>3. \A n \in Nat : n \in T
  BY <1>1, <1>2, SetInduction
<1>. QED BY <1>3 DEF T

\* SumTo is an end point of a function that satisfies the recursion.
LEMMA SumToIsSum ==
  ASSUME NEW f, NEW n \in Nat
  PROVE  \E g : IsSum(g, f, n) /\ SumTo(f, n) = g[n]
<1>1. \E g : IsSum(g, f, n)
  BY SumExists
<1>2. IsSum(CHOOSE g : IsSum(g, f, n), f, n)
  BY <1>1
<1>. QED BY <1>2, Zenon DEF IsSum, SumTo

\* Two functions that satisfy the recursion agree where both are defined.
LEMMA SumUnique ==
  ASSUME NEW f, NEW m \in Nat, NEW n \in Nat, NEW g, NEW h,
         IsSum(g, f, m), IsSum(h, f, n)
  PROVE  \A i \in Nat : i <= m /\ i <= n => g[i] = h[i]
<1>. DEFINE T == {i \in Nat : i <= m /\ i <= n => g[i] = h[i]}
<1>1. 0 \in T
  BY DEF IsSum
<1>2. ASSUME NEW i \in Nat, i \in T PROVE i + 1 \in T
  <2>1. SUFFICES ASSUME i + 1 <= m, i + 1 <= n PROVE g[i + 1] = h[i + 1]
    OBVIOUS
  <2>2. g[i] = h[i]
    BY <1>2, <2>1
  <2>3. g[i + 1] = g[i] + f[i + 1]
    BY <2>1 DEF IsSum
  <2>4. h[i + 1] = h[i] + f[i + 1]
    BY <2>1 DEF IsSum
  <2>. QED BY <2>2, <2>3, <2>4
<1>. HIDE DEF T
<1>3. \A i \in Nat : i \in T
  BY <1>1, <1>2, SetInduction
<1>. QED BY <1>3 DEF T

\* The sum of no elements.
LEMMA SumZero ==
  ASSUME NEW f
  PROVE  SumTo(f, 0) = 0
<1>1. PICK g : IsSum(g, f, 0) /\ SumTo(f, 0) = g[0]
  BY SumToIsSum
<1>. QED BY <1>1 DEF IsSum

\* The sum of one element more.
LEMMA SumStep ==
  ASSUME NEW f, NEW n \in Nat
  PROVE  SumTo(f, n + 1) = SumTo(f, n) + f[n + 1]
<1>1. PICK g : IsSum(g, f, n) /\ SumTo(f, n) = g[n]
  BY SumToIsSum
<1>2. PICK h : IsSum(h, f, n + 1) /\ SumTo(f, n + 1) = h[n + 1]
  BY SumToIsSum
<1>3. g[n] = h[n]
  BY <1>1, <1>2, SumUnique
<1>4. h[n + 1] = h[n] + f[n + 1]
  BY <1>2 DEF IsSum
<1>. QED BY <1>1, <1>2, <1>3, <1>4

\* A sum of natural numbers is a natural number.
LEMMA SumNat ==
  ASSUME NEW f, NEW n \in Nat, \A i \in 1 .. n : f[i] \in Nat
  PROVE  SumTo(f, n) \in Nat
<1>. DEFINE T == {m \in Nat : m <= n => SumTo(f, m) \in Nat}
<1>1. 0 \in T
  BY SumZero
<1>2. ASSUME NEW m \in Nat, m \in T PROVE m + 1 \in T
  BY <1>2, SumStep
<1>. HIDE DEF T
<1>3. \A m \in Nat : m \in T
  BY <1>1, <1>2, SetInduction
<1>. QED BY <1>3 DEF T

\* A sum is no less when no element is.
LEMMA SumMonotonic ==
  ASSUME NEW f, NEW g, NEW n \in Nat,
         \A i \in 1 .. n : f[i] \in Nat /\ g[i] \in Nat /\ f[i] <= g[i]
  PROVE  SumTo(f, n) <= SumTo(g, n)
<1>. DEFINE T == {m \in Nat : m <= n => /\ SumTo(f, m) \in Nat
                                        /\ SumTo(g, m) \in Nat
                                        /\ SumTo(f, m) <= SumTo(g, m)}
<1>1. 0 \in T
  BY SumZero
<1>2. ASSUME NEW m \in Nat, m \in T PROVE m + 1 \in T
  BY <1>2, SumStep
<1>. HIDE DEF T
<1>3. \A m \in Nat : m \in T
  BY <1>1, <1>2, SetInduction
<1>. QED BY <1>3 DEF T

\* The sum of sums.
LEMMA SumAdd ==
  ASSUME NEW f, NEW g, NEW h, NEW n \in Nat,
         \A i \in 1 .. n : f[i] \in Nat /\ g[i] \in Nat /\ h[i] = f[i] + g[i]
  PROVE  SumTo(h, n) = SumTo(f, n) + SumTo(g, n)
<1>. DEFINE T == {m \in Nat : m <= n => /\ SumTo(f, m) \in Nat
                                        /\ SumTo(g, m) \in Nat
                                        /\ SumTo(h, m) = SumTo(f, m) + SumTo(g, m)}
<1>1. 0 \in T
  BY SumZero
<1>2. ASSUME NEW m \in Nat, m \in T PROVE m + 1 \in T
  BY <1>2, SumStep
<1>. HIDE DEF T
<1>3. \A m \in Nat : m \in T
  BY <1>1, <1>2, SetInduction
<1>. QED BY <1>3 DEF T

\* The sum of multiples.
LEMMA SumTimes ==
  ASSUME NEW f, NEW k \in Nat, NEW n \in Nat, \A i \in 1 .. n : f[i] \in Nat
  PROVE  SumTo([i \in 1 .. n |-> k * f[i]], n) = k * SumTo(f, n)
<1>. DEFINE h == [i \in 1 .. n |-> k * f[i]]
<1>0. \A i \in 1 .. n : h[i] = k * f[i]
  OBVIOUS
<1>. HIDE DEF h
<1>. DEFINE T == {m \in Nat : m <= n => /\ SumTo(f, m) \in Nat
                                        /\ SumTo(h, m) = k * SumTo(f, m)}
<1>1. 0 \in T
  BY SumZero
<1>2. ASSUME NEW m \in Nat, m \in T PROVE m + 1 \in T
  <2>1. SUFFICES ASSUME m + 1 <= n
                 PROVE  /\ SumTo(f, m + 1) \in Nat
                        /\ SumTo(h, m + 1) = k * SumTo(f, m + 1)
    OBVIOUS
  <2>2. SumTo(f, m) \in Nat /\ SumTo(h, m) = k * SumTo(f, m)
    BY <1>2, <2>1
  <2>3. f[m + 1] \in Nat /\ h[m + 1] = k * f[m + 1]
    BY <2>1, <1>0
  <2>4. \A a, b \in Nat : k * (a + b) = k * a + k * b
    OBVIOUS
  <2>5. k * (SumTo(f, m) + f[m + 1]) = k * SumTo(f, m) + k * f[m + 1]
    BY <2>2, <2>3, <2>4
  <2>. QED BY <2>2, <2>3, <2>5, SumStep
<1>. HIDE DEF T
<1>3. \A m \in Nat : m \in T
  BY <1>1, <1>2, SetInduction
<1>. QED BY <1>3 DEF T, h

\* The sum of more elements is no less.
LEMMA SumGrows ==
  ASSUME NEW f, NEW n \in Nat, NEW m \in 0 .. n, \A i \in 1 .. n : f[i] \in Nat
  PROVE  SumTo(f, m) <= SumTo(f, n)
<1>. DEFINE T == {k \in Nat : m + k <= n =>
                                SumTo(f, m + k) \in Nat /\ SumTo(f, m) <= SumTo(f, m + k)}
<1>1. 0 \in T
  BY SumNat
<1>2. ASSUME NEW k \in Nat, k \in T PROVE k + 1 \in T
  <2>1. SUFFICES ASSUME m + k + 1 <= n
                 PROVE  /\ SumTo(f, m + (k + 1)) \in Nat
                        /\ SumTo(f, m) <= SumTo(f, m + (k + 1))
    OBVIOUS
  <2>2. SumTo(f, m + (k + 1)) = SumTo(f, m + k) + f[m + k + 1]
    <3>1. m + k \in Nat /\ m + (k + 1) = (m + k) + 1
      OBVIOUS
    <3>. QED BY <3>1, SumStep
  <2>3. SumTo(f, m) \in Nat
    BY SumNat
  <2>. QED BY <1>2, <2>1, <2>2, <2>3
<1>. HIDE DEF T
<1>3. \A k \in Nat : k \in T
  BY <1>1, <1>2, SetInduction
<1>4. n - m \in T /\ m + (n - m) = n
  BY <1>3
<1>. QED BY <1>4 DEF T

\* No element is more than the sum.
LEMMA SumElement ==
  ASSUME NEW f, NEW n \in Nat, NEW i \in 1 .. n, \A j \in 1 .. n : f[j] \in Nat
  PROVE  f[i] <= SumTo(f, n)
<1>1. i - 1 \in Nat /\ i \in 0 .. n /\ (i - 1) + 1 = i
  OBVIOUS
<1>2. SumTo(f, i) = SumTo(f, i - 1) + f[i]
  BY <1>1, SumStep
<1>3. SumTo(f, i - 1) \in Nat
  BY <1>1, SumNat
<1>4. SumTo(f, i) <= SumTo(f, n) /\ SumTo(f, i) \in Nat /\ SumTo(f, n) \in Nat
  BY <1>1, SumGrows, SumNat
<1>. QED BY <1>2, <1>3, <1>4

\* Elements that are 0 add nothing.
LEMMA SumGap ==
  ASSUME NEW f, NEW n \in Nat, NEW m \in 0 .. n,
         \A i \in 1 .. n : f[i] \in Nat, \A i \in m + 1 .. n : f[i] = 0
  PROVE  SumTo(f, m) = SumTo(f, n)
<1>. DEFINE T == {k \in Nat : m + k <= n => SumTo(f, m + k) = SumTo(f, m)}
<1>1. 0 \in T
  OBVIOUS
<1>2. ASSUME NEW k \in Nat, k \in T PROVE k + 1 \in T
  <2>1. SUFFICES ASSUME m + k + 1 <= n
                 PROVE  SumTo(f, m + (k + 1)) = SumTo(f, m)
    OBVIOUS
  <2>2. SumTo(f, m + (k + 1)) = SumTo(f, m + k) + f[m + k + 1]
    <3>1. m + k \in Nat /\ m + (k + 1) = (m + k) + 1
      OBVIOUS
    <3>. QED BY <3>1, SumStep
  <2>3. SumTo(f, m) \in Nat /\ f[m + k + 1] = 0
    BY <2>1, SumNat
  <2>. QED BY <1>2, <2>1, <2>2, <2>3
<1>. HIDE DEF T
<1>3. \A k \in Nat : k \in T
  BY <1>1, <1>2, SetInduction
<1>4. n - m \in T /\ m + (n - m) = n
  BY <1>3
<1>. QED BY <1>4 DEF T

\* A sum depends on the elements summed only.
LEMMA SumSame ==
  ASSUME NEW f, NEW g, NEW n \in Nat, \A i \in 1 .. n : f[i] = g[i]
  PROVE  SumTo(f, n) = SumTo(g, n)
<1>. DEFINE T == {m \in Nat : m <= n => SumTo(f, m) = SumTo(g, m)}
<1>1. 0 \in T
  BY SumZero
<1>2. ASSUME NEW m \in Nat, m \in T
      PROVE  m + 1 \in T
  <2>1. SUFFICES ASSUME m + 1 <= n
                 PROVE  SumTo(f, m + 1) = SumTo(g, m + 1)
    OBVIOUS
  <2>2. SumTo(f, m) = SumTo(g, m)
    BY <1>2, <2>1
  <2>3. m + 1 \in 1 .. n
    BY <2>1
  <2>. QED
    BY <2>2, <2>3, SumStep
<1>. HIDE DEF T
<1>3. \A m \in Nat : m \in T
  BY <1>1, <1>2, SetInduction
<1>. QED BY <1>3 DEF T

\* The total of a function on an interval is the sum of its values.
LEMMA TotalAsSum ==
  ASSUME NEW n \in Nat, NEW f, DOMAIN f = 1 .. n, \A i \in 1 .. n : f[i] \in Nat
  PROVE  /\ Total(f) = SumTo(f, n)
         /\ Total(f) \in Nat
         /\ \A i \in 1 .. n : f[i] <= Total(f)
<1>1. Len(f) = n
  OBVIOUS
<1>2. SumTo(f, n) \in Nat
  BY SumNat
<1>3. \A i \in 1 .. n : f[i] <= SumTo(f, n)
  BY SumElement
<1> QED
  BY <1>1, <1>2, <1>3 DEF Total

-----------------------------------------------------------------------------
(* Division. *)

(***************************************************************************)
(* Multiplication is monotonic.                                            *)
(***************************************************************************)
LEMMA TimesMonotonic ==
  ASSUME NEW a \in Nat, NEW b \in Nat, NEW k \in Nat, a <= b
  PROVE  a * k <= b * k
<1>1. PICK c \in Nat : b = a + c
  <2>1. b - a \in Nat /\ b = a + (b - a)
    OBVIOUS
  <2> QED
    BY <2>1
<1>2. b * k = a * k + c * k /\ c * k \in Nat /\ a * k \in Nat
  BY <1>1
<1> QED
  BY <1>2

\* A positive factor can be cancelled.
LEMMA TimesCancel ==
  ASSUME NEW a \in Nat, NEW b \in Nat, NEW k \in Nat \ {0}, a * k <= b * k
  PROVE  a <= b
<1> SUFFICES ASSUME b + 1 <= a
             PROVE  FALSE
  OBVIOUS
<1>1. (b + 1) * k <= a * k
  BY TimesMonotonic
<1>2. (b + 1) * k = b * k + k /\ a * k \in Nat /\ b * k \in Nat
  OBVIOUS
<1> QED
  BY <1>1, <1>2

\* The numbers \div and % yield.
LEMMA DivModInt ==
  ASSUME NEW x \in Int, NEW k \in Int, k > 0
  PROVE  x = k * (x \div k) + (x % k)
OBVIOUS

(***************************************************************************)
(* Quotient and remainder.                                                 *)
(***************************************************************************)
LEMMA DivMod ==
  ASSUME NEW x \in Nat, NEW k \in Nat \ {0}
  PROVE  /\ x \div k \in Nat
         /\ x % k \in 0 .. k - 1
         /\ x = (x \div k) * k + (x % k)
<1>1. x \in Int /\ k \in Int /\ k > 0
  OBVIOUS
<1>2. x \div k \in Nat
  OBVIOUS
<1>3. x % k \in 0 .. k - 1
  OBVIOUS
<1>4. x = k * (x \div k) + (x % k)
  BY <1>1, DivModInt
<1>5. \A a, b \in Nat : a * b = b * a
  OBVIOUS
<1>6. k * (x \div k) = (x \div k) * k
  BY <1>2, <1>5
<1> QED
  BY <1>2, <1>3, <1>4, <1>6

(***************************************************************************)
(* They are unique.                                                        *)
(***************************************************************************)
LEMMA DivUnique ==
  ASSUME NEW p \in Nat, NEW k \in Nat \ {0}, NEW i \in 0 .. k - 1
  PROVE  (p * k + i) \div k = p /\ (p * k + i) % k = i
<1> DEFINE x == p * k + i
           q == x \div k
           r == x % k
<1>1. x \in Nat /\ p * k \in Nat
  OBVIOUS
<1>2. q \in Nat /\ r \in 0 .. k - 1 /\ x = q * k + r
  BY <1>1, DivMod, Zenon
<1> HIDE DEF q, r
<1>3. ~(p + 1 <= q)
  <2> SUFFICES ASSUME p + 1 <= q
               PROVE  FALSE
    OBVIOUS
  <2>1. (p + 1) * k <= q * k
    BY <1>2, TimesMonotonic
  <2>2. (p + 1) * k = p * k + k
    OBVIOUS
  <2>3. q * k \in Nat
    BY <1>2
  <2> QED
    BY <1>1, <1>2, <2>1, <2>2, <2>3
<1>4. ~(q + 1 <= p)
  <2> SUFFICES ASSUME q + 1 <= p
               PROVE  FALSE
    OBVIOUS
  <2>1. (q + 1) * k <= p * k
    BY <1>2, TimesMonotonic
  <2>2. (q + 1) * k = q * k + k
    BY <1>2
  <2>3. q * k \in Nat
    BY <1>2
  <2> QED
    BY <1>1, <1>2, <2>1, <2>2, <2>3
<1>5. p = q
  BY <1>2, <1>3, <1>4
<1>6. r = i
  BY <1>1, <1>2, <1>5
<1> QED
  BY <1>5, <1>6 DEF q, r

(***************************************************************************)
(* Division is monotonic.                                                  *)
(***************************************************************************)
LEMMA DivMonotonic ==
  ASSUME NEW x \in Nat, NEW y \in Nat, NEW k \in Nat \ {0}, x <= y
  PROVE  x \div k <= y \div k
<1> DEFINE q == x \div k
           r == y \div k
<1>1. q \in Nat /\ r \in Nat /\ q * k <= x /\ y < (r + 1) * k
  <2>1. /\ x \div k \in Nat /\ x % k \in 0 .. k - 1 /\ x = (x \div k) * k + (x % k)
        /\ y \div k \in Nat /\ y % k \in 0 .. k - 1 /\ y = (y \div k) * k + (y % k)
    BY DivMod
  <2>2. \A n \in Nat : n * k \in Nat /\ (n + 1) * k = n * k + k
    OBVIOUS
  <2> QED
    BY <2>1, <2>2
<1> HIDE DEF q, r
<1>2. ~(r + 1 <= q)
  <2> SUFFICES ASSUME r + 1 <= q
               PROVE  FALSE
    OBVIOUS
  <2>1. (r + 1) * k <= q * k
    BY <1>1, TimesMonotonic
  <2>2. q * k \in Nat /\ (r + 1) * k \in Nat
    BY <1>1
  <2> QED
    BY <1>1, <2>1, <2>2
<1>3. q <= r
  BY <1>1, <1>2
<1> QED
  BY <1>3 DEF q, r

-----------------------------------------------------------------------------
(* Rounding. *)

\* Multiples of m: between two of them there is at least m.
LEMMA Multiples ==
  ASSUME NEW a \in Nat, NEW b \in Nat, NEW m \in Nat \ {0}, a < b
  PROVE  a * m + m <= b * m
<1>1. (a + 1) * m <= b * m
  BY TimesMonotonic
<1>2. (a + 1) * m = a * m + m
  OBVIOUS
<1> QED
  BY <1>1, <1>2

\* The products and quotients of natural numbers that the proofs talk about.
LEMMA TimesNat ==
  ASSUME NEW a \in Nat, NEW b \in Nat
  PROVE  a * b \in Nat
OBVIOUS

\* One more b, as the records of a stream add their bits.
LEMMA TimesSuccessor ==
  ASSUME NEW a \in Nat, NEW b \in Nat
  PROVE  (a + 1) * b = a * b + b
OBVIOUS

\* A multiple of m and another one make a multiple of m.
LEMMA AddMultiple ==
  ASSUME NEW a \in Nat, NEW k \in Nat, NEW m \in Nat \ {0}, a % m = 0
  PROVE  (a + k * m) % m = 0
<1> DEFINE q == a \div m
<1>1. q \in Nat /\ a = q * m + 0
  BY DivMod
<1> HIDE DEF q
<1>2. a + k * m = (q + k) * m + 0
  BY <1>1
<1>3. q + k \in Nat /\ 0 \in 0 .. m - 1
  BY <1>1
<1>4. ((q + k) * m + 0) % m = 0
  BY <1>3, DivUnique
<1> QED
  BY <1>2, <1>4

\* RoundUp yields the multiple of m that is not below n by less than m.
LEMMA RoundUpBounds ==
  ASSUME NEW n \in Nat, NEW m \in Nat \ {0}
  PROVE  /\ RoundUp(n, m) \in Nat
         /\ RoundUp(n, m) % m = 0
         /\ n <= RoundUp(n, m)
         /\ RoundUp(n, m) <= n + (m - 1)
         /\ \E q \in Nat : RoundUp(n, m) = q * m
<1> DEFINE x == n + (m - 1)
           q == x \div m
<1>1. x \in Nat
  OBVIOUS
<1>2. q \in Nat /\ x % m \in 0 .. m - 1 /\ x = q * m + (x % m)
  BY <1>1, DivMod, Zenon
<1>3. RoundUp(n, m) = q * m
  BY DEF RoundUp
<1>4. q * m \in Nat
  BY <1>2
<1> HIDE DEF q
<1>5. (q * m) % m = 0
  <2>1. 0 \in 0 .. m - 1
    OBVIOUS
  <2>2. (q * m + 0) % m = 0
    BY <1>2, <2>1, DivUnique, Zenon
  <2>3. q * m + 0 = q * m
    BY <1>4
  <2> QED
    BY <2>2, <2>3
<1>6. n <= q * m /\ q * m <= n + (m - 1)
  BY <1>2, <1>4 DEF x
<1> QED
  BY <1>2, <1>3, <1>4, <1>5, <1>6

\* ... and no multiple of m from n on is less.
LEMMA RoundUpLeast ==
  ASSUME NEW n \in Nat, NEW m \in Nat \ {0}, NEW e \in Nat, e % m = 0, n <= e
  PROVE  RoundUp(n, m) <= e
<1>1. PICK q \in Nat : RoundUp(n, m) = q * m
  BY RoundUpBounds, Zenon
<1>2. q * m \in Nat /\ q * m <= n + (m - 1)
  BY <1>1, RoundUpBounds
<1> DEFINE p == e \div m
<1>3. p \in Nat /\ e = p * m /\ p * m \in Nat
  BY DivMod
<1> HIDE DEF p
<1>4. ~(p < q)
  <2> SUFFICES ASSUME p < q
               PROVE  FALSE
    OBVIOUS
  <2>1. p * m + m <= q * m
    BY <1>3, Multiples
  <2> QED
    BY <1>2, <1>3, <2>1
<1>5. q * m <= p * m
  BY <1>3, <1>4, TimesMonotonic
<1> QED
  BY <1>1, <1>3, <1>5

\* A multiple of m, and anything else, rounded.
LEMMA RoundUpExact ==
  ASSUME NEW q \in Nat, NEW m \in Nat \ {0}, NEW i \in 0 .. m - 1
  PROVE  RoundUp(q * m + i, m) = (IF i = 0 THEN q ELSE q + 1) * m
<1>1. q * m \in Nat /\ (q + 1) * m = q * m + m
  OBVIOUS
<1>2. CASE i = 0
  <2>1. (q * m + i) + m - 1 = q * m + (m - 1) /\ m - 1 \in 0 .. m - 1
    BY <1>1, <1>2
  <2>2. (q * m + (m - 1)) \div m = q
    BY <2>1, DivUnique
  <2> QED
    BY <1>2, <2>1, <2>2 DEF RoundUp
<1>3. CASE i # 0
  <2>1. (q * m + i) + m - 1 = (q + 1) * m + (i - 1) /\ i - 1 \in 0 .. m - 1
    BY <1>1, <1>3
  <2>2. ((q + 1) * m + (i - 1)) \div m = q + 1
    BY <2>1, DivUnique
  <2> QED
    BY <1>3, <2>1, <2>2 DEF RoundUp
<1> QED
  BY <1>2, <1>3

\* The lesser of two numbers is one of them and at most the other.
LEMMA LesserBounds ==
  ASSUME NEW a \in Int, NEW b \in Int
  PROVE  /\ Lesser(a, b) \in {a, b}
         /\ Lesser(a, b) <= a
         /\ Lesser(a, b) <= b
BY DEF Lesser
=============================================================================
