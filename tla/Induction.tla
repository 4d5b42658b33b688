------------------------------ MODULE Induction ------------------------------
(***************************************************************************)
(* Induction on the naturals, stated of sets instead of predicates so that *)
(* a proof can use it by naming the set {n \in Nat : P(n)}, and what it    *)
(* gives for sequences in increasing order.                                *)
(***************************************************************************)
EXTENDS Integers, FiniteSetTheorems, WellFoundedInduction, TLAPS

\* A set of naturals that is not empty has a least element.
LEMMA Least ==
    ASSUME NEW T, T \subseteq Nat, T # {}
    PROVE  \E x \in T : \A y \in T : x <= y
<1> DEFINE R == OpToRel(<, Nat)
<1>1. \A x, y \in Nat : <<x, y>> \in R <=> x < y
  BY DEF OpToRel
<1>2. IsWellFoundedOn(R, Nat)
  BY NatLessThanWellFounded
<1> HIDE DEF R
<1>3. PICK x \in T : \A y \in T : ~ (<<y, x>> \in R)
  BY <1>2, WFMin
<1>4. x \in Nat /\ \A y \in T : y \in Nat
  OBVIOUS
<1>5. \A y \in T : ~ (y < x)
  BY <1>1, <1>3, <1>4
<1>6. \A y \in T : x <= y
  BY <1>4, <1>5
<1>7. QED BY <1>6

\* A set of naturals that has 0 and with n also n + 1 is the set of all.
LEMMA SetInduction ==
    ASSUME NEW S, 0 \in S, \A n \in Nat : n \in S => n + 1 \in S
    PROVE  \A n \in Nat : n \in S
<1> SUFFICES ASSUME Nat \ S # {} PROVE FALSE
  OBVIOUS
<1>1. PICK x \in Nat \ S : \A y \in Nat \ S : x <= y
  BY Least
<1>2. x # 0 /\ x - 1 \in Nat
  BY <1>1
<1>3. x - 1 \in S
  BY <1>1, <1>2
<1>4. QED BY <1>1, <1>2, <1>3

\* The same with all smaller numbers at hand.
LEMMA SetStrongInduction ==
    ASSUME NEW S, \A n \in Nat : (\A m \in Nat : m < n => m \in S) => n \in S
    PROVE  \A n \in Nat : n \in S
<1> SUFFICES ASSUME Nat \ S # {} PROVE FALSE
  OBVIOUS
<1>1. PICK x \in Nat \ S : \A y \in Nat \ S : x <= y
  BY Least
<1>2. \A m \in Nat : m < x => m \in S
  BY <1>1
<1>3. QED BY <1>1, <1>2

\* h builds a function on the naturals up to n from its value e at zero.
Builds(f, n, e, h) == f[0] = e /\ \A k \in 0..(n - 1) : f[k + 1] = h[k][f[k]]

\* h is a step within S, and f what it builds on the naturals.
Steps(h, S) == \A k \in Nat, x \in S : h[k][x] \in S
Built(f, e, h) == f[0] = e /\ \A k \in Nat : f[k + 1] = h[k][f[k]]

\* A function on the naturals can be defined by its value at zero and a step.
LEMMA Recursion ==
    ASSUME NEW S, NEW e, NEW h, e \in S, Steps(h, S)
    PROVE  \E f : f \in [Nat -> S] /\ Built(f, e, h)
<1> DEFINE N == {n \in Nat : \E f \in [0..n -> S] : Builds(f, n, e, h)}
<1>1. \A n \in Nat : n \in N
  <2>1. 0 \in N
    <3>1. [k \in 0..0 |-> e] \in [0..0 -> S] /\ Builds([k \in 0..0 |-> e], 0, e, h)
      BY DEF Builds
    <3>2. QED BY <3>1
  <2>2. ASSUME NEW n \in Nat, n \in N PROVE n + 1 \in N
    <3>1. PICK f \in [0..n -> S] : Builds(f, n, e, h)
      BY <2>2
    <3>2. PICK x : x = h[n][f[n]] /\ x \in S
      BY DEF Steps
    <3>3. PICK g : g = [k \in 0..(n + 1) |-> IF k <= n THEN f[k] ELSE x]
      OBVIOUS
    <3>4. g \in [0..(n + 1) -> S] /\ g[n + 1] = x /\ \A k \in 0..n : g[k] = f[k]
      BY <3>2, <3>3
    <3>5. ASSUME NEW k \in 0..n PROVE g[k + 1] = h[k][g[k]]
      <4>1. CASE k = n
        BY <3>2, <3>4, <4>1
      <4>2. CASE k # n
        <5>1. k \in 0..(n - 1) /\ k + 1 \in 0..n
          BY <4>2
        <5>2. f[k + 1] = h[k][f[k]]
          BY <3>1, <5>1 DEF Builds
        <5>3. QED BY <3>4, <5>1, <5>2
      <4>3. QED BY <4>1, <4>2
    <3>6. Builds(g, n + 1, e, h)
      BY <3>1, <3>4, <3>5 DEF Builds
    <3>7. QED BY <3>4, <3>6
  <2> HIDE DEF N
  <2>3. QED BY <2>1, <2>2, SetInduction
<1>2. ASSUME NEW n \in Nat, NEW m \in Nat, NEW f, NEW g, Builds(f, n, e, h), Builds(g, m, e, h)
      PROVE  \A k \in Nat : k <= n /\ k <= m => f[k] = g[k]
  <2> DEFINE A == {k \in Nat : k <= n /\ k <= m => f[k] = g[k]}
  <2>1. 0 \in A
    BY <1>2 DEF Builds
  <2>2. ASSUME NEW k \in Nat, k \in A PROVE k + 1 \in A
    <3> SUFFICES ASSUME k + 1 <= n, k + 1 <= m PROVE f[k + 1] = g[k + 1]
      OBVIOUS
    <3>1. f[k] = g[k] /\ k \in 0..(n - 1) /\ k \in 0..(m - 1)
      BY <2>2
    <3>2. QED BY <1>2, <3>1 DEF Builds
  <2>3. \A k \in Nat : k \in A
    <3> HIDE DEF A
    <3>1. QED BY <2>1, <2>2, SetInduction
  <2>4. QED BY <2>3
<1> DEFINE at(n) == CHOOSE f : f \in [0..n -> S] /\ Builds(f, n, e, h)
<1>3. \A n \in Nat : at(n) \in [0..n -> S] /\ Builds(at(n), n, e, h)
  BY <1>1
<1> HIDE DEF at
<1>4. PICK F : F = [k \in Nat |-> at(k)[k]]
  OBVIOUS
<1>5. F \in [Nat -> S]
  <2>1. \A k \in Nat : at(k)[k] \in S
    BY <1>3
  <2>2. QED BY <1>4, <2>1
<1>6. F[0] = e
  BY <1>3, <1>4 DEF Builds
<1>7. ASSUME NEW k \in Nat PROVE F[k + 1] = h[k][F[k]]
  <2>1. PICK f, g : f = at(k) /\ g = at(k + 1)
    OBVIOUS
  <2>2. Builds(f, k, e, h) /\ Builds(g, k + 1, e, h)
    BY <1>3, <2>1
  <2>3. f[k] = g[k]
    BY <1>2, <2>2
  <2>4. g[k + 1] = h[k][g[k]]
    BY <2>2 DEF Builds
  <2>5. F[k] = f[k] /\ F[k + 1] = g[k + 1]
    BY <1>4, <2>1
  <2>6. QED BY <2>3, <2>4, <2>5
<1>8. QED BY <1>5, <1>6, <1>7 DEF Built

\* Elements in increasing order of a key.
Increasing(s, n, key) == \A k, l \in 1..n : k < l => key[s[k]] < key[s[l]]

\* Every element of the first sequence is one of the second.
AllIn(s, m, t, n) == \A k \in 1..m : \E l \in 1..n : s[k] = t[l]

\* Two sequences that list the same elements in increasing order are the same.
LEMMA OneOrder ==
    ASSUME NEW s, NEW m \in Nat, NEW t, NEW n \in Nat, NEW key,
           \A k \in 1..m : key[s[k]] \in Int, \A k \in 1..n : key[t[k]] \in Int,
           Increasing(s, m, key), Increasing(t, n, key),
           AllIn(s, m, t, n), AllIn(t, n, s, m)
    PROVE  m = n /\ \A k \in 1..m : s[k] = t[k]
<1> DEFINE S == {k \in Nat : (k \in 1..m <=> k \in 1..n) /\ (k \in 1..m => s[k] = t[k])}
<1>1. ASSUME NEW k \in Nat, \A j \in Nat : j < k => j \in S
      PROVE  k \in S
  <2>1. CASE k \in 1..m
    <3>1. PICK l \in 1..n : s[k] = t[l]
      BY <2>1 DEF AllIn
    <3>2. ~(l < k)
      <4> SUFFICES ASSUME l < k PROVE FALSE
        OBVIOUS
      <4>1. l \in 1..m /\ s[l] = t[l]
        BY <1>1
      <4>2. key[s[l]] < key[s[k]]
        BY <2>1, <4>1 DEF Increasing
      <4>3. QED BY <2>1, <3>1, <4>1, <4>2
    <3>3. k \in 1..n /\ k <= l
      BY <2>1, <3>2
    <3>4. ~(k < l)
      <4> SUFFICES ASSUME k < l PROVE FALSE
        OBVIOUS
      <4>1. PICK j \in 1..m : t[k] = s[j]
        BY <3>3 DEF AllIn
      <4>2. key[t[k]] < key[t[l]]
        BY <3>3 DEF Increasing
      <4>3. CASE j < k
        <5>1. j \in 1..n /\ s[j] = t[j]
          BY <1>1, <4>3
        <5>2. key[t[j]] < key[t[k]]
          BY <3>3, <4>3, <5>1 DEF Increasing
        <5>3. QED BY <3>3, <4>1, <5>1, <5>2
      <4>4. CASE j = k
        BY <2>1, <3>1, <4>1, <4>2, <4>4
      <4>5. CASE k < j
        <5>1. key[s[k]] < key[s[j]]
          BY <2>1, <4>5 DEF Increasing
        <5>2. QED BY <2>1, <3>1, <4>1, <4>2, <5>1
      <4>6. QED BY <4>3, <4>4, <4>5
    <3>5. k = l
      BY <3>3, <3>4
    <3>6. QED BY <2>1, <3>1, <3>3, <3>5
  <2>2. CASE k \in 1..n /\ k \notin 1..m
    <3>1. PICK j \in 1..m : t[k] = s[j]
      BY <2>2 DEF AllIn
    <3>2. j < k
      BY <2>2
    <3>3. j \in 1..n /\ s[j] = t[j]
      BY <1>1, <3>2
    <3>4. key[t[j]] < key[t[k]]
      BY <2>2, <3>2, <3>3 DEF Increasing
    <3>5. QED BY <2>2, <3>1, <3>3, <3>4
  <2>3. QED BY <2>1, <2>2
<1>2. \A k \in Nat : k \in S
  <2> HIDE DEF S
  <2>1. QED BY <1>1, SetStrongInduction
<1>3. \A k \in Nat : k \in 1..m <=> k \in 1..n
  BY <1>2
<1>4. m = n
  <2>1. m > 0 => m \in 1..n
    BY <1>3
  <2>2. n > 0 => n \in 1..m
    BY <1>3
  <2>3. QED BY <2>1, <2>2
<1>5. QED BY <1>2, <1>4

\* f tells the elements of one sequence from those of another.
Tells(f, s, m, t, n) == \A k \in 1..m, l \in 1..n : f[s[k]] = f[t[l]] => s[k] = t[l]

\* s lists numbers in increasing order, fs their images under f.
Members(f, s, m, fs) ==
    /\ m \in Nat
    /\ \A k \in 1..m : s[k] \in Nat /\ fs[k] = f[s[k]]
    /\ \A k, l \in 1..m : k < l => s[k] < s[l]

\* a and s list labels, in increasing order of their first parts, and what is
\* labelled, p each label with the image of what it labels.
Fields(f, a, s, m, p) ==
    /\ m \in Nat
    /\ \A k \in 1..m : a[k][1] \in Int /\ p[k] = <<a[k], f[s[k]]>>
    /\ \A k, l \in 1..m : k < l => a[k][1] < a[l][1]

\* Members in increasing order are determined by the set of their images under
\* a function that tells them apart.
LEMMA SumDetermined ==
    ASSUME NEW f, NEW s, NEW m, NEW fs, NEW t, NEW n, NEW ft,
           Members(f, s, m, fs), Members(f, t, n, ft), Tells(f, s, m, t, n),
           AllIn(fs, m, ft, n), AllIn(ft, n, fs, m)
    PROVE  m = n /\ \A k \in 1..m : s[k] = t[k]
<1> USE DEF Members, Tells
<1> DEFINE key == [x \in Nat |-> x]
<1>1. /\ \A k \in 1..m : key[s[k]] \in Int /\ key[s[k]] = s[k]
      /\ \A k \in 1..n : key[t[k]] \in Int /\ key[t[k]] = t[k]
  OBVIOUS
<1> HIDE DEF key
<1>2. AllIn(s, m, t, n)
  <2> SUFFICES ASSUME NEW k \in 1..m PROVE \E l \in 1..n : s[k] = t[l]
    BY DEF AllIn
  <2>1. PICK l \in 1..n : fs[k] = ft[l]
    BY DEF AllIn
  <2>2. QED BY <2>1
<1>3. AllIn(t, n, s, m)
  <2> SUFFICES ASSUME NEW l \in 1..n PROVE \E k \in 1..m : t[l] = s[k]
    BY DEF AllIn
  <2>1. PICK k \in 1..m : ft[l] = fs[k]
    BY DEF AllIn
  <2>2. f[s[k]] = f[t[l]]
    BY <2>1
  <2>3. QED BY <2>2
<1>4. Increasing(s, m, key) /\ Increasing(t, n, key)
  BY <1>1, Zenon DEF Increasing
<1>5. (\A k \in 1..m : key[s[k]] \in Int) /\ (\A k \in 1..n : key[t[k]] \in Int)
  BY <1>1, Zenon
<1>6. QED BY <1>2, <1>3, <1>4, <1>5, OneOrder

\* Pairs in increasing order of their labels are determined by the set of the
\* labels with the images.
LEMMA ObjectDetermined ==
    ASSUME NEW f, NEW a, NEW s, NEW m, NEW p, NEW b, NEW t, NEW n, NEW q,
           Fields(f, a, s, m, p), Fields(f, b, t, n, q), Tells(f, s, m, t, n),
           AllIn(p, m, q, n), AllIn(q, n, p, m)
    PROVE  m = n /\ \A k \in 1..m : a[k] = b[k] /\ s[k] = t[k]
<1> USE DEF Fields, Tells
<1> DEFINE key == [x \in {p[k] : k \in 1..m} \cup {q[k] : k \in 1..n} |-> x[1][1]]
<1>1. /\ \A k \in 1..m : key[p[k]] = p[k][1][1]
      /\ \A k \in 1..n : key[q[k]] = q[k][1][1]
  OBVIOUS
<1> HIDE DEF key
<1>2. /\ \A k \in 1..m : key[p[k]] = a[k][1]
      /\ \A k \in 1..n : key[q[k]] = b[k][1]
  BY <1>1
<1>3. Increasing(p, m, key) /\ Increasing(q, n, key)
  BY <1>2, Zenon DEF Increasing
<1>4. (\A k \in 1..m : key[p[k]] \in Int) /\ (\A k \in 1..n : key[q[k]] \in Int)
  BY <1>2, Zenon
<1>5. m = n /\ \A k \in 1..m : p[k] = q[k]
  BY <1>3, <1>4, OneOrder
<1>6. \A k \in 1..m : a[k] = b[k] /\ f[s[k]] = f[t[k]]
  BY <1>5
<1>7. QED BY <1>5, <1>6

\* R orders K: of two elements one is before the other, and before is transitive.
Orders(R, K) ==
    /\ \A x \in K, y \in K : x # y => <<x, y>> \in R \/ <<y, x>> \in R
    /\ \A x \in K, y \in K, z \in K : <<x, y>> \in R /\ <<y, z>> \in R => <<x, z>> \in R

\* f lists the n elements of K in the order R.
InOrder(f, n, K, R) ==
    /\ f \in [1..n -> K]
    /\ \A k \in K : \E i \in 1..n : f[i] = k
    /\ \A i, j \in 1..n : i < j => <<f[i], f[j]>> \in R

\* A finite set that is not empty and is ordered has a last element.
LEMMA LastElement ==
    ASSUME NEW K, IsFiniteSet(K), NEW R, Orders(R, K), K # {}
    PROVE  \E m \in K : \A k \in K : k # m => <<k, m>> \in R
<1> DEFINE Last(T) == \E m \in T : \A k \in T : k # m => <<k, m>> \in R
           S == {n \in Nat : \A T \in SUBSET K :
                    IsFiniteSet(T) /\ T # {} /\ Cardinality(T) = n => Last(T)}
<1>1. 0 \in S
  BY FS_EmptySet
<1>2. ASSUME NEW n \in Nat, n \in S
      PROVE  n + 1 \in S
  <2> SUFFICES ASSUME NEW T \in SUBSET K, IsFiniteSet(T), T # {}, Cardinality(T) = n + 1
               PROVE  Last(T)
    OBVIOUS
  <2>1. PICK x : x \in T
    OBVIOUS
  <2> DEFINE U == T \ {x}
  <2>2. IsFiniteSet(U) /\ Cardinality(U) = n /\ U \in SUBSET K
    <3>1. IsFiniteSet(U) /\ Cardinality(U) = Cardinality(T) - 1
      BY <2>1, FS_RemoveElement
    <3>2. QED BY <3>1
  <2>3. CASE U = {}
    BY <2>1, <2>3
  <2>4. CASE U # {}
    <3>1. Last(U)
      BY <1>2, <2>2, <2>4
    <3>2. PICK m \in U : \A k \in U : k # m => <<k, m>> \in R
      BY <3>1
    <3>3. m \in T /\ m \in K /\ x \in K /\ m # x
      BY <2>1
    <3>4. CASE <<x, m>> \in R
      BY <3>2, <3>3, <3>4
    <3>5. CASE <<m, x>> \in R
      <4>1. \A k \in T : k # x => <<k, x>> \in R
        BY <3>2, <3>3, <3>5 DEF Orders
      <4>2. QED BY <2>1, <4>1
    <3>6. QED BY <3>3, <3>4, <3>5 DEF Orders
  <2>5. QED BY <2>3, <2>4
<1>3. \A n \in Nat : n \in S
  <2> HIDE DEF S
  <2>1. QED BY <1>1, <1>2, SetInduction
<1>4. Cardinality(K) \in Nat
  BY FS_CardinalityType
<1>5. QED BY <1>3, <1>4

\* A finite set that is ordered can be listed in order.
LEMMA Listed ==
    ASSUME NEW K, IsFiniteSet(K), NEW R, Orders(R, K)
    PROVE  /\ Cardinality(K) \in Nat
           /\ \E f : InOrder(f, Cardinality(K), K, R)
<1> DEFINE S == {n \in Nat : \A T \in SUBSET K :
                    IsFiniteSet(T) /\ Cardinality(T) = n => \E f : InOrder(f, n, T, R)}
<1>1. 0 \in S
  <2> SUFFICES ASSUME NEW T \in SUBSET K, IsFiniteSet(T), Cardinality(T) = 0
               PROVE  \E f : InOrder(f, 0, T, R)
    OBVIOUS
  <2>1. T = {}
    BY FS_EmptySet
  <2>2. InOrder([i \in 1..0 |-> 0], 0, T, R)
    BY <2>1 DEF InOrder
  <2>3. QED BY <2>2
<1>2. ASSUME NEW n \in Nat, n \in S
      PROVE  n + 1 \in S
  <2> SUFFICES ASSUME NEW T \in SUBSET K, IsFiniteSet(T), Cardinality(T) = n + 1
               PROVE  \E f : InOrder(f, n + 1, T, R)
    OBVIOUS
  <2>1. T # {} /\ Orders(R, T)
    BY FS_EmptySet DEF Orders
  <2>2. PICK m \in T : \A k \in T : k # m => <<k, m>> \in R
    BY <2>1, LastElement
  <2> DEFINE U == T \ {m}
  <2>3. IsFiniteSet(U) /\ Cardinality(U) = n /\ U \in SUBSET K
    <3>1. IsFiniteSet(U) /\ Cardinality(U) = Cardinality(T) - 1
      BY FS_RemoveElement
    <3>2. QED BY <3>1
  <2>4. PICK f : InOrder(f, n, U, R)
    BY <1>2, <2>3
  <2> DEFINE g == [i \in 1..(n + 1) |-> IF i = n + 1 THEN m ELSE f[i]]
  <2>5. \A i \in 1..n : f[i] \in U /\ g[i] = f[i]
    BY <2>4 DEF InOrder
  <2>6. g[n + 1] = m
    OBVIOUS
  <2>7. g \in [1..(n + 1) -> T]
    <3>1. \A i \in 1..(n + 1) : i # n + 1 => i \in 1..n
      OBVIOUS
    <3> HIDE DEF U
    <3>2. U \subseteq T
      BY DEF U
    <3>3. \A i \in 1..(n + 1) : (IF i = n + 1 THEN m ELSE f[i]) \in T
      BY <2>5, <3>1, <3>2, Zenon
    <3>4. QED BY <3>3, Zenon
  <2> HIDE DEF g
  <2>8. ASSUME NEW k \in T PROVE \E i \in 1..(n + 1) : g[i] = k
    <3>1. CASE k = m
      BY <2>6, <3>1
    <3>2. CASE k \in U
      <4>1. PICK i \in 1..n : f[i] = k
        BY <2>4, <3>2 DEF InOrder
      <4>2. i \in 1..(n + 1) /\ g[i] = k
        BY <2>5, <4>1
      <4>3. QED BY <4>2
    <3>3. QED BY <3>1, <3>2
  <2>9. ASSUME NEW i \in 1..(n + 1), NEW j \in 1..(n + 1), i < j
        PROVE  <<g[i], g[j]>> \in R
    <3>1. i \in 1..n
      BY <2>9
    <3>2. CASE j = n + 1
      BY <2>2, <2>5, <2>6, <3>1, <3>2
    <3>3. CASE j \in 1..n
      <4>1. <<f[i], f[j]>> \in R
        BY <2>4, <2>9, <3>1, <3>3 DEF InOrder
      <4>2. QED BY <2>5, <3>1, <3>3, <4>1
    <3>4. QED BY <3>2, <3>3
  <2>10. InOrder(g, n + 1, T, R)
    BY <2>7, <2>8, <2>9 DEF InOrder
  <2>11. QED BY <2>10
<1>3. \A n \in Nat : n \in S
  <2> HIDE DEF S
  <2>1. QED BY <1>1, <1>2, SetInduction
<1>4. Cardinality(K) \in Nat
  BY FS_CardinalityType
<1>5. QED BY <1>3, <1>4

(***************************************************************************)
(* Sorting: a family of numbers has one sorted listing.                    *)
(***************************************************************************)
\* Distinct f, of the positions 1..n to themselves.
Permutes(f, n) == f \in [1..n -> 1..n] /\ \A k, l \in 1..n : k # l => f[k] # f[l]

\* f takes the numbers of one interval to numbers of another.
Into(f, a, b, c, d) == \A k \in a..b : f[k] \in c..d

\* f takes two numbers of the interval to one.
Twice(f, a, b) == \E k, l \in a..b : k < l /\ f[k] = f[l]

\* s is n numbers that never decrease.
Rising(s, n) ==
    /\ \A k \in 1..n : s[k] \in Int
    /\ \A k, l \in 1..n : k < l => s[k] <= s[l]

\* s is the family w in the order a.
Reorders(s, w, a, n) == \A k \in 1..n : s[k] = w[a[k]]

\* Distinct numbers from one interval to another do not fit into a smaller one.
LEMMA TooMany ==
    ASSUME NEW f, NEW a \in Int, NEW b \in Int, NEW c \in Int, NEW d \in Int,
           a <= b, d - c < b - a, Into(f, a, b, c, d)
    PROVE  Twice(f, a, b)
<1> DEFINE g == [k \in a..b |-> f[k]]
<1>1. g \in [a..b -> c..d]
  BY DEF Into
<1>2. /\ IsFiniteSet(a..b) /\ Cardinality(a..b) = b - a + 1
      /\ IsFiniteSet(c..d) /\ Cardinality(c..d) = IF c > d THEN 0 ELSE d - c + 1
  BY FS_Interval
<1>3. Cardinality(c..d) < Cardinality(a..b)
  BY <1>2
<1> HIDE DEF g
<1>4. \E k, l \in a..b : k # l /\ g[k] = g[l]
  BY <1>1, <1>2, <1>3, FS_PigeonHole
<1>5. PICK k \in a..b, l \in a..b : k # l /\ f[k] = f[l]
  BY <1>4 DEF g
<1>6. k < l \/ l < k
  BY <1>5
<1>7. QED BY <1>5, <1>6 DEF Twice

\* What is distinct everywhere is onto.
LEMMA PermutesOnto ==
    ASSUME NEW n \in Nat, NEW f, Permutes(f, n), NEW m \in 1..n
    PROVE  \E k \in 1..n : f[k] = m
<1> SUFFICES ASSUME \A k \in 1..n : f[k] # m PROVE FALSE
  OBVIOUS
<1> DEFINE g == [k \in 1..n |-> IF f[k] < m THEN f[k] ELSE f[k] - 1]
<1>1. \A k \in 1..n : f[k] \in 1..n /\ f[k] # m
  BY DEF Permutes
<1>2. \A k \in 1..n : g[k] \in 1..(n - 1)
  BY <1>1
<1>3. \A k, l \in 1..n : g[k] = g[l] => f[k] = f[l]
  BY <1>1
<1> HIDE DEF g
<1>4. \E k, l \in 1..n : k < l /\ g[k] = g[l]
  <2>1. PICK a \in Int, b \in Int, d \in Int : a = 1 /\ b = n /\ d = n - 1
    OBVIOUS
  <2>2. a <= b /\ d - a < b - a /\ Into(g, a, b, a, d)
    BY <1>2, <2>1 DEF Into
  <2>3. Twice(g, a, b)
    BY <2>2, TooMany
  <2>4. QED BY <2>1, <2>3 DEF Twice
<1>5. QED BY <1>3, <1>4 DEF Permutes

\* Sorted listings of the same numbers are the same.
LEMMA SortedOnce ==
    ASSUME NEW n \in Nat, NEW s, NEW t, NEW p, Permutes(p, n),
           Rising(s, n), Rising(t, n), Reorders(t, s, p, n)
    PROVE  \A k \in 1..n : s[k] = t[k]
<1> SUFFICES ASSUME NEW k \in 1..n PROVE s[k] = t[k]
  OBVIOUS
<1>1. \A j \in 1..n : p[j] \in 1..n
  BY DEF Permutes
<1>2. s[k] <= t[k]
  <2>1. \E j \in 1..k : p[j] >= k
    <3> SUFFICES ASSUME \A j \in 1..k : p[j] < k PROVE FALSE
      BY <1>1
    <3>1. PICK a \in Int, b \in Int, d \in Int : a = 1 /\ b = k /\ d = k - 1
      OBVIOUS
    <3>2. a <= b /\ d - a < b - a /\ Into(p, a, b, a, d)
      BY <1>1, <3>1 DEF Into
    <3>3. PICK i \in a..b, j \in a..b : i < j /\ p[i] = p[j]
      BY <3>2, TooMany DEF Twice
    <3>4. i \in 1..n /\ j \in 1..n /\ i # j
      BY <3>1, <3>3
    <3>5. QED BY <3>3, <3>4 DEF Permutes
  <2>2. PICK j \in 1..n : j <= k /\ p[j] >= k
    BY <2>1
  <2>3. p[j] \in 1..n /\ t[j] = s[p[j]]
    BY <1>1, <2>2 DEF Reorders
  <2>5. s[k] <= s[p[j]] /\ t[j] <= t[k]
    BY <2>2, <2>3 DEF Rising
  <2>6. QED BY <2>3, <2>5 DEF Rising
<1>3. t[k] <= s[k]
  <2>1. \E j \in k..n : p[j] <= k
    <3> SUFFICES ASSUME \A j \in k..n : p[j] > k PROVE FALSE
      BY <1>1
    <3>1. PICK a \in Int, b \in Int, c \in Int : a = k /\ b = n /\ c = k + 1
      OBVIOUS
    <3>2. a <= b /\ b - c < b - a /\ Into(p, a, b, c, b)
      BY <1>1, <3>1 DEF Into
    <3>3. PICK i \in a..b, j \in a..b : i < j /\ p[i] = p[j]
      BY <3>2, TooMany DEF Twice
    <3>4. i \in 1..n /\ j \in 1..n /\ i # j
      BY <3>1, <3>3
    <3>5. QED BY <3>3, <3>4 DEF Permutes
  <2>2. PICK j \in 1..n : j >= k /\ p[j] <= k
    BY <2>1
  <2>3. p[j] \in 1..n /\ t[j] = s[p[j]]
    BY <1>1, <2>2 DEF Reorders
  <2>5. s[p[j]] <= s[k] /\ t[k] <= t[j]
    BY <2>2, <2>3 DEF Rising
  <2>6. QED BY <2>3, <2>5 DEF Rising
<1>4. s[k] \in Int /\ t[k] \in Int
  BY DEF Rising
<1>5. QED BY <1>2, <1>3, <1>4

\* The same for two sorted listings of one family of numbers.
LEMMA SortedAlike ==
    ASSUME NEW n \in Nat, NEW w, NEW s, NEW t, NEW a, NEW b, Permutes(a, n), Permutes(b, n),
           Rising(s, n), Rising(t, n), Reorders(s, w, a, n), Reorders(t, w, b, n)
    PROVE  \A k \in 1..n : s[k] = t[k]
<1> DEFINE p == [k \in 1..n |-> CHOOSE l \in 1..n : a[l] = b[k]]
<1>1. \A k \in 1..n : a[k] \in 1..n /\ b[k] \in 1..n
  BY DEF Permutes
<1>2. ASSUME NEW k \in 1..n PROVE \E l \in 1..n : a[l] = b[k]
  <2>1. PICK m \in 1..n : m = b[k]
    BY <1>1
  <2>2. \E l \in 1..n : a[l] = m
    BY PermutesOnto
  <2>3. QED BY <2>1, <2>2
<1>3. \A k \in 1..n : p[k] \in 1..n /\ a[p[k]] = b[k]
  BY <1>2
<1>4. p \in [1..n -> 1..n]
  BY <1>2
<1> HIDE DEF p
<1>5. Permutes(p, n)
  <2>1. ASSUME NEW k \in 1..n, NEW l \in 1..n, p[k] = p[l] PROVE k = l
    <3>1. b[k] = b[l]
      BY <1>3, <2>1
    <3>2. QED BY <3>1 DEF Permutes
  <2>2. QED BY <1>4, <2>1 DEF Permutes
<1>6. Reorders(t, s, p, n)
  BY <1>1, <1>3 DEF Reorders
<1>7. QED BY <1>5, <1>6, SortedOnce

\* Any family of numbers can be sorted.
LEMMA Sortable ==
    ASSUME NEW n \in Nat, NEW w, \A k \in 1..n : w[k] \in Int
    PROVE  \E a : Permutes(a, n) /\ \A k, l \in 1..n : k < l => w[a[k]] <= w[a[l]]
<1> DEFINE R == {x \in (1..n) \X (1..n) :
                    w[x[1]] < w[x[2]] \/ (w[x[1]] = w[x[2]] /\ x[1] < x[2])}
           K == 1..n
<1>1. \A k, l \in K : <<k, l>> \in R <=> w[k] < w[l] \/ (w[k] = w[l] /\ k < l)
  OBVIOUS
<1>2. IsFiniteSet(K) /\ Cardinality(K) = n
  BY FS_Interval
<1> HIDE DEF R
<1>3. Orders(R, K)
  BY <1>1 DEF Orders
<1> HIDE DEF K
<1>4. PICK a : InOrder(a, n, K, R)
  <2>1. \E a : InOrder(a, Cardinality(K), K, R)
    BY <1>2, <1>3, Listed
  <2>2. QED BY <1>2, <2>1
<1> USE DEF K
<1>5. \A k, l \in 1..n : k < l => a[k] \in K /\ a[l] \in K /\ <<a[k], a[l]>> \in R
  BY <1>4 DEF InOrder
<1>6. \A k, l \in 1..n : k < l => a[k] # a[l] /\ w[a[k]] <= w[a[l]]
  <2> SUFFICES ASSUME NEW k \in 1..n, NEW l \in 1..n, k < l
               PROVE  a[k] # a[l] /\ w[a[k]] <= w[a[l]]
    OBVIOUS
  <2>1. PICK i \in K, j \in K : i = a[k] /\ j = a[l] /\ <<i, j>> \in R
    BY <1>5
  <2>2. w[i] < w[j] \/ (w[i] = w[j] /\ i < j)
    BY <1>1, <2>1
  <2>3. i # j /\ w[i] <= w[j]
    BY <2>2
  <2>4. QED BY <2>1, <2>3
<1>7. Permutes(a, n)
  <2>1. ASSUME NEW k \in 1..n, NEW l \in 1..n, k # l PROVE a[k] # a[l]
    <3>1. k < l \/ l < k
      BY <2>1
    <3>2. QED BY <1>6, <3>1
  <2>2. a \in [1..n -> 1..n]
    BY <1>4 DEF InOrder
  <2>3. QED BY <2>1, <2>2 DEF Permutes
<1>8. QED BY <1>6, <1>7

\* Two families of distinct elements that list the same set are one family in
\* two orders.
Distinct(x, m) == \A k, l \in 1..m : k # l => x[k] # x[l]

LEMMA NotFewer ==
    ASSUME NEW x, NEW m \in Nat, NEW y, NEW n \in Nat, Distinct(x, m), AllIn(x, m, y, n)
    PROVE  m <= n
<1> SUFFICES ASSUME n < m PROVE FALSE
  OBVIOUS
<1> DEFINE f == [k \in 1..m |-> CHOOSE l \in 1..n : x[k] = y[l]]
<1>1. \A k \in 1..m : f[k] \in 1..n /\ x[k] = y[f[k]]
  BY DEF AllIn
<1> HIDE DEF f
<1>2. Into(f, 1, m, 1, n)
  BY <1>1 DEF Into
<1>3. Twice(f, 1, m)
  BY <1>2, TooMany
<1>4. QED BY <1>1, <1>3 DEF Twice, Distinct

LEMMA SetsPermute ==
    ASSUME NEW x, NEW m \in Nat, NEW y, NEW n \in Nat, Distinct(x, m), Distinct(y, n),
           AllIn(x, m, y, n), AllIn(y, n, x, m)
    PROVE  m = n /\ \E p : Permutes(p, n) /\ Reorders(y, x, p, n)
<1>1. m <= n /\ n <= m
  BY NotFewer
<1>2. m = n
  BY <1>1
<1> DEFINE p == [k \in 1..n |-> CHOOSE l \in 1..m : y[k] = x[l]]
<1>3. \A k \in 1..n : p[k] \in 1..n /\ y[k] = x[p[k]]
  BY <1>2 DEF AllIn
<1>4. p \in [1..n -> 1..n]
  BY <1>3
<1> HIDE DEF p
<1>5. \A k, l \in 1..n : k # l => p[k] # p[l]
  BY <1>3 DEF Distinct
<1>6. Permutes(p, n) /\ Reorders(y, x, p, n)
  BY <1>3, <1>4, <1>5 DEF Permutes, Reorders
<1>7. QED BY <1>2, <1>6

\* p lists pairs in increasing order of a, the first numbers of their labels.
Keyed(p, m, a) ==
    /\ m \in Nat
    /\ \A k \in 1..m : a[k] \in Int /\ p[k][1][1] = a[k]
    /\ \A k, l \in 1..m : k < l => a[k] < a[l]

LEMMA PairsAlike ==
    ASSUME NEW p, NEW m, NEW q, NEW n, NEW a, NEW b, Keyed(p, m, a), Keyed(q, n, b),
           AllIn(p, m, q, n), AllIn(q, n, p, m)
    PROVE  m = n /\ \A k \in 1..m : p[k] = q[k]
<1> USE DEF Keyed
<1> DEFINE key == [x \in {p[k] : k \in 1..m} \cup {q[k] : k \in 1..n} |-> x[1][1]]
<1>1. /\ \A k \in 1..m : key[p[k]] = a[k]
      /\ \A k \in 1..n : key[q[k]] = b[k]
  OBVIOUS
<1> HIDE DEF key
<1>2. Increasing(p, m, key) /\ Increasing(q, n, key)
  BY <1>1, Zenon DEF Increasing
<1>3. (\A k \in 1..m : key[p[k]] \in Int) /\ (\A k \in 1..n : key[q[k]] \in Int)
  BY <1>1, Zenon
<1>4. QED BY <1>2, <1>3, OneOrder
=============================================================================
