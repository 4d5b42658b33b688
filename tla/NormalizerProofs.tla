--------------------------- MODULE NormalizerProofs ---------------------------
(***************************************************************************)
(* Proofs about the normalizer, for any points, literals and named types.  *)
(* The enums of named types stay out of reach of schemas that start from   *)
(* the name (EnumAliases = FALSE): with them the properties fail, as the   *)
(* runs int_alias and real_alias show.                                     *)
(***************************************************************************)
EXTENDS Normalizer, SequenceTheorems, Induction

(***************************************************************************)
(* The order of atoms.                                                     *)
(***************************************************************************)
LEMMA RankIs == \A a : Rank(a) \in 1..3
  BY DEF Rank, Numeric

LEMMA BeforeOrders ==
    ASSUME NEW a, a.n \in Int, NEW b, b.n \in Int
    PROVE  /\ ~SameAtom(a, b) => Before(a, b) \/ Before(b, a)
           /\ Before(a, b) => ~SameAtom(a, b) /\ ~Before(b, a)
           /\ \A c : c.n \in Int /\ Before(a, b) /\ Before(b, c) => Before(a, c)
<1>1. Rank(a) \in Int /\ Rank(b) \in Int /\ \A c : Rank(c) \in Int
  BY RankIs
<1>2. QED BY <1>1 DEF Before, SameAtom

LEMMA SameAtomIs ==
    /\ \A a : SameAtom(a, a)
    /\ \A a, b : SameAtom(a, b) => SameAtom(b, a)
    /\ \A a, b, c : SameAtom(a, b) /\ SameAtom(b, c) => SameAtom(a, c)
  BY DEF SameAtom

(***************************************************************************)
(* What is picked from a sequence.                                         *)
(***************************************************************************)
\* The elements of out are those of s at the positions, in the order.
IsPick(out, s, R, P) ==
    \E n \in Nat : \E q : InOrder(q, n, P, R) /\ out = [i \in 1..n |-> s[q[i]]]

LEMMA PickedIs ==
    ASSUME NEW s, NEW P, IsFiniteSet(P), NEW R, Orders(R, P)
    PROVE  IsPick(Picked(s, R, P), s, R, P)
<1> DEFINE n == Cardinality(P)
           q == CHOOSE f \in [1..n -> P] :
                    /\ \A k \in P : \E i \in 1..n : f[i] = k
                    /\ \A i, j \in 1..n : i < j => <<f[i], f[j]>> \in R
<1>1. n \in Nat /\ \E f : InOrder(f, n, P, R)
  BY Listed
<1>2. InOrder(q, n, P, R)
  <2> HIDE DEF n
  <2>1. PICK f : InOrder(f, n, P, R)
    BY <1>1
  <2>2. \E g \in [1..n -> P] : /\ \A k \in P : \E i \in 1..n : g[i] = k
                               /\ \A i, j \in 1..n : i < j => <<g[i], g[j]>> \in R
    BY <2>1, Zenon DEF InOrder
  <2>3. QED BY <2>2, Zenon DEF InOrder
<1>3. Picked(s, R, P) = [i \in 1..n |-> s[q[i]]]
  BY DEF Picked
<1> HIDE DEF n, q
<1>4. QED BY <1>1, <1>2, <1>3 DEF IsPick

OnlyThese(out, s, P) == \A i \in DOMAIN out : \E k \in P : out[i] = s[k]
AllThese(out, s, P) == \A k \in P : \E i \in DOMAIN out : out[i] = s[k]
AsOrdered(out, s, R, P) ==
    \A i, j \in DOMAIN out : i < j =>
        \E k \in P, l \in P : out[i] = s[k] /\ out[j] = s[l] /\ <<k, l>> \in R

LEMMA PickElements ==
    ASSUME NEW T, NEW s \in Seq(T), NEW P \in SUBSET DOMAIN s, NEW R, NEW out,
           IsPick(out, s, R, P)
    PROVE  out \in Seq(T) /\ OnlyThese(out, s, P) /\ AllThese(out, s, P) /\ AsOrdered(out, s, R, P)
<1>a. PICK n \in Nat : \E q : InOrder(q, n, P, R) /\ out = [i \in 1..n |-> s[q[i]]]
  BY DEF IsPick
<1>1. PICK q : InOrder(q, n, P, R) /\ out = [i \in 1..n |-> s[q[i]]]
  BY <1>a
<1>2. DOMAIN out = 1..n /\ \A i \in 1..n : q[i] \in P /\ out[i] = s[q[i]]
  BY <1>1 DEF InOrder
<1>3. \A k \in P : s[k] \in T
  OBVIOUS
<1>4. out \in Seq(T)
  <2>1. out = [i \in 1..n |-> out[i]] /\ \A i \in 1..n : out[i] \in T
    BY <1>1, <1>2, <1>3
  <2>2. out \in [1..n -> T]
    BY <2>1, Zenon
  <2>3. QED BY <2>2, SeqDef
<1>5. \A k \in P : \E i \in 1..n : q[i] = k
  BY <1>1 DEF InOrder
<1>6. \A k \in P : \E i \in 1..n : out[i] = s[k]
  <2> SUFFICES ASSUME NEW k \in P PROVE \E i \in 1..n : out[i] = s[k]
    OBVIOUS
  <2>1. PICK i \in 1..n : q[i] = k
    BY <1>5
  <2>2. QED BY <1>2, <2>1
<1>7. \A i, j \in 1..n : i < j => <<q[i], q[j]>> \in R
  BY <1>1 DEF InOrder
<1>8. OnlyThese(out, s, P)
  BY <1>2, Zenon DEF OnlyThese
<1>9. AllThese(out, s, P)
  BY <1>2, <1>6, Zenon DEF AllThese
<1>10. AsOrdered(out, s, R, P)
  <2> SUFFICES ASSUME NEW i \in DOMAIN out, NEW j \in DOMAIN out, i < j
               PROVE  \E k \in P, l \in P : out[i] = s[k] /\ out[j] = s[l] /\ <<k, l>> \in R
    BY DEF AsOrdered
  <2>1. q[i] \in P /\ q[j] \in P /\ out[i] = s[q[i]] /\ out[j] = s[q[j]]
    BY <1>2
  <2>2. <<q[i], q[j]>> \in R
    BY <1>2, <1>7
  <2>3. QED BY <2>1, <2>2
<1>11. QED BY <1>4, <1>8, <1>9, <1>10

LEMMA PositionsFinite ==
    ASSUME NEW T, NEW s \in Seq(T), NEW P \in SUBSET DOMAIN s
    PROVE  IsFiniteSet(P)
<1>1. IsFiniteSet(1..Len(s))
  BY FS_Interval
<1>2. DOMAIN s = 1..Len(s)
  OBVIOUS
<1>3. QED BY <1>1, <1>2, FS_Subset

\* What Kept keeps is in the sequence and in the set, and a sorted sequence
\* stays sorted.
IsKept(out, s, S) ==
    /\ out \in Seq(Atoms)
    /\ \A i \in DOMAIN out : \E k \in DOMAIN s : out[i] = s[k] /\ s[k] \in S
    /\ \A k \in DOMAIN s : s[k] \in S => \E i \in DOMAIN out : out[i] = s[k]
    /\ Sorted(s) => Sorted(out)

LEMMA KeptIs ==
    ASSUME NEW s \in Seq(Atoms), NEW S
    PROVE  IsKept(Kept(s, S), s, S)
<1> DEFINE P == {k \in DOMAIN s : s[k] \in S}
           R == {p \in P \X P : p[1] < p[2]}
           out == Kept(s, S)
<1>1. P \in SUBSET DOMAIN s /\ \A k \in P : s[k] \in S /\ k \in Int
  OBVIOUS
<1>2. \A k \in P, l \in P : <<k, l>> \in R <=> k < l
  OBVIOUS
<1>3. \A k \in DOMAIN s : s[k] \in S => k \in P
  OBVIOUS
<1>4. out = Picked(s, R, P)
  BY DEF Kept
<1>5. \A k, l : <<k, l>> \in R => k < l
  OBVIOUS
<1> HIDE DEF P, R, out
<1>6. Orders(R, P)
  BY <1>1, <1>2 DEF Orders
<1>7. IsPick(out, s, R, P)
  BY <1>1, <1>4, <1>6, PositionsFinite, PickedIs
<1>8. /\ out \in Seq(Atoms) /\ OnlyThese(out, s, P) /\ AllThese(out, s, P)
      /\ AsOrdered(out, s, R, P)
  BY <1>1, <1>7, PickElements
<1>9. Sorted(s) => Sorted(out)
  <2> SUFFICES ASSUME Sorted(s), NEW i \in DOMAIN out, NEW j \in DOMAIN out, i < j
               PROVE  Before(out[i], out[j])
    BY DEF Sorted
  <2>1. PICK k \in P, l \in P : out[i] = s[k] /\ out[j] = s[l] /\ <<k, l>> \in R
    BY <1>8 DEF AsOrdered
  <2>2. k < l /\ k \in DOMAIN s /\ l \in DOMAIN s
    BY <1>1, <1>5, <2>1
  <2>3. QED BY <2>1, <2>2 DEF Sorted
<1>10. \A i \in DOMAIN out : \E k \in DOMAIN s : out[i] = s[k] /\ s[k] \in S
  BY <1>1, <1>8 DEF OnlyThese
<1>11. \A k \in DOMAIN s : s[k] \in S => \E i \in DOMAIN out : out[i] = s[k]
  BY <1>3, <1>8 DEF AllThese
<1>12. QED BY <1>8, <1>9, <1>10, <1>11 DEF out, IsKept

\* Sorting keeps every atom up to equality, and only those.
LEMMA SortUniqueIs ==
    ASSUME NEW s \in Seq(Atoms)
    PROVE  /\ SortUniqueTypes(s) \in Seq(Atoms)
           /\ Sorted(SortUniqueTypes(s))
           /\ \A i \in DOMAIN SortUniqueTypes(s) : \E k \in DOMAIN s : SortUniqueTypes(s)[i] = s[k]
           /\ \A k \in DOMAIN s : \E i \in DOMAIN SortUniqueTypes(s) :
                SameAtom(SortUniqueTypes(s)[i], s[k])
<1> DEFINE P == {k \in DOMAIN s : \A j \in 1..(k - 1) : ~SameAtom(s[j], s[k])}
           R == {p \in P \X P : Before(s[p[1]], s[p[2]])}
           out == SortUniqueTypes(s)
<1>1. DOMAIN s = 1..Len(s) /\ Len(s) \in Nat /\ \A k \in DOMAIN s : s[k].n \in Int
  <2>1. \A k \in DOMAIN s : s[k] \in Atoms
    OBVIOUS
  <2>2. \A a \in Atoms : a.n \in Int
    BY DEF Atoms
  <2>3. QED BY <2>1, <2>2
<1>2. P \in SUBSET DOMAIN s
  OBVIOUS
<1>3. \A k \in P, l \in P : <<k, l>> \in R <=> Before(s[k], s[l])
  OBVIOUS
<1>4. \A k \in P : \A j \in 1..(k - 1) : ~SameAtom(s[j], s[k])
  OBVIOUS
<1>5. out = Picked(s, R, P)
  BY DEF SortUniqueTypes
<1>6. \A k, l : <<k, l>> \in R => Before(s[k], s[l])
  OBVIOUS
<1>7. \A k \in DOMAIN s : k \notin P => \E j \in 1..(k - 1) : SameAtom(s[j], s[k])
  OBVIOUS
<1> HIDE DEF P, R, out
<1>8. Orders(R, P)
  <2>1. ASSUME NEW k \in P, NEW l \in P, k # l PROVE Before(s[k], s[l]) \/ Before(s[l], s[k])
    <3>1. k \in Nat /\ l \in Nat /\ s[k].n \in Int /\ s[l].n \in Int
      BY <1>1, <1>2
    <3>2. ~SameAtom(s[k], s[l])
      <4>1. CASE k < l
        <5>1. k \in 1..(l - 1)
          BY <1>1, <1>2, <4>1
        <5>2. QED BY <1>4, <5>1
      <4>2. CASE l < k
        <5>1. l \in 1..(k - 1)
          BY <1>1, <1>2, <4>2
        <5>2. QED BY <1>4, <5>1, SameAtomIs
      <4>3. QED BY <2>1, <3>1, <4>1, <4>2
    <3>3. QED BY <3>1, <3>2, BeforeOrders
  <2>2. ASSUME NEW k \in P, NEW l \in P, NEW m \in P, Before(s[k], s[l]), Before(s[l], s[m])
        PROVE  Before(s[k], s[m])
    <3>1. s[k].n \in Int /\ s[l].n \in Int /\ s[m].n \in Int
      BY <1>1, <1>2
    <3>2. QED BY <2>2, <3>1, BeforeOrders
  <2>3. QED BY <1>3, <2>1, <2>2, Zenon DEF Orders
<1>9. IsPick(out, s, R, P)
  BY <1>2, <1>5, <1>8, PositionsFinite, PickedIs
<1>10. /\ out \in Seq(Atoms) /\ OnlyThese(out, s, P) /\ AllThese(out, s, P)
       /\ AsOrdered(out, s, R, P)
  BY <1>2, <1>9, PickElements
<1>11. Sorted(out)
  <2> SUFFICES ASSUME NEW i \in DOMAIN out, NEW j \in DOMAIN out, i < j
               PROVE  Before(out[i], out[j])
    BY DEF Sorted
  <2>1. PICK k \in P, l \in P : out[i] = s[k] /\ out[j] = s[l] /\ <<k, l>> \in R
    BY <1>10 DEF AsOrdered
  <2>2. QED BY <1>6, <2>1
<1>12. ASSUME NEW k \in DOMAIN s PROVE \E j \in P : SameAtom(s[j], s[k])
  <2> DEFINE T == {j \in DOMAIN s : SameAtom(s[j], s[k])}
  <2>1. T \subseteq Nat /\ T # {}
    BY <1>1, SameAtomIs
  <2>2. PICK j \in T : \A i \in T : j <= i
    BY <2>1, Least
  <2>3. ASSUME NEW i \in 1..(j - 1), SameAtom(s[i], s[j]) PROVE FALSE
    <3>1. i \in DOMAIN s /\ i < j /\ i \in Nat /\ j \in Nat
      BY <1>1, <2>1, <2>2
    <3>2. SameAtom(s[i], s[k])
      BY <2>2, <2>3, SameAtomIs
    <3>3. QED BY <2>2, <3>1, <3>2
  <2>4. j \in P
    BY <1>7, <2>3
  <2>5. QED BY <2>2, <2>4
<1>13. \A k \in DOMAIN s : \E i \in DOMAIN out : SameAtom(out[i], s[k])
  <2> SUFFICES ASSUME NEW k \in DOMAIN s PROVE \E i \in DOMAIN out : SameAtom(out[i], s[k])
    OBVIOUS
  <2>1. PICK j \in P : SameAtom(s[j], s[k])
    BY <1>12
  <2>2. PICK i \in DOMAIN out : out[i] = s[j]
    BY <1>10 DEF AllThese
  <2>3. QED BY <2>1, <2>2
<1>14. \A i \in DOMAIN out : \E k \in DOMAIN s : out[i] = s[k]
  BY <1>2, <1>10 DEF OnlyThese
<1>15. QED BY <1>10, <1>11, <1>13, <1>14 DEF out

(***************************************************************************)
(* Limits.                                                                 *)
(***************************************************************************)

LEMMA AtLeastIs ==
    ASSUME NEW b \in Limits, NEW n \in Int, NEW incl \in BOOLEAN
    PROVE  /\ AtLeast(b, n, incl) \in Limits
           /\ AtLeast(b, n, incl).flags # {}
           /\ AtLeast(b, n, incl).min \in {b.min, n} /\ AtLeast(b, n, incl).max = b.max
           /\ Discrete(b) /\ ~incl => Discrete(AtLeast(b, n, incl))
           /\ \A x \in Int : Within(x, AtLeast(b, n, incl), FALSE) <=> Within(x, b, FALSE) /\ x >= n
           /\ \A x \in Int : Within(x, AtLeast(b, n, incl), TRUE)
                                <=> Within(x, b, TRUE) /\ (x > n \/ (x = n /\ incl))
<1> DEFINE r == AtLeast(b, n, incl)
           f == (b.flags \ Lower) \cup {"hasMin"} \cup (IF incl THEN {"minInclusive"} ELSE {})
<1>1. b.flags \in SUBSET BoundFlags /\ b.min \in Int /\ b.max \in Int
  BY DEF Limits
<1>2. /\ f \in SUBSET BoundFlags /\ "hasMin" \in f
      /\ "minInclusive" \in f <=> incl
      /\ "hasMax" \in f <=> "hasMax" \in b.flags
      /\ "maxInclusive" \in f <=> "maxInclusive" \in b.flags
      /\ Discrete(b) /\ ~incl => f \subseteq {"hasMin", "hasMax"}
  BY <1>1 DEF Lower, BoundFlags, Discrete
<1>3. CASE "hasMin" \notin b.flags \/ n > b.min
              \/ (n = b.min /\ "minInclusive" \in b.flags /\ ~incl)
  <2>1. r = [b EXCEPT !.min = n, !.flags = f]
    BY <1>3 DEF AtLeast
  <2>2. r.min = n /\ r.max = b.max /\ r.flags = f /\ r \in Limits
    BY <1>1, <1>2, <2>1 DEF Limits
  <2> HIDE DEF f, r
  <2>3. \A x \in Int : Within(x, r, FALSE) <=> Within(x, b, FALSE) /\ x >= n
    BY <1>1, <1>2, <1>3, <2>2 DEF Within
  <2>4. \A x \in Int : Within(x, r, TRUE) <=> Within(x, b, TRUE) /\ (x > n \/ (x = n /\ incl))
    BY <1>1, <1>2, <1>3, <2>2 DEF Within
  <2>5. r.flags # {} /\ (Discrete(b) /\ ~incl => Discrete(r))
    BY <1>2, <2>2 DEF Discrete
  <2>6. QED BY <2>2, <2>3, <2>4, <2>5 DEF r
<1>4. CASE ~("hasMin" \notin b.flags \/ n > b.min
              \/ (n = b.min /\ "minInclusive" \in b.flags /\ ~incl))
  <2>1. r = b
    BY <1>4 DEF AtLeast
  <2> HIDE DEF f, r
  <2>2. \A x \in Int : Within(x, b, FALSE) => x >= n
    BY <1>1, <1>4 DEF Within
  <2>3. \A x \in Int : Within(x, b, TRUE) => x > n \/ (x = n /\ incl)
    BY <1>1, <1>4 DEF Within
  <2>4. QED BY <1>4, <2>1, <2>2, <2>3 DEF r
<1>5. QED BY <1>3, <1>4

LEMMA AtMostIs ==
    ASSUME NEW b \in Limits, NEW n \in Int, NEW incl \in BOOLEAN
    PROVE  /\ AtMost(b, n, incl) \in Limits
           /\ AtMost(b, n, incl).flags # {}
           /\ AtMost(b, n, incl).max \in {b.max, n} /\ AtMost(b, n, incl).min = b.min
           /\ Discrete(b) /\ ~incl => Discrete(AtMost(b, n, incl))
           /\ \A x \in Int : Within(x, AtMost(b, n, incl), FALSE) <=> Within(x, b, FALSE) /\ x <= n
           /\ \A x \in Int : Within(x, AtMost(b, n, incl), TRUE)
                                <=> Within(x, b, TRUE) /\ (x < n \/ (x = n /\ incl))
<1> DEFINE r == AtMost(b, n, incl)
           f == (b.flags \ Upper) \cup {"hasMax"} \cup (IF incl THEN {"maxInclusive"} ELSE {})
<1>1. b.flags \in SUBSET BoundFlags /\ b.min \in Int /\ b.max \in Int
  BY DEF Limits
<1>2. /\ f \in SUBSET BoundFlags /\ "hasMax" \in f
      /\ "maxInclusive" \in f <=> incl
      /\ "hasMin" \in f <=> "hasMin" \in b.flags
      /\ "minInclusive" \in f <=> "minInclusive" \in b.flags
      /\ Discrete(b) /\ ~incl => f \subseteq {"hasMin", "hasMax"}
  BY <1>1 DEF Upper, BoundFlags, Discrete
<1>3. CASE "hasMax" \notin b.flags \/ n < b.max
              \/ (n = b.max /\ "maxInclusive" \in b.flags /\ ~incl)
  <2>1. r = [b EXCEPT !.max = n, !.flags = f]
    BY <1>3 DEF AtMost
  <2>2. r.max = n /\ r.min = b.min /\ r.flags = f /\ r \in Limits
    BY <1>1, <1>2, <2>1 DEF Limits
  <2> HIDE DEF f, r
  <2>3. \A x \in Int : Within(x, r, FALSE) <=> Within(x, b, FALSE) /\ x <= n
    BY <1>1, <1>2, <1>3, <2>2 DEF Within
  <2>4. \A x \in Int : Within(x, r, TRUE) <=> Within(x, b, TRUE) /\ (x < n \/ (x = n /\ incl))
    BY <1>1, <1>2, <1>3, <2>2 DEF Within
  <2>5. r.flags # {} /\ (Discrete(b) /\ ~incl => Discrete(r))
    BY <1>2, <2>2 DEF Discrete
  <2>6. QED BY <2>2, <2>3, <2>4, <2>5 DEF r
<1>4. CASE ~("hasMax" \notin b.flags \/ n < b.max
              \/ (n = b.max /\ "maxInclusive" \in b.flags /\ ~incl))
  <2>1. r = b
    BY <1>4 DEF AtMost
  <2> HIDE DEF f, r
  <2>2. \A x \in Int : Within(x, b, FALSE) => x <= n
    BY <1>1, <1>4 DEF Within
  <2>3. \A x \in Int : Within(x, b, TRUE) => x < n \/ (x = n /\ incl)
    BY <1>1, <1>4 DEF Within
  <2>4. QED BY <1>4, <2>1, <2>2, <2>3 DEF r
<1>5. QED BY <1>3, <1>4

\* What a limit and a comparison leave of the line.
LEMMA CompareIs ==
    ASSUME NEW x, NEW n
    PROVE  /\ Meaning!Compare(x, "Gt", n) <=> x > n
           /\ Meaning!Compare(x, "Ge", n) <=> x >= n
           /\ Meaning!Compare(x, "Lt", n) <=> x < n
           /\ Meaning!Compare(x, "Le", n) <=> x <= n
  BY DEF Meaning!Compare

LEMMA ApplyRealIs ==
    ASSUME NEW op \in {"Gt", "Ge", "Lt", "Le"}, NEW n \in Int, norm.reals \in Limits
    PROVE  /\ ApplyReal(op, n) \in Limits /\ ApplyReal(op, n).flags # {}
           /\ \A x \in Int : Within(x, ApplyReal(op, n), TRUE)
                                <=> Within(x, norm.reals, TRUE) /\ Meaning!Compare(x, op, n)
<1> DEFINE b == norm.reals
<1>1. b \in Limits
  OBVIOUS
<1> HIDE DEF b
<1>2. CASE op = "Gt"
  <2> DEFINE r == AtLeast(b, n, FALSE)
  <2>1. (op = "Ge") = FALSE
    BY <1>2
  <2>2. ApplyReal(op, n) = AtLeast(b, n, op = "Ge")
    BY <1>2 DEF ApplyReal, b
  <2>3. ApplyReal(op, n) = r
    BY <2>1, <2>2, Zenon
  <2>4. /\ \A x \in Int : Within(x, r, TRUE) <=> Within(x, b, TRUE) /\ x > n
        /\ r \in Limits /\ r.flags # {}
    BY <1>1, AtLeastIs
  <2> HIDE DEF r
  <2>5. QED BY <1>2, <2>3, <2>4, CompareIs DEF b
<1>3. CASE op = "Ge"
  <2> DEFINE r == AtLeast(b, n, TRUE)
  <2>1. (op = "Ge") = TRUE
    BY <1>3, Zenon
  <2>2. ApplyReal(op, n) = AtLeast(b, n, op = "Ge")
    BY <1>3 DEF ApplyReal, b
  <2>3. ApplyReal(op, n) = r
    BY <2>1, <2>2, Zenon
  <2>4. /\ \A x \in Int : Within(x, r, TRUE) <=> Within(x, b, TRUE) /\ x >= n
        /\ r \in Limits /\ r.flags # {}
    <3>1. TRUE \in BOOLEAN
      OBVIOUS
    <3>2. /\ \A x \in Int : Within(x, r, TRUE) <=> Within(x, b, TRUE) /\ (x > n \/ (x = n /\ TRUE))
          /\ r \in Limits /\ r.flags # {}
      BY <1>1, <3>1, AtLeastIs, Zenon
    <3>3. \A x \in Int : x > n \/ (x = n /\ TRUE) <=> x >= n
      OBVIOUS
    <3> HIDE DEF r
    <3>4. QED BY <3>2, <3>3, Zenon
  <2> HIDE DEF r
  <2>5. QED BY <1>3, <2>3, <2>4, CompareIs DEF b
<1>4. CASE op = "Lt"
  <2> DEFINE r == AtMost(b, n, FALSE)
  <2>1. (op = "Le") = FALSE
    BY <1>4
  <2>2. ApplyReal(op, n) = AtMost(b, n, op = "Le")
    BY <1>4 DEF ApplyReal, b
  <2>3. ApplyReal(op, n) = r
    BY <2>1, <2>2, Zenon
  <2>4. /\ \A x \in Int : Within(x, r, TRUE) <=> Within(x, b, TRUE) /\ x < n
        /\ r \in Limits /\ r.flags # {}
    BY <1>1, AtMostIs
  <2> HIDE DEF r
  <2>5. QED BY <1>4, <2>3, <2>4, CompareIs DEF b
<1>5. CASE op = "Le"
  <2> DEFINE r == AtMost(b, n, TRUE)
  <2>1. (op = "Le") = TRUE
    BY <1>5, Zenon
  <2>2. ApplyReal(op, n) = AtMost(b, n, op = "Le")
    BY <1>5 DEF ApplyReal, b
  <2>3. ApplyReal(op, n) = r
    BY <2>1, <2>2, Zenon
  <2>4. /\ \A x \in Int : Within(x, r, TRUE) <=> Within(x, b, TRUE) /\ x <= n
        /\ r \in Limits /\ r.flags # {}
    <3>1. TRUE \in BOOLEAN
      OBVIOUS
    <3>2. /\ \A x \in Int : Within(x, r, TRUE) <=> Within(x, b, TRUE) /\ (x < n \/ (x = n /\ TRUE))
          /\ r \in Limits /\ r.flags # {}
      BY <1>1, <3>1, AtMostIs, Zenon
    <3>3. \A x \in Int : x < n \/ (x = n /\ TRUE) <=> x <= n
      OBVIOUS
    <3> HIDE DEF r
    <3>4. QED BY <3>2, <3>3, Zenon
  <2> HIDE DEF r
  <2>5. QED BY <1>5, <2>3, <2>4, CompareIs DEF b
<1>6. QED BY <1>2, <1>3, <1>4, <1>5

\* The values are a unit apart: with two of them the next is a unit further.
Apart(x, n, unit) == /\ x > n <=> x >= n + unit
                     /\ x < n <=> x <= n - unit

\* r is the limits b with the comparison.
Narrowed(r, b, op, n, unit) ==
    /\ r \in Limits /\ Discrete(r) /\ r.flags # {}
    /\ r.min \in {b.min, n, n + unit} /\ r.max \in {b.max, n, n - unit}
    /\ \A x \in Int : Apart(x, n, unit) =>
            (Within(x, r, FALSE) <=> Within(x, b, FALSE) /\ Meaning!Compare(x, op, n))

LEMMA ApplyDiscreteIs ==
    ASSUME NEW b \in Limits, Discrete(b), NEW op \in {"Gt", "Ge", "Lt", "Le"},
           NEW n \in Int, NEW unit \in Int
    PROVE  Narrowed(ApplyDiscrete(b, op, n, unit), b, op, n, unit)
<1>1. FALSE \in BOOLEAN /\ n + unit \in Int /\ n - unit \in Int
  OBVIOUS
<1>2. CASE op = "Gt"
  <2> DEFINE r == AtLeast(b, n + unit, FALSE)
  <2>1. ApplyDiscrete(b, op, n, unit) = r
    BY <1>2 DEF ApplyDiscrete
  <2>2. /\ \A x \in Int : Within(x, r, FALSE) <=> Within(x, b, FALSE) /\ x >= n + unit
        /\ r \in Limits /\ r.flags # {} /\ r.min \in {b.min, n + unit} /\ r.max = b.max /\ Discrete(r)
    BY <1>1, AtLeastIs
  <2> HIDE DEF r
  <2>3. QED BY <1>2, <2>1, <2>2, CompareIs DEF Apart, Narrowed
<1>3. CASE op = "Ge"
  <2> DEFINE r == AtLeast(b, n, FALSE)
  <2>1. ApplyDiscrete(b, op, n, unit) = r
    BY <1>3 DEF ApplyDiscrete
  <2>2. /\ \A x \in Int : Within(x, r, FALSE) <=> Within(x, b, FALSE) /\ x >= n
        /\ r \in Limits /\ r.flags # {} /\ r.min \in {b.min, n} /\ r.max = b.max /\ Discrete(r)
    BY <1>1, AtLeastIs
  <2> HIDE DEF r
  <2>3. QED BY <1>3, <2>1, <2>2, CompareIs DEF Apart, Narrowed
<1>4. CASE op = "Lt"
  <2> DEFINE r == AtMost(b, n - unit, FALSE)
  <2>1. ApplyDiscrete(b, op, n, unit) = r
    BY <1>4 DEF ApplyDiscrete
  <2>2. /\ \A x \in Int : Within(x, r, FALSE) <=> Within(x, b, FALSE) /\ x <= n - unit
        /\ r \in Limits /\ r.flags # {} /\ r.max \in {b.max, n - unit} /\ r.min = b.min /\ Discrete(r)
    BY <1>1, AtMostIs
  <2> HIDE DEF r
  <2>3. QED BY <1>4, <2>1, <2>2, CompareIs DEF Apart, Narrowed
<1>5. CASE op = "Le"
  <2> DEFINE r == AtMost(b, n, FALSE)
  <2>1. ApplyDiscrete(b, op, n, unit) = r
    BY <1>5 DEF ApplyDiscrete
  <2>2. /\ \A x \in Int : Within(x, r, FALSE) <=> Within(x, b, FALSE) /\ x <= n
        /\ r \in Limits /\ r.flags # {} /\ r.max \in {b.max, n} /\ r.min = b.min /\ Discrete(r)
    BY <1>1, AtMostIs
  <2> HIDE DEF r
  <2>3. QED BY <1>5, <2>1, <2>2, CompareIs DEF Apart, Narrowed
<1>6. QED BY <1>2, <1>3, <1>4, <1>5

(***************************************************************************)
(* Values.                                                                 *)
(***************************************************************************)
\* The whole numbers are Step apart.
LEMMA Multiples ==
    ASSUME NEW x \in Int, NEW n \in Int, x % Step = 0, n % Step = 0
    PROVE  Apart(x, n, Step) /\ (n + Step) % Step = 0 /\ (n - Step) % Step = 0
<1>1. Step \in Nat /\ Step > 0
  BY PointsAssumption
<1>2. PICK j \in Int : x = Step * j
  <2>1. x = Step * (x \div Step) + (x % Step) /\ x \div Step \in Int
    BY <1>1
  <2>2. Step * (x \div Step) + 0 = Step * (x \div Step)
    BY <1>1, <2>1
  <2>3. QED BY <2>1, <2>2, Zenon
<1>3. PICK k \in Int : n = Step * k
  <2>1. n = Step * (n \div Step) + (n % Step) /\ n \div Step \in Int
    BY <1>1
  <2>2. Step * (n \div Step) + 0 = Step * (n \div Step)
    BY <1>1, <2>1
  <2>3. QED BY <2>1, <2>2, Zenon
<1>4. \A d \in Int : d >= 1 => Step * d >= Step
  BY <1>1
<1>5. x - n = Step * (j - k) /\ n - x = Step * (k - j)
  BY <1>1, <1>2, <1>3
<1>6. Apart(x, n, Step)
  <2>1. ASSUME x > n PROVE x >= n + Step
    <3>1. j - k >= 1
      <4>1. ASSUME j - k <= 0 PROVE FALSE
        <5>1. Step * (k - j) >= 0
          BY <1>1, <4>1
        <5>2. QED BY <1>5, <2>1, <5>1
      <4>2. QED BY <4>1
    <3>2. Step * (j - k) >= Step
      BY <1>4, <3>1
    <3>3. QED BY <1>1, <1>5, <3>2
  <2>2. ASSUME x < n PROVE x <= n - Step
    <3>1. k - j >= 1
      <4>1. ASSUME k - j <= 0 PROVE FALSE
        <5>1. Step * (j - k) >= 0
          BY <1>1, <4>1
        <5>2. QED BY <1>5, <2>2, <5>1
      <4>2. QED BY <4>1
    <3>2. Step * (k - j) >= Step
      BY <1>4, <3>1
    <3>3. QED BY <1>1, <1>5, <3>2
  <2>3. QED BY <1>1, <2>1, <2>2 DEF Apart
<1>7. (n + Step) % Step = 0 /\ (n - Step) % Step = 0
  <2>1. \A i \in Int : (Step * i) % Step = 0
    BY <1>1
  <2>2. n + Step = Step * (k + 1) /\ n - Step = Step * (k - 1)
    BY <1>1, <1>3
  <2>3. k + 1 \in Int /\ k - 1 \in Int
    OBVIOUS
  <2>4. QED BY <2>1, <2>2, <2>3, Zenon
<1>8. QED BY <1>6, <1>7

\* What the values of a base have in common.
LEMMA ValuesAre ==
    /\ \A v \in Values("Int") : v.kind = "IntAtom" /\ v.n % Step = 0
    /\ \A v \in Values("Real") : v.kind \in Numeric
    /\ \A v \in Values("String") : v.kind = "StringAtom" /\ <<v.n, v.len>> \in Strings
    /\ \A v \in Values("List") : v.kind \in {"List", "Tuple"}
    /\ \A v \in Values("Tuple") : v.kind = "Tuple" /\ v.len = TupleLen
    /\ \A v \in Values("Bool") : v.kind = "BoolAtom"
    /\ \A v \in Values("Any") : v.kind \notin {"List", "Tuple"}
    /\ Values("Never") = {}
<1> USE DEF Values, RealValues, ScalarValues, ListValues, Value,
            IntAtoms, RealAtoms, BoolAtoms, StringAtoms, Tuples, Lists, Numeric
<1>1. \A v \in Values("String") : v.kind = "StringAtom" /\ <<v.n, v.len>> \in Strings
  BY LengthsAssumption
<1>2. \A v \in Values("Int") : v.kind = "IntAtom" /\ v.n % Step = 0
  OBVIOUS
<1>3. \A v \in Values("Real") : v.kind \in Numeric
  OBVIOUS
<1>4. (\A v \in Values("List") : v.kind \in {"List", "Tuple"}) /\ \A v \in Values("Bool") : v.kind = "BoolAtom"
  OBVIOUS
<1>5. \A v \in Values("Tuple") : v.kind = "Tuple" /\ v.len = TupleLen
  OBVIOUS
<1>6. \A v \in Values("Any") : v.kind \notin {"List", "Tuple"}
  OBVIOUS
<1>7. Values("Never") = {}
  OBVIOUS
<1>8. QED BY <1>1, <1>2, <1>3, <1>4, <1>5, <1>6, <1>7

LEMMA ValueIs ==
    ASSUME NEW b \in BaseKinds, NEW v \in Values(b)
    PROVE  v.n \in Int /\ v.len \in 0..MaxLen /\ v.len \in Int /\ v \in AllValues
<1>1. \A w \in BoolAtoms \cup IntAtoms \cup RealAtoms : w.n \in Int /\ w.len = 0
  BY PointsAssumption DEF BoolAtoms, IntAtoms, RealAtoms, Value
<1>2. \A w \in StringAtoms : w.n \in Int /\ w.len \in 0..MaxLen
  BY LengthsAssumption DEF StringAtoms, Value
<1>3. \A w \in Lists \cup Tuples : w.n \in Int /\ w.len \in 0..MaxLen
  BY LengthsAssumption DEF Lists, Tuples, Value
<1>4. v \in BoolAtoms \cup IntAtoms \cup RealAtoms \cup StringAtoms \cup Lists \cup Tuples
  BY DEF Values, RealValues, ScalarValues, ListValues, BaseKinds
<1>5. v.n \in Int /\ v.len \in 0..MaxLen /\ v.len \in Int
  BY <1>1, <1>2, <1>3, <1>4, LengthsAssumption
<1>6. v \in AllValues
  BY DEF AllValues
<1>7. QED BY <1>5, <1>6

\* The abstract specification speaks of the same values and atoms.
LEMMA SameWords ==
    /\ \A b : Meaning!Values(b) = Values(b)
    /\ Meaning!BaseKinds = BaseKinds /\ Meaning!Numeric = Numeric
    /\ \A a, b : Meaning!SameAtom(a, b) <=> SameAtom(a, b)
    /\ Meaning!AllValues = AllValues
<1>1. \A b : Meaning!Values(b) = Values(b)
  BY Zenon DEF Values, RealValues, ScalarValues, ListValues,
     Meaning!Values, Meaning!RealValues, Meaning!ScalarValues, Meaning!ListValues, BoolAtoms, Meaning!BoolAtoms, IntAtoms, Meaning!IntAtoms,
               RealAtoms, Meaning!RealAtoms, StringAtoms, Meaning!StringAtoms, Lists, Meaning!Lists,
               Tuples, Meaning!Tuples, Value, Meaning!Value
<1>2. Meaning!BaseKinds = BaseKinds /\ Meaning!Numeric = Numeric
  BY DEF BaseKinds, Meaning!BaseKinds, Numeric, Meaning!Numeric
<1>3. \A a, b : Meaning!SameAtom(a, b) <=> SameAtom(a, b)
  BY DEF SameAtom, Meaning!SameAtom, Rank, Meaning!Rank, Numeric, Meaning!Numeric
<1>4. Meaning!AllValues = AllValues
  <2>1. {Meaning!Values(b) : b \in BaseKinds} = {Values(b) : b \in BaseKinds}
    BY <1>1
  <2>2. QED BY <1>2, <2>1, Zenon DEF AllValues, Meaning!AllValues
<1>5. QED BY <1>1, <1>2, <1>3, <1>4

(***************************************************************************)
(* Acceptance, part by part.                                               *)
(***************************************************************************)
IntsOk(v, b) == b.flags # {} => v.kind = "IntAtom" /\ Within(v.n, b, FALSE)
RealsOk(v, b) == b.flags # {} => v.kind \in Numeric /\ Within(v.n, b, TRUE)
FormatOk(v, f) == f # "noFmt" => v.kind \in Numeric /\ v.n \in (-FloatMax[f])..FloatMax[f]
LengthOk(v, b) ==
    b.flags # {} => v.kind \in {"StringAtom", "List", "Tuple"} /\ Within(v.len, b, FALSE)
InEnum(v, s) == \E k \in DOMAIN s : v.kind \notin {"List", "Tuple"} /\ SameAtom(v, s[k])
LimitsOk(v, c) ==
    IntsOk(v, c.ints) /\ RealsOk(v, c.reals) /\ FormatOk(v, c.format) /\ LengthOk(v, c.length)

LEMMA AcceptsIs ==
    ASSUME NEW v, NEW c
    PROVE  /\ AcceptsLimits(v, c) <=> LimitsOk(v, c)
           /\ Accepts(v, c) <=> LimitsOk(v, c) /\ (c.hasEnum => InEnum(v, c.enum))
  BY DEF Accepts, AcceptsLimits, LimitsOk, IntsOk, RealsOk, FormatOk, LengthOk, InEnum

LEMMA NoLimits ==
    ASSUME NEW v, NEW b, b.flags = {}
    PROVE  IntsOk(v, b) /\ RealsOk(v, b) /\ LengthOk(v, b)
           /\ Within(v.n, b, FALSE) /\ Within(v.n, b, TRUE) /\ Within(v.len, b, FALSE)
  BY DEF IntsOk, RealsOk, LengthOk, Within

\* The normal form of a schema in progress, of a base b.
Form(b, c) ==
    /\ c \in Norm /\ Whole(c.ints) /\ Discrete(c.length) /\ Sorted(c.enum)
    /\ Fits(b, c)
    /\ ~c.hasEnum => c.enum = <<>>

LEMMA NormIs ==
    ASSUME NEW c \in Norm
    PROVE  /\ c.ints \in Limits /\ c.reals \in Limits /\ c.length \in Limits
           /\ c.format \in Formats \cup {"noFmt"} /\ c.hasEnum \in BOOLEAN /\ c.enum \in Seq(Atoms)
  BY DEF Norm

\* A form is its parts.
LEMMA SameForm ==
    /\ \A c \in Norm, d \in Norm :
            /\ c.ints = d.ints /\ c.reals = d.reals /\ c.length = d.length
            /\ c.format = d.format /\ c.hasEnum = d.hasEnum /\ c.enum = d.enum
            => c = d
    /\ \A c \in Norm : c.enum = <<>> => c = [c EXCEPT !.enum = <<>>]
<1>1. \A c \in Norm : c = [ints |-> c.ints, reals |-> c.reals, format |-> c.format,
                           length |-> c.length, hasEnum |-> c.hasEnum, enum |-> c.enum]
  BY DEF Norm
<1>2. \A c \in Norm : [c EXCEPT !.enum = <<>>] =
                        [ints |-> c.ints, reals |-> c.reals, format |-> c.format,
                         length |-> c.length, hasEnum |-> c.hasEnum, enum |-> <<>>]
  BY DEF Norm
<1>3. ASSUME NEW c \in Norm, NEW d \in Norm,
             c.ints = d.ints, c.reals = d.reals, c.length = d.length,
             c.format = d.format, c.hasEnum = d.hasEnum, c.enum = d.enum
      PROVE  c = d
  BY <1>1, <1>3, Zenon
<1>4. ASSUME NEW c \in Norm, c.enum = <<>> PROVE c = [c EXCEPT !.enum = <<>>]
  BY <1>1, <1>2, <1>4, Zenon
<1>5. QED BY <1>3, <1>4, Zenon

LEMMA UnconstrainedIs ==
    /\ Unconstrained \in Norm /\ Finished(Unconstrained)
    /\ \A b : Form(b, Unconstrained) /\ Fits(b, Unconstrained)
    /\ \A v : Accepts(v, Unconstrained)
<1>1. NoBounds \in Limits /\ NoBounds.flags = {} /\ NoBounds.min = 0 /\ NoBounds.max = 0
  BY DEF NoBounds, Limits
<1>2. /\ Unconstrained.ints = NoBounds /\ Unconstrained.reals = NoBounds
      /\ Unconstrained.length = NoBounds /\ Unconstrained.format = "noFmt"
      /\ ~Unconstrained.hasEnum /\ Unconstrained.enum = <<>>
  BY DEF Unconstrained
<1>3. <<>> \in Seq(Atoms) /\ DOMAIN <<>> = {}
  OBVIOUS
<1>4. Unconstrained \in Norm
  BY <1>1 DEF Norm, Unconstrained
<1>5. Whole(Unconstrained.ints) /\ Discrete(Unconstrained.length)
  <2>1. Step \in Nat /\ Step > 0
    BY PointsAssumption
  <2>2. 0 % Step = 0
    BY <2>1
  <2>3. QED BY <1>1, <1>2, <2>2 DEF Whole, Discrete
<1>6. Sorted(Unconstrained.enum)
  BY <1>2, <1>3 DEF Sorted
<1>7. \A b : Fits(b, Unconstrained)
  BY <1>1, <1>2, <1>3 DEF Fits
<1>8. Unconstrained = [Unconstrained EXCEPT !.enum = <<>>]
  BY <1>2, <1>4, SameForm
<1>9. Finished(Unconstrained)
  BY <1>2, <1>4, <1>5, <1>8 DEF Finished
<1>10. \A b : Form(b, Unconstrained)
  BY <1>2, <1>4, <1>5, <1>6, <1>7 DEF Form
<1>11. \A v : Accepts(v, Unconstrained)
  BY <1>1, <1>2 DEF Accepts, AcceptsLimits
<1>12. QED BY <1>4, <1>7, <1>9, <1>10, <1>11

(***************************************************************************)
(* Clauses narrow the form by what they say.                               *)
(***************************************************************************)
LEMMA IntNarrows ==
    ASSUME Form("Int", norm), NEW op \in {"Gt", "Ge", "Lt", "Le"},
           NEW n \in Int, n % Step = 0, NEW c, c = [norm EXCEPT !.ints = ApplyInt(op, n)]
    PROVE  /\ Form("Int", c)
           /\ \A v \in Values("Int") : Accepts(v, c) <=> Accepts(v, norm) /\ Meaning!Compare(v.n, op, n)
<1> DEFINE b == norm.ints
           r == ApplyInt(op, n)
<1>1. norm \in Norm /\ Whole(b) /\ Discrete(b) /\ b \in Limits /\ Step \in Int
  BY NormIs, PointsAssumption DEF Form, Whole
<1>2. r = ApplyDiscrete(b, op, n, Step)
  BY DEF ApplyInt
<1>3. Narrowed(r, b, op, n, Step)
  BY <1>1, <1>2, ApplyDiscreteIs
<1>4. /\ c.ints = r /\ c.reals = norm.reals /\ c.length = norm.length /\ c.format = norm.format
      /\ c.hasEnum = norm.hasEnum /\ c.enum = norm.enum
  BY <1>1 DEF Norm
<1>5. c \in Norm
  BY <1>1, <1>3 DEF Norm, Narrowed
<1> HIDE DEF b, r
<1>6. Whole(r)
  BY <1>1, <1>3, Multiples DEF Whole, Narrowed
<1>7. Form("Int", c)
  BY <1>4, <1>5, <1>6 DEF Form, Fits
<1>8. ASSUME NEW v \in Values("Int")
      PROVE  Accepts(v, c) <=> Accepts(v, norm) /\ Meaning!Compare(v.n, op, n)
  <2>1. v.n \in Int /\ v.kind = "IntAtom" /\ v.n % Step = 0
    BY ValueIs, ValuesAre DEF BaseKinds
  <2>2. Within(v.n, r, FALSE) <=> Within(v.n, b, FALSE) /\ Meaning!Compare(v.n, op, n)
    BY <1>3, <2>1, Multiples DEF Narrowed
  <2>3. IntsOk(v, r) <=> IntsOk(v, b) /\ Meaning!Compare(v.n, op, n)
    BY <1>3, <2>1, <2>2, NoLimits DEF IntsOk, Narrowed
  <2>4. QED BY <1>4, <2>3, AcceptsIs DEF LimitsOk, b
<1>9. QED BY <1>7, <1>8

LEMMA RealNarrows ==
    ASSUME Form("Real", norm), NEW op \in {"Gt", "Ge", "Lt", "Le"},
           NEW n \in Int, NEW c, c = [norm EXCEPT !.reals = ApplyReal(op, n)]
    PROVE  /\ Form("Real", c)
           /\ \A v \in Values("Real") : Accepts(v, c) <=> Accepts(v, norm) /\ Meaning!Compare(v.n, op, n)
<1> DEFINE b == norm.reals
           r == ApplyReal(op, n)
<1>1. norm \in Norm /\ norm.reals \in Limits
  BY NormIs DEF Form
<1>2. /\ r \in Limits /\ r.flags # {}
      /\ \A x \in Int : Within(x, r, TRUE) <=> Within(x, b, TRUE) /\ Meaning!Compare(x, op, n)
  BY <1>1, ApplyRealIs
<1>3. /\ c.reals = r /\ c.ints = norm.ints /\ c.length = norm.length /\ c.format = norm.format
      /\ c.hasEnum = norm.hasEnum /\ c.enum = norm.enum
  BY <1>1 DEF Norm
<1>4. c \in Norm
  BY <1>1, <1>2 DEF Norm
<1> HIDE DEF b, r
<1>5. Form("Real", c)
  BY <1>3, <1>4 DEF Form, Fits
<1>6. ASSUME NEW v \in Values("Real")
      PROVE  Accepts(v, c) <=> Accepts(v, norm) /\ Meaning!Compare(v.n, op, n)
  <2>1. v.n \in Int /\ v.kind \in Numeric
    BY ValueIs, ValuesAre DEF BaseKinds
  <2>2. RealsOk(v, r) <=> RealsOk(v, b) /\ Meaning!Compare(v.n, op, n)
    BY <1>2, <2>1, NoLimits DEF RealsOk
  <2>3. QED BY <1>3, <2>2, AcceptsIs DEF LimitsOk, b
<1>7. QED BY <1>5, <1>6

LEMMA Scaled ==
    ASSUME NEW a \in Int, NEW b \in Int
    PROVE  (a < b <=> Step * a < Step * b) /\ (a > b <=> Step * a > Step * b)
<1>1. Step \in Nat /\ Step > 0
  BY PointsAssumption
<1>2. \A d \in Int : d >= 1 => Step * d >= Step
  BY <1>1
<1>3. \A d \in Int : d >= 0 => Step * d >= 0
  BY <1>1
<1>4. ASSUME NEW x \in Int, NEW y \in Int PROVE x < y <=> Step * x < Step * y
  <2>1. Step * (y - x) = Step * y - Step * x /\ Step * (x - y) = Step * x - Step * y
    BY <1>1
  <2>2. Step * x \in Int /\ Step * y \in Int
    BY <1>1
  <2>3. CASE x < y
    <3>1. y - x >= 1
      BY <2>3
    <3>2. Step * (y - x) >= Step
      BY <1>2, <3>1
    <3>3. QED BY <1>1, <2>1, <2>2, <2>3, <3>2
  <2>4. CASE ~(x < y)
    <3>1. x - y >= 0
      BY <2>4
    <3>2. Step * (x - y) >= 0
      BY <1>3, <3>1
    <3>3. QED BY <2>1, <2>2, <2>4, <3>2
  <2>5. QED BY <2>3, <2>4
<1>5. Step * a \in Int /\ Step * b \in Int
  BY <1>1
<1>6. a < b <=> Step * a < Step * b
  BY <1>4
<1>7. b < a <=> Step * b < Step * a
  BY <1>4
<1>8. QED BY <1>5, <1>6, <1>7

LEMMA LengthOf ==
    ASSUME NEW lit, IsAtom(lit), IsLength(lit), NEW l, l = lit.n \div Step
    PROVE  l \in 0..MaxLen /\ lit.n = Step * l
<1>1. Step \in Nat /\ Step > 0 /\ MaxLen \in Nat
  BY PointsAssumption, LengthsAssumption
<1>2. lit.n \in Int /\ lit.n % Step = 0
  BY DEF IsAtom, IsLength, Atoms
<1>3. lit.n = Step * l /\ l \in Int
  <2>1. lit.n = Step * l + (lit.n % Step) /\ l \in Int
    BY <1>1, <1>2
  <2>2. Step * l + 0 = Step * l
    BY <1>1, <2>1
  <2>3. QED BY <1>2, <2>1, <2>2, Zenon
<1>4. 0 <= lit.n /\ lit.n <= Step * MaxLen
  BY <1>1, <1>2 DEF IsLength
<1>5. ~(MaxLen < l)
  <2>1. MaxLen < l <=> Step * MaxLen < Step * l
    BY <1>1, <1>3, Scaled
  <2>2. QED BY <1>1, <1>2, <1>3, <1>4, <2>1
<1>6. ~(l < 0)
  <2>1. l < 0 <=> Step * l < Step * 0
    BY <1>3, Scaled
  <2>2. Step * 0 = 0
    BY <1>1
  <2>3. QED BY <1>2, <1>3, <1>4, <2>1, <2>2
<1>7. QED BY <1>1, <1>3, <1>5, <1>6

LEMMA LengthNarrows ==
    ASSUME Form(base, norm), base \in {"String", "List", "Tuple"},
           NEW op \in {"Gt", "Ge", "Lt", "Le"}, NEW l \in 0..MaxLen, ~Overflow(op, l),
           NEW c, c = [norm EXCEPT !.length = ApplyLen(op, l)]
    PROVE  /\ Form(base, c)
           /\ \A v \in Values(base) :
                Accepts(v, c) <=> Accepts(v, norm) /\ Meaning!Compare(Step * v.len, op, Step * l)
<1> DEFINE b == norm.length
           r == ApplyLen(op, l)
<1>1. norm \in Norm /\ Discrete(b) /\ b \in Limits /\ MaxLen \in Nat /\ l \in Int
  BY NormIs, LengthsAssumption DEF Form
<1>2. /\ r \in Limits /\ Discrete(r) /\ r.flags # {}
      /\ \A x \in Int : Within(x, r, FALSE) <=> Within(x, b, FALSE) /\ Meaning!Compare(x, op, l)
  <2>1. CASE op = "Gt"
    <3>1. Wrap(l + 1) = l + 1 /\ l + 1 \in Int
      BY <1>1, <2>1 DEF Wrap, Overflow
    <3>2. r = ApplyDiscrete(b, "Ge", l + 1, 1)
      BY <2>1, <3>1 DEF ApplyLen
    <3> HIDE DEF b, r
    <3>3. Narrowed(r, b, "Ge", l + 1, 1)
      BY <1>1, <3>1, <3>2, ApplyDiscreteIs
    <3>4. \A x \in Int : Apart(x, l + 1, 1) /\ (x >= l + 1 <=> x > l)
      BY <1>1 DEF Apart
    <3>5. QED BY <2>1, <3>3, <3>4, CompareIs DEF Narrowed
  <2>2. CASE op # "Gt"
    <3>1. r = ApplyDiscrete(b, op, l, 1)
      BY <2>2 DEF ApplyLen
    <3> HIDE DEF b, r
    <3>2. Narrowed(r, b, op, l, 1)
      BY <1>1, <3>1, ApplyDiscreteIs
    <3>3. \A x \in Int : Apart(x, l, 1)
      BY <1>1 DEF Apart
    <3>4. QED BY <3>2, <3>3 DEF Narrowed
  <2>3. QED BY <2>1, <2>2
<1>3. /\ c.length = r /\ c.reals = norm.reals /\ c.ints = norm.ints /\ c.format = norm.format
      /\ c.hasEnum = norm.hasEnum /\ c.enum = norm.enum
  BY <1>1 DEF Norm
<1>4. c \in Norm
  BY <1>1, <1>2 DEF Norm
<1> HIDE DEF b, r
<1>5. Form(base, c)
  BY <1>2, <1>3, <1>4 DEF Form, Fits
<1>6. ASSUME NEW v \in Values(base)
      PROVE  Accepts(v, c) <=> Accepts(v, norm) /\ Meaning!Compare(Step * v.len, op, Step * l)
  <2>1. v.len \in Int /\ v.kind \in {"StringAtom", "List", "Tuple"}
    BY ValueIs, ValuesAre DEF BaseKinds
  <2>2. Meaning!Compare(v.len, op, l) <=> Meaning!Compare(Step * v.len, op, Step * l)
    <3>1. Step * v.len \in Int /\ Step * l \in Int
      BY <1>1, <2>1, PointsAssumption
    <3>2. /\ v.len < l <=> Step * v.len < Step * l
          /\ v.len > l <=> Step * v.len > Step * l
      BY <1>1, <2>1, Scaled
    <3>3. QED BY <1>1, <2>1, <3>1, <3>2 DEF Meaning!Compare
  <2>3. LengthOk(v, r) <=> LengthOk(v, b) /\ Meaning!Compare(v.len, op, l)
    BY <1>2, <2>1, NoLimits DEF LengthOk
  <2>4. QED BY <1>3, <2>2, <2>3, AcceptsIs DEF LimitsOk, b
<1>7. QED BY <1>5, <1>6

\* Literals of an enum the base can be compared with.
Literal(b, a) == IsAtom(a) /\ AtomCompat(b, a)

LEMMA EnumsMeet ==
    ASSUME NEW old \in Seq(Atoms), NEW new \in Seq(Atoms), NEW v
    PROVE  /\ Intersect(old, new) \in Seq(Atoms)
           /\ Sorted(old) => Sorted(Intersect(old, new))
           /\ \A i \in DOMAIN Intersect(old, new) : \E k \in DOMAIN old : Intersect(old, new)[i] = old[k]
           /\ InEnum(v, Intersect(old, new)) <=> InEnum(v, old) /\ InEnum(v, new)
<1> DEFINE S == {a \in Range(old) : \E k \in DOMAIN new : SameAtom(a, new[k])}
           out == Intersect(old, new)
<1>1. \A k \in DOMAIN old : old[k] \in S <=> \E j \in DOMAIN new : SameAtom(old[k], new[j])
  BY DEF Range
<1>2. out = Kept(old, S)
  BY DEF Intersect
<1> HIDE DEF S
<1>3. /\ out \in Seq(Atoms)
      /\ \A i \in DOMAIN out : \E k \in DOMAIN old : out[i] = old[k] /\ old[k] \in S
      /\ \A k \in DOMAIN old : old[k] \in S => \E i \in DOMAIN out : out[i] = old[k]
      /\ Sorted(old) => Sorted(out)
  <2>1. IsKept(out, old, S)
    BY <1>2, KeptIs
  <2> HIDE DEF out
  <2>2. QED BY <2>1 DEF IsKept
<1> HIDE DEF out
<1>4. ASSUME InEnum(v, out) PROVE InEnum(v, old) /\ InEnum(v, new)
  <2>1. PICK i \in DOMAIN out : v.kind \notin {"List", "Tuple"} /\ SameAtom(v, out[i])
    BY <1>4 DEF InEnum
  <2>2. PICK k \in DOMAIN old : out[i] = old[k] /\ old[k] \in S
    BY <1>3
  <2>3. PICK j \in DOMAIN new : SameAtom(old[k], new[j])
    BY <1>1, <2>2
  <2>4. SameAtom(v, old[k]) /\ SameAtom(v, new[j])
    BY <2>1, <2>2, <2>3, SameAtomIs
  <2>5. QED BY <2>1, <2>4 DEF InEnum
<1>5. ASSUME InEnum(v, old), InEnum(v, new) PROVE InEnum(v, out)
  <2>1. PICK k \in DOMAIN old : v.kind \notin {"List", "Tuple"} /\ SameAtom(v, old[k])
    BY <1>5 DEF InEnum
  <2>2. PICK j \in DOMAIN new : SameAtom(v, new[j])
    BY <1>5 DEF InEnum
  <2>3. SameAtom(old[k], new[j])
    BY <2>1, <2>2, SameAtomIs
  <2>4. PICK i \in DOMAIN out : out[i] = old[k]
    BY <1>1, <1>3, <2>3
  <2>5. QED BY <2>1, <2>4 DEF InEnum
<1>6. QED BY <1>3, <1>4, <1>5 DEF out

LEMMA SortedEnum ==
    ASSUME NEW s \in Seq(Atoms), NEW v
    PROVE  InEnum(v, SortUniqueTypes(s)) <=> InEnum(v, s)
<1> DEFINE out == SortUniqueTypes(s)
<1>1. /\ \A i \in DOMAIN out : \E k \in DOMAIN s : out[i] = s[k]
      /\ \A k \in DOMAIN s : \E i \in DOMAIN out : SameAtom(out[i], s[k])
  BY SortUniqueIs, Zenon
<1> HIDE DEF out
<1>2. InEnum(v, out) => InEnum(v, s)
  BY <1>1 DEF InEnum
<1>3. ASSUME InEnum(v, s) PROVE InEnum(v, out)
  <2>1. PICK k \in DOMAIN s : v.kind \notin {"List", "Tuple"} /\ SameAtom(v, s[k])
    BY <1>3 DEF InEnum
  <2>2. PICK i \in DOMAIN out : SameAtom(out[i], s[k])
    BY <1>1
  <2>3. SameAtom(v, out[i])
    BY <2>1, <2>2, SameAtomIs
  <2>4. QED BY <2>1, <2>3 DEF InEnum
<1>4. QED BY <1>2, <1>3 DEF out

LEMMA RealFromIntIs ==
    ASSUME NEW a, Literal("Real", a)
    PROVE  Literal("Real", RealFromInt(a)) /\ \A v : SameAtom(v, RealFromInt(a)) <=> SameAtom(v, a)
<1>1. a \in Atoms /\ a.kind \in Numeric /\ a.len = 0
  BY DEF Literal, IsAtom, AtomCompat, Numeric
<1>2. /\ RealFromInt(a) \in Atoms /\ RealFromInt(a).kind = "RealAtom"
      /\ RealFromInt(a).n = a.n /\ RealFromInt(a).len = 0
  BY <1>1 DEF RealFromInt, Atoms, AtomKinds, Numeric
<1>3. Rank(RealFromInt(a)) = Rank(a)
  BY <1>1, <1>2 DEF Rank, Numeric
<1>4. Literal("Real", RealFromInt(a))
  BY <1>2 DEF Literal, IsAtom, AtomCompat, Numeric
<1>5. QED BY <1>2, <1>3, <1>4 DEF SameAtom

LEMMA EnumNarrows ==
    ASSUME Form(base, norm), NEW values \in Seq(Atoms),
           \A k \in DOMAIN values : Literal(base, values[k]), NEW c, c = AddEnum(values)
    PROVE  /\ Form(base, c)
           /\ \A v \in Values(base) : Accepts(v, c) <=> Accepts(v, norm) /\ InEnum(v, values)
<1> DEFINE conv == IF base = "Real" THEN [k \in DOMAIN values |-> RealFromInt(values[k])] ELSE values
           w == SortUniqueTypes(conv)
           e == IF norm.hasEnum THEN Intersect(norm.enum, w) ELSE w
<1>1. /\ norm \in Norm /\ norm.enum \in Seq(Atoms) /\ Sorted(norm.enum)
      /\ \A k \in DOMAIN norm.enum : Literal(base, norm.enum[k])
  BY NormIs DEF Form, Fits, Literal
<1>2. /\ conv \in Seq(Atoms) /\ DOMAIN conv = DOMAIN values
      /\ \A k \in DOMAIN values : Literal(base, conv[k])
      /\ \A k \in DOMAIN values : \A v : SameAtom(v, conv[k]) <=> SameAtom(v, values[k])
  <2>1. CASE base = "Real"
    <3>1. conv = [k \in DOMAIN values |-> RealFromInt(values[k])]
      BY <2>1
    <3>2. \A k \in DOMAIN values : RealFromInt(values[k]) \in Atoms
      BY <2>1, RealFromIntIs DEF Literal, IsAtom
    <3>3. DOMAIN values = 1..Len(values) /\ Len(values) \in Nat
      OBVIOUS
    <3>4. conv \in Seq(Atoms)
      <4>1. conv \in [1..Len(values) -> Atoms]
        BY <3>1, <3>2, <3>3, Zenon
      <4>2. QED BY <3>3, <4>1, SeqDef
    <3>5. \A k \in DOMAIN values : conv[k] = RealFromInt(values[k])
      BY <3>1
    <3> HIDE DEF conv
    <3>6. QED BY <2>1, <3>1, <3>4, <3>5, RealFromIntIs
  <2>2. CASE base # "Real"
    BY <2>2
  <2>3. QED BY <2>1, <2>2
<1> HIDE DEF conv
<1>3. w \in Seq(Atoms) /\ Sorted(w) /\ \A i \in DOMAIN w : \E k \in DOMAIN conv : w[i] = conv[k]
  BY <1>2, SortUniqueIs
<1>4. \A i \in DOMAIN w : Literal(base, w[i])
  BY <1>2, <1>3
<1>5. \A v : InEnum(v, conv) <=> InEnum(v, values)
  BY <1>2 DEF InEnum
<1>6. \A v : InEnum(v, w) <=> InEnum(v, values)
  BY <1>2, <1>5, SortedEnum
<1> HIDE DEF w
<1>7. /\ e \in Seq(Atoms) /\ Sorted(e) /\ \A i \in DOMAIN e : Literal(base, e[i])
      /\ \A v : InEnum(v, e) <=> (norm.hasEnum => InEnum(v, norm.enum)) /\ InEnum(v, w)
  <2>1. CASE norm.hasEnum
    <3>1. e = Intersect(norm.enum, w)
      BY <2>1
    <3> HIDE DEF e
    <3>2. /\ e \in Seq(Atoms) /\ Sorted(e)
          /\ \A i \in DOMAIN e : \E k \in DOMAIN norm.enum : e[i] = norm.enum[k]
      BY <1>1, <1>3, <3>1, EnumsMeet
    <3>3. \A v : InEnum(v, e) <=> InEnum(v, norm.enum) /\ InEnum(v, w)
      BY <1>1, <1>3, <3>1, EnumsMeet
    <3>4. \A i \in DOMAIN e : Literal(base, e[i])
      BY <1>1, <3>2
    <3>5. QED BY <2>1, <3>2, <3>3, <3>4
  <2>2. CASE ~norm.hasEnum
    BY <1>3, <1>4, <2>2
  <2>3. QED BY <2>1, <2>2
<1>8. c = [norm EXCEPT !.hasEnum = TRUE, !.enum = e]
  BY DEF AddEnum, e, w, conv
<1> HIDE DEF e
<1>9. /\ c.length = norm.length /\ c.reals = norm.reals /\ c.ints = norm.ints
      /\ c.format = norm.format /\ c.hasEnum = TRUE /\ c.enum = e
  BY <1>1, <1>8 DEF Norm
<1>10. c \in Norm
  BY <1>1, <1>7, <1>8 DEF Norm
<1>11. Fits(base, c)
  BY <1>7, <1>9 DEF Form, Fits, Literal
<1>12. Form(base, c)
  BY <1>7, <1>9, <1>10, <1>11 DEF Form
<1>13. ASSUME NEW v \in Values(base)
       PROVE  Accepts(v, c) <=> Accepts(v, norm) /\ InEnum(v, values)
  <2>1. LimitsOk(v, c) <=> LimitsOk(v, norm)
    BY <1>9 DEF LimitsOk
  <2>2. InEnum(v, c.enum) <=> (norm.hasEnum => InEnum(v, norm.enum)) /\ InEnum(v, values)
    BY <1>6, <1>7, <1>9
  <2>3. QED BY <1>9, <2>1, <2>2, AcceptsIs
<1>14. QED BY <1>12, <1>13

(***************************************************************************)
(* finish() changes the form and not what it accepts.                      *)
(***************************************************************************)
LEMMA TupleDecided ==
    ASSUME Form(base, norm), base \in BaseKinds, TupleFits(norm), NEW n, n = WithoutTupleLength(norm)
    PROVE  Form(base, n) /\ \A v \in Values(base) : Accepts(v, n) <=> Accepts(v, norm)
<1>1. CASE base # "Tuple"
  BY <1>1 DEF WithoutTupleLength
<1>2. CASE base = "Tuple"
  <2>1. n = [norm EXCEPT !.length = NoBounds] /\ norm \in Norm
    BY <1>2 DEF WithoutTupleLength, Form
  <2>2. NoBounds \in Limits /\ NoBounds.flags = {}
    BY DEF NoBounds, Limits
  <2>3. n \in Norm
    BY <2>1, <2>2 DEF Norm
  <2>4. /\ n.length = NoBounds /\ n.reals = norm.reals /\ n.ints = norm.ints
        /\ n.format = norm.format /\ n.hasEnum = norm.hasEnum /\ n.enum = norm.enum
    BY <2>1 DEF Norm
  <2>5. Form(base, n)
    BY <2>2, <2>3, <2>4 DEF Form, Fits, Discrete
  <2>6. ASSUME NEW v \in Values(base) PROVE Accepts(v, n) <=> Accepts(v, norm)
    <3>1. v.kind = "Tuple" /\ v.len = TupleLen
      BY <1>2, ValuesAre
    <3>2. LengthOk(v, norm.length)
      BY <1>2, <3>1 DEF TupleFits, LengthOk
    <3>3. LengthOk(v, n.length)
      BY <2>2, <2>4 DEF LengthOk
    <3>4. QED BY <2>4, <3>2, <3>3, AcceptsIs DEF LimitsOk
  <2>7. QED BY <2>5, <2>6
<1>3. QED BY <1>1, <1>2

\* One literal alone.
LEMMA OneLiteral ==
    ASSUME NEW b, NEW a, Literal(b, a)
    PROVE  /\ <<a>> \in Seq(Atoms) /\ Sorted(<<a>>)
           /\ \A k \in DOMAIN <<a>> : Literal(b, <<a>>[k])
           /\ \A v : InEnum(v, <<a>>) <=> v.kind \notin {"List", "Tuple"} /\ SameAtom(v, a)
  BY DEF Literal, IsAtom, Sorted, InEnum

LEMMA SingleIs ==
    ASSUME NEW n, Form(base, n), NEW c, c = AsEnum(n)
    PROVE  Form(base, c) /\ \A v \in Values(base) : Accepts(v, c) <=> Accepts(v, n)
<1>1. /\ n \in Norm /\ n.ints \in Limits /\ n.reals \in Limits /\ Whole(n.ints)
      /\ n.ints.min \in Int /\ n.ints.max \in Int /\ n.reals.min \in Int /\ n.reals.max \in Int
      /\ Fits(base, n)
  BY NormIs DEF Form, Limits
<1>2. /\ NoBounds \in Limits /\ NoBounds.flags = {} /\ Whole(NoBounds)
  BY UnconstrainedIs DEF Unconstrained, Finished, NoBounds, Limits
<1>3. CASE ~n.hasEnum /\ base = "Int" /\ Both(n.ints) /\ n.ints.min = n.ints.max
  <2> DEFINE a == Value("IntAtom", n.ints.min, 0)
  <2>1. c = [n EXCEPT !.hasEnum = TRUE, !.ints = NoBounds, !.enum = <<a>>]
    BY <1>3 DEF AsEnum
  <2>2. Literal("Int", a) /\ a.n = n.ints.min /\ a.kind = "IntAtom"
    BY <1>1 DEF Literal, IsAtom, AtomCompat, Atoms, AtomKinds, Value, Whole
  <2> HIDE DEF a
  <2>3. /\ <<a>> \in Seq(Atoms) /\ Sorted(<<a>>) /\ \A k \in DOMAIN <<a>> : Literal("Int", <<a>>[k])
        /\ \A v : InEnum(v, <<a>>) <=> v.kind \notin {"List", "Tuple"} /\ SameAtom(v, a)
    BY <2>2, OneLiteral
  <2>4. c \in Norm
    BY <1>1, <1>2, <2>1, <2>3 DEF Norm
  <2>5. /\ c.length = n.length /\ c.reals = n.reals /\ c.ints = NoBounds
        /\ c.format = n.format /\ c.hasEnum = TRUE /\ c.enum = <<a>>
    BY <1>1, <2>1 DEF Norm
  <2>6. Form(base, c)
    BY <1>2, <1>3, <2>3, <2>4, <2>5 DEF Form, Fits, Literal
  <2>7. ASSUME NEW v \in Values(base) PROVE Accepts(v, c) <=> Accepts(v, n)
    <3>1. v.kind = "IntAtom" /\ v.n \in Int
      BY <1>3, ValuesAre, ValueIs DEF BaseKinds
    <3>2. IntsOk(v, c.ints)
      BY <1>2, <2>5 DEF IntsOk
    <3>3. IntsOk(v, n.ints) <=> v.n = n.ints.min
      BY <1>1, <1>3, <3>1 DEF IntsOk, Both, Within
    <3>4. InEnum(v, c.enum) <=> v.n = n.ints.min
      BY <2>2, <2>3, <2>5, <3>1 DEF SameAtom, Rank, Numeric
    <3>5. QED BY <1>3, <2>5, <3>2, <3>3, <3>4, AcceptsIs DEF LimitsOk
  <2>8. QED BY <2>6, <2>7
<1>4. CASE ~n.hasEnum /\ base = "Real" /\ n.reals.flags = BoundFlags /\ n.reals.min = n.reals.max
  <2> DEFINE a == Value("RealAtom", n.reals.min, 0)
  <2>1. c = [n EXCEPT !.hasEnum = TRUE, !.reals = NoBounds, !.enum = <<a>>]
    BY <1>4 DEF AsEnum
  <2>2. Literal("Real", a) /\ a.n = n.reals.min /\ a.kind = "RealAtom"
    BY <1>1 DEF Literal, IsAtom, AtomCompat, Atoms, AtomKinds, Value, Numeric
  <2> HIDE DEF a
  <2>3. /\ <<a>> \in Seq(Atoms) /\ Sorted(<<a>>) /\ \A k \in DOMAIN <<a>> : Literal("Real", <<a>>[k])
        /\ \A v : InEnum(v, <<a>>) <=> v.kind \notin {"List", "Tuple"} /\ SameAtom(v, a)
    BY <2>2, OneLiteral
  <2>4. c \in Norm
    BY <1>1, <1>2, <2>1, <2>3 DEF Norm
  <2>5. /\ c.length = n.length /\ c.reals = NoBounds /\ c.ints = n.ints
        /\ c.format = n.format /\ c.hasEnum = TRUE /\ c.enum = <<a>>
    BY <1>1, <2>1 DEF Norm
  <2>6. Form(base, c)
    BY <1>2, <1>4, <2>3, <2>4, <2>5 DEF Form, Fits, Literal
  <2>7. ASSUME NEW v \in Values(base) PROVE Accepts(v, c) <=> Accepts(v, n)
    <3>1. v.kind \in Numeric /\ v.n \in Int
      BY <1>4, ValuesAre, ValueIs DEF BaseKinds
    <3>2. RealsOk(v, c.reals)
      BY <1>2, <2>5 DEF RealsOk
    <3>3. RealsOk(v, n.reals) <=> v.n = n.reals.min
      BY <1>1, <1>4, <3>1 DEF RealsOk, BoundFlags, Within
    <3>4. InEnum(v, c.enum) <=> v.n = n.reals.min
      BY <2>2, <2>3, <2>5, <3>1 DEF SameAtom, Rank, Numeric
    <3>5. QED BY <1>4, <2>5, <3>2, <3>3, <3>4, AcceptsIs DEF LimitsOk
  <2>8. QED BY <2>6, <2>7
<1>5. CASE /\ ~(~n.hasEnum /\ base = "Int" /\ Both(n.ints) /\ n.ints.min = n.ints.max)
           /\ ~(~n.hasEnum /\ base = "Real" /\ n.reals.flags = BoundFlags /\ n.reals.min = n.reals.max)
  <2>1. c = n
    BY <1>5 DEF AsEnum
  <2>2. QED BY <2>1
<1>6. QED BY <1>3, <1>4, <1>5

\* A value and the literal it equals are within the same limits.
LEMMA SameLimits ==
    ASSUME NEW b, NEW c, Fits(b, c), NEW a, Literal(b, a),
           NEW v, v \in Values(b) \/ Literal(b, v), v.kind \notin {"List", "Tuple"}, SameAtom(v, a)
    PROVE  AcceptsLimits(v, c) <=> AcceptsLimits(a, c)
<1>1. CASE b = "Int"
  <2>1. v.kind = "IntAtom" /\ a.kind = "IntAtom" /\ v.n = a.n
    BY <1>1, ValuesAre DEF Literal, AtomCompat, SameAtom
  <2>2. c.reals.flags = {} /\ c.format = "noFmt" /\ c.length.flags = {}
    BY <1>1 DEF Fits
  <2>3. QED BY <2>1, <2>2 DEF AcceptsLimits
<1>2. CASE b = "Real"
  <2>1. v.kind \in Numeric /\ a.kind \in Numeric /\ v.n = a.n
    BY <1>2, ValuesAre DEF Literal, AtomCompat, SameAtom
  <2>2. c.ints.flags = {} /\ c.length.flags = {}
    BY <1>2 DEF Fits
  <2>3. QED BY <2>1, <2>2 DEF AcceptsLimits
<1>3. CASE b = "String"
  <2>1. v.kind = "StringAtom" /\ a.kind = "StringAtom" /\ v.n = a.n
    BY <1>3, ValuesAre DEF Literal, AtomCompat, SameAtom
  <2>2. <<v.n, v.len>> \in Strings /\ <<a.n, a.len>> \in Strings
    BY <1>3, <2>1, ValuesAre DEF Literal, IsAtom
  <2>3. v.len = a.len
    <3>1. <<v.n, v.len>>[1] = <<a.n, a.len>>[1]
      BY <2>1
    <3>2. <<v.n, v.len>> = <<a.n, a.len>>
      BY <2>2, <3>1, LengthsAssumption, Zenon
    <3>3. QED BY <3>2
  <2>4. c.ints.flags = {} /\ c.reals.flags = {} /\ c.format = "noFmt"
    BY <1>3 DEF Fits
  <2>5. QED BY <2>1, <2>3, <2>4 DEF AcceptsLimits
<1>4. CASE b \notin {"Int", "Real", "String"}
  <2>1. AtomCompat(b, a) => b \notin {"List", "Tuple"}
    BY DEF AtomCompat
  <2>2. c.ints.flags = {} /\ c.reals.flags = {} /\ c.format = "noFmt" /\ c.length.flags = {}
    BY <1>4, <2>1 DEF Fits, Literal
  <2>3. QED BY <2>2 DEF AcceptsLimits
<1>5. QED BY <1>1, <1>2, <1>3, <1>4

LEMMA FilteredIs ==
    ASSUME NEW n, Form(base, n)
    PROVE  /\ Filtered(n) \in Seq(Atoms) /\ Sorted(Filtered(n))
           /\ \A i \in DOMAIN Filtered(n) : Literal(base, Filtered(n)[i])
           /\ \A v \in Values(base) :
                InEnum(v, Filtered(n)) <=> InEnum(v, n.enum) /\ AcceptsLimits(v, n)
<1> DEFINE S == {a \in Range(n.enum) : AcceptsLimits(a, n)}
           out == Filtered(n)
           old == n.enum
<1>1. old \in Seq(Atoms) /\ Sorted(old) /\ \A k \in DOMAIN old : Literal(base, old[k])
  BY NormIs DEF Form, Fits, Literal
<1>2. \A k \in DOMAIN old : old[k] \in S <=> AcceptsLimits(old[k], n)
  BY DEF Range
<1>3. out = Kept(old, S)
  BY DEF Filtered
<1> HIDE DEF S, out, old
<1>4. IsKept(out, old, S)
  BY <1>1, <1>3, KeptIs
<1>5. out \in Seq(Atoms) /\ Sorted(out) /\ \A i \in DOMAIN out : Literal(base, out[i])
  BY <1>1, <1>4 DEF IsKept
<1>6. Fits(base, n)
  BY DEF Form
<1>7. ASSUME NEW v \in Values(base), InEnum(v, out)
      PROVE  InEnum(v, old) /\ AcceptsLimits(v, n)
  <2>1. PICK i \in DOMAIN out : v.kind \notin {"List", "Tuple"} /\ SameAtom(v, out[i])
    BY <1>7 DEF InEnum
  <2>2. PICK k \in DOMAIN old : out[i] = old[k] /\ old[k] \in S
    BY <1>4 DEF IsKept
  <2>3. AcceptsLimits(v, n)
    BY <1>1, <1>2, <1>6, <2>1, <2>2, SameLimits
  <2>4. QED BY <2>1, <2>2, <2>3 DEF InEnum
<1>8. ASSUME NEW v \in Values(base), InEnum(v, old), AcceptsLimits(v, n)
      PROVE  InEnum(v, out)
  <2>1. PICK k \in DOMAIN old : v.kind \notin {"List", "Tuple"} /\ SameAtom(v, old[k])
    BY <1>8 DEF InEnum
  <2>2. AcceptsLimits(old[k], n)
    BY <1>1, <1>6, <1>8, <2>1, SameLimits
  <2>3. PICK i \in DOMAIN out : out[i] = old[k]
    BY <1>2, <1>4, <2>2 DEF IsKept
  <2>4. QED BY <2>1, <2>3 DEF InEnum
<1>9. QED BY <1>5, <1>7, <1>8 DEF out, old

LEMMA FinalIs ==
    ASSUME NEW n, Form(base, n), n.hasEnum => Filtered(n) # <<>>, NEW c, c = Final(n)
    PROVE  /\ c \in Norm /\ Finished(c) /\ Fits(base, c)
           /\ \A v \in Values(base) : Accepts(v, c) <=> Accepts(v, n)
<1>1. CASE n.hasEnum
  <2> DEFINE f == Filtered(n)
  <2>1. c = [Unconstrained EXCEPT !.hasEnum = TRUE, !.enum = f]
    BY <1>1 DEF Final
  <2>2. /\ f \in Seq(Atoms) /\ Sorted(f) /\ f # <<>>
        /\ \A i \in DOMAIN f : Literal(base, f[i])
        /\ \A v \in Values(base) : InEnum(v, f) <=> InEnum(v, n.enum) /\ AcceptsLimits(v, n)
    BY <1>1, FilteredIs
  <2> HIDE DEF f
  <2>3. c \in Norm /\ c.hasEnum = TRUE /\ c.enum = f
    BY <2>1, <2>2, UnconstrainedIs DEF Norm
  <2>4. /\ c.ints = Unconstrained.ints /\ c.reals = Unconstrained.reals
        /\ c.length = Unconstrained.length /\ c.format = Unconstrained.format
    BY <2>1, UnconstrainedIs DEF Norm
  <2>5. Finished(c)
    <3>1. c = [Unconstrained EXCEPT !.hasEnum = TRUE, !.enum = c.enum]
      BY <2>1, <2>3
    <3>2. Whole(c.ints) /\ Discrete(c.length)
      BY <2>4, UnconstrainedIs DEF Finished
    <3>3. QED BY <2>2, <2>3, <3>1, <3>2 DEF Finished
  <2>6. Fits(base, c)
    BY <2>2, <2>3, <2>4, UnconstrainedIs DEF Fits, Literal
  <2>7. ASSUME NEW v \in Values(base) PROVE Accepts(v, c) <=> Accepts(v, n)
    <3>1. LimitsOk(v, c)
      BY <2>4, UnconstrainedIs, AcceptsIs DEF LimitsOk
    <3>2. Accepts(v, c) <=> InEnum(v, f)
      BY <2>3, <3>1, AcceptsIs
    <3>3. Accepts(v, n) <=> AcceptsLimits(v, n) /\ InEnum(v, n.enum)
      BY <1>1, AcceptsIs
    <3>4. QED BY <2>2, <3>2, <3>3
  <2>8. QED BY <2>3, <2>5, <2>6, <2>7
<1>2. CASE ~n.hasEnum
  <2>1. c = n /\ c.enum = <<>> /\ c \in Norm
    BY <1>2 DEF Final, Form
  <2>2. c = [c EXCEPT !.enum = <<>>]
    BY <2>1, SameForm
  <2>3. Whole(c.ints) /\ Discrete(c.length) /\ Fits(base, c)
    BY <2>1 DEF Form
  <2>4. Finished(c)
    BY <1>2, <2>1, <2>2, <2>3 DEF Finished
  <2>5. QED BY <2>1, <2>3, <2>4
<1>3. QED BY <1>1, <1>2

\* Limits that exclude each other accept nothing.
LEMMA NothingLeft ==
    ASSUME Form(base, norm), base \in BaseKinds,
           \/ EmptyDiscrete(norm.ints) \/ EmptyReal(norm.reals)
           \/ EmptyDiscrete(norm.length) \/ ~TupleFits(norm)
    PROVE  \A v \in Values(base) : ~Accepts(v, norm)
<1> SUFFICES ASSUME NEW v \in Values(base), LimitsOk(v, norm)
             PROVE  FALSE
  BY AcceptsIs
<1>1. v.n \in Int /\ v.len \in Int
  BY ValueIs
<1>2. /\ norm.ints.min \in Int /\ norm.ints.max \in Int /\ norm.reals.min \in Int
      /\ norm.reals.max \in Int /\ norm.length.min \in Int /\ norm.length.max \in Int
  BY NormIs DEF Form, Limits
<1>3. CASE EmptyDiscrete(norm.ints)
  BY <1>1, <1>2, <1>3 DEF EmptyDiscrete, Both, LimitsOk, IntsOk, Within
<1>4. CASE EmptyReal(norm.reals)
  BY <1>1, <1>2, <1>4 DEF EmptyReal, Both, LimitsOk, RealsOk, Within
<1>5. CASE EmptyDiscrete(norm.length)
  BY <1>1, <1>2, <1>5 DEF EmptyDiscrete, Both, LimitsOk, LengthOk, Within
<1>6. CASE ~TupleFits(norm)
  <2>1. v.kind = "Tuple" /\ v.len = TupleLen
    BY <1>6, ValuesAre DEF TupleFits
  <2>2. ~Within(v.len, norm.length, FALSE)
    BY <1>6, <2>1 DEF TupleFits
  <2>3. norm.length.flags # {}
    BY <2>2, NoLimits
  <2>4. QED BY <2>2, <2>3 DEF LimitsOk, LengthOk
<1>7. QED BY <1>3, <1>4, <1>5, <1>6

(***************************************************************************)
(* The abstract state.                                                     *)
(***************************************************************************)
Accepting == [i \in DOMAIN types |-> Accepted(types[i])]
Draft == IF pc = "idle" \/ impossible THEN {} ELSE Inside(Denotes(base, norm), below)

\* What Inside says, of any table of constraints.
Held(S, ids, table) == {v \in S : \A k \in DOMAIN ids : Accepts(v, table[ids[k]])}

(***************************************************************************)
(* The inductive invariant: what is stored, and the schema in progress.    *)
(***************************************************************************)
Stored ==
    /\ types \in Seq(TypeNodes)
    /\ constraints \in Seq(Norm) /\ constraintHash \in Seq(Norm)
    /\ Len(constraints) = Len(constraintHash)
    /\ \A i \in DOMAIN constraints : Finished(constraints[i])
    /\ \A i \in DOMAIN types :
        /\ types[i].constraint \in 0..Len(constraints)
        /\ Fits(types[i].base, ConstraintOf(types[i].constraint))
        /\ Stacks(types[i].base, types[i].below)

InProgress ==
    /\ pc \in {"idle", "consume"} /\ base \in BaseKinds /\ source \in 0..Len(types)
    /\ Form(base, norm) /\ impossible \in BOOLEAN /\ consumed \in 0..MaxClauses
    /\ below \in Seq(Nat) /\ Stacks(base, below)
    /\ reading = Meaning!Idle <=> pc = "idle"

\* Nothing is read from the memory of a named type; before the first clause the
\* form means what the named type means, and a type that takes no clauses has had
\* none.
Untouched ==
    /\ shared = 0
    /\ pc = "consume" /\ source # 0 /\ consumed = 0 => Draft = Accepting[source]
    /\ pc = "consume" /\ ~Extends => source # 0 /\ consumed = 0

NInv == Stored /\ InProgress /\ Untouched

LEMMA NInvTypes == NInv => TypeOK
  BY DEF NInv, Stored, InProgress, Untouched, Form, TypeOK

(***************************************************************************)
(* The tables grow.                                                        *)
(***************************************************************************)
LEMMA AppendIs ==
    ASSUME NEW n \in Nat, NEW m, m = [i \in 1..n |-> m[i]], NEW x,
           NEW r, r = [i \in 1..(n + 1) |-> r[i]],
           \A i \in 1..n : r[i] = m[i], r[n + 1] = x
    PROVE  r = Append(m, x)
<1> DEFINE T == {m[i] : i \in 1..n} \cup {x}
<1>1. m \in Seq(T) /\ Len(m) = n
  <2>1. m \in [1..n -> T]
    <3>1. \A i \in 1..n : m[i] \in T
      OBVIOUS
    <3> HIDE DEF T
    <3>2. QED BY <3>1, Zenon
  <2> HIDE DEF T
  <2>2. QED BY <2>1, SeqDef, LenProperties
<1>2. x \in T
  OBVIOUS
<1> HIDE DEF T
<1>3. Append(m, x) \in Seq(T) /\ Len(Append(m, x)) = n + 1
  BY <1>1, <1>2, AppendProperties
<1>4. (\A i \in 1..n : Append(m, x)[i] = m[i]) /\ Append(m, x)[n + 1] = x
  BY <1>1, <1>2, AppendProperties
<1>5. Append(m, x) = [i \in 1..(n + 1) |-> Append(m, x)[i]]
  BY <1>3
<1>6. \A i \in 1..(n + 1) : i \in 1..n \/ i = n + 1
  OBVIOUS
<1>7. \A i \in 1..(n + 1) : r[i] = Append(m, x)[i]
  BY <1>4, <1>6, Zenon
<1>8. [i \in 1..(n + 1) |-> r[i]] = [i \in 1..(n + 1) |-> Append(m, x)[i]]
  BY <1>7, Zenon
<1>9. QED BY <1>5, <1>8, Zenon

LEMMA ConstraintOfIs ==
    ASSUME Stored, NEW j \in 0..Len(constraints)
    PROVE  ConstraintOf(j) \in Norm /\ Finished(ConstraintOf(j))
<1>1. CASE j = 0
  BY <1>1, UnconstrainedIs DEF ConstraintOf
<1>2. CASE j # 0
  <2>1. j \in DOMAIN constraints /\ constraints[j] \in Norm /\ Finished(constraints[j])
    BY <1>2 DEF Stored
  <2>2. QED BY <1>2, <2>1 DEF ConstraintOf
<1>3. QED BY <1>1, <1>2

LEMMA TablesKept ==
    ASSUME Stored, UNCHANGED <<types, constraints, constraintHash>>
    PROVE  Stored' /\ Accepting' = Accepting
  BY DEF Stored, Accepting, Accepted, ConstraintOf, Inside, Stacks

LEMMA InsideIs ==
    /\ \A S, ids : Inside(S, ids) = Held(S, ids, constraints)
    /\ \A S, table : Held(S, <<>>, table) = S
    /\ \A S, T, ids, table : Held(S \cap T, ids, table) = Held(S, ids, table) \cap T
  BY DEF Inside, Held

\* The constraints keep their places and stay what they are.
Grown ==
    /\ constraints' \in Seq(Norm) /\ constraintHash' \in Seq(Norm)
    /\ Len(constraints') = Len(constraintHash') /\ Len(constraints) <= Len(constraints')
    /\ \A j \in 1..Len(constraints) : constraints'[j] = constraints[j]
    /\ \A j \in 1..Len(constraints') : Finished(constraints'[j])

LEMMA HeldKept ==
    ASSUME Stored, Grown, NEW b, NEW ids, Stacks(b, ids)
    PROVE  /\ \A S : Held(S, ids, constraints') = Held(S, ids, constraints)
           /\ Stacks(b, ids)'
<1>1. /\ DOMAIN constraints = 1..Len(constraints) /\ DOMAIN constraints' = 1..Len(constraints')
      /\ Len(constraints) \in Nat /\ Len(constraints') \in Nat
  BY DEF Stored, Grown
<1>2. \A k \in DOMAIN ids : ids[k] \in 1..Len(constraints) /\ ids[k] \in DOMAIN constraints'
  BY <1>1 DEF Stacks, Grown
<1>3. \A k \in DOMAIN ids : constraints'[ids[k]] = constraints[ids[k]]
  BY <1>2 DEF Grown
<1>4. QED BY <1>2, <1>3 DEF Held, Stacks

LEMMA TypeAdded ==
    ASSUME Stored, Grown, NEW t \in TypeNodes,
           types' = Append(types, t), t.constraint \in 0..Len(constraints'),
           Fits(t.base, ConstraintOf(t.constraint)'), Stacks(t.base, t.below)
    PROVE  /\ Stored'
           /\ Accepting' = Append(Accepting,
                    Held(Denotes(t.base, ConstraintOf(t.constraint)'), t.below, constraints))
<1> DEFINE n == Len(types)
           T == TypeNodes
           x == Held(Denotes(t.base, ConstraintOf(t.constraint)'), t.below, constraints)
<1>1. types \in Seq(T) /\ constraints \in Seq(Norm)
  BY DEF Stored
<1>2. /\ types' \in Seq(T) /\ Len(types') = n + 1 /\ n \in Nat /\ types'[n + 1] = t
      /\ \A i \in 1..n : types'[i] = types[i]
      /\ DOMAIN types = 1..n /\ DOMAIN types' = 1..(n + 1)
  BY <1>1
<1> HIDE DEF T
<1>3. Len(constraints) \in Nat /\ Len(constraints') \in Nat
  BY <1>1 DEF Grown
<1>4. \A j \in 0..Len(constraints) : j \in 0..Len(constraints') /\ ConstraintOf(j)' = ConstraintOf(j)
  <2> SUFFICES ASSUME NEW j \in 0..Len(constraints)
               PROVE  j \in 0..Len(constraints') /\ ConstraintOf(j)' = ConstraintOf(j)
    OBVIOUS
  <2>1. CASE j = 0
    BY <1>3, <2>1 DEF ConstraintOf
  <2>2. CASE j # 0
    BY <1>3, <2>2 DEF ConstraintOf, Grown
  <2>3. QED BY <2>1, <2>2
<1>5. \A i \in 1..n : /\ types[i].constraint \in 0..Len(constraints)
                      /\ Fits(types[i].base, ConstraintOf(types[i].constraint))
                      /\ Stacks(types[i].base, types[i].below)
  BY <1>2 DEF Stored
<1>6. \A i \in 1..(n + 1) : i \in 1..n \/ i = n + 1
  BY <1>2
<1>7. ASSUME NEW i \in 1..(n + 1)
      PROVE  /\ types'[i].constraint \in 0..Len(constraints')
             /\ Fits(types'[i].base, ConstraintOf(types[i].constraint)')
             /\ Stacks(types[i].base, types[i].below)'
  <2>1. CASE i \in 1..n
    <3>1. types'[i] = types[i]
      BY <1>2, <2>1
    <3>2. Stacks(types[i].base, types[i].below)'
      <4>1. PICK b, ids : b = types[i].base /\ ids = types[i].below
        OBVIOUS
      <4>2. Stacks(b, ids)'
        BY <1>5, <2>1, <4>1, HeldKept
      <4>3. QED BY <3>1, <4>1, <4>2 DEF Stacks
    <3>3. QED BY <1>2, <1>4, <1>5, <2>1, <3>2
  <2>2. CASE i = n + 1
    <3>1. types'[i] = t
      BY <1>2, <2>2
    <3>2. ConstraintOf(types[i].constraint)' = ConstraintOf(t.constraint)'
      BY <3>1 DEF ConstraintOf
    <3>3. Stacks(types[i].base, types[i].below)'
      <4>1. Stacks(t.base, t.below)'
        BY HeldKept
      <4>2. QED BY <3>1, <4>1 DEF Stacks
    <3>4. QED BY <3>1, <3>2, <3>3
  <2>3. QED BY <1>6, <2>1, <2>2
<1>8. Stored'
  <2>1. types' \in Seq(TypeNodes)
    BY <1>2 DEF T
  <2>2. DOMAIN constraints' = 1..Len(constraints')
    BY DEF Grown
  <2>3. \A i \in DOMAIN types' : types'[i].constraint \in 0..Len(constraints')
                                    /\ Fits(types'[i].base, ConstraintOf(types[i].constraint)')
                                    /\ Stacks(types[i].base, types[i].below)'
    BY <1>2, <1>7
  <2>4. QED BY <2>1, <2>2, <2>3 DEF Stored, Grown
<1>9. ASSUME NEW i \in 1..n PROVE Accepting'[i] = Accepting[i]
  <2>1. i \in DOMAIN types /\ i \in DOMAIN types' /\ types'[i] = types[i]
    BY <1>2, <1>6
  <2>2. ConstraintOf(types[i].constraint)' = ConstraintOf(types[i].constraint)
    <3>1. ConstraintOf(types[i].constraint)' =
            (IF types'[i].constraint = 0 THEN Unconstrained ELSE constraints'[types'[i].constraint])
      BY DEF ConstraintOf
    <3>2. \A j : j \in 0..Len(constraints) =>
            (IF j = 0 THEN Unconstrained ELSE constraints'[j]) = ConstraintOf(j)
      BY <1>4 DEF ConstraintOf
    <3>3. QED BY <1>5, <2>1, <3>1, <3>2
  <2>3. Accepting'[i] = Held(Denotes(types'[i].base, ConstraintOf(types[i].constraint)'),
                             types'[i].below, constraints')
    BY <2>1 DEF Accepting, Accepted, Inside, Held
  <2>4. Accepting[i] = Held(Denotes(types[i].base, ConstraintOf(types[i].constraint)),
                            types[i].below, constraints)
    BY <2>1 DEF Accepting, Accepted, Inside, Held
  <2>5. \A S : Held(S, types[i].below, constraints') = Held(S, types[i].below, constraints)
    <3>1. PICK b, ids : b = types[i].base /\ ids = types[i].below
      OBVIOUS
    <3>2. QED BY <1>5, <3>1, HeldKept
  <2>6. QED BY <2>1, <2>2, <2>3, <2>4, <2>5
<1>10. Accepting'[n + 1] = x
  <2> SUFFICES ASSUME NEW i \in 1..(n + 1), i = n + 1 PROVE Accepting'[i] = x
    BY <1>2
  <2>1. i \in DOMAIN types' /\ types'[i] = t
    BY <1>2
  <2>2. Accepting'[i] = Held(Denotes(types'[i].base, ConstraintOf(types[i].constraint)'),
                             types'[i].below, constraints')
    BY <2>1 DEF Accepting, Accepted, Inside, Held
  <2>3. ConstraintOf(types[i].constraint)' = ConstraintOf(t.constraint)'
    BY <2>1 DEF ConstraintOf
  <2>4. \A S : Held(S, t.below, constraints') = Held(S, t.below, constraints)
    BY HeldKept
  <2>5. QED BY <2>1, <2>2, <2>3, <2>4
<1>11. /\ Accepting = [i \in 1..n |-> Accepting[i]]
       /\ Accepting' = [i \in 1..(n + 1) |-> Accepting'[i]]
  BY <1>2, Zenon DEF Accepting
<1>12. Accepting' = Append(Accepting, x)
  <2> HIDE DEF x, n
  <2>1. QED BY <1>2, <1>9, <1>10, <1>11, AppendIs
<1>13. QED BY <1>8, <1>12

(***************************************************************************)
(* The steps of the abstract specification, of the state it is mapped to.  *)
(***************************************************************************)
Begins ==
    /\ reading = Meaning!Idle /\ Accepting' = Accepting
    /\ \/ \E b \in BaseKinds : reading' = Meaning!ReadBase(b) /\ Draft' = Values(b)
       \/ \E i \in DOMAIN Accepting : reading' = Meaning!ReadType(i) /\ Draft' = Accepting[i]

Narrows ==
    /\ reading # Meaning!Idle /\ Accepting' = Accepting
    /\ \E clause \in Clauses :
        reading' = Meaning!ReadClause(clause) /\ Draft' = Draft \cap Meaning!Sat(clause)

Concludes ==
    /\ reading # Meaning!Idle /\ reading' = Meaning!Idle /\ Draft' = {}
    /\ Accepting' = Append(Accepting, Draft)

Refuses ==
    /\ reading # Meaning!Idle /\ reading' = Meaning!Idle /\ Draft' = {}
    /\ Accepting' = Accepting

LEMMA Simulates ==
    ASSUME Begins \/ Narrows \/ Concludes \/ Refuses
    PROVE  Meaning!MeaningNext
<1>1. Begins => Meaning!Begin
  BY SameWords, Zenon DEF Begins, Meaning!Begin, Accepting, Draft
<1>2. Narrows => Meaning!Narrow
  BY Zenon DEF Narrows, Meaning!Narrow, Accepting, Draft
<1>3. Concludes => Meaning!Conclude
  BY Zenon DEF Concludes, Meaning!Conclude, Accepting, Draft
<1>4. Refuses => Meaning!Refuse
  BY Zenon DEF Refuses, Meaning!Refuse, Accepting, Draft
<1>5. QED BY <1>1, <1>2, <1>3, <1>4 DEF Meaning!MeaningNext

LEMMA ReadingIs ==
    /\ \A b : Meaning!ReadBase(b) # Meaning!Idle
    /\ \A i : Meaning!ReadType(i) # Meaning!Idle
    /\ \A c : Meaning!ReadClause(c) # Meaning!Idle
  BY DEF Meaning!ReadBase, Meaning!ReadType, Meaning!ReadClause, Meaning!Idle

(***************************************************************************)
(* Schemas start.                                                          *)
(***************************************************************************)
LEMMA StartBaseIs ==
    ASSUME NInv, StartBase
    PROVE  NInv' /\ Begins
<1>1. PICK b \in Bases : StartFrom(b, <<>>, 0, Unconstrained, 0, Meaning!ReadBase(b))
  BY DEF StartBase
<1>2. /\ pc = "idle" /\ pc' = "consume" /\ base' = b /\ below' = <<>> /\ source' = 0 /\ norm' = Unconstrained
      /\ shared' = 0 /\ impossible' = FALSE /\ consumed' = 0 /\ reading' = Meaning!ReadBase(b)
      /\ UNCHANGED <<types, constraints, constraintHash>>
  BY <1>1 DEF StartFrom
<1>3. b \in BaseKinds /\ MaxClauses \in Nat
  BY NormalizerAssumption
<1>4. Stored' /\ Accepting' = Accepting
  BY <1>2, TablesKept DEF NInv
<1>5. Len(types') \in Nat
  BY <1>2 DEF NInv, Stored
<1>6. InProgress'
  <2>1. reading' # Meaning!Idle
    BY <1>2, ReadingIs
  <2>2. Form(b, Unconstrained)
    BY UnconstrainedIs
  <2>3. Form(base, norm)'
    BY <1>2, <2>2 DEF Form, Fits
  <2>4. source' \in 0..Len(types') /\ consumed' \in 0..MaxClauses
    BY <1>2, <1>3, <1>5
  <2>5. pc' \in {"idle", "consume"} /\ base' \in BaseKinds /\ impossible' \in BOOLEAN
    BY <1>2, <1>3
  <2>6. (reading = Meaning!Idle <=> pc = "idle")'
    BY <1>2, <2>1
  <2>7. below' \in Seq(Nat) /\ Stacks(base, below)'
    BY <1>2 DEF Stacks
  <2>8. QED BY <2>3, <2>4, <2>5, <2>6, <2>7, Zenon DEF InProgress
<1>7. Untouched'
  <2>1. Extends'
    BY <1>2 DEF Extends
  <2>2. QED BY <1>2, <2>1 DEF Untouched
<1>8. Begins
  <2>1. Draft' = Values(b)
    <3>1. Draft' = Denotes(b, Unconstrained)
      <4>1. Draft' = Held(Denotes(b, Unconstrained), <<>>, constraints')
        BY <1>2 DEF Draft, Inside, Held, Denotes, Accepts, AcceptsLimits
      <4>2. QED BY <4>1, InsideIs
    <3>2. \A v \in Values(b) : Accepts(v, Unconstrained)
      BY UnconstrainedIs
    <3>3. QED BY <3>1, <3>2 DEF Denotes
  <2>2. reading = Meaning!Idle
    BY <1>2 DEF NInv, InProgress
  <2>3. QED BY <1>2, <1>3, <1>4, <2>1, <2>2 DEF Begins
<1>9. QED BY <1>4, <1>6, <1>7, <1>8 DEF NInv

\* A form that starts from a named type without an enum of numbers means what
\* the refinement it is merged with means.
LEMMA InheritedIs ==
    ASSUME Stored, NEW t \in TypeNodes,
           t.constraint \in 0..Len(constraints), NEW c, c = ConstraintOf(t.constraint),
           Fits(t.base, c), Merges(t), t.base \in {"Int", "Real"} => ~c.hasEnum,
           NEW n, n = Inherited(t)
    PROVE  /\ Form(t.base, n) /\ ~n.hasEnum
           /\ \A v \in Values(t.base) : Accepts(v, n) <=> Accepts(v, c)
<1>1. c \in Norm /\ Finished(c) /\ c.hasEnum \in BOOLEAN
  BY ConstraintOfIs, NormIs
<1>2. ASSUME ~c.hasEnum PROVE c.enum = <<>> /\ Sorted(c.enum) /\ DOMAIN c.enum = {}
  <2>1. c = [c EXCEPT !.enum = <<>>]
    BY <1>1, <1>2 DEF Finished
  <2>2. [c EXCEPT !.enum = <<>>].enum = <<>>
    BY <1>1 DEF Norm
  <2>3. c.enum = <<>>
    BY <2>1, <2>2
  <2>4. QED BY <2>3 DEF Sorted
<1>3. CASE t.base = "Int"
  <2>1. n = [Unconstrained EXCEPT !.ints = c.ints]
    BY <1>3 DEF Inherited
  <2>2. Unconstrained \in Norm /\ c.ints \in Limits
    BY <1>1, UnconstrainedIs, NormIs
  <2>3. /\ n.ints = c.ints /\ n.reals = NoBounds /\ n.length = NoBounds
        /\ n.format = "noFmt" /\ n.hasEnum = FALSE /\ n.enum = <<>>
    BY <2>1 DEF Unconstrained
  <2>4. n \in Norm
    BY <2>1, <2>2 DEF Norm
  <2>5. NoBounds.flags = {}
    BY DEF NoBounds
  <2>6. Form(t.base, n)
    BY <1>1, <1>2, <1>3, <2>3, <2>4, <2>5 DEF Form, Fits, Finished, Discrete
  <2>7. c.reals.flags = {} /\ c.format = "noFmt" /\ c.length.flags = {}
    BY <1>3 DEF Fits
  <2>8. \A v : Accepts(v, n) <=> Accepts(v, c)
    BY <1>3, <2>3, <2>5, <2>7 DEF Accepts, AcceptsLimits
  <2>9. QED BY <2>3, <2>6, <2>8
<1>4. CASE t.base = "Real"
  <2>1. n = [c EXCEPT !.ints = NoBounds, !.length = NoBounds]
    BY <1>4 DEF Inherited
  <2>2. NoBounds \in Limits /\ NoBounds.flags = {} /\ Whole(NoBounds) /\ Discrete(NoBounds)
    BY UnconstrainedIs DEF Unconstrained, Finished, NoBounds, Limits
  <2>3. /\ n.ints = NoBounds /\ n.reals = c.reals /\ n.length = NoBounds
        /\ n.format = c.format /\ n.hasEnum = c.hasEnum /\ n.enum = <<>>
    BY <1>1, <1>2, <1>4, <2>1 DEF Norm
  <2>4. n \in Norm
    BY <1>1, <2>1, <2>2 DEF Norm
  <2>5. Form(t.base, n)
    BY <1>2, <1>4, <2>2, <2>3, <2>4 DEF Form, Fits
  <2>6. c.ints.flags = {} /\ c.length.flags = {}
    BY <1>4 DEF Fits
  <2>7. \A v : Accepts(v, n) <=> Accepts(v, c)
    <3>1. ~c.hasEnum /\ ~n.hasEnum
      BY <1>4, <2>3
    <3>2. \A v : AcceptsLimits(v, n) <=> AcceptsLimits(v, c)
      BY <2>2, <2>3, <2>6 DEF AcceptsLimits
    <3>3. QED BY <3>1, <3>2 DEF Accepts
  <2>8. QED BY <1>4, <2>3, <2>5, <2>7
<1>5. CASE t.base \notin {"Int", "Real"}
  <2>1. n = Unconstrained /\ t.constraint = 0
    BY <1>5 DEF Inherited, Merges
  <2>2. c = Unconstrained
    BY <2>1 DEF ConstraintOf
  <2>3. ~Unconstrained.hasEnum
    BY DEF Unconstrained
  <2>4. QED BY <2>1, <2>2, <2>3, UnconstrainedIs
<1>6. QED BY <1>3, <1>4, <1>5

\* A sequence with another element before it.
LEMMA PrependIs ==
    ASSUME NEW T, NEW x \in T, NEW q \in Seq(T), NEW s, s = <<x>> \o q
    PROVE  /\ s \in Seq(T) /\ Len(s) = Len(q) + 1 /\ s # <<>> /\ s[1] = x
           /\ \A k \in DOMAIN s : s[k] = x \/ \E l \in DOMAIN q : s[k] = q[l]
           /\ 1 \in DOMAIN s /\ \A l \in DOMAIN q : l + 1 \in DOMAIN s /\ s[l + 1] = q[l]
<1>1. <<x>> \in Seq(T) /\ Len(<<x>>) = 1 /\ <<x>>[1] = x
  OBVIOUS
<1>2. s \in Seq(T) /\ Len(s) = Len(q) + 1
  BY <1>1, ConcatProperties
<1>3. /\ \A k \in 1..Len(s) : s[k] = IF k <= 1 THEN <<x>>[k] ELSE q[k - 1]
      /\ DOMAIN s = 1..Len(s) /\ DOMAIN q = 1..Len(q) /\ Len(q) \in Nat
  BY <1>1, <1>2, ConcatProperties
<1>4. QED BY <1>1, <1>2, <1>3

\* The base a named type is taken as, and the form that starts from it, mean what
\* the type means.
LEMMA BaseBelowIs ==
    ASSUME Stored, NEW t \in TypeNodes, t.constraint \in 0..Len(constraints),
           NEW c, c = ConstraintOf(t.constraint), Fits(t.base, c), Stacks(t.base, t.below),
           t.base \in {"Int", "Real"} => ~c.hasEnum, NEW n, n = Inherited(t)
    PROVE  /\ Form(t.base, n) /\ ~n.hasEnum
           /\ BaseBelow(t) \in Seq(Nat) /\ Stacks(t.base, BaseBelow(t))
           /\ Held(Denotes(t.base, n), BaseBelow(t), constraints)
                = Held(Denotes(t.base, c), t.below, constraints)
<1>1. t.below \in Seq(Nat) /\ t.constraint \in Nat
  BY DEF TypeNodes
<1>2. CASE Merges(t)
  <2>1. BaseBelow(t) = t.below
    BY <1>2 DEF BaseBelow
  <2>2. Form(t.base, n) /\ ~n.hasEnum /\ \A v \in Values(t.base) : Accepts(v, n) <=> Accepts(v, c)
    BY <1>2, InheritedIs
  <2>3. Denotes(t.base, n) = Denotes(t.base, c)
    BY <2>2 DEF Denotes
  <2>4. QED BY <1>1, <2>1, <2>2, <2>3
<1>3. CASE ~Merges(t)
  <2>1. /\ BaseBelow(t) = <<t.constraint>> \o t.below /\ t.constraint # 0
        /\ t.base \notin {"Int", "Real"}
    BY <1>3 DEF BaseBelow, Merges
  <2>2. PICK s : s = BaseBelow(t)
    OBVIOUS
  <2>3. /\ s \in Seq(Nat) /\ s # <<>> /\ 1 \in DOMAIN s /\ s[1] = t.constraint
        /\ \A k \in DOMAIN s : s[k] = t.constraint \/ \E l \in DOMAIN t.below : s[k] = t.below[l]
        /\ \A l \in DOMAIN t.below : l + 1 \in DOMAIN s /\ s[l + 1] = t.below[l]
    BY <1>1, <2>1, <2>2, PrependIs
  <2>4. c = constraints[t.constraint] /\ t.constraint \in DOMAIN constraints
    BY <2>1 DEF ConstraintOf, Stored
  <2>5. Stacks(t.base, s)
    BY <2>1, <2>3, <2>4 DEF Stacks
  <2>6. n = Unconstrained
    BY <2>1 DEF Inherited
  <2>7. Form(t.base, n) /\ ~n.hasEnum /\ \A v : Accepts(v, n)
    <3>1. ~Unconstrained.hasEnum
      BY DEF Unconstrained
    <3>2. QED BY <2>6, <3>1, UnconstrainedIs
  <2>8. Denotes(t.base, n) = Values(t.base)
    BY <2>7 DEF Denotes
  <2>9. \A v : (\A k \in DOMAIN s : Accepts(v, constraints[s[k]]))
                <=> Accepts(v, c) /\ \A l \in DOMAIN t.below : Accepts(v, constraints[t.below[l]])
    BY <2>3, <2>4
  <2>10. Held(Denotes(t.base, n), s, constraints) = Held(Denotes(t.base, c), t.below, constraints)
    BY <2>8, <2>9 DEF Held, Denotes
  <2>11. QED BY <2>2, <2>3, <2>5, <2>7, <2>10
<1>4. QED BY <1>2, <1>3

LEMMA StartNamedIs ==
    ASSUME EnumAliases = FALSE, NInv, StartNamed
    PROVE  NInv' /\ Begins
<1> DEFINE N(i) == Inherited(types[i])
<1>1. PICK i \in DOMAIN types :
        /\ \/ EnumAliases \/ types[i].base \notin {"Int", "Real"}
           \/ ~ConstraintOf(types[i].constraint).hasEnum
        /\ StartFrom(types[i].base, BaseBelow(types[i]), i, N(i),
                     IF N(i).hasEnum THEN types[i].constraint ELSE 0, Meaning!ReadType(i))
  BY DEF StartNamed
<1> DEFINE t == types[i]
           c == ConstraintOf(t.constraint)
           n == N(i)
           ids == BaseBelow(t)
<1>2. /\ t \in TypeNodes /\ t.constraint \in 0..Len(constraints)
      /\ Fits(t.base, c) /\ Stored /\ i \in 0..Len(types) /\ t.base \in BaseKinds
      /\ Stacks(t.base, t.below)
  <2>1. t \in TypeNodes /\ i \in 0..Len(types)
    BY DEF NInv, Stored
  <2>2. t.base \in BaseKinds
    BY <2>1 DEF TypeNodes
  <2>3. QED BY <2>1, <2>2 DEF NInv, Stored
<1>3. t.base \in {"Int", "Real"} => ~c.hasEnum
  BY <1>1
<1>4. n = Inherited(t)
  OBVIOUS
<1>5. StartFrom(t.base, ids, i, n, IF n.hasEnum THEN t.constraint ELSE 0, Meaning!ReadType(i))
  BY <1>1
<1> HIDE DEF n, c, N
<1>6. /\ Form(t.base, n) /\ ~n.hasEnum /\ ids \in Seq(Nat) /\ Stacks(t.base, ids)
      /\ Held(Denotes(t.base, n), ids, constraints) = Held(Denotes(t.base, c), t.below, constraints)
  BY <1>2, <1>3, <1>4, BaseBelowIs DEF c
<1> HIDE DEF t, ids
<1>7. /\ pc = "idle" /\ pc' = "consume" /\ base' = t.base /\ below' = ids /\ source' = i
      /\ norm' = n /\ shared' = 0 /\ impossible' = FALSE /\ consumed' = 0
      /\ reading' = Meaning!ReadType(i) /\ UNCHANGED <<types, constraints, constraintHash>>
  BY <1>5, <1>6 DEF StartFrom
<1>8. Stored' /\ Accepting' = Accepting
  BY <1>2, <1>7, TablesKept
<1>9. InProgress'
  <2>1. reading' # Meaning!Idle
    BY <1>7, ReadingIs
  <2>2. Form(base, norm)'
    BY <1>6, <1>7 DEF Form, Fits
  <2>3. MaxClauses \in Nat
    BY NormalizerAssumption
  <2>4. source' \in 0..Len(types') /\ consumed' \in 0..MaxClauses
    BY <1>2, <1>7, <2>3
  <2>5. pc' \in {"idle", "consume"} /\ base' \in BaseKinds /\ impossible' \in BOOLEAN
    BY <1>2, <1>7
  <2>6. (reading = Meaning!Idle <=> pc = "idle")'
    BY <1>7, <2>1
  <2>7. below' \in Seq(Nat) /\ Stacks(base, below)'
    BY <1>6, <1>7 DEF Stacks
  <2>8. QED BY <2>2, <2>4, <2>5, <2>6, <2>7, Zenon DEF InProgress
<1>10. Draft' = Accepting[i] /\ i \in DOMAIN Accepting
  <2>1. Draft' = Held(Denotes(t.base, n), ids, constraints)
    <3>1. Draft' = Inside(Denotes(base, norm), below)'
      BY <1>7 DEF Draft
    <3>2. Denotes(base, norm)' = Denotes(t.base, n)
      BY <1>7 DEF Denotes, Accepts, AcceptsLimits
    <3>3. QED BY <1>7, <3>1, <3>2 DEF Inside, Held
  <2>2. Accepting[i] = Held(Denotes(t.base, c), t.below, constraints) /\ i \in DOMAIN Accepting
    BY InsideIs DEF Accepting, Accepted, t, c
  <2>3. QED BY <1>6, <2>1, <2>2
<1>11. Untouched'
  BY <1>2, <1>7, <1>8, <1>10 DEF Untouched, Extends
<1>12. Begins
  <2>1. reading = Meaning!Idle
    BY <1>7 DEF NInv, InProgress
  <2>2. QED BY <1>7, <1>8, <1>10, <2>1, Zenon DEF Begins
<1>13. QED BY <1>8, <1>9, <1>11, <1>12 DEF NInv

(***************************************************************************)
(* Clauses.                                                                *)
(***************************************************************************)
Comparisons == {"Gt", "Ge", "Lt", "Le"}

LEMMA ClauseIs ==
    ASSUME NEW clause \in Clauses
    PROVE  /\ clause.of \in {"x", "len"} => clause.op \in Comparisons /\ IsAtom(clause.lit)
           /\ clause.of = "in" => /\ clause.values \in Seq(Atoms)
                                 /\ \A k \in DOMAIN clause.values : IsAtom(clause.values[k])
<1>1. Ops \subseteq Comparisons /\ MaxEnum \in Nat
  BY NormalizerAssumption DEF Comparisons
<1>2. (\A a \in Literals : IsAtom(a)) /\ \A a \in LenLiterals : IsAtom(a)
  BY LiteralsAssumption
<1>3. \A s \in BoundedSeq(Literals, MaxEnum) : s \in Seq(Literals)
  <2> SUFFICES ASSUME NEW s \in BoundedSeq(Literals, MaxEnum) PROVE s \in Seq(Literals)
    OBVIOUS
  <2>1. s \in UNION {[1..m -> Literals] : m \in 0..MaxEnum}
    BY DEF BoundedSeq, SeqOf
  <2>2. PICK m \in 0..MaxEnum : s \in [1..m -> Literals]
    BY <2>1
  <2>3. QED BY <1>1, <2>2, SeqDef
<1>4. CASE clause.of \in {"x", "len"}
  <2>1. PICK op \in Ops : \E l \in Literals \cup LenLiterals :
            clause = [of |-> "x", op |-> op, lit |-> l] \/ clause = [of |-> "len", op |-> op, lit |-> l]
    BY <1>4 DEF Clauses
  <2>2. PICK l \in Literals \cup LenLiterals :
            clause = [of |-> "x", op |-> op, lit |-> l] \/ clause = [of |-> "len", op |-> op, lit |-> l]
    BY <2>1
  <2>3. clause.op = op /\ clause.lit = l /\ clause.of # "in"
    BY <2>2
  <2>4. QED BY <1>1, <1>2, <2>3
<1>5. CASE clause.of = "in"
  <2>1. PICK s \in BoundedSeq(Literals, MaxEnum) : clause = [of |-> "in", values |-> s]
    BY <1>5 DEF Clauses
  <2>2. clause.values = s /\ s \in Seq(Literals)
    BY <1>3, <2>1
  <2>3. \A k \in DOMAIN s : IsAtom(s[k])
    BY <1>2, <2>2
  <2>4. s \in Seq(Atoms)
    <3>1. \A k \in DOMAIN s : s[k] \in Atoms
      BY <2>3 DEF IsAtom
    <3>2. DOMAIN s = 1..Len(s) /\ Len(s) \in Nat /\ s \in [1..Len(s) -> Literals]
      BY <2>2
    <3>3. s \in [1..Len(s) -> Atoms]
      BY <3>1, <3>2
    <3>4. QED BY <3>2, <3>3, SeqDef
  <2>5. QED BY <1>5, <2>2, <2>3, <2>4
<1>6. QED BY <1>4, <1>5

LEMMA SatIs ==
    ASSUME NEW clause, NEW b \in BaseKinds, NEW v \in Values(b)
    PROVE  /\ clause.of = "x" =>
                (v \in Meaning!Sat(clause)
                    <=> v.kind \in Numeric /\ Meaning!Compare(v.n, clause.op, clause.lit.n))
           /\ clause.of = "len" =>
                (v \in Meaning!Sat(clause)
                    <=> /\ v.kind \in {"StringAtom", "List", "Tuple"}
                        /\ Meaning!Compare(Step * v.len, clause.op, clause.lit.n))
           /\ clause.of = "in" => (v \in Meaning!Sat(clause) <=> InEnum(v, clause.values))
<1>1. v \in Meaning!AllValues
  BY ValueIs, SameWords
<1>2. CASE clause.of = "x"
  BY <1>1, <1>2, SameWords DEF Meaning!Sat
<1>3. CASE clause.of = "len"
  BY <1>1, <1>3 DEF Meaning!Sat
<1>4. CASE clause.of = "in"
  BY <1>1, <1>4, SameWords DEF Meaning!Sat, InEnum
<1>5. QED BY <1>2, <1>3, <1>4

LEMMA DraftNarrows ==
    ASSUME NEW clause, NEW old, NEW new, NEW b \in BaseKinds,
           \A v \in Values(b) : Accepts(v, new) <=> Accepts(v, old) /\ v \in Meaning!Sat(clause)
    PROVE  Denotes(b, new) = Denotes(b, old) \cap Meaning!Sat(clause)
  BY DEF Denotes

LEMMA Consumed ==
    ASSUME NInv, NEW clause \in Clauses, Consume(clause), Form(base, norm)',
           shared' = 0, impossible' \in BOOLEAN, Draft' = Draft \cap Meaning!Sat(clause)
    PROVE  NInv' /\ Narrows
<1>1. /\ pc = "consume" /\ consumed < MaxClauses /\ Extends
      /\ consumed' = consumed + 1 /\ reading' = Meaning!ReadClause(clause)
      /\ UNCHANGED <<types, constraints, constraintHash, pc, base, below, source>>
  BY DEF Consume
<1>2. Stored' /\ Accepting' = Accepting
  BY <1>1, TablesKept DEF NInv
<1>3. InProgress'
  <2>1. reading' # Meaning!Idle
    BY ReadingIs, <1>1
  <2>2. consumed' \in 0..MaxClauses /\ source' \in 0..Len(types')
    BY <1>1, NormalizerAssumption DEF NInv, InProgress
  <2>3. pc' \in {"idle", "consume"} /\ base' \in BaseKinds
    BY <1>1 DEF NInv, InProgress
  <2>4. (reading = Meaning!Idle <=> pc = "idle")'
    BY <1>1, <2>1
  <2>5. below' \in Seq(Nat) /\ Stacks(base, below)'
    BY <1>1 DEF NInv, InProgress, Stacks
  <2>6. QED BY <2>2, <2>3, <2>4, <2>5, Zenon DEF InProgress
<1>4. Untouched'
  <2>1. Extends'
    BY <1>1 DEF Extends, Merges
  <2>2. consumed' # 0
    BY <1>1 DEF NInv, InProgress
  <2>3. QED BY <2>1, <2>2 DEF Untouched
<1>5. reading # Meaning!Idle
  BY <1>1 DEF NInv, InProgress
<1>6. Narrows
  BY <1>1, <1>2, <1>5 DEF Narrows
<1>7. QED BY <1>2, <1>3, <1>4, <1>6 DEF NInv

\* Every clause that does not end in the overflow leaves what satisfies it.
LEMMA ClauseNarrows ==
    ASSUME NInv, NEW clause \in Clauses, Consume(clause), Form(base, norm'),
           UNCHANGED impossible, shared' = 0,
           \A v \in Values(base) : Accepts(v, norm') <=> Accepts(v, norm) /\ v \in Meaning!Sat(clause)
    PROVE  NInv' /\ Narrows
<1>1. /\ pc = "consume" /\ pc' = pc /\ base' = base /\ base \in BaseKinds /\ impossible \in BOOLEAN
      /\ below' = below /\ constraints' = constraints
  BY DEF Consume, NInv, InProgress
<1>2. Draft' = Draft \cap Meaning!Sat(clause)
  <2>1. CASE impossible
    BY <2>1 DEF Draft
  <2>2. CASE ~impossible
    <3>1. Denotes(base, norm') = Denotes(base, norm) \cap Meaning!Sat(clause)
      BY <1>1, DraftNarrows
    <3>2. /\ Draft = Held(Denotes(base, norm), below, constraints)
          /\ Draft' = Held(Denotes(base, norm'), below, constraints)
      BY <1>1, <2>2 DEF Draft, Inside, Held, Denotes, Accepts, AcceptsLimits
    <3>3. QED BY <3>1, <3>2, InsideIs
  <2>3. QED BY <2>1, <2>2
<1>3. Form(base, norm)'
  BY <1>1 DEF Form, Fits
<1>4. QED BY <1>1, <1>2, <1>3, Consumed

LEMMA ValueBoundIs ==
    ASSUME NInv, ValueBound
    PROVE  NInv' /\ Narrows
<1>1. PICK clause \in {c \in Clauses : c.of = "x"} :
        /\ Consume(clause)
        /\ \/ /\ base = "Int" /\ clause.lit.kind = "IntAtom"
              /\ norm' = [norm EXCEPT !.ints = ApplyInt(clause.op, clause.lit.n)]
           \/ /\ base = "Real" /\ clause.lit.kind \in Numeric
              /\ norm' = [norm EXCEPT !.reals = ApplyReal(clause.op, clause.lit.n)]
        /\ UNCHANGED <<shared, impossible>>
  BY DEF ValueBound
<1>2. /\ clause \in Clauses /\ clause.of = "x" /\ clause.op \in {"Gt", "Ge", "Lt", "Le"}
      /\ IsAtom(clause.lit) /\ clause.lit.n \in Int
  BY ClauseIs DEF Comparisons, IsAtom, Atoms
<1>3. Form(base, norm) /\ base \in BaseKinds /\ shared' = 0 /\ UNCHANGED impossible
  BY <1>1 DEF NInv, InProgress, Untouched
<1>4. CASE base = "Int" /\ clause.lit.kind = "IntAtom"
  <2>1. norm' = [norm EXCEPT !.ints = ApplyInt(clause.op, clause.lit.n)] /\ clause.lit.n % Step = 0
    BY <1>1, <1>2, <1>4 DEF IsAtom
  <2>2. /\ Form("Int", norm')
        /\ \A v \in Values("Int") :
            Accepts(v, norm') <=> Accepts(v, norm) /\ Meaning!Compare(v.n, clause.op, clause.lit.n)
    BY <1>2, <1>3, <1>4, <2>1, IntNarrows
  <2>3. \A v \in Values("Int") : Accepts(v, norm') <=> Accepts(v, norm) /\ v \in Meaning!Sat(clause)
    BY <1>2, <2>2, ValuesAre, SatIs DEF BaseKinds, Numeric
  <2>4. QED BY <1>1, <1>2, <1>3, <1>4, <2>2, <2>3, ClauseNarrows
<1>5. CASE base = "Real" /\ norm' = [norm EXCEPT !.reals = ApplyReal(clause.op, clause.lit.n)]
  <2>1. /\ Form("Real", norm')
        /\ \A v \in Values("Real") :
            Accepts(v, norm') <=> Accepts(v, norm) /\ Meaning!Compare(v.n, clause.op, clause.lit.n)
    BY <1>2, <1>3, <1>5, RealNarrows
  <2>2. \A v \in Values("Real") : Accepts(v, norm') <=> Accepts(v, norm) /\ v \in Meaning!Sat(clause)
    BY <1>2, <2>1, ValuesAre, SatIs DEF BaseKinds
  <2>3. QED BY <1>1, <1>2, <1>3, <1>5, <2>1, <2>2, ClauseNarrows
<1>6. QED BY <1>1, <1>4, <1>5

LEMMA LengthBoundIs ==
    ASSUME NInv, LengthBound
    PROVE  NInv' /\ Narrows
<1>1. PICK clause \in {c \in Clauses : c.of = "len"} :
        LET l == clause.lit.n \div Step
        IN  /\ Consume(clause)
            /\ base \in {"String", "List", "Tuple"} /\ IsLength(clause.lit)
            /\ IF Overflow(clause.op, l)
               THEN impossible' = TRUE /\ norm' = norm
               ELSE /\ norm' = [norm EXCEPT !.length = ApplyLen(clause.op, l)]
                    /\ UNCHANGED impossible
            /\ UNCHANGED shared
  BY DEF LengthBound
<1> DEFINE l == clause.lit.n \div Step
<1>2. /\ clause \in Clauses /\ clause.of = "len" /\ clause.op \in {"Gt", "Ge", "Lt", "Le"}
      /\ IsAtom(clause.lit)
  BY ClauseIs DEF Comparisons
<1>3. l \in 0..MaxLen /\ clause.lit.n = Step * l
  BY <1>1, <1>2, LengthOf
<1>4. Form(base, norm) /\ base \in BaseKinds /\ shared' = 0 /\ base \in {"String", "List", "Tuple"}
  BY <1>1 DEF NInv, InProgress, Untouched
<1>5. /\ Consume(clause)
      /\ Overflow(clause.op, l) => impossible' = TRUE /\ norm' = norm
      /\ ~Overflow(clause.op, l) => /\ norm' = [norm EXCEPT !.length = ApplyLen(clause.op, l)]
                                    /\ UNCHANGED impossible
  BY <1>1
<1> HIDE DEF l
<1>6. CASE Overflow(clause.op, l)
  <2>1. clause.op = "Gt" /\ l = MaxLen
    BY <1>6 DEF Overflow
  <2>2. \A v \in Values(base) : v \notin Meaning!Sat(clause)
    <3> SUFFICES ASSUME NEW v \in Values(base), v \in Meaning!Sat(clause) PROVE FALSE
      OBVIOUS
    <3>1. v.len \in 0..MaxLen /\ v.len \in Int /\ MaxLen \in Nat
      BY <1>4, ValueIs, LengthsAssumption
    <3>2. Step * v.len > Step * MaxLen
      BY <1>2, <1>3, <1>4, <2>1, SatIs, CompareIs
    <3>3. v.len > MaxLen
      BY <3>1, <3>2, Scaled
    <3>4. QED BY <3>1, <3>3
  <2>3. Draft \subseteq Values(base)
    BY DEF Draft, Denotes, Inside
  <2>4. Draft' = Draft \cap Meaning!Sat(clause)
    <3>1. Draft' = {}
      BY <1>5, <1>6 DEF Draft
    <3>2. QED BY <2>2, <2>3, <3>1
  <2>5. Form(base, norm)'
    BY <1>4, <1>5, <1>6 DEF Consume, Form, Fits
  <2>6. impossible' \in BOOLEAN
    BY <1>5, <1>6
  <2>7. QED BY <1>2, <1>4, <1>5, <2>4, <2>5, <2>6, Consumed
<1>7. CASE ~Overflow(clause.op, l)
  <2>1. /\ Form(base, norm')
        /\ \A v \in Values(base) :
            Accepts(v, norm') <=> Accepts(v, norm) /\ Meaning!Compare(Step * v.len, clause.op, Step * l)
    BY <1>2, <1>3, <1>4, <1>5, <1>7, LengthNarrows
  <2>2. \A v \in Values(base) : v.kind \in {"StringAtom", "List", "Tuple"}
    BY <1>4, ValuesAre
  <2>3. \A v \in Values(base) : Accepts(v, norm') <=> Accepts(v, norm) /\ v \in Meaning!Sat(clause)
    BY <1>2, <1>3, <1>4, <2>1, <2>2, SatIs
  <2>4. QED BY <1>2, <1>4, <1>5, <1>7, <2>1, <2>3, ClauseNarrows
<1>8. QED BY <1>6, <1>7

LEMMA EnumClauseIs ==
    ASSUME NInv, EnumClause
    PROVE  NInv' /\ Narrows
<1>1. PICK clause \in {c \in Clauses : c.of = "in"} :
        /\ Consume(clause)
        /\ \A k \in DOMAIN clause.values : AtomCompat(base, clause.values[k])
        /\ norm' = AddEnum(clause.values)
        /\ shared' = 0
        /\ UNCHANGED impossible
  BY DEF EnumClause
<1>2. /\ clause \in Clauses /\ clause.of = "in" /\ clause.values \in Seq(Atoms)
      /\ \A k \in DOMAIN clause.values : Literal(base, clause.values[k])
  BY <1>1, ClauseIs DEF Literal
<1>3. Form(base, norm) /\ base \in BaseKinds
  BY DEF NInv, InProgress
<1>4. /\ Form(base, norm')
      /\ \A v \in Values(base) : Accepts(v, norm') <=> Accepts(v, norm) /\ InEnum(v, clause.values)
  BY <1>1, <1>2, <1>3, EnumNarrows
<1>5. \A v \in Values(base) : Accepts(v, norm') <=> Accepts(v, norm) /\ v \in Meaning!Sat(clause)
  BY <1>2, <1>3, <1>4, SatIs
<1>6. QED BY <1>1, <1>2, <1>4, <1>5, ClauseNarrows

(***************************************************************************)
(* Schemas end.                                                            *)
(***************************************************************************)
LEMMA EndsIdle ==
    ASSUME Stored', EndSchema
    PROVE  NInv' /\ reading' = Meaning!Idle /\ Draft' = {}
<1>1. /\ pc' = "idle" /\ base' = "Never" /\ below' = <<>> /\ source' = 0 /\ norm' = Unconstrained
      /\ shared' = 0 /\ impossible' = FALSE /\ consumed' = 0 /\ reading' = Meaning!Idle
  BY DEF EndSchema
<1>2. Form(base, norm)'
  <2>1. Form("Never", Unconstrained)
    BY UnconstrainedIs
  <2>2. QED BY <1>1, <2>1 DEF Form, Fits
<1>3. Len(types') \in Nat /\ MaxClauses \in Nat
  BY NormalizerAssumption DEF Stored
<1>4. InProgress'
  <2>1. source' \in 0..Len(types') /\ consumed' \in 0..MaxClauses
    BY <1>1, <1>3
  <2>2. base' \in BaseKinds /\ pc' \in {"idle", "consume"} /\ impossible' \in BOOLEAN
    BY <1>1 DEF BaseKinds
  <2>3. (reading = Meaning!Idle <=> pc = "idle")'
    BY <1>1
  <2>4. below' \in Seq(Nat) /\ Stacks(base, below)'
    BY <1>1 DEF Stacks
  <2>5. QED BY <1>2, <2>1, <2>2, <2>3, <2>4, Zenon DEF InProgress
<1>5. Untouched'
  BY <1>1 DEF Untouched
<1>6. Draft' = {}
  BY <1>1 DEF Draft
<1>7. QED BY <1>1, <1>4, <1>5, <1>6 DEF NInv

LEMMA RejectIs ==
    ASSUME NInv, Reject
    PROVE  NInv' /\ Refuses
<1>1. pc = "consume" /\ EndSchema /\ UNCHANGED <<types, constraints, constraintHash>>
  BY DEF Reject
<1>2. Stored' /\ Accepting' = Accepting /\ reading # Meaning!Idle
  BY <1>1, TablesKept DEF NInv, InProgress
<1>3. QED BY <1>1, <1>2, EndsIdle DEF Refuses

\* A type that means what the draft means is added.
LEMMA Concluded ==
    ASSUME NInv, pc = "consume", Grown, EndSchema,
           NEW t \in TypeNodes, types' = Append(types, t),
           t.constraint \in 0..Len(constraints'), Stacks(t.base, t.below),
           NEW c, c = ConstraintOf(t.constraint)', Fits(t.base, c),
           Draft = Held(Denotes(t.base, c), t.below, constraints)
    PROVE  NInv' /\ Concludes
<1>1. Stored' /\ Accepting' = Append(Accepting, Draft)
  BY TypeAdded DEF NInv
<1>2. reading # Meaning!Idle
  BY DEF NInv, InProgress
<1>3. QED BY <1>1, <1>2, EndsIdle DEF Concludes

LEMMA NotGrown ==
    ASSUME Stored, UNCHANGED <<constraints, constraintHash>>
    PROVE  Grown
<1>1. constraints \in Seq(Norm) /\ Len(constraints) \in Nat /\ DOMAIN constraints = 1..Len(constraints)
  BY DEF Stored
<1>2. QED BY <1>1 DEF Stored, Grown

LEMMA NeverIs ==
    ASSUME NInv, pc = "consume", Never, UNCHANGED <<constraints, constraintHash>>, EndSchema,
           Draft = {}
    PROVE  NInv' /\ Concludes
<1> DEFINE t == [base |-> "Never", constraint |-> 0, below |-> <<>>]
<1>1. types' = Append(types, t) /\ t \in TypeNodes
  BY DEF Never, BaseKinds, TypeNodes
<1>2. Grown /\ Len(constraints') \in Nat
  BY NotGrown DEF NInv, Stored
<1>3. t.base = "Never" /\ t.constraint = 0 /\ 0 \in 0..Len(constraints') /\ t.below = <<>>
  BY <1>2
<1> HIDE DEF t
<1>4. ConstraintOf(t.constraint)' = Unconstrained
  BY <1>3 DEF ConstraintOf
<1>5. Denotes("Never", Unconstrained) = {}
  BY ValuesAre DEF Denotes
<1>6. Fits("Never", Unconstrained)
  BY UnconstrainedIs
<1>7. Stacks(t.base, t.below)
  BY <1>3 DEF Stacks
<1>8. Draft = Held(Denotes(t.base, Unconstrained), t.below, constraints)
  BY <1>3, <1>5, InsideIs
<1>9. QED BY <1>1, <1>2, <1>3, <1>4, <1>6, <1>7, <1>8, Concluded

LEMMA ConcludedAt ==
    ASSUME NInv, pc = "consume", Grown, EndSchema, NEW i \in 0..Len(constraints'),
           Refined(i),
           NEW c, c = ConstraintOf(i)', Fits(base, c), Draft = Inside(Denotes(base, c), below)
    PROVE  NInv' /\ Concludes
<1>1. base \in BaseKinds /\ i \in Nat /\ below \in Seq(Nat) /\ Stacks(base, below)
  <2>1. constraints' \in Seq(Norm)
    BY DEF Grown
  <2>2. Len(constraints') \in Nat
    BY <2>1
  <2>3. QED BY <2>2 DEF NInv, InProgress
<1>2. PICK t \in TypeNodes : t = [base |-> base, constraint |-> i, below |-> below]
  BY <1>1 DEF TypeNodes
<1>3. t.base = base /\ t.constraint = i /\ t.below = below /\ types' = Append(types, t)
  BY <1>2 DEF Refined
<1>4. ConstraintOf(t.constraint)' = c
  BY <1>3 DEF ConstraintOf
<1>5. Draft = Held(Denotes(t.base, c), t.below, constraints)
  BY <1>3, InsideIs
<1>6. QED BY <1>1, <1>3, <1>4, <1>5, Concluded

LEMMA InternedIs ==
    ASSUME NInv, pc = "consume", NEW c \in Norm, Finished(c), Fits(base, c),
           Draft = Inside(Denotes(base, c), below), Interned(constraints, c), EndSchema
    PROVE  NInv' /\ Concludes
<1> DEFINE same == {i \in DOMAIN constraints : constraintHash[i] = c /\ constraints[i] = c}
<1>1. /\ constraints \in Seq(Norm) /\ constraintHash \in Seq(Norm) /\ Len(constraints) \in Nat
      /\ Len(constraintHash) = Len(constraints) /\ Stored
      /\ DOMAIN constraints = 1..Len(constraints)
      /\ \A i \in 1..Len(constraints) : Finished(constraints[i])
  BY DEF NInv, Stored
<1>2. \/ /\ c = Unconstrained /\ UNCHANGED <<constraints, constraintHash>>
         /\ Refined(0)
      \/ /\ UNCHANGED <<constraints, constraintHash>>
         /\ \E i \in same : Refined(i)
      \/ /\ constraints' = Append(constraints, c) /\ constraintHash' = Append(constraintHash, c)
         /\ Refined(Len(constraints) + 1)
  BY DEF Interned
<1>3. \A i \in same : i \in 1..Len(constraints) /\ constraints[i] = c
  BY <1>1
<1> HIDE DEF same
<1>4. CASE /\ c = Unconstrained /\ UNCHANGED <<constraints, constraintHash>>
           /\ Refined(0)
  <2>1. Grown /\ 0 \in 0..Len(constraints')
    BY <1>1, <1>4, NotGrown
  <2>2. ConstraintOf(0)' = c
    BY <1>4 DEF ConstraintOf
  <2>3. QED BY <1>4, <2>1, <2>2, ConcludedAt
<1>5. ASSUME UNCHANGED <<constraints, constraintHash>>, NEW i \in same,
             Refined(i)
      PROVE  NInv' /\ Concludes
  <2>1. Grown /\ i \in 0..Len(constraints') /\ i # 0
    BY <1>1, <1>3, <1>5, NotGrown
  <2>2. ConstraintOf(i)' = c
    BY <1>3, <1>5, <2>1 DEF ConstraintOf
  <2>3. QED BY <1>5, <2>1, <2>2, ConcludedAt
<1>6. CASE /\ constraints' = Append(constraints, c) /\ constraintHash' = Append(constraintHash, c)
           /\ Refined(Len(constraints) + 1)
  <2>1. PICK n \in Nat : n = Len(constraints)
    BY <1>1
  <2>2. /\ constraints' \in Seq(Norm) /\ constraintHash' \in Seq(Norm)
        /\ Len(constraints') = n + 1 /\ Len(constraintHash') = n + 1
        /\ \A j \in 1..n : constraints'[j] = constraints[j]
        /\ constraints'[n + 1] = c
    BY <1>1, <1>6, <2>1
  <2>3. \A j \in 1..(n + 1) : j \in 1..n \/ j = n + 1
    BY <2>1
  <2>4. \A j \in 1..(n + 1) : Finished(constraints'[j])
    <3>1. \A j \in 1..n : Finished(constraints[j])
      BY <1>1, <2>1
    <3>2. QED BY <2>2, <2>3, <3>1
  <2>5. Grown
    BY <2>1, <2>2, <2>4 DEF Grown
  <2>6. ConstraintOf(n + 1)' = c /\ n + 1 \in 0..Len(constraints')
    BY <2>1, <2>2 DEF ConstraintOf
  <2>7. Refined(n + 1)
    BY <1>6, <2>1
  <2>8. QED BY <2>5, <2>6, <2>7, ConcludedAt
<1>7. QED BY <1>2, <1>4, <1>5, <1>6

LEMMA FinishIs ==
    ASSUME NInv, Finish
    PROVE  NInv' /\ Concludes
<1> DEFINE w == WithoutTupleLength(norm)
           n == AsEnum(w)
           Empty == \/ impossible \/ EmptyDiscrete(norm.ints) \/ EmptyReal(norm.reals)
                    \/ EmptyDiscrete(norm.length) \/ ~TupleFits(norm)
<1>1. /\ pc = "consume" /\ EndSchema
      /\ Empty => Never /\ UNCHANGED <<constraints, constraintHash>>
      /\ ~Empty /\ n.hasEnum /\ Filtered(n) = <<>> =>
            Never /\ constraints' = Overwritten(n) /\ UNCHANGED constraintHash
      /\ ~Empty /\ ~(n.hasEnum /\ Filtered(n) = <<>>) => Interned(Overwritten(n), Final(n))
  BY DEF Finish
<1>2. /\ Form(base, norm) /\ base \in BaseKinds /\ shared = 0 /\ impossible \in BOOLEAN
      /\ Overwritten(n) = constraints
  BY DEF NInv, InProgress, Untouched, Overwritten
<1>3. CASE Empty
  <2>1. Draft = {}
    <3>1. CASE impossible
      BY <3>1 DEF Draft
    <3>2. CASE ~impossible
      <4>1. \A v \in Values(base) : ~Accepts(v, norm)
        BY <1>2, <1>3, <3>2, NothingLeft
      <4>2. QED BY <4>1 DEF Draft, Denotes, Inside
    <3>3. QED BY <3>1, <3>2
  <2>2. QED BY <1>1, <1>3, <2>1, NeverIs
<1>4. CASE ~Empty
  <2>1. ~impossible /\ TupleFits(norm)
    BY <1>4
  <2>2. Form(base, w) /\ \A v \in Values(base) : Accepts(v, w) <=> Accepts(v, norm)
    BY <1>2, <2>1, TupleDecided
  <2> HIDE DEF w
  <2>3. Form(base, n) /\ \A v \in Values(base) : Accepts(v, n) <=> Accepts(v, norm)
    BY <2>2, SingleIs
  <2> HIDE DEF n, Empty
  <2>4. Draft = Inside(Denotes(base, n), below)
    <3>1. Denotes(base, norm) = Denotes(base, n)
      BY <2>3 DEF Denotes
    <3>2. QED BY <1>1, <2>1, <3>1 DEF Draft
  <2>5. CASE n.hasEnum /\ Filtered(n) = <<>>
    <3>1. \A v \in Values(base) : ~Accepts(v, n)
      <4>1. \A v \in Values(base) : InEnum(v, n.enum) /\ AcceptsLimits(v, n) => InEnum(v, Filtered(n))
        BY <2>3, FilteredIs
      <4>2. \A v : ~InEnum(v, <<>>)
        BY DEF InEnum
      <4>3. QED BY <2>5, <4>1, <4>2, AcceptsIs
    <3>2. Draft = {}
      BY <2>4, <3>1 DEF Denotes, Inside
    <3>3. QED BY <1>1, <1>2, <1>4, <2>5, <3>2, NeverIs
  <2>6. CASE ~(n.hasEnum /\ Filtered(n) = <<>>)
    <3>1. PICK c : c = Final(n)
      OBVIOUS
    <3>2. /\ c \in Norm /\ Finished(c) /\ Fits(base, c)
          /\ \A v \in Values(base) : Accepts(v, c) <=> Accepts(v, n)
      BY <2>3, <2>6, <3>1, FinalIs
    <3>3. Draft = Inside(Denotes(base, c), below)
      <4>1. Denotes(base, c) = Denotes(base, n)
        BY <3>2 DEF Denotes
      <4>2. QED BY <2>4, <4>1
    <3>4. Interned(constraints, c)
      BY <1>1, <1>2, <1>4, <2>6, <3>1
    <3>5. QED BY <1>1, <3>2, <3>3, <3>4, InternedIs
  <2>7. QED BY <2>5, <2>6
<1>5. QED BY <1>3, <1>4

LEMMA FinishNamedIs ==
    ASSUME NInv, FinishNamed
    PROVE  NInv' /\ Concludes
<1>1. /\ pc = "consume" /\ ~Extends /\ types' = Append(types, types[source]) /\ EndSchema
      /\ UNCHANGED <<constraints, constraintHash>>
  BY DEF FinishNamed
<1>2. /\ Stored /\ source # 0 /\ source \in 0..Len(types) /\ consumed = 0
      /\ Draft = Accepting[source]
  BY <1>1 DEF NInv, InProgress, Untouched
<1>3. source \in DOMAIN types
  BY <1>2 DEF Stored
<1>4. PICK t \in TypeNodes : t = types[source]
  BY <1>2, <1>3 DEF Stored
<1>5. /\ t.constraint \in 0..Len(constraints) /\ Fits(t.base, ConstraintOf(t.constraint))
      /\ Stacks(t.base, t.below)
  BY <1>2, <1>3, <1>4 DEF Stored
<1>6. ConstraintOf(t.constraint)' = ConstraintOf(t.constraint)
  BY <1>1 DEF ConstraintOf
<1>7. Draft = Held(Denotes(t.base, ConstraintOf(t.constraint)), t.below, constraints)
  BY <1>2, <1>3, <1>4, InsideIs DEF Accepting, Accepted
<1>8. QED BY <1>1, <1>2, <1>4, <1>5, <1>6, <1>7, NotGrown, Concluded

(***************************************************************************)
(* The theorems.                                                           *)
(***************************************************************************)
LEMMA InitIs ==
    ASSUME Init
    PROVE  NInv /\ Meaning!MeaningInit
<1> DEFINE n == Len(Aliases)
           T == TypeNodes
           A == [base : BaseKinds, constraint : Norm]
<1>1. Aliases \in Seq(A) /\ n \in Nat /\ DOMAIN Aliases = 1..n
  BY AliasesAssumption
<1>2. \A i \in 1..n : Finished(Aliases[i].constraint) /\ Fits(Aliases[i].base, Aliases[i].constraint)
  BY <1>1, AliasesAssumption
<1>3. \A i \in 1..n : Aliases[i].base \in BaseKinds /\ Aliases[i].constraint \in Norm
  <2> HIDE DEF n, A
  <2>1. \A i \in 1..n : Aliases[i] \in A
    BY <1>1
  <2>2. QED BY <2>1 DEF A
<1>4. /\ types = [i \in 1..n |-> [base |-> Aliases[i].base, constraint |-> i, below |-> <<>>]]
      /\ constraints = [i \in 1..n |-> Aliases[i].constraint] /\ constraintHash = constraints
      /\ pc = "idle" /\ base = "Never" /\ below = <<>> /\ source = 0 /\ norm = Unconstrained
      /\ shared = 0 /\ impossible = FALSE /\ consumed = 0 /\ reading = Meaning!Idle
  BY <1>1 DEF Init
<1> HIDE DEF n, A
<1>5. types \in Seq(T) /\ Len(types) = n
  <2>1. \A i \in 1..n : [base |-> Aliases[i].base, constraint |-> i, below |-> <<>>] \in T
    BY <1>3 DEF TypeNodes
  <2> HIDE DEF T
  <2>2. types \in [1..n -> T]
    BY <1>4, <2>1, Zenon
  <2>3. QED BY <1>1, <2>2, SeqDef, LenProperties
<1>6. constraints \in Seq(Norm) /\ Len(constraints) = n
  <2>1. constraints \in [1..n -> Norm]
    BY <1>3, <1>4, Zenon
  <2>2. QED BY <1>1, <2>1, SeqDef, LenProperties
<1>7. \A i \in 1..n : /\ types[i].base = Aliases[i].base /\ types[i].constraint = i
                      /\ constraints[i] = Aliases[i].constraint /\ ConstraintOf(i) = constraints[i]
                      /\ types[i].below = <<>>
  BY <1>4 DEF ConstraintOf
<1>8. DOMAIN types = 1..n /\ DOMAIN constraints = 1..n
  BY <1>4
<1>9. Stored
  <2>1. \A i \in 1..n : /\ types[i].constraint \in 0..n
                        /\ Fits(types[i].base, ConstraintOf(types[i].constraint))
                        /\ Stacks(types[i].base, types[i].below)
    BY <1>1, <1>2, <1>7 DEF Stacks
  <2>2. \A i \in 1..n : Finished(constraints[i])
    BY <1>2, <1>7
  <2>3. QED BY <1>4, <1>5, <1>6, <1>8, <2>1, <2>2 DEF Stored, T
<1>10. InProgress
  <2>1. Form(base, norm)
    BY <1>4, UnconstrainedIs
  <2>2. source \in 0..Len(types) /\ consumed \in 0..MaxClauses
    BY <1>1, <1>4, <1>5, NormalizerAssumption
  <2>3. base \in BaseKinds
    BY <1>4 DEF BaseKinds
  <2>4. below \in Seq(Nat) /\ Stacks(base, below)
    BY <1>4 DEF Stacks
  <2>5. QED BY <1>4, <2>1, <2>2, <2>3, <2>4 DEF InProgress
<1>11. Untouched
  BY <1>4 DEF Untouched
<1>12. Meaning!MeaningInit
  <2>1. \A i \in 1..n : Accepted(types[i]) = Denotes(Aliases[i].base, Aliases[i].constraint)
    BY <1>7, InsideIs DEF Accepted
  <2>2. [i \in DOMAIN types |-> Accepted(types[i])]
            = [i \in DOMAIN Aliases |-> Denotes(Aliases[i].base, Aliases[i].constraint)]
    BY <1>1, <1>8, <2>1, Zenon
  <2>3. QED BY <1>4, <2>2, Zenon DEF Meaning!MeaningInit
<1>13. QED BY <1>9, <1>10, <1>11, <1>12 DEF NInv

LEMMA StepIs ==
    ASSUME EnumAliases = FALSE, NInv, Next
    PROVE  NInv' /\ (Begins \/ Narrows \/ Concludes \/ Refuses)
<1>1. CASE StartBase
  BY <1>1, StartBaseIs
<1>2. CASE StartNamed
  BY <1>2, StartNamedIs
<1>3. CASE ValueBound
  BY <1>3, ValueBoundIs
<1>4. CASE LengthBound
  BY <1>4, LengthBoundIs
<1>5. CASE EnumClause
  BY <1>5, EnumClauseIs
<1>6. CASE Reject
  BY <1>6, RejectIs
<1>7. CASE Finish
  BY <1>7, FinishIs
<1>8. CASE FinishNamed
  BY <1>8, FinishNamedIs
<1>9. QED BY <1>1, <1>2, <1>3, <1>4, <1>5, <1>6, <1>7, <1>8 DEF Next

LEMMA StutterIs ==
    ASSUME NInv, UNCHANGED vars
    PROVE  NInv' /\ UNCHANGED Meaning!meaningVars
<1>1. UNCHANGED <<types, constraints, constraintHash, pc, base, below, source, norm, shared,
                  impossible, consumed, reading>>
  BY DEF vars
<1>2. Stored'
  BY <1>1, TablesKept DEF NInv
<1>3. Accepting' = Accepting /\ Draft' = Draft /\ reading' = reading
  BY <1>1 DEF Accepting, Accepted, ConstraintOf, Draft, Inside
<1>4. InProgress' /\ Untouched'
  <2>1. InProgress'
    BY <1>1 DEF NInv, InProgress, Form, Fits, Stacks
  <2>2. Extends' = Extends
    BY <1>1 DEF Extends, Merges
  <2>3. QED BY <1>1, <1>3, <2>1, <2>2 DEF NInv, Untouched
<1>5. QED BY <1>2, <1>3, <1>4, Zenon DEF NInv, Meaning!meaningVars, Accepting, Draft

\* Wherever no schema refines a number with an enum by its name, the normalizer is
\* type correct: the constraints it interns are finished, whole over int, sorted
\* in their enums, and fit every base that refers to them.
THEOREM NormalizerTypes ==
    ASSUME EnumAliases = FALSE
    PROVE  Spec => []TypeOK
<1>1. Init => NInv
  BY InitIs
<1>2. NInv /\ [Next]_vars => NInv'
  BY StepIs, StutterIs
<1>3. QED BY <1>1, <1>2, NInvTypes, PTL DEF Spec

\* Without named enums of numbers every schema compiles to a type that accepts just the
\* values its clauses say: the normalizer implements ConstraintMeaning.
THEOREM NormalizingKeepsMeaning ==
    ASSUME EnumAliases = FALSE
    PROVE  Spec => ImplementsMeaning
<1>1. Init => NInv /\ Meaning!MeaningInit
  BY InitIs
<1>2. NInv /\ [Next]_vars => NInv' /\ [Meaning!MeaningNext]_Meaning!meaningVars
  <2>1. ASSUME NInv, Next PROVE NInv' /\ Meaning!MeaningNext
    BY <2>1, StepIs, Simulates
  <2>2. ASSUME NInv, UNCHANGED vars PROVE NInv' /\ UNCHANGED Meaning!meaningVars
    BY <2>2, StutterIs
  <2>3. QED BY <2>1, <2>2
<1>3. QED BY <1>1, <1>2, PTL DEF Spec, ImplementsMeaning, Meaning!MeaningSpec

LEMMA AcceptingIs ==
    /\ DOMAIN Accepting = DOMAIN types
    /\ \A i \in DOMAIN types : Accepting[i] = Accepted(types[i])
  BY DEF Accepting

\* What a type accepts does not change, a step that compiles another or not.
LEMMA TypesStay ==
    ASSUME NInv, NInv', Begins \/ Narrows \/ Concludes \/ Refuses
    PROVE  /\ Len(types') = Len(types) \/ (Len(types') = Len(types) + 1 /\ Concludes)
           /\ \A i \in DOMAIN types : i \in DOMAIN types' /\ Accepting'[i] = Accepting[i]
<1> DEFINE S == {Accepting[i] : i \in DOMAIN types} \cup {Draft}
<1>1. PICK n \in Nat : n = Len(types) /\ DOMAIN types = 1..n
  BY DEF NInv, Stored
<1>2. PICK m \in Nat : m = Len(types') /\ DOMAIN types' = 1..m
  BY DEF NInv, Stored
<1>3. Accepting \in Seq(S) /\ Draft \in S
  <2>1. \A i \in 1..n : Accepting[i] \in S
    BY <1>1
  <2>2. Accepting = [i \in 1..n |-> Accepting[i]]
    BY <1>1, Zenon DEF Accepting
  <2>3. Draft \in S
    OBVIOUS
  <2> HIDE DEF S
  <2>4. Accepting \in [1..n -> S]
    BY <2>1, <2>2, Zenon
  <2>5. QED BY <2>3, <2>4, SeqDef
<1> HIDE DEF S
<1>4. DOMAIN Accepting = 1..n /\ DOMAIN Accepting' = 1..m
  BY <1>1, <1>2 DEF Accepting
<1>5. CASE Accepting' = Accepting
  <2>1. 1..m = 1..n
    BY <1>4, <1>5
  <2>2. m = n
    BY <2>1
  <2>3. QED BY <1>1, <1>2, <1>5, <2>2
<1>6. CASE Concludes
  <2>1. Accepting' = Append(Accepting, Draft)
    BY <1>6 DEF Concludes
  <2>2. /\ DOMAIN Accepting' = 1..(Len(Accepting) + 1) /\ Len(Accepting) = n
        /\ \A i \in 1..n : Accepting'[i] = Accepting[i]
    <3>1. Len(Accepting) = n
      BY <1>3, <1>4
    <3>2. QED BY <1>3, <2>1, <3>1, AppendProperties
  <2>3. 1..m = 1..(n + 1)
    BY <1>4, <2>2
  <2>4. m = n + 1
    BY <2>3
  <2>5. QED BY <1>1, <1>2, <1>6, <2>2, <2>4
<1>7. QED BY <1>5, <1>6 DEF Begins, Narrows, Refuses

\* Without named enums of numbers no compilation changes what an earlier type accepts.
THEOREM CompiledTypesAreImmutable ==
    ASSUME EnumAliases = FALSE
    PROVE  Spec => TypesImmutable
<1>1. Init => NInv
  BY InitIs
<1>2. NInv /\ [Next]_vars => NInv'
  BY StepIs, StutterIs
<1>3. ASSUME NInv, [Next]_vars
      PROVE  [\A i \in DOMAIN types : Accepted(types[i])' = Accepted(types[i])]_vars
  <2>1. CASE UNCHANGED vars
    BY <2>1
  <2>2. CASE Next
    <3>1. \A i \in DOMAIN types : i \in DOMAIN types' /\ Accepting'[i] = Accepting[i]
      BY <1>3, <2>2, StepIs, TypesStay
    <3>2. \A i \in DOMAIN types' : Accepting'[i] = Accepted(types[i])'
      BY DEF Accepting
    <3>3. QED BY <3>1, <3>2, AcceptingIs
  <2>3. QED BY <1>3, <2>1, <2>2
<1>4. QED BY <1>1, <1>2, <1>3, PTL DEF Spec, TypesImmutable

\* Without named enums of numbers a schema that is a name and no clause accepts what the
\* named type accepts.
THEOREM NamesKeepTheirMeaning ==
    ASSUME EnumAliases = FALSE
    PROVE  Spec => NamedTypePreserved
<1> DEFINE A == /\ pc = "consume" /\ source # 0 /\ consumed = 0 /\ Len(types') > Len(types)
                => Accepted(types[Len(types)])' = Accepted(types[source])
<1>1. Init => NInv
  BY InitIs
<1>2. NInv /\ [Next]_vars => NInv'
  BY StepIs, StutterIs
<1>3. ASSUME NInv, [Next]_vars
      PROVE  [A]_vars
  <2>1. CASE UNCHANGED vars
    BY <2>1
  <2>2. ASSUME Next, pc = "consume", source # 0, consumed = 0, Len(types') > Len(types)
        PROVE  Accepted(types[Len(types)])' = Accepted(types[source])
    <3>1. NInv' /\ (Begins \/ Narrows \/ Concludes \/ Refuses)
      BY <1>3, <2>2, StepIs
    <3>2. PICK n \in Nat : n = Len(types) /\ DOMAIN types = 1..n
      BY <1>3 DEF NInv, Stored
    <3>3. Len(types') = n + 1 /\ Concludes
      BY <1>3, <2>2, <3>1, <3>2, TypesStay
    <3>4. Draft = Accepting[source] /\ source \in DOMAIN types
      BY <1>3, <2>2, <3>2 DEF NInv, InProgress, Untouched, Draft
    <3>5. DOMAIN types' = 1..(n + 1)
      BY <3>1, <3>3 DEF NInv, Stored
    <3>6. Accepting'[n + 1] = Accepting[source]
      <4> DEFINE S == {Accepting[i] : i \in DOMAIN types}
      <4>1. Accepting \in Seq(S) /\ Draft \in S
        <5>1. \A i \in 1..n : Accepting[i] \in S
          BY <3>2
        <5>2. Accepting = [i \in 1..n |-> Accepting[i]]
          BY <3>2, Zenon DEF Accepting
        <5>3. Draft \in S
          BY <3>4
        <5> HIDE DEF S
        <5>4. Accepting \in [1..n -> S]
          BY <5>1, <5>2, Zenon
        <5>5. QED BY <5>3, <5>4, SeqDef
      <4> HIDE DEF S
      <4>2. Len(Accepting) = n
        BY <3>2, <4>1 DEF Accepting
      <4>3. QED BY <3>3, <3>4, <4>1, <4>2, AppendProperties DEF Concludes
    <3>7. \A i \in DOMAIN types' : Accepting'[i] = Accepted(types[i])'
      BY DEF Accepting
    <3>8. Accepted(types[Len(types)])' = Accepting'[n + 1]
      BY <3>3, <3>5, <3>7
    <3>9. QED BY <3>4, <3>6, <3>8, AcceptingIs
  <2>3. QED BY <1>3, <2>1, <2>2
<1>4. QED BY <1>1, <1>2, <1>3, PTL DEF Spec, NamedTypePreserved

(***************************************************************************)
(* The order of constraints.                                               *)
(***************************************************************************)
LEMMA LimitsWithin ==
    ASSUME NEW a \in Limits, NEW b \in Limits, NEW x \in Int
    PROVE  /\ LimitsSubset(a, b, FALSE) /\ Within(x, a, FALSE) => Within(x, b, FALSE)
           /\ LimitsSubset(a, b, TRUE) /\ Within(x, a, TRUE) => Within(x, b, TRUE)
<1>1. a.min \in Int /\ a.max \in Int /\ b.min \in Int /\ b.max \in Int
  BY DEF Limits
<1>2. LimitsSubset(a, b, FALSE) /\ Within(x, a, FALSE) => Within(x, b, FALSE)
  BY <1>1 DEF LimitsSubset, Within
<1>3. LimitsSubset(a, b, TRUE) /\ Within(x, a, TRUE) => Within(x, b, TRUE)
  BY <1>1 DEF LimitsSubset, Within
<1>4. QED BY <1>2, <1>3

LEMMA FormatWithin ==
    ASSUME NEW f \in Formats \cup {"noFmt"}, NEW g \in Formats \cup {"noFmt"}, NEW v, v.n \in Int,
           FormatSubset(f, g), FormatOk(v, f)
    PROVE  FormatOk(v, g)
<1>1. FloatMax["f32"] \in Nat /\ FloatMax["f64"] \in Nat /\ FloatMax["f32"] <= FloatMax["f64"]
  BY FormatsAssumption DEF Formats
<1>2. QED BY <1>1 DEF FormatSubset, FormatOk, Formats

\* Limits within limits, on a base both fit.
LEMMA LimitsSound ==
    ASSUME NEW b \in BaseKinds, NEW c, NEW d, c \in Norm, d \in Norm, Fits(b, d),
           Discrete(c.ints), Discrete(c.length), Discrete(d.ints), Discrete(d.length),
           LimitsSubset(c.ints, d.ints, FALSE), LimitsSubset(c.reals, d.reals, TRUE),
           FormatSubset(c.format, d.format), LimitsSubset(c.length, d.length, FALSE),
           NEW v, v \in Values(b) \/ Literal(b, v), LimitsOk(v, c)
    PROVE  LimitsOk(v, d)
<1>1. /\ c.ints \in Limits /\ c.reals \in Limits /\ c.length \in Limits
      /\ d.ints \in Limits /\ d.reals \in Limits /\ d.length \in Limits
      /\ c.format \in Formats \cup {"noFmt"} /\ d.format \in Formats \cup {"noFmt"}
      /\ v.n \in Int /\ v.len \in Int
  <2>1. Literal(b, v) => v.n \in Int /\ v.len \in Int
    BY DEF Literal, IsAtom, Atoms
  <2>2. QED BY <2>1, NormIs, ValueIs
<1>2. IntsOk(v, d.ints)
  <2>1. Within(v.n, c.ints, FALSE)
    BY <1>1, NoLimits DEF LimitsOk, IntsOk
  <2>2. Within(v.n, d.ints, FALSE)
    BY <1>1, <2>1, LimitsWithin
  <2>3. d.ints.flags # {} => v.kind = "IntAtom"
    BY ValuesAre DEF Fits, Literal, AtomCompat
  <2>4. QED BY <2>2, <2>3 DEF IntsOk
<1>3. RealsOk(v, d.reals)
  <2>1. Within(v.n, c.reals, TRUE)
    BY <1>1, NoLimits DEF LimitsOk, RealsOk
  <2>2. Within(v.n, d.reals, TRUE)
    BY <1>1, <2>1, LimitsWithin
  <2>3. d.reals.flags # {} => v.kind \in Numeric
    BY ValuesAre DEF Fits, Literal, AtomCompat
  <2>4. QED BY <2>2, <2>3 DEF RealsOk
<1>4. FormatOk(v, d.format)
  BY <1>1, FormatWithin DEF LimitsOk
<1>5. LengthOk(v, d.length)
  <2>1. Within(v.len, c.length, FALSE)
    BY <1>1, NoLimits DEF LimitsOk, LengthOk
  <2>2. Within(v.len, d.length, FALSE)
    BY <1>1, <2>1, LimitsWithin
  <2>3. d.length.flags # {} => v.kind \in {"StringAtom", "List", "Tuple"}
    BY ValuesAre DEF Fits, Literal, AtomCompat
  <2>4. QED BY <2>2, <2>3 DEF LengthOk
<1>6. QED BY <1>2, <1>3, <1>4, <1>5 DEF LimitsOk

\* A value of the base, or a literal of it, that the one accepts the other does.
LEMMA SubsetAccepts ==
    ASSUME NEW b \in BaseKinds, NEW c, NEW d, Finished(c), Finished(d), Fits(b, c), Fits(b, d),
           Subset(c, d), NEW v, v \in Values(b) \/ Literal(b, v), Accepts(v, c)
    PROVE  Accepts(v, d)
<1>1. /\ c \in Norm /\ d \in Norm /\ Discrete(c.ints) /\ Discrete(c.length)
      /\ Discrete(d.ints) /\ Discrete(d.length)
  BY DEF Finished, Whole
<1>2. CASE d \in {Unconstrained, c}
  BY <1>2, UnconstrainedIs
<1>3. CASE c.hasEnum /\ \A k \in DOMAIN c.enum : Accepts(c.enum[k], d)
  <2>1. PICK k \in DOMAIN c.enum : v.kind \notin {"List", "Tuple"} /\ SameAtom(v, c.enum[k])
    BY <1>3, AcceptsIs DEF InEnum
  <2>2. PICK a : a = c.enum[k]
    OBVIOUS
  <2>3. Literal(b, a) /\ Accepts(a, d)
    BY <1>3, <2>2 DEF Fits, Literal
  <2>4. AcceptsLimits(v, d)
    BY <2>1, <2>2, <2>3, SameLimits, AcceptsIs
  <2>5. ASSUME d.hasEnum PROVE InEnum(v, d.enum)
    <3>1. PICK j \in DOMAIN d.enum : SameAtom(a, d.enum[j])
      BY <2>3, <2>5, AcceptsIs DEF InEnum
    <3>2. SameAtom(v, d.enum[j])
      BY <2>1, <2>2, <3>1, SameAtomIs
    <3>3. QED BY <2>1, <3>2 DEF InEnum
  <2>6. QED BY <2>4, <2>5, AcceptsIs
<1>4. CASE /\ ~d.hasEnum
           /\ LimitsSubset(c.ints, d.ints, FALSE) /\ LimitsSubset(c.reals, d.reals, TRUE)
           /\ FormatSubset(c.format, d.format) /\ LimitsSubset(c.length, d.length, FALSE)
  <2>1. LimitsOk(v, c)
    BY AcceptsIs
  <2>2. LimitsOk(v, d)
    BY <1>1, <1>4, <2>1, LimitsSound
  <2>3. QED BY <1>4, <2>2, AcceptsIs
<1>5. QED BY <1>2, <1>3, <1>4 DEF Subset

LEMMA SubsetSound ==
    ASSUME NEW b \in BaseKinds, NEW c, NEW d, Finished(c), Finished(d), Fits(b, c), Fits(b, d),
           Subset(c, d)
    PROVE  Denotes(b, c) \subseteq Denotes(b, d)
  BY SubsetAccepts DEF Denotes

LEMMA LimitsChain ==
    ASSUME NEW a \in Limits, NEW b \in Limits, NEW c \in Limits, NEW k \in BOOLEAN,
           LimitsSubset(a, b, k), LimitsSubset(b, c, k)
    PROVE  LimitsSubset(a, c, k)
<1>1. /\ a.min \in Int /\ a.max \in Int /\ b.min \in Int /\ b.max \in Int
      /\ c.min \in Int /\ c.max \in Int
  BY DEF Limits
<1>2. QED BY <1>1 DEF LimitsSubset

\* A chain of subsets: where the first is an enum, its literals are handed on.
LEMMA SubsetChain ==
    ASSUME NEW b \in BaseKinds, NEW c, NEW d, NEW e, Finished(c), Finished(d), Finished(e),
           Fits(b, c), Fits(b, d), Fits(b, e), Subset(c, d), Subset(d, e)
    PROVE  Subset(c, e)
<1>1. CASE e \in {Unconstrained, d} \/ d = c
  BY <1>1 DEF Subset
<1>2. CASE e # Unconstrained /\ d = Unconstrained
  BY <1>2 DEF Subset, Unconstrained
<1>3. CASE c.hasEnum /\ \A k \in DOMAIN c.enum : Accepts(c.enum[k], d)
  <2>1. ASSUME NEW k \in DOMAIN c.enum PROVE Accepts(c.enum[k], e)
    <3>1. PICK a : a = c.enum[k]
      OBVIOUS
    <3>2. Literal(b, a) /\ Accepts(a, d)
      BY <1>3, <3>1 DEF Fits, Literal
    <3>3. QED BY <3>1, <3>2, SubsetAccepts
  <2>2. QED BY <1>3, <2>1 DEF Subset
<1>4. CASE /\ c # Unconstrained /\ ~c.hasEnum /\ ~d.hasEnum /\ e \notin {Unconstrained, d}
           /\ LimitsSubset(c.ints, d.ints, FALSE) /\ LimitsSubset(c.reals, d.reals, TRUE)
           /\ FormatSubset(c.format, d.format) /\ LimitsSubset(c.length, d.length, FALSE)
  <2>1. /\ ~e.hasEnum
        /\ LimitsSubset(d.ints, e.ints, FALSE) /\ LimitsSubset(d.reals, e.reals, TRUE)
        /\ FormatSubset(d.format, e.format) /\ LimitsSubset(d.length, e.length, FALSE)
    BY <1>4 DEF Subset
  <2>2. ASSUME NEW x \in {c, d, e}
        PROVE  x.ints \in Limits /\ x.reals \in Limits /\ x.length \in Limits
    BY NormIs DEF Finished
  <2>3. /\ LimitsSubset(c.ints, e.ints, FALSE) /\ LimitsSubset(c.reals, e.reals, TRUE)
        /\ LimitsSubset(c.length, e.length, FALSE)
    BY <1>4, <2>1, <2>2, LimitsChain
  <2>4. FormatSubset(c.format, e.format)
    BY <1>4, <2>1 DEF FormatSubset
  <2>5. QED BY <1>4, <2>1, <2>3, <2>4 DEF Subset
<1>5. QED BY <1>1, <1>2, <1>3, <1>4 DEF Subset

\* Without named enums of numbers, of two types over one base whose constraints Subset
\* takes for a subset, the one accepts no value the other does not.
THEOREM SubsetsAreSubsets ==
    ASSUME EnumAliases = FALSE
    PROVE  Spec => []SubsetIsSound
<1>1. Init => NInv
  BY InitIs
<1>2. NInv /\ [Next]_vars => NInv'
  BY StepIs, StutterIs
<1>3. NInv => SubsetIsSound
  <2> SUFFICES ASSUME NInv, NEW i \in DOMAIN types, NEW j \in DOMAIN types,
                      types[i].base = types[j].base, types[i].below = types[j].below,
                      Subset(ConstraintOf(types[i].constraint), ConstraintOf(types[j].constraint))
               PROVE  Accepted(types[i]) \subseteq Accepted(types[j])
    BY DEF SubsetIsSound
  <2>1. ASSUME NEW k \in DOMAIN types
        PROVE  /\ types[k].base \in BaseKinds /\ Finished(ConstraintOf(types[k].constraint))
               /\ Fits(types[k].base, ConstraintOf(types[k].constraint))
    <3>1. types[k] \in TypeNodes
      BY DEF NInv, Stored
    <3>2. /\ types[k].constraint \in 0..Len(constraints) /\ Stored
          /\ Fits(types[k].base, ConstraintOf(types[k].constraint))
      BY DEF NInv, Stored
    <3>3. QED BY <3>1, <3>2, ConstraintOfIs DEF TypeNodes
  <2>2. Denotes(types[i].base, ConstraintOf(types[i].constraint))
            \subseteq Denotes(types[j].base, ConstraintOf(types[j].constraint))
    BY <2>1, SubsetSound
  <2>3. QED BY <2>2 DEF Accepted, Inside
<1>4. QED BY <1>1, <1>2, <1>3, PTL DEF Spec
=============================================================================
