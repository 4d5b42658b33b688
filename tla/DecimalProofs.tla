--------------------------- MODULE DecimalProofs ---------------------------
(***************************************************************************)
(* Proofs about decimal.Parse, for every text and every width of integers. *)
(***************************************************************************)
EXTENDS Decimal, SequenceTheorems, Induction, TLAPS

(***************************************************************************)
(* Machine integers.                                                       *)
(***************************************************************************)
Exponents == (-MaxExp - 1)..MaxExp

LEMMA Wrap ==
    ASSUME NEW w \in Nat \ {0}, NEW x \in Int
    PROVE  /\ x \in 0..(w - 1) => x % w = x
           /\ x \in w..(2 * w - 1) => x % w = x - w
           /\ x \in (-w)..(-1) => x % w = x + w
           /\ x % w \in 0..(w - 1)
OBVIOUS

LEMMA Machine ==
    /\ \A x \in Int : Uint64(x) \in 0..(UWidth - 1) /\ Int64(x) \in Exponents
    /\ \A x \in 0..(UWidth - 1) : Uint64(x) = x
    /\ \A x \in Exponents : Int64(x) = x
    /\ MaxExp \in Nat /\ UWidth = 2 * MaxExp + 2 /\ MinMagnitude = MaxExp + 1
<1>1. MaxExp \in Nat /\ UWidth = 2 * MaxExp + 2 /\ MinMagnitude = MaxExp + 1
  BY DecimalAssumption DEF UWidth, MinMagnitude
<1>2. UWidth \in Nat \ {0}
  BY <1>1
<1>3. \A x \in Int : x % UWidth \in 0..(UWidth - 1)
  BY <1>2, Wrap
<1>4. ASSUME NEW x \in Int PROVE Uint64(x) \in 0..(UWidth - 1) /\ Int64(x) \in Exponents
  <2>1. PICK r \in 0..(UWidth - 1) : r = x % UWidth
    BY <1>3
  <2>2. r <= MaxExp => r \in Exponents
    BY <1>1, <2>1 DEF Exponents
  <2>3. ~(r <= MaxExp) => r - UWidth \in Exponents
    BY <1>1, <2>1 DEF Exponents
  <2>4. QED BY <2>1, <2>2, <2>3 DEF Uint64, Int64
<1>5. ASSUME NEW x \in 0..(UWidth - 1) PROVE Uint64(x) = x
  BY <1>2, Wrap DEF Uint64
<1>6. ASSUME NEW x \in Exponents PROVE Int64(x) = x
  <2>1. x >= 0 => x % UWidth = x /\ x <= MaxExp
    BY <1>1, <1>2, Wrap DEF Exponents
  <2>2. x < 0 => x % UWidth = x + UWidth /\ ~(x + UWidth <= MaxExp) /\ (x + UWidth) - UWidth = x
    <3> SUFFICES ASSUME x < 0
                 PROVE  x % UWidth = x + UWidth /\ ~(x + UWidth <= MaxExp) /\ (x + UWidth) - UWidth = x
      OBVIOUS
    <3>1. x \in Int /\ x \in (-UWidth)..(-1)
      BY <1>1 DEF Exponents
    <3>2. x % UWidth = x + UWidth
      BY <1>2, <3>1, Wrap
    <3>3. QED BY <1>1, <3>1, <3>2 DEF Exponents
  <2>3. x >= 0 \/ x < 0
    BY <1>1 DEF Exponents
  <2>4. QED BY <2>1, <2>2, <2>3 DEF Int64
<1>7. QED BY <1>1, <1>4, <1>5, <1>6

LEMMA AbsExpIs ==
    ASSUME NEW v \in Exponents
    PROVE  AbsExp(v) = (IF v >= 0 THEN v ELSE -v) /\ AbsExp(v) \in 0..(MaxExp + 1)
<1>1. MaxExp \in Nat /\ UWidth = 2 * MaxExp + 2
  BY Machine
<1>2. CASE v >= 0
  <2>1. v \in 0..(UWidth - 1) /\ v \in 0..(MaxExp + 1)
    BY <1>1, <1>2 DEF Exponents
  <2>2. QED BY <1>2, <2>1, Machine DEF AbsExp
<1>3. CASE v < 0
  <2>1. /\ v + 1 \in Exponents /\ -(v + 1) \in Exponents /\ -(v + 1) \in 0..(UWidth - 1)
        /\ -(v + 1) + 1 = -v /\ -v \in 0..(UWidth - 1) /\ -v \in 0..(MaxExp + 1)
    BY <1>1, <1>3 DEF Exponents
  <2>2. Int64(v + 1) = v + 1 /\ Int64(-(v + 1)) = -(v + 1) /\ Uint64(-(v + 1)) = -(v + 1)
    BY <2>1, Machine
  <2>3. Uint64(-(v + 1) + 1) = -v
    BY <2>1, Machine
  <2>4. AbsExp(v) = Uint64(Uint64(Int64(-Int64(v + 1))) + 1)
    BY <1>1, <1>3 DEF AbsExp, Exponents
  <2>5. AbsExp(v) = -v
    BY <2>2, <2>3, <2>4
  <2>6. QED BY <1>3, <2>1, <2>5 DEF Exponents
<1>4. QED BY <1>1, <1>2, <1>3 DEF Exponents

\* The limit is the largest magnitude that keeps the sum an int64.
LEMMA ExpLimitIs ==
    ASSUME NEW isNeg \in BOOLEAN, NEW adj \in Exponents
    PROVE  /\ ExpLimit(isNeg, adj) = IF isNeg THEN MaxExp + 1 + adj ELSE MaxExp - adj
           /\ ExpLimit(isNeg, adj) \in 0..(UWidth - 1)
<1>1. MaxExp \in Nat /\ UWidth = 2 * MaxExp + 2 /\ MinMagnitude = MaxExp + 1
  BY Machine
<1>2. adj \in Int /\ -MaxExp - 1 <= adj /\ adj <= MaxExp
  BY <1>1 DEF Exponents
<1>3. CASE isNeg /\ adj >= 0
  <2>1. adj \in 0..(UWidth - 1) /\ MinMagnitude + adj \in 0..(UWidth - 1)
    BY <1>1, <1>2, <1>3
  <2>2. ExpLimit(isNeg, adj) = MinMagnitude + adj
    BY <1>3, <2>1, Machine DEF ExpLimit
  <2>3. QED BY <1>1, <1>3, <2>1, <2>2
<1>4. CASE isNeg /\ adj < 0
  <2>1. AbsExp(adj) = -adj /\ MinMagnitude - (-adj) \in 0..(UWidth - 1) /\ MinMagnitude - (-adj) = MaxExp + 1 + adj
    BY <1>1, <1>2, <1>4, AbsExpIs
  <2>2. ExpLimit(isNeg, adj) = Uint64(MinMagnitude - AbsExp(adj))
    BY <1>2, <1>4 DEF ExpLimit
  <2>3. QED BY <1>4, <2>1, <2>2, Machine
<1>5. CASE ~isNeg /\ adj >= 0
  <2>1. MaxExp - adj \in Exponents /\ MaxExp - adj \in 0..(UWidth - 1)
    BY <1>1, <1>2, <1>5 DEF Exponents
  <2>2. ExpLimit(isNeg, adj) = Uint64(Int64(MaxExp - adj))
    BY <1>2, <1>5 DEF ExpLimit
  <2>3. QED BY <1>5, <2>1, <2>2, Machine
<1>6. CASE ~isNeg /\ adj < 0
  <2>1. AbsExp(adj) = -adj /\ MaxExp + (-adj) \in 0..(UWidth - 1) /\ MaxExp + (-adj) = MaxExp - adj
    BY <1>1, <1>2, <1>6, AbsExpIs
  <2>2. ExpLimit(isNeg, adj) = Uint64(MaxExp + AbsExp(adj))
    BY <1>2, <1>6 DEF ExpLimit
  <2>3. QED BY <1>6, <2>1, <2>2, Machine
<1>7. QED BY <1>2, <1>3, <1>4, <1>5, <1>6

LEMMA NegatedIs == \A d \in 0..(MaxExp + 1) : Negated(d) = -d
<1> SUFFICES ASSUME NEW d \in 0..(MaxExp + 1) PROVE Negated(d) = -d
  OBVIOUS
<1>1. MaxExp \in Nat /\ MinMagnitude = MaxExp + 1
  BY Machine
<1>2. CASE d = MinMagnitude
  BY <1>1, <1>2 DEF Negated
<1>3. CASE d # MinMagnitude
  <2>1. d \in Exponents /\ -d \in Exponents
    BY <1>1, <1>3 DEF Exponents
  <2>2. Negated(d) = Int64(-Int64(d))
    BY <1>3 DEF Negated
  <2>3. QED BY <2>1, <2>2, Machine
<1>4. QED BY <1>2, <1>3

\* Below the limit no step of the sum wraps.
LEMMA ApplyExpIs ==
    ASSUME NEW isNeg \in BOOLEAN, NEW adj \in Exponents,
           NEW mag \in 0..ExpLimit(isNeg, adj)
    PROVE  /\ ApplyExp(adj, isNeg, mag) = IF isNeg THEN adj - mag ELSE adj + mag
           /\ ApplyExp(adj, isNeg, mag) \in Exponents
<1>1. MaxExp \in Nat /\ UWidth = 2 * MaxExp + 2
  BY Machine
<1>2. adj \in Int /\ -MaxExp - 1 <= adj /\ adj <= MaxExp
  BY <1>1 DEF Exponents
<1>3. mag \in Nat /\ mag <= IF isNeg THEN MaxExp + 1 + adj ELSE MaxExp - adj
  BY <1>1, ExpLimitIs
<1> DEFINE s == IF isNeg THEN adj - mag ELSE adj + mag
<1>4. s \in Exponents
  BY <1>1, <1>2, <1>3 DEF Exponents
<1>5. CASE ~isNeg /\ adj >= 0
  <2>1. mag \in Exponents /\ s = adj + mag
    BY <1>1, <1>2, <1>3, <1>5 DEF Exponents
  <2>2. ApplyExp(adj, isNeg, mag) = Int64(adj + Int64(mag))
    BY <1>2, <1>5 DEF ApplyExp
  <2>3. QED BY <1>4, <2>1, <2>2, Machine
<1>6. CASE ~isNeg /\ adj < 0 /\ mag >= -adj
  <2>1. AbsExp(adj) = -adj /\ mag >= AbsExp(adj) /\ mag - (-adj) \in 0..(UWidth - 1)
        /\ mag - (-adj) = s
    BY <1>1, <1>2, <1>3, <1>6, AbsExpIs
  <2>2. ApplyExp(adj, isNeg, mag) = Int64(Uint64(mag - AbsExp(adj)))
    BY <1>2, <1>6, <2>1 DEF ApplyExp
  <2>3. Uint64(mag - AbsExp(adj)) = s
    BY <2>1, Machine
  <2>4. QED BY <1>4, <2>2, <2>3, Machine
<1>7. CASE ~isNeg /\ adj < 0 /\ mag < -adj
  <2>1. AbsExp(adj) = -adj /\ ~(mag >= AbsExp(adj)) /\ (-adj) - mag \in 0..(UWidth - 1)
        /\ (-adj) - mag \in 0..(MaxExp + 1) /\ -((-adj) - mag) = s
    BY <1>1, <1>2, <1>3, <1>7, AbsExpIs
  <2>2. ApplyExp(adj, isNeg, mag) = Negated(Uint64(AbsExp(adj) - mag))
    BY <1>2, <1>7, <2>1 DEF ApplyExp
  <2>3. Uint64(AbsExp(adj) - mag) = (-adj) - mag
    BY <2>1, Machine
  <2>4. QED BY <1>4, <2>1, <2>2, <2>3, NegatedIs
<1>8. CASE isNeg /\ adj <= 0
  <2>1. AbsExp(adj) = -adj /\ (-adj) + mag \in 0..(UWidth - 1)
        /\ (-adj) + mag \in 0..(MaxExp + 1) /\ -((-adj) + mag) = s
    BY <1>1, <1>2, <1>3, <1>8, AbsExpIs
  <2>2. ApplyExp(adj, isNeg, mag) = Negated(Uint64(AbsExp(adj) + mag))
    BY <1>2, <1>8 DEF ApplyExp
  <2>3. Uint64(AbsExp(adj) + mag) = (-adj) + mag
    BY <2>1, Machine
  <2>4. QED BY <1>4, <2>1, <2>2, <2>3, NegatedIs
<1>9. CASE isNeg /\ adj > 0 /\ mag <= adj
  <2>1. adj - mag \in 0..(UWidth - 1) /\ adj - mag = s
    BY <1>1, <1>2, <1>3, <1>9
  <2>2. ApplyExp(adj, isNeg, mag) = Int64(Uint64(adj - mag))
    BY <1>2, <1>9 DEF ApplyExp
  <2>3. QED BY <1>4, <2>1, <2>2, Machine
<1>10. CASE isNeg /\ adj > 0 /\ mag > adj
  <2>1. mag - adj \in 0..(UWidth - 1) /\ mag - adj \in 0..(MaxExp + 1) /\ -(mag - adj) = s
    BY <1>1, <1>2, <1>3, <1>10
  <2>2. ApplyExp(adj, isNeg, mag) = Negated(Uint64(mag - adj))
    BY <1>2, <1>3, <1>10 DEF ApplyExp
  <2>3. QED BY <1>4, <2>1, <2>2, Machine, NegatedIs
<1>11. QED BY <1>2, <1>3, <1>5, <1>6, <1>7, <1>8, <1>9, <1>10, <1>4

\* The exponent of a number is summed in machine integers, and exact: a
\* magnitude is within the limit just when the true sum is an int64, and then
\* the sum computed is the true one, at every width.
THEOREM ExponentExact ==
    ASSUME NEW isNeg \in BOOLEAN, NEW adj \in Exponents, NEW mag \in Nat,
           NEW sum, sum = IF isNeg THEN adj - mag ELSE adj + mag
    PROVE  /\ mag <= ExpLimit(isNeg, adj) <=> sum \in Exponents
           /\ sum \in Exponents => ApplyExp(adj, isNeg, mag) = sum
<1>1. MaxExp \in Nat /\ adj \in Int /\ -MaxExp - 1 <= adj /\ adj <= MaxExp
  BY Machine DEF Exponents
<1>2. mag <= ExpLimit(isNeg, adj) <=> sum \in Exponents
  <2>1. CASE isNeg
    <3>1. ExpLimit(isNeg, adj) = MaxExp + 1 + adj
      BY <2>1, ExpLimitIs
    <3>2. sum = adj - mag /\ sum <= MaxExp
      BY <1>1, <2>1
    <3>3. QED BY <1>1, <3>1, <3>2 DEF Exponents
  <2>2. CASE ~isNeg
    <3>1. ExpLimit(isNeg, adj) = MaxExp - adj
      BY <2>2, ExpLimitIs
    <3>2. sum = adj + mag /\ sum >= -MaxExp - 1
      BY <1>1, <2>2
    <3>3. QED BY <1>1, <3>1, <3>2 DEF Exponents
  <2>3. QED BY <2>1, <2>2
<1>3. sum \in Exponents => ApplyExp(adj, isNeg, mag) = sum
  <2>1. sum \in Exponents => mag \in 0..ExpLimit(isNeg, adj)
    <3>1. UWidth \in Int /\ ExpLimit(isNeg, adj) \in Int
      BY Machine, ExpLimitIs
    <3>2. QED BY <1>2, <3>1
  <2>2. QED BY <2>1, ApplyExpIs
<1>4. QED BY <1>2, <1>3

(***************************************************************************)
(* Zeros.                                                                  *)
(***************************************************************************)
LEMMA MostIs ==
    ASSUME NEW n \in Nat, NEW S, S \subseteq 0..n, S # {}
    PROVE  Most(S) \in S /\ \A l \in S : l <= Most(S)
<1> DEFINE T == {n - k : k \in S}
<1>1. T \subseteq Nat /\ T # {}
  <2>1. PICK k \in S : TRUE
    OBVIOUS
  <2>2. n - k \in T
    OBVIOUS
  <2>3. \A l \in S : n - l \in Nat
    OBVIOUS
  <2>4. QED BY <2>2, <2>3
<1>2. PICK x \in T : \A y \in T : x <= y
  BY <1>1, Least
<1>3. PICK k \in S : x = n - k
  OBVIOUS
<1>4. \A l \in S : n - l \in T
  OBVIOUS
<1>5. \A l \in S : l <= k
  <2> SUFFICES ASSUME NEW l \in S PROVE l <= k
    OBVIOUS
  <2>1. x <= n - l
    BY <1>2, <1>4
  <2>2. QED BY <1>3, <2>1
<1>6. QED BY <1>3, <1>5 DEF Most

NonZero(s) == s # <<0>>

\* Neither leading nor trailing zeros.
CanonicalDigits(s) ==
    /\ s \in Seq(Digit) /\ s # <<>>
    /\ s = <<0>> \/ (s[1] # 0 /\ s[Len(s)] # 0)

LEMMA LeadingStripped ==
    ASSUME NEW s \in Seq(Digit), NEW i \in DOMAIN s, s[i] # 0
    PROVE  LET k == Most(LeadingZeros(s)) IN
           /\ k \in 0..(Len(s) - 1) /\ s[k + 1] # 0
<1>1. Len(s) \in Nat /\ DOMAIN s = 1..Len(s)
  OBVIOUS
<1>2. PICK k : k = Most(LeadingZeros(s))
  OBVIOUS
<1>3. LeadingZeros(s) \subseteq 0..Len(s) /\ 0 \in LeadingZeros(s)
  BY <1>1 DEF LeadingZeros
<1>4. k \in LeadingZeros(s) /\ \A l \in LeadingZeros(s) : l <= k
  BY <1>1, <1>2, <1>3, MostIs
<1>5. k \in 0..Len(s) /\ \A j \in 1..k : s[j] = 0
  BY <1>4 DEF LeadingZeros
<1>6. k < i
  BY <1>1, <1>5
<1>7. s[k + 1] # 0
  <2> SUFFICES ASSUME s[k + 1] = 0 PROVE FALSE
    OBVIOUS
  <2>1. \A j \in 1..(k + 1) : s[j] = 0
    BY <1>5
  <2>2. k + 1 \in LeadingZeros(s)
    BY <1>1, <1>5, <1>6, <2>1 DEF LeadingZeros
  <2>3. QED BY <1>4, <1>5, <2>2
<1>8. QED BY <1>1, <1>2, <1>5, <1>6, <1>7

LEMMA TrailingStripped ==
    ASSUME NEW s \in Seq(Digit), s # <<>>
    PROVE  LET t == Most(TrailingZeros(s)) IN
           /\ t \in 0..(Len(s) - 1)
           /\ \A i \in (Len(s) - t + 1)..Len(s) : s[i] = 0
           /\ s[Len(s) - t] # 0 \/ t = Len(s) - 1
<1>1. Len(s) \in Nat /\ Len(s) > 0 /\ DOMAIN s = 1..Len(s)
  BY EmptySeq
<1>2. PICK t, n : t = Most(TrailingZeros(s)) /\ n = Len(s)
  OBVIOUS
<1>3. TrailingZeros(s) \subseteq 0..Len(s) /\ 0 \in TrailingZeros(s)
  BY <1>1 DEF TrailingZeros
<1>4. t \in TrailingZeros(s) /\ \A l \in TrailingZeros(s) : l <= t
  BY <1>1, <1>2, <1>3, MostIs
<1>5. t \in 0..(Len(s) - 1) /\ \A i \in (Len(s) - t + 1)..Len(s) : s[i] = 0
  BY <1>4 DEF TrailingZeros
<1>6. s[Len(s) - t] # 0 \/ t = Len(s) - 1
  <2> SUFFICES ASSUME s[Len(s) - t] = 0, t # Len(s) - 1 PROVE FALSE
    OBVIOUS
  <2>1. n \in Nat /\ n > 0 /\ t \in 0..(n - 1) /\ t # n - 1 /\ s[n - t] = 0
    BY <1>1, <1>2, <1>5
  <2>2. \A i \in (n - t + 1)..n : s[i] = 0
    BY <1>2, <1>5
  <2>3. /\ t + 1 \in 0..(n - 1)
        /\ \A i \in (n - (t + 1) + 1)..n : i = n - t \/ i \in (n - t + 1)..n
    BY <2>1
  <2>4. \A i \in (n - (t + 1) + 1)..n : s[i] = 0
    BY <2>1, <2>2, <2>3, Zenon
  <2>5. t + 1 \in TrailingZeros(s)
    BY <1>2, <2>3, <2>4, Zenon DEF TrailingZeros
  <2>6. QED BY <1>4, <1>5, <2>5
<1>7. QED BY <1>2, <1>5, <1>6

\* The digits once the leading zeros are moved away.
Moved == IF AllZeroes THEN <<0>> ELSE SubSeq(buf, Most(LeadingZeros(buf)) + 1, Len(buf))

LEMMA MovedIs ==
    ASSUME buf \in Seq(Digit), buf # <<>>
    PROVE  /\ Moved \in Seq(Digit) /\ Moved # <<>> /\ Len(Moved) <= Len(buf)
           /\ Moved = <<0>> \/ Moved[1] # 0
<1>1. Len(buf) \in Nat /\ Len(buf) > 0 /\ DOMAIN buf = 1..Len(buf)
  BY EmptySeq
<1>2. CASE AllZeroes
  <2>1. Moved = <<0>> /\ <<0>> \in Seq(Digit) /\ <<0>> # <<>> /\ Len(<<0>>) = 1
    BY <1>2 DEF Moved, Digit
  <2>2. QED BY <1>1, <2>1
<1>3. CASE ~AllZeroes
  <2>1. PICK k : k = Most(LeadingZeros(buf))
    OBVIOUS
  <2>2. PICK i \in DOMAIN buf : buf[i] # 0
    BY <1>3 DEF AllZeroes
  <2>3. k \in 0..(Len(buf) - 1) /\ buf[k + 1] # 0
    BY <2>1, <2>2, LeadingStripped
  <2>4. Moved = SubSeq(buf, k + 1, Len(buf))
    BY <1>3, <2>1 DEF Moved
  <2>5. /\ Moved \in Seq(Digit) /\ Len(Moved) = Len(buf) - k
        /\ \A j \in 1..(Len(buf) - k) : Moved[j] = buf[k + j]
    BY <1>1, <2>3, <2>4, SubSeqProperties
  <2>6. Moved[1] = buf[k + 1] /\ Len(Moved) > 0
    BY <1>1, <2>3, <2>5
  <2>7. QED BY <1>1, <2>3, <2>5, <2>6
<1>4. QED BY <1>2, <1>3

LEMMA Canonicalized ==
    ASSUME buf \in Seq(Digit), buf # <<>>
    PROVE  LET t == Most(TrailingZeros(Moved))
               digits == SubSeq(Moved, 1, Len(Moved) - t)
           IN  t \in Nat /\ CanonicalDigits(digits) /\ Len(digits) <= Len(buf)
<1>1. PICK m : m = Moved
  OBVIOUS
<1>2. m \in Seq(Digit) /\ m # <<>> /\ Len(m) <= Len(buf) /\ (m = <<0>> \/ m[1] # 0)
  BY <1>1, MovedIs
<1>3. PICK t : t = Most(TrailingZeros(m))
  OBVIOUS
<1>4. t \in 0..(Len(m) - 1) /\ (m[Len(m) - t] # 0 \/ t = Len(m) - 1)
  BY <1>2, <1>3, TrailingStripped
<1>5. PICK d : d = SubSeq(m, 1, Len(m) - t)
  OBVIOUS
<1>6. Len(m) \in Nat /\ Len(m) > 0 /\ Len(buf) \in Nat
  BY <1>2, EmptySeq
<1>7. /\ d \in Seq(Digit) /\ Len(d) = Len(m) - t
      /\ \A j \in 1..(Len(m) - t) : d[j] = m[j]
  <2>1. Len(m) - t \in 1..Len(m)
    BY <1>4, <1>6
  <2>2. \A j \in 1..(Len(m) - t) : m[1 + j - 1] = m[j]
    OBVIOUS
  <2>3. QED BY <1>2, <1>5, <1>6, <2>1, SubSeqProperties
<1>8. d # <<>> /\ d[1] = m[1] /\ d[Len(d)] = m[Len(m) - t]
  BY <1>4, <1>6, <1>7
<1>9. CASE m = <<0>>
  <2>1. Len(d) = 1 /\ d[1] = 0
    BY <1>4, <1>7, <1>8, <1>9
  <2>2. d = <<0>>
    <3>1. <<0>> \in Seq(Digit) /\ Len(<<0>>) = 1 /\ <<0>>[1] = 0
      BY DEF Digit
    <3>2. \A i \in 1..Len(d) : d[i] = <<0>>[i]
      BY <2>1, <3>1
    <3>3. QED BY <1>7, <2>1, <3>1, <3>2, SeqEqual
  <2>3. CanonicalDigits(d)
    BY <1>7, <1>8, <2>2 DEF CanonicalDigits
  <2>4. Len(d) <= Len(buf) /\ t \in Nat
    BY <1>2, <1>4, <1>6, <1>7
  <2>5. QED BY <1>1, <1>3, <1>5, <2>3, <2>4
<1>10. CASE m # <<0>>
  <2>1. m[1] # 0 /\ m[Len(m) - t] # 0
    <3>1. t = Len(m) - 1 => Len(m) - t = 1
      BY <1>4, <1>6
    <3>2. QED BY <1>2, <1>4, <1>10, <3>1
  <2>2. CanonicalDigits(d)
    BY <1>7, <1>8, <2>1 DEF CanonicalDigits
  <2>3. Len(d) <= Len(buf) /\ t \in Nat
    BY <1>2, <1>4, <1>6, <1>7
  <2>4. QED BY <1>1, <1>3, <1>5, <2>2, <2>3
<1>11. QED BY <1>9, <1>10

(***************************************************************************)
(* The bytes of a number printed.                                          *)
(***************************************************************************)
Step(f, k) == IF k < 10 THEN <<k>> ELSE Append(f[k \div 10], k % 10)

LEMMA Tenth == \A k \in Nat : k >= 10 => k \div 10 \in 0..(k - 1) /\ k % 10 \in Digit
<1> SUFFICES ASSUME NEW k \in Nat, k >= 10 PROVE k \div 10 \in 0..(k - 1) /\ k % 10 \in Digit
  OBVIOUS
<1>1. k % 10 \in 0..9
  OBVIOUS
<1>2. k \div 10 \in 0..(k - 1)
  OBVIOUS
<1>3. QED BY <1>1, <1>2 DEF Digit

LEMMA DecimalsAre ==
    \A n \in Nat : Decimals(n) = IF n < 10 THEN <<n>> ELSE Append(Decimals(n \div 10), n % 10)
<1> DEFINE Upto(f, n) == f = [k \in 0..n |-> Step(f, k)]
           S == {n \in Nat : \E f : Upto(f, n)}
<1>1. \A n \in Nat : n \in S
  <2>1. 0 \in S
    <3>1. Upto([k \in 0..0 |-> <<k>>], 0)
      BY DEF Step
    <3>2. QED BY <3>1
  <2>2. ASSUME NEW n \in Nat, n \in S PROVE n + 1 \in S
    <3>1. PICK f : Upto(f, n)
      BY <2>2
    <3> DEFINE g == [k \in 0..(n + 1) |-> IF k <= n THEN f[k] ELSE Step(f, k)]
    <3>7. \A k \in 0..n : g[k] = f[k]
      OBVIOUS
    <3>3. \A k \in 0..(n + 1) : g[k] = Step(f, k)
      BY <3>1
    <3>4. g = [k \in 0..(n + 1) |-> g[k]]
      OBVIOUS
    <3> HIDE DEF g
    <3>2. \A k \in 0..(n + 1) : Step(g, k) = Step(f, k)
      <4> SUFFICES ASSUME NEW k \in 0..(n + 1) PROVE Step(g, k) = Step(f, k)
        OBVIOUS
      <4>1. k >= 10 => g[k \div 10] = f[k \div 10]
        <5>1. k >= 10 => k \div 10 \in 0..n
          BY Tenth
        <5>2. QED BY <3>7, <5>1
      <4>2. QED BY <4>1 DEF Step
    <3>5. Upto(g, n + 1)
      BY <3>2, <3>3, <3>4
    <3>6. QED BY <3>5
  <2> HIDE DEF S
  <2>3. QED BY <2>1, <2>2, SetInduction
<1>2. \A f, g, n, m : n \in Nat /\ m \in Nat /\ Upto(f, n) /\ Upto(g, m) =>
            \A k \in Nat : k <= n /\ k <= m => f[k] = g[k]
  <2> SUFFICES ASSUME NEW f, NEW g, NEW n \in Nat, NEW m \in Nat, Upto(f, n), Upto(g, m)
               PROVE  \A k \in Nat : k <= n /\ k <= m => f[k] = g[k]
    OBVIOUS
  <2> DEFINE A == {k \in Nat : k <= n /\ k <= m => f[k] = g[k]}
  <2>1. ASSUME NEW k \in Nat, \A j \in Nat : j < k => j \in A PROVE k \in A
    <3> SUFFICES ASSUME k <= n, k <= m PROVE f[k] = g[k]
      OBVIOUS
    <3>1. k \in 0..n /\ k \in 0..m
      OBVIOUS
    <3>2. f[k] = Step(f, k)
      BY <3>1, Zenon
    <3>3. g[k] = Step(g, k)
      BY <3>1, Zenon
    <3>4. k >= 10 => f[k \div 10] = g[k \div 10]
      <4>1. k >= 10 => k \div 10 \in A /\ k \div 10 <= n /\ k \div 10 <= m
        BY <2>1, Tenth
      <4>2. QED BY <4>1
    <3>5. QED BY <3>2, <3>3, <3>4 DEF Step
  <2>2. \A k \in Nat : k \in A
    <3> HIDE DEF A
    <3>1. QED BY <2>1, SetStrongInduction
  <2>3. QED BY <2>2
<1> DEFINE at(n) == CHOOSE f : Upto(f, n)
           F == [k \in Nat |-> at(k)[k]]
<1>3. \A n \in Nat : Upto(at(n), n)
  BY <1>1
<1> HIDE DEF at, Upto
<1>4. \A k \in Nat : F[k] = Step(F, k)
  <2> SUFFICES ASSUME NEW k \in Nat PROVE F[k] = Step(F, k)
    OBVIOUS
  <2>1. at(k)[k] = Step(at(k), k)
    <3>1. PICK f : f = at(k) /\ Upto(f, k)
      BY <1>3
    <3>2. f[k] = Step(f, k)
      BY <3>1 DEF Upto
    <3>3. QED BY <3>1, <3>2
  <2>2. k >= 10 => at(k)[k \div 10] = at(k \div 10)[k \div 10]
    <3> SUFFICES ASSUME k >= 10 PROVE at(k)[k \div 10] = at(k \div 10)[k \div 10]
      OBVIOUS
    <3>1. PICK j \in Nat : j = k \div 10 /\ j <= k
      BY Tenth
    <3>2. Upto(at(k), k) /\ Upto(at(j), j)
      BY <1>3
    <3>3. QED BY <1>2, <3>1, <3>2
  <2>3. k >= 10 => k \div 10 \in Nat
    BY Tenth
  <2>4. QED BY <2>1, <2>2, <2>3 DEF Step
<1> HIDE DEF F
<1>5. \E T : T = [k \in Nat |-> Step(T, k)]
  <2>1. F = [k \in Nat |-> F[k]]
    BY DEF F
  <2>2. F = [k \in Nat |-> Step(F, k)]
    BY <1>4, <2>1, Zenon
  <2>3. QED BY <2>2
<1>6. PICK T : T = [k \in Nat |-> Step(T, k)] /\ \A n : Decimals(n) = T[n]
  <2>1. PICK T : T = (CHOOSE X : X = [k \in Nat |-> Step(X, k)])
    OBVIOUS
  <2>2. T = [k \in Nat |-> Step(T, k)]
    BY <1>5, <2>1, Zenon
  <2>3. \A n : Decimals(n) = T[n]
    BY <2>1, Zenon DEF Decimals, Step
  <2>4. QED BY <2>2, <2>3
<1>7. ASSUME NEW n \in Nat PROVE T[n] = IF n < 10 THEN <<n>> ELSE Append(T[n \div 10], n % 10)
  <2>1. \A k \in Nat : [j \in Nat |-> Step(T, j)][k] = Step(T, k)
    BY Zenon
  <2>2. T[n] = Step(T, n)
    BY <1>6, <2>1, Zenon
  <2>3. QED BY <2>2, Zenon DEF Step
<1>8. QED BY <1>6, <1>7, Zenon

LEMMA DecimalsAreDigits == \A n \in Nat : Decimals(n) \in Seq(Digit)
<1> DEFINE B == {n \in Nat : Decimals(n) \in Seq(Digit)}
<1>1. ASSUME NEW n \in Nat, \A j \in Nat : j < n => j \in B PROVE n \in B
  <2> SUFFICES Decimals(n) \in Seq(Digit)
    OBVIOUS
  <2>1. CASE n < 10
    <3>1. Decimals(n) = <<n>>
      BY <2>1, DecimalsAre, Zenon
    <3>2. n \in Digit
      BY <2>1 DEF Digit
    <3>3. <<n>> \in Seq(Digit)
      BY <3>2
    <3>4. QED BY <3>1, <3>3, Zenon
  <2>2. CASE n >= 10
    <3>1. Decimals(n \div 10) \in Seq(Digit) /\ n % 10 \in Digit
      BY <1>1, <2>2, Tenth
    <3>2. Decimals(n) = Append(Decimals(n \div 10), n % 10)
      <4>1. ~(n < 10)
        BY <2>2
      <4>2. QED BY <4>1, DecimalsAre, Zenon
    <3>3. PICK s \in Seq(Digit), d \in Digit : s = Decimals(n \div 10) /\ d = n % 10
      BY <3>1, Zenon
    <3>4. Append(s, d) \in Seq(Digit)
      OBVIOUS
    <3>5. QED BY <3>2, <3>3, <3>4, Zenon
  <2>3. n < 10 \/ n >= 10
    OBVIOUS
  <2>4. QED BY <2>1, <2>2, <2>3
<1>2. \A n \in Nat : n \in B
  <2> HIDE DEF B
  <2>1. QED BY <1>1, SetStrongInduction
<1>3. QED BY <1>2

LEMMA ExpStringIsBytes == \A exp \in Int : ExpString(exp) \in Seq(Bytes)
<1> SUFFICES ASSUME NEW exp \in Int PROVE ExpString(exp) \in Seq(Bytes)
  OBVIOUS
<1>1. \A n \in Nat : Decimals(n) \in Seq(Bytes)
  <2>1. \A d \in Digit : d \in Bytes
    BY DEF Digit, Bytes
  <2>2. \A s \in Seq(Digit) : s \in Seq(Bytes)
    BY <2>1
  <2>3. QED BY <2>2, DecimalsAreDigits
<1>2. <<>> \in Seq(Bytes) /\ <<E>> \in Seq(Bytes) /\ <<Minus>> \in Seq(Bytes)
  BY DEF E, Minus, Bytes
<1>3. \A s, t \in Seq(Bytes) : s \o t \in Seq(Bytes)
  OBVIOUS
<1>4. CASE exp = 0
  BY <1>2, <1>4, Zenon DEF ExpString
<1>5. CASE exp < 0
  <2>1. -exp \in Nat /\ exp # 0
    BY <1>5
  <2>2. <<E>> \o (<<Minus>> \o Decimals(-exp)) \in Seq(Bytes)
    BY <1>1, <1>2, <1>3, <2>1, Zenon
  <2>3. ExpString(exp) = <<E>> \o (<<Minus>> \o Decimals(-exp))
    BY <1>5, <2>1, Zenon DEF ExpString
  <2>4. QED BY <2>2, <2>3, Zenon
<1>6. CASE exp > 0
  <2>1. exp \in Nat /\ exp # 0 /\ ~(exp < 0)
    BY <1>6
  <2>2. <<E>> \o Decimals(exp) \in Seq(Bytes)
    BY <1>1, <1>2, <1>3, <2>1, Zenon
  <2>3. ExpString(exp) = <<E>> \o Decimals(exp)
    BY <2>1, Zenon DEF ExpString
  <2>4. QED BY <2>2, <2>3, Zenon
<1>7. QED BY <1>4, <1>5, <1>6

LEMMA StringIsBytes == \A v \in Number : String(v) \in Seq(Bytes)
<1> SUFFICES ASSUME NEW v \in Number PROVE String(v) \in Seq(Bytes)
  OBVIOUS
<1>1. v.digits \in Seq(Bytes) /\ v.exp \in Int
  <2>1. v.digits \in Seq(Digit) /\ v.exp \in Int
    BY DEF Number
  <2>2. \A d \in Digit : d \in Bytes
    BY DEF Digit, Bytes
  <2>3. QED BY <2>1, <2>2
<1>2. <<>> \in Seq(Bytes) /\ <<0>> \in Seq(Bytes) /\ <<Minus>> \in Seq(Bytes)
  BY DEF Minus, Bytes
<1>3. \A s, t \in Seq(Bytes) : s \o t \in Seq(Bytes)
  OBVIOUS
<1>4. PICK x : x = ExpString(v.exp) /\ x \in Seq(Bytes)
  BY <1>1, ExpStringIsBytes
<1>5. PICK m : m = (IF v.neg THEN <<Minus>> ELSE <<>>) /\ m \in Seq(Bytes)
  BY <1>2
<1>6. (m \o v.digits) \o x \in Seq(Bytes)
  BY <1>1, <1>3, <1>4, <1>5, Zenon
<1>7. String(v) = <<0>> \/ String(v) = (m \o v.digits) \o x
  BY <1>4, <1>5, Zenon DEF String
<1>8. QED BY <1>2, <1>6, <1>7, Zenon

(***************************************************************************)
(* The inductive invariant.  The digits gathered are always fewer than the *)
(* bytes read, which is what keeps the unread bytes apart from them; a     *)
(* coefficient is gathered before it is canonicalized and canonical after; *)
(* and the magnitude of an exponent stays zero until its digits are read.  *)
(***************************************************************************)
CanonicalNumber(v) ==
    /\ v \in Number /\ CanonicalDigits(v.digits) /\ v.exp \in Exponents
    /\ v.digits = <<0>> => v = Zero

Memory ==
    /\ text \in Seq(Bytes) /\ raw \in Seq(Bytes) /\ Len(raw) = Len(text)
    /\ buf \in Seq(Digit) /\ pos \in 1..(Len(text) + 1) /\ Len(buf) < pos
    /\ UnreadIntact

Registers ==
    /\ shared \in BOOLEAN /\ neg \in BOOLEAN /\ expNeg \in BOOLEAN /\ fracLen \in Nat
    /\ adjust \in Exponents
    /\ magnitude \in 0..(IF pc = "exp" THEN ExpLimit(expNeg, adjust) ELSE UWidth - 1)
    /\ pc \in {"start", "int", "point", "frac", "canon", "mark"} => magnitude = 0

Gathered ==
    /\ pc \in {"start", "int", "point", "frac", "canon", "mark", "exp", "scan",
               "done", "malformed", "missing", "overflow"}
    /\ pc = "start" => buf = <<>> /\ pos = 1
    /\ pc = "int" => buf # <<>> \/ AtDigit
    /\ pc \in {"point", "frac", "canon"} => buf # <<>>
    /\ pc \in {"mark", "exp", "scan"} => CanonicalDigits(buf)
    /\ pc = "exp" => buf # <<0>>
    /\ pc = "scan" => buf = <<0>>

Returned ==
    /\ {result, first} \subseteq Number
    /\ pc = "done" => CanonicalNumber(result)
    /\ first = NoNumber \/ CanonicalNumber(first)

DInv == Memory /\ Registers /\ Gathered /\ Returned

LEMMA InvariantTypes == DInv => TypeOK /\ UnreadIntact
<1> SUFFICES ASSUME DInv PROVE TypeOK /\ UnreadIntact
  OBVIOUS
<1>1. Len(buf) <= Len(text)
  BY DEF DInv, Memory
<1>2. QED BY <1>1 DEF DInv, Memory, Registers, Gathered, Returned, TypeOK, Exponents

\* A digit pushed is written over bytes that are read.
LEMMA PushKeeps ==
    ASSUME Memory, NEW q \in 1..Len(text), Len(buf) < q, NEW b \in Digit, Push(b)
    PROVE  /\ raw' \in Seq(Bytes) /\ Len(raw') = Len(text)
           /\ buf' \in Seq(Digit) /\ Len(buf') = Len(buf) + 1 /\ buf' # <<>>
           /\ \A k \in (q + 1)..Len(text) : raw'[k] = raw[k]
<1>1. buf' = Append(buf, b) /\ buf \in Seq(Digit)
  BY DEF Push, Memory
<1>2. buf' \in Seq(Digit) /\ Len(buf') = Len(buf) + 1 /\ buf' # <<>>
  BY <1>1
<1>3. PICK n : n = Len(buf) + 1 /\ n \in 1..q
  BY <1>1
<1>4. raw \in Seq(Bytes) /\ Len(raw) = Len(text) /\ DOMAIN raw = 1..Len(raw)
  BY DEF Memory
<1>5. b \in Bytes
  BY DEF Digit, Bytes
<1>6. raw' = raw \/ (n \in DOMAIN raw /\ raw' = [raw EXCEPT ![n] = b])
  <2>1. raw' = Written(raw, n, b)
    BY <1>3, Zenon DEF Push
  <2>2. BufStart + n = n
    BY <1>3 DEF BufStart
  <2>3. n <= Len(raw) => n \in DOMAIN raw
    BY <1>3, <1>4
  <2>4. QED BY <2>1, <2>2, <2>3, Zenon DEF Written
<1>7. raw' \in Seq(Bytes) /\ Len(raw') = Len(text)
  BY <1>4, <1>5, <1>6
<1>8. ASSUME NEW k \in (q + 1)..Len(text) PROVE raw'[k] = raw[k]
  <2>1. k # n /\ k \in DOMAIN raw
    BY <1>3, <1>4
  <2>2. QED BY <1>6, <2>1
<1>9. QED BY <1>2, <1>7, <1>8

THEOREM DecimalInit == Init => DInv
<1> SUFFICES ASSUME Init PROVE DInv
  OBVIOUS
<1>1. /\ text \in Seq(Bytes) /\ raw = text /\ buf = <<>> /\ pos = 1 /\ pc = "start"
      /\ shared \in BOOLEAN /\ neg = FALSE /\ expNeg = FALSE /\ fracLen = 0 /\ adjust = 0
      /\ magnitude = 0 /\ result = NoNumber /\ first = NoNumber
  BY DecimalAssumption DEF Init, Idle
<1>2. Memory
  <2>1. Len(text) \in Nat /\ Len(buf) = 0 /\ buf \in Seq(Digit)
    BY <1>1
  <2>2. QED BY <1>1, <2>1 DEF Memory, UnreadIntact
<1>3. Registers
  <2>1. MaxExp \in Nat /\ UWidth - 1 = 2 * MaxExp + 1
    BY Machine
  <2>2. 0 \in Exponents /\ 0 \in 0..(UWidth - 1)
    BY <2>1 DEF Exponents
  <2>3. QED BY <1>1, <2>2 DEF Registers
<1>4. Gathered
  BY <1>1 DEF Gathered
<1>5. Returned
  <2>1. NoNumber \in Number
    BY DEF NoNumber, Num, Number
  <2>2. QED BY <1>1, <2>1 DEF Returned
<1>6. QED BY <1>2, <1>3, <1>4, <1>5 DEF DInv

LEMMA Magnitudes ==
    ASSUME Registers
    PROVE  MaxExp \in Nat /\ UWidth \in Nat /\ magnitude \in 0..(UWidth - 1)
<1>1. MaxExp \in Nat /\ UWidth = 2 * MaxExp + 2
  BY Machine
<1>2. ExpLimit(expNeg, adjust) \in 0..(UWidth - 1)
  BY ExpLimitIs DEF Registers
<1>3. CASE pc = "exp"
  BY <1>1, <1>2, <1>3 DEF Registers
<1>4. CASE pc # "exp"
  BY <1>1, <1>4 DEF Registers
<1>5. QED BY <1>1, <1>3, <1>4

\* Only pc moves: to a state that asks no more of the registers and of buf.
LEMMA ReturnKeeps ==
    ASSUME DInv, NEW how, Return(how), how \notin {"exp", "done"},
           how \in {"start", "int", "point", "frac", "canon", "mark"} => magnitude = 0
    PROVE  Memory' /\ Registers' /\ Returned' /\ pc' = how /\ UNCHANGED <<buf, raw, pos>>
<1>1. /\ pc' = how
      /\ UNCHANGED <<text, raw, shared, buf, pos, neg, fracLen, adjust, expNeg, magnitude,
                     result, first>>
  BY DEF Return, scanned
<1>2. Memory'
  BY <1>1 DEF DInv, Memory, UnreadIntact
<1>3. Registers'
  <2>1. magnitude \in 0..(UWidth - 1)
    BY Magnitudes DEF DInv
  <2>2. QED BY <1>1, <2>1 DEF DInv, Registers
<1>4. Returned'
  BY <1>1 DEF DInv, Returned
<1>5. QED BY <1>1, <1>2, <1>3, <1>4

\* A byte read and pushed: q is the byte, the last one read after the step.
LEMMA DigitRead ==
    ASSUME DInv, NEW q \in 1..Len(text), q >= pos, raw[q] \in Digit,
           Push(raw[q]), pos' = q + 1, text' = text
    PROVE  Memory' /\ buf' # <<>>
<1>1. Memory /\ Len(buf) < q
  BY DEF DInv, Memory
<1>2. /\ raw' \in Seq(Bytes) /\ Len(raw') = Len(text)
      /\ buf' \in Seq(Digit) /\ Len(buf') = Len(buf) + 1 /\ buf' # <<>>
      /\ \A k \in (q + 1)..Len(text) : raw'[k] = raw[k]
  BY <1>1, PushKeeps
<1>3. Len(text) \in Nat /\ Len(buf) \in Nat /\ pos \in Nat
  BY <1>1 DEF Memory
<1>4. \A k \in (q + 1)..Len(text) : raw[k] = text[k]
  BY <1>1, <1>3 DEF Memory, UnreadIntact
<1>5. UnreadIntact'
  BY <1>2, <1>4 DEF UnreadIntact
<1>6. QED BY <1>1, <1>2, <1>3, <1>5 DEF Memory

LEMMA ParseStartKeeps == ASSUME DInv, ParseStart PROVE DInv'
<1>1. PICK p : p = IF Next1(Minus) THEN 2 ELSE 1
  OBVIOUS
<1>2. pc = "start" /\ magnitude = 0 /\ pos \in Nat /\ buf = <<>>
      /\ raw \in Seq(Bytes) /\ Len(raw) = Len(text) /\ Len(text) \in Nat
  BY DEF ParseStart, DInv, Registers, Gathered, Memory
<1>3. CASE Return("malformed")
  <2>1. Memory' /\ Registers' /\ Returned' /\ pc' = "malformed"
    BY <1>3, ReturnKeeps
  <2>2. QED BY <2>1 DEF DInv, Gathered
<1>4. CASE /\ p <= Len(raw) /\ raw[p] \in Digit
           /\ neg' = (p = 2)
           /\ IF raw[p] = 0 THEN Push(0) /\ pos' = p + 1 /\ pc' = "point"
                            ELSE pos' = p /\ pc' = "int" /\ UNCHANGED <<raw, buf>>
           /\ UNCHANGED <<text, shared, fracLen, adjust, expNeg, magnitude, result, first>>
  <2>1. neg' \in BOOLEAN
    BY <1>4
  <2>2. pc' \in {"point", "int"}
    BY <1>4
  <2>3. Registers'
    <3>1. magnitude' = 0 /\ 0 \in 0..(UWidth - 1)
      BY <1>2, <1>4, Machine
    <3>2. QED BY <1>4, <2>1, <2>2, <3>1 DEF DInv, Registers
  <2>4. Returned'
    BY <1>4, <2>2 DEF DInv, Returned
  <2>5. p \in 1..Len(text) /\ p >= pos
    <3>1. Next1(Minus) => pos <= Len(raw) /\ raw[pos] = Minus
      BY DEF Next1, More
    <3>2. pos = 1
      BY <1>2 DEF DInv, Gathered, Memory, ParseStart
    <3>3. QED BY <1>1, <1>2, <1>4, <3>1, <3>2
  <2>6. CASE raw[p] = 0
    <3>1. Push(raw[p]) /\ pos' = p + 1 /\ text' = text /\ pc' = "point"
      BY <1>4, <2>6
    <3>2. Memory' /\ buf' # <<>>
      BY <1>4, <2>5, <3>1, DigitRead
    <3>3. QED BY <2>3, <2>4, <3>1, <3>2 DEF DInv, Gathered
  <2>7. CASE raw[p] # 0
    <3>1. pos' = p /\ pc' = "int" /\ UNCHANGED <<raw, buf, text>>
      BY <1>4, <2>7
    <3>2. Memory'
      <4>1. \A k \in p..Len(text) : k \in pos..Len(text)
        BY <1>2, <2>5
      <4>2. UnreadIntact'
        BY <3>1, <4>1 DEF DInv, Memory, UnreadIntact
      <4>3. Len(buf) = 0
        BY <1>2
      <4>4. QED BY <1>2, <2>5, <3>1, <4>2, <4>3 DEF DInv, Memory
    <3>3. AtDigit'
      BY <1>2, <1>4, <3>1 DEF AtDigit, More
    <3>4. QED BY <2>3, <2>4, <3>1, <3>2, <3>3 DEF DInv, Gathered
  <2>8. QED BY <2>6, <2>7
<1>5. QED BY <1>1, <1>3, <1>4 DEF ParseStart

LEMMA DigitsKeep == ASSUME DInv, IntDigit \/ FracDigit PROVE DInv'
<1>1. /\ pc \in {"int", "frac"} /\ AtDigit
      /\ Push(raw[pos]) /\ pos' = pos + 1
      /\ fracLen' = fracLen \/ fracLen' = fracLen + 1
      /\ UNCHANGED <<text, shared, pc, neg, adjust, expNeg, magnitude, result, first>>
  BY DEF IntDigit, FracDigit
<1>2. pos \in 1..Len(text) /\ raw[pos] \in Digit
  BY <1>1 DEF AtDigit, More, DInv, Memory
<1>3. Memory' /\ buf' # <<>>
  BY <1>1, <1>2, DigitRead
<1>4. Registers'
  BY <1>1 DEF DInv, Registers
<1>5. Returned'
  BY <1>1 DEF DInv, Returned
<1>6. QED BY <1>1, <1>3, <1>4, <1>5 DEF DInv, Gathered

LEMMA EndsKeep == ASSUME DInv, IntEnd \/ FracEnd PROVE DInv'
<1>1. PICK how \in {"point", "malformed", "canon"} :
          Return(how) /\ pc \in {"int", "frac"} /\ (pc = "int" => ~AtDigit)
  BY DEF IntEnd, FracEnd
<1>2. magnitude = 0 /\ buf # <<>>
  BY <1>1 DEF DInv, Registers, Gathered
<1>3. Memory' /\ Registers' /\ Returned' /\ pc' = how /\ UNCHANGED <<buf, raw, pos>>
  BY <1>1, <1>2, ReturnKeeps
<1>4. QED BY <1>1, <1>2, <1>3 DEF DInv, Gathered

LEMMA PointKeeps == ASSUME DInv, Point PROVE DInv'
<1>1. /\ pc = "point" /\ pc' \in {"frac", "canon"}
      /\ pos' = pos \/ (pos' = pos + 1 /\ pos <= Len(raw))
      /\ UNCHANGED <<text, raw, shared, buf, neg, fracLen, adjust, expNeg, magnitude, result, first>>
  BY DEF Point, Next1, More
<1>2. Memory'
  <2>1. Len(text) \in Nat /\ Len(buf) \in Nat /\ pos' \in 1..(Len(text) + 1) /\ Len(buf) < pos'
    BY <1>1 DEF DInv, Memory
  <2>2. \A k \in pos'..Len(text) : k \in pos..Len(text)
    BY <1>1, <2>1 DEF DInv, Memory
  <2>3. UnreadIntact'
    BY <1>1, <2>2 DEF DInv, Memory, UnreadIntact
  <2>4. QED BY <1>1, <2>1, <2>3 DEF DInv, Memory
<1>3. Registers' /\ Returned' /\ Gathered'
  BY <1>1 DEF DInv, Registers, Returned, Gathered
<1>4. QED BY <1>2, <1>3 DEF DInv

\* The digits move to the front, over bytes that are read.
LEMMA CanonicalizeKeeps == ASSUME DInv, Canonicalize PROVE DInv'
<1>1. PICK m, t : m = Moved /\ t = Most(TrailingZeros(m))
  OBVIOUS
<1>2. /\ pc = "canon" /\ pc' = "mark" /\ buf # <<>> /\ buf \in Seq(Digit) /\ magnitude = 0
      /\ UNCHANGED <<text, shared, pos, neg, fracLen, expNeg, magnitude, result, first>>
  BY DEF Canonicalize, DInv, Gathered, Registers, Memory
<1>3. /\ buf' = SubSeq(m, 1, Len(m) - t)
      /\ adjust' = IF AllZeroes THEN 0 ELSE Adjust(t)
      /\ raw' = [k \in DOMAIN raw |->
                   IF k - BufStart \in DOMAIN m THEN Written(raw, k - BufStart, m[k - BufStart])[k]
                                                ELSE raw[k]]
  BY <1>1, Zenon DEF Canonicalize, Moved
<1>4. CanonicalDigits(buf') /\ Len(buf') <= Len(buf) /\ t \in Nat
  BY <1>1, <1>2, <1>3, Canonicalized
<1>5. m \in Seq(Digit) /\ Len(m) <= Len(buf)
  BY <1>1, <1>2, MovedIs
<1>6. raw \in Seq(Bytes) /\ Len(raw) = Len(text) /\ DOMAIN raw = 1..Len(text) /\ Len(text) \in Nat
      /\ Len(buf) < pos /\ pos \in Nat /\ Len(buf) \in Nat
  BY DEF DInv, Memory
<1>7. /\ raw' \in Seq(Bytes) /\ Len(raw') = Len(text)
      /\ \A k \in pos..Len(text) : raw'[k] = raw[k]
  <2>1. ASSUME NEW k \in DOMAIN raw
        PROVE  raw'[k] \in Bytes /\ (k >= pos => raw'[k] = raw[k])
    <3>1. k - BufStart = k /\ BufStart + k = k /\ DOMAIN m = 1..Len(m) /\ Len(m) \in Nat
      BY <1>5, <1>6 DEF BufStart
    <3>2. raw'[k] = IF k \in DOMAIN m THEN Written(raw, k, m[k])[k] ELSE raw[k]
      BY <1>3, <3>1, Zenon
    <3>3. raw[k] \in Bytes
      BY <1>6
    <3>4. CASE k \in DOMAIN m
      <4>1. m[k] \in Bytes /\ ~(k >= pos)
        <5>1. m[k] \in Digit /\ k <= Len(m)
          BY <1>5, <3>1, <3>4
        <5>2. QED BY <1>5, <1>6, <3>1, <5>1 DEF Digit, Bytes
      <4>2. Written(raw, k, m[k]) = raw \/ Written(raw, k, m[k]) = [raw EXCEPT ![k] = m[k]]
        BY <3>1, Zenon DEF Written
      <4>3. Written(raw, k, m[k])[k] \in Bytes
        <5>1. [raw EXCEPT ![k] = m[k]][k] = m[k]
          OBVIOUS
        <5>2. QED BY <3>3, <4>1, <4>2, <5>1
      <4>4. QED BY <3>2, <3>4, <4>1, <4>3
    <3>5. CASE k \notin DOMAIN m
      BY <3>2, <3>3, <3>5
    <3>6. QED BY <3>4, <3>5
  <2>2. DOMAIN raw' = 1..Len(text)
    BY <1>3, <1>6
  <2>3. raw' \in Seq(Bytes) /\ Len(raw') = Len(text)
    <3>1. raw' \in [1..Len(text) -> Bytes]
      <4>1. \A k \in 1..Len(text) : raw'[k] \in Bytes
        BY <1>6, <2>1
      <4>2. raw' = [k \in 1..Len(text) |-> raw'[k]]
        BY <1>3, <1>6
      <4>3. QED BY <4>1, <4>2
    <3>2. QED BY <1>6, <3>1
  <2>4. QED BY <1>6, <2>1, <2>3
<1>8. Memory'
  <2>1. UnreadIntact'
    <3>1. \A k \in pos..Len(text) : raw[k] = text[k]
      BY DEF DInv, Memory, UnreadIntact
    <3>2. QED BY <1>2, <1>7, <3>1 DEF UnreadIntact
  <2>2. buf' \in Seq(Digit) /\ Len(buf') < pos
    <3>1. buf' \in Seq(Digit)
      BY <1>4 DEF CanonicalDigits
    <3>2. Len(buf') \in Nat
      BY <3>1
    <3>3. QED BY <1>4, <1>6, <3>1, <3>2
  <2>3. QED BY <1>2, <1>7, <2>1, <2>2 DEF DInv, Memory
<1>9. Registers'
  <2>1. adjust' \in Exponents
    <3>1. t - fracLen \in Int /\ 0 \in Exponents
      BY <1>4, Machine DEF DInv, Registers, Exponents
    <3>2. QED BY <1>3, <3>1, Machine DEF Adjust
  <2>2. QED BY <1>2, <2>1 DEF DInv, Registers
<1>10. Returned'
  BY <1>2 DEF DInv, Returned
<1>11. QED BY <1>2, <1>4, <1>8, <1>9, <1>10 DEF DInv, Gathered

\* A number is returned from canonical digits.
LEMMA DoneKeeps ==
    ASSUME DInv, pc \in {"mark", "exp", "scan"}, NEW exp, Done(exp),
           NonZero(buf) => exp \in Exponents
    PROVE  DInv'
<1>1. /\ pc' = "done" /\ result' = IF buf = <<0>> THEN Zero ELSE Num(neg, buf, exp)
      /\ UNCHANGED <<text, raw, shared, buf, pos, neg, fracLen, adjust, expNeg, magnitude, first>>
  BY DEF Done, scanned
<1>2. CanonicalDigits(buf) /\ neg \in BOOLEAN
  BY DEF DInv, Gathered, Registers
<1>3. CanonicalNumber(result')
  <2>1. CASE buf = <<0>>
    <3>1. <<0>> \in Seq(Digit) /\ <<0>> # <<>>
      BY DEF Digit
    <3>2. 0 \in Exponents /\ 0 \in Int
      BY Machine DEF Exponents
    <3>3. Zero \in Number /\ Zero.digits = <<0>> /\ Zero.exp = 0
      BY <3>1 DEF Zero, Num, Number
    <3>4. QED BY <1>1, <2>1, <3>1, <3>2, <3>3 DEF CanonicalNumber, CanonicalDigits
  <2>2. CASE buf # <<0>>
    <3>1. exp \in Exponents /\ exp \in Int /\ buf \in Seq(Digit)
      BY <1>2, <2>2, Machine DEF Exponents, CanonicalDigits, NonZero
    <3>2. PICK v : v = Num(neg, buf, exp) /\ v = result'
      BY <1>1, <2>2
    <3>3. v \in Number /\ v.digits = buf /\ v.exp = exp
      BY <1>2, <3>1, <3>2 DEF Num, Number
    <3>4. QED BY <1>2, <2>2, <3>1, <3>2, <3>3 DEF CanonicalNumber
  <2>3. QED BY <2>1, <2>2
<1>4. Memory'
  BY <1>1 DEF DInv, Memory, UnreadIntact
<1>5. Registers'
  <2>1. magnitude \in 0..(UWidth - 1)
    BY Magnitudes DEF DInv
  <2>2. QED BY <1>1, <2>1 DEF DInv, Registers
<1>6. Returned'
  BY <1>1, <1>3 DEF DInv, Returned, CanonicalNumber
<1>7. Gathered'
  BY <1>1 DEF Gathered
<1>8. QED BY <1>4, <1>5, <1>6, <1>7 DEF DInv

\* Reading on without a byte pushed.
LEMMA SkipKeeps ==
    ASSUME Memory, pos' \in 1..(Len(text) + 1), pos' >= pos, UNCHANGED <<text, raw, buf>>
    PROVE  Memory'
<1>1. Len(text) \in Nat /\ Len(buf) \in Nat /\ pos \in Nat
  BY DEF Memory
<1>2. \A k \in pos'..Len(text) : k \in pos..Len(text)
  BY <1>1
<1>3. UnreadIntact'
  BY <1>2 DEF Memory, UnreadIntact
<1>4. QED BY <1>1, <1>3 DEF Memory

LEMMA ExpMarkKeeps == ASSUME DInv, ExpMark PROVE DInv'
<1> DEFINE signed == pos + 1 <= Len(raw) /\ raw[pos + 1] \in {Minus, Plus}
           p == IF signed THEN pos + 2 ELSE pos + 1
           Noted == /\ pos' = p /\ pc' = IF buf = <<0>> THEN "scan" ELSE "exp"
                    /\ expNeg' = (signed /\ raw[pos + 1] = Minus)
                    /\ UNCHANGED <<text, raw, shared, buf, neg, fracLen, adjust, magnitude, result, first>>
           Missing == p > Len(raw) \/ raw[p] \notin Digit
<1>1. (CASE ~More                -> Done(adjust)
         [] More /\ raw[pos] # E -> Return("malformed")
         [] Next1(E) /\ Missing  -> Return("missing")
         [] OTHER                -> Noted)
  BY Zenon DEF ExpMark
<1>2. p \in {pos + 1, pos + 2} /\ (signed /\ raw[pos + 1] = Minus) \in BOOLEAN
  OBVIOUS
<1>3. /\ pc = "mark" /\ CanonicalDigits(buf) /\ magnitude = 0 /\ adjust \in Exponents
      /\ pos \in Nat \ {0} /\ Len(raw) = Len(text) /\ Len(text) \in Nat
  BY DEF ExpMark, DInv, Memory, Gathered, Registers
<1>4. Done(adjust) \/ Return("malformed") \/ Return("missing") \/ (p <= Len(raw) /\ Noted)
  <2>1. ~Missing => p <= Len(raw)
    BY <1>2, <1>3
  <2> HIDE DEF Noted, Missing, p
  <2>2. CASE ~More
    BY <1>1, <2>2
  <2>3. CASE More /\ raw[pos] # E
    BY <1>1, <2>3
  <2>4. CASE Next1(E)
    BY <1>1, <2>1, <2>4 DEF Next1
  <2>5. QED BY <2>2, <2>3, <2>4 DEF Next1
<1>5. CASE Done(adjust)
  BY <1>3, <1>5, DoneKeeps
<1>6. CASE Return("malformed") \/ Return("missing")
  <2>1. PICK how \in {"malformed", "missing"} : Return(how)
    BY <1>6
  <2>2. Memory' /\ Registers' /\ Returned' /\ pc' = how
    BY <2>1, ReturnKeeps
  <2>3. QED BY <2>2 DEF DInv, Gathered
<1>7. CASE p <= Len(raw) /\ Noted
  <2>1. Memory'
    <3>1. pos' \in 1..(Len(text) + 1) /\ pos' >= pos
      BY <1>2, <1>3, <1>7
    <3>2. QED BY <1>7, <3>1, SkipKeeps DEF DInv
  <2>2. Registers'
    <3>1. expNeg' \in BOOLEAN
      BY <1>2, <1>7, Zenon
    <3>2. ExpLimit(expNeg', adjust) \in 0..(UWidth - 1)
      BY <1>3, <3>1, ExpLimitIs
    <3>3. 0 \in 0..(UWidth - 1) /\ 0 \in 0..ExpLimit(expNeg', adjust)
      BY <3>2, Machine
    <3>4. pc' \in {"scan", "exp"} /\ magnitude' = 0 /\ adjust' = adjust
      BY <1>3, <1>7
    <3>5. magnitude' \in 0..(IF pc' = "exp" THEN ExpLimit(expNeg', adjust') ELSE UWidth - 1)
      BY <3>3, <3>4
    <3>6. /\ shared' \in BOOLEAN /\ neg' \in BOOLEAN /\ fracLen' \in Nat /\ adjust' \in Exponents
      BY <1>7 DEF DInv, Registers
    <3>7. QED BY <3>1, <3>4, <3>5, <3>6 DEF Registers
  <2>3. Returned'
    BY <1>7 DEF DInv, Returned
  <2>4. Gathered'
    BY <1>3, <1>7 DEF Gathered
  <2>5. QED BY <2>1, <2>2, <2>3, <2>4 DEF DInv
<1>8. QED BY <1>4, <1>5, <1>6, <1>7

\* The test that refuses a digit is the true one: no product or sum wraps.
LEMMA LimitIs ==
    ASSUME NEW limit \in Nat, NEW d \in 0..9, magnitude \in Nat
    PROVE  OverLimit(limit, d) <=> magnitude * 10 + d > limit
<1>1. PICK q, r : q = limit \div 10 /\ r = limit % 10
  OBVIOUS
<1>2. q \in Nat /\ r \in 0..9 /\ limit = 10 * q + r
  BY <1>1
<1>3. OverLimit(limit, d) <=> magnitude > q \/ (magnitude = q /\ d > r)
  BY <1>1, Zenon DEF OverLimit
<1>4. QED BY <1>2, <1>3

LEMMA ExpDigitIs ==
    ASSUME DInv, ExpDigit
    PROVE  LET read == magnitude * 10 + raw[pos] IN
           IF read > ExpLimit(expNeg, adjust) THEN Return("overflow")
           ELSE /\ magnitude' = read /\ pos' = pos + 1
                /\ UNCHANGED <<text, raw, shared, buf, pc, neg, fracLen, adjust, expNeg, result, first>>
<1>1. PICK limit : limit = ExpLimit(expNeg, adjust)
  OBVIOUS
<1>2. limit \in 0..(UWidth - 1) /\ UWidth \in Nat
  BY <1>1, ExpLimitIs, Machine DEF DInv, Registers
<1>3. PICK d : d = raw[pos]
  OBVIOUS
<1>4. d \in 0..9 /\ magnitude \in Nat
  BY <1>3, Magnitudes DEF ExpDigit, AtDigit, Digit, DInv
<1>5. OverLimit(limit, d) <=> magnitude * 10 + d > limit
  BY <1>2, <1>4, LimitIs
<1>6. CASE OverLimit(limit, d)
  <2>1. Return("overflow")
    BY <1>1, <1>3, <1>6, Zenon DEF ExpDigit
  <2>2. QED BY <1>1, <1>3, <1>5, <1>6, <2>1
<1>7. CASE ~OverLimit(limit, d)
  <2>1. /\ magnitude' = Uint64(magnitude * 10 + d) /\ pos' = pos + 1
        /\ UNCHANGED <<text, raw, shared, buf, pc, neg, fracLen, adjust, expNeg, result, first>>
    BY <1>1, <1>3, <1>7, Zenon DEF ExpDigit
  <2>2. magnitude * 10 + d \in 0..(UWidth - 1)
    BY <1>2, <1>4, <1>5, <1>7
  <2>3. Uint64(magnitude * 10 + d) = magnitude * 10 + d
    BY <2>2, Machine
  <2>4. QED BY <1>1, <1>3, <1>5, <1>7, <2>1, <2>3
<1>8. QED BY <1>6, <1>7

LEMMA ExpDigitKeeps == ASSUME DInv, ExpDigit PROVE DInv'
<1>1. PICK read : read = magnitude * 10 + raw[pos]
  OBVIOUS
<1>2. PICK limit : limit = ExpLimit(expNeg, adjust)
  OBVIOUS
<1>3. pc = "exp" /\ AtDigit
  BY DEF ExpDigit
<1>4. CASE Return("overflow")
  <2>1. Memory' /\ Registers' /\ Returned' /\ pc' = "overflow"
    BY <1>4, ReturnKeeps
  <2>2. QED BY <2>1 DEF DInv, Gathered
<1>5. CASE /\ ~(read > limit) /\ magnitude' = read /\ pos' = pos + 1
           /\ UNCHANGED <<text, raw, shared, buf, pc, neg, fracLen, adjust, expNeg, result, first>>
  <2>1. Memory'
    <3>1. pos \in 1..Len(text) /\ Len(text) \in Nat
      BY <1>3 DEF AtDigit, More, DInv, Memory
    <3>2. pos' \in 1..(Len(text) + 1) /\ pos' >= pos
      BY <1>5, <3>1
    <3>3. QED BY <1>5, <3>2, SkipKeeps DEF DInv
  <2>2. Registers'
    <3>1. raw[pos] \in 0..9 /\ magnitude \in Nat
      BY <1>3, Magnitudes DEF AtDigit, Digit, DInv
    <3>2. read \in Nat
      BY <1>1, <3>1
    <3>3. limit \in Int
      BY <1>2, ExpLimitIs, Machine DEF DInv, Registers
    <3>4. magnitude' \in 0..limit
      BY <1>5, <3>2, <3>3
    <3>5. QED BY <1>2, <1>3, <1>5, <3>4 DEF DInv, Registers
  <2>3. Returned' /\ Gathered'
    BY <1>3, <1>5 DEF DInv, Returned, Gathered
  <2>4. QED BY <2>1, <2>2, <2>3 DEF DInv
<1>6. QED BY <1>1, <1>2, <1>4, <1>5, ExpDigitIs

LEMMA ScanDigitKeeps == ASSUME DInv, ScanDigit PROVE DInv'
<1>1. /\ pc = "scan" /\ AtDigit /\ pos' = pos + 1
      /\ UNCHANGED <<text, raw, shared, buf, pc, neg, fracLen, adjust, expNeg, magnitude, result, first>>
  BY DEF ScanDigit
<1>2. Memory'
  <2>1. pos \in 1..Len(text) /\ Len(text) \in Nat
    BY <1>1 DEF AtDigit, More, DInv, Memory
  <2>2. pos' \in 1..(Len(text) + 1) /\ pos' >= pos
    BY <1>1, <2>1
  <2>3. QED BY <1>1, <2>2, SkipKeeps DEF DInv
<1>3. Registers' /\ Returned' /\ Gathered'
  BY <1>1 DEF DInv, Registers, Returned, Gathered
<1>4. QED BY <1>2, <1>3 DEF DInv

LEMMA ParseEndKeeps == ASSUME DInv, ParseEnd PROVE DInv'
<1>1. pc \in {"exp", "scan"}
  BY DEF ParseEnd
<1>2. CASE Return("malformed")
  <2>1. Memory' /\ Registers' /\ Returned' /\ pc' = "malformed"
    BY <1>2, ReturnKeeps
  <2>2. QED BY <2>1 DEF DInv, Gathered
<1>3. CASE Done(ApplyExp(adjust, expNeg, magnitude))
  <2>1. ASSUME NonZero(buf) PROVE ApplyExp(adjust, expNeg, magnitude) \in Exponents
    <3>1. pc = "exp"
      BY <1>1, <2>1 DEF DInv, Gathered, NonZero
    <3>2. magnitude \in 0..ExpLimit(expNeg, adjust)
      BY <3>1 DEF DInv, Registers
    <3>3. QED BY <3>2, ApplyExpIs DEF DInv, Registers
  <2>2. QED BY <1>1, <1>3, <2>1, DoneKeeps
<1>4. QED BY <1>2, <1>3 DEF ParseEnd

LEMMA ReparseKeeps == ASSUME DInv, Reparse PROVE DInv'
<1>1. /\ pc = "done" /\ first' = result /\ text' = String(result) /\ shared' = shared
      /\ raw' = text' /\ buf' = <<>> /\ pos' = 1 /\ pc' = "start" /\ neg' = FALSE
      /\ fracLen' = 0 /\ adjust' = 0 /\ expNeg' = FALSE /\ magnitude' = 0 /\ result' = NoNumber
  BY DEF Reparse
<1>2. result \in Number /\ CanonicalNumber(result)
  BY <1>1 DEF DInv, Returned
<1>3. text' \in Seq(Bytes)
  BY <1>1, <1>2, StringIsBytes
<1>4. Memory'
  <2>1. Len(text') \in Nat /\ Len(buf') = 0 /\ buf' \in Seq(Digit)
    BY <1>1, <1>3
  <2>2. UnreadIntact'
    BY <1>1 DEF UnreadIntact
  <2>3. QED BY <1>1, <1>3, <2>1, <2>2 DEF Memory
<1>5. Registers'
  <2>1. MaxExp \in Nat /\ UWidth - 1 = 2 * MaxExp + 1
    BY Machine
  <2>2. 0 \in Exponents /\ 0 \in 0..(UWidth - 1)
    BY <2>1 DEF Exponents
  <2>3. shared' \in BOOLEAN
    BY <1>1 DEF DInv, Registers
  <2>4. QED BY <1>1, <2>2, <2>3 DEF Registers
<1>6. Returned'
  <2>1. NoNumber \in Number
    BY DEF NoNumber, Num, Number
  <2>2. QED BY <1>1, <1>2, <2>1 DEF Returned
<1>7. Gathered'
  BY <1>1 DEF Gathered
<1>8. QED BY <1>4, <1>5, <1>6, <1>7 DEF DInv

THEOREM DecimalStep == DInv /\ [Next]_vars => DInv'
<1> SUFFICES ASSUME DInv, [Next]_vars PROVE DInv'
  OBVIOUS
<1>1. CASE UNCHANGED vars
  BY <1>1 DEF vars, DInv, Memory, UnreadIntact, Registers, Gathered, Returned, AtDigit, More
<1>2. CASE Next
  BY <1>2, ParseStartKeeps, DigitsKeep, EndsKeep, PointKeeps, CanonicalizeKeeps, ExpMarkKeeps,
     ExpDigitKeeps, ScanDigitKeeps, ParseEndKeeps, ReparseKeeps DEF Next
<1>3. QED BY <1>1, <1>2

LEMMA DecimalInvariant == Spec => []DInv
<1>1. Init => DInv
  BY DecimalInit
<1>2. DInv /\ [Next]_vars => DInv'
  BY DecimalStep
<1>3. QED BY <1>1, <1>2, PTL DEF Spec

\* Type correctness of the decimal parser, for texts of every length.
THEOREM DecimalTypes == Spec => []TypeOK
<1>1. DInv => TypeOK
  BY InvariantTypes
<1>2. QED BY <1>1, DecimalInvariant, PTL

\* raw and buf may share (decimal.go): bytes still to be read are those the
\* caller wrote, whatever digits were gathered in the same memory.
THEOREM UnreadBytesKept == Spec => []UnreadIntact
<1>1. DInv => UnreadIntact
  BY InvariantTypes
<1>2. QED BY <1>1, DecimalInvariant, PTL

\* A number returned is in canonical form ("will never have leading or trailing
\* zeroes"), zero is the one Zero, and its exponent is an int64.
THEOREM ResultsCanonical == Spec => [](pc = "done" => CanonicalNumber(result))
<1>1. DInv => (pc = "done" => CanonicalNumber(result))
  BY DEF DInv, Returned
<1>2. QED BY <1>1, DecimalInvariant, PTL

\* What a step does to the exponent, told in unbounded integers: a digit is
\* taken just when the exponent with it is an int64, and the number returned
\* has the exponent read.
ExponentRead(magn) == IF expNeg THEN adjust - magn ELSE adjust + magn
ExponentStep ==
    /\ ExpDigit =>
          LET read == magnitude * 10 + raw[pos]
          IN  IF ExponentRead(read) \in Exponents THEN magnitude' = read /\ pos' = pos + 1
                                                  ELSE pc' = "overflow"
    /\ ParseEnd /\ pc' = "done" => result' = Zero \/ result'.exp = ExponentRead(magnitude)

LEMMA ExponentStepHolds == ASSUME DInv, Next PROVE ExponentStep
<1>1. ASSUME ExpDigit
      PROVE  LET read == magnitude * 10 + raw[pos]
             IN  IF ExponentRead(read) \in Exponents THEN magnitude' = read /\ pos' = pos + 1
                                                     ELSE pc' = "overflow"
  <2>1. PICK read : read = magnitude * 10 + raw[pos]
    OBVIOUS
  <2>2. read \in Nat
    <3>1. raw[pos] \in 0..9 /\ magnitude \in Nat
      BY <1>1, Magnitudes DEF ExpDigit, AtDigit, Digit, DInv
    <3>2. QED BY <2>1, <3>1
  <2>3. read <= ExpLimit(expNeg, adjust) <=> ExponentRead(read) \in Exponents
    BY <2>2, ExponentExact DEF ExponentRead, DInv, Registers
  <2>4. ExpLimit(expNeg, adjust) \in Int
    BY ExpLimitIs, Machine DEF DInv, Registers
  <2>5. read > ExpLimit(expNeg, adjust) <=> ~(read <= ExpLimit(expNeg, adjust))
    BY <2>2, <2>4
  <2>6. IF read > ExpLimit(expNeg, adjust) THEN Return("overflow")
        ELSE magnitude' = read /\ pos' = pos + 1
    BY <1>1, <2>1, ExpDigitIs
  <2>7. QED BY <2>1, <2>3, <2>5, <2>6 DEF Return
<1>2. ASSUME ParseEnd, pc' = "done"
      PROVE  result' = Zero \/ result'.exp = ExponentRead(magnitude)
  <2>1. Done(ApplyExp(adjust, expNeg, magnitude))
    BY <1>2 DEF ParseEnd, Return
  <2>2. CASE buf = <<0>>
    BY <2>1, <2>2 DEF Done
  <2>3. CASE buf # <<0>>
    <3>1. pc = "exp"
      BY <1>2, <2>3 DEF ParseEnd, DInv, Gathered
    <3>2. magnitude \in 0..ExpLimit(expNeg, adjust)
      BY <3>1 DEF DInv, Registers
    <3>3. ApplyExp(adjust, expNeg, magnitude) = ExponentRead(magnitude)
      BY <3>2, ApplyExpIs DEF ExponentRead, DInv, Registers
    <3>4. QED BY <2>1, <2>3, <3>3 DEF Done, Num
  <2>4. QED BY <2>2, <2>3
<1>3. QED BY <1>1, <1>2 DEF ExponentStep

\* No exponent wraps: whatever is written, the machine integers of Parse hold
\* the true exponent, and "overflow" is said just when that is no int64.
THEOREM ExponentsNeverWrap == Spec => [][ExponentStep]_vars
<1>1. DInv /\ [Next]_vars => [ExponentStep]_vars
  BY ExponentStepHolds
<1>2. QED BY <1>1, DecimalInvariant, PTL DEF Spec

(***************************************************************************)
(* One atom per real.                                                      *)
(***************************************************************************)
Leads(v) == v \in Number /\ v.digits # <<>> /\ v.digits[1] # 0
Ends(v) == Leads(v) /\ v.digits[Len(v.digits)] # 0

\* Where the first digit of a number stands.
Top(v) == v.exp + Len(v.digits)
SameDigits(x, y) == \A i \in Nat \ {0} : DigitAt(x, i) = DigitAt(y, i)

LEMMA Leading ==
    ASSUME NEW v, Leads(v)
    PROVE  /\ v.digits \in Seq(Digit) /\ v.exp \in Int /\ v.neg \in BOOLEAN
           /\ Len(v.digits) \in Nat \ {0} /\ v.digits # <<0>> /\ Top(v) \in Int
           /\ \A i \in Nat \ {0} : DigitAt(v, i) \in Digit
<1>1. v.digits \in Seq(Digit) /\ v.exp \in Int /\ v.neg \in BOOLEAN
  BY DEF Leads, Number
<1>2. Len(v.digits) \in Nat \ {0} /\ v.digits # <<0>>
  BY <1>1, EmptySeq DEF Leads
<1>3. \A i \in Nat \ {0} : DigitAt(v, i) \in Digit
  <2>1. 0 \in Digit
    BY DEF Digit
  <2>2. \A i \in 1..Len(v.digits) : v.digits[i] \in Digit
    BY <1>1
  <2>3. QED BY <1>2, <2>1, <2>2 DEF DigitAt
<1>4. QED BY <1>1, <1>2, <1>3 DEF Top

\* Interning strips trailing zeros and nothing else.
LEMMA InternIs ==
    ASSUME NEW v, Leads(v), v.exp + Most(TrailingZeros(v.digits)) \in Exponents
    PROVE  LET w == InternRawReal(v) IN
           /\ Ends(w) /\ w.neg = v.neg /\ Top(w) = Top(v) /\ SameDigits(w, v)
<1>1. PICK s, n, t : s = v.digits /\ n = Len(s) /\ t = Most(TrailingZeros(s))
  OBVIOUS
<1>2. s \in Seq(Digit) /\ n \in Nat \ {0} /\ s # <<0>> /\ v.exp \in Int /\ v.neg \in BOOLEAN
      /\ s # <<>> /\ s[1] # 0
  BY <1>1, Leading DEF Leads
<1>3. /\ t \in 0..(n - 1)
      /\ \A i \in (n - t + 1)..n : s[i] = 0
      /\ s[n - t] # 0 \/ t = n - 1
  BY <1>1, <1>2, TrailingStripped
<1>4. s[n - t] # 0
  <2>1. t = n - 1 => n - t = 1
    BY <1>2, <1>3
  <2>2. QED BY <1>2, <1>3, <2>1
<1>5. PICK d : d = SubSeq(s, 1, n - t)
  OBVIOUS
<1>6. d \in Seq(Digit) /\ Len(d) = n - t /\ \A j \in 1..(n - t) : d[j] = s[j]
  <2>1. n - t \in 1..n
    BY <1>2, <1>3
  <2>2. \A j \in 1..(n - t) : s[1 + j - 1] = s[j]
    OBVIOUS
  <2>3. QED BY <1>1, <1>2, <1>5, <2>1, <2>2, SubSeqProperties
<1>7. v.exp + t \in Exponents /\ v.exp + t \in Int
  BY <1>1, <1>2, <1>3
<1>8. PICK w : w = InternRawReal(v)
  OBVIOUS
<1>9. w = Num(v.neg, d, v.exp + t)
  <2>1. Int64(v.exp + t) = v.exp + t
    BY <1>7, Machine
  <2>2. QED BY <1>1, <1>2, <1>5, <1>8, <2>1 DEF InternRawReal
<1>10. w.neg = v.neg /\ w.digits = d /\ w.exp = v.exp + t /\ w \in Number
  BY <1>2, <1>6, <1>7, <1>9 DEF Num, Number
<1>11. Ends(w)
  <2>1. n - t \in 1..n /\ Len(d) = n - t
    BY <1>2, <1>3, <1>6
  <2>2. d # <<>> /\ d[1] = s[1] /\ d[n - t] = s[n - t]
    BY <1>2, <1>6, <2>1
  <2>3. QED BY <1>2, <1>4, <1>6, <1>10, <2>2 DEF Ends, Leads
<1>12. Top(w) = Top(v)
  BY <1>1, <1>2, <1>3, <1>6, <1>10 DEF Top
<1>13. SameDigits(w, v)
  <2> SUFFICES ASSUME NEW i \in Nat \ {0} PROVE DigitAt(w, i) = DigitAt(v, i)
    BY DEF SameDigits
  <2>1. DigitAt(w, i) = (IF i <= n - t THEN d[i] ELSE 0)
    BY <1>6, <1>10 DEF DigitAt
  <2>2. DigitAt(v, i) = (IF i <= n THEN s[i] ELSE 0)
    BY <1>1 DEF DigitAt
  <2>3. CASE i <= n - t
    BY <1>2, <1>3, <1>6, <2>1, <2>2, <2>3
  <2>4. CASE i > n - t
    <3>1. i <= n => s[i] = 0
      BY <1>2, <1>3, <2>4
    <3>2. ~(i <= n - t)
      BY <1>2, <1>3, <2>4
    <3>3. QED BY <2>1, <2>2, <3>1, <3>2
  <2>5. QED BY <1>2, <1>3, <2>3, <2>4
<1>14. QED BY <1>8, <1>10, <1>11, <1>12, <1>13

LEMMA SignIs == \A n \in Int : Sign(n) \in {-1, 0, 1} /\ (Sign(n) = 0 <=> n = 0)
BY DEF Sign

LEMMA MagnitudesEqual ==
    ASSUME NEW x, NEW y, Leads(x), Leads(y)
    PROVE  /\ CompareMagnitude(x, y) \in {-1, 0, 1}
           /\ CompareMagnitude(x, y) = 0 <=> Top(x) = Top(y) /\ SameDigits(x, y)
<1>1. PICK lx, ly, n : lx = Len(x.digits) /\ ly = Len(y.digits) /\ n = lx + ly
                       /\ lx \in Nat /\ ly \in Nat /\ n \in Nat
  <2>1. Len(x.digits) \in Nat /\ Len(y.digits) \in Nat
    BY Leading
  <2>2. \A l, m \in Nat : l + m \in Nat
    OBVIOUS
  <2>3. QED BY <2>1, <2>2, Zenon
<1> DEFINE differ == {i \in 1..n : DigitAt(x, i) # DigitAt(y, i)}
           least == CHOOSE k \in differ : \A l \in differ : k <= l
<1>2. CompareMagnitude(x, y) =
          CASE Top(x) # Top(y)                  -> Sign(Top(x) - Top(y))
            [] Top(x) = Top(y) /\ differ = {}   -> 0
            [] Top(x) = Top(y) /\ differ # {}   -> Sign(DigitAt(x, least) - DigitAt(y, least))
  BY <1>1, Zenon DEF CompareMagnitude, Top
<1>3. differ = {} <=> SameDigits(x, y)
  <2>1. ASSUME differ = {}, NEW i \in Nat \ {0} PROVE DigitAt(x, i) = DigitAt(y, i)
    <3>1. CASE i <= n
      <4>1. i \in 1..n
        <5>1. \A c \in Nat : i <= c => i \in 1..c
          OBVIOUS
        <5>2. QED BY <1>1, <3>1, <5>1, Zenon
      <4>2. i \notin differ
        <5> HIDE DEF differ
        <5>1. QED BY <2>1
      <4>3. QED BY <4>1, <4>2
    <3>2. CASE ~(i <= n)
      <4>1. \A a, b, c \in Nat : c = a + b /\ ~(i <= c) => ~(i <= a) /\ ~(i <= b)
        OBVIOUS
      <4>2. ~(i <= lx) /\ ~(i <= ly)
        BY <1>1, <3>2, <4>1, Zenon
      <4>3. QED BY <1>1, <4>2, Zenon DEF DigitAt
    <3>3. QED BY <3>1, <3>2
  <2>2. SameDigits(x, y) => differ = {}
    BY DEF SameDigits
  <2>3. QED BY <2>1, <2>2 DEF SameDigits
<1>4. ASSUME differ # {}
      PROVE  /\ DigitAt(x, least) - DigitAt(y, least) \in Int
             /\ DigitAt(x, least) - DigitAt(y, least) # 0
  <2>1. differ \subseteq Nat
    OBVIOUS
  <2>2. \E k \in differ : \A l \in differ : k <= l
    <3> HIDE DEF differ
    <3>1. QED BY <1>4, <2>1, Least
  <2>3. least \in differ
    <3> HIDE DEF differ
    <3>1. QED BY <2>2
  <2> HIDE DEF least
  <2>4. least \in Nat \ {0} /\ DigitAt(x, least) # DigitAt(y, least)
    BY <2>3
  <2>5. PICK c, d : c = DigitAt(x, least) /\ d = DigitAt(y, least)
    OBVIOUS
  <2>6. c \in 0..9 /\ d \in 0..9 /\ c # d
    BY <2>4, <2>5, Leading DEF Digit
  <2>7. c - d \in Int /\ c - d # 0
    BY <2>6
  <2>8. QED BY <2>5, <2>7
<1>5. Top(x) \in Int /\ Top(y) \in Int
  BY Leading
<1> HIDE DEF differ, least
<1>6. CASE Top(x) # Top(y)
  <2>1. CompareMagnitude(x, y) = Sign(Top(x) - Top(y))
    BY <1>2, <1>6
  <2>2. Top(x) - Top(y) \in Int /\ Top(x) - Top(y) # 0
    BY <1>5, <1>6
  <2>3. QED BY <1>6, <2>1, <2>2, SignIs
<1>7. CASE Top(x) = Top(y) /\ differ = {}
  BY <1>2, <1>3, <1>7
<1>8. CASE Top(x) = Top(y) /\ differ # {}
  <2>1. CompareMagnitude(x, y) = Sign(DigitAt(x, least) - DigitAt(y, least))
    BY <1>2, <1>8
  <2>2. QED BY <1>3, <1>4, <1>8, <2>1, SignIs
<1>9. QED BY <1>6, <1>7, <1>8

LEMMA NumbersEqual ==
    ASSUME NEW x, NEW y, Leads(x), Leads(y)
    PROVE  CompareNumbers(x, y) = 0 <=> x.neg = y.neg /\ Top(x) = Top(y) /\ SameDigits(x, y)
<1>1. x.digits # <<0>> /\ y.digits # <<0>>
  BY Leading
<1>2. CASE x.neg # y.neg
  <2>1. CompareNumbers(x, y) = (IF x.neg THEN -1 ELSE 1)
    BY <1>1, <1>2 DEF CompareNumbers
  <2>2. QED BY <1>2, <2>1
<1>3. CASE x.neg = y.neg
  <2>1. PICK m : m = CompareMagnitude(x, y)
    OBVIOUS
  <2>2. CompareNumbers(x, y) = (IF x.neg THEN -1 ELSE 1) * m
    BY <1>1, <1>3, <2>1 DEF CompareNumbers
  <2>3. m \in {-1, 0, 1} /\ (m = 0 <=> Top(x) = Top(y) /\ SameDigits(x, y))
    BY <2>1, MagnitudesEqual
  <2>4. (IF x.neg THEN -1 ELSE 1) * m = 0 <=> m = 0
    BY <2>3
  <2>5. QED BY <1>3, <2>2, <2>3, <2>4
<1>4. QED BY <1>2, <1>3

\* Without leading and trailing zeros the digits and the place of the first of
\* them determine a number.
LEMMA OneForm ==
    ASSUME NEW x, NEW y, Ends(x), Ends(y), x.neg = y.neg, Top(x) = Top(y), SameDigits(x, y)
    PROVE  x = y
<1>1. Leads(x) /\ Leads(y)
  BY DEF Ends
<1>2. PICK s, t : s = x.digits /\ t = y.digits
  OBVIOUS
<1>3. s \in Seq(Digit) /\ t \in Seq(Digit) /\ Len(s) \in Nat \ {0} /\ Len(t) \in Nat \ {0}
      /\ s[Len(s)] # 0 /\ t[Len(t)] # 0
  BY <1>1, <1>2, Leading DEF Ends
<1>4. \A i \in Nat \ {0} :
          (IF i <= Len(s) THEN s[i] ELSE 0) = (IF i <= Len(t) THEN t[i] ELSE 0)
  BY <1>2 DEF SameDigits, DigitAt
<1>5. Len(s) = Len(t)
  <2>1. CASE Len(s) < Len(t)
    <3>1. (IF Len(t) <= Len(s) THEN s[Len(t)] ELSE 0) = t[Len(t)]
      BY <1>3, <1>4
    <3>2. QED BY <1>3, <2>1, <3>1
  <2>2. CASE Len(t) < Len(s)
    <3>1. s[Len(s)] = (IF Len(s) <= Len(t) THEN t[Len(s)] ELSE 0)
      BY <1>3, <1>4
    <3>2. QED BY <1>3, <2>2, <3>1
  <2>3. QED BY <1>3, <2>1, <2>2
<1>6. \A i \in 1..Len(s) : s[i] = t[i]
  BY <1>3, <1>4, <1>5
<1>7. s = t
  BY <1>3, <1>5, <1>6, SeqEqual
<1>8. x.exp = y.exp
  <2>1. x.exp \in Int /\ y.exp \in Int
    BY <1>1, Leading
  <2>2. x.exp + Len(s) = y.exp + Len(s)
    BY <1>2, <1>5 DEF Top
  <2>3. QED BY <1>3, <2>1, <2>2
<1>9. x \in Number /\ y \in Number
  BY <1>1 DEF Leads
<1>10. x = [neg |-> x.neg, digits |-> x.digits, exp |-> x.exp]
       /\ y = [neg |-> y.neg, digits |-> y.digits, exp |-> y.exp]
  BY <1>9 DEF Number
<1>11. x.digits = y.digits
  BY <1>2, <1>7
<1>12. QED BY <1>8, <1>10, <1>11, Zenon

\* Zero, or without leading zeros and with an exponent that stays an int64 when
\* the trailing zeros are dropped: what an integer that becomes a real is.
Tame(v) ==
    v.digits = <<0>> \/ (Leads(v) /\ v.exp + Most(TrailingZeros(v.digits)) \in Exponents)

LEMMA ZeroIs == Zero.digits = <<0>>
BY DEF Zero, Num

LEMMA OneAtomPerReal ==
    ASSUME NEW x, NEW y, Tame(x), Tame(y)
    PROVE  (InternRawReal(x) = InternRawReal(y)) <=> (CompareNumbers(x, y) = 0)
<1>1. ASSUME NEW v, Tame(v), NonZero(v.digits)
      PROVE  /\ Leads(v) /\ Ends(InternRawReal(v)) /\ InternRawReal(v) # Zero
             /\ InternRawReal(v).neg = v.neg /\ Top(InternRawReal(v)) = Top(v)
             /\ SameDigits(InternRawReal(v), v)
  <2>1. Leads(v) /\ v.exp + Most(TrailingZeros(v.digits)) \in Exponents
    BY <1>1 DEF Tame, NonZero
  <2>2. PICK w : w = InternRawReal(v)
    OBVIOUS
  <2>3. Ends(w) /\ w.neg = v.neg /\ Top(w) = Top(v) /\ SameDigits(w, v)
    BY <2>1, <2>2, InternIs
  <2>4. w.digits # <<0>>
    BY <2>3, Leading DEF Ends
  <2>5. QED BY <2>1, <2>2, <2>3, <2>4, ZeroIs
<1>2. \A v : v.digits = <<0>> => InternRawReal(v) = Zero
  BY DEF InternRawReal
<1>3. CASE x.digits = <<0>> /\ y.digits = <<0>>
  <2>1. CompareNumbers(x, y) = 0
    BY <1>3 DEF CompareNumbers
  <2>2. QED BY <1>2, <1>3, <2>1
<1>4. CASE x.digits = <<0>> /\ y.digits # <<0>>
  <2>1. CompareNumbers(x, y) = IF y.neg THEN 1 ELSE -1
    BY <1>4 DEF CompareNumbers
  <2>2. InternRawReal(x) = Zero /\ InternRawReal(y) # Zero
    BY <1>1, <1>2, <1>4 DEF NonZero
  <2>3. QED BY <2>1, <2>2
<1>5. CASE x.digits # <<0>> /\ y.digits = <<0>>
  <2>1. CompareNumbers(x, y) = IF x.neg THEN -1 ELSE 1
    BY <1>5 DEF CompareNumbers
  <2>2. InternRawReal(x) # Zero /\ InternRawReal(y) = Zero
    BY <1>1, <1>2, <1>5 DEF NonZero
  <2>3. QED BY <2>1, <2>2
<1>6. CASE x.digits # <<0>> /\ y.digits # <<0>>
  <2>1. PICK v, w : v = InternRawReal(x) /\ w = InternRawReal(y)
    OBVIOUS
  <2>2. Leads(x) /\ Ends(v) /\ v.neg = x.neg /\ Top(v) = Top(x) /\ SameDigits(v, x)
    BY <1>1, <1>6, <2>1 DEF NonZero
  <2>3. Leads(y) /\ Ends(w) /\ w.neg = y.neg /\ Top(w) = Top(y) /\ SameDigits(w, y)
    BY <1>1, <1>6, <2>1 DEF NonZero
  <2>4. CompareNumbers(x, y) = 0 <=> x.neg = y.neg /\ Top(x) = Top(y) /\ SameDigits(x, y)
    BY <2>2, <2>3, NumbersEqual
  <2>5. v = w => x.neg = y.neg /\ Top(x) = Top(y) /\ SameDigits(x, y)
    BY <2>2, <2>3 DEF SameDigits
  <2>6. ASSUME x.neg = y.neg, Top(x) = Top(y), SameDigits(x, y) PROVE v = w
    <3>1. v.neg = w.neg /\ Top(v) = Top(w) /\ SameDigits(v, w)
      BY <2>2, <2>3, <2>6 DEF SameDigits
    <3>2. QED BY <2>2, <2>3, <3>1, OneForm
  <2>7. QED BY <2>1, <2>4, <2>5, <2>6
<1>7. QED BY <1>3, <1>4, <1>5, <1>6

LEMMA CanonicalIsTame == ASSUME NEW v, CanonicalNumber(v) PROVE Tame(v)
<1>1. CASE v.digits # <<0>>
  <2>1. PICK s : s = v.digits /\ s \in Seq(Digit) /\ s # <<>> /\ s[1] # 0 /\ s[Len(s)] # 0
    BY <1>1 DEF CanonicalNumber, CanonicalDigits
  <2>2. PICK t, n : t = Most(TrailingZeros(s)) /\ n = Len(s)
    OBVIOUS
  <2>3. n \in Nat \ {0}
    BY <2>1, <2>2, EmptySeq
  <2>4. t \in 0..(n - 1) /\ \A i \in (n - t + 1)..n : s[i] = 0
    BY <2>1, <2>2, TrailingStripped
  <2>5. t = 0
    <3> SUFFICES ASSUME t # 0 PROVE FALSE
      OBVIOUS
    <3>1. n \in (n - t + 1)..n
      BY <2>3, <2>4
    <3>2. QED BY <2>1, <2>2, <2>4, <3>1
  <2>6. v.exp \in Exponents /\ v.exp \in Int
    BY DEF CanonicalNumber, Number
  <2>7. v.exp + t \in Exponents
    BY <2>5, <2>6
  <2>8. Leads(v)
    BY <2>1 DEF Leads, CanonicalNumber
  <2>9. QED BY <2>1, <2>2, <2>7, <2>8 DEF Tame
<1>2. QED BY <1>1 DEF Tame

\* The arena keeps one real per value: interned, a number parsed and a tame
\* number, canonical or not, are the same atom exactly when they are equal.
THEOREM OneRealPerValue ==
    ASSUME \A s \in Samples : Tame(s)
    PROVE  Spec => []OneReal
<1>1. DInv => OneReal
  <2> SUFFICES ASSUME DInv, pc = "done", NEW s \in Samples
               PROVE  (InternRawReal(result) = InternRawReal(s)) <=> (CompareNumbers(result, s) = 0)
    BY DEF OneReal
  <2>1. CanonicalNumber(result)
    BY DEF DInv, Returned
  <2>2. Tame(result) /\ Tame(s)
    BY <2>1, CanonicalIsTame
  <2>3. QED BY <2>2, OneAtomPerReal
<1>2. QED BY <1>1, DecimalInvariant, PTL

(***************************************************************************)
(* What digits come to.                                                    *)
(***************************************************************************)
LEMMA CoefficientsAre ==
    ASSUME NEW s
    PROVE  /\ Coefficients(s) \in [Nat -> Nat] /\ Coefficients(s)[0] = 0
           /\ \A k \in Nat : Coefficients(s)[k + 1] =
                IF s[k + 1] \in Digit THEN 10 * Coefficients(s)[k] + s[k + 1] ELSE Coefficients(s)[k]
<1> DEFINE At1(c, k) ==
        IF k = 0 THEN 0 ELSE IF s[k] \in Digit THEN 10 * c[k - 1] + s[k] ELSE c[k - 1]
           h == [k \in Nat |-> [x \in Nat |->
                    IF s[k + 1] \in Digit THEN 10 * x + s[k + 1] ELSE x]]
<1>1. \A k \in Nat, x \in Nat : /\ h[k][x] = IF s[k + 1] \in Digit THEN 10 * x + s[k + 1] ELSE x
                                /\ h[k][x] \in Nat
  <2> SUFFICES ASSUME NEW k \in Nat, NEW x \in Nat
               PROVE  (IF s[k + 1] \in Digit THEN 10 * x + s[k + 1] ELSE x) \in Nat
    OBVIOUS
  <2>1. PICK d : d = s[k + 1]
    OBVIOUS
  <2>2. (IF d \in Digit THEN 10 * x + d ELSE x) \in Nat
    BY DEF Digit
  <2>3. QED BY <2>1, <2>2
<1> HIDE DEF h
<1>2. PICK f : f \in [Nat -> Nat] /\ f[0] = 0 /\ \A k \in Nat : f[k + 1] = h[k][f[k]]
  <2>1. 0 \in Nat /\ Steps(h, Nat)
    BY <1>1 DEF Steps
  <2>2. PICK f : f \in [Nat -> Nat] /\ Built(f, 0, h)
    BY <2>1, Recursion
  <2>3. QED BY <2>2 DEF Built
<1>3. \A k \in Nat : f[k] = At1(f, k)
  <2> SUFFICES ASSUME NEW k \in Nat PROVE f[k] = At1(f, k)
    OBVIOUS
  <2>1. CASE k = 0
    BY <1>2, <2>1
  <2>2. CASE k # 0
    <3>1. k - 1 \in Nat /\ k - 1 + 1 = k
      BY <2>2
    <3>2. f[k - 1 + 1] = h[k - 1][f[k - 1]] /\ f[k - 1] \in Nat
      BY <1>2, <3>1
    <3>3. QED BY <1>1, <2>2, <3>1, <3>2
  <2>3. QED BY <2>1, <2>2
<1>4. f = [k \in Nat |-> At1(f, k)]
  <2>1. f = [k \in Nat |-> f[k]]
    BY <1>2
  <2> HIDE DEF At1
  <2>2. QED BY <1>3, <2>1, Zenon
<1>5. PICK c : c = Coefficients(s)
  OBVIOUS
<1>6. c = [k \in Nat |-> At1(c, k)]
  <2>1. c = CHOOSE C : C = [k \in Nat |-> At1(C, k)]
    BY <1>5, Zenon DEF Coefficients
  <2> HIDE DEF At1
  <2>2. QED BY <1>4, <2>1, Zenon
<1>7. \A k \in Nat : c[k] = At1(c, k)
  <2> HIDE DEF At1
  <2>1. QED BY <1>6, Zenon
<1>8. c[0] = 0 /\ \A k \in Nat : c[k + 1] = IF s[k + 1] \in Digit THEN 10 * c[k] + s[k + 1] ELSE c[k]
  <2>1. c[0] = 0
    BY <1>7
  <2>2. ASSUME NEW k \in Nat
        PROVE  c[k + 1] = IF s[k + 1] \in Digit THEN 10 * c[k] + s[k + 1] ELSE c[k]
    <3>1. k + 1 \in Nat /\ k + 1 # 0 /\ k + 1 - 1 = k
      OBVIOUS
    <3>2. c[k + 1] = At1(c, k + 1)
      BY <1>7, <3>1
    <3>3. QED BY <3>1, <3>2
  <2>3. QED BY <2>1, <2>2
<1>9. \A k \in Nat : c[k] \in Nat
  <2> DEFINE N == {k \in Nat : c[k] \in Nat}
  <2>1. 0 \in N
    BY <1>8
  <2>2. ASSUME NEW k \in Nat, k \in N PROVE k + 1 \in N
    <3>1. PICK d : d = s[k + 1]
      OBVIOUS
    <3>2. c[k + 1] = IF d \in Digit THEN 10 * c[k] + d ELSE c[k]
      BY <1>8, <3>1
    <3>3. c[k] \in Nat
      BY <2>2
    <3>4. QED BY <3>2, <3>3 DEF Digit
  <2>3. \A k \in Nat : k \in N
    <3> HIDE DEF N
    <3>1. QED BY <2>1, <2>2, SetInduction
  <2>4. QED BY <2>3
<1>10. c \in [Nat -> Nat]
  <2>1. c = [k \in Nat |-> c[k]]
    <3>1. DOMAIN c = Nat
      <4> HIDE DEF At1
      <4>1. QED BY <1>6, Zenon
    <3>2. QED BY <1>6, <3>1
  <2>2. QED BY <1>9, <2>1
<1>11. QED BY <1>5, <1>8, <1>10

LEMMA PowersAre ==
    /\ Powers \in [Nat -> Nat] /\ Powers[0] = 1
    /\ \A k \in Nat : Powers[k + 1] = 10 * Powers[k]
    /\ \A k \in Nat : Powers[k] >= 1
<1> DEFINE At1(c, k) == IF k = 0 THEN 1 ELSE 10 * c[k - 1]
           h == [k \in Nat |-> [x \in Nat |-> 10 * x]]
<1>1. \A k \in Nat, x \in Nat : h[k][x] = 10 * x /\ h[k][x] \in Nat
  OBVIOUS
<1> HIDE DEF h
<1>2. PICK f : f \in [Nat -> Nat] /\ f[0] = 1 /\ \A k \in Nat : f[k + 1] = h[k][f[k]]
  <2>1. 1 \in Nat /\ Steps(h, Nat)
    BY <1>1 DEF Steps
  <2>2. PICK f : f \in [Nat -> Nat] /\ Built(f, 1, h)
    BY <2>1, Recursion
  <2>3. QED BY <2>2 DEF Built
<1>3. \A k \in Nat : f[k] = At1(f, k)
  <2> SUFFICES ASSUME NEW k \in Nat, k # 0 PROVE f[k] = 10 * f[k - 1]
    BY <1>2
  <2>1. k - 1 \in Nat /\ k - 1 + 1 = k
    OBVIOUS
  <2>2. QED BY <1>1, <1>2, <2>1
<1>4. f = [k \in Nat |-> At1(f, k)]
  <2>1. f = [k \in Nat |-> f[k]]
    BY <1>2
  <2> HIDE DEF At1
  <2>2. QED BY <1>3, <2>1, Zenon
<1>5. Powers = [k \in Nat |-> At1(Powers, k)]
  <2>1. Powers = CHOOSE P : P = [k \in Nat |-> At1(P, k)]
    BY Zenon DEF Powers
  <2> HIDE DEF At1
  <2>2. QED BY <1>4, <2>1, Zenon
<1>6. PICK c : c = Powers /\ c = [k \in Nat |-> At1(c, k)]
  BY <1>5
<1>7. \A k \in Nat : c[k] = At1(c, k)
  <2> HIDE DEF At1
  <2>1. QED BY <1>6, Zenon
<1>8. c[0] = 1 /\ \A k \in Nat : c[k + 1] = 10 * c[k]
  <2>1. \A k \in Nat : k + 1 \in Nat /\ k + 1 # 0 /\ k + 1 - 1 = k
    OBVIOUS
  <2>2. QED BY <1>7, <2>1
<1>9. \A k \in Nat : c[k] \in Nat /\ c[k] >= 1
  <2> DEFINE N == {k \in Nat : c[k] \in Nat /\ c[k] >= 1}
  <2>1. 0 \in N
    BY <1>8
  <2>2. ASSUME NEW k \in Nat, k \in N PROVE k + 1 \in N
    BY <1>8, <2>2
  <2>3. \A k \in Nat : k \in N
    <3> HIDE DEF N
    <3>1. QED BY <2>1, <2>2, SetInduction
  <2>4. QED BY <2>3
<1>10. c \in [Nat -> Nat]
  <2>1. DOMAIN c = Nat
    <3> HIDE DEF At1
    <3>1. QED BY <1>6, Zenon
  <2>2. QED BY <1>6, <1>9, <2>1
<1>11. QED BY <1>6, <1>8, <1>9, <1>10

\* Sequences that begin alike come to the same so far.
LEMMA SamePrefix ==
    ASSUME NEW s, NEW t, NEW n \in Nat, \A k \in 1..n : s[k] = t[k]
    PROVE  \A k \in 0..n : Coefficients(s)[k] = Coefficients(t)[k]
<1> DEFINE N == {k \in Nat : k <= n => Coefficients(s)[k] = Coefficients(t)[k]}
<1>1. 0 \in N
  BY CoefficientsAre
<1>2. ASSUME NEW k \in Nat, k \in N PROVE k + 1 \in N
  <2> SUFFICES ASSUME k + 1 <= n PROVE Coefficients(s)[k + 1] = Coefficients(t)[k + 1]
    OBVIOUS
  <2>1. s[k + 1] = t[k + 1] /\ Coefficients(s)[k] = Coefficients(t)[k]
    BY <1>2
  <2>2. QED BY <2>1, CoefficientsAre
<1>3. \A k \in Nat : k \in N
  <2> HIDE DEF N
  <2>1. QED BY <1>1, <1>2, SetInduction
<1>4. QED BY <1>3

LEMMA PowersGrow ==
    ASSUME NEW j \in Nat, NEW k \in Nat, j <= k
    PROVE  Powers[j] <= Powers[k]
<1> DEFINE N == {d \in Nat : Powers[j] <= Powers[j + d]}
<1>1. 0 \in N
  BY PowersAre
<1>2. ASSUME NEW d \in Nat, d \in N PROVE d + 1 \in N
  <2>1. j + d \in Nat /\ j + (d + 1) = (j + d) + 1 /\ Powers[j] <= Powers[j + d]
    BY <1>2
  <2>2. Powers[j] \in Nat /\ Powers[j + d] \in Nat /\ Powers[(j + d) + 1] = 10 * Powers[j + d]
    BY <2>1, PowersAre
  <2>3. Powers[j] <= Powers[j + (d + 1)]
    BY <2>1, <2>2
  <2>4. QED BY <2>3
<1>3. \A d \in Nat : d \in N
  <2> HIDE DEF N
  <2>1. QED BY <1>1, <1>2, SetInduction
<1>4. k - j \in Nat /\ j + (k - j) = k
  OBVIOUS
<1>5. QED BY <1>3, <1>4

\* t begins with the n elements of s and m zeros.
Padded(s, t, n, m) == (\A k \in 1..n : s[k] = t[k]) /\ \A k \in (n + 1)..(n + m) : t[k] = 0

\* Zeros behind the digits are a power of ten.
LEMMA ZerosBehind ==
    ASSUME NEW s, NEW t, NEW n \in Nat, NEW m \in Nat, Padded(s, t, n, m)
    PROVE  Coefficients(t)[n + m] = Coefficients(s)[n] * Powers[m]
<1> DEFINE c == Coefficients(s)[n]
           N == {g \in Nat : g <= m => Coefficients(t)[n + g] = c * Powers[g]}
<1>1. Coefficients(t)[n] = c /\ c \in Nat
  <2>1. \A k \in 0..n : Coefficients(s)[k] = Coefficients(t)[k]
    BY SamePrefix DEF Padded
  <2>2. n \in 0..n
    OBVIOUS
  <2>3. QED BY <2>1, <2>2, CoefficientsAre
<1> HIDE DEF c
<1>2. 0 \in N
  BY <1>1, PowersAre
<1>3. ASSUME NEW g \in Nat, g \in N PROVE g + 1 \in N
  <2> SUFFICES ASSUME g + 1 <= m PROVE Coefficients(t)[n + (g + 1)] = c * Powers[g + 1]
    OBVIOUS
  <2>1. n + g \in Nat /\ n + (g + 1) = (n + g) + 1 /\ (n + g) + 1 \in (n + 1)..(n + m)
    OBVIOUS
  <2>2. t[(n + g) + 1] = 0 /\ 0 \in Digit
    BY <2>1 DEF Digit, Padded
  <2>3. Coefficients(t)[(n + g) + 1] = 10 * Coefficients(t)[n + g]
    <3>1. Coefficients(t)[(n + g) + 1] = 10 * Coefficients(t)[n + g] + 0
      BY <2>1, <2>2, CoefficientsAre
    <3>2. Coefficients(t)[n + g] \in Nat
      BY <2>1, CoefficientsAre
    <3>3. QED BY <3>1, <3>2
  <2>4. Coefficients(t)[n + g] = c * Powers[g]
    BY <1>3
  <2>5. Powers[g + 1] = 10 * Powers[g] /\ Powers[g] \in Nat
    BY PowersAre
  <2>6. \A p \in Nat : 10 * (c * p) = c * (10 * p)
    BY <1>1
  <2>7. QED BY <2>1, <2>3, <2>4, <2>5, <2>6
<1>4. \A g \in Nat : g \in N
  <2> HIDE DEF N
  <2>1. QED BY <1>2, <1>3, SetInduction
<1>5. m \in N
  BY <1>4
<1>6. QED BY <1>5 DEF c

\* Digits with no zero first, as far as one likes to read them.
Digits(s) == s[1] # 0 /\ \A k \in Nat \ {0} : s[k] \in Digit

LEMMA DigitStep ==
    ASSUME NEW s, Digits(s), NEW k \in Nat
    PROVE  /\ Coefficients(s)[k] \in Nat /\ s[k + 1] \in 0..9
           /\ Coefficients(s)[k + 1] = 10 * Coefficients(s)[k] + s[k + 1]
<1>1. k + 1 \in Nat \ {0}
  OBVIOUS
<1>2. s[k + 1] \in Digit
  BY <1>1 DEF Digits
<1>3. QED BY <1>2, CoefficientsAre DEF Digit

\* A number of k digits lies between two powers of ten.
LEMMA Size ==
    ASSUME NEW s, Digits(s), NEW k \in Nat
    PROVE  Coefficients(s)[k] < Powers[k] /\ Powers[k] <= Coefficients(s)[k + 1]
<1> DEFINE N == {j \in Nat : Coefficients(s)[j] < Powers[j] /\ Powers[j] <= Coefficients(s)[j + 1]}
<1>1. 0 \in N
  <2>1. Coefficients(s)[0] = 0 /\ Powers[0] = 1 /\ s[1] # 0 /\ 0 + 1 = 1
    BY CoefficientsAre, PowersAre DEF Digits
  <2>2. s[0 + 1] \in 0..9 /\ Coefficients(s)[0 + 1] = 10 * Coefficients(s)[0] + s[0 + 1]
    BY DigitStep
  <2>3. QED BY <2>1, <2>2
<1>2. ASSUME NEW j \in Nat, j \in N PROVE j + 1 \in N
  <2>1. PICK a, b, c, p, q, d, e :
            /\ a = Coefficients(s)[j] /\ b = Coefficients(s)[j + 1] /\ c = Coefficients(s)[(j + 1) + 1]
            /\ p = Powers[j] /\ q = Powers[j + 1] /\ d = s[j + 1] /\ e = s[(j + 1) + 1]
    OBVIOUS
  <2>2. /\ a \in Nat /\ b \in Nat /\ c \in Nat /\ d \in 0..9 /\ e \in 0..9
        /\ b = 10 * a + d /\ c = 10 * b + e
    BY <2>1, DigitStep, CoefficientsAre
  <2>3. p \in Nat /\ q = 10 * p
    BY <2>1, PowersAre
  <2>4. a < p /\ p <= b
    BY <1>2, <2>1
  <2>5. b < q /\ q <= c
    BY <2>2, <2>3, <2>4
  <2>6. QED BY <2>1, <2>5
<1>3. \A j \in Nat : j \in N
  <2> HIDE DEF N
  <2>1. QED BY <1>1, <1>2, SetInduction
<1>4. QED BY <1>3

\* More digits, or the same number of digits and a greater one where they first
\* differ, is more.
LEMMA LongerIsMore ==
    ASSUME NEW s, NEW t, Digits(s), Digits(t), NEW a \in Nat, NEW b \in Nat, a < b
    PROVE  Coefficients(s)[a] < Coefficients(t)[b]
<1>1. PICK c \in Nat : b = c + 1 /\ a <= c
  <2>1. b - 1 \in Nat /\ b = (b - 1) + 1 /\ a <= b - 1
    OBVIOUS
  <2>2. QED BY <2>1
<1>2. Coefficients(s)[a] < Powers[a] /\ Powers[a] <= Powers[c] /\ Powers[c] <= Coefficients(t)[b]
  BY <1>1, Size, PowersGrow
<1>3. /\ Coefficients(s)[a] \in Nat /\ Powers[a] \in Nat /\ Powers[c] \in Nat
      /\ Coefficients(t)[b] \in Nat
  BY CoefficientsAre, PowersAre
<1>4. QED BY <1>2, <1>3

LEMMA GreaterIsMore ==
    ASSUME NEW s, NEW t, Digits(s), Digits(t), NEW i \in Nat, NEW n \in Nat, i < n,
           \A k \in 1..i : s[k] = t[k], s[i + 1] < t[i + 1]
    PROVE  Coefficients(s)[n] < Coefficients(t)[n]
<1> DEFINE N == {d \in Nat : Coefficients(s)[(i + 1) + d] < Coefficients(t)[(i + 1) + d]}
<1>1. 0 \in N
  <2>1. Coefficients(s)[i] = Coefficients(t)[i]
    <3>1. \A k \in 0..i : Coefficients(s)[k] = Coefficients(t)[k]
      BY SamePrefix
    <3>2. i \in 0..i
      OBVIOUS
    <3>3. QED BY <3>1, <3>2
  <2>2. /\ Coefficients(s)[i] \in Nat /\ s[i + 1] \in 0..9 /\ t[i + 1] \in 0..9
        /\ Coefficients(s)[i + 1] = 10 * Coefficients(s)[i] + s[i + 1]
        /\ Coefficients(t)[i + 1] = 10 * Coefficients(t)[i] + t[i + 1]
    BY DigitStep
  <2>3. Coefficients(s)[i + 1] < Coefficients(t)[i + 1]
    BY <2>1, <2>2
  <2>4. (i + 1) + 0 = i + 1
    OBVIOUS
  <2>5. QED BY <2>3, <2>4, Zenon
<1>2. ASSUME NEW d \in Nat, d \in N PROVE d + 1 \in N
  <2>1. PICK k \in Nat : k = (i + 1) + d /\ (i + 1) + (d + 1) = k + 1
    OBVIOUS
  <2>2. Coefficients(s)[k] < Coefficients(t)[k]
    BY <1>2, <2>1
  <2>3. /\ Coefficients(s)[k] \in Nat /\ Coefficients(t)[k] \in Nat
        /\ s[k + 1] \in 0..9 /\ t[k + 1] \in 0..9
        /\ Coefficients(s)[k + 1] = 10 * Coefficients(s)[k] + s[k + 1]
        /\ Coefficients(t)[k + 1] = 10 * Coefficients(t)[k] + t[k + 1]
    BY DigitStep
  <2>4. Coefficients(s)[k + 1] < Coefficients(t)[k + 1]
    BY <2>2, <2>3
  <2>5. QED BY <2>1, <2>4
<1>3. \A d \in Nat : d \in N
  <2> HIDE DEF N
  <2>1. QED BY <1>1, <1>2, SetInduction
<1>4. n - (i + 1) \in Nat /\ (i + 1) + (n - (i + 1)) = n
  OBVIOUS
<1>5. QED BY <1>3, <1>4

\* The digits of a number and zeros behind them.
Pad(v) == [i \in Nat |-> DigitAt(v, i)]

LEMMA PadIs ==
    ASSUME NEW v, Leads(v)
    PROVE  /\ Digits(Pad(v)) /\ Coefficient(v.digits) \in Nat
           /\ \A i \in Nat : Pad(v)[i] = DigitAt(v, i)
           /\ \A g \in Nat : Coefficients(Pad(v))[Len(v.digits) + g] = Coefficient(v.digits) * Powers[g]
<1>1. PICK s, t, n : s = v.digits /\ t = Pad(v) /\ n = Len(s)
  OBVIOUS
<1>2. n \in Nat \ {0} /\ s[1] # 0 /\ \A i \in Nat \ {0} : DigitAt(v, i) \in Digit
  BY <1>1, Leading DEF Leads
<1>3. \A i \in Nat : t[i] = DigitAt(v, i)
  BY <1>1 DEF Pad
<1>4. \A i \in Nat : t[i] = IF i <= n THEN s[i] ELSE 0
  BY <1>1, <1>3 DEF DigitAt
<1>5. Digits(t)
  <2>1. t[1] # 0
    BY <1>2, <1>4
  <2>2. \A k \in Nat \ {0} : t[k] \in Digit
    BY <1>2, <1>3
  <2>3. QED BY <2>1, <2>2 DEF Digits
<1>6. ASSUME NEW g \in Nat PROVE Coefficients(t)[n + g] = Coefficients(s)[n] * Powers[g]
  <2>1. \A k \in 1..n : s[k] = t[k]
    BY <1>2, <1>4
  <2>2. \A k \in (n + 1)..(n + g) : t[k] = 0
    BY <1>2, <1>4
  <2>3. n \in Nat /\ Padded(s, t, n, g)
    BY <1>2, <2>1, <2>2 DEF Padded
  <2>4. QED BY <2>3, ZerosBehind
<1>7. Coefficients(s)[n] = Coefficient(v.digits) /\ Coefficients(s)[n] \in Nat
  BY <1>1, <1>2, CoefficientsAre DEF Coefficient
<1>8. QED BY <1>1, <1>3, <1>5, <1>6, <1>7

\* x and y in units of which they have a and b digits.
Scaled(x, y, gx, gy) == Coefficient(x.digits) * Powers[gx] - Coefficient(y.digits) * Powers[gy]

LEMMA SignOf ==
    /\ \A n \in Int : /\ Sign(n) = 1 <=> n > 0
                      /\ Sign(n) = -1 <=> n < 0
                      /\ Sign(n) = 0 <=> n = 0
    /\ \A n \in Int : Sign(-n) = -Sign(n)
BY DEF Sign

\* The first differing digit, by the least index where digits differ.
FirstDiffers(s, t, i) == i \in Nat /\ s[i + 1] # t[i + 1] /\ \A k \in 1..i : s[k] = t[k]

LEMMA MagnitudeOf ==
    ASSUME NEW x, NEW y, Leads(x), Leads(y)
    PROVE  /\ Top(x) # Top(y) => CompareMagnitude(x, y) = Sign(Top(x) - Top(y))
           /\ Top(x) = Top(y) =>
                \/ CompareMagnitude(x, y) = 0 /\ SameDigits(x, y)
                \/ \E i \in 0..(Len(x.digits) + Len(y.digits)) :
                      /\ i < Len(x.digits) \/ i < Len(y.digits)
                      /\ FirstDiffers(Pad(x), Pad(y), i)
                      /\ CompareMagnitude(x, y) = Sign(Pad(x)[i + 1] - Pad(y)[i + 1])
<1>1. PICK lx, ly, n : lx = Len(x.digits) /\ ly = Len(y.digits) /\ n = lx + ly
                       /\ lx \in Nat /\ ly \in Nat /\ n \in Nat
  <2>1. Len(x.digits) \in Nat /\ Len(y.digits) \in Nat
    BY Leading
  <2>2. \A l, m \in Nat : l + m \in Nat
    OBVIOUS
  <2>3. QED BY <2>1, <2>2, Zenon
<1> DEFINE differ == {i \in 1..n : DigitAt(x, i) # DigitAt(y, i)}
           least == CHOOSE k \in differ : \A l \in differ : k <= l
<1>2. CompareMagnitude(x, y) =
          CASE Top(x) # Top(y)                  -> Sign(Top(x) - Top(y))
            [] Top(x) = Top(y) /\ differ = {}   -> 0
            [] Top(x) = Top(y) /\ differ # {}   -> Sign(DigitAt(x, least) - DigitAt(y, least))
  BY <1>1, Zenon DEF CompareMagnitude, Top
<1>3. CASE Top(x) # Top(y)
  <2> HIDE DEF differ, least
  <2>1. QED BY <1>2, <1>3
<1>4. CASE Top(x) = Top(y) /\ differ = {}
  <2>1. CompareMagnitude(x, y) = 0
    <3> HIDE DEF differ, least
    <3>1. QED BY <1>2, <1>4
  <2>2. SameDigits(x, y)
    BY <2>1, <1>4, MagnitudesEqual
  <2>3. QED BY <1>4, <2>1, <2>2
<1>5. CASE Top(x) = Top(y) /\ differ # {}
  <2>1. CompareMagnitude(x, y) = Sign(DigitAt(x, least) - DigitAt(y, least))
    <3> HIDE DEF differ, least
    <3>1. QED BY <1>2, <1>5
  <2>2. least \in differ /\ \A l \in differ : least <= l
    <3>1. differ \subseteq Nat
      OBVIOUS
    <3>2. \E k \in differ : \A l \in differ : k <= l
      <4> HIDE DEF differ
      <4>1. QED BY <1>5, <3>1, Least
    <3> HIDE DEF differ
    <3>3. QED BY <3>2
  <2> HIDE DEF least
  <2>3. PICK i, m : m = least /\ i = m - 1
    OBVIOUS
  <2>4. least \in 1..n /\ DigitAt(x, least) # DigitAt(y, least)
    BY <2>2
  <2>5. i \in 0..n /\ i \in Nat /\ i + 1 = least
    <3>1. m \in 1..n
      BY <2>3, <2>4
    <3>2. \A a \in Nat : \A b \in 1..a : b - 1 \in 0..a /\ b - 1 \in Nat /\ (b - 1) + 1 = b
      OBVIOUS
    <3>3. QED BY <1>1, <2>3, <3>1, <3>2, Zenon
  <2>6. \A k \in 1..i : DigitAt(x, k) = DigitAt(y, k)
    <3> SUFFICES ASSUME NEW k \in 1..i, DigitAt(x, k) # DigitAt(y, k) PROVE FALSE
      OBVIOUS
    <3>1. k \in 1..n /\ ~(least <= k)
      <4>1. m \in 1..n
        BY <2>3, <2>4
      <4>2. \A a \in Nat : \A b \in 1..a : \A c \in 1..(b - 1) : c \in 1..a /\ ~(b <= c)
        OBVIOUS
      <4>3. QED BY <1>1, <2>3, <4>1, <4>2, Zenon
    <3>2. k \in differ
      BY <3>1
    <3>3. QED BY <2>2, <3>1, <3>2
  <2>7. i < lx \/ i < ly
    <3> SUFFICES ASSUME ~(i < lx), ~(i < ly) PROVE FALSE
      OBVIOUS
    <3>1. ~(least <= lx) /\ ~(least <= ly)
      BY <1>1, <2>5
    <3>2. QED BY <1>1, <2>4, <3>1, Zenon DEF DigitAt
  <2>8. /\ \A k \in Nat : Pad(x)[k] = DigitAt(x, k)
        /\ \A k \in Nat : Pad(y)[k] = DigitAt(y, k)
    BY PadIs
  <2>9. least \in Nat /\ \A k \in 1..i : k \in Nat
    BY <2>4
  <2>10. FirstDiffers(Pad(x), Pad(y), i)
    BY <2>4, <2>5, <2>6, <2>8, <2>9 DEF FirstDiffers
  <2>11. CompareMagnitude(x, y) = Sign(Pad(x)[i + 1] - Pad(y)[i + 1])
    BY <2>1, <2>5, <2>8, <2>9
  <2>12. QED BY <1>1, <1>5, <2>5, <2>7, <2>10, <2>11
<1>6. QED BY <1>3, <1>4, <1>5

LEMMA MagnitudeIsExact ==
    ASSUME NEW x, NEW y, Leads(x), Leads(y), NEW gx \in Nat, NEW gy \in Nat,
           Sign((Len(x.digits) + gx) - (Len(y.digits) + gy)) = Sign(Top(x) - Top(y))
    PROVE  CompareMagnitude(x, y) = Sign(Scaled(x, y, gx, gy))
<1>1. PICK s, t : s = Pad(x) /\ t = Pad(y)
  OBVIOUS
<1>2. PICK a, b, lx, ly : lx = Len(x.digits) /\ ly = Len(y.digits) /\ a = lx + gx /\ b = ly + gy
  OBVIOUS
<1>3. lx \in Nat /\ ly \in Nat /\ a \in Nat /\ b \in Nat /\ lx <= a /\ ly <= b
  <2>1. lx \in Nat /\ ly \in Nat
    BY <1>2, Leading
  <2>2. QED BY <1>2, <2>1
<1>4. PICK u, v : u = Coefficients(s)[a] /\ v = Coefficients(t)[b]
  OBVIOUS
<1>5. u \in Nat /\ v \in Nat
  BY <1>3, <1>4, CoefficientsAre
<1>6. Scaled(x, y, gx, gy) = u - v
  BY <1>1, <1>2, <1>4, PadIs DEF Scaled
<1>7. Digits(s) /\ Digits(t)
  BY <1>1, PadIs
<1>8. Top(x) \in Int /\ Top(y) \in Int /\ Sign(a - b) = Sign(Top(x) - Top(y))
  BY <1>2, Leading
<1>9. CASE a < b
  <2>1. u < v
    BY <1>3, <1>4, <1>7, <1>9, LongerIsMore
  <2>2. Sign(a - b) = -1 /\ Sign(u - v) = -1
    BY <1>3, <1>5, <1>9, <2>1, SignOf
  <2>3. Top(x) # Top(y)
    BY <1>8, <2>2, SignOf
  <2>4. QED BY <1>6, <1>8, <2>2, <2>3, MagnitudeOf
<1>10. CASE b < a
  <2>1. v < u
    BY <1>3, <1>4, <1>7, <1>10, LongerIsMore
  <2>2. Sign(a - b) = 1 /\ Sign(u - v) = 1
    BY <1>3, <1>5, <1>10, <2>1, SignOf
  <2>3. Top(x) # Top(y)
    BY <1>8, <2>2, SignOf
  <2>4. QED BY <1>6, <1>8, <2>2, <2>3, MagnitudeOf
<1>11. CASE a = b
  <2>1. Top(x) = Top(y)
    <3>1. Sign(a - b) = 0
      BY <1>3, <1>11, SignOf
    <3>2. Top(x) - Top(y) \in Int /\ (Top(x) - Top(y) = 0 => Top(x) = Top(y))
      BY <1>8
    <3>3. QED BY <1>8, <3>1, <3>2, SignOf
  <2>2. CASE CompareMagnitude(x, y) = 0 /\ SameDigits(x, y)
    <3>1. \A k \in 1..a : s[k] = t[k]
      <4>1. \A k \in 1..a : k \in Nat /\ k \in Nat \ {0}
        OBVIOUS
      <4>2. QED BY <1>1, <2>2, <4>1, PadIs DEF SameDigits
    <3>2. \A k \in 0..a : Coefficients(s)[k] = Coefficients(t)[k]
      BY <1>3, <3>1, SamePrefix
    <3>3. a \in 0..a
      BY <1>3
    <3>4. u = v
      BY <1>4, <1>11, <3>2, <3>3
    <3>5. u - v = 0
      BY <1>5, <3>4
    <3>6. QED BY <1>6, <2>2, <3>5, SignOf
  <2>3. ASSUME NEW i \in 0..(lx + ly), i < lx \/ i < ly, FirstDiffers(s, t, i),
               CompareMagnitude(x, y) = Sign(s[i + 1] - t[i + 1])
        PROVE  CompareMagnitude(x, y) = Sign(u - v)
    <3>1. i \in Nat /\ i < a
      BY <1>3, <1>11, <2>3
    <3>2. PICK c, d : c = s[i + 1] /\ d = t[i + 1]
      OBVIOUS
    <3>3. c \in 0..9 /\ d \in 0..9
      BY <1>7, <3>1, <3>2, DigitStep
    <3>4. c # d /\ \A k \in 1..i : s[k] = t[k]
      BY <2>3, <3>2 DEF FirstDiffers
    <3>5. CASE c < d
      <4>1. u < v
        BY <1>3, <1>4, <1>7, <1>11, <3>1, <3>2, <3>4, <3>5, GreaterIsMore
      <4>2. Sign(c - d) = -1 /\ Sign(u - v) = -1
        BY <1>5, <3>3, <3>5, <4>1, SignOf
      <4>3. QED BY <2>3, <3>2, <4>2
    <3>6. CASE d < c
      <4>0. \A k \in 1..i : t[k] = s[k]
        BY <3>4
      <4>1. v < u
        BY <1>3, <1>4, <1>7, <1>11, <3>1, <3>2, <4>0, <3>6, GreaterIsMore
      <4>2. Sign(c - d) = 1 /\ Sign(u - v) = 1
        BY <1>5, <3>3, <3>6, <4>1, SignOf
      <4>3. QED BY <2>3, <3>2, <4>2
    <3>7. QED BY <3>3, <3>4, <3>5, <3>6
  <2>4. QED BY <1>1, <1>2, <1>6, <2>1, <2>2, <2>3, MagnitudeOf
<1>12. QED BY <1>3, <1>9, <1>10, <1>11

\* Zero, or a number without leading zeros.
Trimmed(v) == v \in Number /\ (v.digits = <<0>> \/ Leads(v))

LEMMA CoefficientOf ==
    ASSUME NEW v, Trimmed(v)
    PROVE  /\ Coefficient(v.digits) \in Nat /\ Len(v.digits) \in Nat
           /\ v.exp \in Int /\ v.neg \in BOOLEAN
           /\ Coefficient(v.digits) = 0 <=> v.digits = <<0>>
<1>1. v.exp \in Int /\ v.neg \in BOOLEAN /\ v.digits \in Seq(Digit)
  BY DEF Trimmed, Number
<1>2. Len(v.digits) \in Nat
  BY <1>1
<1>3. Coefficient(v.digits) \in Nat
  BY <1>2, CoefficientsAre DEF Coefficient
<1>4. CASE v.digits = <<0>>
  <2>1. PICK s : s = v.digits /\ Len(s) = 1 /\ s[1] = 0
    BY <1>4
  <2>2. Coefficients(s)[0] = 0 /\ Coefficients(s)[0 + 1] = IF s[0 + 1] \in Digit THEN 10 * Coefficients(s)[0] + s[0 + 1] ELSE Coefficients(s)[0]
    BY CoefficientsAre
  <2>3. Coefficients(s)[1] = 0
    BY <2>1, <2>2
  <2>4. QED BY <1>1, <1>2, <1>3, <1>4, <2>1, <2>3 DEF Coefficient
<1>5. CASE v.digits # <<0>>
  <2>1. Leads(v)
    BY <1>5 DEF Trimmed
  <2>2. PICK n, s : n = Len(v.digits) /\ s = Pad(v)
    OBVIOUS
  <2>3. n \in Nat \ {0}
    BY <2>1, <2>2, Leading
  <2>4. n - 1 \in Nat /\ (n - 1) + 1 = n
    BY <2>3
  <2>5. Digits(s) /\ Coefficients(s)[n + 0] = Coefficient(v.digits) * Powers[0]
    BY <2>1, <2>2, PadIs
  <2>6. Powers[n - 1] >= 1 /\ Powers[n - 1] \in Nat /\ Powers[0] = 1
    BY <2>4, PowersAre
  <2>7. Powers[n - 1] <= Coefficients(s)[(n - 1) + 1]
    BY <2>4, <2>5, Size
  <2>8. Coefficients(s)[n] = Coefficient(v.digits)
    <3>1. n + 0 = n
      BY <2>3
    <3>2. Coefficient(v.digits) * 1 = Coefficient(v.digits)
      BY <1>3
    <3>3. QED BY <2>5, <2>6, <3>1, <3>2
  <2>9. Coefficient(v.digits) >= 1
    BY <1>3, <2>4, <2>6, <2>7, <2>8
  <2>10. QED BY <1>1, <1>2, <1>3, <1>5, <2>9
<1>6. QED BY <1>4, <1>5

\* The number of places by which each of two numbers is written out.
Gap(x, y) == Clamp(x.exp - y.exp, -Len(x.digits), Len(y.digits))
Places(x, y) == IF Gap(x, y) > 0 THEN Gap(x, y) ELSE 0
PlacesOf(x, y) == IF Gap(x, y) < 0 THEN -Gap(x, y) ELSE 0

LEMMA PlacesAre ==
    ASSUME NEW x, NEW y, Trimmed(x), Trimmed(y)
    PROVE  /\ Places(x, y) \in Nat /\ PlacesOf(x, y) \in Nat
           /\ Len(x.digits) > 0 /\ Len(y.digits) > 0 =>
                Sign((Len(x.digits) + Places(x, y)) - (Len(y.digits) + PlacesOf(x, y))) = Sign(Top(x) - Top(y))
<1>1. PICK l, m, d, e, g : /\ l = Len(x.digits) /\ m = Len(y.digits) /\ d = x.exp /\ e = y.exp
                           /\ g = Gap(x, y)
  OBVIOUS
<1>2. l \in Nat /\ m \in Nat /\ d \in Int /\ e \in Int
  BY <1>1, CoefficientOf
<1>3. g = IF d - e < -l THEN -l ELSE IF d - e > m THEN m ELSE d - e
  BY <1>1 DEF Gap, Clamp
<1>4. g \in Int
  BY <1>2, <1>3
<1>5. PICK p, q : p = Places(x, y) /\ q = PlacesOf(x, y)
  OBVIOUS
<1>6. p = (IF g > 0 THEN g ELSE 0) /\ q = (IF g < 0 THEN -g ELSE 0)
  BY <1>1, <1>5 DEF Places, PlacesOf
<1>7. p \in Nat /\ q \in Nat
  BY <1>4, <1>6
<1>8. p - q = g
  BY <1>4, <1>6
<1>9. (l + p) - (m + q) = l - m + g
  BY <1>2, <1>4, <1>7, <1>8
<1>10. Top(x) - Top(y) = (d + l) - (e + m)
  BY <1>1 DEF Top
<1>11. ASSUME l > 0, m > 0 PROVE Sign((l + p) - (m + q)) = Sign(Top(x) - Top(y))
  <2>1. PICK a, b : a = l - m + g /\ b = (d + l) - (e + m)
    OBVIOUS
  <2>2. a \in Int /\ b \in Int
    BY <1>2, <1>4, <2>1
  <2>3. CASE d - e < -l
    <3>1. a < 0 /\ b < 0
      BY <1>2, <1>3, <1>11, <2>1, <2>3
    <3>2. QED BY <1>9, <1>10, <2>1, <2>2, <3>1 DEF Sign
  <2>4. CASE d - e > m
    <3>1. a > 0 /\ b > 0
      BY <1>2, <1>3, <1>11, <2>1, <2>4
    <3>2. QED BY <1>9, <1>10, <2>1, <2>2, <3>1 DEF Sign
  <2>5. CASE ~(d - e < -l) /\ ~(d - e > m)
    <3>1. a = b
      BY <1>2, <1>3, <2>1, <2>5
    <3>2. QED BY <1>9, <1>10, <2>1, <3>1
  <2>6. QED BY <2>3, <2>4, <2>5
<1>12. QED BY <1>1, <1>5, <1>7, <1>11

LEMMA ScaledIs ==
    ASSUME NEW v, Trimmed(v), NEW g \in Nat
    PROVE  /\ Coefficient(v.digits) * Powers[g] \in Nat
           /\ v.digits = <<0>> => Coefficient(v.digits) * Powers[g] = 0
           /\ v.digits # <<0>> => Coefficient(v.digits) * Powers[g] > 0
           /\ Value(v, g) = IF v.neg THEN -(Coefficient(v.digits) * Powers[g])
                                     ELSE Coefficient(v.digits) * Powers[g]
<1>1. PICK c, p : c = Coefficient(v.digits) /\ p = Powers[g]
  OBVIOUS
<1>2. c \in Nat /\ p \in Nat /\ p >= 1 /\ (c = 0 <=> v.digits = <<0>>) /\ v.neg \in BOOLEAN
  BY <1>1, CoefficientOf, PowersAre
<1>3. c * p \in Nat
  BY <1>2
<1>4. c = 0 => c * p = 0
  BY <1>2
<1>5. c # 0 => c * p > 0
  <2> SUFFICES ASSUME c >= 1 PROVE c * p > 0
    BY <1>2
  <2>1. PICK b \in Nat : c = b + 1
    <3>1. c - 1 \in Nat /\ c = (c - 1) + 1
      BY <1>2
    <3>2. QED BY <3>1
  <2>2. c * p = b * p + p /\ b * p \in Nat
    BY <1>2, <2>1
  <2>3. QED BY <1>2, <2>2
<1>6. Value(v, g) = (IF v.neg THEN -1 ELSE 1) * c * p
  BY <1>1 DEF Value
<1>7. (-1) * c * p = -(c * p) /\ 1 * c * p = c * p
  BY <1>2
<1>8. Value(v, g) = IF v.neg THEN -(c * p) ELSE c * p
  BY <1>2, <1>6, <1>7
<1>9. QED BY <1>1, <1>2, <1>3, <1>4, <1>5, <1>8

LEMMA OrderIsExact ==
    ASSUME NEW x, NEW y, Trimmed(x), Trimmed(y)
    PROVE  CompareNumbers(x, y) = ExactOrder(x, y)
<1>1. PICK p, q : p = Places(x, y) /\ q = PlacesOf(x, y) /\ p \in Nat /\ q \in Nat
  BY PlacesAre
<1>2. PICK a, b : a = Coefficient(x.digits) * Powers[p] /\ b = Coefficient(y.digits) * Powers[q]
  OBVIOUS
<1>3. /\ a \in Nat /\ b \in Nat
      /\ x.digits = <<0>> => a = 0
      /\ x.digits # <<0>> => a > 0
      /\ y.digits = <<0>> => b = 0
      /\ y.digits # <<0>> => b > 0
      /\ Value(x, p) = IF x.neg THEN -a ELSE a
      /\ Value(y, q) = IF y.neg THEN -b ELSE b
  BY <1>1, <1>2, ScaledIs
<1>4. x.neg \in BOOLEAN /\ y.neg \in BOOLEAN
  BY CoefficientOf
<1>5. ExactOrder(x, y) = Sign((IF x.neg THEN -a ELSE a) - (IF y.neg THEN -b ELSE b))
  <2>1. ExactOrder(x, y) = Sign(Value(x, p) - Value(y, q))
    BY <1>1 DEF ExactOrder, Gap, Places, PlacesOf
  <2>2. QED BY <1>3, <2>1
<1>6. CASE x.digits = <<0>> /\ y.digits = <<0>>
  <2>1. CompareNumbers(x, y) = 0
    BY <1>6 DEF CompareNumbers
  <2>2. (IF x.neg THEN -a ELSE a) - (IF y.neg THEN -b ELSE b) = 0
    BY <1>3, <1>4, <1>6
  <2>3. QED BY <1>5, <2>1, <2>2, SignOf
<1>7. CASE x.digits = <<0>> /\ y.digits # <<0>>
  <2>1. CompareNumbers(x, y) = IF y.neg THEN 1 ELSE -1
    BY <1>7 DEF CompareNumbers
  <2>2. a = 0 /\ b > 0
    BY <1>3, <1>7
  <2>3. Sign((IF x.neg THEN -a ELSE a) - (IF y.neg THEN -b ELSE b)) = IF y.neg THEN 1 ELSE -1
    BY <1>3, <1>4, <2>2 DEF Sign
  <2>4. QED BY <1>5, <2>1, <2>3
<1>8. CASE x.digits # <<0>> /\ y.digits = <<0>>
  <2>1. CompareNumbers(x, y) = IF x.neg THEN -1 ELSE 1
    BY <1>8 DEF CompareNumbers
  <2>2. b = 0 /\ a > 0
    BY <1>3, <1>8
  <2>3. Sign((IF x.neg THEN -a ELSE a) - (IF y.neg THEN -b ELSE b)) = IF x.neg THEN -1 ELSE 1
    BY <1>3, <1>4, <2>2 DEF Sign
  <2>4. QED BY <1>5, <2>1, <2>3
<1>9. CASE x.digits # <<0>> /\ y.digits # <<0>> /\ x.neg # y.neg
  <2>1. CompareNumbers(x, y) = IF x.neg THEN -1 ELSE 1
    BY <1>9 DEF CompareNumbers
  <2>2. a > 0 /\ b > 0
    BY <1>3, <1>9
  <2>3. Sign((IF x.neg THEN -a ELSE a) - (IF y.neg THEN -b ELSE b)) = IF x.neg THEN -1 ELSE 1
    BY <1>3, <1>4, <1>9, <2>2 DEF Sign
  <2>4. QED BY <1>5, <2>1, <2>3
<1>10. CASE x.digits # <<0>> /\ y.digits # <<0>> /\ x.neg = y.neg
  <2>1. CompareNumbers(x, y) = (IF x.neg THEN -1 ELSE 1) * CompareMagnitude(x, y)
    BY <1>10 DEF CompareNumbers
  <2>2. Leads(x) /\ Leads(y)
    BY <1>10 DEF Trimmed
  <2>3. CompareMagnitude(x, y) = Sign(a - b)
    <3>1. Len(x.digits) > 0 /\ Len(y.digits) > 0
      BY <2>2, Leading
    <3>2. Sign((Len(x.digits) + p) - (Len(y.digits) + q)) = Sign(Top(x) - Top(y))
      BY <1>1, <3>1, PlacesAre
    <3>3. CompareMagnitude(x, y) = Sign(Scaled(x, y, p, q))
      BY <1>1, <2>2, <3>2, MagnitudeIsExact
    <3>4. QED BY <1>2, <3>3 DEF Scaled
  <2>4. CASE x.neg
    <3>1. (-a) - (-b) = -(a - b) /\ a - b \in Int
      BY <1>3
    <3>2. ExactOrder(x, y) = -Sign(a - b)
      BY <1>5, <1>10, <2>4, <3>1, SignOf
    <3>3. Sign(a - b) \in Int
      BY <3>1, SignIs
    <3>4. (-1) * Sign(a - b) = -Sign(a - b)
      BY <3>3
    <3>5. QED BY <2>1, <2>3, <2>4, <3>2, <3>4
  <2>5. CASE ~x.neg
    <3>1. ExactOrder(x, y) = Sign(a - b)
      BY <1>5, <1>10, <2>5
    <3>2. Sign(a - b) \in Int
      <4>1. a - b \in Int
        BY <1>3
      <4>2. QED BY <4>1, SignIs
    <3>3. 1 * Sign(a - b) = Sign(a - b)
      BY <3>2
    <3>4. QED BY <2>1, <2>3, <2>5, <3>1, <3>3
  <2>6. QED BY <2>4, <2>5
<1>11. QED BY <1>6, <1>7, <1>8, <1>9, <1>10

\* Comparing a number parsed with a number without leading zeros orders them by
\* their values, however far their exponents are apart.
THEOREM OrderIsByValue ==
    ASSUME \A s \in Samples : Trimmed(s)
    PROVE  Spec => []OrderIsNumeric
<1>1. DInv => OrderIsNumeric
  <2> SUFFICES ASSUME DInv, pc = "done", NEW s \in Samples
               PROVE  /\ CompareNumbers(result, s) = ExactOrder(result, s)
                      /\ CompareNumbers(s, result) = ExactOrder(s, result)
    BY DEF OrderIsNumeric
  <2>1. CanonicalNumber(result)
    BY DEF DInv, Returned
  <2>2. Trimmed(result)
    <3>1. result \in Number
      BY <2>1 DEF CanonicalNumber
    <3>2. Tame(result)
      BY <2>1, CanonicalIsTame
    <3>3. QED BY <3>1, <3>2 DEF Tame, Trimmed
  <2>3. QED BY <2>2, OrderIsExact
<1>2. QED BY <1>1, DecimalInvariant, PTL

(***************************************************************************)
(* What a text says, part by part.                                         *)
(***************************************************************************)
LEMMA FirstOfIs ==
    ASSUME NEW t \in Seq(Bytes), NEW b
    PROVE  /\ FirstOf(t, b) \in 1..(Len(t) + 1)
           /\ \A k \in 1..(FirstOf(t, b) - 1) : t[k] # b
           /\ FirstOf(t, b) <= Len(t) => t[FirstOf(t, b)] = b
<1>1. PICK at, n : at = {k \in DOMAIN t : t[k] = b} /\ n = Len(t)
  OBVIOUS
<1>2. n \in Nat /\ DOMAIN t = 1..n
  BY <1>1
<1>3. FirstOf(t, b) = IF at = {} THEN n + 1 ELSE CHOOSE k \in at : \A l \in at : k <= l
  BY <1>1 DEF FirstOf
<1>4. CASE at = {}
  <2>1. FirstOf(t, b) = n + 1
    BY <1>3, <1>4
  <2>2. \A k \in 1..n : t[k] # b
    BY <1>1, <1>2, <1>4
  <2>3. QED BY <1>1, <1>2, <2>1, <2>2
<1>5. CASE at # {}
  <2>1. at \subseteq Nat
    BY <1>1, <1>2
  <2>2. \E k \in at : \A l \in at : k <= l
    BY <1>5, <2>1, Least
  <2>3. PICK f : f = FirstOf(t, b) /\ f \in at /\ \A l \in at : f <= l
    BY <1>3, <1>5, <2>2
  <2>4. f \in 1..n /\ t[f] = b
    BY <1>1, <1>2, <2>3
  <2>5. ASSUME NEW k \in 1..(f - 1) PROVE t[k] # b
    <3>1. k \in 1..n /\ ~(f <= k)
      BY <1>2, <2>4
    <3>2. QED BY <1>1, <1>2, <2>3, <3>1
  <2>6. QED BY <1>1, <1>2, <2>3, <2>4, <2>5
<1>6. QED BY <1>4, <1>5

\* The place that no such byte precedes, and that is one or behind the end.
LEMMA FirstOfOnly ==
    ASSUME NEW t \in Seq(Bytes), NEW b, NEW p \in 1..(Len(t) + 1),
           \A k \in 1..(p - 1) : t[k] # b, p <= Len(t) => t[p] = b
    PROVE  FirstOf(t, b) = p
<1>1. PICK f, n : f = FirstOf(t, b) /\ n = Len(t)
  OBVIOUS
<1>2. f \in 1..(n + 1) /\ (\A k \in 1..(f - 1) : t[k] # b) /\ (f <= n => t[f] = b)
  BY <1>1, FirstOfIs
<1>3. n \in Nat /\ p \in 1..(n + 1)
  BY <1>1
<1>4. ~(f < p)
  <2> SUFFICES ASSUME f < p PROVE FALSE
    OBVIOUS
  <2>1. f \in 1..(p - 1) /\ f <= n
    BY <1>2, <1>3
  <2>2. QED BY <1>2, <2>1
<1>5. ~(p < f)
  <2> SUFFICES ASSUME p < f PROVE FALSE
    OBVIOUS
  <2>1. p \in 1..(f - 1) /\ p <= n
    BY <1>2, <1>3
  <2>2. QED BY <1>1, <1>2, <2>1
<1>6. QED BY <1>1, <1>2, <1>3, <1>4, <1>5

LEMMA MantissaIs ==
    ASSUME NEW t \in Seq(Bytes)
    PROVE  /\ Mantissa(t) \in Seq(Bytes) /\ Len(Mantissa(t)) = FirstOf(t, E) - 1
           /\ \A k \in 1..(FirstOf(t, E) - 1) : Mantissa(t)[k] = t[k]
           /\ WrittenCoefficient(t) = Coefficients(t)[FirstOf(t, E) - 1]
<1>1. PICK f : f = FirstOf(t, E) /\ f \in 1..(Len(t) + 1)
  BY FirstOfIs
<1>2. f - 1 \in 0..Len(t) /\ Len(t) \in Nat /\ 1 \in 1..(Len(t) + 1) /\ f - 1 \in (1 - 1)..Len(t)
  BY <1>1
<1>3. PICK m : m = Mantissa(t)
  OBVIOUS
<1>4. /\ m \in Seq(Bytes) /\ Len(m) = f - 1 - 1 + 1
      /\ \A k \in 1..(f - 1 - 1 + 1) : m[k] = t[1 + k - 1]
  BY <1>1, <1>2, <1>3, SubSeqProperties DEF Mantissa
<1>5. Len(m) = f - 1 /\ \A k \in 1..(f - 1) : m[k] = t[k]
  BY <1>1, <1>4
<1>6. PICK n : n = f - 1 /\ n \in Nat
  BY <1>1
<1>7. \A k \in 0..n : Coefficients(m)[k] = Coefficients(t)[k]
  <2>1. \A k \in 1..n : m[k] = t[k]
    BY <1>5, <1>6
  <2>2. QED BY <1>6, <2>1, SamePrefix
<1>8. n \in 0..n
  BY <1>6
<1>9. WrittenCoefficient(t) = Coefficients(m)[n]
  BY <1>3, <1>5, <1>6 DEF WrittenCoefficient, Coefficient
<1>10. QED BY <1>1, <1>3, <1>4, <1>5, <1>6, <1>7, <1>8, <1>9

LEMMA ExponentIs ==
    ASSUME NEW t \in Seq(Bytes), NEW f, f = FirstOf(t, E)
    PROVE  /\ Exponent(t) \in Seq(Bytes)
           /\ Len(Exponent(t)) = IF f <= Len(t) THEN Len(t) - f ELSE 0
           /\ \A k \in 1..(Len(t) - f) : Exponent(t)[k] = t[f + k]
<1>1. f \in 1..(Len(t) + 1) /\ Len(t) \in Nat
  BY FirstOfIs
<1>2. PICK x : x = Exponent(t) /\ x = SubSeq(t, f + 1, Len(t))
  BY DEF Exponent, Tail1
<1>3. CASE f <= Len(t)
  <2>1. f + 1 \in 1..(Len(t) + 1) /\ Len(t) \in (f + 1 - 1)..Len(t)
    BY <1>1, <1>3
  <2>2. /\ x \in Seq(Bytes) /\ Len(x) = Len(t) - (f + 1) + 1
        /\ \A k \in 1..(Len(t) - (f + 1) + 1) : x[k] = t[(f + 1) + k - 1]
    BY <1>2, <2>1, SubSeqProperties
  <2>3. Len(t) - (f + 1) + 1 = Len(t) - f /\ \A k \in 1..(Len(t) - f) : (f + 1) + k - 1 = f + k
    BY <1>1
  <2>4. QED BY <1>2, <1>3, <2>2, <2>3
<1>4. CASE f = Len(t) + 1
  <2>1. x = <<>>
    BY <1>1, <1>2, <1>4
  <2>2. QED BY <1>1, <1>2, <1>4, <2>1
<1>5. QED BY <1>1, <1>3, <1>4

\* The first p - 1 bytes have no point, or one with f bytes behind it.
PointBefore(t, p, f) ==
    \/ f = 0 /\ \A k \in 1..(p - 1) : t[k] # Dot
    \/ p - 1 - f >= 1 /\ t[p - 1 - f] = Dot /\ \A k \in 1..(p - 2 - f) : t[k] # Dot

Fraction(t) == Len(Tail1(Mantissa(t), FirstOf(Mantissa(t), Dot)))

LEMMA BehindPoint ==
    ASSUME NEW m \in Seq(Bytes), NEW n \in Nat, n = Len(m), NEW f \in Nat, PointBefore(m, n + 1, f)
    PROVE  Len(Tail1(m, FirstOf(m, Dot))) = f
<1>1. PICK g : g = FirstOf(m, Dot)
  OBVIOUS
<1>2. CASE f = 0 /\ \A k \in 1..((n + 1) - 1) : m[k] # Dot
  <2>1. n + 1 \in 1..(Len(m) + 1) /\ ~(n + 1 <= Len(m))
    OBVIOUS
  <2>2. g = n + 1
    BY <1>1, <1>2, <2>1, FirstOfOnly
  <2>3. (n + 1) + 1 \in Int /\ n \in Int /\ n < (n + 1) + 1
    OBVIOUS
  <2>4. SubSeq(m, (n + 1) + 1, n) = <<>>
    BY <2>3, SubSeqEmpty
  <2>5. Tail1(m, FirstOf(m, Dot)) = <<>>
    BY <1>1, <2>2, <2>4, Zenon DEF Tail1
  <2>6. QED BY <1>2, <2>5
<1>3. CASE (n + 1) - 1 - f >= 1 /\ m[(n + 1) - 1 - f] = Dot /\ \A k \in 1..((n + 1) - 2 - f) : m[k] # Dot
  <2>1. PICK q : q = n - f /\ q \in 1..n
    BY <1>3
  <2>2. q \in 1..(Len(m) + 1) /\ m[q] = Dot /\ \A k \in 1..(q - 1) : m[k] # Dot
    <3>1. (n + 1) - 1 - f = q /\ (n + 1) - 2 - f = q - 1
      BY <2>1
    <3>2. QED BY <1>3, <2>1, <3>1
  <2>3. g = q
    BY <1>1, <2>2, FirstOfOnly
  <2>4. q + 1 \in Int /\ n \in Int /\ \A i \in (q + 1)..n : m[i] \in Bytes
    BY <2>1
  <2>5. Len(SubSeq(m, q + 1, n)) = IF q + 1 <= n THEN n - (q + 1) + 1 ELSE 0
    BY <2>4, SubSeqProperties
  <2>6. (IF q + 1 <= n THEN n - (q + 1) + 1 ELSE 0) = f
    BY <2>1
  <2>7. Tail1(m, FirstOf(m, Dot)) = SubSeq(m, q + 1, n)
    BY <1>1, <2>3, Zenon DEF Tail1
  <2>8. QED BY <2>5, <2>6, <2>7, Zenon
<1>4. QED BY <1>2, <1>3 DEF PointBefore

LEMMA FractionIs ==
    ASSUME NEW t \in Seq(Bytes), NEW f \in Nat, PointBefore(t, FirstOf(t, E), f)
    PROVE  Fraction(t) = f
<1>1. PICK p \in 1..(Len(t) + 1) : p = FirstOf(t, E)
  BY FirstOfIs
<1>2. PICK n \in Nat : n = p - 1 /\ p = n + 1
  OBVIOUS
<1>3. PICK m \in Seq(Bytes) : m = Mantissa(t) /\ Len(m) = n /\ \A k \in 1..n : m[k] = t[k]
  BY <1>1, <1>2, MantissaIs
<1>4. PointBefore(t, n + 1, f)
  BY <1>1, <1>2
<1>5. CASE f = 0 /\ \A k \in 1..((n + 1) - 1) : t[k] # Dot
  <2>1. \A k \in 1..((n + 1) - 1) : m[k] # Dot
    BY <1>3, <1>5
  <2>2. PointBefore(m, n + 1, f)
    BY <1>5, <2>1 DEF PointBefore
  <2>3. QED BY <1>3, <2>2, BehindPoint DEF Fraction
<1>6. CASE (n + 1) - 1 - f >= 1 /\ t[(n + 1) - 1 - f] = Dot /\ \A k \in 1..((n + 1) - 2 - f) : t[k] # Dot
  <2>1. (n + 1) - 1 - f \in 1..n /\ \A k \in 1..((n + 1) - 2 - f) : k \in 1..n
    BY <1>6
  <2>2. PointBefore(m, n + 1, f)
    BY <1>3, <1>6, <2>1 DEF PointBefore
  <2>3. QED BY <1>3, <2>2, BehindPoint DEF Fraction
<1>7. QED BY <1>4, <1>5, <1>6 DEF PointBefore

(***************************************************************************)
(* What the digits gathered come to.                                       *)
(***************************************************************************)
LEMMA AppendIs ==
    ASSUME NEW s \in Seq(Digit), NEW d \in Digit
    PROVE  Coefficient(Append(s, d)) = 10 * Coefficient(s) + d /\ Coefficient(s) \in Nat
<1>1. PICK t, n : t = Append(s, d) /\ n = Len(s)
  OBVIOUS
<1>2. n \in Nat /\ Len(t) = n + 1 /\ t[n + 1] = d /\ \A k \in 1..n : s[k] = t[k]
  BY <1>1
<1>3. Coefficients(s)[n] = Coefficients(t)[n]
  <2>1. \A k \in 0..n : Coefficients(s)[k] = Coefficients(t)[k]
    BY <1>2, SamePrefix
  <2>2. n \in 0..n
    BY <1>2
  <2>3. QED BY <2>1, <2>2
<1>4. Coefficients(t)[n + 1] = 10 * Coefficients(t)[n] + d /\ Coefficients(s)[n] \in Nat
  BY <1>2, CoefficientsAre
<1>5. QED BY <1>1, <1>2, <1>3, <1>4 DEF Coefficient

LEMMA EmptyIs == Coefficient(<<>>) = 0
<1>1. PICK s : s = <<>> /\ Len(s) = 0
  OBVIOUS
<1>2. QED BY <1>1, CoefficientsAre DEF Coefficient

\* What comes before the digits of t says nothing: a sign, or zeros.
Behind(s, k, t, n) == Coefficients(s)[k] = 0 /\ \A i \in 1..n : s[k + i] = t[i]
Preceded(s, t, k, n) == (\A i \in 1..k : s[i] = 0) /\ \A i \in 1..n : s[k + i] = t[i]

LEMMA DigitsBehind ==
    ASSUME NEW s, NEW k \in Nat, NEW t, NEW n \in Nat, Behind(s, k, t, n)
    PROVE  Coefficients(s)[k + n] = Coefficients(t)[n]
<1> DEFINE N == {j \in Nat : j <= n => Coefficients(s)[k + j] = Coefficients(t)[j]}
<1>1. 0 \in N
  <2>1. Coefficients(t)[0] = 0 /\ Coefficients(s)[k] = 0 /\ k + 0 = k
    BY CoefficientsAre DEF Behind
  <2>2. QED BY <2>1
<1>2. ASSUME NEW j \in Nat, j \in N PROVE j + 1 \in N
  <2> SUFFICES ASSUME j + 1 <= n PROVE Coefficients(s)[k + (j + 1)] = Coefficients(t)[j + 1]
    OBVIOUS
  <2>1. k + j \in Nat /\ k + (j + 1) = (k + j) + 1 /\ j + 1 \in 1..n
    OBVIOUS
  <2>2. s[(k + j) + 1] = t[j + 1]
    BY <2>1 DEF Behind
  <2>3. Coefficients(s)[k + j] = Coefficients(t)[j]
    BY <1>2
  <2>4. Coefficients(s)[(k + j) + 1] = IF t[j + 1] \in Digit THEN 10 * Coefficients(t)[j] + t[j + 1] ELSE Coefficients(t)[j]
    BY <2>1, <2>2, <2>3, CoefficientsAre
  <2>5. QED BY <2>1, <2>4, CoefficientsAre
<1>3. \A j \in Nat : j \in N
  <2> HIDE DEF N
  <2>1. QED BY <1>1, <1>2, SetInduction
<1>4. QED BY <1>3

LEMMA ZerosBefore ==
    ASSUME NEW s, NEW t, NEW k \in Nat, NEW n \in Nat, Preceded(s, t, k, n)
    PROVE  Coefficients(s)[k + n] = Coefficients(t)[n]
<1>1. Padded(s, s, 0, k)
  BY DEF Padded, Preceded
<1>2. Coefficients(s)[0 + k] = Coefficients(s)[0] * Powers[k]
  BY <1>1, ZerosBehind
<1>3. Powers[k] \in Nat /\ Coefficients(s)[0] = 0
  BY PowersAre, CoefficientsAre
<1>4. 0 * Powers[k] = 0 /\ 0 + k = k
  BY <1>3
<1>5. Coefficients(s)[k] = 0
  BY <1>2, <1>3, <1>4
<1>6. Behind(s, k, t, n)
  BY <1>5 DEF Behind, Preceded
<1>7. QED BY <1>6, DigitsBehind

LEMMA AllZero ==
    ASSUME NEW s \in Seq(Digit), \A k \in 1..Len(s) : s[k] = 0
    PROVE  Coefficient(s) = 0
<1>1. PICK n \in Nat : n = Len(s)
  OBVIOUS
<1>2. Padded(s, s, 0, n)
  BY <1>1 DEF Padded
<1>3. Coefficients(s)[0 + n] = Coefficients(s)[0] * Powers[n]
  BY <1>2, ZerosBehind
<1>4. Powers[n] \in Nat /\ Coefficients(s)[0] = 0
  BY PowersAre, CoefficientsAre
<1>5. 0 * Powers[n] = 0 /\ 0 + n = n
  BY <1>4
<1>6. Coefficients(s)[n] = 0
  BY <1>3, <1>4, <1>5
<1>7. QED BY <1>1, <1>6 DEF Coefficient

\* d is m without its t trailing zeros.
Cut(m, t, d) == t = Most(TrailingZeros(m)) /\ d = SubSeq(m, 1, Len(m) - t)

\* Trailing zeros cut off are a power of ten.
LEMMA CutIs ==
    ASSUME NEW m \in Seq(Digit), m # <<>>, NEW t, NEW d, Cut(m, t, d)
    PROVE  /\ t \in 0..(Len(m) - 1) /\ d \in Seq(Digit) /\ Len(d) = Len(m) - t /\ d[1] = m[1]
           /\ Coefficient(m) = Coefficient(d) * Powers[t]
<1>1. PICK n \in Nat \ {0} : n = Len(m)
  BY EmptySeq
<1>2. t \in 0..(n - 1) /\ \A i \in (n - t + 1)..n : m[i] = 0
  BY <1>1, TrailingStripped DEF Cut
<1>3. PICK l \in Nat \ {0} : l = n - t
  BY <1>2
<1>4. d \in Seq(Digit) /\ Len(d) = l /\ \A j \in 1..l : d[j] = m[j]
  <2>1. 1 \in Int /\ l \in Int /\ 1 <= l /\ \A i \in 1..l : m[i] \in Digit
    BY <1>1, <1>2, <1>3
  <2>2. /\ SubSeq(m, 1, l) \in Seq(Digit)
        /\ Len(SubSeq(m, 1, l)) = IF 1 <= l THEN l - 1 + 1 ELSE 0
        /\ \A j \in 1..(l - 1 + 1) : SubSeq(m, 1, l)[j] = m[1 + j - 1]
    BY <2>1, SubSeqProperties
  <2>3. l - 1 + 1 = l /\ \A j \in 1..l : 1 + j - 1 = j
    OBVIOUS
  <2>4. d = SubSeq(m, 1, l)
    BY <1>1, <1>3 DEF Cut
  <2>5. QED BY <2>1, <2>2, <2>3, <2>4
<1>5. Padded(d, m, l, t)
  <2>1. \A i \in (l + 1)..(l + t) : i \in (n - t + 1)..n
    BY <1>2, <1>3
  <2>2. QED BY <1>2, <1>4, <2>1 DEF Padded
<1>6. Coefficients(m)[l + t] = Coefficients(d)[l] * Powers[t]
  <2>1. PICK g \in Nat : g = t
    BY <1>2
  <2>2. PICK e \in Seq(Digit) : e = d
    BY <1>4
  <2>3. Padded(e, m, l, g)
    BY <1>5, <2>1, <2>2, Zenon
  <2>4. Coefficients(m)[l + g] = Coefficients(e)[l] * Powers[g]
    BY <2>3, ZerosBehind
  <2>5. QED BY <2>1, <2>2, <2>4, Zenon
<1>7. l + t = n /\ n - t = l /\ 1 \in 1..l
  BY <1>2, <1>3
<1>8. Coefficient(m) = Coefficient(d) * Powers[t]
  BY <1>1, <1>4, <1>6, <1>7 DEF Coefficient
<1>9. QED BY <1>1, <1>2, <1>4, <1>7, <1>8

LEMMA StrippedIs ==
    ASSUME buf \in Seq(Digit), buf # <<>>, NEW t, NEW d, Cut(Moved, t, d)
    PROVE  /\ AllZeroes => d = <<0>> /\ Coefficient(buf) = 0
           /\ ~AllZeroes => /\ d # <<0>> /\ t \in 0..(Len(buf) - 1)
                            /\ Coefficient(buf) = Coefficient(d) * Powers[t]
<1>1. PICK m \in Seq(Digit) : m = Moved /\ m # <<>> /\ Len(m) <= Len(buf)
  BY MovedIs
<1>2. /\ t \in 0..(Len(m) - 1) /\ d \in Seq(Digit) /\ Len(d) = Len(m) - t /\ d[1] = m[1]
      /\ Coefficient(m) = Coefficient(d) * Powers[t]
  BY <1>1, CutIs
<1>3. DOMAIN buf = 1..Len(buf) /\ Len(buf) \in Nat
  OBVIOUS
<1>4. CASE AllZeroes
  <2>1. m = <<0>>
    BY <1>1, <1>4 DEF Moved
  <2>2. Len(m) = 1 /\ m[1] = 0
    BY <2>1
  <2>3. Len(d) = 1 /\ d[1] = 0
    BY <1>2, <2>2
  <2>4. d = <<0>>
    <3>1. <<0>> \in Seq(Digit) /\ Len(<<0>>) = 1 /\ <<0>>[1] = 0
      BY DEF Digit
    <3>2. \A i \in 1..Len(d) : i = 1
      BY <2>3
    <3>3. \A i \in 1..Len(d) : d[i] = <<0>>[i]
      BY <2>3, <3>1, <3>2, Zenon
    <3>4. QED BY <1>2, <2>3, <3>1, <3>3, SeqEqual
  <2>5. Coefficient(buf) = 0
    BY <1>3, <1>4, AllZero DEF AllZeroes
  <2>6. QED BY <1>4, <2>4, <2>5
<1>5. CASE ~AllZeroes
  <2>1. PICK n \in Nat : n = Len(buf)
    BY <1>3
  <2>2. PICK i \in 1..n : buf[i] # 0
    BY <1>3, <1>5, <2>1 DEF AllZeroes
  <2>3. PICK k : k = Most(LeadingZeros(buf)) /\ k \in 0..(n - 1) /\ buf[k + 1] # 0
    BY <1>3, <2>1, <2>2, LeadingStripped
  <2>4. \A j \in 1..k : buf[j] = 0
    <3>1. LeadingZeros(buf) \subseteq 0..n /\ 0 \in LeadingZeros(buf)
      BY <2>1 DEF LeadingZeros
    <3>2. k \in LeadingZeros(buf)
      BY <2>1, <2>3, <3>1, MostIs
    <3>3. QED BY <3>2 DEF LeadingZeros
  <2>5. PICK l \in Nat \ {0} : l = n - k
    BY <2>3
  <2>6. m = SubSeq(buf, k + 1, n)
    BY <1>1, <1>5, <2>1, <2>3 DEF Moved
  <2>7. Len(m) = l /\ \A j \in 1..l : m[j] = buf[k + j]
    <3>1. k + 1 \in Int /\ n \in Int /\ \A j \in (k + 1)..n : buf[j] \in Digit
      BY <2>1, <2>3
    <3>2. /\ Len(SubSeq(buf, k + 1, n)) = IF k + 1 <= n THEN n - (k + 1) + 1 ELSE 0
          /\ \A j \in 1..(n - (k + 1) + 1) : SubSeq(buf, k + 1, n)[j] = buf[(k + 1) + j - 1]
      BY <3>1, SubSeqProperties
    <3>0. k \in 0..(n - 1)
      BY <2>3
    <3>3. k + 1 <= n /\ n - (k + 1) + 1 = l /\ \A j \in 1..l : (k + 1) + j - 1 = k + j
      BY <2>5, <3>0
    <3>4. QED BY <2>6, <3>2, <3>3
  <2>8. Preceded(buf, m, k, l)
    BY <2>4, <2>7 DEF Preceded
  <2>9. Coefficients(buf)[k + l] = Coefficients(m)[l] /\ k + l = n
    BY <2>3, <2>5, <2>8, ZerosBefore
  <2>10. Coefficient(buf) = Coefficient(m)
    BY <2>1, <2>7, <2>9 DEF Coefficient
  <2>11. m[1] # 0
    <3>1. 1 \in 1..l
      OBVIOUS
    <3>2. QED BY <2>3, <2>7, <3>1
  <2>12. d # <<0>>
    <3>1. d = <<0>> => d[1] = 0
      OBVIOUS
    <3>2. QED BY <1>2, <2>11, <3>1, Zenon
  <2>13. t \in 0..(Len(buf) - 1)
    BY <1>1, <1>2, <2>1, <2>7
  <2>14. QED BY <1>2, <1>5, <2>10, <2>12, <2>13
<1>6. QED BY <1>4, <1>5

\* The last digit of canonical digits is what they leave modulo ten.
LEMMA CanonicalCoefficient ==
    ASSUME NEW s, CanonicalDigits(s), s # << 0 >>
    PROVE  Coefficient(s) \in Nat \ {0} /\ Coefficient(s) % 10 # 0 /\ s[1] # 0
<1>1. s \in Seq(Digit) /\ s # <<>> /\ s[1] # 0 /\ s[Len(s)] # 0
  BY DEF CanonicalDigits
<1>2. PICK n \in Nat : Len(s) = n + 1
  <2>1. Len(s) \in Nat \ {0}
    BY <1>1, EmptySeq
  <2>2. Len(s) - 1 \in Nat /\ Len(s) = (Len(s) - 1) + 1
    BY <2>1
  <2>3. QED BY <2>2
<1>3. PICK d, c : d = s[n + 1] /\ c = Coefficients(s)[n]
  OBVIOUS
<1>4. d \in 0..9 /\ d # 0 /\ c \in Nat
  BY <1>1, <1>2, <1>3, CoefficientsAre DEF Digit
<1>5. Coefficients(s)[n + 1] = 10 * c + d
  BY <1>3, <1>4, CoefficientsAre DEF Digit
<1>6. 10 * c + d \in Nat \ {0} /\ (10 * c + d) % 10 # 0
  BY <1>4
<1>7. QED BY <1>1, <1>2, <1>5, <1>6 DEF Coefficient

(***************************************************************************)
(* The number returned is the number written.  Up to the exponent mark the *)
(* digits gathered come to what the bytes read say; canonicalizing them    *)
(* moves the zeros into the exponent; and the magnitude is what the digits *)
(* read behind the mark say.  The mark lies within the first MaxExp + 1    *)
(* bytes, also of a text printed, so that counting zeros and fractional    *)
(* digits does not wrap.                                                   *)
(***************************************************************************)
Mark == FirstOf(text, E)
SignBytes(isNeg) == IF isNeg THEN 1 ELSE 0

NoPoint(t, p) == \A k \in 1..(p - 1) : t[k] # Dot
NoMark(t, p) == \A k \in 1..(p - 1) : t[k] # E
PointAt(t, p, f) == p - 1 - f >= 1 /\ t[p - 1 - f] = Dot /\ \A k \in 1..(p - 2 - f) : t[k] # Dot

\* buf and adjust are what the bytes before p say.
Says(p) ==
    \/ buf = <<0>> /\ Coefficients(text)[p - 1] = 0
    \/ /\ buf # <<0>> /\ adjust + fracLen \in 0..Len(text)
       /\ Coefficients(text)[p - 1] = Coefficient(buf) * Powers[adjust + fracLen]

Fits(v) == Len(v.digits) + SignBytes(v.neg) <= MaxExp

Begun ==
    /\ Mark <= MaxExp + 1
    /\ pc = "start" => neg = FALSE
    /\ pc \in {"int", "point", "frac", "canon", "mark", "exp", "scan"} => neg = At(text, 1, {Minus})

Placed ==
    /\ pc \in {"start", "int", "point"} => fracLen = 0 /\ NoPoint(text, pos)
    /\ pc = "frac" => PointAt(text, pos, fracLen)
    /\ pc \in {"canon", "mark"} => PointBefore(text, pos, fracLen)
    /\ pc \in {"start", "int", "point", "frac", "canon", "mark"} =>
            NoMark(text, pos) /\ Len(buf) + SignBytes(neg) < pos

Valued ==
    /\ pc \in {"start", "int", "point", "frac", "canon"} =>
            Coefficient(buf) = Coefficients(text)[pos - 1] /\ fracLen <= Len(buf)
    /\ pc = "mark" => Says(pos)

Marked ==
    /\ pc \in {"exp", "scan"} =>
            /\ Mark <= Len(text) /\ Mark < pos /\ PointBefore(text, Mark, fracLen)
            /\ Len(buf) + SignBytes(neg) < Mark /\ Says(Mark)
    /\ pc = "exp" =>
            /\ expNeg = At(text, Mark + 1, {Minus})
            /\ magnitude = Coefficients(Exponent(text))[pos - 1 - Mark]

Answered == pc = "done" => Exact /\ Fits(result)

Reading == Begun /\ Placed /\ Valued /\ Marked /\ Answered

LEMMA NextCoefficient ==
    ASSUME NEW s, NEW k \in Nat \ {0}
    PROVE  /\ Coefficients(s)[k] \in Nat /\ Coefficients(s)[k - 1] \in Nat
           /\ s[k] \in Digit => Coefficients(s)[k] = 10 * Coefficients(s)[k - 1] + s[k]
           /\ s[k] \notin Digit => Coefficients(s)[k] = Coefficients(s)[k - 1]
<1>1. PICK j \in Nat : j = k - 1 /\ j + 1 = k
  OBVIOUS
<1>2. QED BY <1>1, CoefficientsAre

LEMMA Bounds ==
    ASSUME DInv
    PROVE  /\ text \in Seq(Bytes) /\ Len(text) \in Nat /\ Len(raw) = Len(text) /\ pos \in 1..(Len(text) + 1)
           /\ buf \in Seq(Digit) /\ Len(buf) \in Nat /\ fracLen \in Nat /\ neg \in BOOLEAN
           /\ adjust \in Exponents /\ Mark \in 1..(Len(text) + 1)
           /\ \A q \in pos..Len(text) : raw[q] = text[q]
           /\ More <=> pos <= Len(text)
<1>1. text \in Seq(Bytes) /\ Mark \in 1..(Len(text) + 1)
  BY FirstOfIs DEF DInv, Memory, Mark
<1>2. QED BY <1>1 DEF DInv, Memory, Registers, UnreadIntact, More

LEMMA Marks == Dot \notin Digit /\ E \notin Digit /\ Minus \notin Digit /\ Plus \notin Digit
               /\ Minus # Dot /\ Minus # E /\ Dot # E /\ Plus # Minus
BY DEF Dot, E, Minus, Plus, Digit

LEMMA DigitSays ==
    ASSUME DInv, NEW q \in 1..Len(text), q >= pos, raw[q] \in Digit, Push(raw[q]),
           Coefficient(buf) = Coefficients(text)[q - 1]
    PROVE  /\ Coefficient(buf') = Coefficients(text)[q] /\ Len(buf') = Len(buf) + 1
           /\ text[q] \in Digit /\ text[q] # Dot /\ text[q] # E
<1>1. PICK d \in Digit : d = raw[q]
  OBVIOUS
<1>2. text[q] = d
  <2>1. q \in pos..Len(text)
    BY Bounds
  <2>2. QED BY <1>1, <2>1, Bounds
<1>3. buf' = Append(buf, d) /\ buf \in Seq(Digit)
  BY <1>1, Bounds DEF Push
<1>4. Coefficient(buf') = 10 * Coefficient(buf) + d /\ Len(buf') = Len(buf) + 1
  BY <1>3, AppendIs
<1>5. q \in Nat \ {0}
  BY Bounds
<1>6. Coefficients(text)[q] = 10 * Coefficients(text)[q - 1] + d
  BY <1>2, <1>5, NextCoefficient
<1>7. QED BY <1>2, <1>4, <1>6, Marks

LEMMA SignBytesAre == SignBytes(FALSE) = 1 - 1 /\ SignBytes(TRUE) = 2 - 1
BY DEF SignBytes

\* One more byte that is no mark, or no point.
LEMMA OneMore ==
    ASSUME NEW t, NEW p \in Nat \ {0}, NEW b
    PROVE  (\A k \in 1..(p - 1) : t[k] # b) /\ t[p] # b => \A k \in 1..((p + 1) - 1) : t[k] # b
OBVIOUS

LEMMA ParseStartSays == ASSUME DInv, Reading, ParseStart PROVE Reading'
<1>1. PICK p : p = IF Next1(Minus) THEN 2 ELSE 1
  OBVIOUS
<1>2. pc = "start" /\ pos = 1 /\ buf = <<>> /\ fracLen = 0 /\ Mark <= MaxExp + 1 /\ neg = FALSE
  BY DEF ParseStart, DInv, Gathered, Reading, Begun, Placed
<1>3. CASE Return("malformed")
  <2>1. pc' = "malformed" /\ UNCHANGED text
    BY <1>3 DEF Return, scanned
  <2>2. QED BY <1>2, <2>1 DEF Reading, Begun, Placed, Valued, Marked, Answered, Mark
<1>4. CASE /\ p <= Len(raw) /\ raw[p] \in Digit
           /\ neg' = (p = 2)
           /\ IF raw[p] = 0 THEN Push(0) /\ pos' = p + 1 /\ pc' = "point"
                            ELSE pos' = p /\ pc' = "int" /\ UNCHANGED <<raw, buf>>
           /\ UNCHANGED <<text, shared, fracLen, adjust, expNeg, magnitude, result, first>>
  <2>1. p \in {1, 2} /\ p \in 1..Len(text) /\ p >= pos
    BY <1>1, <1>2, <1>4, Bounds
  <2>2. raw[p] = text[p] /\ text[p] \in Digit /\ (p = 2 => text[1] = Minus) /\ (p = 1 => text[1] \in Digit)
    <3>1. p \in pos..Len(text) /\ 1 \in pos..Len(text)
      BY <1>2, <2>1, Bounds
    <3>2. raw[p] = text[p] /\ raw[1] = text[1]
      BY <3>1, Bounds
    <3>3. p = 2 => raw[1] = Minus
      BY <1>1, <1>2 DEF Next1
    <3>4. QED BY <1>4, <3>2, <3>3
  <2>3. NoPoint(text, p) /\ NoMark(text, p) /\ Coefficients(text)[p - 1] = 0
    <3>1. CASE p = 1
      BY <3>1, CoefficientsAre DEF NoPoint, NoMark
    <3>2. CASE p = 2
      <4>1. \A k \in 1..(p - 1) : k = 1
        BY <3>2
      <4>2. NoPoint(text, p) /\ NoMark(text, p)
        BY <2>2, <3>2, <4>1, Marks DEF NoPoint, NoMark
      <4>3. Coefficients(text)[1] = Coefficients(text)[1 - 1]
        BY <2>2, <3>2, Marks, NextCoefficient
      <4>4. QED BY <3>2, <4>2, <4>3, CoefficientsAre
    <3>3. QED BY <2>1, <3>1, <3>2
  <2>4. neg' = At(text', 1, {Minus}) /\ SignBytes(neg') = p - 1
    <3>1. CASE p = 1
      <4>0. ~(p = 2)
        BY <3>1
      <4>1. neg' = FALSE
        BY <1>4, <4>0, Zenon
      <4>2. At(text', 1, {Minus}) = FALSE
        BY <1>4, <2>2, <3>1, Marks DEF At
      <4>3. QED BY <3>1, <4>1, <4>2, SignBytesAre, Zenon
    <3>2. CASE p = 2
      <4>1. neg' = TRUE
        BY <1>4, <3>2
      <4>2. 1 <= Len(text) /\ text[1] \in {Minus} /\ text' = text
        BY <1>4, <2>1, <2>2, <3>2, Bounds
      <4>3. At(text', 1, {Minus}) = TRUE
        BY <4>2, Zenon DEF At
      <4>4. QED BY <3>2, <4>1, <4>3, SignBytesAre, Zenon
    <3>3. QED BY <2>1, <3>1, <3>2
  <2>5. Coefficient(buf) = 0 /\ Len(buf) = 0
    BY <1>2, EmptyIs
  <2>6. CASE raw[p] = 0
    <3>1. Push(raw[p]) /\ pos' = p + 1 /\ pc' = "point" /\ UNCHANGED <<text, fracLen>>
      BY <1>4, <2>6
    <3>2. /\ Coefficient(buf') = Coefficients(text)[p] /\ Len(buf') = 1
          /\ text[p] # Dot /\ text[p] # E
      BY <1>4, <2>1, <2>3, <2>5, <3>1, DigitSays
    <3>3. NoPoint(text, p + 1) /\ NoMark(text, p + 1)
      BY <2>1, <2>3, <3>2, OneMore DEF NoPoint, NoMark
    <3>4. Begun'
      BY <1>2, <2>4, <3>1 DEF Begun, Mark
    <3>5. Len(buf') + SignBytes(neg') < pos' /\ pos' - 1 = p
      BY <2>1, <2>4, <3>1, <3>2
    <3>6. Placed'
      BY <1>2, <3>1, <3>3, <3>5 DEF Placed
    <3>7. Valued'
      BY <1>2, <3>1, <3>2, <3>5 DEF Valued
    <3>8. Marked' /\ Answered'
      BY <3>1 DEF Marked, Answered
    <3>9. QED BY <3>4, <3>6, <3>7, <3>8 DEF Reading
  <2>7. CASE raw[p] # 0
    <3>1. pos' = p /\ pc' = "int" /\ UNCHANGED <<text, buf, fracLen>>
      BY <1>4, <2>7
    <3>2. Begun'
      BY <1>2, <2>4, <3>1 DEF Begun, Mark
    <3>3. Len(buf') + SignBytes(neg') < pos'
      BY <2>1, <2>4, <2>5, <3>1
    <3>4. Placed'
      BY <1>2, <2>3, <3>1, <3>3 DEF Placed
    <3>5. Valued'
      BY <1>2, <2>3, <2>5, <3>1 DEF Valued
    <3>6. Marked' /\ Answered'
      BY <3>1 DEF Marked, Answered
    <3>7. QED BY <3>2, <3>4, <3>5, <3>6 DEF Reading
  <2>8. QED BY <2>6, <2>7
<1>5. QED BY <1>1, <1>3, <1>4 DEF ParseStart

LEMMA IntDigitSays == ASSUME DInv, Reading, IntDigit PROVE Reading'
<1>1. /\ pc = "int" /\ AtDigit /\ Push(raw[pos]) /\ pos' = pos + 1
      /\ UNCHANGED <<text, pc, neg, fracLen>>
  BY DEF IntDigit
<1>2. pos \in 1..Len(text) /\ pos >= pos /\ raw[pos] \in Digit
  BY <1>1, Bounds DEF AtDigit
<1>3. /\ fracLen = 0 /\ NoPoint(text, pos) /\ NoMark(text, pos)
      /\ Len(buf) + SignBytes(neg) < pos /\ Coefficient(buf) = Coefficients(text)[pos - 1]
  BY <1>1 DEF Reading, Placed, Valued
<1>4. /\ Coefficient(buf') = Coefficients(text)[pos] /\ Len(buf') = Len(buf) + 1
      /\ text[pos] # Dot /\ text[pos] # E
  BY <1>1, <1>2, <1>3, DigitSays
<1>5. NoPoint(text, pos + 1) /\ NoMark(text, pos + 1)
  BY <1>2, <1>3, <1>4, OneMore DEF NoPoint, NoMark
<1>6. Len(buf') + SignBytes(neg') < pos' /\ pos' - 1 = pos /\ 0 <= Len(buf')
  <2>1. SignBytes(neg) \in Int /\ Len(buf) \in Nat
    BY Bounds DEF SignBytes
  <2>2. QED BY <1>1, <1>2, <1>3, <1>4, <2>1
<1>7. Begun'
  BY <1>1 DEF Reading, Begun, Mark
<1>8. Placed'
  BY <1>1, <1>3, <1>5, <1>6 DEF Placed
<1>9. Valued'
  BY <1>1, <1>3, <1>4, <1>6 DEF Valued
<1>10. Marked' /\ Answered'
  BY <1>1 DEF Marked, Answered
<1>11. QED BY <1>7, <1>8, <1>9, <1>10 DEF Reading

LEMMA FracDigitSays == ASSUME DInv, Reading, FracDigit PROVE Reading'
<1>1. /\ pc = "frac" /\ AtDigit /\ Push(raw[pos]) /\ pos' = pos + 1 /\ fracLen' = fracLen + 1
      /\ UNCHANGED <<text, pc, neg>>
  BY DEF FracDigit
<1>2. pos \in 1..Len(text) /\ pos >= pos /\ raw[pos] \in Digit /\ fracLen \in Nat
  BY <1>1, Bounds DEF AtDigit
<1>3. /\ PointAt(text, pos, fracLen) /\ NoMark(text, pos) /\ fracLen <= Len(buf)
      /\ Len(buf) + SignBytes(neg) < pos /\ Coefficient(buf) = Coefficients(text)[pos - 1]
  BY <1>1 DEF Reading, Placed, Valued
<1>4. /\ Coefficient(buf') = Coefficients(text)[pos] /\ Len(buf') = Len(buf) + 1
      /\ text[pos] # Dot /\ text[pos] # E
  BY <1>1, <1>2, <1>3, DigitSays
<1>5. PointAt(text, pos + 1, fracLen + 1) /\ NoMark(text, pos + 1)
  <2>1. (pos + 1) - 1 - (fracLen + 1) = pos - 1 - fracLen /\ (pos + 1) - 2 - (fracLen + 1) = pos - 2 - fracLen
    BY <1>2
  <2>2. PointAt(text, pos + 1, fracLen + 1)
    BY <1>3, <2>1 DEF PointAt
  <2>3. NoMark(text, pos + 1)
    BY <1>2, <1>3, <1>4, OneMore DEF NoMark
  <2>4. QED BY <2>2, <2>3
<1>6. Len(buf') + SignBytes(neg') < pos' /\ pos' - 1 = pos /\ fracLen' <= Len(buf')
  <2>1. SignBytes(neg) \in Int /\ Len(buf) \in Nat
    BY Bounds DEF SignBytes
  <2>2. QED BY <1>1, <1>2, <1>3, <1>4, <2>1
<1>7. Begun'
  BY <1>1 DEF Reading, Begun, Mark
<1>8. Placed'
  BY <1>1, <1>5, <1>6 DEF Placed
<1>9. Valued'
  BY <1>1, <1>4, <1>6 DEF Valued
<1>10. Marked' /\ Answered'
  BY <1>1 DEF Marked, Answered
<1>11. QED BY <1>7, <1>8, <1>9, <1>10 DEF Reading

LEMMA EndsSay == ASSUME DInv, Reading, IntEnd \/ FracEnd PROVE Reading'
<1>1. PICK how \in {"point", "malformed", "canon"} :
          /\ Return(how) /\ pc \in {"int", "frac"}
          /\ how = "point" => pc = "int"
          /\ how = "canon" => pc = "frac"
  BY DEF IntEnd, FracEnd
<1>2. pc' = how /\ UNCHANGED <<text, buf, pos, neg, fracLen>>
  BY <1>1 DEF Return, scanned
<1>3. Begun'
  BY <1>1, <1>2 DEF Reading, Begun, Mark
<1>4. Placed'
  BY <1>1, <1>2 DEF Reading, Placed, PointAt, PointBefore
<1>5. Valued' /\ Marked' /\ Answered'
  BY <1>1, <1>2 DEF Reading, Valued, Marked, Answered
<1>6. QED BY <1>3, <1>4, <1>5 DEF Reading

LEMMA PointSays == ASSUME DInv, Reading, Point PROVE Reading'
<1>1. /\ pc = "point" /\ UNCHANGED <<text, buf, neg, fracLen>>
      /\ \/ pos' = pos + 1 /\ pc' = "frac" /\ Next1(Dot)
         \/ pos' = pos /\ pc' = "canon"
  BY DEF Point
<1>2. /\ fracLen = 0 /\ NoPoint(text, pos) /\ NoMark(text, pos) /\ Len(buf) + SignBytes(neg) < pos
      /\ Coefficient(buf) = Coefficients(text)[pos - 1] /\ fracLen <= Len(buf)
  BY <1>1 DEF Reading, Placed, Valued
<1>3. Begun'
  BY <1>1 DEF Reading, Begun, Mark
<1>4. Marked' /\ Answered'
  BY <1>1 DEF Marked, Answered
<1>5. CASE pos' = pos + 1 /\ pc' = "frac" /\ Next1(Dot)
  <2>1. pos \in 1..Len(text) /\ text[pos] = Dot
    <3>1. pos \in pos..Len(text) /\ pos \in 1..Len(text) /\ raw[pos] = Dot
      BY <1>5, Bounds DEF Next1
    <3>2. QED BY <3>1, Bounds
  <2>2. PointAt(text, pos + 1, 0)
    <3>1. (pos + 1) - 1 - 0 = pos /\ (pos + 1) - 2 - 0 = pos - 1
      BY <2>1
    <3>2. QED BY <1>2, <2>1, <3>1 DEF PointAt, NoPoint
  <2>3. NoMark(text, pos + 1)
    BY <1>2, <2>1, OneMore, Marks DEF NoMark
  <2>4. Coefficients(text)[pos] = Coefficients(text)[pos - 1]
    BY <2>1, NextCoefficient, Marks
  <2>5. Len(buf) + SignBytes(neg) < pos + 1 /\ (pos + 1) - 1 = pos
    <3>1. SignBytes(neg) \in Int /\ Len(buf) \in Nat
      BY Bounds DEF SignBytes
    <3>2. QED BY <1>2, <2>1, <3>1
  <2>6. Placed'
    BY <1>1, <1>2, <1>5, <2>2, <2>3, <2>5 DEF Placed
  <2>7. Valued'
    BY <1>1, <1>2, <1>5, <2>4, <2>5 DEF Valued
  <2>8. QED BY <1>3, <1>4, <2>6, <2>7 DEF Reading
<1>6. CASE pos' = pos /\ pc' = "canon"
  <2>1. PointBefore(text, pos, 0)
    BY <1>2 DEF PointBefore, NoPoint
  <2>2. Placed'
    BY <1>1, <1>2, <1>6, <2>1 DEF Placed
  <2>3. Valued'
    BY <1>1, <1>2, <1>6 DEF Valued
  <2>4. QED BY <1>3, <1>4, <2>2, <2>3 DEF Reading
<1>7. QED BY <1>1, <1>5, <1>6

LEMMA MarkBehind == ASSUME DInv, NoMark(text, pos) PROVE pos <= Mark
<1> SUFFICES ASSUME ~(pos <= Mark) PROVE FALSE
  OBVIOUS
<1>1. Mark \in 1..(pos - 1) /\ Mark <= Len(text)
  BY Bounds
<1>2. text[Mark] = E
  BY <1>1, Bounds, FirstOfIs DEF Mark
<1>3. QED BY <1>1, <1>2 DEF NoMark

LEMMA CanonicalizeSays == ASSUME DInv, Reading, Canonicalize PROVE Reading'
<1>1. PICK t, d : Cut(Moved, t, d)
  BY DEF Cut
<1>2. /\ pc = "canon" /\ pc' = "mark" /\ buf # <<>> /\ buf \in Seq(Digit)
      /\ UNCHANGED <<text, pos, neg, fracLen>>
  BY DEF Canonicalize, DInv, Gathered, Memory
<1>3. buf' = d /\ adjust' = IF AllZeroes THEN 0 ELSE Adjust(t)
  <2>1. /\ buf' = SubSeq(Moved, 1, Len(Moved) - Most(TrailingZeros(Moved)))
        /\ adjust' = IF AllZeroes THEN 0 ELSE Adjust(Most(TrailingZeros(Moved)))
    BY Zenon DEF Canonicalize, Moved
  <2>2. QED BY <1>1, <2>1 DEF Cut
<1>4. /\ AllZeroes => d = <<0>> /\ Coefficient(buf) = 0
      /\ ~AllZeroes => /\ d # <<0>> /\ t \in 0..(Len(buf) - 1)
                       /\ Coefficient(buf) = Coefficient(d) * Powers[t]
  BY <1>1, <1>2, StrippedIs
<1>5. d \in Seq(Digit) /\ Len(d) <= Len(buf)
  <2>1. CanonicalDigits(d) /\ Len(d) <= Len(buf)
    BY <1>1, <1>2, Canonicalized DEF Cut
  <2>2. QED BY <2>1 DEF CanonicalDigits
<1>6. /\ PointBefore(text, pos, fracLen) /\ NoMark(text, pos) /\ Len(buf) + SignBytes(neg) < pos
      /\ Coefficient(buf) = Coefficients(text)[pos - 1] /\ fracLen <= Len(buf)
      /\ Mark <= MaxExp + 1
  BY <1>2 DEF Reading, Begun, Placed, Valued
<1>7. PICK l, f, s : l = Len(buf) /\ f = fracLen /\ s = SignBytes(neg)
  OBVIOUS
<1>8. l \in Nat /\ f \in Nat /\ s \in Nat /\ l <= MaxExp /\ f <= l /\ l <= Len(text)
  <2>1. l \in Nat /\ f \in Nat /\ s \in Nat
    BY <1>7, Bounds DEF SignBytes
  <2>2. pos <= Mark
    BY <1>6, MarkBehind
  <2>3. l + s < pos
    BY <1>6, <1>7
  <2>4. l <= MaxExp /\ l <= Len(text)
    <3>1. PICK p, m, n : p = pos /\ m = Mark /\ n = Len(text)
      OBVIOUS
    <3>2. p \in Int /\ m \in Int /\ n \in Nat /\ m <= n + 1 /\ MaxExp \in Nat
      BY <3>1, Bounds, Machine
    <3>3. l + s < p /\ p <= m /\ m <= MaxExp + 1
      BY <1>6, <2>2, <2>3, <3>1
    <3>4. l <= MaxExp /\ l <= n
      BY <2>1, <3>2, <3>3
    <3>5. QED BY <3>1, <3>4
  <2>5. QED BY <1>6, <1>7, <2>1, <2>4
<1>9. Says(pos)'
  <2>1. CASE AllZeroes
    BY <1>2, <1>3, <1>4, <1>6, <2>1 DEF Says
  <2>2. CASE ~AllZeroes
    <3>1. t \in 0..(l - 1)
      BY <1>4, <1>7, <2>2
    <3>2. t - f \in Exponents /\ t - f \in Int
      BY <1>8, <3>1, Machine DEF Exponents
    <3>3. adjust' = t - f
      BY <1>3, <1>7, <2>2, <3>2, Machine DEF Adjust
    <3>4. adjust' + fracLen' = t /\ t \in 0..Len(text)
      BY <1>2, <1>7, <1>8, <3>1, <3>3, Bounds
    <3>5. QED BY <1>2, <1>3, <1>4, <1>6, <2>2, <3>4 DEF Says
  <2>3. QED BY <2>1, <2>2
<1>10. Begun'
  BY <1>2 DEF Reading, Begun, Mark
<1>11. Placed'
  <2>1. Len(buf') + SignBytes(neg') < pos'
    <3>1. Len(d) \in Nat
      BY <1>5
    <3>2. Len(d) + s < pos
      BY <1>5, <1>6, <1>7, <1>8, <3>1, Bounds
    <3>3. QED BY <1>2, <1>3, <1>7, <3>2
  <2>2. QED BY <1>2, <1>6, <2>1 DEF Placed
<1>12. Valued' /\ Marked' /\ Answered'
  BY <1>2, <1>9 DEF Valued, Marked, Answered
<1>13. QED BY <1>10, <1>11, <1>12 DEF Reading

LEMMA TimesOne == \A z \in Nat : (-1) * z = -z /\ 1 * z = z /\ (z = 0 => -z = 0)
OBVIOUS

\* The written exponent, with its sign read off the text.
LEMMA WrittenExponentIs ==
    ASSUME NEW t \in Seq(Bytes), NEW c, c = Coefficient(Exponent(t)), NEW f, f = FirstOf(t, E)
    PROVE  /\ c \in Nat
           /\ ~(f + 1 <= Len(t)) => c = 0
           /\ WrittenExponent(t) = (IF At(t, f + 1, {Minus}) THEN -c ELSE c) - Fraction(t)
<1>1. PICK x, n : x = Exponent(t) /\ n = Len(x)
  OBVIOUS
<1>2. x \in Seq(Bytes) /\ n \in Nat
  BY <1>1, ExponentIs
<1>3. f \in 1..(Len(t) + 1) /\ Len(t) \in Nat
  BY FirstOfIs
<1>4. n = (IF f <= Len(t) THEN Len(t) - f ELSE 0) /\ \A k \in 1..(Len(t) - f) : x[k] = t[f + k]
  BY <1>1, ExponentIs
<1>5. c = Coefficients(x)[n] /\ c \in Nat
  BY <1>1, <1>2, CoefficientsAre DEF Coefficient
<1>6. WrittenExponent(t) = (IF FirstOf(x, Minus) = 1 THEN -1 ELSE 1) * c - Fraction(t)
  BY <1>1 DEF WrittenExponent, Fraction
<1>7. CASE ~(f + 1 <= Len(t))
  <2>1. n = 0
    BY <1>3, <1>4, <1>7
  <2>2. c = 0
    BY <1>5, <2>1, CoefficientsAre
  <2>3. (IF FirstOf(x, Minus) = 1 THEN -1 ELSE 1) * c = 0 /\ (IF At(t, f + 1, {Minus}) THEN -c ELSE c) = 0
    BY <1>5, <2>2, TimesOne, Zenon
  <2>4. QED BY <1>5, <1>6, <2>2, <2>3
<1>8. CASE f + 1 <= Len(t)
  <2>1. n >= 1 /\ x[1] = t[f + 1]
    BY <1>3, <1>4, <1>8
  <2>2. FirstOf(x, Minus) = 1 <=> x[1] = Minus
    <3>1. x[1] = Minus => FirstOf(x, Minus) = 1
      <4>1. 1 \in 1..(Len(x) + 1) /\ \A k \in 1..(1 - 1) : x[k] # Minus
        BY <1>1, <1>2
      <4>2. QED BY <1>2, <4>1, FirstOfOnly
    <3>2. FirstOf(x, Minus) = 1 => x[1] = Minus
      <4>1. 1 <= Len(x)
        BY <1>1, <1>2, <2>1
      <4>2. QED BY <1>2, <4>1, FirstOfIs
    <3>3. QED BY <3>1, <3>2
  <2>3. At(t, f + 1, {Minus}) <=> x[1] = Minus
    BY <1>8, <2>1 DEF At
  <2>4. (-1) * c = -c /\ 1 * c = c
    BY <1>5
  <2>5. (IF FirstOf(x, Minus) = 1 THEN -1 ELSE 1) * c = (IF At(t, f + 1, {Minus}) THEN -c ELSE c)
    BY <2>2, <2>3, <2>4
  <2>6. QED BY <1>5, <1>6, <1>8, <2>5
<1>9. QED BY <1>7, <1>8

\* Returning from all that was written.
LEMMA DoneSays ==
    ASSUME DInv, NEW exp, Done(exp), CanonicalDigits(buf),
           Mark <= MaxExp + 1, neg = At(text, 1, {Minus}), PointBefore(text, Mark, fracLen),
           Len(buf) + SignBytes(neg) < Mark, Says(Mark),
           buf # << 0 >> => exp = adjust + fracLen + WrittenExponent(text)
    PROVE  Reading'
<1>1. /\ pc' = "done" /\ result' = IF buf = <<0>> THEN Zero ELSE Num(neg, buf, exp)
      /\ UNCHANGED <<text, buf, pos, neg, fracLen, adjust>>
  BY DEF Done, scanned
<1>2. WrittenCoefficient(text) = Coefficients(text)[Mark - 1]
  BY Bounds, MantissaIs DEF Mark
<1>3. WrittenExponent(text) \in Int
  <2>1. PICK c, f, w : c = Coefficient(Exponent(text)) /\ f = FirstOf(text, E) /\ w = Fraction(text)
    OBVIOUS
  <2>2. w = fracLen /\ w \in Int
    BY <2>1, FractionIs, Bounds DEF Mark
  <2>3. c \in Nat /\ WrittenExponent(text) = (IF At(text, f + 1, {Minus}) THEN -c ELSE c) - w
    BY <2>1, WrittenExponentIs, Bounds
  <2>4. QED BY <2>2, <2>3
<1>4. Exact'
  <2>1. CASE buf = <<0>>
    <3>1. Coefficients(text)[Mark - 1] = 0 /\ result' = Zero
      BY <1>1, <2>1 DEF Says
    <3>2. QED BY <1>1, <1>2, <3>1 DEF Exact
  <2>2. CASE buf # <<0>>
    <3>1. PICK e, z : e = WrittenExponent(text) /\ z = adjust + fracLen
      OBVIOUS
    <3>2. z \in 0..Len(text) /\ Coefficients(text)[Mark - 1] = Coefficient(buf) * Powers[z]
      BY <2>2, <3>1 DEF Says
    <3>3. exp = z + e /\ e \in Int /\ z \in Nat /\ exp \in e..(e + Len(text)) /\ exp - e = z
      <4>1. exp = z + e /\ e \in Int
        BY <1>3, <2>2, <3>1
      <4>2. Len(text) \in Nat
        BY Bounds
      <4>3. QED BY <3>2, <4>1, <4>2
    <3>4. Coefficient(buf) \in Nat \ {0} /\ Coefficient(buf) % 10 # 0 /\ buf[1] # 0
      BY <2>2, CanonicalCoefficient
    <3>5. Coefficients(text)[Mark - 1] # 0
      <4>1. PICK c, p : c = Coefficient(buf) /\ p = Powers[z]
        OBVIOUS
      <4>2. c \in Nat /\ c >= 1 /\ p \in Nat /\ p >= 1
        <5>1. c \in Nat \ {0}
          BY <3>4, <4>1, Zenon
        <5>2. p \in Nat /\ p >= 1
          BY <3>3, <4>1, PowersAre
        <5>3. QED BY <5>1, <5>2
      <4>3. c * p # 0
        BY <4>2
      <4>4. QED BY <3>2, <4>1, <4>3
    <3>6. result'.neg = neg /\ result'.digits = buf /\ result'.exp = exp
      BY <1>1, <2>2 DEF Num
    <3>7. QED BY <1>1, <1>2, <3>1, <3>2, <3>3, <3>4, <3>5, <3>6 DEF Exact
  <2>3. QED BY <2>1, <2>2
<1>5. Fits(result')
  <2>1. CASE buf = <<0>>
    <3>1. result'.neg = FALSE /\ result'.digits = <<0>>
      BY <1>1, <2>1 DEF Zero, Num
    <3>2. SignBytes(FALSE) = 0 /\ Len(<<0>>) = 1 /\ MaxExp >= 1 /\ MaxExp \in Nat
      BY DecimalAssumption DEF SignBytes
    <3>3. 1 + 0 <= MaxExp
      BY <3>2
    <3>4. QED BY <3>1, <3>2, <3>3, Zenon DEF Fits
  <2>2. CASE buf # <<0>>
    <3>1. result'.neg = neg /\ result'.digits = buf
      BY <1>1, <2>2 DEF Num
    <3>2. Len(buf) \in Nat /\ SignBytes(neg) \in Nat /\ Mark \in Int /\ MaxExp \in Nat
      BY Bounds, Machine DEF SignBytes
    <3>3. Len(buf) + SignBytes(neg) <= MaxExp
      BY <3>2
    <3>4. QED BY <3>1, <3>3 DEF Fits
  <2>3. QED BY <2>1, <2>2
<1>6. Begun'
  BY <1>1 DEF Begun, Mark
<1>7. Placed' /\ Valued' /\ Marked'
  BY <1>1 DEF Placed, Valued, Marked
<1>8. Answered'
  BY <1>4, <1>5 DEF Answered
<1>9. QED BY <1>6, <1>7, <1>8 DEF Reading

\* The bytes behind the mark.
LEMMA BehindMark ==
    ASSUME DInv, Mark <= Len(text), NEW k \in Nat \ {0}, Mark + k <= Len(text)
    PROVE  Exponent(text)[k] = text[Mark + k]
<1>1. PICK f, n : f = Mark /\ n = Len(text)
  OBVIOUS
<1>2. f \in Nat /\ n \in Nat /\ k \in 1..(n - f)
  BY <1>1, Bounds
<1>3. \A j \in 1..(Len(text) - f) : Exponent(text)[j] = text[f + j]
  BY <1>1, Bounds, ExponentIs DEF Mark
<1>4. QED BY <1>1, <1>2, <1>3

LEMMA ExpMarkSays == ASSUME DInv, Reading, ExpMark PROVE Reading'
<1> DEFINE signed == pos + 1 <= Len(raw) /\ raw[pos + 1] \in {Minus, Plus}
           p == IF signed THEN pos + 2 ELSE pos + 1
           Noted == /\ pos' = p /\ pc' = IF buf = <<0>> THEN "scan" ELSE "exp"
                    /\ expNeg' = (signed /\ raw[pos + 1] = Minus)
                    /\ UNCHANGED <<text, raw, shared, buf, neg, fracLen, adjust, magnitude, result, first>>
           Missing == p > Len(raw) \/ raw[p] \notin Digit
<1>1. (CASE ~More                -> Done(adjust)
         [] More /\ raw[pos] # E -> Return("malformed")
         [] Next1(E) /\ Missing  -> Return("missing")
         [] OTHER                -> Noted)
  BY Zenon DEF ExpMark
<1>2. /\ pc = "mark" /\ CanonicalDigits(buf) /\ magnitude = 0
      /\ PointBefore(text, pos, fracLen) /\ NoMark(text, pos)
      /\ Len(buf) + SignBytes(neg) < pos /\ Says(pos)
      /\ Mark <= MaxExp + 1 /\ neg = At(text, 1, {Minus})
  BY DEF ExpMark, DInv, Gathered, Registers, Reading, Begun, Placed, Valued
<1>3. (~More /\ Done(adjust)) \/ Return("malformed") \/ Return("missing") \/ (Next1(E) /\ Noted)
  <2> HIDE DEF Noted, Missing, p
  <2>1. CASE ~More
    BY <1>1, <2>1
  <2>2. CASE More /\ raw[pos] # E
    BY <1>1, <2>2
  <2>3. CASE Next1(E)
    BY <1>1, <2>3 DEF Next1
  <2>4. QED BY <2>1, <2>2, <2>3 DEF Next1
<1>4. \A k \in 1..(pos - 1) : text[k] # E
  BY <1>2 DEF NoMark
<1>5. CASE ~More /\ Done(adjust)
  <2>1. pos = Len(text) + 1 /\ Mark = pos
    <3>1. pos = Len(text) + 1 /\ ~(pos <= Len(text)) /\ pos \in 1..(Len(text) + 1) /\ text \in Seq(Bytes)
      BY <1>5, Bounds
    <3>2. FirstOf(text, E) = pos
      BY <1>4, <3>1, FirstOfOnly
    <3>3. QED BY <3>1, <3>2 DEF Mark
  <2>2. PICK c, f, w, a : c = Coefficient(Exponent(text)) /\ f = FirstOf(text, E) /\ w = Fraction(text) /\ a = adjust
    OBVIOUS
  <2>3. w = fracLen /\ w \in Int /\ f = pos
    BY <1>2, <2>1, <2>2, FractionIs, Bounds DEF Mark
  <2>4. ~(f + 1 <= Len(text)) /\ a \in Int
    BY <2>1, <2>2, <2>3, Bounds, Machine DEF Exponents
  <2>5. c = 0 /\ WrittenExponent(text) = (IF At(text, f + 1, {Minus}) THEN -c ELSE c) - w
    BY <2>2, <2>4, WrittenExponentIs, Bounds
  <2>6. WrittenExponent(text) = 0 - w
    BY <2>5
  <2>7. a = a + w + (0 - w)
    BY <2>3, <2>4
  <2>8. adjust = adjust + fracLen + WrittenExponent(text)
    BY <2>2, <2>3, <2>6, <2>7
  <2>9. QED BY <1>2, <1>5, <2>1, <2>8, DoneSays
<1>6. CASE Return("malformed") \/ Return("missing")
  <2>1. PICK how \in {"malformed", "missing"} : Return(how)
    BY <1>6
  <2>2. pc' = how /\ UNCHANGED text
    BY <2>1 DEF Return, scanned
  <2>3. QED BY <1>2, <2>2 DEF Reading, Begun, Placed, Valued, Marked, Answered, Mark
<1>7. CASE Next1(E) /\ Noted
  <2>1. pos \in 1..Len(text) /\ Mark = pos
    <3>1. pos \in 1..Len(text) /\ pos \in pos..Len(text) /\ raw[pos] = E
      BY <1>7, Bounds DEF Next1
    <3>2. text[pos] = E
      BY <3>1, Bounds
    <3>3. pos \in 1..(Len(text) + 1) /\ text \in Seq(Bytes)
      BY Bounds
    <3>4. FirstOf(text, E) = pos
      BY <1>4, <3>2, <3>3, FirstOfOnly
    <3>5. QED BY <3>1, <3>4 DEF Mark
  <2>2. pos + 1 <= Len(text) => raw[pos + 1] = text[pos + 1]
    <3>1. pos + 1 <= Len(text) => pos + 1 \in pos..Len(text)
      BY <2>1
    <3>2. QED BY <3>1, Bounds
  <2>3. /\ pos' = p /\ pc' \in {"scan", "exp"} /\ magnitude' = 0
        /\ expNeg' = (signed /\ raw[pos + 1] = Minus)
        /\ UNCHANGED <<text, buf, neg, fracLen, adjust>>
    BY <1>2, <1>7
  <2>4. expNeg' = At(text, pos + 1, {Minus})
    <3>1. Len(raw) = Len(text)
      BY Bounds
    <3>2. (signed /\ raw[pos + 1] = Minus) <=> At(text, pos + 1, {Minus})
      BY <2>2, <3>1 DEF At
    <3>3. At(text, pos + 1, {Minus}) \in BOOLEAN /\ (signed /\ raw[pos + 1] = Minus) \in BOOLEAN
      BY Zenon DEF At
    <3>4. QED BY <2>3, <3>2, <3>3, Zenon
  <2>5. Coefficients(Exponent(text))[pos' - 1 - pos] = 0
    <3>1. CASE ~signed
      <4>1. pos' - 1 - pos = 0
        BY <2>1, <2>3, <3>1
      <4>2. QED BY <4>1, CoefficientsAre
    <3>2. CASE signed
      <4>1. pos' - 1 - pos = 1
        BY <2>1, <2>3, <3>2
      <4>2. pos + 1 <= Len(text) /\ text[pos + 1] \in {Minus, Plus}
        BY <2>2, <3>2, Bounds
      <4>3. Exponent(text)[1] = text[pos + 1]
        BY <2>1, <4>2, BehindMark
      <4>4. Exponent(text)[1] \notin Digit
        BY <4>2, <4>3, Marks
      <4>5. Coefficients(Exponent(text))[1] = Coefficients(Exponent(text))[1 - 1]
        BY <4>4, NextCoefficient
      <4>6. QED BY <4>1, <4>5, CoefficientsAre
    <3>3. QED BY <3>1, <3>2
  <2>6. Mark <= Len(text) /\ Mark < pos'
    BY <2>1, <2>3
  <2>7. Begun'
    BY <1>2, <2>3 DEF Begun, Mark
  <2>8. Marked'
    <3>1. Mark' = Mark /\ (Says(Mark))' /\ Len(buf') + SignBytes(neg') < Mark'
      BY <1>2, <2>1, <2>3 DEF Mark, Says
    <3>2. expNeg' = At(text', Mark' + 1, {Minus}) /\ magnitude' = Coefficients(Exponent(text'))[pos' - 1 - Mark']
      BY <2>1, <2>3, <2>4, <2>5, <3>1
    <3>3. PointBefore(text', Mark', fracLen') /\ Mark' <= Len(text') /\ Mark' < pos'
      BY <1>2, <2>1, <2>3, <2>6, <3>1
    <3>4. QED BY <3>1, <3>2, <3>3 DEF Marked
  <2>9. Placed' /\ Valued' /\ Answered'
    BY <2>3 DEF Placed, Valued, Answered
  <2>10. QED BY <2>7, <2>8, <2>9 DEF Reading
<1>8. QED BY <1>3, <1>5, <1>6, <1>7

LEMMA ExpDigitSays == ASSUME DInv, Reading, ExpDigit PROVE Reading'
<1>1. pc = "exp" /\ AtDigit
  BY DEF ExpDigit
<1>2. /\ Mark <= Len(text) /\ Mark < pos /\ PointBefore(text, Mark, fracLen)
      /\ Len(buf) + SignBytes(neg) < Mark /\ Says(Mark)
      /\ expNeg = At(text, Mark + 1, {Minus})
      /\ magnitude = Coefficients(Exponent(text))[pos - 1 - Mark]
      /\ Mark <= MaxExp + 1 /\ neg = At(text, 1, {Minus})
  BY <1>1 DEF Reading, Begun, Marked
<1>3. CASE Return("overflow")
  <2>1. pc' = "overflow" /\ UNCHANGED text
    BY <1>3 DEF Return, scanned
  <2>2. QED BY <1>2, <2>1 DEF Begun, Reading, Placed, Valued, Marked, Answered, Mark
<1>4. CASE /\ magnitude' = magnitude * 10 + raw[pos] /\ pos' = pos + 1
           /\ UNCHANGED <<text, raw, shared, buf, pc, neg, fracLen, adjust, expNeg, result, first>>
  <2>1. PICK k \in Nat \ {0} : k = pos - Mark
    BY <1>2, Bounds
  <2>2. pos - 1 - Mark = k - 1 /\ (pos + 1) - 1 - Mark = k /\ Mark + k = pos /\ pos <= Len(text)
    BY <1>1, <2>1, Bounds DEF AtDigit
  <2>3. raw[pos] = text[pos] /\ text[pos] = Exponent(text)[k]
    <3>1. pos \in pos..Len(text)
      BY <2>2, Bounds
    <3>2. QED BY <1>2, <2>2, <3>1, Bounds, BehindMark
  <2>4. Exponent(text)[k] \in Digit
    BY <1>1, <2>3 DEF AtDigit
  <2>5. /\ Coefficients(Exponent(text))[k] = 10 * Coefficients(Exponent(text))[k - 1] + Exponent(text)[k]
        /\ Coefficients(Exponent(text))[k - 1] \in Nat
    BY <2>4, NextCoefficient
  <2>6. magnitude' = Coefficients(Exponent(text))[k]
    <3>1. PICK m, d : m = magnitude /\ d = raw[pos]
      OBVIOUS
    <3>2. m \in Nat /\ m = Coefficients(Exponent(text))[k - 1] /\ d = Exponent(text)[k]
      BY <1>2, <2>2, <2>3, <2>5, <3>1
    <3>3. \A u \in Nat : u * 10 = 10 * u
      OBVIOUS
    <3>4. magnitude' = 10 * m + d
      BY <1>4, <3>1, <3>2, <3>3
    <3>5. QED BY <2>5, <3>2, <3>4
  <2>7. Mark' = Mark /\ (Says(Mark))'
    BY <1>2, <1>4 DEF Mark, Says
  <2>8. Begun'
    BY <1>1, <1>2, <1>4, <2>7 DEF Begun
  <2>9. Mark < pos'
    BY <1>2, <1>4, Bounds
  <2>10. /\ expNeg' = At(text', Mark' + 1, {Minus})
         /\ magnitude' = Coefficients(Exponent(text'))[pos' - 1 - Mark']
    BY <1>2, <1>4, <2>2, <2>6, <2>7
  <2>11. /\ Mark' <= Len(text') /\ Mark' < pos' /\ PointBefore(text', Mark', fracLen')
         /\ Len(buf') + SignBytes(neg') < Mark'
    BY <1>2, <1>4, <2>7, <2>9
  <2>12. Marked'
    BY <2>7, <2>10, <2>11 DEF Marked
  <2>13. Placed' /\ Valued' /\ Answered'
    BY <1>1, <1>4 DEF Placed, Valued, Answered
  <2>14. QED BY <2>8, <2>12, <2>13 DEF Reading
<1>5. PICK read : read = magnitude * 10 + raw[pos]
  OBVIOUS
<1>6. QED BY <1>3, <1>4, <1>5, ExpDigitIs

LEMMA ScanDigitSays == ASSUME DInv, Reading, ScanDigit PROVE Reading'
<1>1. /\ pc = "scan" /\ AtDigit /\ pos' = pos + 1
      /\ UNCHANGED <<text, raw, shared, buf, pc, neg, fracLen, adjust, expNeg, magnitude, result, first>>
  BY DEF ScanDigit
<1>2. /\ Mark <= Len(text) /\ Mark < pos /\ PointBefore(text, Mark, fracLen)
      /\ Len(buf) + SignBytes(neg) < Mark /\ Says(Mark)
      /\ Mark <= MaxExp + 1 /\ neg = At(text, 1, {Minus})
  BY <1>1 DEF Reading, Begun, Marked
<1>3. Mark' = Mark /\ (Says(Mark))'
  BY <1>1, <1>2 DEF Mark, Says
<1>4. Mark < pos'
  BY <1>1, <1>2, Bounds
<1>5. Begun'
  BY <1>1, <1>2, <1>3 DEF Begun
<1>6. Marked'
  BY <1>1, <1>2, <1>3, <1>4 DEF Marked
<1>7. Placed' /\ Valued' /\ Answered'
  BY <1>1 DEF Placed, Valued, Answered
<1>8. QED BY <1>5, <1>6, <1>7 DEF Reading

LEMMA ParseEndSays == ASSUME DInv, Reading, ParseEnd PROVE Reading'
<1>1. pc \in {"exp", "scan"} /\ ~AtDigit
  BY DEF ParseEnd
<1>2. /\ Mark <= Len(text) /\ Mark < pos /\ PointBefore(text, Mark, fracLen)
      /\ Len(buf) + SignBytes(neg) < Mark /\ Says(Mark)
      /\ Mark <= MaxExp + 1 /\ neg = At(text, 1, {Minus})
      /\ CanonicalDigits(buf)
  BY <1>1 DEF Reading, Begun, Marked, DInv, Gathered
<1>3. CASE More /\ Return("malformed")
  <2>1. pc' = "malformed" /\ UNCHANGED text
    BY <1>3 DEF Return, scanned
  <2>2. QED BY <1>2, <2>1 DEF Reading, Begun, Placed, Valued, Marked, Answered, Mark
<1>4. CASE ~More /\ Done(ApplyExp(adjust, expNeg, magnitude))
  <2>1. ASSUME buf # << 0 >>
        PROVE  ApplyExp(adjust, expNeg, magnitude) = adjust + fracLen + WrittenExponent(text)
    <3>1. pc = "exp"
      BY <1>1, <2>1 DEF DInv, Gathered
    <3>2. /\ expNeg = At(text, Mark + 1, {Minus})
          /\ magnitude = Coefficients(Exponent(text))[pos - 1 - Mark]
      BY <3>1 DEF Reading, Marked
    <3>3. pos = Len(text) + 1 /\ text \in Seq(Bytes)
      BY <1>4, Bounds
    <3>4. magnitude = Coefficient(Exponent(text))
      <4>1. PICK f, n, x : f = Mark /\ n = Len(text) /\ x = Exponent(text)
        OBVIOUS
      <4>2. f \in Nat /\ n \in Nat /\ f <= n /\ pos = n + 1
        BY <1>2, <3>3, <4>1, Bounds
      <4>3. Len(x) = n - f
        BY <3>3, <4>1, <4>2, ExponentIs DEF Mark
      <4>4. pos - 1 - f = Len(x)
        BY <4>2, <4>3
      <4>5. QED BY <3>2, <4>1, <4>4 DEF Coefficient
    <3>5. ApplyExp(adjust, expNeg, magnitude) = IF expNeg THEN adjust - magnitude ELSE adjust + magnitude
      <4>1. expNeg \in BOOLEAN /\ adjust \in Exponents /\ magnitude \in 0..ExpLimit(expNeg, adjust)
        BY <3>1 DEF DInv, Registers
      <4>2. QED BY <4>1, ApplyExpIs
    <3>6. PICK c, f, w, a : c = Coefficient(Exponent(text)) /\ f = FirstOf(text, E) /\ w = Fraction(text) /\ a = adjust
      OBVIOUS
    <3>7. w = fracLen /\ w \in Int /\ f = Mark /\ a \in Int
      <4>1. fracLen \in Nat /\ PointBefore(text, FirstOf(text, E), fracLen)
        BY <1>2, Bounds DEF Mark
      <4>2. w = fracLen /\ w \in Int
        BY <3>3, <3>6, <4>1, FractionIs
      <4>3. f = Mark
        BY <3>6 DEF Mark
      <4>4. a \in Int
        BY <3>6, Bounds, Machine DEF Exponents
      <4>5. QED BY <4>2, <4>3, <4>4
    <3>8. c \in Nat /\ WrittenExponent(text) = (IF At(text, f + 1, {Minus}) THEN -c ELSE c) - w
      BY <3>3, <3>6, WrittenExponentIs
    <3>9. magnitude = c /\ At(text, f + 1, {Minus}) = expNeg
      <4>1. magnitude = c
        BY <3>4, <3>6
      <4>2. QED BY <3>2, <3>7, <4>1, Zenon
    <3>10. CASE expNeg
      <4>1. WrittenExponent(text) = -c - w
        BY <3>8, <3>9, <3>10
      <4>2. ApplyExp(adjust, expNeg, magnitude) = a - c
        BY <3>5, <3>6, <3>9, <3>10
      <4>3. a - c = a + w + (-c - w)
        BY <3>7, <3>8
      <4>4. QED BY <3>6, <3>7, <4>1, <4>2, <4>3
    <3>11. CASE ~expNeg
      <4>1. WrittenExponent(text) = c - w
        BY <3>8, <3>9, <3>11
      <4>2. ApplyExp(adjust, expNeg, magnitude) = a + c
        BY <3>5, <3>6, <3>9, <3>11
      <4>3. a + c = a + w + (c - w)
        BY <3>7, <3>8
      <4>4. QED BY <3>6, <3>7, <4>1, <4>2, <4>3
    <3>12. QED BY <3>10, <3>11
  <2>2. PICK exp : exp = ApplyExp(adjust, expNeg, magnitude)
    OBVIOUS
  <2>3. Done(exp) /\ (buf # <<0>> => exp = adjust + fracLen + WrittenExponent(text))
    BY <1>4, <2>1, <2>2
  <2>4. QED BY <1>2, <2>3, DoneSays
<1>5. QED BY <1>3, <1>4 DEF ParseEnd

\* The mark comes first.
LEMMA MarkFirst ==
    ASSUME NEW e \in Int, ExpString(e) # <<>>
    PROVE  ExpString(e)[1] = E /\ Len(ExpString(e)) >= 1
<1>1. e # 0
  BY DEF ExpString
<1>2. \A n \in Nat : Decimals(n) \in Seq(Bytes)
  <2>1. \A b \in Digit : b \in Bytes
    BY DEF Digit, Bytes
  <2>2. QED BY <2>1, DecimalsAreDigits
<1>3. PICK y \in Seq(Bytes) : y = (IF e < 0 THEN <<Minus>> \o Decimals(-e) ELSE Decimals(e))
  <2>1. CASE e < 0
    <3>1. PICK z \in Seq(Bytes) : z = Decimals(-e)
      <4>1. -e \in Nat
        BY <2>1
      <4>2. QED BY <1>2, <4>1
    <3>2. PICK u \in Seq(Bytes) : u = <<Minus>>
      <4>1. Minus \in Bytes
        BY DEF Minus, Bytes
      <4>2. <<Minus>> \in Seq(Bytes)
        BY <4>1
      <4>3. QED BY <4>2
    <3>3. u \o z \in Seq(Bytes)
      BY ConcatProperties
    <3>4. QED BY <2>1, <3>1, <3>2, <3>3
  <2>2. CASE ~(e < 0)
    <3>1. e \in Nat
      BY <2>2
    <3>2. QED BY <1>2, <2>2, <3>1
  <2>3. QED BY <2>1, <2>2
<1>4. PICK h \in Seq(Bytes) : h = <<E>> /\ Len(h) = 1 /\ h[1] = E
  <2>1. E \in Bytes
    BY DEF E, Bytes
  <2>2. <<E>> \in Seq(Bytes) /\ Len(<<E>>) = 1 /\ <<E>>[1] = E
    BY <2>1
  <2>3. QED BY <2>2
<1>5. ExpString(e) = h \o y
  BY <1>1, <1>3, <1>4, Zenon DEF ExpString
<1>6. Len(h \o y) = 1 + Len(y) /\ Len(y) \in Nat /\ (h \o y)[1] = h[1]
  <2>1. Len(h \o y) = Len(h) + Len(y) /\ Len(y) \in Nat
    BY ConcatProperties
  <2>2. 1 \in 1..(Len(h) + Len(y)) /\ 1 <= Len(h)
    BY <1>4
  <2>3. (h \o y)[1] = h[1]
    BY <2>2, ConcatProperties
  <2>4. QED BY <1>4, <2>1, <2>3
<1>7. QED BY <1>4, <1>5, <1>6

\* In a number printed the mark follows the digits.
LEMMA PrintedMark ==
    ASSUME NEW v \in Number, Fits(v)
    PROVE  FirstOf(String(v), E) <= MaxExp + 1
<1>1. v.digits \in Seq(Digit) /\ v.exp \in Int /\ v.neg \in BOOLEAN
  BY DEF Number
<1>2. \A b \in Digit : b \in Bytes
  BY DEF Digit, Bytes
<1>3. PICK s \in Seq(Bytes) : s = (IF v.neg THEN <<Minus>> ELSE <<>>) /\ Len(s) = SignBytes(v.neg)
  <2>1. Minus \in Bytes
    BY DEF Minus, Bytes
  <2>2. <<>> \in Seq(Bytes) /\ <<Minus>> \in Seq(Bytes) /\ Len(<<>>) = 0 /\ Len(<<Minus>>) = 1
    BY <2>1
  <2>3. CASE v.neg
    <3>1. (IF v.neg THEN <<Minus>> ELSE <<>>) = <<Minus>> /\ SignBytes(v.neg) = 1
      BY <2>3, Zenon DEF SignBytes
    <3>2. QED BY <2>2, <3>1, Zenon
  <2>4. CASE ~v.neg
    <3>1. (IF v.neg THEN <<Minus>> ELSE <<>>) = <<>> /\ SignBytes(v.neg) = 0
      BY <2>4, Zenon DEF SignBytes
    <3>2. QED BY <2>2, <3>1, Zenon
  <2>5. QED BY <2>3, <2>4
<1>4. PICK d \in Seq(Bytes) : d = v.digits
  BY <1>1, <1>2
<1>5. PICK x \in Seq(Bytes) : x = ExpString(v.exp)
  BY <1>1, ExpStringIsBytes
<1>6. PICK m \in Seq(Bytes) : m = s \o d /\ Len(m) = Len(s) + Len(d)
  BY ConcatProperties
<1>7. PICK l \in Nat : l = Len(m) /\ l <= MaxExp
  <2>1. Len(d) + Len(s) <= MaxExp
    BY <1>3, <1>4 DEF Fits
  <2>2. Len(m) \in Nat /\ Len(m) <= MaxExp
    <3>1. Len(d) \in Nat /\ Len(s) \in Nat
      OBVIOUS
    <3>2. QED BY <1>6, <2>1, <3>1
  <2>3. QED BY <2>2
<1>8. MaxExp \in Nat /\ MaxExp >= 1
  BY DecimalAssumption
<1>9. CASE v.digits = <<0>>
  <2>1. String(v) = <<0>> /\ <<0>> \in Seq(Bytes) /\ Len(<<0>>) = 1
    BY <1>9 DEF String, Bytes
  <2>2. PICK t \in Seq(Bytes) : t = <<0>> /\ String(v) = t /\ Len(t) = 1
    BY <2>1
  <2>3. FirstOf(t, E) \in 1..(1 + 1)
    BY <2>2, FirstOfIs
  <2>4. QED BY <1>8, <2>2, <2>3
<1>10. CASE v.digits # <<0>>
  <2>1. PICK t \in Seq(Bytes) : t = m \o x /\ Len(t) = l + Len(x) /\ t = String(v)
    <3>1. m \o x \in Seq(Bytes) /\ Len(m \o x) = Len(m) + Len(x)
      BY ConcatProperties
    <3>2. String(v) = m \o x
      BY <1>3, <1>4, <1>5, <1>6, <1>10, Zenon DEF String
    <3>3. QED BY <1>7, <3>1, <3>2
  <2>2. PICK f : f = FirstOf(t, E) /\ f \in 1..(l + Len(x) + 1) /\ \A k \in 1..(f - 1) : t[k] # E
    BY <2>1, FirstOfIs
  <2>3. CASE x = <<>>
    <3>1. Len(x) = 0
      BY <2>3
    <3>2. QED BY <1>7, <1>8, <2>1, <2>2, <3>1
  <2>4. CASE x # <<>>
    <3>1. x[1] = E /\ Len(x) >= 1
      BY <1>1, <1>5, <2>4, MarkFirst
    <3>2. t[l + 1] = E
      <4>1. 1 \in 1..Len(x)
        BY <3>1
      <4>2. l + 1 \in 1..(Len(m) + Len(x)) /\ ~(l + 1 <= Len(m)) /\ (l + 1) - Len(m) = 1
        BY <1>7, <3>1
      <4>3. (m \o x)[l + 1] = x[1]
        BY <4>1, <4>2, ConcatProperties
      <4>4. QED BY <2>1, <3>1, <4>3
    <3>3. ~(l + 1 < f)
      <4> SUFFICES ASSUME l + 1 < f PROVE FALSE
        OBVIOUS
      <4>1. l + 1 \in 1..(f - 1)
        BY <2>2
      <4>2. QED BY <2>2, <3>2, <4>1
    <3>4. QED BY <1>7, <1>8, <2>1, <2>2, <3>3
  <2>5. QED BY <2>3, <2>4
<1>11. QED BY <1>9, <1>10

LEMMA ReparseSays == ASSUME DInv, Reading, Reparse PROVE Reading'
<1>1. /\ pc = "done" /\ text' = String(result) /\ pc' = "start"
      /\ buf' = <<>> /\ pos' = 1 /\ neg' = FALSE /\ fracLen' = 0
  BY DEF Reparse
<1>2. result \in Number /\ Fits(result)
  BY <1>1 DEF DInv, Returned, Reading, Answered
<1>3. Begun'
  BY <1>1, <1>2, PrintedMark DEF Begun, Mark
<1>4. Placed'
  <2>1. Len(buf') = 0 /\ SignBytes(neg') = 0 /\ \A k \in 1..(1 - 1) : FALSE
    BY <1>1 DEF SignBytes
  <2>2. NoPoint(text', pos') /\ NoMark(text', pos') /\ Len(buf') + SignBytes(neg') < pos'
    BY <1>1, <2>1 DEF NoPoint, NoMark
  <2>3. QED BY <1>1, <2>2 DEF Placed
<1>5. Valued'
  <2>1. PICK t : t = text'
    OBVIOUS
  <2>2. Coefficients(t)[0] = 0 /\ Len(<<>>) = 0
    BY CoefficientsAre
  <2>3. Coefficient(buf') = 0 /\ fracLen' <= Len(buf') /\ pos' - 1 = 0
    BY <1>1, <2>2, EmptyIs
  <2>4. QED BY <1>1, <2>1, <2>2, <2>3 DEF Valued
<1>6. Marked' /\ Answered'
  BY <1>1 DEF Marked, Answered
<1>7. QED BY <1>3, <1>4, <1>5, <1>6 DEF Reading

LEMMA ReadingInit == Init => Reading
<1> SUFFICES ASSUME Init PROVE Reading
  OBVIOUS
<1>1. /\ text \in Seq(Bytes) /\ Len(text) <= MaxExp /\ pc = "start"
      /\ buf = <<>> /\ pos = 1 /\ neg = FALSE /\ fracLen = 0
  BY DecimalAssumption DEF Init, Idle
<1>2. Begun
  <2>1. Mark \in 1..(Len(text) + 1) /\ Len(text) \in Nat /\ MaxExp \in Nat
    BY <1>1, FirstOfIs, DecimalAssumption DEF Mark
  <2>2. Mark <= MaxExp + 1
    BY <1>1, <2>1
  <2>3. QED BY <1>1, <2>2 DEF Begun
<1>3. Placed
  <2>1. Len(buf) = 0 /\ SignBytes(neg) = 0
    BY <1>1 DEF SignBytes
  <2>2. NoPoint(text, pos) /\ NoMark(text, pos) /\ Len(buf) + SignBytes(neg) < pos
    BY <1>1, <2>1 DEF NoPoint, NoMark
  <2>3. QED BY <1>1, <2>2 DEF Placed
<1>4. Valued
  <2>1. pos - 1 = 0 /\ Coefficients(text)[0] = 0 /\ Coefficient(buf) = 0 /\ fracLen <= Len(buf)
    BY <1>1, EmptyIs, CoefficientsAre
  <2>2. QED BY <1>1, <2>1 DEF Valued
<1>5. Marked /\ Answered
  BY <1>1 DEF Marked, Answered
<1>6. QED BY <1>2, <1>3, <1>4, <1>5 DEF Reading

LEMMA ReadingStep == DInv /\ Reading /\ [Next]_vars => Reading'
<1> SUFFICES ASSUME DInv, Reading, [Next]_vars PROVE Reading'
  OBVIOUS
<1>1. CASE UNCHANGED vars
  <2>1. UNCHANGED <<text, buf, pos, pc, neg, fracLen, adjust, expNeg, magnitude, result>>
    BY <1>1 DEF vars
  <2>2. Begun' /\ Placed' /\ Valued'
    BY <2>1 DEF Reading, Begun, Placed, Valued, Mark, Says
  <2>3. Marked'
    BY <2>1 DEF Reading, Marked, Mark, Says
  <2>4. Answered'
    BY <2>1 DEF Reading, Answered, Exact
  <2>5. QED BY <2>2, <2>3, <2>4 DEF Reading
<1>2. CASE Next
  BY <1>2, ParseStartSays, IntDigitSays, EndsSay, PointSays, FracDigitSays, CanonicalizeSays,
     ExpMarkSays, ExpDigitSays, ScanDigitSays, ParseEndSays, ReparseSays DEF Next
<1>3. QED BY <1>1, <1>2

LEMMA ReadingInvariant == Spec => []Reading
<1>1. Init => Reading
  BY ReadingInit
<1>2. DInv /\ Reading /\ [Next]_vars => Reading'
  BY ReadingStep
<1>3. QED BY <1>1, <1>2, DecimalInvariant, PTL DEF Spec

\* A number returned is the number written, in its only canonical form and
\* with its exponent never wrapped (decimal.go, Parse), for every text and
\* every width of integers.
THEOREM NumbersAreExact == Spec => []Exact
<1>1. Reading => Exact
  BY DEF Reading, Answered, Exact
<1>2. QED BY <1>1, ReadingInvariant, PTL

(***************************************************************************)
(* Parse takes what the lexer takes.  Each state of the reader stands for  *)
(* a place of scanNumber: the end of the integer part, of the fraction, or *)
(* a run of digits.  U is the text without its sign, which scanNumber      *)
(* reads, and Off is the length of the sign.                               *)
(***************************************************************************)
Off == IF At(text, 1, {Minus}) THEN 1 ELSE 0
U == Unsigned(text)

IntStop(u) == IF At(u, 1, {0}) THEN 2 ELSE RunEnd(u, 1)
FracStop(u) == IF At(u, IntStop(u), {Dot}) THEN RunEnd(u, IntStop(u) + 1) ELSE IntStop(u)
ExpFrom(u) == IF At(u, FracStop(u) + 1, {Plus, Minus}) THEN FracStop(u) + 2 ELSE FracStop(u) + 1
ExpStop(u) == IF At(u, FracStop(u), {E}) THEN RunEnd(u, ExpFrom(u)) ELSE FracStop(u)

BadInt(u) == ~At(u, 1, Digit) \/ (At(u, 1, {0}) /\ At(u, 2, Digit))
BadFrac(u) == At(u, IntStop(u), {Dot}) /\ ~At(u, IntStop(u) + 1, Digit)
BadExp(u) == At(u, FracStop(u), {E}) /\ ~At(u, ExpFrom(u), Digit)

\* The bytes from p up to q are digits.
Run(u, p, q) == p <= q /\ q <= Len(u) + 1 /\ \A k \in p..(q - 1) : u[k] \in Digit

Lexing ==
    /\ pc = "int" => At(U, 1, Digit) /\ ~At(U, 1, {0}) /\ Run(U, 1, pos - Off)
    /\ pc = "point" => ~BadInt(U) /\ IntStop(U) = pos - Off
    /\ pc = "frac" => /\ ~BadInt(U) /\ At(U, IntStop(U), {Dot})
                      /\ IntStop(U) + 1 + fracLen = pos - Off /\ Run(U, IntStop(U) + 1, pos - Off)
    /\ pc \in {"canon", "mark"} => ~BadInt(U) /\ ~BadFrac(U) /\ FracStop(U) = pos - Off
    /\ pc \in {"exp", "scan"} =>
            /\ ~BadInt(U) /\ ~BadFrac(U) /\ ~BadExp(U)
            /\ At(U, FracStop(U), {E}) /\ Run(U, ExpFrom(U), pos - Off)
    /\ pc = "done" => Lexed(text)
    /\ pc \in {"malformed", "missing"} => ~Lexed(text)

LEMMA ScanIs ==
    ASSUME NEW u
    PROVE  ScanNumber(u) = IF BadInt(u) \/ BadFrac(u) \/ BadExp(u) THEN 0 ELSE ExpStop(u)
BY Zenon DEF ScanNumber, BadInt, BadFrac, BadExp, IntStop, FracStop, ExpFrom, ExpStop

LEMMA UnsignedIs ==
    ASSUME NEW t \in Seq(Bytes)
    PROVE  /\ At(t, 1, {Minus}) =>
                /\ Unsigned(t) \in Seq(Bytes) /\ 1 <= Len(t) /\ Len(Unsigned(t)) = Len(t) - 1
                /\ \A k \in 1..(Len(t) - 1) : Unsigned(t)[k] = t[k + 1]
           /\ ~At(t, 1, {Minus}) => Unsigned(t) = t
<1>1. ASSUME At(t, 1, {Minus})
      PROVE  /\ Unsigned(t) \in Seq(Bytes) /\ 1 <= Len(t) /\ Len(Unsigned(t)) = Len(t) - 1
             /\ \A k \in 1..(Len(t) - 1) : Unsigned(t)[k] = t[k + 1]
  <2>1. 1 <= Len(t) /\ Unsigned(t) = Tail(t)
    BY <1>1 DEF At, Unsigned
  <2>2. t # <<>>
    BY <2>1
  <2>3. /\ Tail(t) \in Seq(Bytes) /\ Len(Tail(t)) = Len(t) - 1
        /\ \A k \in 1..(Len(t) - 1) : Tail(t)[k] = t[k + 1]
    BY <2>2, HeadTailProperties
  <2>4. QED BY <2>1, <2>3
<1>2. QED BY <1>1 DEF Unsigned

LEMMA USays ==
    ASSUME DInv
    PROVE  /\ U \in Seq(Bytes) /\ Off \in {0, 1} /\ Off <= Len(text)
           /\ Len(U) = Len(text) - Off /\ Len(U) \in Nat
           /\ \A k \in 1..(Len(text) - Off) : U[k] = text[k + Off]
<1>1. text \in Seq(Bytes) /\ Len(text) \in Nat
  BY Bounds
<1>2. PICK u \in Seq(Bytes) : u = U
  BY <1>1, UnsignedIs DEF U
<1>3. Len(u) \in Nat
  OBVIOUS
<1>4. CASE At(text, 1, {Minus})
  <2>1. Off = 1
    BY <1>4 DEF Off
  <2>2. /\ 1 <= Len(text) /\ Len(u) = Len(text) - 1
        /\ \A k \in 1..(Len(text) - 1) : u[k] = text[k + 1]
    BY <1>1, <1>2, <1>4, UnsignedIs DEF U
  <2>3. QED BY <1>2, <1>3, <2>1, <2>2
<1>5. CASE ~At(text, 1, {Minus})
  <2>1. Off = 0
    BY <1>5 DEF Off
  <2>2. u = text
    BY <1>1, <1>2, <1>5, UnsignedIs DEF U
  <2>3. QED BY <1>1, <1>2, <2>1, <2>2
<1>6. QED BY <1>4, <1>5

\* What the reader sees at a byte not yet read is what the lexer sees.
LEMMA Seen ==
    ASSUME DInv, NEW q \in Nat \ {0}, NEW S, q + Off >= pos
    PROVE  At(U, q, S) <=> q + Off <= Len(raw) /\ raw[q + Off] \in S
<1>1. PICK o, n : o = Off /\ n = Len(text)
  OBVIOUS
<1>2. o \in {0, 1} /\ n \in Nat /\ Len(U) = n - o /\ Len(raw) = n /\ \A k \in 1..(n - o) : U[k] = text[k + o]
  BY <1>1, USays, Bounds
<1>3. CASE q + o <= n
  <2>1. q \in 1..(n - o) /\ q <= Len(U)
    BY <1>2, <1>3
  <2>2. q + o \in pos..n
    BY <1>1, <1>2, <1>3, Bounds
  <2>3. U[q] = raw[q + o]
    BY <1>1, <1>2, <2>1, <2>2, Bounds
  <2>4. QED BY <1>1, <1>2, <1>3, <2>1, <2>3 DEF At
<1>4. CASE ~(q + o <= n)
  <2>1. ~(q <= Len(U))
    BY <1>2, <1>4
  <2>2. QED BY <1>1, <1>2, <1>4, <2>1 DEF At
<1>5. QED BY <1>3, <1>4

\* At the byte to read.
LEMMA Here ==
    ASSUME DInv, pos > Off
    PROVE  /\ pos - Off \in Nat \ {0} /\ pos - Off <= Len(U) + 1
           /\ AtDigit <=> At(U, pos - Off, Digit)
           /\ More <=> pos - Off <= Len(U)
           /\ \A b \in Bytes : Next1(b) <=> At(U, pos - Off, {b})
<1>1. PICK q : q = pos - Off
  OBVIOUS
<1>2. q \in Nat \ {0} /\ q + Off = pos /\ q <= Len(U) + 1 /\ (pos <= Len(text) <=> q <= Len(U))
  BY <1>1, USays, Bounds
<1>3. q + Off >= pos /\ Len(raw) = Len(text) /\ (More <=> pos <= Len(text))
  BY <1>2, Bounds
<1>4. \A S : At(U, q, S) <=> pos <= Len(raw) /\ raw[pos] \in S
  BY <1>2, <1>3, Seen
<1>5. QED BY <1>1, <1>2, <1>3, <1>4 DEF AtDigit, Next1

LEMMA RunStops ==
    ASSUME NEW u \in Seq(Bytes), NEW p \in Nat \ {0}, NEW q \in Nat, Run(u, p, q), ~At(u, q, Digit)
    PROVE  RunEnd(u, p) = q
<1>1. PICK s : s = [k \in 1..Len(u) |-> IF k >= p /\ u[k] \notin Digit THEN E ELSE 0]
  OBVIOUS
<1>2. s \in Seq(Bytes) /\ Len(s) = Len(u) /\ Len(u) \in Nat
  <2>1. E \in Bytes /\ 0 \in Bytes
    BY DEF E, Bytes
  <2>2. Len(u) \in Nat
    OBVIOUS
  <2>3. s \in [1..Len(u) -> Bytes]
    BY <1>1, <2>1
  <2>4. QED BY <2>2, <2>3
<1>3. q \in 1..(Len(s) + 1)
  BY <1>2 DEF Run
<1>4. \A k \in 1..(q - 1) : s[k] # E
  <2> SUFFICES ASSUME NEW k \in 1..(q - 1) PROVE s[k] # E
    OBVIOUS
  <2>1. k \in 1..Len(u)
    BY <1>2, <1>3
  <2>2. k >= p => u[k] \in Digit
    BY DEF Run
  <2>3. s[k] = 0
    BY <1>1, <2>1, <2>2
  <2>4. QED BY <2>3 DEF E
<1>5. q <= Len(s) => s[q] = E
  <2> SUFFICES ASSUME q <= Len(s) PROVE s[q] = E
    OBVIOUS
  <2>1. q \in 1..Len(u) /\ q >= p
    BY <1>2, <1>3 DEF Run
  <2>2. u[q] \notin Digit
    BY <2>1 DEF At
  <2>3. QED BY <1>1, <2>1, <2>2
<1>6. FirstOf(s, E) = q
  BY <1>2, <1>3, <1>4, <1>5, FirstOfOnly
<1>7. QED BY <1>1, <1>6 DEF RunEnd

LEMMA RunGrows ==
    ASSUME NEW u, NEW p \in Nat \ {0}, NEW q \in Nat \ {0}, Len(u) \in Nat, Run(u, p, q), At(u, q, Digit)
    PROVE  Run(u, p, q + 1)
<1>1. p <= q + 1 /\ q + 1 <= Len(u) + 1
  BY DEF Run, At
<1>2. ASSUME NEW k \in p..((q + 1) - 1) PROVE u[k] \in Digit
  <2>1. k \in p..(q - 1) \/ k = q
    OBVIOUS
  <2>2. QED BY <2>1 DEF Run, At
<1>3. QED BY <1>1, <1>2 DEF Run

LEMMA LexedIs ==
    ASSUME DInv
    PROVE  Lexed(text) <=> ~BadInt(U) /\ ~BadFrac(U) /\ ~BadExp(U) /\ ExpStop(U) = Len(U) + 1
<1>1. ScanNumber(U) = IF BadInt(U) \/ BadFrac(U) \/ BadExp(U) THEN 0 ELSE ExpStop(U)
  BY ScanIs
<1>2. Lexed(text) <=> ScanNumber(U) = Len(U) + 1
  BY DEF Lexed, U
<1>3. Len(U) + 1 # 0
  BY USays
<1>4. QED BY <1>1, <1>2, <1>3

LEMMA StopsAre ==
    ASSUME NEW u \in Seq(Bytes)
    PROVE  /\ IntStop(u) \in Nat \ {0} /\ FracStop(u) \in Nat \ {0} /\ ExpFrom(u) \in Nat \ {0}
           /\ IntStop(u) + 1 \in Nat \ {0}
<1>1. ASSUME NEW p PROVE RunEnd(u, p) \in Nat \ {0}
  <2>1. PICK s : s = [k \in 1..Len(u) |-> IF k >= p /\ u[k] \notin Digit THEN E ELSE 0]
    OBVIOUS
  <2>2. s \in Seq(Bytes)
    <3>1. E \in Bytes /\ 0 \in Bytes /\ Len(u) \in Nat
      BY DEF E, Bytes
    <3>2. s \in [1..Len(u) -> Bytes]
      BY <2>1, <3>1
    <3>3. QED BY <3>1, <3>2
  <2>3. FirstOf(s, E) \in 1..(Len(s) + 1) /\ Len(s) \in Nat
    BY <2>2, FirstOfIs
  <2>4. QED BY <2>1, <2>3 DEF RunEnd
<1>2. IntStop(u) \in Nat \ {0}
  BY <1>1 DEF IntStop
<1>3. FracStop(u) \in Nat \ {0}
  BY <1>1, <1>2 DEF FracStop
<1>4. ExpFrom(u) \in Nat \ {0}
  <2>1. PICK f \in Nat \ {0} : f = FracStop(u)
    BY <1>3
  <2>2. f + 1 \in Nat \ {0} /\ f + 2 \in Nat \ {0}
    OBVIOUS
  <2>3. QED BY <2>1, <2>2 DEF ExpFrom
<1>5. QED BY <1>2, <1>3, <1>4

\* Once the sign is read.
LEMMA PastSign ==
    ASSUME DInv, Reading, pc \in {"int", "point", "frac", "canon", "mark", "exp", "scan"}
    PROVE  pos > Off
<1>1. neg = At(text, 1, {Minus})
  BY DEF Reading, Begun
<1>2. SignBytes(neg) = Off
  BY <1>1, Zenon DEF SignBytes, Off
<1>3. Off \in {0, 1} /\ Len(buf) \in Nat /\ pos \in Int /\ Mark \in Int
  BY USays, Bounds
<1>4. CASE pc \in {"int", "point", "frac", "canon", "mark"}
  <2>1. Len(buf) + SignBytes(neg) < pos
    BY <1>4 DEF Reading, Placed
  <2>2. QED BY <1>2, <1>3, <2>1
<1>5. CASE pc \in {"exp", "scan"}
  <2>1. Len(buf) + SignBytes(neg) < Mark /\ Mark < pos
    BY <1>5 DEF Reading, Marked
  <2>2. QED BY <1>2, <1>3, <2>1
<1>6. QED BY <1>4, <1>5

LEMMA ParseStartLexes == ASSUME DInv, Reading, ParseStart PROVE Lexing'
<1>1. pc = "start" /\ pos = 1
  BY DEF ParseStart, DInv, Gathered
<1>2. Off \in {0, 1} /\ Len(raw) = Len(text) /\ Len(text) \in Nat /\ Len(U) = Len(text) - Off
  BY USays, Bounds
<1>3. Next1(Minus) <=> Off = 1
  <2>1. More <=> 1 <= Len(text)
    BY <1>1, Bounds
  <2>2. 1 <= Len(text) => 1 \in pos..Len(text)
    BY <1>1, <1>2
  <2>3. 1 <= Len(text) => raw[1] = text[1]
    BY <2>2, Bounds
  <2>4. Next1(Minus) <=> 1 <= Len(text) /\ text[1] = Minus
    BY <1>1, <2>1, <2>3 DEF Next1
  <2>5. At(text, 1, {Minus}) <=> 1 <= Len(text) /\ text[1] = Minus
    BY DEF At
  <2>6. QED BY <2>4, <2>5 DEF Off
<1>4. PICK p : p = IF Next1(Minus) THEN 2 ELSE 1
  OBVIOUS
<1>5. p = 1 + Off /\ p \in Nat /\ p + 1 = 2 + Off /\ 1 + Off >= pos /\ 2 + Off >= pos
  BY <1>1, <1>2, <1>3, <1>4
<1>6. /\ \A S : At(U, 1, S) <=> p <= Len(raw) /\ raw[p] \in S
      /\ \A S : At(U, 2, S) <=> p + 1 <= Len(raw) /\ raw[p + 1] \in S
  BY <1>5, Seen
<1>7. CASE \/ p > Len(raw)
           \/ raw[p] \notin Digit
           \/ raw[p] = 0 /\ p < Len(raw) /\ raw[p + 1] \in Digit
  <2>1. Return("malformed")
    BY <1>4, <1>7 DEF ParseStart
  <2>2. pc' = "malformed" /\ UNCHANGED text
    BY <2>1 DEF Return, scanned
  <2>3. p < Len(raw) => p + 1 <= Len(raw)
    BY <1>2, <1>5
  <2>4. BadInt(U)
    <3>1. CASE p > Len(raw) \/ raw[p] \notin Digit
      <4>1. ~(p <= Len(raw) /\ raw[p] \in Digit)
        BY <1>2, <1>5, <3>1
      <4>2. QED BY <1>6, <4>1 DEF BadInt
    <3>2. CASE raw[p] = 0 /\ p < Len(raw) /\ raw[p + 1] \in Digit
      <4>1. p <= Len(raw) /\ raw[p] \in {0} /\ p + 1 <= Len(raw)
        BY <1>2, <1>5, <2>3, <3>2
      <4>2. QED BY <1>6, <3>2, <4>1 DEF BadInt
    <3>3. QED BY <1>7, <3>1, <3>2
  <2>5. ~Lexed(text')
    BY <2>2, <2>4, LexedIs
  <2>6. QED BY <2>2, <2>5 DEF Lexing
<1>8. CASE ~(\/ p > Len(raw)
             \/ raw[p] \notin Digit
             \/ raw[p] = 0 /\ p < Len(raw) /\ raw[p + 1] \in Digit)
  <2>1. /\ IF raw[p] = 0 THEN pos' = p + 1 /\ pc' = "point" ELSE pos' = p /\ pc' = "int"
        /\ UNCHANGED text
    BY <1>4, <1>8 DEF ParseStart
  <2>2. p <= Len(raw) /\ raw[p] \in Digit
    BY <1>2, <1>5, <1>8
  <2>3. At(U, 1, Digit) /\ ~(At(U, 1, {0}) /\ At(U, 2, Digit)) /\ (At(U, 1, {0}) <=> raw[p] = 0)
    <3>1. p + 1 <= Len(raw) => p < Len(raw)
      BY <1>2, <1>5
    <3>2. QED BY <1>6, <1>8, <2>2, <3>1
  <2>4. U' = U /\ Off' = Off
    BY <2>1 DEF U, Off
  <2>5. CASE raw[p] = 0
    <3>1. IntStop(U) = 2 /\ ~BadInt(U)
      BY <2>3, <2>5 DEF IntStop, BadInt
    <3>2. pos' - Off' = 2 /\ pc' = "point"
      BY <1>2, <1>5, <2>1, <2>4, <2>5
    <3>3. QED BY <2>4, <3>1, <3>2 DEF Lexing
  <2>6. CASE raw[p] # 0
    <3>1. pos' - Off' = 1 /\ pc' = "int"
      BY <1>2, <1>5, <2>1, <2>4, <2>6
    <3>2. Run(U, 1, 1)
      BY USays DEF Run
    <3>3. QED BY <2>3, <2>4, <2>6, <3>1, <3>2 DEF Lexing
  <2>7. QED BY <2>5, <2>6
<1>9. QED BY <1>7, <1>8

LEMMA IntDigitLexes == ASSUME DInv, Reading, Lexing, IntDigit PROVE Lexing'
<1>1. pc = "int" /\ AtDigit /\ pos' = pos + 1 /\ UNCHANGED <<text, pc>>
  BY DEF IntDigit
<1>2. At(U, 1, Digit) /\ ~At(U, 1, {0}) /\ Run(U, 1, pos - Off)
  BY <1>1 DEF Lexing
<1>3. pos > Off
  BY <1>1, PastSign
<1>4. pos - Off \in Nat \ {0} /\ At(U, pos - Off, Digit) /\ Len(U) \in Nat
  BY <1>1, <1>3, Here, USays
<1>5. Run(U, 1, (pos - Off) + 1)
  BY <1>2, <1>4, RunGrows
<1>6. U' = U /\ Off' = Off
  BY <1>1 DEF U, Off
<1>7. pos' - Off' = (pos - Off) + 1
  BY <1>1, <1>6, USays, Bounds
<1>8. QED BY <1>1, <1>2, <1>5, <1>6, <1>7 DEF Lexing

LEMMA IntEndLexes == ASSUME DInv, Reading, Lexing, IntEnd PROVE Lexing'
<1>1. pc = "int" /\ ~AtDigit /\ pc' = "point" /\ UNCHANGED <<text, pos>>
  BY DEF IntEnd, Return, scanned
<1>2. At(U, 1, Digit) /\ ~At(U, 1, {0}) /\ Run(U, 1, pos - Off)
  BY <1>1 DEF Lexing
<1>3. pos > Off
  BY <1>1, PastSign
<1>4. pos - Off \in Nat \ {0} /\ ~At(U, pos - Off, Digit) /\ U \in Seq(Bytes)
  BY <1>1, <1>3, Here, USays
<1>5. RunEnd(U, 1) = pos - Off
  BY <1>2, <1>4, RunStops
<1>6. ~BadInt(U) /\ IntStop(U) = pos - Off
  BY <1>2, <1>5 DEF BadInt, IntStop
<1>7. U' = U /\ Off' = Off
  BY <1>1 DEF U, Off
<1>8. QED BY <1>1, <1>6, <1>7 DEF Lexing

LEMMA PointLexes == ASSUME DInv, Reading, Lexing, Point PROVE Lexing'
<1>1. /\ pc = "point" /\ UNCHANGED <<text, fracLen>>
      /\ IF Next1(Dot) THEN pos' = pos + 1 /\ pc' = "frac" ELSE pc' = "canon" /\ UNCHANGED pos
  BY DEF Point
<1>2. ~BadInt(U) /\ IntStop(U) = pos - Off /\ fracLen = 0
  BY <1>1 DEF Lexing, Reading, Placed
<1>3. pos > Off
  BY <1>1, PastSign
<1>4. Dot \in Bytes
  BY DEF Dot, Bytes
<1>5. pos - Off \in Nat \ {0} /\ (Next1(Dot) <=> At(U, pos - Off, {Dot})) /\ (More <=> pos - Off <= Len(U))
  BY <1>3, <1>4, Here
<1>6. U' = U /\ Off' = Off
  BY <1>1 DEF U, Off
<1>7. CASE Next1(Dot)
  <2>1. PICK q \in Nat \ {0} : q = pos - Off
    BY <1>5
  <2>2. pos' - Off' = q + 1 /\ pc' = "frac" /\ fracLen' = 0
    BY <1>1, <1>2, <1>6, <1>7, <2>1, USays, Bounds
  <2>3. At(U, IntStop(U), {Dot}) /\ IntStop(U) = q /\ q <= Len(U)
    BY <1>2, <1>5, <1>7, <2>1 DEF At
  <2>4. Run(U, q + 1, q + 1) /\ q + 1 + 0 = q + 1
    BY <2>3, USays DEF Run
  <2>5. QED BY <1>2, <1>6, <2>2, <2>3, <2>4 DEF Lexing
<1>8. CASE ~Next1(Dot)
  <2>1. ~At(U, IntStop(U), {Dot})
    BY <1>2, <1>5, <1>8
  <2>2. FracStop(U) = pos - Off /\ ~BadFrac(U)
    BY <1>2, <2>1 DEF FracStop, BadFrac
  <2>3. pc' = "canon" /\ pos' = pos
    BY <1>1, <1>8
  <2>4. QED BY <1>2, <1>6, <2>2, <2>3 DEF Lexing
<1>9. QED BY <1>7, <1>8

LEMMA FracDigitLexes == ASSUME DInv, Reading, Lexing, FracDigit PROVE Lexing'
<1>1. pc = "frac" /\ AtDigit /\ pos' = pos + 1 /\ fracLen' = fracLen + 1 /\ UNCHANGED <<text, pc>>
  BY DEF FracDigit
<1>2. /\ ~BadInt(U) /\ At(U, IntStop(U), {Dot})
      /\ IntStop(U) + 1 + fracLen = pos - Off /\ Run(U, IntStop(U) + 1, pos - Off)
  BY <1>1 DEF Lexing
<1>3. pos > Off
  BY <1>1, PastSign
<1>4. PICK q \in Nat \ {0} : q = pos - Off /\ At(U, q, Digit) /\ Len(U) \in Nat
  BY <1>1, <1>3, Here, USays
<1>5. PICK i \in Nat \ {0} : i = IntStop(U) /\ i + 1 \in Nat \ {0}
  BY StopsAre, USays
<1>6. Run(U, i + 1, q + 1)
  BY <1>2, <1>4, <1>5, RunGrows
<1>7. U' = U /\ Off' = Off
  BY <1>1 DEF U, Off
<1>8. pos' - Off' = q + 1
  BY <1>1, <1>4, <1>7, USays, Bounds
<1>9. i + 1 + fracLen' = q + 1
  <2>1. fracLen \in Nat /\ i + 1 + fracLen = q
    BY <1>2, <1>4, <1>5, Bounds
  <2>2. QED BY <1>1, <2>1
<1>10. QED BY <1>1, <1>2, <1>5, <1>6, <1>7, <1>8, <1>9 DEF Lexing

LEMMA FracEndLexes == ASSUME DInv, Reading, Lexing, FracEnd PROVE Lexing'
<1>1. /\ pc = "frac" /\ ~AtDigit /\ pc' = IF fracLen = 0 THEN "malformed" ELSE "canon"
      /\ UNCHANGED <<text, pos>>
  BY DEF FracEnd, Return, scanned
<1>2. /\ ~BadInt(U) /\ At(U, IntStop(U), {Dot})
      /\ IntStop(U) + 1 + fracLen = pos - Off /\ Run(U, IntStop(U) + 1, pos - Off)
  BY <1>1 DEF Lexing
<1>3. pos > Off
  BY <1>1, PastSign
<1>4. PICK q \in Nat \ {0} : q = pos - Off /\ ~At(U, q, Digit)
  BY <1>1, <1>3, Here
<1>5. PICK i \in Nat \ {0} : i = IntStop(U) /\ i + 1 \in Nat \ {0}
  BY StopsAre, USays
<1>6. i + 1 + fracLen = q /\ fracLen \in Nat /\ Run(U, i + 1, q)
  BY <1>2, <1>4, <1>5, Bounds
<1>7. RunEnd(U, i + 1) = q
  BY <1>4, <1>5, <1>6, RunStops, USays
<1>8. FracStop(U) = q
  BY <1>2, <1>5, <1>7 DEF FracStop
<1>9. U' = U /\ Off' = Off
  BY <1>1 DEF U, Off
<1>10. CASE fracLen = 0
  <2>1. i + 1 = q
    BY <1>6, <1>10
  <2>2. BadFrac(U)
    BY <1>2, <1>4, <1>5, <2>1 DEF BadFrac
  <2>3. ~Lexed(text') /\ pc' = "malformed"
    BY <1>1, <1>10, <2>2, LexedIs
  <2>4. QED BY <2>3 DEF Lexing
<1>11. CASE fracLen # 0
  <2>1. i + 1 \in (i + 1)..(q - 1) /\ i + 1 <= Len(U)
    BY <1>5, <1>6, <1>11, USays DEF Run
  <2>2. At(U, i + 1, Digit)
    BY <1>6, <2>1 DEF Run, At
  <2>3. ~BadFrac(U)
    BY <1>5, <2>2 DEF BadFrac
  <2>4. pc' = "canon" /\ pos' - Off' = q
    BY <1>1, <1>4, <1>9, <1>11
  <2>5. QED BY <1>2, <1>8, <1>9, <2>3, <2>4 DEF Lexing
<1>12. QED BY <1>10, <1>11

LEMMA CanonicalizeLexes == ASSUME DInv, Lexing, Canonicalize PROVE Lexing'
<1>1. pc = "canon" /\ pc' = "mark" /\ UNCHANGED <<text, pos>>
  BY DEF Canonicalize
<1>2. U' = U /\ Off' = Off
  BY <1>1 DEF U, Off
<1>3. QED BY <1>1, <1>2 DEF Lexing

\* Behind the fraction nothing follows, or no mark, or a mark.
LEMMA EndOfMantissa ==
    ASSUME DInv, NEW q \in Nat, q = FracStop(U), ~BadInt(U), ~BadFrac(U), ~At(U, q, {E})
    PROVE  Lexed(text) <=> q = Len(U) + 1
<1>1. ~BadExp(U) /\ ExpStop(U) = q
  BY DEF BadExp, ExpStop
<1>2. QED BY <1>1, LexedIs

LEMMA ExpMarkLexes == ASSUME DInv, Reading, Lexing, ExpMark PROVE Lexing'
<1> DEFINE signed == pos + 1 <= Len(raw) /\ raw[pos + 1] \in {Minus, Plus}
           p == IF signed THEN pos + 2 ELSE pos + 1
           Noted == /\ pos' = p /\ pc' = IF buf = <<0>> THEN "scan" ELSE "exp"
                    /\ expNeg' = (signed /\ raw[pos + 1] = Minus)
                    /\ UNCHANGED <<text, raw, shared, buf, neg, fracLen, adjust, magnitude, result, first>>
           Missing == p > Len(raw) \/ raw[p] \notin Digit
<1>1. (CASE ~More                -> Done(adjust)
         [] More /\ raw[pos] # E -> Return("malformed")
         [] Next1(E) /\ Missing  -> Return("missing")
         [] OTHER                -> Noted)
  BY Zenon DEF ExpMark
<1>2. \/ ~More /\ Done(adjust)
      \/ More /\ ~Next1(E) /\ Return("malformed")
      \/ Next1(E) /\ Missing /\ Return("missing")
      \/ Next1(E) /\ ~Missing /\ Noted
  <2> HIDE DEF Noted, Missing, p
  <2>1. CASE ~More
    BY <1>1, <2>1
  <2>2. CASE More /\ raw[pos] # E
    BY <1>1, <2>2 DEF Next1
  <2>3. CASE Next1(E)
    BY <1>1, <2>3 DEF Next1
  <2>4. QED BY <2>1, <2>2, <2>3 DEF Next1
<1>3. pc = "mark" /\ ~BadInt(U) /\ ~BadFrac(U) /\ FracStop(U) = pos - Off
  BY DEF ExpMark, Lexing
<1>4. E \in Bytes /\ pos > Off
  BY <1>3, PastSign DEF E, Bytes
<1>5. PICK q \in Nat \ {0} :
          /\ q = pos - Off /\ (Next1(E) <=> At(U, q, {E})) /\ (More <=> q <= Len(U)) /\ q <= Len(U) + 1
  BY <1>4, Here
<1>6. Off \in {0, 1} /\ pos \in Nat /\ Len(U) \in Nat /\ U \in Seq(Bytes) /\ Len(raw) = Len(text) /\ Len(text) \in Nat
  BY USays, Bounds
<1>7. ~Next1(E) => (Lexed(text) <=> q = Len(U) + 1)
  BY <1>3, <1>5, EndOfMantissa
<1>8. CASE ~More /\ Done(adjust)
  <2>1. ~Next1(E) /\ q = Len(U) + 1
    BY <1>5, <1>6, <1>8 DEF Next1
  <2>2. pc' = "done" /\ UNCHANGED text
    BY <1>8 DEF Done, scanned
  <2>3. Lexed(text')
    BY <1>7, <2>1, <2>2
  <2>4. QED BY <2>2, <2>3 DEF Lexing
<1>9. CASE More /\ ~Next1(E) /\ Return("malformed")
  <2>1. q # Len(U) + 1
    BY <1>5, <1>6, <1>9
  <2>2. pc' = "malformed" /\ UNCHANGED text
    BY <1>9 DEF Return, scanned
  <2>3. ~Lexed(text')
    BY <1>7, <1>9, <2>1, <2>2
  <2>4. QED BY <2>2, <2>3 DEF Lexing
<1>10. signed <=> At(U, q + 1, {Plus, Minus})
  <2>1. (q + 1) + Off = pos + 1 /\ (q + 1) + Off >= pos /\ q + 1 \in Nat \ {0}
    BY <1>5, <1>6
  <2>2. At(U, q + 1, {Plus, Minus}) <=> pos + 1 <= Len(raw) /\ raw[pos + 1] \in {Plus, Minus}
    BY <2>1, Seen
  <2>3. QED BY <2>2
<1>11. PICK x \in Nat \ {0} : x = ExpFrom(U) /\ x + Off = p /\ x \in {q + 1, q + 2}
  <2>1. ExpFrom(U) = IF signed THEN q + 2 ELSE q + 1
    <3>1. FracStop(U) = q
      BY <1>3, <1>5
    <3> HIDE DEF signed
    <3>2. QED BY <1>10, <3>1, Zenon DEF ExpFrom
  <2>2. (q + 2) + Off = pos + 2 /\ (q + 1) + Off = pos + 1 /\ q + 1 \in Nat \ {0} /\ q + 2 \in Nat \ {0}
    BY <1>5, <1>6
  <2> HIDE DEF signed
  <2>3. QED BY <2>1, <2>2
<1>12. At(U, x, Digit) <=> ~Missing
  <2>1. x + Off >= pos
    BY <1>5, <1>6, <1>11
  <2>2. At(U, x, Digit) <=> p <= Len(raw) /\ raw[p] \in Digit
    <3> HIDE DEF p
    <3>1. QED BY <1>11, <2>1, Seen
  <2>3. p \in Nat /\ Len(raw) \in Nat
    BY <1>6
  <2> HIDE DEF p
  <2>4. QED BY <2>2, <2>3
<1>13. CASE Next1(E) /\ Missing /\ Return("missing")
  <2>1. BadExp(U)
    BY <1>3, <1>5, <1>11, <1>12, <1>13 DEF BadExp
  <2>2. pc' = "missing" /\ UNCHANGED text
    BY <1>13 DEF Return, scanned
  <2>3. ~Lexed(text')
    BY <2>1, <2>2, LexedIs
  <2>4. QED BY <2>2, <2>3 DEF Lexing
<1>14. CASE Next1(E) /\ ~Missing /\ Noted
  <2>1. ~BadExp(U) /\ At(U, FracStop(U), {E})
    BY <1>3, <1>5, <1>11, <1>12, <1>14 DEF BadExp
  <2>2. pc' \in {"scan", "exp"} /\ pos' = p /\ UNCHANGED text
    BY <1>14
  <2>3. U' = U /\ Off' = Off
    BY <2>2 DEF U, Off
  <2>4. pos' - Off' = x
    <3> HIDE DEF p
    <3>1. QED BY <1>6, <1>11, <2>2, <2>3
  <2>5. Run(U, x, x)
    <3>1. x <= Len(U)
      BY <1>12, <1>14 DEF At
    <3>2. QED BY <1>6, <3>1 DEF Run
  <2>6. QED BY <1>3, <1>11, <2>1, <2>2, <2>3, <2>4, <2>5 DEF Lexing
<1>15. QED BY <1>2, <1>8, <1>9, <1>13, <1>14

LEMMA ExponentDigitLexes ==
    ASSUME DInv, Reading, Lexing, pc \in {"exp", "scan"}, AtDigit,
           pos' = pos + 1, UNCHANGED <<text, pc>>
    PROVE  Lexing'
<1>1. /\ ~BadInt(U) /\ ~BadFrac(U) /\ ~BadExp(U)
      /\ At(U, FracStop(U), {E}) /\ Run(U, ExpFrom(U), pos - Off)
  BY DEF Lexing
<1>2. pos > Off
  BY PastSign
<1>3. PICK q \in Nat \ {0} : q = pos - Off /\ At(U, q, Digit) /\ Len(U) \in Nat
  BY <1>2, Here, USays
<1>4. ExpFrom(U) \in Nat \ {0}
  BY StopsAre, USays
<1>5. Run(U, ExpFrom(U), q + 1)
  BY <1>1, <1>3, <1>4, RunGrows
<1>6. U' = U /\ Off' = Off
  BY DEF U, Off
<1>7. pos' - Off' = q + 1
  BY <1>3, <1>6, USays, Bounds
<1>8. QED BY <1>1, <1>5, <1>6, <1>7 DEF Lexing

LEMMA ExpDigitLexes == ASSUME DInv, Reading, Lexing, ExpDigit PROVE Lexing'
<1>1. pc = "exp" /\ AtDigit
  BY DEF ExpDigit
<1>2. \/ Return("overflow")
      \/ pos' = pos + 1 /\ UNCHANGED <<text, pc>>
  BY DEF ExpDigit
<1>3. CASE Return("overflow")
  BY <1>3 DEF Return, Lexing
<1>4. CASE pos' = pos + 1 /\ UNCHANGED <<text, pc>>
  BY <1>1, <1>4, ExponentDigitLexes
<1>5. QED BY <1>2, <1>3, <1>4

LEMMA ScanDigitLexes == ASSUME DInv, Reading, Lexing, ScanDigit PROVE Lexing'
<1>1. pc = "scan" /\ AtDigit /\ pos' = pos + 1 /\ UNCHANGED <<text, pc>>
  BY DEF ScanDigit
<1>2. QED BY <1>1, ExponentDigitLexes

LEMMA ParseEndLexes == ASSUME DInv, Reading, Lexing, ParseEnd PROVE Lexing'
<1>1. /\ pc \in {"exp", "scan"} /\ ~AtDigit
      /\ IF More THEN Return("malformed") ELSE Done(ApplyExp(adjust, expNeg, magnitude))
  BY DEF ParseEnd
<1>2. /\ ~BadInt(U) /\ ~BadFrac(U) /\ ~BadExp(U)
      /\ At(U, FracStop(U), {E}) /\ Run(U, ExpFrom(U), pos - Off)
  BY <1>1 DEF Lexing
<1>3. pos > Off
  BY <1>1, PastSign
<1>4. PICK q \in Nat \ {0} :
          q = pos - Off /\ ~At(U, q, Digit) /\ (More <=> q <= Len(U)) /\ q <= Len(U) + 1 /\ Len(U) \in Nat
  BY <1>1, <1>3, Here, USays
<1>5. ExpStop(U) = q
  <2>1. ExpFrom(U) \in Nat \ {0} /\ U \in Seq(Bytes)
    BY StopsAre, USays
  <2>2. RunEnd(U, ExpFrom(U)) = q
    BY <1>2, <1>4, <2>1, RunStops
  <2>3. QED BY <1>2, <2>2 DEF ExpStop
<1>6. Lexed(text) <=> q = Len(U) + 1
  BY <1>2, <1>5, LexedIs
<1>7. CASE More
  <2>1. pc' = "malformed" /\ UNCHANGED text
    BY <1>1, <1>7 DEF Return, scanned
  <2>2. ~Lexed(text')
    BY <1>4, <1>6, <1>7, <2>1
  <2>3. QED BY <2>1, <2>2 DEF Lexing
<1>8. CASE ~More
  <2>1. pc' = "done" /\ UNCHANGED text
    BY <1>1, <1>8 DEF Done, scanned
  <2>2. Lexed(text')
    BY <1>4, <1>6, <1>8, <2>1
  <2>3. QED BY <2>1, <2>2 DEF Lexing
<1>9. QED BY <1>7, <1>8

LEMMA LexingStep == DInv /\ Reading /\ Lexing /\ [Next]_vars => Lexing'
<1> SUFFICES ASSUME DInv, Reading, Lexing, [Next]_vars PROVE Lexing'
  OBVIOUS
<1>1. CASE UNCHANGED vars
  <2>1. UNCHANGED <<text, pos, pc, fracLen>>
    BY <1>1 DEF vars
  <2>2. QED BY <2>1 DEF Lexing, U, Off
<1>2. CASE Reparse
  <2>1. pc' = "start"
    BY <1>2 DEF Reparse
  <2>2. QED BY <2>1 DEF Lexing
<1>3. CASE Next
  BY <1>2, <1>3, ParseStartLexes, IntDigitLexes, IntEndLexes, PointLexes, FracDigitLexes,
     FracEndLexes, CanonicalizeLexes, ExpMarkLexes, ExpDigitLexes, ScanDigitLexes, ParseEndLexes
     DEF Next
<1>4. QED BY <1>1, <1>3

LEMMA LexingInvariant == Spec => []Lexing
<1>1. Init => Lexing
  BY DEF Init, Idle, Lexing
<1>2. DInv /\ Reading /\ Lexing /\ [Next]_vars => Lexing'
  BY LexingStep
<1>3. QED BY <1>1, <1>2, DecimalInvariant, ReadingInvariant, PTL DEF Spec

(***************************************************************************)
(* The canonical exponent: the zeros at the end of a coefficient are the   *)
(* powers of ten that divide it.                                           *)
(***************************************************************************)
LEMMA Cancel == \A p \in Nat \ {0}, a \in Int, b \in Int : p * a = p * b => a = b
OBVIOUS

LEMMA Associate == \A a, b, c \in Nat : a * (b * c) = (a * b) * c
OBVIOUS

LEMMA Commute == \A a, b \in Nat : a * b = b * a /\ a * b \in Nat
OBVIOUS

LEMMA Remainder ==
    ASSUME NEW a \in Nat, NEW b \in Nat \ {0}
    PROVE  \E q \in Int : q >= 0 /\ a = b * q + (a % b)
<1>1. a = b * (a \div b) + (a % b) /\ a \div b \in Int /\ a \div b >= 0
  OBVIOUS
<1>2. QED BY <1>1

LEMMA NoRemainder ==
    ASSUME NEW b \in Nat \ {0}, NEW q \in Nat
    PROVE  (b * q) % b = 0
<1>1. PICK a \in Nat : a = b * q
  OBVIOUS
<1>2. a = b * q + 0 /\ 0 \in 0..(b - 1)
  BY <1>1
<1>3. \A r \in 0..(b - 1) : a = b * q + r => a % b = r
  OBVIOUS
<1>4. QED BY <1>1, <1>2, <1>3

LEMMA PowersAdd ==
    ASSUME NEW j \in Nat, NEW k \in Nat
    PROVE  Powers[j + k] = Powers[j] * Powers[k]
<1> DEFINE N == {i \in Nat : Powers[j + i] = Powers[j] * Powers[i]}
<1>1. 0 \in N
  <2>1. j + 0 = j /\ Powers[j] \in Nat /\ Powers[0] = 1
    BY PowersAre
  <2>2. \A p \in Nat : p * 1 = p
    OBVIOUS
  <2>3. QED BY <2>1, <2>2
<1>2. ASSUME NEW i \in Nat, i \in N PROVE i + 1 \in N
  <2>1. PICK p, q, s : p = Powers[j] /\ q = Powers[i] /\ s = Powers[j + i]
    OBVIOUS
  <2>2. p \in Nat /\ q \in Nat /\ s \in Nat /\ s = p * q
    BY <1>2, <2>1, PowersAre
  <2>3. j + (i + 1) = (j + i) + 1 /\ j + i \in Nat /\ i + 1 \in Nat
    OBVIOUS
  <2>4. Powers[(j + i) + 1] = 10 * s /\ Powers[i + 1] = 10 * q
    BY <2>1, <2>3, PowersAre
  <2>5. 10 * (p * q) = p * (10 * q)
    BY <2>2
  <2>6. QED BY <2>1, <2>2, <2>3, <2>4, <2>5
<1>3. \A i \in Nat : i \in N
  <2> HIDE DEF N
  <2>1. QED BY <1>1, <1>2, SetInduction
<1>4. QED BY <1>3

\* A coefficient is below the power of ten of as many bytes.
LEMMA CoefficientBelow ==
    ASSUME NEW s, NEW n \in Nat
    PROVE  Coefficients(s)[n] < Powers[n]
<1> DEFINE N == {k \in Nat : Coefficients(s)[k] < Powers[k]}
<1>1. 0 \in N
  BY CoefficientsAre, PowersAre
<1>2. ASSUME NEW k \in Nat, k \in N PROVE k + 1 \in N
  <2>1. PICK c, p : c = Coefficients(s)[k] /\ p = Powers[k]
    OBVIOUS
  <2>2. c \in Nat /\ p \in Nat /\ c < p
    BY <1>2, <2>1, CoefficientsAre, PowersAre
  <2>3. Powers[k + 1] = 10 * p
    BY <2>1, PowersAre
  <2>4. CASE s[k + 1] \in Digit
    <3>1. PICK d \in 0..9 : d = s[k + 1]
      BY <2>4 DEF Digit
    <3>2. Coefficients(s)[k + 1] = 10 * c + d
      BY <2>1, <2>4, <3>1, CoefficientsAre
    <3>3. QED BY <2>2, <2>3, <3>2
  <2>5. CASE s[k + 1] \notin Digit
    <3>1. Coefficients(s)[k + 1] = c
      BY <2>1, <2>5, CoefficientsAre
    <3>2. QED BY <2>2, <2>3, <3>1
  <2>6. QED BY <2>4, <2>5
<1>3. \A k \in Nat : k \in N
  <2> HIDE DEF N
  <2>1. QED BY <1>1, <1>2, SetInduction
<1>4. QED BY <1>3

\* Reading on never lessens a coefficient.
LEMMA CoefficientsRise ==
    ASSUME NEW s, NEW j \in Nat, NEW n \in Nat, j <= n
    PROVE  Coefficients(s)[j] <= Coefficients(s)[n]
<1> DEFINE N == {k \in Nat : Coefficients(s)[j] <= Coefficients(s)[j + k]}
<1>1. 0 \in N
  <2>1. j + 0 = j /\ Coefficients(s)[j] \in Nat
    BY CoefficientsAre
  <2>2. QED BY <2>1
<1>2. ASSUME NEW k \in Nat, k \in N PROVE k + 1 \in N
  <2>1. PICK i \in Nat : i = j + k /\ j + (k + 1) = i + 1
    OBVIOUS
  <2>2. PICK c, b : c = Coefficients(s)[i] /\ b = Coefficients(s)[j]
    OBVIOUS
  <2>3. c \in Nat /\ b \in Nat /\ b <= c
    BY <1>2, <2>1, <2>2, CoefficientsAre
  <2>4. CASE s[i + 1] \in Digit
    <3>1. PICK d \in 0..9 : d = s[i + 1]
      BY <2>4 DEF Digit
    <3>2. Coefficients(s)[i + 1] = 10 * c + d
      BY <2>2, <2>4, <3>1, CoefficientsAre
    <3>3. QED BY <2>1, <2>2, <2>3, <3>2
  <2>5. CASE s[i + 1] \notin Digit
    <3>1. Coefficients(s)[i + 1] = c
      BY <2>2, <2>5, CoefficientsAre
    <3>2. QED BY <2>1, <2>2, <2>3, <3>1
  <2>6. QED BY <2>4, <2>5
<1>3. \A k \in Nat : k \in N
  <2> HIDE DEF N
  <2>1. QED BY <1>1, <1>2, SetInduction
<1>4. n - j \in Nat /\ j + (n - j) = n
  OBVIOUS
<1>5. QED BY <1>3, <1>4

\* A power with one ten more divides the last digit too.
LEMMA LastDigit ==
    ASSUME NEW d \in Nat, NEW p \in Nat \ {0}, NEW r \in Nat \ {0},
           (d * p) % (10 * (p * r)) = 0
    PROVE  d % 10 = 0
<1>1. PICK b \in Nat : b = 10 * (p * r) /\ b # 0
  <2>1. p * r \in Nat /\ p * r >= 1
    OBVIOUS
  <2>2. 10 * (p * r) \in Nat /\ 10 * (p * r) # 0
    BY <2>1
  <2>3. QED BY <2>2
<1>2. PICK a \in Nat : a = d * p
  BY Commute
<1>3. PICK q \in Nat : a = b * q + (a % b)
  <2>1. b \in Nat \ {0}
    BY <1>1
  <2>2. PICK i \in Int : i >= 0 /\ a = b * i + (a % b)
    BY <2>1, Remainder, Zenon
  <2>3. i \in Nat
    BY <2>2
  <2>4. QED BY <2>2, <2>3, Zenon
<1>4. a % b = 0
  BY <1>1, <1>2
<1>5. a = b * q
  <2>1. b * q \in Int /\ \A i \in Int : i + 0 = i
    OBVIOUS
  <2>2. QED BY <1>3, <1>4, <2>1
<1>6. p * d = p * (10 * (r * q))
  <2>1. r * q \in Nat /\ p * r \in Nat /\ d * p = p * d
    BY Commute
  <2>2. (10 * (p * r)) * q = 10 * ((p * r) * q)
    BY <2>1, Associate
  <2>3. (p * r) * q = p * (r * q)
    BY Associate
  <2>4. 10 * (p * (r * q)) = p * (10 * (r * q))
    BY <2>1
  <2>5. QED BY <1>1, <1>2, <1>5, <2>1, <2>2, <2>3, <2>4
<1>7. PICK m \in Nat : m = r * q
  BY Commute
<1>8. d = 10 * m
  BY <1>6, <1>7, Cancel
<1>9. QED BY <1>8

\* c is d and z zeros.
Ending(c, d, z) == c = d * Powers[z]

LEMMA ZerosAre ==
    ASSUME NEW c \in Nat, NEW m \in Nat, c < Powers[m],
           NEW d \in Nat, d % 10 # 0, NEW z \in Nat, Ending(c, d, z)
    PROVE  Most({k \in 0..m : c % Powers[k] = 0}) = z
<1>1. PICK S : S = {k \in 0..m : c % Powers[k] = 0}
  OBVIOUS
<1>2. PICK p \in Nat \ {0} : p = Powers[z] /\ c = d * p
  <2>1. Powers[z] \in Nat /\ Powers[z] >= 1
    BY PowersAre
  <2>2. QED BY <2>1 DEF Ending
<1>3. d >= 1
  <2>1. 0 % 10 = 0
    OBVIOUS
  <2>2. d # 0
    BY <2>1
  <2>3. QED BY <2>2
<1>4. z <= m
  <2> SUFFICES ASSUME ~(z <= m) PROVE FALSE
    OBVIOUS
  <2>1. Powers[m] <= p /\ Powers[m] \in Nat
    BY <1>2, PowersGrow, PowersAre
  <2>2. d * p >= p
    BY <1>3
  <2>3. QED BY <1>2, <2>1, <2>2
<1>5. z \in S
  <2>1. d * p = p * d
    BY Commute
  <2>2. (p * d) % p = 0
    BY NoRemainder
  <2>3. c % Powers[z] = 0
    BY <1>2, <2>1, <2>2
  <2>4. QED BY <1>1, <1>4, <2>3
<1>6. ASSUME NEW k \in S PROVE k <= z
  <2> SUFFICES ASSUME ~(k <= z) PROVE FALSE
    OBVIOUS
  <2>1. k \in 0..m /\ c % Powers[k] = 0
    BY <1>1, <1>6
  <2>2. PICK j \in Nat : k = z + (j + 1)
    <3>1. k - z - 1 \in Nat /\ k = z + ((k - z - 1) + 1)
      BY <2>1
    <3>2. QED BY <3>1
  <2>3. PICK r \in Nat \ {0} : r = Powers[j]
    <3>1. Powers[j] \in Nat /\ Powers[j] >= 1
      BY PowersAre
    <3>2. QED BY <3>1
  <2>4. Powers[j + 1] = 10 * r
    BY <2>3, PowersAre
  <2>5. Powers[k] = p * (10 * r)
    <3>1. Powers[z + (j + 1)] = Powers[z] * Powers[j + 1]
      BY PowersAdd
    <3>2. QED BY <1>2, <2>2, <2>4, <3>1
  <2>6. p * (10 * r) = 10 * (p * r)
    OBVIOUS
  <2>7. (d * p) % (10 * (p * r)) = 0
    BY <1>2, <2>1, <2>5, <2>6
  <2>8. QED BY <2>7, LastDigit
<1>7. S \subseteq 0..m /\ S # {}
  BY <1>1, <1>5
<1>8. Most(S) \in S /\ \A l \in S : l <= Most(S)
  BY <1>7, MostIs
<1>9. PICK l : l = Most(S) /\ l \in S /\ z <= l
  BY <1>5, <1>8
<1>10. l <= z /\ l \in 0..m
  BY <1>6, <1>7, <1>9
<1>11. l = z
  BY <1>9, <1>10
<1>12. QED BY <1>1, <1>9, <1>11

LEMMA CanonicalExponentIs ==
    ASSUME NEW t \in Seq(Bytes), NEW d \in Nat, d % 10 # 0, NEW z \in Nat,
           Ending(WrittenCoefficient(t), d, z)
    PROVE  CanonicalExponent(t) = WrittenExponent(t) + z
<1>1. PICK c, m : c = WrittenCoefficient(t) /\ m = Len(Mantissa(t))
  OBVIOUS
<1>2. m \in Nat /\ c = Coefficients(Mantissa(t))[m]
  <2>1. Mantissa(t) \in Seq(Bytes)
    BY MantissaIs
  <2>2. QED BY <1>1, <2>1 DEF WrittenCoefficient, Coefficient
<1>3. c \in Nat /\ c < Powers[m]
  BY <1>2, CoefficientBelow, CoefficientsAre
<1>4. Most({k \in 0..m : c % Powers[k] = 0}) = z
  BY <1>1, <1>2, <1>3, ZerosAre
<1>5. QED BY <1>1, <1>4 DEF CanonicalExponent

LEMMA WrittenIsInt == ASSUME NEW t \in Seq(Bytes) PROVE WrittenExponent(t) \in Int
<1>1. PICK m \in Seq(Bytes) : m = Mantissa(t)
  BY MantissaIs
<1>2. PICK k \in Nat : k = FirstOf(m, Dot)
  <2>1. FirstOf(m, Dot) \in 1..(Len(m) + 1) /\ Len(m) \in Nat
    BY FirstOfIs
  <2>2. QED BY <2>1
<1>3. PICK n \in Nat : n = Len(m)
  OBVIOUS
<1>4. \A i \in (k + 1)..n : m[i] \in Bytes
  <2>1. \A i \in (k + 1)..n : i \in 1..Len(m)
    BY <1>3
  <2>2. QED BY <2>1
<1>5. Len(SubSeq(m, k + 1, n)) \in Nat
  <2>1. k + 1 \in Int /\ n \in Int
    OBVIOUS
  <2>2. SubSeq(m, k + 1, n) \in Seq(Bytes)
    BY <1>4, <2>1, SubSeqProperties
  <2>3. QED BY <2>2
<1>6. PICK c, f, w : c = Coefficient(Exponent(t)) /\ f = FirstOf(t, E) /\ w = Fraction(t)
  OBVIOUS
<1>7. w \in Int
  BY <1>1, <1>2, <1>3, <1>5, <1>6 DEF Fraction, Tail1
<1>8. c \in Nat /\ WrittenExponent(t) = (IF At(t, f + 1, {Minus}) THEN -c ELSE c) - w
  BY <1>6, WrittenExponentIs
<1>9. QED BY <1>7, <1>8

\* A number returned has an exponent that fits.
LEMMA ReturnedFits ==
    ASSUME DInv, Reading, pc = "done"
    PROVE  WrittenCoefficient(text) = 0 \/ CanonicalExponent(text) \in Exponents
<1>1. Exact /\ CanonicalNumber(result) /\ text \in Seq(Bytes)
  BY Bounds DEF Reading, Answered, DInv, Returned
<1>2. CASE WrittenCoefficient(text) # 0
  <2>1. PICK d, e, x : d = Coefficient(result.digits) /\ e = WrittenExponent(text) /\ x = result.exp
    OBVIOUS
  <2>2. /\ d % 10 # 0 /\ x \in e..(e + Len(text))
        /\ WrittenCoefficient(text) = d * Powers[x - e]
    BY <1>1, <1>2, <2>1 DEF Exact
  <2>3. e \in Int /\ x \in Int /\ x \in Exponents /\ Len(text) \in Nat
    BY <1>1, <2>1, WrittenIsInt, Machine, Bounds DEF CanonicalNumber, Exponents
  <2>4. PICK z \in Nat : z = x - e /\ e + z = x
    BY <2>2, <2>3
  <2>5. d \in Nat
    <3>1. result.digits \in Seq(Digit)
      BY <1>1 DEF CanonicalNumber, CanonicalDigits
    <3>2. PICK s \in Seq(Digit) : s = result.digits
      BY <3>1
    <3>3. Len(s) \in Nat
      OBVIOUS
    <3>4. QED BY <2>1, <3>2, <3>3, CoefficientsAre DEF Coefficient
  <2>6. Ending(WrittenCoefficient(text), d, z)
    BY <2>2, <2>4 DEF Ending
  <2>7. CanonicalExponent(text) = e + z
    BY <1>1, <2>1, <2>2, <2>5, <2>6, CanonicalExponentIs
  <2>8. QED BY <2>3, <2>4, <2>7
<1>3. QED BY <1>2

\* What the magnitude comes to with the next digit.
LEMMA ReadIs ==
    ASSUME DInv, Reading, pc = "exp", AtDigit, NEW k \in Nat, k = pos - Mark
    PROVE  /\ magnitude * 10 + raw[pos] = Coefficients(Exponent(text))[k]
           /\ k <= Len(Exponent(text))
<1>1. /\ Mark <= Len(text) /\ Mark < pos
      /\ magnitude = Coefficients(Exponent(text))[pos - 1 - Mark]
  BY DEF Reading, Marked
<1>2. /\ k \in Nat \ {0} /\ pos - 1 - Mark = k - 1 /\ Mark + k = pos /\ pos <= Len(text)
      /\ k <= Len(text) - Mark
  BY <1>1, Bounds DEF AtDigit
<1>3. raw[pos] = text[pos] /\ text[pos] = Exponent(text)[k]
  <2>1. pos \in pos..Len(text)
    BY <1>2, Bounds
  <2>2. QED BY <1>1, <1>2, <2>1, Bounds, BehindMark
<1>4. Exponent(text)[k] \in Digit
  BY <1>3 DEF AtDigit
<1>5. /\ Coefficients(Exponent(text))[k] = 10 * Coefficients(Exponent(text))[k - 1] + Exponent(text)[k]
      /\ Coefficients(Exponent(text))[k - 1] \in Nat
  BY <1>2, <1>4, NextCoefficient
<1>6. PICK m, d : m = magnitude /\ d = raw[pos]
  OBVIOUS
<1>7. m \in Nat /\ m = Coefficients(Exponent(text))[k - 1] /\ d = Exponent(text)[k]
  BY <1>1, <1>2, <1>3, <1>5, <1>6
<1>8. m * 10 = 10 * m
  BY <1>7
<1>9. Len(Exponent(text)) = Len(text) - Mark
  <2>1. PICK f : f = Mark
    OBVIOUS
  <2>2. Len(Exponent(text)) = IF f <= Len(text) THEN Len(text) - f ELSE 0
    BY <2>1, Bounds, ExponentIs DEF Mark
  <2>3. QED BY <1>1, <2>1, <2>2
<1>10. QED BY <1>2, <1>5, <1>6, <1>7, <1>8, <1>9

\* What is refused as an overflow has an exponent that is no int64, whatever
\* follows.
LEMMA OverflowIs ==
    ASSUME DInv, Reading, ExpDigit, pc' = "overflow"
    PROVE  WrittenCoefficient(text) # 0 /\ CanonicalExponent(text) \notin Exponents
<1>1. pc = "exp" /\ AtDigit
  BY DEF ExpDigit
<1>2. /\ Mark <= Len(text) /\ Mark < pos /\ PointBefore(text, Mark, fracLen) /\ Says(Mark)
      /\ expNeg = At(text, Mark + 1, {Minus}) /\ CanonicalDigits(buf) /\ buf # <<0>>
  BY <1>1 DEF Reading, Marked, DInv, Gathered
<1>3. PICK b \in Nat \ {0} : b = Coefficient(buf) /\ b % 10 # 0
  BY <1>2, CanonicalCoefficient
<1>4. PICK z \in Nat : z = adjust + fracLen /\ Coefficients(text)[Mark - 1] = b * Powers[z]
  <2>1. Len(text) \in Nat
    BY Bounds
  <2>2. QED BY <1>2, <1>3, <2>1 DEF Says
<1>5. text \in Seq(Bytes) /\ WrittenCoefficient(text) = b * Powers[z]
  BY <1>4, Bounds, MantissaIs DEF Mark
<1>6. WrittenCoefficient(text) # 0
  <2>1. PICK p \in Nat : p = Powers[z] /\ p >= 1
    BY PowersAre
  <2>2. b * p # 0
    BY <2>1
  <2>3. QED BY <1>5, <2>1, <2>2
<1>7. CanonicalExponent(text) = WrittenExponent(text) + z
  BY <1>3, <1>5, CanonicalExponentIs DEF Ending
<1>8. PICK c, f, w, a : c = Coefficient(Exponent(text)) /\ f = FirstOf(text, E) /\ w = Fraction(text) /\ a = adjust
  OBVIOUS
<1>9. w = fracLen /\ w \in Int /\ f = Mark /\ a \in Int
  <2>1. fracLen \in Nat /\ PointBefore(text, FirstOf(text, E), fracLen)
    BY <1>2, Bounds DEF Mark
  <2>2. w = fracLen /\ w \in Int
    BY <1>5, <1>8, <2>1, FractionIs
  <2>3. f = Mark
    BY <1>8 DEF Mark
  <2>4. a \in Int
    BY <1>8, Bounds, Machine DEF Exponents
  <2>5. QED BY <2>2, <2>3, <2>4
<1>10. c \in Nat /\ WrittenExponent(text) = (IF At(text, f + 1, {Minus}) THEN -c ELSE c) - w
  BY <1>5, <1>8, WrittenExponentIs
<1>11. At(text, f + 1, {Minus}) = expNeg
  BY <1>2, <1>9, Zenon
<1>12. CanonicalExponent(text) = IF expNeg THEN a - c ELSE a + c
  <2>1. z = a + w
    BY <1>4, <1>8, <1>9
  <2>2. CASE expNeg
    <3>1. WrittenExponent(text) = -c - w
      BY <1>10, <1>11, <2>2
    <3>2. (-c - w) + (a + w) = a - c
      BY <1>9, <1>10
    <3>3. QED BY <1>7, <2>1, <2>2, <3>1, <3>2
  <2>3. CASE ~expNeg
    <3>1. WrittenExponent(text) = c - w
      BY <1>10, <1>11, <2>3
    <3>2. (c - w) + (a + w) = a + c
      BY <1>9, <1>10
    <3>3. QED BY <1>7, <2>1, <2>3, <3>1, <3>2
  <2>4. QED BY <2>2, <2>3
<1>13. PICK k \in Nat : k = pos - Mark
  BY <1>2, Bounds
<1>14. PICK r : r = magnitude * 10 + raw[pos]
  OBVIOUS
<1>15. r = Coefficients(Exponent(text))[k] /\ k <= Len(Exponent(text))
  BY <1>1, <1>13, <1>14, ReadIs
<1>16. r > ExpLimit(expNeg, adjust)
  <2>1. ~(pc' = pc)
    BY <1>1
  <2>2. QED BY <1>14, <2>1, ExpDigitIs
<1>17. r <= c /\ r \in Nat
  <2>1. PICK x \in Seq(Bytes) : x = Exponent(text)
    BY <1>5, ExponentIs
  <2>2. PICK n \in Nat : n = Len(x)
    OBVIOUS
  <2>3. Coefficients(x)[k] <= Coefficients(x)[n] /\ Coefficients(x)[k] \in Nat
    BY <1>15, <2>1, <2>2, CoefficientsRise, CoefficientsAre
  <2>4. QED BY <1>8, <1>15, <2>1, <2>2, <2>3 DEF Coefficient
<1>18. expNeg \in BOOLEAN /\ adjust \in Exponents
  BY DEF DInv, Registers
<1>19. ExpLimit(expNeg, adjust) = IF expNeg THEN MaxExp + 1 + a ELSE MaxExp - a
  BY <1>8, <1>18, ExpLimitIs
<1>20. MaxExp \in Nat
  BY Machine
<1>21. CASE expNeg
  <2>1. c > MaxExp + 1 + a
    BY <1>9, <1>10, <1>16, <1>17, <1>19, <1>20, <1>21
  <2>2. ~(-MaxExp - 1 <= a - c)
    BY <1>9, <1>10, <1>20, <2>1
  <2>3. QED BY <1>6, <1>9, <1>10, <1>12, <1>20, <1>21, <2>2 DEF Exponents
<1>22. CASE ~expNeg
  <2>1. c > MaxExp - a
    BY <1>9, <1>10, <1>16, <1>17, <1>19, <1>20, <1>22
  <2>2. ~(a + c <= MaxExp)
    BY <1>9, <1>10, <1>20, <2>1
  <2>3. QED BY <1>6, <1>9, <1>10, <1>12, <1>20, <1>22, <2>2 DEF Exponents
<1>23. QED BY <1>21, <1>22

Refused ==
    pc = "overflow" => WrittenCoefficient(text) # 0 /\ CanonicalExponent(text) \notin Exponents

LEMMA RefusedStep == DInv /\ Reading /\ Refused /\ [Next]_vars => Refused'
<1> SUFFICES ASSUME DInv, Reading, Refused, [Next]_vars, pc' = "overflow"
             PROVE  WrittenCoefficient(text') # 0 /\ CanonicalExponent(text') \notin Exponents
  BY DEF Refused
<1>1. CASE UNCHANGED vars
  BY <1>1 DEF vars, Refused
<1>2. CASE ExpDigit
  <2>1. text' = text
    BY <1>2 DEF ExpDigit, Return, scanned
  <2>2. QED BY <1>2, <2>1, OverflowIs
<1>3. CASE ParseStart
  BY <1>3 DEF ParseStart, Return
<1>4. CASE IntDigit \/ IntEnd \/ Point \/ FracDigit \/ FracEnd \/ Canonicalize
  BY <1>4 DEF IntDigit, IntEnd, Point, FracDigit, FracEnd, Canonicalize, Return
<1>5. CASE ExpMark
  BY <1>5 DEF ExpMark, Return, Done
<1>6. CASE ScanDigit \/ ParseEnd \/ Reparse
  BY <1>6 DEF ScanDigit, ParseEnd, Reparse, Return, Done
<1>7. QED BY <1>1, <1>2, <1>3, <1>4, <1>5, <1>6 DEF Next

LEMMA RefusedInvariant == Spec => []Refused
<1>1. Init => Refused
  BY DEF Init, Idle, Refused
<1>2. DInv /\ Reading /\ Refused /\ [Next]_vars => Refused'
  BY RefusedStep
<1>3. QED BY <1>1, <1>2, DecimalInvariant, ReadingInvariant, PTL DEF Spec

\* Parse takes what the lexer takes for a number and nothing else, and refuses
\* a number just when its canonical exponent is no int64 (decimal.go, Parse and
\* parseExp; lexer.go, scanNumber).
THEOREM RefusalsAreExact == Spec => []RefusesExactly
<1>1. DInv /\ Reading /\ Lexing /\ Refused => RefusesExactly
  <2> SUFFICES ASSUME DInv, Reading, Lexing, Refused PROVE RefusesExactly
    OBVIOUS
  <2>1. pc = "done" => WrittenCoefficient(text) = 0 \/ CanonicalExponent(text) \in Exponents
    BY ReturnedFits
  <2>2. pc = "done" => Lexed(text)
    BY DEF Lexing
  <2>3. pc \in {"malformed", "missing"} => ~Lexed(text)
    BY DEF Lexing
  <2>4. QED BY <2>1, <2>2, <2>3 DEF Refused, RefusesExactly, Exponents
<1>2. QED BY <1>1, DecimalInvariant, ReadingInvariant, LexingInvariant, RefusedInvariant, PTL

(***************************************************************************)
(* What String prints: the sign, the digits and the exponent, each where   *)
(* Parse looks for it.                                                     *)
(***************************************************************************)
LEMMA DecimalsSay ==
    \A n \in Nat : /\ Decimals(n) \in Seq(Digit) /\ Len(Decimals(n)) \in Nat \ {0}
                   /\ Coefficient(Decimals(n)) = n
<1> DEFINE N == {n \in Nat : Len(Decimals(n)) \in Nat \ {0} /\ Coefficient(Decimals(n)) = n}
<1>1. ASSUME NEW n \in Nat, \A j \in Nat : j < n => j \in N PROVE n \in N
  <2> SUFFICES Len(Decimals(n)) \in Nat \ {0} /\ Coefficient(Decimals(n)) = n
    OBVIOUS
  <2>1. ASSUME NEW s \in Seq(Digit), NEW d \in Digit, Decimals(n) = Append(s, d),
               n = 10 * Coefficient(s) + d
        PROVE  Len(Decimals(n)) \in Nat \ {0} /\ Coefficient(Decimals(n)) = n
    <3>1. Len(Append(s, d)) = Len(s) + 1 /\ Len(s) \in Nat
      OBVIOUS
    <3>2. Len(Append(s, d)) \in Nat \ {0}
      BY <3>1
    <3>3. Coefficient(Append(s, d)) = n
      BY <2>1, AppendIs
    <3>4. QED BY <2>1, <3>2, <3>3, Zenon
  <2>2. CASE n < 10
    <3>1. Decimals(n) = <<n>>
      BY <2>2, DecimalsAre, Zenon
    <3>2. n \in Digit
      BY <2>2 DEF Digit
    <3>3. PICK s \in Seq(Digit) : s = <<n>> /\ Len(s) = 1 /\ s[1] = n
      <4>1. <<n>> \in Seq(Digit) /\ Len(<<n>>) = 1 /\ <<n>>[1] = n
        BY <3>2
      <4>2. QED BY <4>1
    <3>4. Coefficients(s)[1] = n
      <4>1. Coefficients(s)[0] = 0 /\ Coefficients(s)[0 + 1] =
                IF s[0 + 1] \in Digit THEN 10 * Coefficients(s)[0] + s[0 + 1] ELSE Coefficients(s)[0]
        BY CoefficientsAre
      <4>2. QED BY <3>2, <3>3, <4>1
    <3>5. Coefficient(s) = n /\ Len(s) \in Nat \ {0}
      BY <3>3, <3>4 DEF Coefficient
    <3>6. QED BY <3>1, <3>3, <3>5, Zenon
  <2>3. CASE ~(n < 10)
    <3>1. PICK q \in Nat, d \in Digit : q = n \div 10 /\ d = n % 10 /\ q < n /\ n = 10 * q + d
      <4>1. n \div 10 \in 0..(n - 1) /\ n % 10 \in Digit
        BY <2>3, Tenth
      <4>2. n = 10 * (n \div 10) + (n % 10)
        OBVIOUS
      <4>3. QED BY <4>1, <4>2
    <3>2. Decimals(n) = Append(Decimals(q), d)
      BY <2>3, <3>1, DecimalsAre, Zenon
    <3>3. PICK s \in Seq(Digit) : s = Decimals(q)
      BY DecimalsAreDigits
    <3>4. Coefficient(s) = q
      BY <1>1, <3>1, <3>3
    <3>5. n = 10 * Coefficient(s) + d
      BY <3>1, <3>4
    <3>6. QED BY <2>1, <3>2, <3>3, <3>5, Zenon
  <2>4. QED BY <2>2, <2>3
<1>2. \A n \in Nat : n \in N
  <2> HIDE DEF N
  <2>1. QED BY <1>1, SetStrongInduction
<1>3. QED BY <1>2, DecimalsAreDigits

\* g bytes of sign, then the n digits d.
Signs(t, g, d, n) == (g = 1 => t[1] = Minus) /\ \A i \in 1..n : t[g + i] = d[i]

LEMMA SignSaysNothing ==
    ASSUME NEW t, NEW g \in {0, 1}, NEW d, NEW n \in Nat, Signs(t, g, d, n)
    PROVE  Coefficients(t)[g + n] = Coefficients(d)[n]
<1>1. Coefficients(t)[g] = 0
  <2>1. Coefficients(t)[0] = 0 /\ Coefficients(t)[0 + 1] =
            IF t[0 + 1] \in Digit THEN 10 * Coefficients(t)[0] + t[0 + 1] ELSE Coefficients(t)[0]
    BY CoefficientsAre
  <2>2. g = 1 => t[0 + 1] \notin Digit
    BY Marks DEF Signs
  <2>3. QED BY <2>1, <2>2
<1>2. Behind(t, g, d, n)
  BY <1>1 DEF Behind, Signs
<1>3. QED BY <1>2, DigitsBehind

\* t is o bytes of sign, the n digits s and, unless k = 0, the mark, g bytes
\* of sign and the k digits d.
Laid(t, o, s, n, g, d, k) ==
    /\ n = Len(s) /\ k = Len(d) /\ s[1] # 0 /\ (k = 0 => g = 0)
    /\ Len(t) = IF k = 0 THEN o + n ELSE o + n + 1 + g + k
    /\ Signs(t, o, s, n)
    /\ k # 0 => /\ t[o + n + 1] = E
                /\ g = 1 => t[o + n + 2] = Minus
                /\ \A i \in 1..k : t[o + n + 1 + g + i] = d[i]

LEMMA LaidMark ==
    ASSUME NEW t \in Seq(Bytes), NEW o \in {0, 1}, NEW s \in Seq(Digit), NEW n \in Nat \ {0},
           NEW g \in {0, 1}, NEW d \in Seq(Digit), NEW k \in Nat, Laid(t, o, s, n, g, d, k)
    PROVE  FirstOf(t, E) = o + n + 1 /\ \A j \in 1..(o + n) : t[j] # Dot
<1>1. PICK p \in Nat \ {0} : p = o + n + 1
  OBVIOUS
<1>2. ASSUME NEW j \in 1..(o + n) PROVE t[j] # E /\ t[j] # Dot
  <2>1. CASE j <= o
    <3>1. o = 1 /\ j = 1
      BY <2>1
    <3>2. t[j] = Minus
      BY <3>1 DEF Laid, Signs
    <3>3. QED BY <3>2, Marks
  <2>2. CASE ~(j <= o)
    <3>1. PICK i \in 1..n : j = o + i
      <4>1. j - o \in 1..n /\ j = o + (j - o)
        BY <2>2
      <4>2. QED BY <4>1
    <3>2. t[j] = s[i] /\ n = Len(s)
      BY <3>1 DEF Laid, Signs
    <3>3. s[i] \in Digit
      BY <3>2
    <3>4. QED BY <3>2, <3>3, Marks
  <2>3. QED BY <2>1, <2>2
<1>3. \A j \in 1..(p - 1) : t[j] # E
  BY <1>1, <1>2
<1>4. p \in 1..(Len(t) + 1) /\ (p <= Len(t) => k # 0)
  BY <1>1 DEF Laid
<1>5. p <= Len(t) => t[p] = E
  BY <1>1, <1>4 DEF Laid
<1>6. FirstOf(t, E) = p
  BY <1>3, <1>4, <1>5, FirstOfOnly
<1>7. QED BY <1>1, <1>2, <1>6

LEMMA LaidCoefficient ==
    ASSUME NEW t \in Seq(Bytes), NEW o \in {0, 1}, NEW s \in Seq(Digit), NEW n \in Nat \ {0},
           NEW g \in {0, 1}, NEW d \in Seq(Digit), NEW k \in Nat, Laid(t, o, s, n, g, d, k)
    PROVE  WrittenCoefficient(t) = Coefficient(s)
<1>1. WrittenCoefficient(t) = Coefficients(t)[FirstOf(t, E) - 1]
  BY MantissaIs
<1>2. FirstOf(t, E) - 1 = o + n
  <2>1. FirstOf(t, E) = o + n + 1
    BY LaidMark
  <2>2. QED BY <2>1
<1>3. Coefficients(t)[o + n] = Coefficients(s)[n] /\ n = Len(s)
  BY SignSaysNothing DEF Laid
<1>4. QED BY <1>1, <1>2, <1>3 DEF Coefficient

SignedBy(g, c) == IF g = 1 THEN -c ELSE c

LEMMA LaidExponent ==
    ASSUME NEW t \in Seq(Bytes), NEW o \in {0, 1}, NEW s \in Seq(Digit), NEW n \in Nat \ {0},
           NEW g \in {0, 1}, NEW d \in Seq(Digit), NEW k \in Nat, Laid(t, o, s, n, g, d, k)
    PROVE  WrittenExponent(t) = SignedBy(g, Coefficient(d))
<1>1. PICK p \in Nat \ {0} : p = o + n + 1 /\ p = FirstOf(t, E)
  BY LaidMark
<1>2. PICK x \in Seq(Bytes) : x = Exponent(t)
  BY <1>1, ExponentIs
<1>3. Len(x) = (IF p <= Len(t) THEN Len(t) - p ELSE 0) /\ \A j \in 1..(Len(t) - p) : x[j] = t[p + j]
  BY <1>1, <1>2, ExponentIs
<1>4. Len(t) = (IF k = 0 THEN p - 1 ELSE p + g + k) /\ (k = 0 => g = 0) /\ k = Len(d)
  BY <1>1 DEF Laid
<1>5. Len(x) = g + k
  BY <1>3, <1>4
<1>6. Signs(x, g, d, k)
  <2>1. CASE k = 0
    BY <1>4, <2>1 DEF Signs
  <2>2. CASE k # 0
    <3>1. Len(t) - p = g + k
      BY <1>4, <2>2
    <3>2. g = 1 => x[1] = Minus
      <4>1. g = 1 => 1 \in 1..(g + k) /\ p + 1 = o + n + 2
        BY <1>1
      <4>2. g = 1 => x[1] = t[p + 1]
        BY <1>3, <3>1, <4>1
      <4>3. QED BY <2>2, <4>1, <4>2 DEF Laid
    <3>3. ASSUME NEW i \in 1..k PROVE x[g + i] = d[i]
      <4>1. g + i \in 1..(g + k) /\ p + (g + i) = o + n + 1 + g + i
        BY <1>1
      <4>2. x[g + i] = t[p + (g + i)]
        BY <1>3, <3>1, <4>1
      <4>3. QED BY <2>2, <4>1, <4>2 DEF Laid
    <3>4. QED BY <3>2, <3>3 DEF Signs
  <2>3. QED BY <2>1, <2>2
<1>7. Coefficients(x)[g + k] = Coefficients(d)[k]
  BY <1>6, SignSaysNothing DEF Laid
<1>8. PICK c \in Nat : c = Coefficient(d) /\ c = Coefficient(x)
  <2>1. Coefficients(d)[k] \in Nat
    BY CoefficientsAre
  <2>2. QED BY <1>4, <1>5, <1>7, <2>1 DEF Coefficient
<1>9. Fraction(t) = 0
  <2>1. PointBefore(t, FirstOf(t, E), 0)
    <3>1. \A j \in 1..(p - 1) : t[j] # Dot
      BY <1>1, LaidMark
    <3>2. QED BY <1>1, <3>1 DEF PointBefore
  <2>2. QED BY <2>1, FractionIs
<1>10. At(t, p + 1, {Minus}) <=> g = 1
  <2>1. CASE k = 0
    <3>1. ~(p + 1 <= Len(t)) /\ g # 1
      BY <1>4, <2>1
    <3>2. QED BY <3>1 DEF At
  <2>2. CASE k # 0 /\ g = 1
    <3>1. p + 1 <= Len(t) /\ p + 1 = o + n + 2
      BY <1>1, <1>4, <2>2
    <3>2. t[p + 1] = Minus
      BY <2>2, <3>1 DEF Laid
    <3>3. QED BY <2>2, <3>1, <3>2 DEF At
  <2>3. CASE k # 0 /\ g = 0
    <3>1. 1 \in 1..k /\ o + n + 1 + g + 1 = p + 1
      BY <1>1, <2>3
    <3>2. t[p + 1] = d[1]
      BY <2>3, <3>1 DEF Laid
    <3>3. d[1] \in Digit
      BY <1>4, <3>1
    <3>4. t[p + 1] # Minus
      BY <3>2, <3>3, Marks
    <3>5. QED BY <2>3, <3>4 DEF At
  <2>4. QED BY <2>1, <2>2, <2>3
<1>11. WrittenExponent(t) = (IF At(t, p + 1, {Minus}) THEN -c ELSE c) - Fraction(t)
  <2>1. c = Coefficient(Exponent(t))
    BY <1>2, <1>8
  <2>2. QED BY <1>1, <2>1, WrittenExponentIs
<1>12. QED BY <1>8, <1>9, <1>10, <1>11 DEF SignedBy

LEMMA LaidSign ==
    ASSUME NEW t \in Seq(Bytes), NEW o \in {0, 1}, NEW s \in Seq(Digit), NEW n \in Nat \ {0},
           NEW g \in {0, 1}, NEW d \in Seq(Digit), NEW k \in Nat, Laid(t, o, s, n, g, d, k)
    PROVE  At(t, 1, {Minus}) <=> o = 1
<1>1. Len(t) >= 1
  BY DEF Laid
<1>2. CASE o = 1
  BY <1>1, <1>2 DEF Laid, Signs, At
<1>3. CASE o = 0
  <2>1. 1 \in 1..n /\ o + 1 = 1
    BY <1>3
  <2>2. t[1] = s[1] /\ n = Len(s)
    BY <2>1 DEF Laid, Signs
  <2>3. s[1] \in Digit
    BY <2>1, <2>2
  <2>4. t[1] # Minus
    BY <2>2, <2>3, Marks
  <2>5. QED BY <1>3, <2>4 DEF At
<1>4. QED BY <1>2, <1>3

LEMMA LaidUnsigned ==
    ASSUME NEW t \in Seq(Bytes), NEW o \in {0, 1}, NEW s \in Seq(Digit), NEW n \in Nat \ {0},
           NEW g \in {0, 1}, NEW d \in Seq(Digit), NEW k \in Nat, Laid(t, o, s, n, g, d, k)
    PROVE  Unsigned(t) \in Seq(Bytes) /\ Laid(Unsigned(t), 0, s, n, g, d, k)
<1>1. PICK l \in Nat : l = Len(t)
  OBVIOUS
<1>2. PICK u \in Seq(Bytes) : /\ u = Unsigned(t) /\ Len(u) = l - o
                              /\ \A j \in 1..(l - o) : u[j] = t[o + j]
  <2>1. CASE o = 1
    <3>1. At(t, 1, {Minus})
      BY <2>1, LaidSign
    <3>2. /\ Unsigned(t) \in Seq(Bytes) /\ Len(Unsigned(t)) = l - 1
          /\ \A j \in 1..(l - 1) : Unsigned(t)[j] = t[j + 1]
      BY <1>1, <3>1, UnsignedIs
    <3>3. \A j \in 1..(l - 1) : j + 1 = o + j
      BY <2>1
    <3>4. QED BY <2>1, <3>2, <3>3
  <2>2. CASE o = 0
    <3>1. ~At(t, 1, {Minus})
      <4>1. At(t, 1, {Minus}) <=> o = 1
        BY LaidSign
      <4>2. o # 1
        BY <2>2
      <4>3. QED BY <4>1, <4>2, Zenon
    <3>2. Unsigned(t) = t
      BY <3>1, UnsignedIs
    <3>3. \A j \in 1..l : o + j = j
      BY <2>2
    <3>4. QED BY <1>1, <2>2, <3>2, <3>3
  <2>3. QED BY <2>1, <2>2
<1>3. /\ n = Len(s) /\ k = Len(d) /\ s[1] # 0 /\ (k = 0 => g = 0)
      /\ l = (IF k = 0 THEN o + n ELSE o + n + 1 + g + k)
      /\ \A i \in 1..n : t[o + i] = s[i]
  BY <1>1 DEF Laid, Signs
<1>4. \A i \in 1..n : u[0 + i] = s[i]
  <2>1. \A i \in 1..n : i \in 1..(l - o) /\ 0 + i = i
    BY <1>3
  <2>2. QED BY <1>2, <1>3, <2>1
<1>5. CASE k = 0
  <2>1. Len(u) = 0 + n
    BY <1>2, <1>3, <1>5
  <2>2. QED BY <1>2, <1>3, <1>4, <1>5, <2>1 DEF Laid, Signs
<1>6. CASE k # 0
  <2>1. Len(u) = 0 + n + 1 + g + k
    BY <1>2, <1>3, <1>6
  <2>2. \A j \in 1..(n + 1 + g + k) : u[j] = t[o + j]
    BY <1>2, <1>3, <1>6
  <2>3. u[0 + n + 1] = E
    <3>1. n + 1 \in 1..(n + 1 + g + k) /\ 0 + n + 1 = n + 1 /\ o + (n + 1) = o + n + 1
      OBVIOUS
    <3>2. t[o + n + 1] = E
      BY <1>6 DEF Laid
    <3>3. QED BY <2>2, <3>1, <3>2
  <2>4. g = 1 => u[0 + n + 2] = Minus
    <3>1. g = 1 => n + 2 \in 1..(n + 1 + g + k) /\ 0 + n + 2 = n + 2 /\ o + (n + 2) = o + n + 2
      BY <1>6
    <3>2. g = 1 => t[o + n + 2] = Minus
      BY <1>6 DEF Laid
    <3>3. QED BY <2>2, <3>1, <3>2
  <2>5. ASSUME NEW i \in 1..k PROVE u[0 + n + 1 + g + i] = d[i]
    <3>1. /\ n + 1 + g + i \in 1..(n + 1 + g + k) /\ 0 + n + 1 + g + i = n + 1 + g + i
          /\ o + (n + 1 + g + i) = o + n + 1 + g + i
      OBVIOUS
    <3>2. t[o + n + 1 + g + i] = d[i]
      BY <1>6 DEF Laid
    <3>3. QED BY <2>2, <3>1, <3>2
  <2>6. Signs(u, 0, s, n)
    BY <1>4 DEF Signs
  <2>7. QED BY <1>2, <1>3, <1>6, <2>1, <2>3, <2>4, <2>5, <2>6 DEF Laid
<1>7. QED BY <1>5, <1>6

LEMMA LaidLexes ==
    ASSUME NEW u \in Seq(Bytes), NEW s \in Seq(Digit), NEW n \in Nat \ {0},
           NEW g \in {0, 1}, NEW d \in Seq(Digit), NEW k \in Nat, Laid(u, 0, s, n, g, d, k)
    PROVE  ScanNumber(u) = Len(u) + 1
<1>1. PICK l \in Nat : l = Len(u) /\ l = (IF k = 0 THEN n ELSE n + 1 + g + k)
  BY DEF Laid
<1>2. \A i \in 1..n : u[i] = s[i] /\ u[i] \in Digit
  <2>1. \A i \in 1..n : 0 + i = i
    OBVIOUS
  <2>2. n = Len(s) /\ \A i \in 1..n : u[i] = s[i]
    BY <2>1 DEF Laid, Signs
  <2>3. QED BY <2>2
<1>3. k # 0 => /\ k = Len(d) /\ u[n + 1] = E /\ (g = 1 => u[n + 2] = Minus)
               /\ \A i \in 1..k : u[n + 1 + g + i] = d[i] /\ d[i] \in Digit
  <2>1. 0 + n + 1 = n + 1 /\ 0 + n + 2 = n + 2 /\ \A i \in 1..k : 0 + n + 1 + g + i = n + 1 + g + i
    OBVIOUS
  <2>2. k = Len(d) /\ \A i \in 1..k : d[i] \in Digit
    BY DEF Laid
  <2>3. QED BY <2>1, <2>2 DEF Laid
<1>4. At(u, 1, Digit) /\ ~At(u, 1, {0})
  <2>1. 1 \in 1..n /\ 1 <= Len(u) /\ s[1] # 0
    BY <1>1 DEF Laid
  <2>2. QED BY <1>2, <2>1 DEF At
<1>5. PICK p \in Nat \ {0} : p = n + 1
  OBVIOUS
<1>6. p <= l => u[p] = E /\ k # 0
  BY <1>1, <1>3, <1>5
<1>7. ~At(u, p, Digit) /\ ~At(u, p, {Dot}) /\ (At(u, p, {E}) <=> k # 0)
  <2>1. k # 0 => p <= l
    BY <1>1, <1>5
  <2>2. QED BY <1>1, <1>6, <2>1, Marks DEF At
<1>8. IntStop(u) = p
  <2>1. Run(u, 1, p)
    BY <1>1, <1>2, <1>5 DEF Run
  <2>2. RunEnd(u, 1) = p
    BY <1>7, <2>1, RunStops
  <2>3. QED BY <1>4, <2>2 DEF IntStop
<1>9. FracStop(u) = p
  BY <1>7, <1>8 DEF FracStop
<1>10. ~BadInt(u) /\ ~BadFrac(u)
  BY <1>4, <1>7, <1>8 DEF BadInt, BadFrac
<1>11. CASE k = 0
  <2>1. ~At(u, p, {E}) /\ p = Len(u) + 1
    BY <1>1, <1>5, <1>7, <1>11
  <2>2. ~BadExp(u) /\ ExpStop(u) = p
    BY <1>9, <2>1 DEF BadExp, ExpStop
  <2>3. QED BY <1>10, <2>1, <2>2, ScanIs
<1>12. CASE k # 0
  <2>1. PICK q \in Nat \ {0} : q = p + 1 + g
    BY <1>5
  <2>2. l = p + g + k /\ At(u, p, {E})
    BY <1>1, <1>5, <1>7, <1>12
  <2>3. At(u, p + 1, {Plus, Minus}) <=> g = 1
    <3>1. p + 1 <= Len(u) /\ p + 1 = n + 2
      BY <1>1, <1>5, <1>12, <2>2
    <3>2. CASE g = 1
      BY <1>3, <1>12, <3>1, <3>2 DEF At
    <3>3. CASE g = 0
      <4>1. 1 \in 1..k /\ n + 1 + g + 1 = p + 1
        BY <1>5, <1>12, <3>3
      <4>2. u[p + 1] \in Digit
        BY <1>3, <1>12, <4>1
      <4>3. u[p + 1] \notin {Plus, Minus}
        <5>1. \A b \in Digit : b \notin {Plus, Minus}
          BY DEF Plus, Minus, Digit
        <5>2. QED BY <4>2, <5>1, Zenon
      <4>4. QED BY <3>3, <4>3 DEF At
    <3>4. QED BY <3>2, <3>3
  <2>4. ExpFrom(u) = q
    <3>1. p + 2 = p + 1 + 1
      OBVIOUS
    <3>2. QED BY <1>5, <1>9, <2>1, <2>3, <3>1 DEF ExpFrom
  <2>5. ASSUME NEW j \in q..l PROVE u[j] \in Digit
    <3>1. j - p - g \in 1..k /\ n + 1 + g + (j - p - g) = j
      BY <1>5, <2>1, <2>2
    <3>2. QED BY <1>3, <1>12, <3>1
  <2>6. q <= l
    BY <1>12, <2>1, <2>2
  <2>7. At(u, q, Digit)
    <3>1. q \in q..l
      BY <2>6
    <3>2. QED BY <1>1, <2>5, <2>6, <3>1 DEF At
  <2>8. RunEnd(u, q) = l + 1
    <3>1. Run(u, q, l + 1)
      <4>1. (l + 1) - 1 = l /\ q <= l + 1 /\ l + 1 <= Len(u) + 1
        BY <1>1, <2>6
      <4>2. QED BY <2>5, <4>1 DEF Run
    <3>2. ~At(u, l + 1, Digit)
      BY <1>1 DEF At
    <3>3. QED BY <3>1, <3>2, RunStops
  <2>9. ~BadExp(u) /\ ExpStop(u) = l + 1
    BY <1>9, <2>2, <2>4, <2>7, <2>8 DEF BadExp, ExpStop
  <2>10. QED BY <1>1, <1>10, <2>9, ScanIs
<1>13. QED BY <1>11, <1>12

\* The exponent printed: the mark, g bytes of sign and the k digits d.
Prints(x, g, d, k) ==
    /\ k = Len(d) /\ (k = 0 => g = 0)
    /\ Len(x) = IF k = 0 THEN 0 ELSE 1 + g + k
    /\ k # 0 => /\ x[1] = E
                /\ g = 1 => x[2] = Minus
                /\ \A i \in 1..k : x[1 + g + i] = d[i]

LEMMA Joined ==
    ASSUME NEW a \in Seq(Bytes), NEW b \in Seq(Bytes)
    PROVE  /\ a \o b \in Seq(Bytes) /\ Len(a \o b) = Len(a) + Len(b)
           /\ \A i \in 1..Len(a) : (a \o b)[i] = a[i]
           /\ \A i \in 1..Len(b) : (a \o b)[Len(a) + i] = b[i]
<1>1. PICK m \in Nat, n \in Nat : m = Len(a) /\ n = Len(b)
  OBVIOUS
<1>2. /\ a \o b \in Seq(Bytes) /\ Len(a \o b) = m + n
      /\ \A i \in 1..(m + n) : (a \o b)[i] = IF i <= m THEN a[i] ELSE b[i - m]
  BY <1>1, ConcatProperties
<1>3. \A i \in 1..m : (a \o b)[i] = a[i]
  <2>1. \A i \in 1..m : i \in 1..(m + n) /\ i <= m
    OBVIOUS
  <2>2. QED BY <1>2, <2>1
<1>4. \A i \in 1..n : (a \o b)[m + i] = b[i]
  <2>1. \A i \in 1..n : m + i \in 1..(m + n) /\ ~(m + i <= m) /\ (m + i) - m = i
    OBVIOUS
  <2>2. QED BY <1>2, <2>1
<1>5. QED BY <1>1, <1>2, <1>3, <1>4

LEMMA OneBefore ==
    ASSUME NEW b \in Bytes, NEW y \in Seq(Bytes)
    PROVE  /\ <<b>> \o y \in Seq(Bytes) /\ Len(<<b>> \o y) = 1 + Len(y) /\ (<<b>> \o y)[1] = b
           /\ \A i \in 1..Len(y) : (<<b>> \o y)[1 + i] = y[i]
<1>1. PICK h \in Seq(Bytes) : h = <<b>> /\ Len(h) = 1 /\ h[1] = b
  <2>1. <<b>> \in Seq(Bytes) /\ Len(<<b>>) = 1 /\ <<b>>[1] = b
    OBVIOUS
  <2>2. QED BY <2>1
<1>2. 1 \in 1..1
  OBVIOUS
<1>3. QED BY <1>1, <1>2, Joined

LEMMA ExpStringSays ==
    ASSUME NEW e \in Int
    PROVE  \E g \in {0, 1}, d \in Seq(Digit), k \in Nat :
              Prints(ExpString(e), g, d, k) /\ e = SignedBy(g, Coefficient(d))
<1>1. E \in Bytes /\ Minus \in Bytes /\ \A b \in Digit : b \in Bytes
  BY DEF E, Minus, Bytes, Digit
<1>2. CASE e = 0
  <2>1. PICK d \in Seq(Digit) : d = <<>> /\ Len(d) = 0
    <3>1. <<>> \in Seq(Digit) /\ Len(<<>>) = 0
      OBVIOUS
    <3>2. QED BY <3>1
  <2>2. ExpString(e) = d
    BY <1>2, <2>1 DEF ExpString
  <2>3. Coefficient(d) = 0
    BY <2>1, EmptyIs
  <2>4. Prints(ExpString(e), 0, d, 0)
    BY <2>1, <2>2 DEF Prints
  <2>5. 0 \in {0, 1} /\ 0 \in Nat /\ e = SignedBy(0, Coefficient(d))
    BY <1>2, <2>3 DEF SignedBy
  <2>6. QED BY <2>4, <2>5
<1>3. CASE e < 0
  <2>1. PICK m \in Nat : m = -e /\ e = -m
    BY <1>3
  <2>2. PICK d \in Seq(Digit), k \in Nat \ {0} : d = Decimals(m) /\ k = Len(d) /\ Coefficient(d) = m
    BY DecimalsSay
  <2>3. PICK z \in Seq(Bytes) : z = d
    BY <1>1
  <2>4. PICK y \in Seq(Bytes) : /\ y = <<Minus>> \o z /\ Len(y) = 1 + k /\ y[1] = Minus
                                /\ \A i \in 1..k : y[1 + i] = d[i]
    <3>1. /\ <<Minus>> \o z \in Seq(Bytes) /\ Len(<<Minus>> \o z) = 1 + Len(z) /\ (<<Minus>> \o z)[1] = Minus
          /\ \A i \in 1..Len(z) : (<<Minus>> \o z)[1 + i] = z[i]
      BY <1>1, OneBefore
    <3>2. PICK y \in Seq(Bytes) : y = <<Minus>> \o z
      BY <3>1
    <3>3. QED BY <2>2, <2>3, <3>1, <3>2
  <2>5. PICK x \in Seq(Bytes) : /\ x = <<E>> \o y /\ Len(x) = 1 + (1 + k) /\ x[1] = E
                                /\ \A i \in 1..(1 + k) : x[1 + i] = y[i]
    <3>1. /\ <<E>> \o y \in Seq(Bytes) /\ Len(<<E>> \o y) = 1 + Len(y) /\ (<<E>> \o y)[1] = E
          /\ \A i \in 1..Len(y) : (<<E>> \o y)[1 + i] = y[i]
      BY <1>1, OneBefore
    <3>2. PICK x \in Seq(Bytes) : x = <<E>> \o y
      BY <3>1
    <3>3. QED BY <2>4, <3>1, <3>2
  <2>6. ExpString(e) = x
    <3>1. e # 0
      BY <1>3
    <3>2. ExpString(e) = <<E>> \o (<<Minus>> \o Decimals(m))
      BY <1>3, <2>1, <3>1, Zenon DEF ExpString
    <3>3. QED BY <2>2, <2>3, <2>4, <2>5, <3>2, Zenon
  <2>7. x[2] = Minus /\ \A i \in 1..k : x[1 + 1 + i] = d[i]
    <3>1. 1 \in 1..(1 + k) /\ 1 + 1 = 2
      OBVIOUS
    <3>2. x[2] = Minus
      BY <2>4, <2>5, <3>1
    <3>3. \A i \in 1..k : 1 + i \in 1..(1 + k) /\ 1 + (1 + i) = 1 + 1 + i
      OBVIOUS
    <3>4. QED BY <2>4, <2>5, <3>2, <3>3
  <2>8. Prints(x, 1, d, k)
    BY <2>2, <2>5, <2>7 DEF Prints
  <2>9. 1 \in {0, 1} /\ k \in Nat /\ e = SignedBy(1, Coefficient(d))
    BY <2>1, <2>2 DEF SignedBy
  <2>10. QED BY <2>6, <2>8, <2>9
<1>4. CASE e > 0
  <2>1. e \in Nat /\ e # 0 /\ ~(e < 0)
    BY <1>4
  <2>2. PICK d \in Seq(Digit), k \in Nat \ {0} : d = Decimals(e) /\ k = Len(d) /\ Coefficient(d) = e
    BY <2>1, DecimalsSay
  <2>3. PICK z \in Seq(Bytes) : z = d
    BY <1>1
  <2>4. PICK x \in Seq(Bytes) : /\ x = <<E>> \o z /\ Len(x) = 1 + k /\ x[1] = E
                                /\ \A i \in 1..k : x[1 + i] = d[i]
    <3>1. /\ <<E>> \o z \in Seq(Bytes) /\ Len(<<E>> \o z) = 1 + Len(z) /\ (<<E>> \o z)[1] = E
          /\ \A i \in 1..Len(z) : (<<E>> \o z)[1 + i] = z[i]
      BY <1>1, OneBefore
    <3>2. PICK x \in Seq(Bytes) : x = <<E>> \o z
      BY <3>1
    <3>3. QED BY <2>2, <2>3, <3>1, <3>2
  <2>5. ExpString(e) = x
    <3>1. ExpString(e) = <<E>> \o Decimals(e)
      BY <2>1, Zenon DEF ExpString
    <3>2. QED BY <2>2, <2>3, <2>4, <3>1, Zenon
  <2>6. \A i \in 1..k : x[1 + 0 + i] = d[i]
    <3>1. \A i \in 1..k : 1 + 0 + i = 1 + i
      OBVIOUS
    <3>2. QED BY <2>4, <3>1
  <2>7. Prints(x, 0, d, k)
    BY <2>2, <2>4, <2>6 DEF Prints
  <2>8. 0 \in {0, 1} /\ k \in Nat /\ e = SignedBy(0, Coefficient(d))
    BY <2>2 DEF SignedBy
  <2>9. QED BY <2>5, <2>7, <2>8
<1>5. QED BY <1>2, <1>3, <1>4

LEMMA StringSays ==
    ASSUME NEW v, CanonicalNumber(v), NonZero(v.digits)
    PROVE  \E o \in {0, 1}, n \in Nat \ {0}, g \in {0, 1}, d \in Seq(Digit), k \in Nat :
              /\ Laid(String(v), o, v.digits, n, g, d, k) /\ (o = 1 <=> v.neg)
              /\ v.exp = SignedBy(g, Coefficient(d))
<1>1. /\ v.digits \in Seq(Digit) /\ v.digits # <<>> /\ v.digits[1] # 0
      /\ v.exp \in Int /\ v.neg \in BOOLEAN
  BY DEF CanonicalNumber, CanonicalDigits, NonZero, Number
<1>2. Minus \in Bytes /\ \A b \in Digit : b \in Bytes
  BY DEF Minus, Bytes, Digit
<1>3. PICK w \in Seq(Digit), n \in Nat \ {0} : w = v.digits /\ n = Len(w) /\ w[1] # 0
  BY <1>1, EmptySeq
<1>4. PICK z \in Seq(Bytes) : z = w
  BY <1>2
<1>5. PICK h \in Seq(Bytes), o \in {0, 1} :
        /\ h = (IF v.neg THEN <<Minus>> ELSE <<>>) /\ Len(h) = o
        /\ (o = 1 <=> v.neg) /\ (o = 1 => h[1] = Minus)
  <2>1. /\ <<Minus>> \in Seq(Bytes) /\ Len(<<Minus>>) = 1 /\ <<Minus>>[1] = Minus
        /\ <<>> \in Seq(Bytes) /\ Len(<<>>) = 0
    BY <1>2
  <2>2. CASE v.neg
    <3>1. PICK h \in Seq(Bytes) : h = <<Minus>> /\ Len(h) = 1 /\ h[1] = Minus
      BY <2>1
    <3>2. h = (IF v.neg THEN <<Minus>> ELSE <<>>)
      BY <2>2, <3>1, Zenon
    <3>3. 1 \in {0, 1} /\ (1 = 1 <=> v.neg)
      BY <2>2
    <3>4. QED BY <3>1, <3>2, <3>3, Zenon
  <2>3. CASE ~v.neg
    <3>1. PICK h \in Seq(Bytes) : h = <<>> /\ Len(h) = 0
      BY <2>1
    <3>2. h = (IF v.neg THEN <<Minus>> ELSE <<>>)
      BY <2>3, <3>1, Zenon
    <3>3. 0 \in {0, 1} /\ 0 # 1
      OBVIOUS
    <3>4. QED BY <2>3, <3>1, <3>2, <3>3, Zenon
  <2>4. QED BY <2>2, <2>3
<1>6. PICK x \in Seq(Bytes) : x = ExpString(v.exp)
  BY <1>1, ExpStringIsBytes
<1>7. PICK g \in {0, 1}, d \in Seq(Digit), k \in Nat :
        Prints(x, g, d, k) /\ v.exp = SignedBy(g, Coefficient(d))
  BY <1>1, <1>6, ExpStringSays
<1>8. PICK m \in Seq(Bytes) : /\ m = h \o z /\ Len(m) = o + n
                              /\ (o = 1 => m[1] = Minus) /\ \A i \in 1..n : m[o + i] = w[i]
  <2>1. /\ h \o z \in Seq(Bytes) /\ Len(h \o z) = Len(h) + Len(z)
        /\ \A i \in 1..Len(h) : (h \o z)[i] = h[i]
        /\ \A i \in 1..Len(z) : (h \o z)[Len(h) + i] = z[i]
    BY Joined
  <2>2. PICK m \in Seq(Bytes) : m = h \o z
    BY <2>1
  <2>3. Len(h) = o /\ Len(z) = n /\ (o = 1 => 1 \in 1..o)
    BY <1>3, <1>4, <1>5
  <2>4. Len(m) = o + n /\ \A i \in 1..n : m[o + i] = w[i]
    BY <1>4, <2>1, <2>2, <2>3, Zenon
  <2>5. o = 1 => m[1] = Minus
    BY <1>5, <2>1, <2>2, <2>3, Zenon
  <2>6. QED BY <2>2, <2>4, <2>5
<1>9. PICK t \in Seq(Bytes) : /\ t = m \o x /\ Len(t) = o + n + Len(x)
                              /\ \A i \in 1..(o + n) : t[i] = m[i]
                              /\ \A i \in 1..Len(x) : t[o + n + i] = x[i]
  <2>1. /\ m \o x \in Seq(Bytes) /\ Len(m \o x) = Len(m) + Len(x)
        /\ \A i \in 1..Len(m) : (m \o x)[i] = m[i]
        /\ \A i \in 1..Len(x) : (m \o x)[Len(m) + i] = x[i]
    BY Joined
  <2>2. PICK t \in Seq(Bytes) : t = m \o x
    BY <2>1
  <2>3. Len(m) = o + n
    BY <1>8
  <2>4. QED BY <2>1, <2>2, <2>3, Zenon
<1>10. String(v) = t
  <2>1. v.digits # <<0>>
    BY DEF NonZero
  <2>2. String(v) = (IF v.neg THEN <<Minus>> ELSE <<>>) \o v.digits \o ExpString(v.exp)
    BY <2>1, Zenon DEF String
  <2>3. QED BY <1>3, <1>4, <1>5, <1>6, <1>8, <1>9, <2>2, Zenon
<1>11. Signs(t, o, w, n)
  <2>1. (o = 1 => 1 \in 1..(o + n)) /\ \A i \in 1..n : o + i \in 1..(o + n)
    OBVIOUS
  <2>2. QED BY <1>8, <1>9, <2>1 DEF Signs
<1>12. Laid(t, o, w, n, g, d, k)
  <2>1. /\ k = Len(d) /\ (k = 0 => g = 0)
        /\ Len(x) = IF k = 0 THEN 0 ELSE 1 + g + k
    BY <1>7 DEF Prints
  <2>2. Len(t) = IF k = 0 THEN o + n ELSE o + n + 1 + g + k
    <3>1. PICK l \in Nat : l = Len(x) /\ l = IF k = 0 THEN 0 ELSE 1 + g + k
      BY <2>1
    <3>2. Len(t) = o + n + l
      BY <1>9, <3>1, Zenon
    <3>3. QED BY <3>1, <3>2
  <2>3. CASE k = 0
    BY <1>3, <1>11, <2>1, <2>2, <2>3 DEF Laid
  <2>4. CASE k # 0
    <3>1. Len(x) = 1 + g + k
      BY <2>1, <2>4
    <3>2. x[1] = E /\ (g = 1 => x[2] = Minus) /\ \A i \in 1..k : x[1 + g + i] = d[i]
      BY <1>7, <2>4 DEF Prints
    <3>3. t[o + n + 1] = E /\ (g = 1 => t[o + n + 2] = Minus)
      <4>1. 1 \in 1..(1 + g + k) /\ (g = 1 => 2 \in 1..(1 + g + k))
        BY <2>4
      <4>2. QED BY <1>9, <3>1, <3>2, <4>1
    <3>4. ASSUME NEW i \in 1..k PROVE t[o + n + 1 + g + i] = d[i]
      <4>1. 1 + g + i \in 1..(1 + g + k) /\ o + n + (1 + g + i) = o + n + 1 + g + i
        OBVIOUS
      <4>2. t[o + n + (1 + g + i)] = x[1 + g + i]
        BY <1>9, <3>1, <4>1
      <4>3. QED BY <3>2, <4>1, <4>2
    <3>5. QED BY <1>3, <1>11, <2>1, <2>2, <2>4, <3>3, <3>4 DEF Laid
  <2>5. QED BY <2>3, <2>4
<1>13. QED BY <1>3, <1>5, <1>7, <1>10, <1>12, Zenon

\* What is printed is read as what it was, and the lexer takes it.
LEMMA StringReads ==
    ASSUME NEW v, CanonicalNumber(v), NonZero(v.digits), NEW t \in Seq(Bytes), t = String(v)
    PROVE  /\ WrittenCoefficient(t) = Coefficient(v.digits) /\ WrittenExponent(t) = v.exp
           /\ At(t, 1, {Minus}) <=> v.neg
           /\ Lexed(t)
<1>1. PICK w \in Seq(Digit) : w = v.digits
  BY DEF CanonicalNumber, CanonicalDigits
<1>2. PICK o \in {0, 1}, n \in Nat \ {0}, g \in {0, 1}, d \in Seq(Digit), k \in Nat :
        /\ Laid(t, o, w, n, g, d, k) /\ (o = 1 <=> v.neg)
        /\ v.exp = SignedBy(g, Coefficient(d))
  BY <1>1, StringSays
<1>3. WrittenCoefficient(t) = Coefficient(v.digits)
  BY <1>1, <1>2, LaidCoefficient, Zenon
<1>4. WrittenExponent(t) = v.exp
  <2>1. Laid(t, o, w, n, g, d, k)
    BY <1>2
  <2>2. WrittenExponent(t) = SignedBy(g, Coefficient(d))
    BY <2>1, LaidExponent
  <2>3. QED BY <1>2, <2>2, Zenon
<1>5. At(t, 1, {Minus}) <=> v.neg
  BY <1>2, LaidSign, Zenon
<1>6. PICK u \in Seq(Bytes) : u = Unsigned(t) /\ Laid(u, 0, w, n, g, d, k)
  <2>1. Unsigned(t) \in Seq(Bytes) /\ Laid(Unsigned(t), 0, w, n, g, d, k)
    BY <1>2, LaidUnsigned, Zenon
  <2>2. QED BY <2>1, Zenon
<1>7. ScanNumber(u) = Len(u) + 1
  BY <1>6, LaidLexes, Zenon
<1>8. QED BY <1>3, <1>4, <1>5, <1>6, <1>7, Zenon DEF Lexed

LEMMA ZeroReads == Lexed(<<0>>) /\ WrittenCoefficient(<<0>>) = 0
<1>1. PICK t \in Seq(Bytes) : t = <<0>> /\ Len(t) = 1 /\ t[1] = 0
  <2>1. 0 \in Bytes
    BY DEF Bytes
  <2>2. <<0>> \in Seq(Bytes) /\ Len(<<0>>) = 1 /\ <<0>>[1] = 0
    BY <2>1
  <2>3. QED BY <2>2
<1>2. /\ At(t, 1, Digit) /\ At(t, 1, {0}) /\ ~At(t, 1, {Minus})
      /\ \A S : ~At(t, 2, S)
  BY <1>1 DEF At, Digit, Minus
<1>3. Unsigned(t) = t
  BY <1>2, UnsignedIs
<1>4. IntStop(t) = 2 /\ FracStop(t) = 2 /\ ExpStop(t) = 2
  BY <1>2, Zenon DEF IntStop, FracStop, ExpStop
<1>5. ~BadInt(t) /\ ~BadFrac(t) /\ ~BadExp(t)
  BY <1>2, <1>4, Zenon DEF BadInt, BadFrac, BadExp
<1>6. ScanNumber(t) = 2
  BY <1>4, <1>5, ScanIs, Zenon
<1>7. Lexed(t)
  <2>1. Len(t) + 1 = 2
    BY <1>1
  <2>2. QED BY <1>3, <1>6, <2>1, Zenon DEF Lexed
<1>8. WrittenCoefficient(t) = 0
  <2>1. FirstOf(t, E) = 2
    <3>1. 2 \in 1..(Len(t) + 1) /\ ~(2 <= Len(t)) /\ \A k \in 1..(2 - 1) : t[k] # E
      BY <1>1 DEF E
    <3>2. QED BY <3>1, FirstOfOnly
  <2>2. WrittenCoefficient(t) = Coefficients(t)[2 - 1]
    BY <2>1, MantissaIs
  <2>3. Coefficients(t)[0] = 0 /\ Coefficients(t)[0 + 1] =
            IF t[0 + 1] \in Digit THEN 10 * Coefficients(t)[0] + t[0 + 1] ELSE Coefficients(t)[0]
    BY CoefficientsAre
  <2>4. QED BY <1>1, <2>2, <2>3
<1>9. QED BY <1>1, <1>7, <1>8, Zenon

\* A number that does not end in a zero is no multiple of a power of ten.
LEMMA NoPower ==
    ASSUME NEW c \in Nat, c % 10 # 0, NEW d \in Nat, NEW z \in Nat, Ending(c, d, z)
    PROVE  z = 0 /\ c = d
<1>1. CASE z = 0
  <2>1. c = d * Powers[0] /\ Powers[0] = 1
    BY <1>1, PowersAre DEF Ending
  <2>2. d * 1 = d
    OBVIOUS
  <2>3. QED BY <1>1, <2>1, <2>2
<1>2. CASE z # 0
  <2>1. PICK y \in Nat : z = y + 1
    <3>1. z - 1 \in Nat /\ z = (z - 1) + 1
      BY <1>2
    <3>2. QED BY <3>1
  <2>2. PICK p \in Nat : p = Powers[y] /\ Powers[z] = 10 * p
    BY <2>1, PowersAre
  <2>3. PICK q \in Nat : q = d * p
    BY Commute
  <2>4. c = 10 * q
    <3>1. c = d * (10 * p)
      BY <2>2 DEF Ending
    <3>2. d * (10 * p) = (d * 10) * p /\ (10 * d) * p = 10 * (d * p)
      BY Associate
    <3>3. d * 10 = 10 * d
      OBVIOUS
    <3>4. QED BY <2>3, <3>1, <3>2, <3>3
  <2>5. 10 \in Nat \ {0} /\ (10 * q) % 10 = 0
    BY NoRemainder
  <2>6. QED BY <2>4, <2>5
<1>3. QED BY <1>1, <1>2

\* A canonical number is its sign, coefficient and exponent.
LEMMA CanonicalOnce ==
    ASSUME NEW x, NEW y, CanonicalNumber(x), CanonicalNumber(y), NonZero(x.digits), NonZero(y.digits),
           x.neg = y.neg, x.exp = y.exp, Coefficient(x.digits) = Coefficient(y.digits)
    PROVE  x = y
<1>1. Ends(x) /\ Ends(y) /\ Leads(x) /\ Leads(y) /\ Trimmed(x) /\ Trimmed(y)
  BY DEF CanonicalNumber, CanonicalDigits, NonZero, Ends, Leads, Trimmed
<1>2. Places(x, y) = 0 /\ PlacesOf(x, y) = 0
  <2>1. PICK m \in Nat, n \in Nat : m = Len(x.digits) /\ n = Len(y.digits)
    BY <1>1, CoefficientOf
  <2>2. x.exp - y.exp = 0
    BY <1>1, CoefficientOf
  <2>3. Gap(x, y) = 0
    BY <2>1, <2>2 DEF Gap, Clamp
  <2>4. QED BY <2>3 DEF Places, PlacesOf
<1>3. PICK a \in Int : a = Value(x, 0) /\ a = Value(y, 0)
  <2>1. /\ Value(x, 0) = IF x.neg THEN -(Coefficient(x.digits) * Powers[0]) ELSE Coefficient(x.digits) * Powers[0]
        /\ Value(y, 0) = IF y.neg THEN -(Coefficient(y.digits) * Powers[0]) ELSE Coefficient(y.digits) * Powers[0]
        /\ Coefficient(x.digits) * Powers[0] \in Nat
    BY <1>1, ScaledIs
  <2>2. PICK p \in Nat : p = Coefficient(x.digits) * Powers[0] /\ p = Coefficient(y.digits) * Powers[0]
    BY <2>1
  <2>3. CASE x.neg
    <3>1. y.neg
      BY <2>3, Zenon
    <3>2. Value(x, 0) = -p
      BY <2>1, <2>2, <2>3, Zenon
    <3>3. Value(y, 0) = -p
      BY <2>1, <2>2, <3>1, Zenon
    <3>4. QED BY <3>2, <3>3
  <2>4. CASE ~x.neg
    <3>1. ~y.neg
      BY <2>4, Zenon
    <3>2. Value(x, 0) = p
      BY <2>1, <2>2, <2>4, Zenon
    <3>3. Value(y, 0) = p
      BY <2>1, <2>2, <3>1, Zenon
    <3>4. QED BY <3>2, <3>3
  <2>5. QED BY <2>3, <2>4
<1>4. ExactOrder(x, y) = 0
  <2>1. ExactOrder(x, y) = Sign(Value(x, 0) - Value(y, 0))
    BY <1>2, Zenon DEF ExactOrder, Gap, Places, PlacesOf
  <2>2. a - a = 0 /\ Sign(0) = 0
    BY SignOf
  <2>3. QED BY <1>3, <2>1, <2>2
<1>5. CompareNumbers(x, y) = 0
  BY <1>1, <1>4, OrderIsExact
<1>6. Top(x) = Top(y) /\ SameDigits(x, y)
  BY <1>1, <1>5, NumbersEqual
<1>7. QED BY <1>1, <1>6, OneForm

Printed == first # NoNumber => text = String(first)

LEMMA PrintedStep == Printed /\ [Next]_vars => Printed'
<1> SUFFICES ASSUME Printed, [Next]_vars PROVE Printed'
  OBVIOUS
<1>1. CASE UNCHANGED <<text, first>>
  BY <1>1 DEF Printed
<1>2. CASE Reparse
  BY <1>2 DEF Reparse, Printed
<1>3. CASE UNCHANGED vars
  BY <1>1, <1>3 DEF vars
<1>4. CASE ParseStart \/ IntDigit \/ IntEnd \/ Point \/ FracDigit \/ FracEnd
  BY <1>1, <1>4 DEF ParseStart, IntDigit, IntEnd, Point, FracDigit, FracEnd, Return, scanned
<1>5. CASE Canonicalize \/ ExpMark \/ ExpDigit \/ ScanDigit \/ ParseEnd
  BY <1>1, <1>5 DEF Canonicalize, ExpMark, ExpDigit, ScanDigit, ParseEnd, Return, Done, scanned
<1>6. QED BY <1>2, <1>3, <1>4, <1>5 DEF Next

LEMMA ZeroAgain ==
    ASSUME DInv, Reading, Lexing, Refused, first = Zero, text = << 0 >>
    PROVE  pc \notin {"malformed", "missing", "overflow"} /\ (pc = "done" => result = first)
<1>1. Lexed(text) /\ WrittenCoefficient(text) = 0
  BY ZeroReads, Zenon
<1>2. pc \notin {"malformed", "missing", "overflow"}
  BY <1>1, Zenon DEF Lexing, Refused
<1>3. pc = "done" => result = Zero
  BY <1>1 DEF Reading, Answered, Exact
<1>4. QED BY <1>2, <1>3

LEMMA NumberAgain ==
    ASSUME DInv, Reading, Lexing, Refused, CanonicalNumber(first), NonZero(first.digits),
           text = String(first)
    PROVE  pc \notin {"malformed", "missing", "overflow"} /\ (pc = "done" => result = first)
<1>1. text \in Seq(Bytes)
  BY Bounds
<1>2. /\ WrittenCoefficient(text) = Coefficient(first.digits)
      /\ WrittenExponent(text) = first.exp
      /\ At(text, 1, {Minus}) <=> first.neg
      /\ Lexed(text)
  BY <1>1, StringReads
<1>3. PICK c \in Nat \ {0} : c = Coefficient(first.digits) /\ c % 10 # 0
  <2>1. CanonicalDigits(first.digits) /\ first.digits # <<0>>
    BY DEF CanonicalNumber, NonZero
  <2>2. Coefficient(first.digits) \in Nat \ {0} /\ Coefficient(first.digits) % 10 # 0
    BY <2>1, CanonicalCoefficient
  <2>3. QED BY <2>2
<1>4. first.exp \in Exponents /\ first.exp \in Int /\ first.neg \in BOOLEAN
  BY DEF CanonicalNumber, Number
<1>5. pc # "overflow"
  <2>1. c = c * Powers[0]
    <3>1. c * 1 = c
      OBVIOUS
    <3>2. QED BY <3>1, PowersAre
  <2>2. Ending(WrittenCoefficient(text), c, 0) /\ 0 \in Nat
    BY <1>2, <1>3, <2>1 DEF Ending
  <2>3. CanonicalExponent(text) = WrittenExponent(text) + 0
    BY <1>1, <1>3, <2>2, CanonicalExponentIs
  <2>4. CanonicalExponent(text) \in Exponents
    BY <1>2, <1>4, <2>3
  <2>5. QED BY <2>4, Zenon DEF Refused
<1>6. pc \notin {"malformed", "missing"}
  BY <1>2, Zenon DEF Lexing
<1>7. ASSUME pc = "done" PROVE result = first
  <2>1. Exact /\ CanonicalNumber(result)
    BY <1>7 DEF Reading, Answered, DInv, Returned
  <2>2. PICK d, e : d = Coefficient(result.digits) /\ e = WrittenExponent(text)
    OBVIOUS
  <2>3. /\ result.neg = At(text, 1, {Minus}) /\ result.digits[1] # 0
        /\ result.exp \in e..(e + Len(text)) /\ c = d * Powers[result.exp - e]
    BY <1>2, <1>3, <1>7, <2>1, <2>2 DEF Exact
  <2>4. NonZero(result.digits)
    <3>1. <<0>>[1] = 0
      OBVIOUS
    <3>2. QED BY <2>3, <3>1, Zenon DEF NonZero
  <2>5. d \in Nat
    <3>1. CanonicalDigits(result.digits) /\ result.digits # <<0>>
      BY <2>1, <2>4 DEF CanonicalNumber, NonZero
    <3>2. QED BY <2>2, <3>1, CanonicalCoefficient
  <2>6. e = first.exp /\ e \in Int /\ Len(text) \in Nat
    BY <1>2, <1>4, <2>2, Bounds
  <2>7. PICK z \in Nat : z = result.exp - e /\ result.exp \in Int
    BY <2>3, <2>6
  <2>8. Ending(c, d, z)
    BY <2>3, <2>7 DEF Ending
  <2>9. z = 0 /\ c = d
    BY <1>3, <2>5, <2>8, NoPower
  <2>10. result.exp = first.exp
    BY <2>6, <2>7, <2>9
  <2>11. result.neg = first.neg
    <3>1. result.neg \in BOOLEAN
      BY <2>1 DEF CanonicalNumber, Number
    <3>2. result.neg <=> first.neg
      BY <1>2, <2>3, Zenon
    <3>3. QED BY <1>4, <3>1, <3>2
  <2>12. Coefficient(result.digits) = Coefficient(first.digits)
    BY <1>3, <2>2, <2>9
  <2>13. QED BY <2>1, <2>4, <2>10, <2>11, <2>12, CanonicalOnce
<1>8. QED BY <1>5, <1>6, <1>7

\* What a number prints as is taken by Parse and is that number again, with
\* exponents at the limits of int64 too (decimal.go, String, "the canonical
\* compact representation of the number").
THEOREM PrintedNumbersReturn == Spec => []RoundTrip
<1>1. Init => Printed
  BY DEF Init, Printed
<1>2. Spec => []Printed
  BY <1>1, PrintedStep, PTL DEF Spec
<1>3. DInv /\ Reading /\ Lexing /\ Refused /\ Printed => RoundTrip
  <2> SUFFICES ASSUME DInv, Reading, Lexing, Refused, Printed, first # NoNumber
               PROVE  pc \notin {"malformed", "missing", "overflow"} /\ (pc = "done" => result = first)
    BY DEF RoundTrip
  <2>1. CanonicalNumber(first) /\ text = String(first)
    BY DEF DInv, Returned, Printed
  <2>2. CASE first.digits = <<0>>
    <3>1. first = Zero
      BY <2>1, <2>2 DEF CanonicalNumber
    <3>2. text = <<0>>
      BY <2>1, <2>2, Zenon DEF String
    <3>3. QED BY <3>1, <3>2, ZeroAgain
  <2>3. CASE first.digits # <<0>>
    BY <2>1, <2>3, NumberAgain DEF NonZero
  <2>4. QED BY <2>2, <2>3
<1>4. QED BY <1>2, <1>3, DecimalInvariant, ReadingInvariant, LexingInvariant, RefusedInvariant, PTL

=============================================================================
