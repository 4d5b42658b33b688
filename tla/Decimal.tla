------------------------------ MODULE Decimal ------------------------------
(***************************************************************************)
(* Exact decimals: decimal.Parse turns a text into a canonical number      *)
(* digits * 10^exp, in one pass over the bytes, with the exponent in       *)
(* int64 and its magnitude in uint64.  The digits may be gathered in the   *)
(* memory the text is read from ("an allocation-free destructive parser"). *)
(*                                                                         *)
(* A byte is a number: a digit is its value, the other bytes that matter   *)
(* have names below.  int64 ends at MaxExp, uint64 has twice the values.   *)
(***************************************************************************)
EXTENDS Integers, Sequences, SequencesExt

CONSTANTS
    Texts,     \* the texts parsed
    MaxExp,    \* math.MaxInt64
    Samples    \* numbers to compare with, some not canonical

Minus == 10
Plus == 11
Dot == 12
E == 13
Bytes == 0..14

Digit == 0..9
Number == [neg : BOOLEAN, digits : Seq(Digit), exp : Int]

ASSUME DecimalAssumption ==
    /\ MaxExp \in Nat \ {0}
    /\ Texts \subseteq Seq(Bytes) /\ \A t \in Texts : Len(t) <= MaxExp
    /\ Samples \subseteq Number

VARIABLES
    text,        \* what the caller wrote
    raw,         \* the bytes of the text as they read now
    shared,      \* does buf start at raw?
    buf,         \* the digits of the coefficient so far
    pos,         \* the next byte to read
    pc,          \* the part of Parse that runs, or how it returned
    neg,
    fracLen,
    adjust,      \* the exponent the digits alone imply
    expNeg,
    magnitude,   \* of the explicit exponent so far
    result,
    first        \* the number whose String() is parsed again, or NoNumber

scanned == <<text, raw, shared, buf, pos>>
vars == <<text, raw, shared, buf, pos, pc, neg, fracLen, adjust, expNeg,
          magnitude, result, first>>

(***************************************************************************)
(* Machine integers.                                                       *)
(***************************************************************************)
UWidth == 2 * (MaxExp + 1)
Uint64(x) == x % UWidth
Int64(x) == IF x % UWidth <= MaxExp THEN x % UWidth ELSE (x % UWidth) - UWidth
MinMagnitude == MaxExp + 1

AbsExp(v) == IF v >= 0 THEN Uint64(v) ELSE Uint64(Uint64(Int64(-Int64(v + 1))) + 1)

\* The largest magnitude an explicit exponent can have beside adjust; the
\* slip forgets adjust.
ExpLimitAlone(isNeg, adj) == IF isNeg THEN MinMagnitude ELSE MaxExp
ExpLimit(isNeg, adj) ==
    CASE isNeg /\ adj >= 0  -> Uint64(MinMagnitude + Uint64(adj))
      [] isNeg /\ adj < 0   -> Uint64(MinMagnitude - AbsExp(adj))
      [] ~isNeg /\ adj >= 0 -> Uint64(Int64(MaxExp - adj))
      [] ~isNeg /\ adj < 0  -> Uint64(MaxExp + AbsExp(adj))

\* -int64(d), where -2^63 has no positive counterpart
Negated(d) == IF d = MinMagnitude THEN -MaxExp - 1 ELSE Int64(-Int64(d))

ApplyExp(adj, isNeg, mag) ==
    CASE ~isNeg /\ adj >= 0 -> Int64(adj + Int64(mag))
      [] ~isNeg /\ adj < 0  ->
            IF mag >= AbsExp(adj) THEN Int64(Uint64(mag - AbsExp(adj)))
                                  ELSE Negated(Uint64(AbsExp(adj) - mag))
      [] isNeg /\ adj <= 0  -> Negated(Uint64(AbsExp(adj) + mag))
      [] isNeg /\ adj > 0   ->
            IF mag <= adj THEN Int64(Uint64(adj - mag)) ELSE Negated(Uint64(mag - adj))

(***************************************************************************)
(* Numbers.                                                                *)
(***************************************************************************)
Num(isNeg, digits, exp) == [neg |-> isNeg, digits |-> digits, exp |-> exp]
NoNumber == Num(FALSE, <<>>, 0)
Zero == Num(FALSE, <<0>>, 0)

\* The indices after which s has zeros only, and before which.
LeadingZeros(s) == {k \in 0..Len(s) : \A i \in 1..k : s[i] = 0}
TrailingZeros(s) == {k \in 0..(Len(s) - 1) : \A i \in (Len(s) - k + 1)..Len(s) : s[i] = 0}
Most(S) == CHOOSE k \in S : \A l \in S : l <= k

\* The bytes of v.String().
Decimals(n) ==
    LET T[k \in Nat] == IF k < 10 THEN <<k>> ELSE Append(T[k \div 10], k % 10) IN T[n]
ExpString(exp) ==
    IF exp = 0 THEN <<>>
    ELSE <<E>> \o (IF exp < 0 THEN <<Minus>> \o Decimals(-exp) ELSE Decimals(exp))
\* Slip: the sign is left out.
StringUnsigned(v) == IF v.digits = <<0>> THEN <<0>> ELSE v.digits \o ExpString(v.exp)
String(v) ==
    IF v.digits = <<0>> THEN <<0>>
    ELSE (IF v.neg THEN <<Minus>> ELSE <<>>) \o v.digits \o ExpString(v.exp)

\* What the arena stores of a number it is given: an integer that becomes a
\* real brings trailing zeros, which the slip keeps.
InternRawRealAsGiven(v) == IF v.digits = <<0>> THEN Zero ELSE v
InternRawReal(v) ==
    LET t == Most(TrailingZeros(v.digits))
    IN  IF v.digits = <<0>> THEN Zero
        ELSE Num(v.neg, SubSeq(v.digits, 1, Len(v.digits) - t), Int64(v.exp + t))

Sign(n) == IF n < 0 THEN -1 ELSE IF n = 0 THEN 0 ELSE 1

DigitAt(v, i) == IF i <= Len(v.digits) THEN v.digits[i] ELSE 0

\* Slip: exponents first, then the number of digits.
CompareMagnitudeByExp(x, y) ==
    IF x.exp # y.exp THEN Sign(x.exp - y.exp) ELSE Sign(Len(x.digits) - Len(y.digits))
\* By the position of the first digit, then digit by digit.
CompareMagnitude(x, y) ==
    LET xe == x.exp + Len(x.digits)
        ye == y.exp + Len(y.digits)
        differ == {i \in 1..(Len(x.digits) + Len(y.digits)) : DigitAt(x, i) # DigitAt(y, i)}
        i == CHOOSE k \in differ : \A l \in differ : k <= l
    IN  CASE xe # ye                  -> Sign(xe - ye)
          [] xe = ye /\ differ = {}   -> 0
          [] xe = ye /\ differ # {}   -> Sign(DigitAt(x, i) - DigitAt(y, i))

CompareNumbers(x, y) ==
    LET xzero == x.digits = <<0>>
        yzero == y.digits = <<0>>
    IN  CASE xzero /\ yzero    -> 0
          [] xzero /\ ~yzero   -> IF y.neg THEN 1 ELSE -1
          [] ~xzero /\ yzero   -> IF x.neg THEN -1 ELSE 1
          [] OTHER ->
                IF x.neg # y.neg THEN (IF x.neg THEN -1 ELSE 1)
                ELSE (IF x.neg THEN -1 ELSE 1) * CompareMagnitude(x, y)

(***************************************************************************)
(* Parse.                                                                  *)
(***************************************************************************)
More == pos <= Len(raw)
Next1(b) == More /\ raw[pos] = b
AtDigit == More /\ raw[pos] \in Digit

\* Where buf lies in raw when they are shared: only at its start is supported.
BufAtSecondByte == 1
BufStart == 0

\* A byte written to buf[k], in the memory it shares with the text.
Written(m, k, b) == IF shared /\ BufStart + k <= Len(m) THEN [m EXCEPT ![BufStart + k] = b] ELSE m

Push(b) == buf' = Append(buf, b) /\ raw' = Written(raw, Len(buf) + 1, b)

Return(how) ==
    /\ pc' = how
    /\ UNCHANGED <<scanned, neg, fracLen, adjust, expNeg, magnitude, result, first>>

\* The sign and, if it is a zero, the only digit of the integer part.
ParseStart ==
    /\ pc = "start"
    /\ LET p == IF Next1(Minus) THEN 2 ELSE 1
       IN  IF \/ p > Len(raw)
              \/ raw[p] \notin Digit
              \/ raw[p] = 0 /\ p < Len(raw) /\ raw[p + 1] \in Digit
           THEN Return("malformed")
           ELSE /\ neg' = (p = 2)
                /\ IF raw[p] = 0 THEN Push(0) /\ pos' = p + 1 /\ pc' = "point"
                                 ELSE pos' = p /\ pc' = "int" /\ UNCHANGED <<raw, buf>>
                /\ UNCHANGED <<text, shared, fracLen, adjust, expNeg, magnitude, result, first>>

IntDigit ==
    /\ pc = "int" /\ AtDigit
    /\ Push(raw[pos]) /\ pos' = pos + 1
    /\ UNCHANGED <<text, shared, pc, neg, fracLen, adjust, expNeg, magnitude, result, first>>

IntEnd == pc = "int" /\ ~AtDigit /\ Return("point")

Point ==
    /\ pc = "point"
    /\ IF Next1(Dot) THEN pos' = pos + 1 /\ pc' = "frac" ELSE pc' = "canon" /\ UNCHANGED pos
    /\ UNCHANGED <<text, raw, shared, buf, neg, fracLen, adjust, expNeg, magnitude, result, first>>

FracDigit ==
    /\ pc = "frac" /\ AtDigit
    /\ Push(raw[pos]) /\ pos' = pos + 1 /\ fracLen' = fracLen + 1
    /\ UNCHANGED <<text, shared, pc, neg, adjust, expNeg, magnitude, result, first>>

FracEnd ==
    pc = "frac" /\ ~AtDigit /\ Return(IF fracLen = 0 THEN "malformed" ELSE "canon")

AllZeroes == \A k \in DOMAIN buf : buf[k] = 0

\* What the dropped zeros and the fraction do to the exponent; the slip
\* forgets the zeros.
AdjustByFraction(trailing) == Int64(-fracLen)
Adjust(trailing) == Int64(trailing - fracLen)

\* Leading zeros go by moving the digits to the front, trailing zeros by
\* cutting them off.
Canonicalize ==
    /\ pc = "canon"
    /\ LET moved == IF AllZeroes THEN <<0>>
                    ELSE SubSeq(buf, Most(LeadingZeros(buf)) + 1, Len(buf))
           t == Most(TrailingZeros(moved))
       IN  /\ buf' = SubSeq(moved, 1, Len(moved) - t)
           /\ adjust' = IF AllZeroes THEN 0 ELSE Adjust(t)
           /\ raw' = [k \in DOMAIN raw |->
                        IF k - BufStart \in DOMAIN moved THEN Written(raw, k - BufStart, moved[k - BufStart])[k]
                                              ELSE raw[k]]
    /\ pc' = "mark"
    /\ UNCHANGED <<text, shared, pos, neg, fracLen, expNeg, magnitude, result, first>>

Done(exp) ==
    /\ pc' = "done"
    /\ result' = IF buf = <<0>> THEN Zero ELSE Num(neg, buf, exp)
    /\ UNCHANGED <<scanned, neg, fracLen, adjust, expNeg, magnitude, first>>

\* The exponent mark, its sign and that a digit follows.
ExpMark ==
    /\ pc = "mark"
    /\ LET signed == pos + 1 <= Len(raw) /\ raw[pos + 1] \in {Minus, Plus}
           p == IF signed THEN pos + 2 ELSE pos + 1
       IN  CASE ~More -> Done(adjust)
             [] More /\ raw[pos] # E -> Return("malformed")
             [] Next1(E) /\ (p > Len(raw) \/ raw[p] \notin Digit) -> Return("missing")
             [] OTHER ->
                    /\ pos' = p /\ pc' = IF buf = <<0>> THEN "scan" ELSE "exp"
                    /\ expNeg' = (signed /\ raw[pos + 1] = Minus)
                    /\ UNCHANGED <<text, raw, shared, buf, neg, fracLen, adjust, magnitude, result, first>>

\* Would the digit take the magnitude past the limit?  The slip looks at the
\* tens only.
OverLimitByTens(limit, d) == magnitude > limit \div 10
OverLimit(limit, d) ==
    magnitude > limit \div 10 \/ (magnitude = limit \div 10 /\ d > limit % 10)

ExpDigit ==
    /\ pc = "exp" /\ AtDigit
    /\ IF OverLimit(ExpLimit(expNeg, adjust), raw[pos])
       THEN Return("overflow")
       ELSE /\ magnitude' = Uint64(magnitude * 10 + raw[pos]) /\ pos' = pos + 1
            /\ UNCHANGED <<text, raw, shared, buf, pc, neg, fracLen, adjust, expNeg, result, first>>

ScanDigit ==
    /\ pc = "scan" /\ AtDigit
    /\ pos' = pos + 1
    /\ UNCHANGED <<text, raw, shared, buf, pc, neg, fracLen, adjust, expNeg, magnitude, result, first>>

\* Nothing may follow the exponent.
ParseEnd ==
    /\ pc \in {"exp", "scan"} /\ ~AtDigit
    /\ IF More THEN Return("malformed") ELSE Done(ApplyExp(adjust, expNeg, magnitude))

Idle(t) ==
    /\ raw = t /\ buf = <<>> /\ pos = 1 /\ pc = "start" /\ neg = FALSE /\ fracLen = 0
    /\ adjust = 0 /\ expNeg = FALSE /\ magnitude = 0 /\ result = NoNumber

\* The text a number prints as is parsed in its turn, by New or as a literal.
Reparse ==
    /\ pc = "done" /\ first = NoNumber
    /\ first' = result /\ text' = String(result) /\ UNCHANGED shared
    /\ raw' = text' /\ buf' = <<>> /\ pos' = 1 /\ pc' = "start" /\ neg' = FALSE
    /\ fracLen' = 0 /\ adjust' = 0 /\ expNeg' = FALSE /\ magnitude' = 0 /\ result' = NoNumber

Init == text \in Texts /\ shared \in BOOLEAN /\ first = NoNumber /\ Idle(text)

Next ==
    \/ ParseStart \/ IntDigit \/ IntEnd \/ Point \/ FracDigit \/ FracEnd
    \/ Canonicalize \/ ExpMark \/ ExpDigit \/ ScanDigit \/ ParseEnd
    \/ Reparse

Spec == Init /\ [][Next]_vars

(***************************************************************************)
(* What a text says, without machine integers and without Parse.           *)
(***************************************************************************)
\* What the digits among the first k bytes come to.
Coefficients(s) ==
    LET C[k \in Nat] ==
            IF k = 0 THEN 0 ELSE IF s[k] \in Digit THEN 10 * C[k - 1] + s[k] ELSE C[k - 1]
    IN  C
Coefficient(s) == Coefficients(s)[Len(s)]

Powers == LET P[k \in Nat] == IF k = 0 THEN 1 ELSE 10 * P[k - 1] IN P

FirstOf(t, b) ==
    LET at == {k \in DOMAIN t : t[k] = b}
    IN  IF at = {} THEN Len(t) + 1 ELSE CHOOSE k \in at : \A l \in at : k <= l
Tail1(t, k) == SubSeq(t, k + 1, Len(t))

Mantissa(t) == SubSeq(t, 1, FirstOf(t, E) - 1)
Exponent(t) == Tail1(t, FirstOf(t, E))
WrittenCoefficient(t) == Coefficient(Mantissa(t))
WrittenExponent(t) ==
    (IF FirstOf(Exponent(t), Minus) = 1 THEN -1 ELSE 1) * Coefficient(Exponent(t))
        - Len(Tail1(Mantissa(t), FirstOf(Mantissa(t), Dot)))

\* The exponent of the number without trailing zeros.
CanonicalExponent(t) ==
    WrittenExponent(t)
        + Most({k \in 0..Len(Mantissa(t)) : WrittenCoefficient(t) % Powers[k] = 0})

\* The lexer's scanNumber: where the number that starts at byte 1 ends, 0
\* when the lexer refuses it.
RunEnd(t, p) == FirstOf([k \in 1..Len(t) |-> IF k >= p /\ t[k] \notin Digit THEN E ELSE 0], E)
At(t, p, bs) == p <= Len(t) /\ t[p] \in bs
ScanNumber(t) ==
    LET p1 == IF At(t, 1, {0}) THEN 2 ELSE RunEnd(t, 1)
        p2 == IF At(t, p1, {Dot}) THEN RunEnd(t, p1 + 1) ELSE p1
        s  == IF At(t, p2 + 1, {Plus, Minus}) THEN p2 + 2 ELSE p2 + 1
        p3 == IF At(t, p2, {E}) THEN RunEnd(t, s) ELSE p2
    IN  IF \/ ~At(t, 1, Digit)
           \/ At(t, 1, {0}) /\ At(t, 2, Digit)
           \/ At(t, p1, {Dot}) /\ ~At(t, p1 + 1, Digit)
           \/ At(t, p2, {E}) /\ ~At(t, s, Digit)
        THEN 0 ELSE p3

Unsigned(t) == IF At(t, 1, {Minus}) THEN Tail(t) ELSE t
Lexed(t) == ScanNumber(Unsigned(t)) = Len(Unsigned(t)) + 1

(***************************************************************************)
(* Properties.                                                             *)
(***************************************************************************)
TypeOK ==
    /\ raw \in Seq(Bytes) /\ Len(raw) = Len(text)
    /\ buf \in Seq(Digit) /\ pos \in 1..(Len(text) + 1) /\ Len(buf) <= Len(text)
    /\ adjust \in (-MaxExp - 1)..MaxExp
    /\ magnitude \in 0..(IF pc = "exp" THEN ExpLimit(expNeg, adjust) ELSE UWidth - 1)
    /\ pc \in {"start", "int", "point", "frac", "canon", "mark", "exp", "scan",
               "done", "malformed", "missing", "overflow"}
    /\ {result, first} \subseteq Number

\* Bytes still to be read are those the caller wrote, although the digits are
\* gathered in the same memory (decimal.go, "raw and buf may share").
UnreadIntact == \A k \in pos..Len(text) : raw[k] = text[k]

\* A number returned is the number written, and in its only canonical form
\* ("will never have leading or trailing zeroes"), whatever the exponent does
\* at the limits of int64.
Exact ==
    pc = "done" =>
        LET c == WrittenCoefficient(text)
            d == Coefficient(result.digits)
        IN  IF c = 0 THEN result = Zero
            ELSE /\ result.neg = At(text, 1, {Minus})
                 /\ result.digits[1] # 0 /\ d % 10 # 0
                 /\ result.exp \in WrittenExponent(text)..(WrittenExponent(text) + Len(text))
                 /\ c = d * Powers[result.exp - WrittenExponent(text)]

\* Parse takes what the lexer takes for a number, unless the canonical
\* exponent is no int64; it takes nothing else, and never calls a number with
\* a good exponent an overflow.
RefusesExactly ==
    LET fits == \/ WrittenCoefficient(text) = 0
                \/ CanonicalExponent(text) \in (-MaxExp - 1)..MaxExp
    IN  /\ pc = "done" => Lexed(text) /\ fits
        /\ pc \in {"malformed", "missing"} => ~Lexed(text)
        /\ pc = "overflow" /\ Lexed(text) => ~fits

\* What a number prints as is that number again.
RoundTrip == first # NoNumber => pc \notin {"malformed", "missing", "overflow"}
                                 /\ (pc = "done" => result = first)

\* Both numbers in units of the smaller exponent; beyond as many places as
\* the other number has digits the larger exponent decides.
Clamp(n, lo, hi) == IF n < lo THEN lo ELSE IF n > hi THEN hi ELSE n
Value(v, places) == (IF v.neg THEN -1 ELSE 1) * Coefficient(v.digits) * Powers[places]
ExactOrder(x, y) ==
    LET gap == Clamp(x.exp - y.exp, -Len(x.digits), Len(y.digits))
    IN  Sign(Value(x, IF gap > 0 THEN gap ELSE 0) - Value(y, IF gap < 0 THEN -gap ELSE 0))

\* The order of numbers is that of their values, also of integers with
\* trailing zeros and of exponents whose sum with the length is no int64.
OrderIsNumeric ==
    pc = "done" => \A s \in Samples :
        /\ CompareNumbers(result, s) = ExactOrder(result, s)
        /\ CompareNumbers(s, result) = ExactOrder(s, result)

\* The arena keeps one real per value: a decimal and an integer that becomes
\* a real are the same atom exactly when they are equal.
OneReal ==
    pc = "done" => \A s \in Samples :
        (InternRawReal(result) = InternRawReal(s)) <=> (CompareNumbers(result, s) = 0)

=============================================================================
