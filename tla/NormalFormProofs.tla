--------------------------- MODULE NormalFormProofs ---------------------------
(***************************************************************************)
(* Proofs that normal forms are normal: on a line with a point on each     *)
(* side of every cut and between every two (Dense), constraints that       *)
(* accept the same numbers are one constraint, subset answers yes to every *)
(* subset, and a schema nothing satisfies is never.                        *)
(***************************************************************************)
EXTENDS NormalizerProofs

(***************************************************************************)
(* The inductive invariant: what is interned is settled and each           *)
(* constraint is interned once, and the form in progress is formed at the  *)
(* cuts the schemas write.                                                 *)
(***************************************************************************)
OnCuts(b) ==
    /\ "hasMin" \in b.flags => b.min \in Cuts
    /\ "hasMax" \in b.flags => b.max \in Cuts

\* An atom of an enum on a base.
Member(b, a) == (a.kind \in Numeric => a.n \in Cuts) /\ (b = "Real" => a.kind = "RealAtom")

Forming(b, c) ==
    /\ Tidy(c.ints) /\ Tidy(c.reals) /\ Tidy(c.length)
    /\ OnCuts(c.ints) /\ OnCuts(c.reals)
    /\ "hasMin" \in c.length.flags => c.length.min \in 0..MaxLen
    /\ \A k \in DOMAIN c.enum : Member(b, c.enum[k])

Done(b, c) == Forming(b, c) /\ Settled(b, c)

Once ==
    /\ constraintHash = constraints
    /\ \A i \in DOMAIN constraints : constraints[i] # Unconstrained
    /\ \A i, j \in DOMAIN constraints : constraints[i] = constraints[j] => i = j

\* The constraints below the outermost one, too, were finished for the base.
Chained(b, ids) ==
    \A k \in DOMAIN ids : Fits(b, constraints[ids[k]]) /\ Done(b, constraints[ids[k]])

AllDone ==
    \A i \in DOMAIN types :
        /\ Done(types[i].base, ConstraintOf(types[i].constraint))
        /\ Chained(types[i].base, types[i].below)

CInv == Once /\ AllDone /\ Forming(base, norm) /\ Chained(base, below)

(***************************************************************************)
(* Limits.                                                                 *)
(***************************************************************************)
LEMMA NoBoundsTidy == /\ NoBounds \in Limits /\ NoBounds.flags = {} /\ Tidy(NoBounds)
                      /\ OnCuts(NoBounds) /\ ~Both(NoBounds)
  BY DEF NoBounds, Limits, BoundFlags, Tidy, OnCuts, Both

LEMMA UnconstrainedDone ==
    ASSUME NEW b PROVE Done(b, Unconstrained)
<1>1. /\ Unconstrained.ints = NoBounds /\ Unconstrained.reals = NoBounds
      /\ Unconstrained.length = NoBounds /\ Unconstrained.enum = <<>>
  BY DEF Unconstrained
<1>2. Forming(b, Unconstrained)
  BY <1>1, NoBoundsTidy DEF Forming
<1>3. Settled(b, Unconstrained)
  BY <1>1, NoBoundsTidy DEF Settled
<1>4. QED BY <1>2, <1>3 DEF Done

LEMMA AtLeastTidy ==
    ASSUME NEW b \in Limits, NEW n \in Int, NEW incl \in BOOLEAN, Tidy(b)
    PROVE  /\ Tidy(AtLeast(b, n, incl))
           /\ n \in Cuts /\ OnCuts(b) => OnCuts(AtLeast(b, n, incl))
           /\ AtLeast(b, n, incl).min = n \/ ("hasMin" \in b.flags /\ AtLeast(b, n, incl).min = b.min)
<1> DEFINE r == AtLeast(b, n, incl)
           f == (b.flags \ Lower) \cup {"hasMin"} \cup (IF incl THEN {"minInclusive"} ELSE {})
<1>1. b.flags \in SUBSET BoundFlags /\ b.min \in Int /\ b.max \in Int
  BY DEF Limits
<1>2. /\ "hasMin" \in f
      /\ "hasMax" \in f <=> "hasMax" \in b.flags
      /\ "maxInclusive" \in f <=> "maxInclusive" \in b.flags
  BY <1>1 DEF Lower, BoundFlags
<1>3. CASE "hasMin" \notin b.flags \/ n > b.min
              \/ (n = b.min /\ "minInclusive" \in b.flags /\ ~incl)
  <2>1. r = [b EXCEPT !.min = n, !.flags = f]
    BY <1>3 DEF AtLeast
  <2>2. r.min = n /\ r.max = b.max /\ r.flags = f
    BY <1>1, <2>1 DEF Limits
  <2> HIDE DEF f, r
  <2>3. Tidy(r) /\ (n \in Cuts /\ OnCuts(b) => OnCuts(r))
    BY <1>2, <2>2 DEF Tidy, OnCuts
  <2>4. QED BY <2>2, <2>3 DEF r
<1>4. CASE ~("hasMin" \notin b.flags \/ n > b.min
              \/ (n = b.min /\ "minInclusive" \in b.flags /\ ~incl))
  <2>1. r = b
    BY <1>4 DEF AtLeast
  <2>2. QED BY <1>4, <2>1
<1>5. QED BY <1>3, <1>4

LEMMA AtMostTidy ==
    ASSUME NEW b \in Limits, NEW n \in Int, NEW incl \in BOOLEAN, Tidy(b)
    PROVE  /\ Tidy(AtMost(b, n, incl))
           /\ n \in Cuts /\ OnCuts(b) => OnCuts(AtMost(b, n, incl))
           /\ AtMost(b, n, incl).min = b.min
           /\ "hasMin" \in AtMost(b, n, incl).flags <=> "hasMin" \in b.flags
<1> DEFINE r == AtMost(b, n, incl)
           f == (b.flags \ Upper) \cup {"hasMax"} \cup (IF incl THEN {"maxInclusive"} ELSE {})
<1>1. b.flags \in SUBSET BoundFlags /\ b.min \in Int /\ b.max \in Int
  BY DEF Limits
<1>2. /\ "hasMax" \in f
      /\ "hasMin" \in f <=> "hasMin" \in b.flags
      /\ "minInclusive" \in f <=> "minInclusive" \in b.flags
  BY <1>1 DEF Upper, BoundFlags
<1>3. CASE "hasMax" \notin b.flags \/ n < b.max
              \/ (n = b.max /\ "maxInclusive" \in b.flags /\ ~incl)
  <2>1. r = [b EXCEPT !.max = n, !.flags = f]
    BY <1>3 DEF AtMost
  <2>2. r.max = n /\ r.min = b.min /\ r.flags = f
    BY <1>1, <2>1 DEF Limits
  <2> HIDE DEF f, r
  <2>3. Tidy(r) /\ (n \in Cuts /\ OnCuts(b) => OnCuts(r))
    BY <1>2, <2>2 DEF Tidy, OnCuts
  <2>4. QED BY <1>2, <2>2, <2>3 DEF r
<1>4. CASE ~("hasMax" \notin b.flags \/ n < b.max
              \/ (n = b.max /\ "maxInclusive" \in b.flags /\ ~incl))
  <2>1. r = b
    BY <1>4 DEF AtMost
  <2>2. QED BY <1>4, <2>1
<1>5. QED BY <1>3, <1>4

\* A comparison with a literal puts a limit on a cut.
LEMMA WrittenCuts ==
    ASSUME NEW l \in Literals
    PROVE  /\ l.kind \in Numeric => l.n \in Cuts
           /\ l.kind = "IntAtom" => l.n + Step \in Cuts /\ l.n - Step \in Cuts
           /\ l.n \in Int
<1>1. IsAtom(l) /\ l.n \in Int /\ Step \in Nat
  BY LiteralsAssumption, PointsAssumption DEF IsAtom, Atoms
<1>2. l.kind \in Numeric => l.n \in Cuts
  BY DEF Cuts
<1>3. ASSUME l.kind = "IntAtom" PROVE l.n + Step \in Cuts /\ l.n - Step \in Cuts
  <2>1. l \in {x \in Literals : x.kind = "IntAtom"} /\ Step \in {-Step, Step} /\ -Step \in {-Step, Step}
    BY <1>3
  <2>2. l.n + Step \in Cuts /\ l.n + (-Step) \in Cuts
    BY <2>1 DEF Cuts
  <2>3. l.n + (-Step) = l.n - Step
    BY <1>1
  <2>4. QED BY <2>2, <2>3
<1>4. QED BY <1>1, <1>2, <1>3

LEMMA IntFormed ==
    ASSUME Form("Int", norm), Forming("Int", norm), NEW op \in Comparisons,
           NEW l \in Literals, l.kind = "IntAtom",
           NEW c, c = [norm EXCEPT !.ints = ApplyInt(op, l.n)]
    PROVE  Forming("Int", c)
<1> DEFINE r == ApplyInt(op, l.n)
<1>1. /\ norm \in Norm /\ norm.ints \in Limits /\ Tidy(norm.ints) /\ OnCuts(norm.ints)
      /\ l.n \in Int /\ l.n + Step \in Int /\ l.n - Step \in Int
      /\ l.n \in Cuts /\ l.n + Step \in Cuts /\ l.n - Step \in Cuts
  BY WrittenCuts, NormIs, PointsAssumption DEF Form, Forming, Numeric
<1>2. /\ op = "Gt" => r = AtLeast(norm.ints, l.n + Step, FALSE)
      /\ op = "Ge" => r = AtLeast(norm.ints, l.n, FALSE)
      /\ op = "Lt" => r = AtMost(norm.ints, l.n - Step, FALSE)
      /\ op = "Le" => r = AtMost(norm.ints, l.n, FALSE)
  BY DEF ApplyInt, ApplyDiscrete
<1> HIDE DEF r
<1>3. Tidy(r) /\ OnCuts(r)
  <2>1. CASE op = "Gt"
    BY <1>1, <1>2, <2>1, AtLeastTidy
  <2>2. CASE op = "Ge"
    BY <1>1, <1>2, <2>2, AtLeastTidy
  <2>3. CASE op = "Lt"
    BY <1>1, <1>2, <2>3, AtMostTidy
  <2>4. CASE op = "Le"
    BY <1>1, <1>2, <2>4, AtMostTidy
  <2>5. QED BY <2>1, <2>2, <2>3, <2>4 DEF Comparisons
<1>4. c.ints = r /\ c.reals = norm.reals /\ c.length = norm.length /\ c.enum = norm.enum
  BY <1>1 DEF Norm, r
<1>5. QED BY <1>3, <1>4 DEF Forming

LEMMA RealFormed ==
    ASSUME Form("Real", norm), Forming("Real", norm), NEW op \in Comparisons,
           NEW l \in Literals, l.kind \in Numeric,
           NEW c, c = [norm EXCEPT !.reals = ApplyReal(op, l.n)]
    PROVE  Forming("Real", c)
<1> DEFINE r == ApplyReal(op, l.n)
<1>1. /\ norm \in Norm /\ norm.reals \in Limits /\ Tidy(norm.reals) /\ OnCuts(norm.reals)
      /\ l.n \in Int /\ l.n \in Cuts
  BY WrittenCuts, NormIs DEF Form, Forming
<1>2. r = AtLeast(norm.reals, l.n, op = "Ge") \/ r = AtMost(norm.reals, l.n, op = "Le")
  BY DEF ApplyReal
<1> HIDE DEF r
<1>3. Tidy(r) /\ OnCuts(r)
  <2>1. (op = "Ge") \in BOOLEAN /\ (op = "Le") \in BOOLEAN
    OBVIOUS
  <2>2. QED BY <1>1, <1>2, <2>1, AtLeastTidy, AtMostTidy
<1>4. c.ints = norm.ints /\ c.reals = r /\ c.length = norm.length /\ c.enum = norm.enum
  BY <1>1 DEF Norm, r
<1>5. QED BY <1>3, <1>4 DEF Forming

LEMMA LengthFormed ==
    ASSUME Form(base, norm), Forming(base, norm), NEW op \in Comparisons,
           NEW l \in 0..MaxLen, ~Overflow(op, l),
           NEW c, c = [norm EXCEPT !.length = ApplyLen(op, l)]
    PROVE  Forming(base, c)
<1> DEFINE r == ApplyLen(op, l)
           b == norm.length
<1>1. /\ norm \in Norm /\ b \in Limits /\ Tidy(b) /\ l \in Int /\ l + 1 \in Int /\ l - 1 \in Int
      /\ MaxLen \in Nat /\ ("hasMin" \in b.flags => b.min \in 0..MaxLen) /\ l \in 0..MaxLen
  BY NormIs, LengthsAssumption DEF Form, Forming
<1>2. /\ op = "Gt" => r = AtLeast(b, l + 1, FALSE) /\ l + 1 \in 0..MaxLen
      /\ op = "Ge" => r = AtLeast(b, l, FALSE)
      /\ op = "Lt" => r = AtMost(b, l - 1, FALSE)
      /\ op = "Le" => r = AtMost(b, l, FALSE)
  <2>1. ASSUME op = "Gt" PROVE r = AtLeast(b, l + 1, FALSE) /\ l + 1 \in 0..MaxLen
    <3>1. l # MaxLen /\ Wrap(l + 1) = l + 1 /\ l + 1 \in 0..MaxLen
      BY <1>1, <2>1 DEF Overflow, Wrap
    <3>2. r = ApplyDiscrete(b, "Ge", l + 1, 1)
      BY <2>1, <3>1 DEF ApplyLen
    <3>3. QED BY <3>1, <3>2 DEF ApplyDiscrete
  <2>2. op # "Gt" => r = ApplyDiscrete(b, op, l, 1)
    BY DEF ApplyLen
  <2> HIDE DEF r, b
  <2>3. QED BY <2>1, <2>2 DEF ApplyDiscrete
<1> HIDE DEF r, b
<1>3. Tidy(r) /\ ("hasMin" \in r.flags => r.min \in 0..MaxLen)
  <2>1. CASE op = "Gt"
    <3>1. r = AtLeast(b, l + 1, FALSE)
      BY <1>2, <2>1
    <3>2. Tidy(r) /\ (r.min = l + 1 \/ ("hasMin" \in b.flags /\ r.min = b.min))
      BY <1>1, <3>1, AtLeastTidy
    <3>3. QED BY <1>1, <1>2, <2>1, <3>2
  <2>2. CASE op = "Ge"
    <3>1. r = AtLeast(b, l, FALSE)
      BY <1>2, <2>2
    <3>2. Tidy(r) /\ (r.min = l \/ ("hasMin" \in b.flags /\ r.min = b.min))
      BY <1>1, <3>1, AtLeastTidy
    <3>3. QED BY <1>1, <1>2, <2>2, <3>2
  <2>3. CASE op = "Lt"
    <3>1. r = AtMost(b, l - 1, FALSE)
      BY <1>2, <2>3
    <3>2. Tidy(r) /\ r.min = b.min /\ ("hasMin" \in r.flags <=> "hasMin" \in b.flags)
      BY <1>1, <3>1, AtMostTidy
    <3>3. QED BY <1>1, <1>2, <2>3, <3>2
  <2>4. CASE op = "Le"
    <3>1. r = AtMost(b, l, FALSE)
      BY <1>2, <2>4
    <3>2. Tidy(r) /\ r.min = b.min /\ ("hasMin" \in r.flags <=> "hasMin" \in b.flags)
      BY <1>1, <3>1, AtMostTidy
    <3>3. QED BY <1>1, <1>2, <2>4, <3>2
  <2>5. QED BY <2>1, <2>2, <2>3, <2>4 DEF Comparisons
<1>4. c.ints = norm.ints /\ c.reals = norm.reals /\ c.length = r /\ c.enum = norm.enum
  BY <1>1 DEF Norm, r
<1>5. QED BY <1>3, <1>4 DEF Forming

(***************************************************************************)
(* Enums.                                                                  *)
(***************************************************************************)
LEMMA ClauseLiterals ==
    ASSUME NEW clause \in Clauses
    PROVE  /\ clause.of = "x" => clause.lit \in Literals
           /\ clause.of = "in" => \A k \in DOMAIN clause.values : clause.values[k] \in Literals
<1>1. CASE clause.of = "x"
  <2>1. PICK op \in Ops, l \in Literals : clause = [of |-> "x", op |-> op, lit |-> l]
    BY <1>1 DEF Clauses
  <2>2. QED BY <1>1, <2>1
<1>2. CASE clause.of = "in"
  <2>1. PICK s \in BoundedSeq(Literals, MaxEnum) : clause = [of |-> "in", values |-> s]
    BY <1>2 DEF Clauses
  <2>2. s \in UNION {[1..m -> Literals] : m \in 0..MaxEnum}
    BY <2>1 DEF BoundedSeq, SeqOf
  <2>3. PICK m \in 0..MaxEnum : s \in [1..m -> Literals]
    BY <2>2
  <2>4. \A k \in DOMAIN s : s[k] \in Literals
    BY <2>3
  <2>5. clause.values = s
    BY <2>1
  <2>6. QED BY <1>2, <2>4, <2>5
<1>3. QED BY <1>1, <1>2

LEMMA EnumFormed ==
    ASSUME Form(base, norm), Forming(base, norm), NEW values \in Seq(Atoms),
           \A k \in DOMAIN values : values[k] \in Literals /\ AtomCompat(base, values[k]),
           NEW c, c = AddEnum(values)
    PROVE  Forming(base, c)
<1> DEFINE conv == IF base = "Real" THEN [k \in DOMAIN values |-> RealFromInt(values[k])] ELSE values
           w == SortUniqueTypes(conv)
           e == IF norm.hasEnum THEN Intersect(norm.enum, w) ELSE w
<1>1. norm \in Norm /\ norm.enum \in Seq(Atoms) /\ \A k \in DOMAIN norm.enum : Member(base, norm.enum[k])
  BY NormIs DEF Form, Forming
<1>2. /\ conv \in Seq(Atoms) /\ DOMAIN conv = DOMAIN values
      /\ \A k \in DOMAIN values : Member(base, conv[k])
  <2>1. \A k \in DOMAIN values : values[k].kind \in Numeric => values[k].n \in Cuts
    BY WrittenCuts
  <2>2. CASE base = "Real"
    <3>1. conv = [k \in DOMAIN values |-> RealFromInt(values[k])]
      BY <2>2
    <3>2. ASSUME NEW k \in DOMAIN values
          PROVE  RealFromInt(values[k]) \in Atoms /\ Member(base, RealFromInt(values[k]))
      <4>1. values[k] \in Atoms /\ values[k].kind \in Numeric
        BY <2>2 DEF AtomCompat
      <4>2. /\ RealFromInt(values[k]) \in Atoms /\ RealFromInt(values[k]).kind = "RealAtom"
            /\ RealFromInt(values[k]).n = values[k].n
        BY <4>1 DEF RealFromInt, Atoms, AtomKinds, Numeric
      <4>3. QED BY <2>1, <4>1, <4>2 DEF Member
    <3>3. DOMAIN values = 1..Len(values) /\ Len(values) \in Nat
      OBVIOUS
    <3>4. conv \in [1..Len(values) -> Atoms]
      BY <3>1, <3>2, <3>3
    <3>5. QED BY <3>1, <3>2, <3>3, <3>4, SeqDef
  <2>3. CASE base # "Real"
    BY <2>1, <2>3 DEF Member
  <2>4. QED BY <2>2, <2>3
<1> HIDE DEF conv
<1>3. /\ w \in Seq(Atoms)
      /\ \A i \in DOMAIN w : \E k \in DOMAIN conv : w[i] = conv[k]
  BY <1>2, SortUniqueIs
<1> HIDE DEF w
<1>4. \A i \in DOMAIN e : Member(base, e[i])
  <2>1. CASE norm.hasEnum
    <3>1. \A i \in DOMAIN Intersect(norm.enum, w) :
                \E k \in DOMAIN norm.enum : Intersect(norm.enum, w)[i] = norm.enum[k]
      BY <1>1, <1>3, EnumsMeet
    <3>2. QED BY <1>1, <2>1, <3>1
  <2>2. CASE ~norm.hasEnum
    BY <1>2, <1>3, <2>2
  <2>3. QED BY <2>1, <2>2
<1>5. c = [norm EXCEPT !.hasEnum = TRUE, !.enum = e]
  BY DEF AddEnum, conv, w
<1> HIDE DEF e
<1>6. c.ints = norm.ints /\ c.reals = norm.reals /\ c.length = norm.length /\ c.enum = e
  BY <1>1, <1>5 DEF Norm
<1>7. QED BY <1>4, <1>6 DEF Forming

(***************************************************************************)
(* What finish() leaves is settled.                                        *)
(***************************************************************************)
LEMMA WithoutLength ==
    ASSUME Form(base, norm), Forming(base, norm), NEW w, w = WithoutTupleLength(norm)
    PROVE  /\ Forming(base, w) /\ (base = "Tuple" => w.length = NoBounds)
           /\ w.ints = norm.ints /\ w.reals = norm.reals
           /\ base # "Tuple" => w.length = norm.length
<1>1. norm \in Norm
  BY DEF Form
<1>2. CASE base = "Tuple"
  <2>1. w = [norm EXCEPT !.length = NoBounds]
    BY <1>2 DEF WithoutTupleLength
  <2>2. w.ints = norm.ints /\ w.reals = norm.reals /\ w.length = NoBounds /\ w.enum = norm.enum
    BY <1>1, <2>1 DEF Norm
  <2>3. QED BY <1>2, <2>2, NoBoundsTidy DEF Forming
<1>3. CASE base # "Tuple"
  BY <1>3 DEF WithoutTupleLength
<1>4. QED BY <1>2, <1>3

\* A form without an enum, as it stays: its limits leave several numbers.
LEMMA LimitsSettled ==
    ASSUME NEW n, Form(base, n), Forming(base, n), ~n.hasEnum, AsEnum(n) = n,
           ~EmptyDiscrete(n.ints), ~EmptyReal(n.reals), ~EmptyDiscrete(n.length),
           base = "Tuple" => n.length = NoBounds
    PROVE  Settled(base, n)
<1>1. /\ n \in Norm /\ n.ints \in Limits /\ n.reals \in Limits /\ n.length \in Limits
      /\ n.ints.min \in Int /\ n.ints.max \in Int /\ n.reals.min \in Int /\ n.reals.max \in Int
      /\ n.length.min \in Int /\ n.length.max \in Int /\ Fits(base, n) /\ n.enum = <<>>
  BY NormIs DEF Form, Limits
<1>2. ASSUME Both(n.ints) PROVE n.ints.min < n.ints.max
  <2>1. base = "Int" /\ n.ints.min <= n.ints.max
    BY <1>1, <1>2 DEF Both, Fits, EmptyDiscrete
  <2>2. ASSUME n.ints.min = n.ints.max PROVE FALSE
    <3> DEFINE e == [n EXCEPT !.hasEnum = TRUE, !.ints = NoBounds,
                              !.enum = <<Value("IntAtom", n.ints.min, 0)>>]
    <3>1. AsEnum(n) = e
      BY <1>2, <2>1, <2>2 DEF AsEnum
    <3>2. e.hasEnum = TRUE
      BY <1>1 DEF Norm
    <3>3. QED BY <3>1, <3>2
  <2>3. QED BY <1>1, <2>1, <2>2
<1>3. ASSUME Both(n.reals) PROVE n.reals.min < n.reals.max
  <2>1. base = "Real" /\ n.reals.min <= n.reals.max
    BY <1>1, <1>3 DEF Both, Fits, EmptyReal
  <2>2. ASSUME n.reals.min = n.reals.max PROVE FALSE
    <3> DEFINE e == [n EXCEPT !.hasEnum = TRUE, !.reals = NoBounds,
                              !.enum = <<Value("RealAtom", n.reals.min, 0)>>]
    <3>1. n.reals.flags = BoundFlags
      BY <1>1, <1>3, <2>2 DEF Both, EmptyReal, Limits, BoundFlags
    <3>2. AsEnum(n) = e
      BY <2>1, <2>2, <3>1 DEF AsEnum
    <3>3. e.hasEnum = TRUE
      BY <1>1 DEF Norm
    <3>4. QED BY <3>2, <3>3
  <2>3. QED BY <1>1, <2>1, <2>2
<1>4. Both(n.length) => n.length.min <= n.length.max
  BY <1>1 DEF EmptyDiscrete
<1>5. QED BY <1>1, <1>2, <1>3, <1>4 DEF Settled, Forming

LEMMA SingleFormed ==
    ASSUME NEW n, Form(base, n), Forming(base, n), NEW c, c = AsEnum(n)
    PROVE  /\ Forming(base, c) /\ (c.hasEnum \/ c = n)
<1>1. n \in Norm /\ n.hasEnum \in BOOLEAN
  BY NormIs DEF Form
<1>2. CASE n.hasEnum
  BY <1>2 DEF AsEnum
<1>3. CASE ~n.hasEnum /\ base = "Int" /\ Both(n.ints) /\ n.ints.min = n.ints.max
  <2> DEFINE a == Value("IntAtom", n.ints.min, 0)
  <2>1. c = [n EXCEPT !.hasEnum = TRUE, !.ints = NoBounds, !.enum = <<a>>]
    BY <1>3 DEF AsEnum
  <2>2. Member(base, a)
    BY <1>3 DEF Member, Value, Forming, OnCuts, Both
  <2> HIDE DEF a
  <2>3. /\ c.length = n.length /\ c.reals = n.reals /\ c.ints = NoBounds
        /\ c.hasEnum = TRUE /\ c.enum = <<a>>
    BY <1>1, <2>1 DEF Norm
  <2>4. QED BY <2>2, <2>3, NoBoundsTidy DEF Forming
<1>4. CASE ~n.hasEnum /\ base = "Real" /\ n.reals.flags = BoundFlags /\ n.reals.min = n.reals.max
  <2> DEFINE a == Value("RealAtom", n.reals.min, 0)
  <2>1. c = [n EXCEPT !.hasEnum = TRUE, !.reals = NoBounds, !.enum = <<a>>]
    BY <1>4 DEF AsEnum
  <2>2. Member(base, a)
    BY <1>4 DEF Member, Value, Forming, OnCuts, BoundFlags
  <2> HIDE DEF a
  <2>3. /\ c.length = n.length /\ c.reals = NoBounds /\ c.ints = n.ints
        /\ c.hasEnum = TRUE /\ c.enum = <<a>>
    BY <1>1, <2>1 DEF Norm
  <2>4. QED BY <2>2, <2>3, NoBoundsTidy DEF Forming
<1>5. CASE /\ ~n.hasEnum /\ ~(base = "Int" /\ Both(n.ints) /\ n.ints.min = n.ints.max)
           /\ ~(base = "Real" /\ n.reals.flags = BoundFlags /\ n.reals.min = n.reals.max)
  BY <1>5 DEF AsEnum
<1>6. QED BY <1>1, <1>2, <1>3, <1>4, <1>5

LEMMA FinalDone ==
    ASSUME base \in BaseKinds, Form(base, norm), Forming(base, norm), TupleFits(norm),
           ~EmptyDiscrete(norm.ints), ~EmptyReal(norm.reals), ~EmptyDiscrete(norm.length),
           NEW n, n = AsEnum(WithoutTupleLength(norm)), NEW c, c = Final(n)
    PROVE  Done(base, c)
<1>1. PICK w : w = WithoutTupleLength(norm)
  OBVIOUS
<1>2. /\ Form(base, w) /\ Forming(base, w) /\ (base = "Tuple" => w.length = NoBounds)
      /\ w.ints = norm.ints /\ w.reals = norm.reals
      /\ base # "Tuple" => w.length = norm.length
  BY <1>1, TupleDecided, WithoutLength
<1>3. ~EmptyDiscrete(w.length)
  BY <1>2, NoBoundsTidy DEF EmptyDiscrete
<1>4. n = AsEnum(w) /\ Form(base, n) /\ Forming(base, n) /\ (n.hasEnum \/ n = w)
  BY <1>1, <1>2, SingleIs, SingleFormed
<1>5. CASE n.hasEnum
  <2> DEFINE f == Filtered(n)
             S == {a \in Range(n.enum) : AcceptsLimits(a, n)}
  <2>1. c = [Unconstrained EXCEPT !.hasEnum = TRUE, !.enum = f]
    BY <1>5 DEF Final
  <2>2. n.enum \in Seq(Atoms)
    BY <1>4, NormIs DEF Form
  <2>3. \A i \in DOMAIN f : \E k \in DOMAIN n.enum : f[i] = n.enum[k]
    <3>1. IsKept(Kept(n.enum, S), n.enum, S)
      BY <2>2, KeptIs
    <3>2. f = Kept(n.enum, S)
      BY DEF Filtered
    <3>3. QED BY <3>1, <3>2 DEF IsKept
  <2> HIDE DEF f
  <2>4. \A i \in DOMAIN f : Member(base, f[i])
    BY <1>4, <2>3 DEF Forming
  <2>5. c.ints = NoBounds /\ c.reals = NoBounds /\ c.length = NoBounds /\ c.enum = f
    BY <2>1 DEF Unconstrained
  <2>6. Forming(base, c)
    BY <2>4, <2>5, NoBoundsTidy DEF Forming
  <2>7. Settled(base, c)
    BY <2>4, <2>5, NoBoundsTidy DEF Settled, Member
  <2>8. QED BY <2>6, <2>7 DEF Done
<1>6. CASE ~n.hasEnum
  <2>1. c = n /\ n = w /\ AsEnum(n) = n
    BY <1>4, <1>6 DEF Final
  <2>2. Settled(base, n)
    BY <1>2, <1>3, <1>4, <1>6, <2>1, LimitsSettled
  <2>3. QED BY <1>4, <2>1, <2>2 DEF Done
<1>7. QED BY <1>5, <1>6

(***************************************************************************)
(* The steps.                                                              *)
(***************************************************************************)
\* The tables do not change: the form in progress is what remains to be shown.
LEMMA TablesStay ==
    ASSUME CInv, UNCHANGED <<types, constraints, constraintHash>>
    PROVE  Once' /\ AllDone'
  BY DEF CInv, Once, AllDone, ConstraintOf, Chained

\* The form in progress, when it is about the same base.
LEMMA SameBase ==
    ASSUME CInv, UNCHANGED <<types, constraints, constraintHash, base, below>>,
           Forming(base', norm')
    PROVE  CInv'
<1>1. Once' /\ AllDone'
  BY TablesStay
<1>2. Chained(base, below)'
  BY DEF CInv, Chained
<1>3. QED BY <1>1, <1>2 DEF CInv

\* Constraints keep their places, so a chain that was finished is.
LEMMA ChainStays ==
    ASSUME NEW b, NEW ids, Stacks(b, ids), Chained(b, ids),
           \A j \in DOMAIN constraints : constraints'[j] = constraints[j]
    PROVE  Chained(b, ids)'
  BY DEF Chained, Stacks

LEMMA InitCInv == Init => CInv
<1> SUFFICES ASSUME Init PROVE CInv
  OBVIOUS
<1>1. PICK n \in Nat : n = Len(Aliases) /\ DOMAIN Aliases = 1..n
  BY AliasesAssumption
<1>2. /\ DOMAIN types = 1..n /\ DOMAIN constraints = 1..n
      /\ \A i \in 1..n : /\ types[i].base = Aliases[i].base /\ types[i].constraint = i
                         /\ types[i].below = <<>> /\ constraints[i] = Aliases[i].constraint
      /\ constraintHash = constraints /\ norm = Unconstrained /\ base = "Never" /\ below = <<>>
  BY <1>1 DEF Init
<1>3. \A i \in 1..n : ConstraintOf(types[i].constraint) = Aliases[i].constraint
  BY <1>1, <1>2 DEF ConstraintOf
<1>4. Once
  BY <1>1, <1>2, AliasesAssumption DEF Once
<1>5. AllDone
  <2> SUFFICES ASSUME NEW i \in 1..n PROVE Done(Aliases[i].base, Aliases[i].constraint)
    BY <1>2, <1>3 DEF AllDone, Chained
  <2> DEFINE A == Aliases[i].base
             c == Aliases[i].constraint
  <2>1. Settled(A, c)
    BY <1>1, AliasesAssumption
  <2>2. CutsOf(c) \subseteq Cuts
    BY <1>1 DEF Cuts
  <2>3. c \in Norm /\ c.enum \in Seq(Atoms)
    <3> DEFINE R == [base : BaseKinds, constraint : Norm]
    <3>1. Aliases \in Seq(R)
      BY AliasesAssumption
    <3> HIDE DEF R
    <3>2. Aliases[i] \in R
      BY <1>1, <3>1
    <3>3. c \in Norm
      BY <3>2 DEF R
    <3>4. QED BY <3>3, NormIs
  <2> HIDE DEF A, c
  <2>4. OnCuts(c.ints) /\ OnCuts(c.reals)
    BY <2>2 DEF CutsOf, Ends, OnCuts
  <2>5. ASSUME NEW k \in DOMAIN c.enum PROVE Member(A, c.enum[k])
    <3>1. c.enum[k] \in Range(c.enum)
      BY DEF Range
    <3>2. c.enum[k].kind \in Numeric => c.enum[k].n \in Cuts
      BY <2>2, <3>1 DEF CutsOf
    <3>3. QED BY <2>1, <3>2 DEF Settled, Member
  <2>6. Forming(A, c)
    BY <2>1, <2>4, <2>5 DEF Forming, Settled
  <2>7. QED BY <2>1, <2>6 DEF Done, A, c
<1>6. QED BY <1>2, <1>4, <1>5, UnconstrainedDone DEF CInv, Done, Chained

LEMMA StartBaseCInv == CInv /\ StartBase => CInv'
<1> SUFFICES ASSUME CInv, StartBase PROVE CInv'
  OBVIOUS
<1>1. norm' = Unconstrained /\ below' = <<>> /\ UNCHANGED <<types, constraints, constraintHash>>
  BY DEF StartBase, StartFrom
<1>2. Forming(base', Unconstrained)
  BY UnconstrainedDone DEF Done
<1>3. QED BY <1>1, <1>2, TablesStay DEF CInv, Forming, Chained

LEMMA StartNamedCInv == NInv /\ CInv /\ StartNamed => CInv'
<1> SUFFICES ASSUME NInv, CInv, StartNamed PROVE CInv'
  OBVIOUS
<1> DEFINE N(i) == Inherited(types[i])
<1>1. PICK i \in DOMAIN types :
        StartFrom(types[i].base, BaseBelow(types[i]), i, N(i),
                  IF N(i).hasEnum THEN types[i].constraint ELSE 0, Meaning!ReadType(i))
  BY DEF StartNamed
<1> DEFINE b == types[i].base
           c == ConstraintOf(types[i].constraint)
           ids == BaseBelow(types[i])
<1>2. /\ base' = b /\ norm' = N(i) /\ below' = ids
      /\ UNCHANGED <<types, constraints, constraintHash>>
  BY <1>1 DEF StartFrom
<1>3. Forming(b, c) /\ Finished(c) /\ c \in Norm
  BY ConstraintOfIs DEF CInv, AllDone, Done, NInv, Stored, Finished
<1>4. N(i) \in {c, [Unconstrained EXCEPT !.ints = c.ints],
                [c EXCEPT !.ints = NoBounds, !.length = NoBounds], Unconstrained}
  BY DEF Inherited
<1>8. Chained(b, ids)
  <2>1. PICK t \in TypeNodes : t = types[i]
    BY DEF NInv, Stored
  <2>2. /\ Fits(t.base, ConstraintOf(t.constraint)) /\ Done(t.base, ConstraintOf(t.constraint))
        /\ Chained(t.base, t.below)
    BY <2>1 DEF NInv, Stored, CInv, AllDone
  <2>3. t.below \in Seq(Nat) /\ t.constraint \in Nat
    BY DEF TypeNodes
  <2>4. CASE Merges(t)
    BY <2>1, <2>2, <2>4 DEF BaseBelow
  <2>5. CASE ~Merges(t)
    <3>1. t.constraint # 0 /\ ConstraintOf(t.constraint) = constraints[t.constraint]
      BY <2>5 DEF Merges, ConstraintOf
    <3>2. PICK s : s = <<t.constraint>> \o t.below
      OBVIOUS
    <3>3. \A k \in DOMAIN s : s[k] = t.constraint \/ \E l \in DOMAIN t.below : s[k] = t.below[l]
      BY <2>3, <3>2, PrependIs
    <3>4. Chained(t.base, s)
      BY <2>2, <3>1, <3>3 DEF Chained
    <3>5. QED BY <2>1, <2>5, <3>2, <3>4 DEF BaseBelow
  <2>6. QED BY <2>4, <2>5
<1> HIDE DEF N, c, b, ids
<1>5. Forming(b, N(i))
  <2>1. CASE N(i) = c
    BY <1>3, <2>1
  <2>2. CASE N(i) = [Unconstrained EXCEPT !.ints = c.ints]
    <3>1. /\ N(i).ints = c.ints /\ N(i).reals = NoBounds /\ N(i).length = NoBounds
          /\ N(i).enum = <<>>
      BY <2>2 DEF Unconstrained
    <3>2. QED BY <1>3, <3>1, NoBoundsTidy DEF Forming
  <2>3. CASE N(i) = [c EXCEPT !.ints = NoBounds, !.length = NoBounds]
    <3>1. /\ N(i).ints = NoBounds /\ N(i).reals = c.reals /\ N(i).length = NoBounds
          /\ N(i).enum = c.enum
      BY <1>3, <2>3 DEF Norm
    <3>2. QED BY <1>3, <3>1, NoBoundsTidy DEF Forming
  <2>4. CASE N(i) = Unconstrained
    BY <2>4, UnconstrainedDone DEF Done
  <2>5. QED BY <1>4, <2>1, <2>2, <2>3, <2>4
<1>6. Forming(base', norm')
  BY <1>2, <1>5
<1>7. Chained(base, below)'
  BY <1>2, <1>8 DEF Chained
<1>9. QED BY <1>2, <1>6, <1>7, TablesStay DEF CInv

LEMMA ClauseCInv ==
    ASSUME CInv, NEW clause, Consume(clause), Forming(base, norm')
    PROVE  CInv'
<1>1. UNCHANGED <<types, constraints, constraintHash, base, below>>
  BY DEF Consume
<1>2. Forming(base', norm')
  BY <1>1
<1>3. QED BY <1>1, <1>2, SameBase

LEMMA ValueBoundCInv == NInv /\ CInv /\ ValueBound => CInv'
<1> SUFFICES ASSUME NInv, CInv, ValueBound PROVE CInv'
  OBVIOUS
<1>1. PICK clause \in {c \in Clauses : c.of = "x"} :
        /\ Consume(clause)
        /\ \/ /\ base = "Int" /\ clause.lit.kind = "IntAtom"
              /\ norm' = [norm EXCEPT !.ints = ApplyInt(clause.op, clause.lit.n)]
           \/ /\ base = "Real" /\ clause.lit.kind \in Numeric
              /\ norm' = [norm EXCEPT !.reals = ApplyReal(clause.op, clause.lit.n)]
  BY DEF ValueBound
<1>2. clause.op \in Comparisons /\ clause.lit \in Literals
  BY ClauseIs, ClauseLiterals
<1>3. Form(base, norm) /\ Forming(base, norm)
  BY DEF NInv, InProgress, CInv
<1>4. Forming(base, norm')
  BY <1>1, <1>2, <1>3, IntFormed, RealFormed
<1>5. QED BY <1>1, <1>4, ClauseCInv

LEMMA LengthBoundCInv == NInv /\ CInv /\ LengthBound => CInv'
<1> SUFFICES ASSUME NInv, CInv, LengthBound PROVE CInv'
  OBVIOUS
<1>1. PICK clause \in {c \in Clauses : c.of = "len"} :
        LET l == clause.lit.n \div Step
        IN  /\ Consume(clause)
            /\ base \in {"String", "List", "Tuple"} /\ IsLength(clause.lit)
            /\ IF Overflow(clause.op, l)
               THEN impossible' = TRUE /\ norm' = norm
               ELSE /\ norm' = [norm EXCEPT !.length = ApplyLen(clause.op, l)]
                    /\ UNCHANGED impossible
  BY DEF LengthBound
<1>2. PICK l : l = clause.lit.n \div Step
  OBVIOUS
<1>3. clause.op \in Comparisons /\ l \in 0..MaxLen
  BY <1>1, <1>2, ClauseIs, LengthOf
<1>4. Form(base, norm) /\ Forming(base, norm)
  BY DEF NInv, InProgress, CInv
<1>5. Forming(base, norm')
  <2>1. CASE Overflow(clause.op, l)
    BY <1>1, <1>2, <1>4, <2>1
  <2>2. CASE ~Overflow(clause.op, l)
    BY <1>1, <1>2, <1>3, <1>4, <2>2, LengthFormed
  <2>3. QED BY <2>1, <2>2
<1>6. QED BY <1>1, <1>5, ClauseCInv

LEMMA EnumClauseCInv == NInv /\ CInv /\ EnumClause => CInv'
<1> SUFFICES ASSUME NInv, CInv, EnumClause PROVE CInv'
  OBVIOUS
<1>1. PICK clause \in {c \in Clauses : c.of = "in"} :
        /\ Consume(clause)
        /\ \A k \in DOMAIN clause.values : AtomCompat(base, clause.values[k])
        /\ norm' = AddEnum(clause.values)
  BY DEF EnumClause
<1>2. /\ clause.values \in Seq(Atoms)
      /\ \A k \in DOMAIN clause.values : clause.values[k] \in Literals
  BY ClauseIs, ClauseLiterals
<1>3. Form(base, norm) /\ Forming(base, norm)
  BY DEF NInv, InProgress, CInv
<1>4. Forming(base, norm')
  BY <1>1, <1>2, <1>3, EnumFormed
<1>5. QED BY <1>1, <1>4, ClauseCInv

LEMMA EndsFormed == EndSchema => (Forming(base, norm) /\ Chained(base, below))'
<1>1. EndSchema => norm' = Unconstrained /\ below' = <<>>
  BY DEF EndSchema
<1>2. Forming(base', Unconstrained)
  BY UnconstrainedDone DEF Done
<1>3. QED BY <1>1, <1>2 DEF Forming, Chained

LEMMA RejectCInv == CInv /\ Reject => CInv'
  BY TablesStay, EndsFormed DEF Reject, CInv

\* A type that is done is added, and constraints keep their places.
LEMMA TypeDone ==
    ASSUME NInv, CInv, EndSchema, Once', NEW t, types' = Append(types, t),
           \A j \in DOMAIN constraints : constraints'[j] = constraints[j],
           Done(t.base, ConstraintOf(t.constraint)'),
           Stacks(t.base, t.below), Chained(t.base, t.below)
    PROVE  CInv'
<1>1. PICK n \in Nat : /\ n = Len(types) /\ DOMAIN types = 1..n /\ DOMAIN types' = 1..(n + 1)
                       /\ \A i \in 1..n : types'[i] = types[i]
                       /\ types'[n + 1] = t
  BY DEF NInv, Stored
<1>2. \A i \in 1..n : ConstraintOf(types[i].constraint)' = ConstraintOf(types[i].constraint)
  <2> SUFFICES ASSUME NEW i \in 1..n
               PROVE  ConstraintOf(types[i].constraint)' = ConstraintOf(types[i].constraint)
    OBVIOUS
  <2>1. PICK j : j = types[i].constraint
    OBVIOUS
  <2>2. PICK m \in Nat : m = Len(constraints) /\ DOMAIN constraints = 1..m /\ j \in 0..m
    <3>1. constraints \in Seq(Norm) /\ j \in 0..Len(constraints)
      BY <1>1, <2>1 DEF NInv, Stored
    <3>2. QED BY <3>1
  <2>3. types'[i].constraint = j
    BY <1>1, <2>1
  <2>4. j = 0 \/ constraints'[j] = constraints[j]
    <3>1. j = 0 \/ j \in DOMAIN constraints
      BY <2>2
    <3>2. QED BY <3>1
  <2>5. QED BY <2>1, <2>3, <2>4 DEF ConstraintOf
<1>3. AllDone'
  <2> SUFFICES ASSUME NEW i \in 1..(n + 1)
               PROVE  /\ Done(types'[i].base, ConstraintOf(types[i].constraint)')
                      /\ Chained(types[i].base, types[i].below)'
    BY <1>1 DEF AllDone
  <2>1. CASE i \in 1..n
    <3>1. PICK b, ids : b = types[i].base /\ ids = types[i].below
      OBVIOUS
    <3>2. Stacks(b, ids) /\ Chained(b, ids) /\ types'[i] = types[i]
      BY <1>1, <2>1, <3>1 DEF NInv, Stored, CInv, AllDone
    <3>3. Chained(b, ids)'
      BY <3>2, ChainStays
    <3>4. Chained(types[i].base, types[i].below)'
      BY <3>1, <3>2, <3>3 DEF Chained
    <3>5. Done(types'[i].base, ConstraintOf(types[i].constraint)')
      BY <1>1, <1>2, <2>1 DEF CInv, AllDone
    <3>6. QED BY <3>4, <3>5
  <2>2. CASE i = n + 1
    <3>1. Chained(t.base, t.below)'
      BY ChainStays
    <3>2. types'[i] = t
      BY <1>1, <2>2
    <3>3. Chained(types[i].base, types[i].below)'
      BY <3>1, <3>2 DEF Chained
    <3>4. QED BY <3>2, <3>3 DEF ConstraintOf
  <2>3. i \in 1..n \/ i = n + 1
    OBVIOUS
  <2>4. QED BY <2>1, <2>2, <2>3
<1>4. QED BY <1>3, EndsFormed DEF CInv

LEMMA InternedCInv ==
    ASSUME NInv, CInv, EndSchema, NEW c \in Norm, Done(base, c), Interned(constraints, c)
    PROVE  CInv'
<1> DEFINE same == {i \in DOMAIN constraints : constraintHash[i] = c /\ constraints[i] = c}
<1>1. PICK n \in Nat : /\ n = Len(constraints) /\ DOMAIN constraints = 1..n
                       /\ constraints \in Seq(Norm) /\ constraintHash = constraints
  BY DEF NInv, Stored, CInv, Once
<1>2. \/ /\ c = Unconstrained /\ UNCHANGED <<constraints, constraintHash>>
         /\ Refined(0)
      \/ /\ UNCHANGED <<constraints, constraintHash>>
         /\ \E i \in same : Refined(i)
      \/ /\ c # Unconstrained /\ same = {}
         /\ constraints' = Append(constraints, c) /\ constraintHash' = Append(constraintHash, c)
         /\ Refined(n + 1)
  BY <1>1 DEF Interned
<1>3. (\A i \in same : i \in 1..n /\ constraints[i] = c) /\ \A i \in 1..n : constraints[i] = c => i \in same
  BY <1>1
<1> HIDE DEF same
<1>4. CASE /\ UNCHANGED <<constraints, constraintHash>>
           /\ \/ c = Unconstrained /\ Refined(0)
              \/ \E i \in same : Refined(i)
  <2>1. Once' /\ \A j \in DOMAIN constraints : constraints'[j] = constraints[j]
    BY <1>4 DEF CInv, Once
  <2>2. CASE c = Unconstrained /\ Refined(0)
    <3>t. PICK t : t = [base |-> base, constraint |-> 0, below |-> below]
      OBVIOUS
    <3>d. Stacks(t.base, t.below) /\ Chained(t.base, t.below)
      BY <3>t DEF NInv, InProgress, CInv
    <3>1. Done(t.base, ConstraintOf(t.constraint)')
      BY <2>2, <3>t DEF ConstraintOf
    <3>2. types' = Append(types, t)
      BY <2>2, <3>t DEF Refined
    <3>3. QED BY <2>1, <3>1, <3>2, <3>d, TypeDone
  <2>3. ASSUME NEW i \in same, Refined(i)
        PROVE  CInv'
    <3>t. PICK t : t = [base |-> base, constraint |-> i, below |-> below]
      OBVIOUS
    <3>d. Stacks(t.base, t.below) /\ Chained(t.base, t.below)
      BY <3>t DEF NInv, InProgress, CInv
    <3>1. i \in 1..n /\ constraints'[i] = c
      BY <1>3, <1>4, <2>3
    <3>2. Done(t.base, ConstraintOf(t.constraint)')
      BY <3>1, <3>t DEF ConstraintOf
    <3>3. types' = Append(types, t)
      BY <2>3, <3>t DEF Refined
    <3>4. QED BY <2>1, <3>2, <3>3, <3>d, TypeDone
  <2>4. QED BY <1>4, <2>2, <2>3
<1>5. CASE /\ c # Unconstrained /\ same = {}
           /\ constraints' = Append(constraints, c) /\ constraintHash' = Append(constraintHash, c)
           /\ Refined(n + 1)
  <2>1. /\ DOMAIN constraints' = 1..(n + 1) /\ constraints'[n + 1] = c
        /\ \A j \in 1..n : constraints'[j] = constraints[j]
        /\ constraintHash' = constraints'
    BY <1>1, <1>5
  <2>2. \A j \in 1..(n + 1) : j \in 1..n \/ j = n + 1
    OBVIOUS
  <2>3. \A j \in 1..n : constraints'[j] # c
    BY <1>3, <1>5, <2>1
  <2>4. \A j \in 1..(n + 1) : constraints'[j] # Unconstrained
    BY <1>1, <1>5, <2>1, <2>2 DEF CInv, Once
  <2>5. \A i, j \in 1..(n + 1) : constraints'[i] = constraints'[j] => i = j
    <3> SUFFICES ASSUME NEW i \in 1..(n + 1), NEW j \in 1..(n + 1), constraints'[i] = constraints'[j]
                 PROVE  i = j
      OBVIOUS
    <3>1. CASE i \in 1..n /\ j \in 1..n
      <4>1. constraints[i] = constraints[j]
        BY <2>1, <3>1
      <4>2. QED BY <1>1, <3>1, <4>1 DEF CInv, Once
    <3>2. CASE i = n + 1 \/ j = n + 1
      BY <2>1, <2>2, <2>3, <3>2
    <3>3. QED BY <2>2, <3>1, <3>2
  <2>6. Once'
    BY <2>1, <2>4, <2>5 DEF Once
  <2>t. PICK t : t = [base |-> base, constraint |-> n + 1, below |-> below]
    OBVIOUS
  <2>d. Stacks(t.base, t.below) /\ Chained(t.base, t.below)
    BY <2>t DEF NInv, InProgress, CInv
  <2>7. Done(t.base, ConstraintOf(t.constraint)')
    BY <2>1, <2>t DEF ConstraintOf
  <2>8. types' = Append(types, t)
    BY <1>5, <2>t DEF Refined
  <2>9. QED BY <1>1, <2>1, <2>6, <2>7, <2>8, <2>d, TypeDone
<1>6. QED BY <1>2, <1>4, <1>5

LEMMA NeverCInv ==
    ASSUME NInv, CInv, EndSchema, Never, UNCHANGED <<constraints, constraintHash>>
    PROVE  CInv'
<1> DEFINE t == [base |-> "Never", constraint |-> 0, below |-> <<>>]
<1>1. Once' /\ \A j \in DOMAIN constraints : constraints'[j] = constraints[j]
  BY DEF CInv, Once
<1>2. ConstraintOf(t.constraint)' = Unconstrained
  BY DEF ConstraintOf
<1>3. types' = Append(types, t)
  BY DEF Never
<1>4. Stacks(t.base, t.below) /\ Chained(t.base, t.below)
  BY DEF Stacks, Chained
<1> HIDE DEF t
<1>5. QED BY <1>1, <1>2, <1>3, <1>4, UnconstrainedDone, TypeDone

LEMMA FinishCInv == NInv /\ CInv /\ Finish => CInv'
<1> SUFFICES ASSUME NInv, CInv, Finish PROVE CInv'
  OBVIOUS
<1> DEFINE Empty == \/ impossible \/ EmptyDiscrete(norm.ints) \/ EmptyReal(norm.reals)
                    \/ EmptyDiscrete(norm.length) \/ ~TupleFits(norm)
<1>1. PICK n : n = AsEnum(WithoutTupleLength(norm))
  OBVIOUS
<1>2. /\ EndSchema
      /\ Empty => Never /\ UNCHANGED <<constraints, constraintHash>>
      /\ ~Empty /\ n.hasEnum /\ Filtered(n) = <<>> =>
            Never /\ constraints' = Overwritten(n) /\ UNCHANGED constraintHash
      /\ ~Empty /\ ~(n.hasEnum /\ Filtered(n) = <<>>) => Interned(Overwritten(n), Final(n))
  BY <1>1 DEF Finish
<1>3. /\ Form(base, norm) /\ Forming(base, norm) /\ base \in BaseKinds
      /\ Overwritten(n) = constraints
  BY DEF NInv, InProgress, Untouched, Overwritten, CInv
<1>4. CASE Empty
  BY <1>2, <1>4, NeverCInv
<1>5. CASE ~Empty /\ n.hasEnum /\ Filtered(n) = <<>>
  <2>1. Never /\ UNCHANGED <<constraints, constraintHash>>
    BY <1>2, <1>3, <1>5
  <2>2. QED BY <1>2, <2>1, NeverCInv
<1>6. CASE ~Empty /\ ~(n.hasEnum /\ Filtered(n) = <<>>)
  <2>1. PICK c : c = Final(n)
    OBVIOUS
  <2>2. Done(base, c)
    BY <1>1, <1>3, <1>6, <2>1, FinalDone
  <2>3. c \in Norm
    <3>1. PICK w : w = WithoutTupleLength(norm)
      OBVIOUS
    <3>2. Form(base, w)
      BY <1>3, <1>6, <3>1, TupleDecided
    <3>3. Form(base, n)
      BY <1>1, <3>1, <3>2, SingleIs
    <3>4. QED BY <1>6, <2>1, <3>3, FinalIs
  <2>4. Interned(constraints, c)
    BY <1>2, <1>3, <1>6, <2>1
  <2>5. QED BY <1>2, <2>2, <2>3, <2>4, InternedCInv
<1>7. QED BY <1>4, <1>5, <1>6

LEMMA FinishNamedCInv == NInv /\ CInv /\ FinishNamed => CInv'
<1> SUFFICES ASSUME NInv, CInv, FinishNamed PROVE CInv'
  OBVIOUS
<1>1. /\ ~Extends /\ types' = Append(types, types[source]) /\ EndSchema
      /\ UNCHANGED <<constraints, constraintHash>>
  BY DEF FinishNamed
<1>2. PICK t : t = types[source]
  OBVIOUS
<1>3. source \in DOMAIN types
  BY <1>1 DEF NInv, InProgress, Stored, Extends
<1>4. Done(t.base, ConstraintOf(t.constraint)')
  BY <1>1, <1>2, <1>3 DEF CInv, AllDone, ConstraintOf
<1>5. Once' /\ \A j \in DOMAIN constraints : constraints'[j] = constraints[j]
  BY <1>1 DEF CInv, Once
<1>6. Stacks(t.base, t.below) /\ Chained(t.base, t.below)
  BY <1>2, <1>3 DEF NInv, Stored, CInv, AllDone
<1>7. QED BY <1>1, <1>2, <1>4, <1>5, <1>6, TypeDone

LEMMA NextCInv == NInv /\ CInv /\ [Next]_vars => CInv'
<1> SUFFICES ASSUME NInv, CInv, [Next]_vars PROVE CInv'
  OBVIOUS
<1>1. CASE UNCHANGED vars
  <2>1. UNCHANGED <<types, constraints, constraintHash, base, below>> /\ norm' = norm
    BY <1>1 DEF vars
  <2>2. Forming(base', norm')
    BY <2>1 DEF CInv
  <2>3. QED BY <2>1, <2>2, SameBase
<1>2. CASE StartBase
  BY <1>2, StartBaseCInv
<1>3. CASE StartNamed
  BY <1>3, StartNamedCInv
<1>4. CASE ValueBound
  BY <1>4, ValueBoundCInv
<1>5. CASE LengthBound
  BY <1>5, LengthBoundCInv
<1>6. CASE EnumClause
  BY <1>6, EnumClauseCInv
<1>7. CASE Reject
  BY <1>7, RejectCInv
<1>8. CASE Finish
  BY <1>8, FinishCInv
<1>9. CASE FinishNamed
  BY <1>9, FinishNamedCInv
<1>10. QED BY <1>1, <1>2, <1>3, <1>4, <1>5, <1>6, <1>7, <1>8, <1>9 DEF Next

\* Once, AllDone and Forming are inductive together with the invariant of
\* NormalizerProofs.
LEMMA NormalFormInvariant ==
    ASSUME EnumAliases = FALSE
    PROVE  Spec => [](NInv /\ CInv)
<1>1. Init => NInv /\ CInv
  BY InitIs, InitCInv
<1>2. (NInv /\ CInv) /\ [Next]_vars => (NInv /\ CInv)'
  BY StepIs, StutterIs, NextCInv
<1>3. QED BY <1>1, <1>2, PTL DEF Spec

(***************************************************************************)
(* The values at hand.                                                     *)
(***************************************************************************)
LEMMA DenseIs ==
    ASSUME Dense
    PROVE  /\ \A n \in Cuts : n \in Points /\ n \in Int
           /\ \A m \in Cuts, n \in Cuts : m < n => \E p \in Points : p \in Int /\ m < p /\ p < n
           /\ \E p \in Points : p \in Int /\ p % Step = 0 /\ \A n \in Cuts : p < n
           /\ \E q \in Points : q \in Int /\ q % Step = 0 /\ \A n \in Cuts : n < q
<1>1. Points \subseteq Int
  BY PointsAssumption
<1>2. Cuts \subseteq Points /\ \A m \in Cuts, n \in Cuts : m < n => \E p \in Points : m < p /\ p < n
  BY DEF Dense
<1>3. PICK p \in Points, q \in Points : /\ p % Step = 0 /\ q % Step = 0
                                        /\ \A n \in Cuts : p < n /\ n < q
  BY DEF Dense
<1>4. QED BY <1>1, <1>2, <1>3

LEMMA NumberIs ==
    ASSUME NEW p \in Points
    PROVE  /\ Value("RealAtom", p, 0) \in Values("Real")
           /\ p % Step = 0 => Value("IntAtom", p, 0) \in Values("Int")
  BY DEF Values, RealValues, RealAtoms, IntAtoms

LEMMA ValueParts ==
    ASSUME NEW k, NEW n, NEW l
    PROVE  Value(k, n, l).kind = k /\ Value(k, n, l).n = n /\ Value(k, n, l).len = l
  BY DEF Value

\* A literal of an enum is a value of its base.
LEMMA LiteralIsValue ==
    ASSUME Dense, NEW b \in BaseKinds \ {"Never"}, NEW a, Literal(b, a), Member(b, a)
    PROVE  a \in Values(b) /\ a.kind \notin {"List", "Tuple"}
<1>1. /\ a \in Atoms /\ IsAtom(a) /\ AtomCompat(b, a)
      /\ a.kind \in AtomKinds /\ a = Value(a.kind, a.n, a.len)
  BY DEF Literal, IsAtom, Atoms, Value
<1>2. a.kind \in Numeric => a.n \in Points
  BY DenseIs DEF Member
<1>3. CASE a.kind = "BoolAtom"
  <2>1. a \in BoolAtoms
    BY <1>1, <1>3 DEF BoolAtoms, IsAtom
  <2>2. b \in {"Any", "Bool"}
    BY <1>1, <1>3 DEF AtomCompat, BaseKinds, Numeric
  <2>3. QED BY <1>3, <2>1, <2>2 DEF Values, RealValues, ScalarValues
<1>4. CASE a.kind = "IntAtom"
  <2>1. a \in IntAtoms
    BY <1>1, <1>2, <1>4 DEF IntAtoms, IsAtom, Numeric
  <2>2. b \in {"Any", "Int", "Real"}
    BY <1>1, <1>4 DEF AtomCompat, BaseKinds
  <2>3. QED BY <1>4, <2>1, <2>2 DEF Values, RealValues, ScalarValues
<1>5. CASE a.kind = "RealAtom"
  <2>1. a \in RealAtoms
    BY <1>1, <1>2, <1>5 DEF RealAtoms, IsAtom, Numeric
  <2>2. b \in {"Any", "Real"}
    BY <1>1, <1>5 DEF AtomCompat, BaseKinds
  <2>3. QED BY <1>5, <2>1, <2>2 DEF Values, RealValues, ScalarValues
<1>6. CASE a.kind = "StringAtom"
  <2> DEFINE s == <<a.n, a.len>>
  <2>1. s \in Strings /\ a = Value("StringAtom", s[1], s[2])
    BY <1>1, <1>6 DEF IsAtom
  <2> HIDE DEF s
  <2>2. a \in StringAtoms
    BY <2>1 DEF StringAtoms
  <2>3. b \in {"Any", "String"}
    BY <1>1, <1>6 DEF AtomCompat, BaseKinds, Numeric
  <2>4. QED BY <1>6, <2>2, <2>3 DEF Values, RealValues, ScalarValues
<1>7. QED BY <1>1, <1>3, <1>4, <1>5, <1>6 DEF AtomKinds

LEMMA EnumOnly ==
    ASSUME NEW c, Finished(c), c.hasEnum
    PROVE  /\ c.ints = NoBounds /\ c.reals = NoBounds /\ c.length = NoBounds /\ c.format = "noFmt"
           /\ c.enum \in Seq(Atoms) /\ c.enum # <<>> /\ Sorted(c.enum) /\ c \in Norm
           /\ \A v : LimitsOk(v, c)
<1>1. c \in Norm /\ c.hasEnum = TRUE /\ c.enum \in Seq(Atoms) /\ c.enum # <<>> /\ Sorted(c.enum)
  BY NormIs DEF Finished
<1>2. c = [Unconstrained EXCEPT !.hasEnum = TRUE, !.enum = c.enum]
  BY <1>1 DEF Finished
<1>3. PICK e : e = c.enum
  OBVIOUS
<1>4. c = [Unconstrained EXCEPT !.hasEnum = TRUE, !.enum = e]
  BY <1>2, <1>3
<1>5. c.ints = NoBounds /\ c.reals = NoBounds /\ c.length = NoBounds /\ c.format = "noFmt"
  BY <1>4 DEF Unconstrained
<1>6. \A v : LimitsOk(v, c)
  BY <1>5, NoBoundsTidy DEF LimitsOk, IntsOk, RealsOk, FormatOk, LengthOk
<1>7. QED BY <1>1, <1>5, <1>6

LEMMA EnumDenotes ==
    ASSUME Dense, NEW b \in BaseKinds \ {"Never"}, NEW c, Finished(c), Fits(b, c), Done(b, c), c.hasEnum
    PROVE  \A k \in DOMAIN c.enum : c.enum[k] \in Denotes(b, c)
<1> SUFFICES ASSUME NEW k \in DOMAIN c.enum PROVE c.enum[k] \in Denotes(b, c)
  OBVIOUS
<1>1. PICK a : a = c.enum[k]
  OBVIOUS
<1>2. Literal(b, a) /\ Member(b, a)
  BY <1>1 DEF Fits, Literal, Done, Forming
<1>3. a \in Values(b) /\ a.kind \notin {"List", "Tuple"}
  BY <1>2, LiteralIsValue
<1>4. InEnum(a, c.enum)
  BY <1>1, <1>3, SameAtomIs DEF InEnum
<1>5. Accepts(a, c)
  BY <1>4, EnumOnly, AcceptsIs
<1>6. QED BY <1>1, <1>3, <1>5 DEF Denotes

(***************************************************************************)
(* Limits that leave something.                                            *)
(***************************************************************************)
LEMMA IntWitness ==
    ASSUME Dense, NEW b \in Limits, OnCuts(b), Whole(b), Both(b) => b.min < b.max
    PROVE  \E p \in Points : p \in Int /\ p % Step = 0 /\ Within(p, b, FALSE)
<1>1. b.min \in Int /\ b.max \in Int /\ b.min % Step = 0 /\ b.max % Step = 0
  BY DEF Limits, Whole
<1>2. CASE "hasMin" \in b.flags
  <2>1. b.min \in Points /\ Within(b.min, b, FALSE)
    BY <1>1, <1>2, DenseIs DEF Within, Both, OnCuts
  <2>2. QED BY <1>1, <2>1
<1>3. CASE "hasMin" \notin b.flags /\ "hasMax" \in b.flags
  <2>1. b.max \in Points /\ Within(b.max, b, FALSE)
    BY <1>1, <1>3, DenseIs DEF Within, OnCuts
  <2>2. QED BY <1>1, <2>1
<1>4. CASE "hasMin" \notin b.flags /\ "hasMax" \notin b.flags
  <2>1. \A p : Within(p, b, FALSE)
    BY <1>4 DEF Within
  <2>2. QED BY <2>1, DenseIs
<1>5. QED BY <1>2, <1>3, <1>4

LEMMA RealWitness ==
    ASSUME Dense, NEW b \in Limits, OnCuts(b), Both(b) => b.min < b.max
    PROVE  \E p \in Points : p \in Int /\ Within(p, b, TRUE)
<1>1. b.min \in Int /\ b.max \in Int
  BY DEF Limits
<1>2. CASE "hasMin" \in b.flags /\ "hasMax" \in b.flags
  <2>1. PICK p \in Points : p \in Int /\ b.min < p /\ p < b.max
    BY <1>2, DenseIs DEF OnCuts, Both
  <2>2. QED BY <1>1, <2>1 DEF Within
<1>3. CASE "hasMax" \notin b.flags
  <2>1. PICK p \in Points : p \in Int /\ \A n \in Cuts : n < p
    BY DenseIs
  <2>2. QED BY <1>1, <1>3, <2>1 DEF Within, OnCuts
<1>4. CASE "hasMin" \notin b.flags
  <2>1. PICK p \in Points : p \in Int /\ \A n \in Cuts : p < n
    BY DenseIs
  <2>2. QED BY <1>1, <1>4, <2>1 DEF Within, OnCuts
<1>5. QED BY <1>2, <1>3, <1>4

LEMMA LengthWitness ==
    ASSUME NEW b \in Limits, "hasMin" \in b.flags => b.min \in 0..MaxLen,
           Both(b) => b.min <= b.max, b.max >= 0
    PROVE  \E l \in 0..MaxLen : Within(l, b, FALSE)
<1>1. b.min \in Int /\ b.max \in Int /\ MaxLen \in Nat
  BY LengthsAssumption DEF Limits
<1>2. CASE "hasMin" \in b.flags
  <2>1. Within(b.min, b, FALSE)
    BY <1>1, <1>2 DEF Within, Both
  <2>2. QED BY <1>2, <2>1
<1>3. CASE "hasMin" \notin b.flags
  <2>1. Within(0, b, FALSE) /\ 0 \in 0..MaxLen
    BY <1>1, <1>3 DEF Within
  <2>2. QED BY <2>1
<1>4. QED BY <1>2, <1>3

\* What finish() leaves of a base other than never accepts something.
LEMMA SomethingLeft ==
    ASSUME Dense, NEW b \in BaseKinds \ {"Never"}, NEW c, Finished(c), Fits(b, c), Done(b, c),
           c.format = "noFmt", c.length.max >= 0
    PROVE  Denotes(b, c) # {}
<1>1. /\ c \in Norm /\ c.ints \in Limits /\ c.reals \in Limits /\ c.length \in Limits
      /\ c.hasEnum \in BOOLEAN /\ c.enum \in Seq(Atoms)
  BY NormIs DEF Finished
<1>2. CASE c.hasEnum
  <2>1. 1 \in DOMAIN c.enum
    BY <1>1, <1>2, EnumOnly
  <2>2. QED BY <1>2, <2>1, EnumDenotes
<1>3. CASE ~c.hasEnum
  <2>1. SUFFICES \E v \in Values(b) : LimitsOk(v, c)
    BY <1>3, AcceptsIs DEF Denotes
  <2>2. /\ b # "Int" => c.ints.flags = {}
        /\ b # "Real" => c.reals.flags = {}
        /\ b \notin {"String", "List", "Tuple"} => c.length.flags = {}
    BY DEF Fits
  <2>3. \A v : FormatOk(v, c.format)
    BY DEF FormatOk
  <2>4. CASE b \in {"Any", "Bool"}
    <3>1. Value("BoolAtom", 0, 0) \in Values(b)
      BY <2>4 DEF Values, ScalarValues, BoolAtoms
    <3>2. LimitsOk(Value("BoolAtom", 0, 0), c)
      BY <2>2, <2>3, <2>4, NoLimits DEF LimitsOk
    <3>3. QED BY <3>1, <3>2
  <2>5. CASE b = "Int"
    <3>1. PICK p \in Points : p % Step = 0 /\ Within(p, c.ints, FALSE)
      BY <1>1, IntWitness DEF Done, Forming, Settled, Finished
    <3>2. PICK v : v = Value("IntAtom", p, 0)
      OBVIOUS
    <3>3. v \in Values(b) /\ v.kind = "IntAtom" /\ v.n = p
      BY <2>5, <3>1, <3>2, NumberIs, ValueParts
    <3>4. LimitsOk(v, c)
      BY <2>2, <2>3, <2>5, <3>1, <3>3, NoLimits DEF LimitsOk, IntsOk
    <3>5. QED BY <3>3, <3>4
  <2>6. CASE b = "Real"
    <3>1. PICK p \in Points : Within(p, c.reals, TRUE)
      BY <1>1, RealWitness DEF Done, Forming, Settled
    <3>2. PICK v : v = Value("RealAtom", p, 0)
      OBVIOUS
    <3>3. v \in Values(b) /\ v.kind \in Numeric /\ v.n = p
      BY <2>6, <3>2, NumberIs, ValueParts DEF Numeric
    <3>4. LimitsOk(v, c)
      BY <2>2, <2>3, <2>6, <3>1, <3>3, NoLimits DEF LimitsOk, RealsOk
    <3>5. QED BY <3>3, <3>4
  <2>7. CASE b \in {"String", "List"}
    <3>1. PICK l \in 0..MaxLen : Within(l, c.length, FALSE)
      BY <1>1, LengthWitness DEF Done, Settled
    <3>2. PICK v \in Values(b) : v.kind \in {"StringAtom", "List", "Tuple"} /\ v.len = l
      <4>1. CASE b = "String"
        <5>1. PICK s \in Strings : s[2] = l
          BY DEF Dense
        <5>2. Value("StringAtom", s[1], s[2]) \in Values(b)
          BY <4>1 DEF Values, ScalarValues, StringAtoms
        <5>3. QED BY <5>1, <5>2, ValueParts
      <4>2. CASE b = "List"
        <5>1. Value("List", 0, l) \in Values(b)
          BY <4>2 DEF Values, ListValues, Lists
        <5>2. QED BY <5>1, ValueParts
      <4>3. QED BY <2>7, <4>1, <4>2
    <3>3. LimitsOk(v, c)
      BY <2>2, <2>3, <2>7, <3>1, <3>2, NoLimits DEF LimitsOk, LengthOk
    <3>4. QED BY <3>3
  <2>8. CASE b = "Tuple"
    <3>1. Value("Tuple", 0, TupleLen) \in Values(b)
      BY <2>8 DEF Values, ListValues, Tuples
    <3>2. c.length.flags = {}
      BY <2>8, NoBoundsTidy DEF Done, Settled
    <3>3. LimitsOk(Value("Tuple", 0, TupleLen), c)
      BY <2>2, <2>3, <2>8, <3>2, NoLimits DEF LimitsOk
    <3>4. QED BY <3>1, <3>3
  <2>9. QED BY <2>4, <2>5, <2>6, <2>7, <2>8 DEF BaseKinds
<1>4. QED BY <1>1, <1>2, <1>3

(***************************************************************************)
(* Limits that accept less are limits that say more.                       *)
(***************************************************************************)
LEMMA IntLimitsComplete ==
    ASSUME Dense, NEW a \in Limits, NEW b \in Limits, OnCuts(a), OnCuts(b), Whole(a), Whole(b),
           Both(a) => a.min < a.max,
           \A p \in Points : p % Step = 0 /\ Within(p, a, FALSE) => Within(p, b, FALSE)
    PROVE  LimitsSubset(a, b, FALSE)
<1>1. /\ a.min \in Int /\ a.max \in Int /\ b.min \in Int /\ b.max \in Int
      /\ a.min % Step = 0 /\ a.max % Step = 0
  BY DEF Limits, Whole
<1>2. PICK p \in Points : p \in Int /\ p % Step = 0 /\ \A n \in Cuts : p < n
  BY DenseIs
<1>3. PICK q \in Points : q \in Int /\ q % Step = 0 /\ \A n \in Cuts : n < q
  BY DenseIs
<1>4. ASSUME "hasMin" \in b.flags PROVE "hasMin" \in a.flags /\ a.min >= b.min
  <2>1. p < b.min
    BY <1>2, <1>4 DEF OnCuts
  <2>2. ASSUME "hasMin" \notin a.flags PROVE FALSE
    <3>1. Within(p, a, FALSE)
      BY <1>1, <1>2, <2>2 DEF Within, OnCuts
    <3>2. Within(p, b, FALSE)
      BY <1>2, <3>1
    <3>3. QED BY <1>1, <1>2, <1>4, <2>1, <3>2 DEF Within
  <2>3. a.min \in Points /\ Within(a.min, a, FALSE)
    BY <1>1, <2>2, DenseIs DEF OnCuts, Within, Both
  <2>4. Within(a.min, b, FALSE)
    BY <1>1, <2>3
  <2>5. QED BY <1>1, <1>4, <2>2, <2>4 DEF Within
<1>5. ASSUME "hasMax" \in b.flags PROVE "hasMax" \in a.flags /\ a.max <= b.max
  <2>1. b.max < q
    BY <1>3, <1>5 DEF OnCuts
  <2>2. ASSUME "hasMax" \notin a.flags PROVE FALSE
    <3>1. Within(q, a, FALSE)
      BY <1>1, <1>3, <2>2 DEF Within, OnCuts
    <3>2. Within(q, b, FALSE)
      BY <1>3, <3>1
    <3>3. QED BY <1>1, <1>3, <1>5, <2>1, <3>2 DEF Within
  <2>3. a.max \in Points /\ Within(a.max, a, FALSE)
    BY <1>1, <2>2, DenseIs DEF OnCuts, Within, Both
  <2>4. Within(a.max, b, FALSE)
    BY <1>1, <2>3
  <2>5. QED BY <1>1, <1>5, <2>2, <2>4 DEF Within
<1>6. QED BY <1>4, <1>5 DEF LimitsSubset

LEMMA RealLimitsComplete ==
    ASSUME Dense, NEW a \in Limits, NEW b \in Limits, OnCuts(a), OnCuts(b),
           Both(a) => a.min < a.max,
           \A p \in Points : Within(p, a, TRUE) => Within(p, b, TRUE)
    PROVE  LimitsSubset(a, b, TRUE)
<1>1. a.min \in Int /\ a.max \in Int /\ b.min \in Int /\ b.max \in Int
  BY DEF Limits
<1>2. PICK p \in Points : p \in Int /\ \A n \in Cuts : p < n
  BY DenseIs
<1>3. PICK q \in Points : q \in Int /\ \A n \in Cuts : n < q
  BY DenseIs
<1>4. ASSUME "hasMin" \in b.flags PROVE "hasMin" \in a.flags /\ a.min >= b.min
  <2>1. p < b.min /\ b.min < q /\ b.min \in Cuts
    BY <1>2, <1>3, <1>4 DEF OnCuts
  <2>2. ASSUME "hasMin" \notin a.flags PROVE FALSE
    <3>1. Within(p, a, TRUE)
      BY <1>1, <1>2, <2>2 DEF Within, OnCuts
    <3>2. Within(p, b, TRUE)
      BY <3>1
    <3>3. QED BY <1>1, <1>2, <1>4, <2>1, <3>2 DEF Within
  <2>3. ASSUME a.min < b.min PROVE FALSE
    <3>1. PICK r \in Points : r \in Int /\ a.min < r /\ r < b.min /\ ("hasMax" \in a.flags => r < a.max)
      <4>1. CASE "hasMax" \in a.flags /\ a.max < b.min
        <5>1. PICK r \in Points : r \in Int /\ a.min < r /\ r < a.max
          BY <2>2, <4>1, DenseIs DEF OnCuts, Both
        <5>2. QED BY <1>1, <4>1, <5>1
      <4>2. CASE "hasMax" \notin a.flags \/ a.max >= b.min
        <5>1. PICK r \in Points : r \in Int /\ a.min < r /\ r < b.min
          BY <2>1, <2>2, <2>3, DenseIs DEF OnCuts
        <5>2. QED BY <1>1, <4>2, <5>1
      <4>3. QED BY <1>1, <4>1, <4>2
    <3>2. Within(r, a, TRUE)
      BY <1>1, <3>1 DEF Within
    <3>3. Within(r, b, TRUE)
      BY <3>2
    <3>4. QED BY <1>1, <1>4, <3>1, <3>3 DEF Within
  <2>4. QED BY <1>1, <2>2, <2>3
<1>5. ASSUME "hasMax" \in b.flags PROVE "hasMax" \in a.flags /\ a.max <= b.max
  <2>1. b.max < q /\ b.max \in Cuts
    BY <1>3, <1>5 DEF OnCuts
  <2>2. ASSUME "hasMax" \notin a.flags PROVE FALSE
    <3>1. Within(q, a, TRUE)
      BY <1>1, <1>3, <2>2 DEF Within, OnCuts
    <3>2. Within(q, b, TRUE)
      BY <3>1
    <3>3. QED BY <1>1, <1>3, <1>5, <2>1, <3>2 DEF Within
  <2>3. ASSUME b.max < a.max PROVE FALSE
    <3>1. PICK r \in Points : r \in Int /\ b.max < r /\ r < a.max /\ ("hasMin" \in a.flags => a.min < r)
      <4>1. CASE "hasMin" \in a.flags /\ b.max < a.min
        <5>1. PICK r \in Points : r \in Int /\ a.min < r /\ r < a.max
          BY <2>2, <4>1, DenseIs DEF OnCuts, Both
        <5>2. QED BY <1>1, <4>1, <5>1
      <4>2. CASE "hasMin" \notin a.flags \/ b.max >= a.min
        <5>1. PICK r \in Points : r \in Int /\ b.max < r /\ r < a.max
          BY <2>1, <2>2, <2>3, DenseIs DEF OnCuts
        <5>2. QED BY <1>1, <4>2, <5>1
      <4>3. QED BY <1>1, <4>1, <4>2
    <3>2. Within(r, a, TRUE)
      BY <1>1, <3>1 DEF Within
    <3>3. Within(r, b, TRUE)
      BY <3>2
    <3>4. QED BY <1>1, <1>5, <3>1, <3>3 DEF Within
  <2>4. QED BY <1>1, <2>2, <2>3
<1>6. ASSUME "hasMin" \in b.flags, a.min = b.min, "minInclusive" \in a.flags
      PROVE  "minInclusive" \in b.flags
  <2>1. a.min \in Points /\ Within(a.min, a, TRUE)
    BY <1>1, <1>4, <1>6, DenseIs DEF OnCuts, Within, Both
  <2>2. Within(a.min, b, TRUE)
    BY <2>1
  <2>3. QED BY <1>1, <1>6, <2>2 DEF Within
<1>7. ASSUME "hasMax" \in b.flags, a.max = b.max, "maxInclusive" \in a.flags
      PROVE  "maxInclusive" \in b.flags
  <2>1. a.max \in Points /\ Within(a.max, a, TRUE)
    BY <1>1, <1>5, <1>7, DenseIs DEF OnCuts, Within, Both
  <2>2. Within(a.max, b, TRUE)
    BY <2>1
  <2>3. QED BY <1>1, <1>7, <2>2 DEF Within
<1>8. QED BY <1>4, <1>5, <1>6, <1>7 DEF LimitsSubset

LEMMA FreeLimits ==
    ASSUME NEW a, NEW b, b.flags = {}, NEW k
    PROVE  LimitsSubset(a, b, k)
  BY DEF LimitsSubset

LEMMA LimitsAntisymmetric ==
    ASSUME NEW a \in Limits, NEW b \in Limits, Tidy(a), Tidy(b), NEW k \in BOOLEAN,
           ~k => Discrete(a) /\ Discrete(b), LimitsSubset(a, b, k), LimitsSubset(b, a, k)
    PROVE  a = b
<1>1. /\ a.min \in Int /\ a.max \in Int /\ b.min \in Int /\ b.max \in Int
      /\ a.flags \subseteq BoundFlags /\ b.flags \subseteq BoundFlags
      /\ a = [flags |-> a.flags, min |-> a.min, max |-> a.max]
      /\ b = [flags |-> b.flags, min |-> b.min, max |-> b.max]
  BY DEF Limits
<1>2. a.min = b.min /\ a.max = b.max
  BY <1>1 DEF LimitsSubset, Tidy
<1>3. a.flags = b.flags
  <2>1. \A f \in BoundFlags : f \in a.flags <=> f \in b.flags
    BY <1>1, <1>2 DEF LimitsSubset, Tidy, BoundFlags, Discrete
  <2>2. QED BY <1>1, <2>1
<1>4. QED BY <1>1, <1>2, <1>3

(***************************************************************************)
(* Constraints on numbers.                                                 *)
(***************************************************************************)
\* A constraint on numbers, as the theorems below compare them.
Numbers(b, c) ==
    b \in {"Int", "Real"} /\ Finished(c) /\ Fits(b, c) /\ Done(b, c) /\ c.format = "noFmt"

LEMMA NumbersAre ==
    ASSUME NEW b, NEW c, Numbers(b, c)
    PROVE  /\ c \in Norm /\ c.ints \in Limits /\ c.reals \in Limits /\ c.length \in Limits
           /\ c.hasEnum \in BOOLEAN /\ c.enum \in Seq(Atoms) /\ b \in BaseKinds \ {"Never"}
           /\ Tidy(c.ints) /\ Tidy(c.reals) /\ Tidy(c.length)
           /\ OnCuts(c.ints) /\ OnCuts(c.reals) /\ Whole(c.ints) /\ Discrete(c.length)
           /\ (Both(c.ints) => c.ints.min < c.ints.max)
           /\ (Both(c.reals) => c.reals.min < c.reals.max)
           /\ (b = "Int" => c.reals.flags = {}) /\ (b = "Real" => c.ints.flags = {})
           /\ c.length.flags = {}
<1>1. c \in Norm /\ Fits(b, c) /\ Forming(b, c) /\ Settled(b, c)
  BY DEF Numbers, Finished, Done
<1>2. b \in BaseKinds \ {"Never"}
  BY DEF Numbers, BaseKinds
<1>3. /\ (b = "Int" => c.reals.flags = {}) /\ (b = "Real" => c.ints.flags = {})
      /\ c.length.flags = {}
  BY <1>1 DEF Numbers, Fits
<1>4. QED BY <1>1, <1>2, <1>3, NormIs DEF Forming, Settled, Numbers, Finished

\* What the limits of a constraint without an enum accept.
LEMMA NumberAccepted ==
    ASSUME NEW b, NEW c, Numbers(b, c), ~c.hasEnum, NEW p \in Points
    PROVE  /\ b = "Int" /\ p % Step = 0 =>
                (Value("IntAtom", p, 0) \in Denotes(b, c) <=> Within(p, c.ints, FALSE))
           /\ b = "Real" => (Value("RealAtom", p, 0) \in Denotes(b, c) <=> Within(p, c.reals, TRUE))
<1>1. \A v : FormatOk(v, c.format) /\ LengthOk(v, c.length)
  BY NumbersAre, NoLimits DEF FormatOk, Numbers
<1>2. ASSUME b = "Int", p % Step = 0
      PROVE  Value("IntAtom", p, 0) \in Denotes(b, c) <=> Within(p, c.ints, FALSE)
  <2>1. PICK v : v = Value("IntAtom", p, 0)
    OBVIOUS
  <2>2. v \in Values(b) /\ v.kind = "IntAtom" /\ v.n = p
    BY <1>2, <2>1, NumberIs, ValueParts
  <2>3. LimitsOk(v, c) <=> Within(p, c.ints, FALSE)
    BY <1>1, <1>2, <2>2, NumbersAre, NoLimits DEF LimitsOk, IntsOk
  <2>4. QED BY <2>1, <2>2, <2>3, AcceptsIs DEF Denotes
<1>3. ASSUME b = "Real"
      PROVE  Value("RealAtom", p, 0) \in Denotes(b, c) <=> Within(p, c.reals, TRUE)
  <2>1. PICK v : v = Value("RealAtom", p, 0)
    OBVIOUS
  <2>2. v \in Values(b) /\ v.kind \in Numeric /\ v.n = p
    BY <1>3, <2>1, NumberIs, ValueParts DEF Numeric
  <2>3. LimitsOk(v, c) <=> Within(p, c.reals, TRUE)
    BY <1>1, <1>3, <2>2, NumbersAre, NoLimits DEF LimitsOk, RealsOk
  <2>4. QED BY <2>1, <2>2, <2>3, AcceptsIs DEF Denotes
<1>4. QED BY <1>2, <1>3

LEMMA LimitsComplete ==
    ASSUME Dense, NEW b, NEW c, NEW d, Numbers(b, c), Numbers(b, d), ~c.hasEnum, ~d.hasEnum,
           Denotes(b, c) \subseteq Denotes(b, d)
    PROVE  /\ LimitsSubset(c.ints, d.ints, FALSE) /\ LimitsSubset(c.reals, d.reals, TRUE)
           /\ LimitsSubset(c.length, d.length, FALSE) /\ FormatSubset(c.format, d.format)
<1>1. LimitsSubset(c.length, d.length, FALSE) /\ FormatSubset(c.format, d.format)
  BY NumbersAre, FreeLimits DEF FormatSubset, Numbers
<1>2. CASE b = "Int"
  <2>1. \A p \in Points : p % Step = 0 /\ Within(p, c.ints, FALSE) => Within(p, d.ints, FALSE)
    BY <1>2, NumberAccepted
  <2>2. LimitsSubset(c.ints, d.ints, FALSE)
    BY <2>1, NumbersAre, IntLimitsComplete
  <2>3. QED BY <1>1, <1>2, <2>2, NumbersAre, FreeLimits
<1>3. CASE b = "Real"
  <2>1. \A p \in Points : Within(p, c.reals, TRUE) => Within(p, d.reals, TRUE)
    BY <1>3, NumberAccepted
  <2>2. LimitsSubset(c.reals, d.reals, TRUE)
    BY <2>1, NumbersAre, RealLimitsComplete
  <2>3. QED BY <1>1, <1>3, <2>2, NumbersAre, FreeLimits
<1>4. QED BY <1>2, <1>3 DEF Numbers

\* A constraint without an enum is its limits.
LEMMA LimitsAre ==
    ASSUME NEW b, NEW c, NEW d, Numbers(b, c), Numbers(b, d), ~c.hasEnum, ~d.hasEnum,
           c.ints = d.ints, c.reals = d.reals
    PROVE  c = d
<1>1. c.enum = <<>> /\ d.enum = <<>>
  <2>1. ASSUME NEW e, Numbers(b, e), ~e.hasEnum PROVE e.enum = <<>>
    <3>1. e \in Norm /\ e = [e EXCEPT !.enum = <<>>]
      BY <2>1 DEF Numbers, Finished
    <3>2. [e EXCEPT !.enum = <<>>].enum = <<>>
      BY <3>1 DEF Norm
    <3>3. QED BY <3>1, <3>2
  <2>2. QED BY <2>1
<1>2. c.length = d.length
  <2>1. ASSUME NEW e, Numbers(b, e) PROVE e.length = [flags |-> {}, min |-> 0, max |-> 0]
    <3>1. e.length \in Limits /\ Tidy(e.length) /\ e.length.flags = {}
      BY <2>1, NumbersAre
    <3>2. QED BY <3>1 DEF Limits, Tidy
  <2>2. QED BY <2>1
<1>3. c.format = d.format /\ c \in Norm /\ d \in Norm
  BY NumbersAre DEF Numbers
<1>4. c.hasEnum = d.hasEnum
  BY NumbersAre
<1>5. QED BY <1>1, <1>2, <1>3, <1>4, SameForm

LEMMA SubsetComplete ==
    ASSUME Dense, NEW b, NEW c, NEW d, Numbers(b, c), Numbers(b, d), c.hasEnum \/ ~d.hasEnum,
           Denotes(b, c) \subseteq Denotes(b, d)
    PROVE  Subset(c, d)
<1>1. CASE c.hasEnum
  <2>1. \A k \in DOMAIN c.enum : c.enum[k] \in Denotes(b, c)
    BY <1>1, NumbersAre, EnumDenotes DEF Numbers
  <2>2. \A k \in DOMAIN c.enum : Accepts(c.enum[k], d)
    BY <2>1 DEF Denotes
  <2>3. QED BY <1>1, <2>2 DEF Subset
<1>2. CASE ~c.hasEnum
  <2>1. /\ LimitsSubset(c.ints, d.ints, FALSE) /\ LimitsSubset(c.reals, d.reals, TRUE)
        /\ LimitsSubset(c.length, d.length, FALSE) /\ FormatSubset(c.format, d.format)
    BY <1>2, LimitsComplete
  <2>2. CASE c # Unconstrained
    BY <1>2, <2>1, <2>2 DEF Subset
  <2>3. CASE c = Unconstrained
    <3>1. c.ints = NoBounds /\ c.reals = NoBounds
      BY <2>3 DEF Unconstrained
    <3>2. LimitsSubset(d.ints, NoBounds, FALSE) /\ LimitsSubset(d.reals, NoBounds, TRUE)
      BY NoBoundsTidy, FreeLimits
    <3>3. d.ints \in Limits /\ Tidy(d.ints) /\ d.reals \in Limits /\ Tidy(d.reals)
          /\ Discrete(d.ints) /\ Discrete(NoBounds)
      BY NumbersAre, NoBoundsTidy DEF Whole, Discrete
    <3>4. d.ints = NoBounds
      <4>1. LimitsSubset(NoBounds, d.ints, FALSE)
        BY <2>1, <3>1
      <4>2. QED BY <3>2, <3>3, <4>1, NoBoundsTidy, LimitsAntisymmetric
    <3>5. d.reals = NoBounds
      <4>1. LimitsSubset(NoBounds, d.reals, TRUE)
        BY <2>1, <3>1
      <4>2. QED BY <3>2, <3>3, <4>1, NoBoundsTidy, LimitsAntisymmetric
    <3>6. d = c
      BY <1>2, <3>1, <3>4, <3>5, LimitsAre
    <3>7. QED BY <3>6 DEF Subset
  <2>4. QED BY <2>2, <2>3
<1>3. QED BY <1>1, <1>2, NumbersAre

(***************************************************************************)
(* Equal meaning, equal form.                                              *)
(***************************************************************************)
NumberKind(b) == IF b = "Int" THEN "IntAtom" ELSE "RealAtom"

LEMMA EnumAtoms ==
    ASSUME NEW b, NEW c, Numbers(b, c), c.hasEnum
    PROVE  /\ \A k \in 1..Len(c.enum) : /\ c.enum[k] \in Atoms /\ c.enum[k].n \in Cuts
                                        /\ c.enum[k].kind = NumberKind(b) /\ c.enum[k].len = 0
           /\ \A k, l \in 1..Len(c.enum) : k < l => c.enum[k].n < c.enum[l].n
           /\ Len(c.enum) \in Nat /\ DOMAIN c.enum = 1..Len(c.enum) /\ c.enum # <<>>
<1>1. /\ c.enum \in Seq(Atoms) /\ Len(c.enum) \in Nat /\ DOMAIN c.enum = 1..Len(c.enum)
      /\ c.enum # <<>> /\ Sorted(c.enum)
  BY EnumOnly DEF Numbers
<1>2. ASSUME NEW k \in 1..Len(c.enum)
      PROVE  /\ c.enum[k] \in Atoms /\ c.enum[k].n \in Cuts
             /\ c.enum[k].kind = NumberKind(b) /\ c.enum[k].len = 0
  <2>1. PICK a : a = c.enum[k]
    OBVIOUS
  <2>2. a \in Atoms /\ IsAtom(a) /\ AtomCompat(b, a) /\ Member(b, a)
    BY <1>1, <2>1 DEF Numbers, Fits, Done, Forming
  <2>3. a.kind = NumberKind(b) /\ a.kind \in Numeric
    BY <2>2 DEF AtomCompat, Member, NumberKind, Numeric, Numbers
  <2>4. a.len = 0 /\ a.n \in Cuts
    BY <2>2, <2>3 DEF IsAtom, Member, Numeric
  <2>5. QED BY <2>1, <2>2, <2>3, <2>4
<1>3. ASSUME NEW k \in 1..Len(c.enum), NEW l \in 1..Len(c.enum), k < l
      PROVE  c.enum[k].n < c.enum[l].n
  <2>1. PICK x, y : x = c.enum[k] /\ y = c.enum[l]
    OBVIOUS
  <2>2. Before(x, y)
    BY <1>1, <1>3, <2>1 DEF Sorted
  <2>3. Rank(x) = 2 /\ Rank(y) = 2
    BY <1>2, <2>1 DEF NumberKind, Rank, Numeric
  <2>4. QED BY <2>1, <2>2, <2>3 DEF Before
<1>4. QED BY <1>1, <1>2, <1>3

LEMMA EnumMembers ==
    ASSUME Dense, NEW b, NEW c, NEW d, Numbers(b, c), Numbers(b, d), c.hasEnum, d.hasEnum,
           Denotes(b, c) \subseteq Denotes(b, d)
    PROVE  AllIn(c.enum, Len(c.enum), d.enum, Len(d.enum))
<1> SUFFICES ASSUME NEW k \in 1..Len(c.enum)
             PROVE  \E l \in 1..Len(d.enum) : c.enum[k] = d.enum[l]
  BY DEF AllIn
<1>1. PICK a : a = c.enum[k]
  OBVIOUS
<1>2. a \in Denotes(b, c)
  BY <1>1, EnumAtoms, EnumDenotes, NumbersAre DEF Numbers
<1>3. Accepts(a, d)
  BY <1>2 DEF Denotes
<1>4. PICK l \in 1..Len(d.enum) : SameAtom(a, d.enum[l])
  BY <1>3, EnumAtoms, AcceptsIs DEF InEnum
<1>5. PICK e : e = d.enum[l]
  OBVIOUS
<1>6. /\ a \in Atoms /\ e \in Atoms /\ a.kind = e.kind /\ a.len = e.len
  BY <1>1, <1>5, EnumAtoms
<1>7. a.n = e.n
  BY <1>4, <1>5 DEF SameAtom
<1>8. a = e
  BY <1>6, <1>7 DEF Atoms
<1>9. QED BY <1>1, <1>5, <1>8

LEMMA SameEnum ==
    ASSUME Dense, NEW b, NEW c, NEW d, Numbers(b, c), Numbers(b, d), c.hasEnum, d.hasEnum,
           Denotes(b, c) = Denotes(b, d)
    PROVE  c = d
<1>1. PICK s \in Seq(Atoms), t \in Seq(Atoms), m \in Nat, n \in Nat :
            s = c.enum /\ m = Len(s) /\ t = d.enum /\ n = Len(t)
  BY EnumAtoms, EnumOnly DEF Numbers
<1>2. AllIn(s, m, t, n) /\ AllIn(t, n, s, m)
  BY <1>1, EnumMembers
<1>3. PICK key : key = [a \in Atoms |-> a.n]
  OBVIOUS
<1>4. /\ \A k \in 1..m : s[k] \in Atoms /\ s[k].n \in Int
      /\ \A k \in 1..n : t[k] \in Atoms /\ t[k].n \in Int
  <2>1. \A a \in Atoms : a.n \in Int
    BY DEF Atoms
  <2>2. QED BY <1>1, <2>1, EnumAtoms
<1>5. /\ \A k \in 1..m : key[s[k]] = s[k].n
      /\ \A k \in 1..n : key[t[k]] = t[k].n
  BY <1>3, <1>4
<1>6. Increasing(s, m, key) /\ Increasing(t, n, key)
  BY <1>1, <1>5, EnumAtoms DEF Increasing
<1>7. m = n /\ \A k \in 1..m : s[k] = t[k]
  <2>1. (\A k \in 1..m : key[s[k]] \in Int) /\ (\A k \in 1..n : key[t[k]] \in Int)
    BY <1>4, <1>5
  <2>2. QED BY <1>2, <1>6, <2>1, OneOrder
<1>8. s = t
  BY <1>1, <1>7, SeqEqual
<1>9. QED BY <1>1, <1>8, EnumOnly, SameForm DEF Numbers

\* Limits leave more than any one number.
LEMMA AnotherLeft ==
    ASSUME Dense, NEW b, NEW c, Numbers(b, c), ~c.hasEnum, NEW n \in Cuts
    PROVE  \E v \in Denotes(b, c) : v.n # n
<1>1. n \in Int /\ n \in Points
  BY DenseIs
<1>2. CASE b = "Int"
  <2>1. PICK l : l = c.ints
    OBVIOUS
  <2>2. /\ l \in Limits /\ OnCuts(l) /\ (Both(l) => l.min < l.max)
        /\ l.min \in Int /\ l.max \in Int /\ l.min % Step = 0 /\ l.max % Step = 0
    BY <2>1, NumbersAre DEF Limits, Whole
  <2>3. PICK p \in Points : p \in Int /\ p % Step = 0 /\ p # n /\ Within(p, l, FALSE)
    <3>1. CASE Both(l)
      <4>1. /\ l.min \in Points /\ Within(l.min, l, FALSE)
            /\ l.max \in Points /\ Within(l.max, l, FALSE)
        BY <2>2, <3>1, DenseIs DEF OnCuts, Within, Both
      <4>2. l.min # n \/ l.max # n
        BY <2>2, <3>1
      <4>3. QED BY <2>2, <4>1, <4>2
    <3>2. CASE "hasMax" \notin l.flags
      <4>1. PICK q \in Points : q \in Int /\ q % Step = 0 /\ \A k \in Cuts : k < q
        BY DenseIs
      <4>2. q # n
        BY <1>1, <4>1
      <4>3. QED BY <2>2, <3>2, <4>1, <4>2 DEF OnCuts, Within
    <3>3. CASE "hasMin" \notin l.flags
      <4>1. PICK q \in Points : q \in Int /\ q % Step = 0 /\ \A k \in Cuts : q < k
        BY DenseIs
      <4>2. q # n
        BY <1>1, <4>1
      <4>3. QED BY <2>2, <3>3, <4>1, <4>2 DEF OnCuts, Within
    <3>4. QED BY <3>1, <3>2, <3>3 DEF Both
  <2>4. Value("IntAtom", p, 0) \in Denotes(b, c)
    BY <1>2, <2>1, <2>3, NumberAccepted
  <2>5. QED BY <2>3, <2>4, ValueParts
<1>3. CASE b = "Real"
  <2>1. PICK l : l = c.reals
    OBVIOUS
  <2>2. /\ l \in Limits /\ OnCuts(l) /\ (Both(l) => l.min < l.max)
        /\ l.min \in Int /\ l.max \in Int
    BY <2>1, NumbersAre DEF Limits
  <2>3. PICK p \in Points : p \in Int /\ p # n /\ Within(p, l, TRUE)
    <3>1. CASE Both(l)
      <4>1. PICK r \in Points : r \in Int /\ l.min < r /\ r < l.max
        BY <2>2, <3>1, DenseIs DEF OnCuts, Both
      <4>2. CASE r # n
        BY <2>2, <4>1, <4>2 DEF Within
      <4>3. CASE r = n
        <5>1. PICK q \in Points : q \in Int /\ l.min < q /\ q < n
          BY <2>2, <3>1, <4>1, <4>3, DenseIs DEF OnCuts, Both
        <5>2. QED BY <1>1, <2>2, <4>1, <4>3, <5>1 DEF Within
      <4>4. QED BY <4>2, <4>3
    <3>2. CASE "hasMax" \notin l.flags
      <4>1. PICK q \in Points : q \in Int /\ \A k \in Cuts : k < q
        BY DenseIs
      <4>2. q # n
        BY <1>1, <4>1
      <4>3. QED BY <2>2, <3>2, <4>1, <4>2 DEF OnCuts, Within
    <3>3. CASE "hasMin" \notin l.flags
      <4>1. PICK q \in Points : q \in Int /\ \A k \in Cuts : q < k
        BY DenseIs
      <4>2. q # n
        BY <1>1, <4>1
      <4>3. QED BY <2>2, <3>3, <4>1, <4>2 DEF OnCuts, Within
    <3>4. QED BY <3>1, <3>2, <3>3 DEF Both
  <2>4. Value("RealAtom", p, 0) \in Denotes(b, c)
    BY <1>3, <2>1, <2>3, NumberAccepted
  <2>5. QED BY <2>3, <2>4, ValueParts
<1>4. QED BY <1>2, <1>3 DEF Numbers

\* An enum of one number is not also written as limits.
LEMMA OneWayToSayOne ==
    ASSUME Dense, NEW b, NEW c, NEW d, Numbers(b, c), Numbers(b, d), c.hasEnum, ~d.hasEnum,
           Denotes(b, c) = Denotes(b, d)
    PROVE  ~Single(Denotes(b, c))
<1>1. 1 \in DOMAIN c.enum /\ c.enum[1].n \in Cuts
  BY EnumAtoms
<1>2. c.enum[1] \in Denotes(b, c)
  BY <1>1, EnumDenotes, NumbersAre DEF Numbers
<1>3. PICK v \in Denotes(b, d) : v.n # c.enum[1].n
  BY <1>1, AnotherLeft
<1>4. QED BY <1>2, <1>3 DEF Single

LEMMA OneForm ==
    ASSUME Dense, NEW b, NEW c, NEW d, Numbers(b, c), Numbers(b, d),
           c.hasEnum = d.hasEnum \/ Single(Denotes(b, c)), Denotes(b, c) = Denotes(b, d)
    PROVE  c = d
<1>1. CASE c.hasEnum /\ d.hasEnum
  BY <1>1, SameEnum
<1>2. CASE ~c.hasEnum /\ ~d.hasEnum
  <2>1. /\ LimitsSubset(c.ints, d.ints, FALSE) /\ LimitsSubset(c.reals, d.reals, TRUE)
        /\ LimitsSubset(d.ints, c.ints, FALSE) /\ LimitsSubset(d.reals, c.reals, TRUE)
    BY <1>2, LimitsComplete
  <2>2. c.ints = d.ints /\ c.reals = d.reals
    BY <2>1, NumbersAre, LimitsAntisymmetric DEF Whole
  <2>3. QED BY <1>2, <2>2, LimitsAre
<1>3. CASE c.hasEnum # d.hasEnum
  <2>1. c.hasEnum \in BOOLEAN /\ d.hasEnum \in BOOLEAN
    BY NumbersAre
  <2>2. CASE c.hasEnum /\ ~d.hasEnum
    BY <1>3, <2>2, OneWayToSayOne
  <2>3. CASE ~c.hasEnum /\ d.hasEnum
    BY <1>3, <2>3, OneWayToSayOne
  <2>4. QED BY <1>3, <2>1, <2>2, <2>3
<1>4. QED BY <1>1, <1>2, <1>3, NumbersAre

(***************************************************************************)
(* The order of constraints.                                               *)
(***************************************************************************)
\* But for base any, where a number can be written in two kinds, a literal is
\* its place in the order.
LEMMA LiteralIsPlace ==
    ASSUME NEW b, b # "Any", NEW x, Literal(b, x), Member(b, x), NEW y, Literal(b, y), Member(b, y)
    PROVE  Rank(x) = Rank(y) /\ (SameAtom(x, y) => x = y)
<1>1. /\ x \in Atoms /\ IsAtom(x) /\ AtomCompat(b, x)
      /\ y \in Atoms /\ IsAtom(y) /\ AtomCompat(b, y)
  BY DEF Literal, IsAtom
<1>2. x.kind = y.kind
  BY <1>1 DEF AtomCompat, Member, Numeric
<1>3. ASSUME SameAtom(x, y) PROVE x.n = y.n /\ x.len = y.len
  <2>1. x.n = y.n
    BY <1>3 DEF SameAtom
  <2>2. CASE x.kind = "StringAtom"
    <3>1. <<x.n, x.len>> \in Strings /\ <<y.n, y.len>> \in Strings
      BY <1>1, <1>2, <2>2 DEF IsAtom
    <3>2. <<x.n, x.len>>[1] = <<y.n, y.len>>[1]
      BY <2>1
    <3>3. <<x.n, x.len>> = <<y.n, y.len>>
      BY <3>1, <3>2, LengthsAssumption, Zenon
    <3>4. QED BY <2>1, <3>3
  <2>3. CASE x.kind # "StringAtom"
    BY <1>1, <1>2, <2>1, <2>3 DEF IsAtom
  <2>4. QED BY <2>2, <2>3
<1>4. QED BY <1>1, <1>2, <1>3 DEF Atoms, Rank

\* What the lemmas below know of a constraint.
Compiled(b, c) == Finished(c) /\ Fits(b, c) /\ Done(b, c)

LEMMA EnumsAntisymmetric ==
    ASSUME NEW b, b # "Any", NEW c, NEW d, Compiled(b, c), Compiled(b, d), c.hasEnum, d.hasEnum,
           \A k \in DOMAIN c.enum : Accepts(c.enum[k], d),
           \A k \in DOMAIN d.enum : Accepts(d.enum[k], c)
    PROVE  c = d
<1>1. PICK s \in Seq(Atoms), t \in Seq(Atoms), m \in Nat, n \in Nat :
            s = c.enum /\ m = Len(s) /\ t = d.enum /\ n = Len(t)
  BY EnumOnly DEF Compiled
<1>2. DOMAIN s = 1..m /\ DOMAIN t = 1..n /\ Sorted(s) /\ Sorted(t)
  BY <1>1, EnumOnly DEF Compiled
<1>3. /\ \A k \in 1..m : Literal(b, s[k]) /\ Member(b, s[k])
      /\ \A k \in 1..n : Literal(b, t[k]) /\ Member(b, t[k])
  BY <1>1, <1>2 DEF Compiled, Fits, Literal, Done, Forming
<1>4. AllIn(s, m, t, n)
  <2> SUFFICES ASSUME NEW k \in 1..m PROVE \E l \in 1..n : s[k] = t[l]
    BY DEF AllIn
  <2>1. InEnum(s[k], t)
    BY <1>1, <1>2, AcceptsIs
  <2>2. QED BY <1>2, <1>3, <2>1, LiteralIsPlace DEF InEnum
<1>5. AllIn(t, n, s, m)
  <2> SUFFICES ASSUME NEW k \in 1..n PROVE \E l \in 1..m : t[k] = s[l]
    BY DEF AllIn
  <2>1. InEnum(t[k], s)
    BY <1>1, <1>2, AcceptsIs
  <2>2. QED BY <1>2, <1>3, <2>1, LiteralIsPlace DEF InEnum
<1>6. PICK key : key = [a \in Atoms |-> a.n]
  OBVIOUS
<1>7. /\ \A k \in 1..m : key[s[k]] = s[k].n /\ s[k].n \in Int
      /\ \A k \in 1..n : key[t[k]] = t[k].n /\ t[k].n \in Int
  <2>1. \A a \in Atoms : key[a] = a.n /\ a.n \in Int
    BY <1>6 DEF Atoms
  <2>2. (\A k \in 1..m : s[k] \in Atoms) /\ \A k \in 1..n : t[k] \in Atoms
    BY <1>1, <1>2
  <2>3. QED BY <2>1, <2>2
<1>8. Increasing(s, m, key)
  <2> SUFFICES ASSUME NEW k \in 1..m, NEW l \in 1..m, k < l PROVE key[s[k]] < key[s[l]]
    BY DEF Increasing
  <2>1. Before(s[k], s[l]) /\ Rank(s[k]) = Rank(s[l])
    BY <1>2, <1>3, LiteralIsPlace DEF Sorted
  <2>2. QED BY <1>7, <2>1, RankIs DEF Before
<1>9. Increasing(t, n, key)
  <2> SUFFICES ASSUME NEW k \in 1..n, NEW l \in 1..n, k < l PROVE key[t[k]] < key[t[l]]
    BY DEF Increasing
  <2>1. Before(t[k], t[l]) /\ Rank(t[k]) = Rank(t[l])
    BY <1>2, <1>3, LiteralIsPlace DEF Sorted
  <2>2. QED BY <1>7, <2>1, RankIs DEF Before
<1>10. m = n /\ \A k \in 1..m : s[k] = t[k]
  <2>1. (\A k \in 1..m : key[s[k]] \in Int) /\ (\A k \in 1..n : key[t[k]] \in Int)
    BY <1>7
  <2>2. QED BY <1>4, <1>5, <1>8, <1>9, <2>1, OneOrder
<1>11. s = t
  BY <1>1, <1>10, SeqEqual
<1>12. c \in Norm /\ d \in Norm
  BY DEF Compiled, Finished
<1>13. /\ c.ints = d.ints /\ c.reals = d.reals /\ c.length = d.length
       /\ c.format = d.format /\ c.hasEnum = d.hasEnum
  BY EnumOnly, NormIs DEF Compiled
<1>14. QED BY <1>1, <1>11, <1>12, <1>13, SameForm

LEMMA SubsetAntisymmetric ==
    ASSUME NEW b, b # "Any", NEW c, NEW d, Compiled(b, c), Compiled(b, d),
           Subset(c, d), Subset(d, c)
    PROVE  c = d
<1>1. CASE c = d
  BY <1>1
<1>2. CASE c # d /\ (c = Unconstrained \/ d = Unconstrained)
  <2>1. ~Unconstrained.hasEnum
    BY DEF Unconstrained
  <2>2. QED BY <1>2, <2>1 DEF Subset
<1>3. CASE c # d /\ c # Unconstrained /\ d # Unconstrained /\ (c.hasEnum \/ d.hasEnum)
  <2>1. /\ c.hasEnum /\ d.hasEnum
        /\ \A k \in DOMAIN c.enum : Accepts(c.enum[k], d)
        /\ \A k \in DOMAIN d.enum : Accepts(d.enum[k], c)
    BY <1>3 DEF Subset
  <2>2. QED BY <2>1, EnumsAntisymmetric
<1>4. CASE c # d /\ c # Unconstrained /\ d # Unconstrained /\ ~c.hasEnum /\ ~d.hasEnum
  <2>1. /\ LimitsSubset(c.ints, d.ints, FALSE) /\ LimitsSubset(d.ints, c.ints, FALSE)
        /\ LimitsSubset(c.reals, d.reals, TRUE) /\ LimitsSubset(d.reals, c.reals, TRUE)
        /\ LimitsSubset(c.length, d.length, FALSE) /\ LimitsSubset(d.length, c.length, FALSE)
        /\ FormatSubset(c.format, d.format) /\ FormatSubset(d.format, c.format)
    BY <1>4 DEF Subset
  <2>2. ASSUME NEW x \in {c, d}
        PROVE  /\ x \in Norm /\ x.ints \in Limits /\ x.reals \in Limits /\ x.length \in Limits
               /\ Tidy(x.ints) /\ Tidy(x.reals) /\ Tidy(x.length)
               /\ Discrete(x.ints) /\ Discrete(x.length) /\ x.hasEnum \in BOOLEAN
    BY NormIs DEF Compiled, Finished, Done, Forming, Whole
  <2>3. c.ints = d.ints /\ c.reals = d.reals /\ c.length = d.length
    BY <2>1, <2>2, LimitsAntisymmetric
  <2>4. c.format = d.format
    BY <2>1 DEF FormatSubset
  <2>5. c.hasEnum = d.hasEnum
    BY <1>4, <2>2
  <2>6. c.enum = <<>> /\ d.enum = <<>>
    <3>1. ASSUME NEW x \in {c, d} PROVE x.enum = <<>>
      <4>1. x \in Norm /\ x = [x EXCEPT !.enum = <<>>]
        BY <1>4, <3>1 DEF Compiled, Finished
      <4>2. [x EXCEPT !.enum = <<>>].enum = <<>>
        BY <4>1 DEF Norm
      <4>3. QED BY <4>1, <4>2
    <3>2. QED BY <3>1
  <2>7. QED BY <2>2, <2>3, <2>4, <2>5, <2>6, SameForm
<1>5. QED BY <1>1, <1>2, <1>3, <1>4

(***************************************************************************)
(* The theorems.                                                           *)
(***************************************************************************)
\* Equal constraints have one number.
LEMMA SameConstraint ==
    ASSUME NInv, CInv, NEW i \in 0..Len(constraints), NEW j \in 0..Len(constraints),
           ConstraintOf(i) = ConstraintOf(j)
    PROVE  i = j
<1>1. \A k \in 1..Len(constraints) : k \in DOMAIN constraints
  BY DEF NInv, Stored
<1>2. CASE i = 0 \/ j = 0
  BY <1>1, <1>2 DEF CInv, Once, ConstraintOf
<1>3. CASE i # 0 /\ j # 0
  <2>1. i \in DOMAIN constraints /\ j \in DOMAIN constraints /\ constraints[i] = constraints[j]
    BY <1>1, <1>3 DEF ConstraintOf
  <2>2. QED BY <2>1 DEF CInv, Once
<1>4. QED BY <1>2, <1>3

\* What is known of a compiled type; over a number it has one constraint.
LEMMA CompiledIs ==
    ASSUME NInv, CInv, NEW i \in DOMAIN types
    PROVE  LET c == ConstraintOf(types[i].constraint)
           IN  /\ types[i] \in TypeNodes /\ types[i].base \in BaseKinds
               /\ types[i].constraint \in 0..Len(constraints)
               /\ Finished(c) /\ Fits(types[i].base, c) /\ Done(types[i].base, c)
               /\ Stacks(types[i].base, types[i].below) /\ Chained(types[i].base, types[i].below)
               /\ types[i].below = <<>> => Accepted(types[i]) = Denotes(types[i].base, c)
               /\ types[i].base \in {"Int", "Real"} => types[i].below = <<>>
<1>1. types[i] \in TypeNodes /\ types[i].base \in BaseKinds
  <2>1. types[i] \in TypeNodes
    BY DEF NInv, Stored
  <2>2. QED BY <2>1 DEF TypeNodes
<1>2. /\ types[i].constraint \in 0..Len(constraints) /\ Stored
      /\ Fits(types[i].base, ConstraintOf(types[i].constraint))
      /\ Stacks(types[i].base, types[i].below)
  BY DEF NInv, Stored
<1>3. Finished(ConstraintOf(types[i].constraint))
  BY <1>2, ConstraintOfIs
<1>4. types[i].below = <<>> =>
            Accepted(types[i]) = Denotes(types[i].base, ConstraintOf(types[i].constraint))
  BY InsideIs DEF Accepted
<1>5. types[i].base \in {"Int", "Real"} => types[i].below = <<>>
  BY <1>2 DEF Stacks
<1>6. QED BY <1>1, <1>2, <1>3, <1>4, <1>5 DEF CInv, AllDone

\* A type with a chain of one constraint at most accepts what that constraint
\* does, wherever in the chain it is.
LEMMA ChainOfOne ==
    ASSUME NInv, CInv, NEW i \in DOMAIN types, Len(Chain(types[i])) <= 1
    PROVE  \E c : /\ Finished(c) /\ Fits(types[i].base, c) /\ Done(types[i].base, c)
                  /\ Accepted(types[i]) = Denotes(types[i].base, c)
                  /\ c = Unconstrained \/ \E k \in DOMAIN Chain(types[i]) :
                                                c = constraints[Chain(types[i])[k]]
<1>1. PICK t \in TypeNodes : t = types[i]
  BY CompiledIs
<1>2. t.below \in Seq(Nat) /\ t.constraint \in Nat
  BY DEF TypeNodes
<1>3. CASE t.constraint # 0
  <2>1. Chain(t) = <<t.constraint>> \o t.below
    BY <1>3 DEF Chain
  <2>2. t.below = <<>> /\ Chain(t) = <<t.constraint>>
    <3>1. Len(<<t.constraint>> \o t.below) = 1 + Len(t.below)
      BY <1>2
    <3>2. Len(t.below) \in Nat /\ 1 + Len(t.below) <= 1
      BY <1>1, <1>2, <2>1, <3>1
    <3>3. Len(t.below) = 0
      BY <3>2
    <3>4. t.below = <<>>
      BY <1>2, <3>3
    <3>5. <<t.constraint>> \o <<>> = <<t.constraint>>
      BY <1>2
    <3>6. QED BY <2>1, <3>4, <3>5
  <2>3. 1 \in DOMAIN Chain(t) /\ ConstraintOf(t.constraint) = constraints[Chain(t)[1]]
    BY <1>3, <2>2 DEF ConstraintOf
  <2>4. QED BY <1>1, <2>2, <2>3, CompiledIs
<1>4. CASE t.constraint = 0 /\ t.below = <<>>
  <2>1. ConstraintOf(t.constraint) = Unconstrained
    BY <1>4 DEF ConstraintOf
  <2>2. QED BY <1>1, <1>4, <2>1, CompiledIs
<1>5. CASE t.constraint = 0 /\ t.below # <<>>
  <2>1. Chain(t) = t.below
    BY <1>5 DEF Chain
  <2>2. DOMAIN t.below = {1}
    BY <1>1, <1>2, <1>5, <2>1
  <2>3. PICK c : c = constraints[t.below[1]]
    OBVIOUS
  <2>4. /\ t.below[1] \in DOMAIN constraints /\ Fits(t.base, c) /\ Done(t.base, c)
    BY <1>1, <2>2, <2>3, CompiledIs DEF Stacks, Chained
  <2>5. Finished(c)
    BY <2>3, <2>4 DEF NInv, Stored
  <2>6. Accepted(t) = Denotes(t.base, c)
    <3>1. ConstraintOf(t.constraint) = Unconstrained
      BY <1>5 DEF ConstraintOf
    <3>2. Accepted(t) = {v \in Denotes(t.base, Unconstrained) : Accepts(v, c)}
      BY <2>2, <2>3, <3>1 DEF Accepted, Inside
    <3>3. \A v : Accepts(v, Unconstrained)
      BY UnconstrainedIs
    <3>4. QED BY <3>2, <3>3 DEF Denotes
  <2>7. QED BY <1>1, <2>1, <2>2, <2>3, <2>4, <2>5, <2>6
<1>6. QED BY <1>3, <1>4, <1>5

\* On a dense line and without named enums of numbers, a compiled type that accepts
\* nothing is (never): what a tuple or a sum looks for is all there is to find.
\* Excepted are a constraint around another one, a length below zero and a float
\* format with no value within the limits.
THEOREM NeverIsNever ==
    ASSUME EnumAliases = FALSE, Dense
    PROVE  Spec => []NeverIsExact
<1>1. NInv /\ CInv => NeverIsExact
  <2> SUFFICES ASSUME NInv, CInv, NEW i \in DOMAIN types, Accepted(types[i]) = {},
                      Len(Chain(types[i])) <= 1,
                      \A k \in DOMAIN Chain(types[i]) :
                            /\ constraints[Chain(types[i])[k]].format = "noFmt"
                            /\ constraints[Chain(types[i])[k]].length.max >= 0
               PROVE  types[i].base = "Never"
    BY DEF NeverIsExact
  <2>1. PICK c : /\ Finished(c) /\ Fits(types[i].base, c) /\ Done(types[i].base, c)
                 /\ Accepted(types[i]) = Denotes(types[i].base, c)
                 /\ c = Unconstrained \/ \E k \in DOMAIN Chain(types[i]) :
                                              c = constraints[Chain(types[i])[k]]
    BY ChainOfOne
  <2>2. c.format = "noFmt" /\ c.length.max >= 0
    BY <2>1 DEF Unconstrained, NoBounds
  <2>3. types[i].base \in BaseKinds
    BY CompiledIs
  <2>4. QED BY <2>1, <2>2, <2>3, SomethingLeft
<1>2. Spec => [](NInv /\ CInv)
  BY NormalFormInvariant
<1>3. QED BY <1>1, <1>2, PTL

\* On a dense line and without named enums of numbers, Subset finds every subset among
\* the compiled types over int and over real, limits within an enum excepted.
THEOREM SubsetsAreFound ==
    ASSUME EnumAliases = FALSE, Dense
    PROVE  Spec => []SubsetIsComplete
<1>1. NInv /\ CInv => SubsetIsComplete
  <2> SUFFICES ASSUME NInv, CInv, NEW i \in DOMAIN types, NEW j \in DOMAIN types,
                      NEW c, c = ConstraintOf(types[i].constraint),
                      NEW d, d = ConstraintOf(types[j].constraint),
                      types[i].base = types[j].base, types[i].base \in {"Int", "Real"},
                      c.hasEnum \/ ~d.hasEnum, c.format = "noFmt", d.format = "noFmt",
                      Accepted(types[i]) \subseteq Accepted(types[j])
               PROVE  Subset(c, d)
    BY DEF SubsetIsComplete
  <2>1. PICK b : b = types[i].base /\ b = types[j].base
    OBVIOUS
  <2>2. /\ Numbers(b, c) /\ Numbers(b, d)
        /\ Denotes(b, c) \subseteq Denotes(b, d)
    BY <2>1, CompiledIs DEF Numbers
  <2>3. QED BY <2>2, SubsetComplete
<1>2. Spec => [](NInv /\ CInv)
  BY NormalFormInvariant
<1>3. QED BY <1>1, <1>2, PTL

\* On a dense line and without named enums of numbers, compiled types over int or over
\* real that accept the same numbers have the same constraint, whatever the
\* clauses they were written with.
THEOREM NormalFormsAreUnique ==
    ASSUME EnumAliases = FALSE, Dense
    PROVE  Spec => []OneNormalForm
<1>1. NInv /\ CInv => OneNormalForm
  <2> SUFFICES ASSUME NInv, CInv, NEW i \in DOMAIN types, NEW j \in DOMAIN types,
                      NEW c, c = ConstraintOf(types[i].constraint),
                      NEW d, d = ConstraintOf(types[j].constraint),
                      types[i].base = types[j].base, types[i].base \in {"Int", "Real"},
                      c.hasEnum = d.hasEnum \/ Single(Accepted(types[i])),
                      c.format = "noFmt", d.format = "noFmt",
                      Accepted(types[i]) = Accepted(types[j])
               PROVE  types[i].constraint = types[j].constraint
    BY DEF OneNormalForm
  <2>1. PICK b : b = types[i].base /\ b = types[j].base
    OBVIOUS
  <2>2. /\ Numbers(b, c) /\ Numbers(b, d) /\ Denotes(b, c) = Denotes(b, d)
        /\ (c.hasEnum = d.hasEnum \/ Single(Denotes(b, c)))
    BY <2>1, CompiledIs DEF Numbers
  <2>3. c = d
    BY <2>2, OneForm
  <2>4. /\ types[i].constraint \in 0..Len(constraints)
        /\ types[j].constraint \in 0..Len(constraints)
    BY CompiledIs
  <2>5. QED BY <2>3, <2>4, SameConstraint
<1>2. Spec => [](NInv /\ CInv)
  BY NormalFormInvariant
<1>3. QED BY <1>1, <1>2, PTL

\* The compiled types over one base that Subset finds below each other; a base
\* is a kind with the constraints already on it.
Below(i, j) ==
    /\ types[i].base = types[j].base /\ types[i].below = types[j].below
    /\ Subset(ConstraintOf(types[i].constraint), ConstraintOf(types[j].constraint))

Transitive == \A i, j, k \in DOMAIN types : Below(i, j) /\ Below(j, k) => Below(i, k)
Antisymmetric ==
    \A i, j \in DOMAIN types :
        Below(i, j) /\ Below(j, i) /\ types[i].base # "Any" => types[i].constraint = types[j].constraint

\* Without named enums of numbers, Subset orders the compiled types over one
\* base, with whatever constraints it has already: of any chain the first is
\* below the last, and two that are below each other have the same constraint,
\* so that internSum's tie-breaker has nothing to decide between them.  Over any
\* 1 and 1.0 are two literals of one value.
THEOREM SubsetsAreOrdered ==
    ASSUME EnumAliases = FALSE
    PROVE  Spec => [](Transitive /\ Antisymmetric)
<1>1. NInv /\ CInv => Transitive
  <2> SUFFICES ASSUME NInv, CInv, NEW i \in DOMAIN types, NEW j \in DOMAIN types,
                      NEW k \in DOMAIN types, Below(i, j), Below(j, k)
               PROVE  Below(i, k)
    BY DEF Transitive
  <2>1. PICK b, c, d, e : /\ b = types[i].base /\ b = types[j].base /\ b = types[k].base
                          /\ c = ConstraintOf(types[i].constraint)
                          /\ d = ConstraintOf(types[j].constraint)
                          /\ e = ConstraintOf(types[k].constraint)
    BY DEF Below
  <2>2. /\ b \in BaseKinds /\ Finished(c) /\ Finished(d) /\ Finished(e)
        /\ Fits(b, c) /\ Fits(b, d) /\ Fits(b, e) /\ Subset(c, d) /\ Subset(d, e)
    BY <2>1, CompiledIs DEF Below
  <2>3. QED BY <2>1, <2>2, SubsetChain DEF Below
<1>2. NInv /\ CInv => Antisymmetric
  <2> SUFFICES ASSUME NInv, CInv, NEW i \in DOMAIN types, NEW j \in DOMAIN types,
                      Below(i, j), Below(j, i), types[i].base # "Any"
               PROVE  types[i].constraint = types[j].constraint
    BY DEF Antisymmetric
  <2>1. PICK b, c, d : /\ b = types[i].base /\ b = types[j].base
                       /\ c = ConstraintOf(types[i].constraint)
                       /\ d = ConstraintOf(types[j].constraint)
    BY DEF Below
  <2>2. Compiled(b, c) /\ Compiled(b, d) /\ Subset(c, d) /\ Subset(d, c)
    BY <2>1, CompiledIs DEF Below, Compiled
  <2>3. c = d
    BY <2>1, <2>2, SubsetAntisymmetric
  <2>4. /\ types[i].constraint \in 0..Len(constraints)
        /\ types[j].constraint \in 0..Len(constraints)
    BY CompiledIs
  <2>5. QED BY <2>1, <2>3, <2>4, SameConstraint
<1>3. Spec => [](NInv /\ CInv)
  BY NormalFormInvariant
<1>4. QED BY <1>1, <1>2, <1>3, PTL

=============================================================================
