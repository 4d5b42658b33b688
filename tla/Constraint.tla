----------------------------- MODULE Constraint -----------------------------
(***************************************************************************)
(* Constraints of internal/compiled: what a scalar atom or a container     *)
(* must satisfy, and the order the lattice puts constraints in.            *)
(*                                                                         *)
(* Numbers are points of a line in units of 1/Step: the integers are the   *)
(* multiples of Step, the reals all points.  The limits written in schemas *)
(* leave points between and beyond them, so what holds at the points holds *)
(* on the dense line.  Strings and containers are told apart by what a     *)
(* constraint can see of them: the name of a string and the length.        *)
(***************************************************************************)
EXTENDS Integers, Sequences, FiniteSets, SequencesExt

Formats == {"f32", "f64"}

CONSTANTS
    Points,      \* the sampled numbers, in units of 1/Step
    Step,        \* the distance of two integers
    FloatMax,    \* the largest number each float format converts
    Strings,     \* the strings, as pairs <<name, length>>
    MaxLen,      \* math.MaxInt64, as the largest length
    TupleLen     \* the number of elements of the tuple type

ASSUME PointsAssumption == Points \subseteq Int /\ Step \in Nat \ {0}
ASSUME FormatsAssumption ==
    FloatMax \in [Formats -> Nat] /\ FloatMax["f32"] <= FloatMax["f64"]
ASSUME LengthsAssumption ==
    /\ MaxLen \in Nat /\ TupleLen \in 0..MaxLen /\ Strings \subseteq Int \X (0..MaxLen)
    /\ \A s, t \in Strings : s[1] = t[1] => s = t

(***************************************************************************)
(* Atoms and the values a base type accepts.                               *)
(***************************************************************************)
BaseKinds == {"Any", "Never", "Bool", "Int", "Real", "String", "List", "Tuple"}
Numeric == {"IntAtom", "RealAtom"}

Value(kind, n, len) == [kind |-> kind, n |-> n, len |-> len]

AtomKinds == {"BoolAtom", "IntAtom", "RealAtom", "StringAtom"}
Atoms == [kind : AtomKinds, n : Int, len : Nat]
IntAtom(k) == Value("IntAtom", Step * k, 0)

\* A scalar literal: integers are whole, strings are those at hand, and only
\* they have a length.
IsAtom(atom) ==
    /\ atom \in Atoms
    /\ atom.kind = "BoolAtom" => atom.n \in 0..1
    /\ atom.kind = "IntAtom" => atom.n % Step = 0
    /\ atom.kind # "StringAtom" => atom.len = 0
    /\ atom.kind = "StringAtom" => <<atom.n, atom.len>> \in Strings

BoolAtoms == {Value("BoolAtom", b, 0) : b \in 0..1}
IntAtoms == {Value("IntAtom", p, 0) : p \in {q \in Points : q % Step = 0}}
RealAtoms == {Value("RealAtom", p, 0) : p \in Points}
StringAtoms == {Value("StringAtom", s[1], s[2]) : s \in Strings}
Lists == {Value("List", 0, l) : l \in 0..MaxLen}
Tuples == {Value("Tuple", 0, TupleLen)}

RealValues == IntAtoms \cup RealAtoms
ScalarValues == BoolAtoms \cup RealValues \cup StringAtoms
ListValues == Lists \cup Tuples

Values(base) ==
    CASE base = "Any"    -> ScalarValues
      [] base = "Never"  -> {}
      [] base = "Bool"   -> BoolAtoms
      [] base = "Int"    -> IntAtoms
      [] base = "Real"   -> RealValues
      [] base = "String" -> StringAtoms
      [] base = "List"   -> ListValues
      [] base = "Tuple"  -> Tuples

AllValues == UNION {Values(base) : base \in BaseKinds}

\* The literals a base can be compared with.
AtomCompat(base, atom) ==
    CASE base = "Any"    -> TRUE
      [] base = "Bool"   -> atom.kind = "BoolAtom"
      [] base = "Int"    -> atom.kind = "IntAtom"
      [] base = "Real"   -> atom.kind \in Numeric
      [] base = "String" -> atom.kind = "StringAtom"
      [] OTHER           -> FALSE

\* compareAtom: numbers by value whatever their kind, else kind before value.
Rank(atom) ==
    CASE atom.kind = "BoolAtom" -> 1 [] atom.kind \in Numeric -> 2 [] OTHER -> 3

Before(x, y) == Rank(x) < Rank(y) \/ (Rank(x) = Rank(y) /\ x.n < y.n)
SameAtom(x, y) == Rank(x) = Rank(y) /\ x.n = y.n

(***************************************************************************)
(* Constraints.  The limits of integers and lengths are always inclusive   *)
(* and have no inclusive flags.  An absent limit is the zero TypeID.       *)
(***************************************************************************)
NoBounds == [flags |-> {}, min |-> 0, max |-> 0]
Unconstrained ==
    [ints |-> NoBounds, reals |-> NoBounds, format |-> "noFmt", length |-> NoBounds,
     hasEnum |-> FALSE, enum |-> <<>>]

BoundFlags == {"hasMin", "minInclusive", "hasMax", "maxInclusive"}

Within(n, b, continuous) ==
    /\ "hasMin" \in b.flags =>
        n > b.min \/ (n = b.min /\ (continuous => "minInclusive" \in b.flags))
    /\ "hasMax" \in b.flags =>
        n < b.max \/ (n = b.max /\ (continuous => "maxInclusive" \in b.flags))

\* The limits of a constraint, its enum aside.
AcceptsLimits(v, c) ==
    /\ c.ints.flags # {} => v.kind = "IntAtom" /\ Within(v.n, c.ints, FALSE)
    /\ c.reals.flags # {} => v.kind \in Numeric /\ Within(v.n, c.reals, TRUE)
    /\ c.format # "noFmt" =>
        v.kind \in Numeric /\ v.n \in (-FloatMax[c.format])..FloatMax[c.format]
    /\ c.length.flags # {} =>
        v.kind \in {"StringAtom", "List", "Tuple"} /\ Within(v.len, c.length, FALSE)

Accepts(v, c) ==
    /\ AcceptsLimits(v, c)
    /\ c.hasEnum => \E k \in DOMAIN c.enum :
                        v.kind \notin {"List", "Tuple"} /\ SameAtom(v, c.enum[k])

Denotes(base, c) == {v \in Values(base) : Accepts(v, c)}

(***************************************************************************)
(* The order of two constraints on one base.                               *)
(***************************************************************************)

\* Slip: a limit of the same value is stronger, whatever its inclusivity.
LimitsSubsetClosed(a, b, continuous) ==
    /\ "hasMin" \in b.flags => "hasMin" \in a.flags /\ a.min >= b.min
    /\ "hasMax" \in b.flags => "hasMax" \in a.flags /\ a.max <= b.max

\* Slip: equal limits are only contained if their inclusivity is the same.
LimitsSubsetAlike(a, b, continuous) ==
    /\ "hasMin" \in b.flags =>
        /\ "hasMin" \in a.flags /\ a.min >= b.min
        /\ continuous /\ a.min = b.min => {"minInclusive"} \cap a.flags = {"minInclusive"} \cap b.flags
    /\ "hasMax" \in b.flags =>
        /\ "hasMax" \in a.flags /\ a.max <= b.max
        /\ continuous /\ a.max = b.max => {"maxInclusive"} \cap a.flags = {"maxInclusive"} \cap b.flags

LimitsSubset(a, b, continuous) ==
    /\ "hasMin" \in b.flags =>
        /\ "hasMin" \in a.flags /\ a.min >= b.min
        /\ continuous /\ a.min = b.min /\ "minInclusive" \in a.flags =>
                "minInclusive" \in b.flags
    /\ "hasMax" \in b.flags =>
        /\ "hasMax" \in a.flags /\ a.max <= b.max
        /\ continuous /\ a.max = b.max /\ "maxInclusive" \in a.flags =>
                "maxInclusive" \in b.flags

FormatSubset(a, b) == b \in {"noFmt", a} \/ (a = "f32" /\ b = "f64")

Subset(a, b) ==
    \/ b \in {Unconstrained, a}
    \/ a.hasEnum /\ \A k \in DOMAIN a.enum : Accepts(a.enum[k], b)
    \/ /\ a # Unconstrained /\ ~a.hasEnum /\ ~b.hasEnum
       /\ LimitsSubset(a.ints, b.ints, FALSE)
       /\ LimitsSubset(a.reals, b.reals, TRUE)
       /\ FormatSubset(a.format, b.format)
       /\ LimitsSubset(a.length, b.length, FALSE)

=============================================================================
