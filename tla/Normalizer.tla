----------------------------- MODULE Normalizer -----------------------------
(***************************************************************************)
(* The normalizer of internal/compiled: schema() takes a base type or a    *)
(* named type, folds the clauses of the schema one by one into a normal    *)
(* form, and finish() turns the form into never, into an enum or into      *)
(* limits, which it interns.                                               *)
(*                                                                         *)
(* Schemas are compiled one after the other in one arena.  The enum of an  *)
(* interned constraint lives in the arena's constraintEnums; a normal form *)
(* that starts from a named type reads the enum there, in place.           *)
(***************************************************************************)
EXTENDS Constraint

CONSTANTS
    Bases,           \* the base types schemas start from
    Ops,             \* the comparison operators of clauses
    Literals,        \* the literals x is compared with
    LenLiterals,     \* the literals len(x) is compared with
    Aliases,         \* the named types at hand: Seq([base, constraint])
    EnumAliases,     \* may a number with an enum be refined by its name?
    MaxEnum,         \* bound: literals of one "in"
    MaxClauses,      \* bound: clauses of a schema
    MaxTypes         \* bound: schemas compiled, the aliases included

ASSUME NormalizerAssumption ==
    /\ Bases \subseteq BaseKinds /\ Ops \subseteq {"Gt", "Ge", "Lt", "Le"}
    /\ EnumAliases \in BOOLEAN
    /\ MaxEnum \in Nat /\ MaxClauses \in Nat /\ MaxTypes \in Nat

ASSUME LiteralsAssumption == \A atom \in Literals \cup LenLiterals : IsAtom(atom)

(***************************************************************************)
(* Normal forms.                                                           *)
(***************************************************************************)
Limits == [flags : SUBSET BoundFlags, min : Int, max : Int]
Norm ==
    [ints : Limits, reals : Limits, format : Formats \cup {"noFmt"}, length : Limits,
     hasEnum : BOOLEAN, enum : Seq(Atoms)]

\* Limits of integers and lengths are inclusive without saying so.
Discrete(b) == b.flags \subseteq {"hasMin", "hasMax"}
Whole(b) == Discrete(b) /\ b.min % Step = 0 /\ b.max % Step = 0

\* The merge of two enums relies on both being strictly sorted.
Sorted(s) == \A j, k \in DOMAIN s : j < k => Before(s[j], s[k])

\* What finish() leaves: an enum has literals and stands alone.
Finished(c) ==
    /\ c \in Norm /\ Whole(c.ints) /\ Discrete(c.length)
    /\ c.hasEnum => c.enum # <<>> /\ Sorted(c.enum)
    /\ c = IF c.hasEnum THEN [Unconstrained EXCEPT !.hasEnum = TRUE, !.enum = c.enum]
                        ELSE [c EXCEPT !.enum = <<>>]

\* The clauses a base takes give constraints of these kinds.
Fits(b, c) ==
    /\ c.ints.flags # {} => b = "Int"
    /\ c.reals.flags # {} \/ c.format # "noFmt" => b = "Real"
    /\ c.length.flags # {} => b \in {"String", "List", "Tuple"}
    /\ \A k \in DOMAIN c.enum : IsAtom(c.enum[k]) /\ AtomCompat(b, c.enum[k])

\* Limits: absent ones are zero and not inclusive.
Tidy(b) ==
    /\ "hasMin" \notin b.flags => b.min = 0 /\ "minInclusive" \notin b.flags
    /\ "hasMax" \notin b.flags => b.max = 0 /\ "maxInclusive" \notin b.flags
Both(b) == {"hasMin", "hasMax"} \subseteq b.flags

\* What finish() leaves on a base: limits that leave several numbers, a length
\* only where there is a choice, and one kind of literal for a number.
Settled(b, c) ==
    /\ \A l \in {c.ints, c.reals, c.length} : Tidy(l)
    /\ \A l \in {c.ints, c.reals} : Both(l) => l.min < l.max
    /\ Both(c.length) => c.length.min <= c.length.max
    /\ "hasMin" \in c.length.flags => c.length.min \in 0..MaxLen
    /\ b = "Tuple" => c.length = NoBounds
    /\ b = "Real" => \A k \in DOMAIN c.enum : c.enum[k].kind = "RealAtom"

ASSUME AliasesAssumption ==
    /\ Aliases \in Seq([base : BaseKinds, constraint : Norm])
    /\ \A i \in DOMAIN Aliases :
        Finished(Aliases[i].constraint) /\ Fits(Aliases[i].base, Aliases[i].constraint)
    /\ \A i \in DOMAIN Aliases : LET c == Aliases[i].constraint IN
        /\ Settled(Aliases[i].base, c) /\ c # Unconstrained
        /\ \A j \in DOMAIN Aliases : Aliases[j].constraint = c => j = i

(***************************************************************************)
(* The points at which the numbers of schemas cut the line, and what makes *)
(* a sample of it a fair one: with every cut there is a point on each side *)
(* of it and between it and the next, and there are strings of all         *)
(* lengths.                                                                *)
(***************************************************************************)
Ends(b) == {b.min : f \in b.flags \cap {"hasMin"}} \cup {b.max : f \in b.flags \cap {"hasMax"}}
CutsOf(c) ==
    Ends(c.ints) \cup Ends(c.reals) \cup {a.n : a \in {x \in Range(c.enum) : x.kind \in Numeric}}

Cuts ==
    {l.n : l \in {x \in Literals : x.kind \in Numeric}}
        \cup {l.n + d : l \in {x \in Literals : x.kind = "IntAtom"}, d \in {-Step, Step}}
        \cup UNION {CutsOf(Aliases[i].constraint) : i \in DOMAIN Aliases}

Dense ==
    /\ Cuts \subseteq Points
    /\ \A m, n \in Cuts : m < n => \E p \in Points : m < p /\ p < n
    /\ \E p, q \in Points : /\ p % Step = 0 /\ q % Step = 0
                            /\ \A n \in Cuts : p < n /\ n < q
    /\ \A l \in 0..MaxLen : \E s \in Strings : s[2] = l

VARIABLES
    types,            \* compiled types, in order: see TypeNodes
    constraints,      \* the arena's constraints as they read now
    constraintHash,   \* the contents their fingerprints were made of
    pc,               \* "idle", or "consume" within a schema
    base, below,      \* the base the clauses are about: its kind, its constraints
    source,           \* the named type the schema starts from, 0 if a base
    norm,             \* normConstraint
    shared,           \* the constraint whose enum memory norm.enum is, or 0
    impossible,
    consumed,         \* how many clauses have been consumed
    reading           \* what was read last

vars == <<types, constraints, constraintHash, pc, base, below, source, norm, shared,
          impossible, consumed, reading>>

\* A type is a kind under a chain of refinements.  constraint is that of the
\* outermost one, 0 if it only gives metadata or if there is none; below are the
\* constraints of the refinements inside, outermost first.
TypeNodes == [base : BaseKinds, constraint : Nat, below : Seq(Nat)]

Clauses ==
    {[of |-> "x", op |-> op, lit |-> l] : op \in Ops, l \in Literals}
        \cup {[of |-> "len", op |-> op, lit |-> l] : op \in Ops, l \in LenLiterals}
        \cup {[of |-> "in", values |-> s] : s \in BoundedSeq(Literals, MaxEnum)}

ConstraintOf(id) == IF id = 0 THEN Unconstrained ELSE constraints[id]
Inside(S, ids) == {v \in S : \A k \in DOMAIN ids : Accepts(v, constraints[ids[k]])}
Accepted(t) == Inside(Denotes(t.base, ConstraintOf(t.constraint)), t.below)

Meaning == INSTANCE ConstraintMeaning WITH
    Predefined <- [i \in DOMAIN Aliases |-> Denotes(Aliases[i].base, Aliases[i].constraint)],
    meaning <- [i \in DOMAIN types |-> Accepted(types[i])],
    draft   <- IF pc = "idle" \/ impossible THEN {} ELSE Inside(Denotes(base, norm), below)

(***************************************************************************)
(* Limits.                                                                 *)
(***************************************************************************)
Lower == {"hasMin", "minInclusive"}
Upper == {"hasMax", "maxInclusive"}

\* The limit becomes n unless it is as strong already; incl says whether the
\* flags of the limit include its inclusivity.
AtLeast(b, n, incl) ==
    IF "hasMin" \notin b.flags \/ n > b.min
          \/ (n = b.min /\ "minInclusive" \in b.flags /\ ~incl)
    THEN [b EXCEPT !.min = n,
            !.flags = (@ \ Lower) \cup {"hasMin"} \cup (IF incl THEN {"minInclusive"} ELSE {})]
    ELSE b

AtMost(b, n, incl) ==
    IF "hasMax" \notin b.flags \/ n < b.max
          \/ (n = b.max /\ "maxInclusive" \in b.flags /\ ~incl)
    THEN [b EXCEPT !.max = n,
            !.flags = (@ \ Upper) \cup {"hasMax"} \cup (IF incl THEN {"maxInclusive"} ELSE {})]
    ELSE b

\* Integers and lengths: strict limits become inclusive ones of the next
\* value, and no inclusive flag is kept.
ApplyDiscrete(b, op, n, unit) ==
    CASE op = "Gt" -> AtLeast(b, n + unit, FALSE) [] op = "Ge" -> AtLeast(b, n, FALSE)
      [] op = "Lt" -> AtMost(b, n - unit, FALSE)  [] op = "Le" -> AtMost(b, n, FALSE)

ApplyInt(op, n) == ApplyDiscrete(norm.ints, op, n, Step)

ApplyReal(op, n) ==
    IF op \in {"Gt", "Ge"} THEN AtLeast(norm.reals, n, op = "Ge")
                           ELSE AtMost(norm.reals, n, op = "Le")

\* v++ of an int64 at its limit.
Wrap(l) == IF l > MaxLen THEN -MaxLen - 1 ELSE l
ApplyLen(op, l) ==
    IF op = "Gt" THEN ApplyDiscrete(norm.length, "Ge", Wrap(l + 1), 1)
                 ELSE ApplyDiscrete(norm.length, op, l, 1)

(***************************************************************************)
(* Enums.                                                                  *)
(***************************************************************************)
\* The elements of s at some of its positions, in the given order.
Picked(s, order, positions) ==
    LET n == Cardinality(positions)
        q == CHOOSE f \in [1..n -> positions] :
                /\ \A k \in positions : \E i \in 1..n : f[i] = k
                /\ \A i, j \in 1..n : i < j => <<f[i], f[j]>> \in order
    IN  [i \in 1..n |-> s[q[i]]]

\* The elements of s that are in S, as they follow each other in s.
Kept(s, S) ==
    LET positions == {k \in DOMAIN s : s[k] \in S}
    IN  Picked(s, {p \in positions \X positions : p[1] < p[2]}, positions)

\* Slip: the literals as written.
AsWritten(s) == s
\* sorted, with the first of equal atoms kept
SortUniqueTypes(s) ==
    LET first == {k \in DOMAIN s : \A j \in 1..(k - 1) : ~SameAtom(s[j], s[k])}
    IN  Picked(s, {p \in first \X first : Before(s[p[1]], s[p[2]])}, first)

RealFromInt(atom) == [atom EXCEPT !.kind = IF @ = "IntAtom" THEN "RealAtom" ELSE @]

\* The merge of two sorted enums: the atoms of the first that are in both.
Intersect(old, new) ==
    Kept(old, {a \in Range(old) : \E k \in DOMAIN new : SameAtom(a, new[k])})

AddEnum(values) ==
    LET v == SortUniqueTypes(IF base = "Real" THEN [k \in DOMAIN values |-> RealFromInt(values[k])]
                                              ELSE values)
    IN  [norm EXCEPT !.hasEnum = TRUE,
                     !.enum = IF norm.hasEnum THEN Intersect(norm.enum, v) ELSE v]

(***************************************************************************)
(* schema(): where the normal form starts.                                 *)
(***************************************************************************)
\* The outermost refinement of a named type is taken off if its constraint can
\* be merged with more clauses or if it has none, whatever is below it.
Merges(t) == t.constraint = 0 \/ t.base \in {"Int", "Real"}

\* The constraints of the base the schema then refines.  Slip: a refinement
\* that only gives metadata is taken off with all that is below it.
BaseBelowNothing(t) == IF Merges(t) THEN <<>> ELSE <<t.constraint>>
BaseBelow(t) == IF Merges(t) THEN t.below ELSE <<t.constraint>> \o t.below

\* intConstraintNorm and realConstraintNorm take these parts of a constraint.
Inherited(t) ==
    LET c == ConstraintOf(t.constraint)
    IN  CASE t.base = "Int"  -> [Unconstrained EXCEPT !.ints = c.ints]
          [] t.base = "Real" -> [c EXCEPT !.ints = NoBounds, !.length = NoBounds]
          [] OTHER           -> Unconstrained

StartFrom(b, inner, i, n, memory, read) ==
    /\ pc = "idle" /\ Len(types) < MaxTypes
    /\ pc' = "consume" /\ base' = b /\ below' = inner /\ source' = i /\ norm' = n
    /\ shared' = memory
    /\ impossible' = FALSE /\ consumed' = 0 /\ reading' = read
    /\ UNCHANGED <<types, constraints, constraintHash>>

StartBase == \E b \in Bases : StartFrom(b, <<>>, 0, Unconstrained, 0, Meaning!ReadBase(b))

StartNamed ==
    \E i \in DOMAIN types :
        LET t == types[i]
            n == Inherited(t)
        IN  /\ EnumAliases \/ t.base \notin {"Int", "Real"} \/ ~ConstraintOf(t.constraint).hasEnum
            /\ StartFrom(t.base, BaseBelow(t), i, n, IF n.hasEnum THEN t.constraint ELSE 0,
                         Meaning!ReadType(i))

(***************************************************************************)
(* consume(): one clause.                                                  *)
(***************************************************************************)
\* A constrained type that is not a number takes no clause, unless there is a
\* refinement without a constraint around it.
Extends == source # 0 => Merges(types[source])

Consume(clause) ==
    /\ pc = "consume" /\ consumed < MaxClauses /\ Extends
    /\ consumed' = consumed + 1 /\ reading' = Meaning!ReadClause(clause)
    /\ UNCHANGED <<types, constraints, constraintHash, pc, base, below, source>>

ValueBound ==
    \E clause \in {c \in Clauses : c.of = "x"} :
        /\ Consume(clause)
        /\ \/ /\ base = "Int" /\ clause.lit.kind = "IntAtom"
              /\ norm' = [norm EXCEPT !.ints = ApplyInt(clause.op, clause.lit.n)]
           \/ /\ base = "Real" /\ clause.lit.kind \in Numeric
              /\ norm' = [norm EXCEPT !.reals = ApplyReal(clause.op, clause.lit.n)]
        /\ UNCHANGED <<shared, impossible>>

\* strconv.ParseInt to an int64 that is not negative
IsLength(lit) == lit.kind = "IntAtom" /\ lit.n \in 0..(Step * MaxLen)

Overflow(op, l) == op = "Gt" /\ l = MaxLen

LengthBound ==
    \E clause \in {c \in Clauses : c.of = "len"} :
        LET l == clause.lit.n \div Step
        IN  /\ Consume(clause)
            /\ base \in {"String", "List", "Tuple"} /\ IsLength(clause.lit)
            /\ IF Overflow(clause.op, l)
               THEN impossible' = TRUE /\ norm' = norm
               ELSE /\ norm' = [norm EXCEPT !.length = ApplyLen(clause.op, l)]
                    /\ UNCHANGED impossible
            /\ UNCHANGED shared

EnumClause ==
    \E clause \in {c \in Clauses : c.of = "in"} :
        /\ Consume(clause)
        /\ \A k \in DOMAIN clause.values : AtomCompat(base, clause.values[k])
        /\ norm' = AddEnum(clause.values)
        /\ shared' = 0
        /\ UNCHANGED impossible

Compatible(clause) ==
    /\ Extends
    /\ CASE clause.of = "x"   -> \/ base = "Int" /\ clause.lit.kind = "IntAtom"
                                 \/ base = "Real" /\ clause.lit.kind \in Numeric
         [] clause.of = "len" -> base \in {"String", "List", "Tuple"} /\ IsLength(clause.lit)
         [] clause.of = "in"  -> \A k \in DOMAIN clause.values : AtomCompat(base, clause.values[k])

EndSchema ==
    /\ pc' = "idle" /\ base' = "Never" /\ below' = <<>> /\ source' = 0 /\ norm' = Unconstrained
    /\ shared' = 0 /\ impossible' = FALSE /\ consumed' = 0 /\ reading' = Meaning!Idle

\* Any error ends the compilation of the schema.
Reject ==
    /\ pc = "consume" /\ consumed < MaxClauses
    /\ ~ \A clause \in Clauses : Compatible(clause)
    /\ EndSchema
    /\ UNCHANGED <<types, constraints, constraintHash>>

(***************************************************************************)
(* finish().                                                               *)
(***************************************************************************)
\* Slip: equal limits are always possible.
EmptyRealClosed(b) == Both(b) /\ b.min > b.max
EmptyReal(b) ==
    Both(b) /\ (b.min > b.max
                 \/ (b.min = b.max /\ ~({"minInclusive", "maxInclusive"} \subseteq b.flags)))
EmptyDiscrete(b) == Both(b) /\ b.min > b.max

\* A tuple has one length: a limit on it is decided here.
TupleFits(n) == base = "Tuple" => Within(TupleLen, n.length, FALSE)
WithoutTupleLength(n) == IF base = "Tuple" THEN [n EXCEPT !.length = NoBounds] ELSE n

\* Slip: one value left is not turned into an enum.
AsEnumNever(n) == n
\* Limits that leave one number are an enum of one.
AsEnum(n) ==
    CASE n.hasEnum -> n
      [] ~n.hasEnum /\ base = "Int" /\ Both(n.ints) /\ n.ints.min = n.ints.max ->
            [n EXCEPT !.hasEnum = TRUE, !.ints = NoBounds,
                      !.enum = <<Value("IntAtom", n.ints.min, 0)>>]
      [] ~n.hasEnum /\ base = "Real" /\ n.reals.flags = BoundFlags
                    /\ n.reals.min = n.reals.max ->
            [n EXCEPT !.hasEnum = TRUE, !.reals = NoBounds,
                      !.enum = <<Value("RealAtom", n.reals.min, 0)>>]
      [] OTHER -> n

Filtered(n) == Kept(n.enum, {a \in Range(n.enum) : AcceptsLimits(a, n)})

\* An enum makes the limits redundant.
Final(n) == IF n.hasEnum THEN [Unconstrained EXCEPT !.hasEnum = TRUE, !.enum = Filtered(n)]
                         ELSE n

\* out := n.enum[:0] writes over the memory the enum was read from.
Overwritten(n) ==
    IF shared = 0 THEN constraints
    ELSE [constraints EXCEPT ![shared].enum =
            Filtered(n) \o SubSeq(@, Len(Filtered(n)) + 1, Len(@))]

\* internRefinedNamed: the base under one more refinement.
Refined(i) == types' = Append(types, [base |-> base, constraint |-> i, below |-> below])

\* internConstraint: an entry matches if its fingerprint and what it reads do.
Interned(table, c) ==
    LET same == {i \in DOMAIN table : constraintHash[i] = c /\ table[i] = c}
    IN  IF c = Unconstrained
        THEN /\ constraints' = table /\ UNCHANGED constraintHash
             /\ Refined(0)
        ELSE IF same # {}
        THEN /\ constraints' = table /\ UNCHANGED constraintHash
             /\ \E i \in same : Refined(i)
        ELSE /\ constraints' = Append(table, c)
             /\ constraintHash' = Append(constraintHash, c)
             /\ Refined(Len(table) + 1)

Never ==
    types' = Append(types, [base |-> "Never", constraint |-> 0, below |-> <<>>])

Finish ==
    LET n == AsEnum(WithoutTupleLength(norm))
    IN  /\ pc = "consume"
        /\ IF \/ impossible \/ EmptyDiscrete(norm.ints) \/ EmptyReal(norm.reals)
              \/ EmptyDiscrete(norm.length) \/ ~TupleFits(norm)
           THEN Never /\ UNCHANGED <<constraints, constraintHash>>
           ELSE IF n.hasEnum /\ Filtered(n) = <<>>
           THEN Never /\ constraints' = Overwritten(n) /\ UNCHANGED constraintHash
           ELSE Interned(Overwritten(n), Final(n))
        /\ EndSchema

\* Neither a clause, nor a name, nor metadata: internRefinedNamed returns its
\* base, which is the named type itself.
FinishNamed ==
    /\ pc = "consume" /\ ~Extends
    /\ types' = Append(types, types[source])
    /\ EndSchema
    /\ UNCHANGED <<constraints, constraintHash>>

Init ==
    /\ types = [i \in DOMAIN Aliases |->
                    [base |-> Aliases[i].base, constraint |-> i, below |-> <<>>]]
    /\ constraints = [i \in DOMAIN Aliases |-> Aliases[i].constraint]
    /\ constraintHash = constraints
    /\ pc = "idle" /\ base = "Never" /\ below = <<>> /\ source = 0 /\ norm = Unconstrained
    /\ shared = 0 /\ impossible = FALSE /\ consumed = 0 /\ reading = Meaning!Idle

Next ==
    \/ StartBase \/ StartNamed
    \/ ValueBound \/ LengthBound \/ EnumClause \/ Reject
    \/ Finish \/ FinishNamed

Spec == Init /\ [][Next]_vars

(***************************************************************************)
(* Properties.                                                             *)
(***************************************************************************)
\* The constraints a chain of refinements may have below its outermost one: none
\* if the base is a number.
Stacks(b, ids) ==
    /\ \A k \in DOMAIN ids : ids[k] \in DOMAIN constraints
    /\ ids # <<>> => b \notin {"Int", "Real"}

\* The types refer to interned constraints, which are finished and were
\* finished for the base of each type that refers to them; numbers have one
\* constraint only; the enum of the form in progress is sorted; the memory it is
\* read from is that of the named type the schema started from.
TypeOK ==
    /\ types \in Seq(TypeNodes)
    /\ constraints \in Seq(Norm) /\ Len(constraints) = Len(constraintHash)
    /\ constraintHash \in Seq(Norm)
    /\ \A i \in DOMAIN constraints : Finished(constraints[i])
    /\ \A i \in DOMAIN types :
        /\ types[i].constraint \in 0..Len(constraints)
        /\ Fits(types[i].base, ConstraintOf(types[i].constraint))
        /\ Stacks(types[i].base, types[i].below)
    /\ below \in Seq(Nat) /\ Stacks(base, below)
    /\ pc \in {"idle", "consume"} /\ base \in BaseKinds /\ source \in 0..Len(types)
    /\ norm \in Norm /\ Whole(norm.ints) /\ Discrete(norm.length) /\ Sorted(norm.enum)
    /\ Fits(base, norm)
    /\ impossible \in BOOLEAN /\ consumed \in 0..MaxClauses
    /\ shared # 0 => source # 0 /\ shared = types[source].constraint

\* Normalizing a schema changes nothing about what it accepts, clause by
\* clause, and nothing about what the types compiled before it accept.
ImplementsMeaning == Meaning!MeaningSpec

\* The constraints of a type, outermost first.
Chain(t) == IF t.constraint = 0 THEN t.below ELSE <<t.constraint>> \o t.below

\* "Metadata-only refinements are transparent", and constraints that cannot be
\* merged are rejected (compile.go): no type has two constraints to satisfy.
OneConstraint == \A i \in DOMAIN types : Len(Chain(types[i])) <= 1

\* A schema nothing satisfies is (never), not a type that happens to be empty:
\* internTuple and internSum look for (never) only.  Three cases finish() leaves
\* alone are excepted: a constraint around another one, a length below zero, and
\* a float format none of whose values satisfy the limits.
NeverIsExact ==
    pc = "idle" => \A i \in DOMAIN types :
        LET t == types[i]
        IN  /\ Accepted(t) = {} /\ Len(Chain(t)) <= 1
            /\ \A k \in DOMAIN Chain(t) :
                    LET c == constraints[Chain(t)[k]] IN c.format = "noFmt" /\ c.length.max >= 0
            => t.base = "Never"

\* The values are one number.
Single(values) == \A v, w \in values : v.n = w.n

\* The normal form: two types over int or over real that accept the same
\* numbers are one constraint, in whatever order and form their clauses were
\* written ("-1 < x < 11" is "0 <= x <= 10", internal/compiled/README.md).
\* Limits are not told from an enum of all the numbers within, unless it is
\* a single number.
OneNormalForm ==
    pc = "idle" => \A i, j \in DOMAIN types :
        LET c == ConstraintOf(types[i].constraint)
            d == ConstraintOf(types[j].constraint)
        IN  /\ types[i].base = types[j].base /\ types[i].base \in {"Int", "Real"}
            /\ c.hasEnum = d.hasEnum \/ Single(Accepted(types[i]))
            /\ c.format = "noFmt" /\ d.format = "noFmt"
            /\ Accepted(types[i]) = Accepted(types[j])
            => types[i].constraint = types[j].constraint

\* Subset answers yes only to constraints that are subsets: the lattice trusts
\* it to drop the members of a sum that another accepts (order.go).
SubsetIsSound ==
    pc = "idle" => \A i, j \in DOMAIN types :
        /\ types[i].base = types[j].base /\ types[i].below = types[j].below
        /\ Subset(ConstraintOf(types[i].constraint), ConstraintOf(types[j].constraint))
        => Accepted(types[i]) \subseteq Accepted(types[j])

\* On numbers Subset answers yes to every subset, unless one constraint is
\* limits and the other an enum.
SubsetIsComplete ==
    pc = "idle" => \A i, j \in DOMAIN types :
        LET c == ConstraintOf(types[i].constraint)
            d == ConstraintOf(types[j].constraint)
        IN  /\ types[i].base = types[j].base /\ types[i].base \in {"Int", "Real"}
            /\ c.hasEnum \/ ~d.hasEnum
            /\ c.format = "noFmt" /\ d.format = "noFmt"
            /\ Accepted(types[i]) \subseteq Accepted(types[j])
            => Subset(c, d)

\* A schema that gives a named type and no clause is that type
\* (katschema_test.go, TestResolverPreservesConstrainedType).
NamedTypePreserved ==
    [][/\ pc = "consume" /\ source # 0 /\ consumed = 0 /\ Len(types') > Len(types)
       => Accepted(types[Len(types)])' = Accepted(types[source])]_vars

\* A compiled type accepts what it accepted when it was compiled, whatever is
\* compiled after it ("immutable semantic type", katschema.go).
TypesImmutable ==
    [][\A i \in DOMAIN types : Accepted(types[i])' = Accepted(types[i])]_vars

=============================================================================
