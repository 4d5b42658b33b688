------------------------------ MODULE Lattice ------------------------------
(***************************************************************************)
(* Types as trees, their order and what they accept.                       *)
(*                                                                         *)
(* A type is a builtin, an atom (a scalar of Constraint), a list, a tuple, *)
(* an object, a sum or a refinement.  Since the arena keeps one node for   *)
(* each definition, two types are one exactly when the trees are equal.  A *)
(* label stands for the name and the metadata of a refinement or a field;  *)
(* names of fields are numbers in the order of the names.  Null is left    *)
(* out: it is a type of one value.                                         *)
(*                                                                         *)
(* A value is an atom, an array, an object, whose fields may come in any   *)
(* order and twice, or a schema in the place of a value.  An array with a  *)
(* schema in it is written as a tuple, #{..}.                              *)
(***************************************************************************)
EXTENDS Constraint, Functions

NoLabel == "none"

Builtin(kind) == [kind |-> kind]
AnyType == Builtin("Any")
NeverType == Builtin("Never")
NoType == Builtin("Invalid")
ListOf(t) == [kind |-> "List", elem |-> t]
TupleType(ts) == [kind |-> "Tuple", elems |-> ts]
ObjectOf(fields) == [kind |-> "Object", fields |-> fields]
SumOf(ts) == [kind |-> "Sum", members |-> ts]
RefinedOf(t, c, label) == [kind |-> "Refined", base |-> t, c |-> c, label |-> label]
Field(name, t, optional, label) ==
    [name |-> name, type |-> t, optional |-> optional, label |-> label]

Array(vs) == [kind |-> "Array", elems |-> vs]
ObjectValue(fields) == [kind |-> "ObjectValue", fields |-> fields]
SchemaValue(t) == [kind |-> "Schema", type |-> t]
Entry(name, v) == [name |-> name, value |-> v]

(***************************************************************************)
(* Interning: what the arena makes of a definition.                        *)
(***************************************************************************)
RECURSIVE BaseKind(_)
BaseKind(t) == IF t.kind = "Refined" THEN BaseKind(t.base) ELSE t.kind

InternRefined(t, c, label) ==
    IF c = Unconstrained /\ label = NoLabel THEN t ELSE RefinedOf(t, c, label)
InternLiteral(t, atom) ==
    InternRefined(t, [Unconstrained EXCEPT !.hasEnum = TRUE, !.enum = <<atom>>], NoLabel)
InternTuple(ts) == IF \E i \in DOMAIN ts : BaseKind(ts[i]) = "Never" THEN NeverType ELSE TupleType(ts)
InternObject(fields) == ObjectOf(SetToSortSeq(fields, LAMBDA f, g : f.name < g.name))

\* A type that is one scalar, in the place of which its atom can stand.
IsLiteral(t) ==
    \/ t.kind \in AtomKinds
    \/ t.kind = "Refined" /\ t.c.hasEnum /\ Len(t.c.enum) = 1 /\ Accepts(t.c.enum[1], t.c)
Literal(t) == IF t.kind = "Refined" THEN t.c.enum[1] ELSE t

\* What a constraint sees of a value or of a type that is one: its length.
Sized(n) == Value("Tuple", 0, n)
AsAtom(t) ==
    CASE t.kind \in AtomKinds -> t
      [] t.kind \in {"Tuple", "Array"} -> Sized(Len(t.elems))
      [] t.kind \in {"Object", "ObjectValue"} -> Sized(Len(t.fields))
      [] OTHER -> Value(t.kind, 0, 0)

(***************************************************************************)
(* The order.                                                              *)
(***************************************************************************)
NoLength == [ok |-> FALSE, bounds |-> NoBounds]
Length(flags, min, max) == [ok |-> TRUE, bounds |-> [flags |-> flags, min |-> min, max |-> max]]

\* Slip: a written limit replaces the one of the structure.
TighterWritten(b, c) == IF c.flags = {} THEN b ELSE c
\* The limits of both.
Tighter(b, c) ==
    LET has(f) == f \in c.flags
    IN  [flags |-> b.flags \cup (c.flags \cap {"hasMax"}),
         min |-> IF has("hasMin") /\ c.min > b.min THEN c.min ELSE b.min,
         max |-> IF has("hasMax") /\ ("hasMax" \notin b.flags \/ c.max < b.max)
                 THEN c.max ELSE b.max]

RECURSIVE ContainerLength(_)
ContainerLength(t) ==
    CASE t.kind = "List"   -> Length({"hasMin"}, 0, 0)
      [] t.kind = "Tuple"  -> Length({"hasMin", "hasMax"}, Len(t.elems), Len(t.elems))
      [] t.kind = "Object" ->
            Length({"hasMin", "hasMax"},
                   Cardinality({i \in DOMAIN t.fields : ~t.fields[i].optional}), Len(t.fields))
      [] t.kind = "Refined" ->
            LET l == ContainerLength(t.base)
            IN  IF l.ok THEN [l EXCEPT !.bounds = Tighter(@, t.c.length)] ELSE NoLength
      [] OTHER -> NoLength

\* Slip: a label makes a refinement.
TransparentUnlabelled(t) == t.kind = "Refined" /\ t.c = Unconstrained /\ t.label = NoLabel
Transparent(t) == t.kind = "Refined" /\ t.c = Unconstrained
LengthOnly(c) == c.length.flags # {} /\ c = [Unconstrained EXCEPT !.length = c.length]

\* Slip: a field that may be missing is as good as one that may not.
FieldSubtypeAnyway(f, g) == TRUE
FieldSubtype(f, g) == f.optional => g.optional

FieldNames(fields) == {fields[i].name : i \in DOMAIN fields}
FieldNamed(fields, name) == CHOOSE f \in Range(fields) : f.name = name

RECURSIVE SubtypeOf(_, _)

Equivalent(a, b) == SubtypeOf(a, b) /\ SubtypeOf(b, a)

ObjectSubtype(a, b) ==
    /\ \A f \in Range(a.fields) :
        /\ f.name \in FieldNames(b.fields)
        /\ LET g == FieldNamed(b.fields, f.name)
           IN  FieldSubtype(f, g) /\ SubtypeOf(f.type, g.type)
    /\ \A g \in Range(b.fields) : g.optional \/ g.name \in FieldNames(a.fields)

StructureSubtype(a, b) ==
    \/ a.kind = b.kind /\ a.kind \in {"Bool", "Int", "Real", "String"}
    \/ a.kind \in {"Int", "IntAtom", "RealAtom"} /\ b.kind = "Real"
    \/ \E pair \in {<<"BoolAtom", "Bool">>, <<"IntAtom", "Int">>, <<"StringAtom", "String">>} :
            pair = <<a.kind, b.kind>>
    \/ /\ a.kind \in AtomKinds /\ b.kind \in {a.kind} \cup (IF a.kind = "IntAtom" THEN {"RealAtom"} ELSE {})
       /\ SameAtom(a, b)
    \/ a.kind = "List" /\ b.kind = "List" /\ SubtypeOf(a.elem, b.elem)
    \/ a.kind = "Tuple" /\ b.kind = "List" /\ \A i \in DOMAIN a.elems : SubtypeOf(a.elems[i], b.elem)
    \/ /\ a.kind = "Tuple" /\ b.kind = "Tuple" /\ Len(a.elems) = Len(b.elems)
       /\ \A i \in DOMAIN a.elems : SubtypeOf(a.elems[i], b.elems[i])
    \/ a.kind = "Object" /\ b.kind = "Object" /\ ObjectSubtype(a, b)

\* A refinement below a type with another base or none.
RefinedSubtype(a, b) ==
    IF b.kind = "Refined" /\ Equivalent(a.base, b.base) THEN Subset(a.c, b.c)
    ELSE IF IsLiteral(a) THEN SubtypeOf(Literal(a), b)
    ELSE SubtypeOf(a.base, b)

SubtypeOf(a, b) ==
    CASE NoType \in {a, b} -> FALSE
      [] NoType \notin {a, b} /\ (a = b \/ a = NeverType \/ b = AnyType) -> TRUE
      [] OTHER ->
            /\ a # AnyType /\ b # NeverType
            /\ IF a.kind = "Sum" THEN \A t \in a.members : SubtypeOf(t, b)
               ELSE IF Transparent(a) THEN SubtypeOf(a.base, b)
               ELSE IF Transparent(b) THEN SubtypeOf(a, b.base)
               ELSE IF b.kind = "Sum" THEN \E t \in b.members : SubtypeOf(a, t)
               ELSE IF b.kind = "Refined" /\ LengthOnly(b.c) /\ ContainerLength(a).ok
               THEN SubtypeOf(a, b.base) /\ LimitsSubset(ContainerLength(a).bounds, b.c.length, FALSE)
               ELSE IF a.kind = "Refined" THEN RefinedSubtype(a, b)
               ELSE IF b.kind = "Refined"
               THEN IsLiteral(a) /\ SubtypeOf(a, b.base) /\ Accepts(a, b.c)
               ELSE StructureSubtype(a, b)

(***************************************************************************)
(* What internSum makes of the members it is given.                        *)
(***************************************************************************)
Flat(t) == CASE t = NeverType -> {} [] t.kind = "Sum" -> t.members [] OTHER -> {t}

BoolLiteral(n, t) == IsLiteral(t) /\ Literal(t) = Value("BoolAtom", n, 0)
\* Slip: true and false fold only if there is nothing else.
FoldBoolAlone(ts) ==
    IF Cardinality(ts) = 2 /\ \A n \in 0..1 : \E t \in ts : BoolLiteral(n, t)
    THEN {Builtin("Bool")} ELSE ts
FoldBool(ts) ==
    IF \A n \in 0..1 : \E t \in ts : BoolLiteral(n, t)
    THEN {t \in ts : ~BoolLiteral(0, t) /\ ~BoolLiteral(1, t)} \cup {Builtin("Bool")}
    ELSE ts

(***************************************************************************)
(* ValidType: the value is a compiled type.                                *)
(***************************************************************************)
RECURSIVE LiteralBase(_), IsValue(_), AcceptsValue(_, _)

LiteralBase(v) ==
    IF v.kind = "Refined" THEN IF IsLiteral(v) THEN Literal(v) ELSE LiteralBase(v.base) ELSE v

IsValue(v) ==
    \/ IsLiteral(v)
    \/ v.kind = "Refined" /\ IsValue(v.base) /\ Accepts(AsAtom(LiteralBase(v.base)), v.c)
    \/ v.kind = "Tuple" /\ \A i \in DOMAIN v.elems : IsValue(v.elems[i])
    \/ v.kind = "Object" /\ \A f \in Range(v.fields) : ~f.optional /\ IsValue(f.type)

\* Both lists are sorted by name; the walk stops at the first name missed.
RECURSIVE AcceptsFields(_, _)
AcceptsFields(want, got) ==
    IF want = <<>> THEN got = <<>>
    ELSE IF got = <<>> \/ Head(want).name # Head(got).name
         THEN Head(want).optional /\ AcceptsFields(Tail(want), got)
         ELSE /\ AcceptsValue(Head(want).type, Head(got).type)
              /\ AcceptsFields(Tail(want), Tail(got))

AcceptsValue(t, value) ==
    LET v == LiteralBase(value)
    IN  CASE t.kind = "Any"    -> TRUE
          [] t.kind \in {"Invalid", "Never"} -> FALSE
          [] t.kind = "Bool"   -> v.kind = "BoolAtom"
          [] t.kind = "Int"    -> v.kind = "IntAtom"
          [] t.kind \in {"Real", "RealAtom"} ->
                v.kind \in Numeric /\ (t.kind = "Real" \/ SameAtom(v, t))
          [] t.kind = "String" -> v.kind = "StringAtom"
          [] t.kind \in {"BoolAtom", "IntAtom", "StringAtom"} -> v.kind = t.kind /\ SameAtom(v, t)
          [] t.kind = "Refined" -> AcceptsValue(t.base, v) /\ Accepts(AsAtom(v), t.c)
          [] t.kind = "List"   ->
                v.kind = "Tuple" /\ \A i \in DOMAIN v.elems : AcceptsValue(t.elem, v.elems[i])
          [] t.kind = "Tuple"  ->
                /\ v.kind = "Tuple" /\ Len(t.elems) = Len(v.elems)
                /\ \A i \in DOMAIN v.elems : AcceptsValue(t.elems[i], v.elems[i])
          [] t.kind = "Object" -> v.kind = "Object" /\ AcceptsFields(t.fields, v.fields)
          [] t.kind = "Sum"    -> \E m \in t.members : AcceptsValue(m, v)

ValidType(t, v) == IsValue(v) /\ AcceptsValue(t, v)

(***************************************************************************)
(* ValidateAST: the value is a syntax tree.                                *)
(***************************************************************************)
RECURSIVE Valid(_, _, _)

\* Slip: as many fields as wanted are all the fields, whatever their names.
ValidFieldNamesByCount(want, got) ==
    /\ Len(got) <= Len(want)
    /\ FieldNames(got) \subseteq FieldNames(want)
    /\ Len(got) = Len(want) \/ \A f \in Range(want) : f.optional \/ f.name \in FieldNames(got)
ValidFieldNames(want, got) ==
    /\ Len(got) <= Len(want) /\ IsInjective([i \in DOMAIN got |-> got[i].name])
    /\ FieldNames(got) \subseteq FieldNames(want)
    /\ Len(got) = Len(want) \/ \A f \in Range(want) : f.optional \/ f.name \in FieldNames(got)

ValidConstraint(c, v) ==
    /\ AcceptsLimits(AsAtom(v), c)
    /\ c.hasEnum => \E i \in DOMAIN c.enum : Valid(c.enum[i], v, FALSE)

\* Any scalar, and any container of what any accepts.
ValidAny(v, inList) ==
    \/ v.kind \in AtomKinds
    \/ v.kind = "Array" /\ \A i \in DOMAIN v.elems : Valid(AnyType, v.elems[i], TRUE)
    \/ /\ v.kind = "ObjectValue" /\ IsInjective([i \in DOMAIN v.fields |-> v.fields[i].name])
       /\ \A i \in DOMAIN v.fields : Valid(AnyType, v.fields[i].value, inList)

Valid(t, v, inList) ==
    IF v.kind = "Schema" THEN ~inList /\ ValidType(t, v.type)
    ELSE CASE t.kind = "Any"    -> ValidAny(v, inList)
           [] t.kind \in {"Invalid", "Never"} -> FALSE
           [] t.kind = "Bool"   -> v.kind = "BoolAtom"
           [] t.kind = "Int"    -> v.kind = "IntAtom"
           [] t.kind = "Real"   -> v.kind \in Numeric
           [] t.kind = "String" -> v.kind = "StringAtom"
           [] t.kind \in {"BoolAtom", "IntAtom", "StringAtom"} -> v = t
           [] t.kind = "RealAtom" -> v.kind \in Numeric /\ v.n = t.n
           [] t.kind = "List"   ->
                v.kind = "Array" /\ \A i \in DOMAIN v.elems : Valid(t.elem, v.elems[i], TRUE)
           [] t.kind = "Tuple"  ->
                /\ v.kind = "Array" /\ Len(t.elems) = Len(v.elems)
                /\ \A i \in DOMAIN v.elems : Valid(t.elems[i], v.elems[i], TRUE)
           [] t.kind = "Sum"    -> \E m \in t.members : Valid(m, v, inList)
           [] t.kind = "Object" ->
                /\ v.kind = "ObjectValue" /\ ValidFieldNames(t.fields, v.fields)
                /\ \A f \in Range(v.fields) :
                        Valid(FieldNamed(t.fields, f.name).type, f.value, inList)
           [] t.kind = "Refined" -> Valid(t.base, v, inList) /\ ValidConstraint(t.c, v)

(***************************************************************************)
(* Compile, of a value; NoType if it is refused.                           *)
(***************************************************************************)
RECURSIVE Compiled(_)
CompiledScalar(atom) ==
    InternLiteral(Builtin(CASE atom.kind = "BoolAtom" -> "Bool" [] atom.kind = "IntAtom" -> "Int"
                            [] atom.kind = "RealAtom" -> "Real" [] atom.kind = "StringAtom" -> "String"),
                  atom)
Compiled(v) ==
    CASE v.kind \in AtomKinds    -> CompiledScalar(v)
      [] v.kind = "Schema"   -> v.type
      [] v.kind = "Array"    ->
            LET ts == [i \in DOMAIN v.elems |-> Compiled(v.elems[i])]
            IN  IF \E i \in DOMAIN ts : ts[i] = NoType THEN NoType ELSE InternTuple(ts)
      [] v.kind = "ObjectValue" ->
            LET fs == {Field(f.name, Compiled(f.value), FALSE, NoLabel) : f \in Range(v.fields)}
            IN  IF \/ ~IsInjective([i \in DOMAIN v.fields |-> v.fields[i].name])
                   \/ \E f \in fs : f.type = NoType
                THEN NoType ELSE InternObject(fs)

=============================================================================
