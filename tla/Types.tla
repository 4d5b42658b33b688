------------------------------- MODULE Types -------------------------------
(***************************************************************************)
(* The types a program holds: it compiles them, makes sums of them, reads  *)
(* one as a value of another (TypeCheck) and lays one over another         *)
(* (OverlayAt).                                                            *)
(*                                                                         *)
(* Fingerprints decide between types that contain each other.  Nothing is  *)
(* known of their order: here it is the order in which the types are made, *)
(* and every order of making them is explored.                             *)
(***************************************************************************)
EXTENDS Lattice

CONSTANTS
    Sources,   \* the types that are compiled, each sum as the arena keeps it
    Probes,    \* the values they are asked about
    Paths,     \* the paths of overlays
    MaxTypes

ASSUME TypesAssumption == MaxTypes \in Nat \ {0} /\ Paths \subseteq Seq(Nat)

VARIABLES
    types,     \* Seq of types
    views,     \* the positions of those no arena holds: what overlays return
    made       \* how the last one was made, and of which

vars == <<types, views, made>>

Position(t) == SelectInSeq(types, LAMBDA u : u = t)
First(t, u) == Position(t) < Position(u)

(***************************************************************************)
(* internSum: a sum keeps the members that no other one contains, of those *)
(* that contain each other the one whose fingerprint comes first.  Members *)
(* are a set: what their order in the arena is about is Arena's matter.    *)
(***************************************************************************)

\* Slips: of two that contain each other both go, or both stay.
RedundantBoth(t, ts) == \E u \in ts \ {t} : SubtypeOf(t, u)
RedundantNeither(t, ts) == \E u \in ts \ {t} : SubtypeOf(t, u) /\ ~SubtypeOf(u, t)
Redundant(t, ts) == \E u \in ts \ {t} : SubtypeOf(t, u) /\ (SubtypeOf(u, t) => First(u, t))

InternSum(a, b) ==
    LET flat == FoldBool(Flat(a) \cup Flat(b))
        keep == {t \in flat : ~Redundant(t, flat)}
    IN  CASE keep = {}             -> NeverType
          [] Cardinality(keep) = 1 -> CHOOSE t \in keep : TRUE
          [] OTHER                 -> SumOf(keep)

(***************************************************************************)
(* TypeCheck: the value in terms of the schema.                            *)
(***************************************************************************)
RealFromIntAtom(atom) == [atom EXCEPT !.kind = "RealAtom"]
TypeCheckAtom(base, atom) ==
    IF BaseKind(base) = "Real" /\ atom.kind = "IntAtom" THEN RealFromIntAtom(atom) ELSE atom

TypeCheckBase(schema) ==
    IF schema.kind # "Refined" THEN schema
    ELSE IF schema.c.format # "noFmt"
         THEN RefinedOf(Builtin("Real"), [Unconstrained EXCEPT !.format = schema.c.format], NoLabel)
         ELSE schema.base

RECURSIVE CheckIn(_, _)

CheckLiteral(schema, value) ==
    IF IsLiteral(schema) /\ SameAtom(Literal(value), Literal(schema)) THEN schema
    ELSE LET base == TypeCheckBase(schema)
         IN  InternLiteral(base, TypeCheckAtom(base, Literal(value)))

CheckObject(schema, value) ==
    IF FieldNames(value.fields) \subseteq FieldNames(schema.fields)
    THEN ObjectOf([i \in DOMAIN value.fields |->
            LET f == value.fields[i]
            IN  [f EXCEPT !.type = CheckIn(FieldNamed(schema.fields, f.name).type, @)]])
    ELSE value

\* Slip: the first member is the one.
CheckSumFirst(schema, value) == CheckIn(CHOOSE m \in schema.members : TRUE, value)
\* A value that two members of a sum accept keeps its own interpretation.
CheckSum(schema, value) ==
    LET in == {m \in schema.members : SubtypeOf(value, m)}
    IN  IF Cardinality(in) = 1 THEN CheckIn(CHOOSE m \in in : TRUE, value) ELSE value

CheckIn(schema, value) ==
    IF schema = AnyType \/ schema = value \/ value = NeverType THEN value
    ELSE IF schema.kind = "Sum" THEN CheckSum(schema, value)
    ELSE IF IsLiteral(value) THEN CheckLiteral(schema, value)
    ELSE IF value.kind = "Refined" /\ BaseKind(value) = "Tuple"
         THEN InternRefined(CheckIn(schema, value.base), value.c, value.label)
    ELSE CASE schema.kind = "Refined" /\ value.kind = "Tuple" -> CheckIn(schema.base, value)
           [] schema.kind = "List" /\ value.kind = "List" -> ListOf(CheckIn(schema.elem, value.elem))
           [] schema.kind = "List" /\ value.kind = "Tuple" ->
                InternTuple([i \in DOMAIN value.elems |-> CheckIn(schema.elem, value.elems[i])])
           [] schema.kind = "Tuple" /\ value.kind = "Tuple" ->
                InternTuple([i \in DOMAIN value.elems |-> CheckIn(schema.elems[i], value.elems[i])])
           [] schema.kind = "Object" /\ value.kind = "Object" -> CheckObject(schema, value)
           [] OTHER -> value

(***************************************************************************)
(* Overlay: the path to the object is copied, the object's fields are      *)
(* merged with those of the top.                                           *)
(***************************************************************************)
Wrapper(t) == t.kind \in {"List", "Refined"}
Inner(t) == IF t.kind = "List" THEN t.elem ELSE t.base
Rewrap(t, inner) ==
    IF t.kind = "List" THEN [t EXCEPT !.elem = inner] ELSE [t EXCEPT !.base = inner]

\* The object in wrappers without constraints.
RECURSIVE Patch(_)
Patch(t) ==
    CASE t.kind = "Refined" -> IF t.c = Unconstrained THEN Patch(t.base) ELSE NoType
      [] t.kind = "List"    -> Patch(t.elem)
      [] t.kind = "Object"  -> t
      [] OTHER              -> NoType

\* The merge of two sorted lists; the slip leaves a field of the bottom as it
\* is.
RECURSIVE MergeFieldsKeep(_, _)
MergeFieldsKeep(base, top) ==
    IF base = <<>> THEN top ELSE IF top = <<>> THEN base
    ELSE IF Head(base).name <= Head(top).name
         THEN <<Head(base)>> \o MergeFieldsKeep(Tail(base),
                                SelectSeq(top, LAMBDA f : f.name # Head(base).name))
         ELSE <<Head(top)>> \o MergeFieldsKeep(base, Tail(top))
RECURSIVE MergeFields(_, _)
MergeFields(base, top) ==
    IF base = <<>> THEN top ELSE IF top = <<>> THEN base
    ELSE CASE Head(base).name < Head(top).name -> <<Head(base)>> \o MergeFields(Tail(base), top)
           [] Head(base).name > Head(top).name -> <<Head(top)>> \o MergeFields(base, Tail(top))
           [] Head(base).name = Head(top).name ->
                <<Head(top)>> \o MergeFields(Tail(base), Tail(top))

RECURSIVE OverlayFields(_, _, _)
OverlayFields(t, path, top) ==
    CASE Wrapper(t) ->
            LET inner == OverlayFields(Inner(t), path, top)
            IN  IF inner = NoType THEN NoType ELSE Rewrap(t, inner)
      [] t.kind = "Object" /\ path = <<>> -> ObjectOf(MergeFields(t.fields, top))
      [] t.kind = "Object" /\ path # <<>> ->
            IF Head(path) \notin FieldNames(t.fields) THEN NoType
            ELSE LET child == OverlayFields(FieldNamed(t.fields, Head(path)).type, Tail(path), top)
                 IN  IF child = NoType THEN NoType
                     ELSE ObjectOf([i \in DOMAIN t.fields |->
                            IF t.fields[i].name = Head(path) THEN [t.fields[i] EXCEPT !.type = child]
                                                             ELSE t.fields[i]])
      [] OTHER -> NoType

OverlayAt(bottom, path, top) ==
    IF Patch(top) = NoType THEN NoType ELSE OverlayFields(bottom, path, Patch(top).fields)

\* The type at a path, through lists and refinements.
RECURSIVE Unwrapped(_), Traverse(_, _)
Unwrapped(t) == IF Wrapper(t) THEN Unwrapped(Inner(t)) ELSE t
Traverse(t, path) ==
    IF path = <<>> THEN t
    ELSE LET object == Unwrapped(t)
         IN  IF object.kind = "Object" /\ Head(path) \in FieldNames(object.fields)
             THEN Traverse(FieldNamed(object.fields, Head(path)).type, Tail(path)) ELSE NoType

(***************************************************************************)
(* Fingerprints, as the terms that are hashed.  The intern functions of    *)
(* the arena write a definition one by one, a view is written by           *)
(* fingerprintEncoding, which also writes the semantic fingerprint.  The   *)
(* members of a sum are written in the order of their hashes, a hash as    *)
(* often as there are members with it: as a bag.                           *)
(***************************************************************************)
Labels(t) == [i \in DOMAIN t.fields |-> t.fields[i].label]

\* Slip: labels of fields are always written.
WrittenLabelsAlways(t) == Labels(t)
WrittenLabels(t) == IF Range(Labels(t)) \subseteq {NoLabel} THEN <<>> ELSE Labels(t)

RECURSIVE InternedPrint(_), ViewPrint(_, _)
InternedPrint(t) ==
    CASE t.kind = "List"   -> <<"List", InternedPrint(t.elem)>>
      [] t.kind = "Tuple"  -> <<"Tuple", [i \in DOMAIN t.elems |-> InternedPrint(t.elems[i])]>>
      [] t.kind = "Object" ->
            <<"Object", [i \in DOMAIN t.fields |->
                <<t.fields[i].name, t.fields[i].optional, InternedPrint(t.fields[i].type)>>
                \o (IF \A f \in Range(t.fields) : f.label = NoLabel THEN <<>>
                    ELSE <<t.fields[i].label>>)]>>
      [] t.kind = "Sum"    -> <<"Sum", BagOfAll(InternedPrint, SetToBag(t.members))>>
      [] t.kind = "Refined" -> <<"Refined", InternedPrint(t.base), t.c, t.label>>
      [] OTHER -> <<"Node", t>>

ViewPrint(t, semantic) ==
    CASE t.kind = "List"   -> <<"List", ViewPrint(t.elem, semantic)>>
      [] t.kind = "Tuple"  -> <<"Tuple", [i \in DOMAIN t.elems |-> ViewPrint(t.elems[i], semantic)]>>
      [] t.kind = "Object" ->
            <<"Object", [i \in DOMAIN t.fields |->
                <<t.fields[i].name, t.fields[i].optional, ViewPrint(t.fields[i].type, semantic)>>
                \o (IF semantic \/ WrittenLabels(t) = <<>> THEN <<>> ELSE <<WrittenLabels(t)[i]>>)]>>
      [] t.kind = "Sum"    ->
            LET Written(m) == ViewPrint(m, semantic)
            IN  <<"Sum", BagOfAll(Written, SetToBag(t.members))>>
      [] t.kind = "Refined" ->
            IF semantic /\ t.c = Unconstrained THEN ViewPrint(t.base, TRUE)
            ELSE <<"Refined", ViewPrint(t.base, semantic), t.c>>
                    \o (IF semantic THEN <<>> ELSE <<t.label>>)
      [] OTHER -> <<"Node", t>>

(***************************************************************************)
(* What the program does.                                                  *)
(***************************************************************************)
By(op, operands, path) == [op |-> op, of |-> operands, path |-> path]

Make(t, how) ==
    /\ Len(types) < MaxTypes
    /\ types' = Append(types, t) /\ made' = how
    /\ views' = views \cup (IF how.op = "overlay" THEN {Len(types) + 1} ELSE {})

Interned == DOMAIN types \ views

Compile == \E t \in Sources \ Range(types) : Make(t, By("compile", <<>>, <<>>))

Join == \E i, j \in Interned : Make(InternSum(types[i], types[j]), By("sum", <<i, j>>, <<>>))

TypeCheck ==
    \E i, j \in Interned :
        /\ SubtypeOf(types[j], types[i])
        /\ Make(CheckIn(types[i], types[j]), By("check", <<i, j>>, <<>>))

Overlay ==
    \E i, j \in DOMAIN types, path \in Paths :
        LET t == OverlayAt(types[i], path, types[j])
        IN  t # NoType /\ Make(t, By("overlay", <<i, j>>, path))

Init == types = <<>> /\ views = {} /\ made = By("none", <<>>, <<>>)
Next == Compile \/ Join \/ TypeCheck \/ Overlay
Spec == Init /\ [][Next]_vars

(***************************************************************************)
(* Properties.  What is asked of pairs is asked when a type joins the      *)
(* others, of the pairs it is in.                                          *)
(***************************************************************************)
Newest == types[Len(types)]
Operand(k) == types[made.of[k]]
Pairs == {<<types[i], Newest>> : i \in DOMAIN types} \cup {<<Newest, types[i]>> : i \in DOMAIN types}
ValidValues(t) == {v \in Probes : Valid(t, v, FALSE)}

RECURSIVE Reduced(_)
Reduced(t) ==
    CASE t.kind = "Sum" ->
            /\ Cardinality(t.members) >= 2
            /\ \A m \in t.members : Reduced(m) /\ m.kind \notin {"Sum", "Any", "Never"}
            /\ \A m \in t.members : \A n \in t.members \ {m} : ~SubtypeOf(m, n)
            /\ \E n \in 0..1 : \A m \in t.members : ~BoolLiteral(n, m)
      [] t.kind = "List"    -> Reduced(t.elem)
      [] t.kind = "Refined" -> Reduced(t.base)
      [] t.kind = "Tuple"   ->
            \A i \in DOMAIN t.elems : Reduced(t.elems[i]) /\ BaseKind(t.elems[i]) # "Never"
      [] t.kind = "Object"  ->
            /\ \A f \in Range(t.fields) : Reduced(f.type)
            /\ \A i \in DOMAIN t.fields, j \in DOMAIN t.fields :
                    i < j => t.fields[i].name < t.fields[j].name
      [] OTHER -> t # NoType

\* Whatever made it, a type is in the form the arena keeps: no member of a sum
\* in another, no sum in a sum, no true with false, fields sorted, no tuple of
\* never.
TypeOK ==
    /\ made.op \in {"none", "compile", "sum", "check", "overlay"}
    /\ Len(types) <= MaxTypes /\ views \subseteq DOMAIN types
    /\ types # <<>> => Reduced(Newest)

\* A subtype accepts no value its supertype refuses: the order, which reads
\* types, against ValidateAST, which reads values.
SubtypeSound ==
    types # <<>> => \A p \in Pairs : SubtypeOf(p[1], p[2]) => ValidValues(p[1]) \subseteq ValidValues(p[2])

\* The order is one: what internSum drops because it is in something else is
\* in whatever holds that.
SubtypeTransitive ==
    LET le == [i, j \in DOMAIN types |-> SubtypeOf(types[i], types[j])]
    IN  Len(types) = 3 =>
            \A i, j, k \in DOMAIN types : le[i, j] /\ le[j, k] => le[i, k]

\* A sum is above its operands and accepts nothing more, although it drops
\* members and folds the two booleans.
SumMeaning ==
    made.op = "sum" =>
        /\ SubtypeOf(Operand(1), Newest) /\ SubtypeOf(Operand(2), Newest)
        /\ ValidValues(Newest) = ValidValues(Operand(1)) \cup ValidValues(Operand(2))

\* The nesting in which three types are joined changes at most the labels.
SumOrderFree ==
    Len(types) = 3 /\ views = {} =>
        LET sum == InternSum(InternSum(types[1], types[2]), types[3])
        IN  /\ Equivalent(sum, InternSum(types[1], InternSum(types[2], types[3])))
            /\ Equivalent(sum, InternSum(InternSum(types[1], types[3]), types[2]))

RECURSIVE HasSchema(_)
HasSchema(v) ==
    CASE v.kind = "Array" -> \E i \in DOMAIN v.elems : HasSchema(v.elems[i])
      [] v.kind = "ObjectValue" -> \E i \in DOMAIN v.fields : HasSchema(v.fields[i].value)
      [] OTHER -> v.kind = "Schema"
RECURSIVE SchemaInArray(_)
SchemaInArray(v) ==
    CASE v.kind = "Array" -> HasSchema(v)
      [] v.kind = "ObjectValue" -> \E i \in DOMAIN v.fields : SchemaInArray(v.fields[i].value)
      [] OTHER -> FALSE

\* A value is validated as written, as compiled, and by the order of its type:
\* three pieces of code, one answer.  A value that does not compile is not valid.
PathsAgree ==
    types # <<>> /\ (made.op = "compile" => Len(types) = 1) =>
        \A v \in Probes :
            LET c == Compiled(v)
            IN  /\ c = NoType => ~Valid(Newest, v, FALSE)
                /\ c # NoType /\ ~SchemaInArray(v) => (Valid(Newest, v, FALSE) <=> ValidType(Newest, c))
                /\ IsValue(c) => (ValidType(Newest, c) <=> SubtypeOf(c, Newest))

\* A value read in the terms of a schema is a value of the schema still, and
\* nothing is lost of what it was.
TypeCheckBetween ==
    made.op = "check" => SubtypeOf(Newest, Operand(1)) /\ SubtypeOf(Operand(2), Newest)

AlikeEquivalent(S) ==
    \A p \in Pairs \cap (S \X S) : ViewPrint(p[1], TRUE) = ViewPrint(p[2], TRUE) => SubtypeOf(p[1], p[2])

\* Types of one semantic fingerprint, which names and metadata do not enter,
\* are equivalent (katschema.go).
SemanticEquivalence == types # <<>> => AlikeEquivalent(Range(types))

\* any or never under a label, at any depth
RECURSIVE EndsLabelled(_)
EndsLabelled(t) ==
    CASE t.kind = "Refined" ->
            (Transparent(t) /\ t.base \in {AnyType, NeverType}) \/ EndsLabelled(t.base)
      [] t.kind = "List"    -> EndsLabelled(t.elem)
      [] t.kind = "Tuple"   -> \E i \in DOMAIN t.elems : EndsLabelled(t.elems[i])
      [] t.kind = "Object"  -> \E f \in Range(t.fields) : EndsLabelled(f.type)
      [] t.kind = "Sum"     -> \E m \in t.members : EndsLabelled(m)
      [] OTHER -> FALSE

\* That holds of the types without any or never under a label.
LabelsIrrelevant == types # <<>> => AlikeEquivalent({t \in Range(types) : ~EndsLabelled(t)})

FieldsAt(t, path) == Unwrapped(Traverse(t, path)).fields

\* An overlay has the definitions of the top, whole, and where the top has none
\* those of the bottom, at the path and beside it.
OverlayLookup ==
    made.op = "overlay" =>
        LET top == Patch(Operand(2)).fields
            bottom(path) == FieldsAt(Operand(1), path)
            result(path) == FieldsAt(Newest, path)
            other(fields, name) == {f \in Range(fields) : f.name # name}
            but(f) == [f EXCEPT !.type = NoType]
        IN  /\ Range(result(made.path)) =
                    Range(top) \cup {f \in Range(bottom(made.path)) : f.name \notin FieldNames(top)}
            /\ \A n \in DOMAIN made.path :
                    LET above == SubSeq(made.path, 1, n - 1)
                        name == made.path[n]
                    IN  /\ other(result(above), name) = other(bottom(above), name)
                        /\ but(FieldNamed(result(above), name)) = but(FieldNamed(bottom(above), name))

\* A view has the fingerprint its type has when it is compiled, although
\* another piece of code writes it.
OverlayPrints == types # <<>> => ViewPrint(Newest, FALSE) = InternedPrint(Newest)
=============================================================================
