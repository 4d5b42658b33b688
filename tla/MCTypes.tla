------------------------------ MODULE MCTypes ------------------------------
EXTENDS Types

MCPoints == {-4, 0, 2, 4, 8, 12}
MCFloatMax == [f32 |-> 8, f64 |-> 12]
MCStrings == {<<0, 0>>, <<1, 1>>}

IntType == Builtin("Int")
RealType == Builtin("Real")
StringType == Builtin("String")

Lit(atom) == CompiledScalar(atom)
One == IntAtom(1)
Two == IntAtom(2)
OneReal == Value("RealAtom", 4, 0)
Half == Value("RealAtom", 2, 0)
Empty == Value("StringAtom", 0, 0)
Word == Value("StringAtom", 1, 1)
TrueAtom == Value("BoolAtom", 1, 0)
FalseAtom == Value("BoolAtom", 0, 0)

AtLeast(n) == [flags |-> {"hasMin"}, min |-> n, max |-> 0]
Ints(n) == [Unconstrained EXCEPT !.ints = AtLeast(n)]
Reals(n) == [Unconstrained EXCEPT !.reals = [AtLeast(n) EXCEPT !.flags = @ \cup {"minInclusive"}]]
LengthAtLeast(n) == [Unconstrained EXCEPT !.length = AtLeast(n)]
OneOf(atoms) == [Unconstrained EXCEPT !.hasEnum = TRUE, !.enum = atoms]
Float32 == [Unconstrained EXCEPT !.format = "f32"]
Labelled(t) == RefinedOf(t, Unconstrained, "a")
Required(name, t) == Field(name, t, FALSE, NoLabel)
Optional(name, t) == Field(name, t, TRUE, NoLabel)

Scalars ==
    {AnyType, NeverType, Builtin("Bool"), IntType, RealType, StringType,
     Lit(One), Lit(OneReal), Lit(Half), Lit(Word), Lit(TrueAtom), Lit(FalseAtom),
     RefinedOf(IntType, Ints(4), NoLabel), RefinedOf(IntType, OneOf(<<One, Two>>), NoLabel),
     RefinedOf(RealType, Reals(4), NoLabel), RefinedOf(RealType, Float32, NoLabel),
     RefinedOf(StringType, LengthAtLeast(1), NoLabel),
     Labelled(IntType), RefinedOf(IntType, OneOf(<<One>>), "a"), RefinedOf(IntType, Ints(4), "b"),
     Labelled(RefinedOf(StringType, LengthAtLeast(1), NoLabel)), Labelled(NeverType)}
Containers ==
    {ListOf(IntType), ListOf(RealType), RefinedOf(ListOf(RealType), LengthAtLeast(2), NoLabel),
     TupleType(<<IntType, Lit(One)>>), TupleType(<<Lit(One), Lit(Two)>>), TupleType(<<Lit(OneReal), Lit(Two)>>), TupleType(<<>>),
     RefinedOf(TupleType(<<Lit(One), Lit(Two)>>), LengthAtLeast(1), "a")}
Objects ==
    {ObjectOf(<<Required(1, IntType)>>), ObjectOf(<<Required(1, Lit(One))>>),
     ObjectOf(<<Optional(1, RealType), Required(2, StringType)>>),
     ObjectOf(<<Required(2, StringType)>>),
     RefinedOf(ObjectOf(<<Optional(1, RealType), Required(2, StringType)>>), LengthAtLeast(2), NoLabel),
     ObjectOf(<<Field(1, Lit(One), FALSE, "a"), Required(2, Lit(Word))>>),
     ObjectOf(<<Required(1, ListOf(Labelled(ObjectOf(<<Optional(1, IntType), Optional(3, IntType)>>))))>>),
     Labelled(ListOf(ObjectOf(<<Field(2, IntType, TRUE, "b")>>)))}
Sums == {SumOf({Lit(One), StringType}), SumOf({RealType, ListOf(IntType)})}
MCSources == Scalars \cup Containers \cup Objects \cup Sums

ProbeAtoms == {One, Two, OneReal, Half, IntAtom(-1), Empty, Word, TrueAtom, FalseAtom}
Obj(entries) == ObjectValue(entries)
MCProbes ==
    ProbeAtoms
    \cup {Array(<<>>), Array(<<One>>), Array(<<One, One>>), Array(<<OneReal, Two>>), Array(<<One, Two>>),
          Array(<<Word, One>>), Array(<<One, Array(<<Obj(<<>>)>>)>>)}
    \cup {Obj(<<>>), Obj(<<Entry(1, One)>>), Obj(<<Entry(2, Word)>>),
          Obj(<<Entry(2, Word), Entry(1, One)>>), Obj(<<Entry(1, Half), Entry(2, Word)>>),
          Obj(<<Entry(1, One), Entry(1, One)>>), Obj(<<Entry(2, Word), Entry(2, Word)>>),
          Obj(<<Entry(1, Array(<<Obj(<<Entry(3, One)>>)>>))>>),
          Obj(<<Entry(1, Array(<<Obj(<<Entry(3, One), Entry(3, One)>>)>>))>>),
          Obj(<<Entry(3, One), Entry(1, One)>>)}
    \cup {SchemaValue(IntType), SchemaValue(RefinedOf(IntType, OneOf(<<One>>), "a")),
          SchemaValue(Labelled(Lit(Word))), SchemaValue(TupleType(<<Lit(One), Labelled(Lit(Word))>>)),
          SchemaValue(SumOf({Lit(One), StringType})),
          Obj(<<Entry(1, SchemaValue(Labelled(Lit(One))))>>), Obj(<<Entry(1, SchemaValue(IntType))>>),
          Array(<<SchemaValue(Lit(One)), One>>)}
MCPaths == {<<>>, <<1>>, <<1, 1>>}

\* For MCTypesEnds.  A label on any is not among the others: TypeCheck makes an
\* enum on any of it, of which PathsAgree does not hold.
MCSourcesEnds == MCSources \cup {Labelled(AnyType)}
=============================================================================
