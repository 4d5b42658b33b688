---------------------------- MODULE MCArenaPair ----------------------------
(* Two small arenas that hold sums of lists, empty tuples and objects. *)
EXTENDS ArenaPair

KindCode(kind) ==
    CHOOSE k \in 1..12 :
        <<"Any", "Never", "Null", "Bool", "BoolAtom", "IntAtom", "StringAtom",
          "List", "Tuple", "Object", "Sum", "Refined">>[k] = kind

\* the order of the children matters, and few definitions collide
MCHash(e) ==
    IF e.kind = "Constraint" THEN 1
    ELSE FoldSeq(LAMBDA x, y : (7 * y + x) % 97, KindCode(e.kind), e.kids)

MCBuiltins == <<"Any", "Never", "Null">>
MCAtoms == {}
MCBounds == {}
============================================================================
