------------------------------ MODULE MCArena ------------------------------
(* The arena with a hash of three values, so that every chain is mixed. *)
EXTENDS Arena

KindCode(kind) ==
    CHOOSE k \in 1..12 :
        <<"Any", "Never", "Null", "Bool", "BoolAtom", "IntAtom", "StringAtom",
          "List", "Tuple", "Object", "Sum", "Refined">>[k] = kind

MCHash(e) ==
    LET Mix(x, y) == (5 * y + x) % 97
        flat == FlattenSeq(e.labels) \o e.kids
    IN  FoldSeq(Mix, 1 + e.constraint + (IF e.kind = "Constraint" THEN 0 ELSE KindCode(e.kind)), flat) % 3

MCBuiltins == <<"Never", "Bool">>
MCAtoms == {<<"BoolAtom", 0>>, <<"BoolAtom", 1>>}
MCBounds == {<< <<1>> >>}
============================================================================
