---------------------------- MODULE MCNormalizer ----------------------------
(* Quarter points: the literals 0, 0.5 and 1, points between and beyond them. *)
EXTENDS Normalizer

MCPoints == {-8, -4, -1, 0, 1, 2, 3, 4, 5, 8, 12}
MCFloatMax == [f32 |-> 2, f64 |-> 6]
MCStrings == {<<0, 0>>, <<1, 1>>, <<2, 1>>, <<3, 2>>}
MCLiterals == {IntAtom(0), IntAtom(1), Value("RealAtom", 2, 0), Value("StringAtom", 1, 1)}
MCLenLiterals ==
    {IntAtom(-1), IntAtom(0), IntAtom(MaxLen), IntAtom(MaxLen + 1),
     Value("RealAtom", 2, 0)}
MCAliases ==
    <<[base |-> "Int", constraint |->
        [Unconstrained EXCEPT !.ints = [flags |-> {"hasMin", "hasMax"}, min |-> -4, max |-> 4]]],
      [base |-> "Real", constraint |-> [Unconstrained EXCEPT !.format = "f32"]],
      [base |-> "String", constraint |->
        [Unconstrained EXCEPT !.length = [flags |-> {"hasMin"}, min |-> 1, max |-> 0]]]>>

ASSUME MCDense == Dense
=============================================================================
