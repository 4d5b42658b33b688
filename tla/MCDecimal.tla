----------------------------- MODULE MCDecimal -----------------------------
(* int64 ends at 20, so that the exponents 20, 21 and 22 lie on both sides   *)
(* of every limit that up to two dropped or two fractional digits move.      *)
EXTENDS Decimal

Optional(S) == {<<>>} \cup S
MCInts == {<<0>>, <<1>>, <<1, 0>>, <<2, 0, 0>>, <<1, 2>>}
MCFracs == {<<Dot, 0>>, <<Dot, 2>>, <<Dot, 0, 1>>, <<Dot, 1, 0>>, <<Dot, 0, 0>>}
MCExps ==
    {<<E>> \o s \o d : s \in {<<>>, <<Plus>>, <<Minus>>},
                       d \in {<<0>>, <<2>>, <<1, 8>>, <<1, 9>>, <<2, 0>>, <<2, 1>>, <<2, 2>>,
                              <<2, 3>>, <<4, 1>>, <<0, 2, 0>>}}
MCNumbers ==
    {s \o i \o f \o x : s \in Optional({<<Minus>>}), i \in MCInts,
                        f \in Optional(MCFracs), x \in Optional(MCExps)}
MCTexts == MCNumbers \cup BoundedSeq({0, 2, Minus, Dot, E, 14}, 4)
               \cup {<<1, E, 9, 9, 14>>, <<1, E, 2, Plus>>, <<1, Dot, 2, E, 2, Dot>>}

MCSamples ==
    {Num(FALSE, <<0>>, 0), Num(FALSE, <<1, 0>>, 0), Num(FALSE, <<1>>, 1), Num(TRUE, <<1>>, 0),
     Num(FALSE, <<1, 2>>, -1), Num(FALSE, <<1, 2>>, 20), Num(FALSE, <<2>>, 20),
     Num(TRUE, <<1, 2>>, -21), Num(FALSE, <<2, 0, 0>>, 0), Num(FALSE, <<1>>, -21)}
=============================================================================
