----------------------------- MODULE MCResolver -----------------------------
(* Names a and b are the same for every tenant, c has a key per tenant. *)
EXTENDS Resolver

Def(refs, ends, body) == [refs |-> refs, ends |-> ends, body |-> body]

MCGiven ==
    [s \in Scopes |-> [n \in Names |-> IF n = "c" THEN s \o "/c" ELSE ""]]

MCTable(a, b, c, d) ==
    [s \in Scopes |-> [n \in Names |->
        CASE n = "a" -> a [] n = "b" -> b [] OTHER -> IF s = "t1" THEN c ELSE d]]

MCDefinitions ==
    {MCTable(a, b, c, Def(<<"a">>, "type", 2)) :
        a \in {Def(<<"b">>, "type", 1), Def(<<>>, "type", 2)},
        b \in {Def(<<"a">>, "type", 1), Def(<<>>, "type", 2), Def(<<>>, "error", 3), Absent},
        c \in {Def(<<"a", "b">>, "type", 1), Def(<<"b">>, "type", 1)}}

MCSchemas == {<<"a">>, <<"c">>, <<"b", "c">>, <<"c", "a">>}

ASSUME MCContract ==
    \A table \in Definitions : Contract(table, [n \in Names |-> IF n = "c" THEN 1 ELSE 0])
=============================================================================
