--------------------------- MODULE MCResolverKeys ---------------------------
(* Every name has a key of its own per tenant, and may be recursive. *)
EXTENDS Resolver

Def(refs, body) == [refs |-> refs, ends |-> "type", body |-> body]

MCTenantGiven == [s \in Scopes |-> [n \in Names |-> s \o "/" \o n]]

MCRecursive ==
    {[s \in Scopes |-> [n \in Names |-> IF n = "a" THEN Def(<<"b">>, 1) ELSE b]] :
        b \in {Def(<<"a">>, 1), Def(<<>>, 2)}}

MCSchemas == {<<"a">>, <<"b", "a">>}
=============================================================================
