----------------------------- MODULE ArenaPair -----------------------------
(***************************************************************************)
(* Two arenas of two compilers.  The first one interns whatever it is      *)
(* asked; then every definition in it is interned in the second one, in    *)
(* any order that has children before parents.  Ids differ, and with them  *)
(* the order in which the members of sums are stored; what an arena shows  *)
(* to the outside, its fingerprints, must not.                             *)
(***************************************************************************)
EXTENDS Arena

VARIABLES
    nodesB, fingerprintsB, semanticB, hashNextB, hashHeadB,
    pcB, requestB, cursorB, resultB,
    copying,    \* FALSE while the first arena is being filled
    moving,     \* the <<table, id>> now being interned in the second arena
    copy        \* [Tables -> partial function id -> id of the second arena]

B == INSTANCE Arena WITH
        nodes <- nodesB, fingerprints <- fingerprintsB, semantic <- semanticB,
        hashNext <- hashNextB, hashHead <- hashHeadB,
        pc <- pcB, request <- requestB, cursor <- cursorB, result <- resultB

varsB == <<nodesB, fingerprintsB, semanticB, hashNextB, hashHeadB,
           pcB, requestB, cursorB, resultB>>
pairVars == <<vars, varsB, copying, moving, copy>>

Nothing == <<"none", 0>>

PairInit ==
    /\ Init /\ B!Init
    /\ copying = FALSE /\ moving = Nothing
    /\ copy = [t \in Tables |-> <<>>]

Fill == ~copying /\ Next /\ UNCHANGED <<varsB, copying, moving, copy>>

BootB ==
    /\ Ready /\ B!Boot
    /\ copying' = TRUE
    /\ UNCHANGED <<vars, moving, copy>>

\* The definition as the second compiler would ask for it: internSum sorts
\* the members by the ids they have in its arena.
Translate(def) ==
    LET kids == [k \in DOMAIN def.kids |-> copy["type"][def.kids[k]]]
    IN  Def(def.kind, def.labels,
            IF def.kind = "Sum" THEN Ascending(kids) ELSE kids,
            IF def.constraint = 0 THEN 0 ELSE copy["constraint"][def.constraint])

Move ==
    /\ Ready /\ B!Ready
    /\ copying' = TRUE
    /\ \E t \in Tables : \E id \in DOMAIN nodes[t] \ DOMAIN copy[t] :
        LET def == nodes[t][id]
        IN  /\ \A k \in DOMAIN def.kids : def.kids[k] \in DOMAIN copy["type"]
            /\ def.constraint # 0 => def.constraint \in DOMAIN copy["constraint"]
            /\ B!Intern(t, Translate(def))
            /\ moving' = <<t, id>>
    /\ UNCHANGED <<vars, copy>>

WalkB ==
    /\ B!FindNext \/ B!FindHit \/ B!AppendNode
    /\ IF pcB' = "idle" /\ moving # Nothing
       THEN /\ copy' = [copy EXCEPT ![moving[1]] =
                    [id \in DOMAIN @ \cup {moving[2]} |->
                        IF id = moving[2] THEN resultB' ELSE @[id]]]
            /\ moving' = Nothing
       ELSE UNCHANGED <<copy, moving>>
    /\ UNCHANGED <<vars, copying>>

Done == /\ copying /\ \A t \in Tables : DOMAIN copy[t] = DOMAIN nodes[t]
        /\ UNCHANGED pairVars

PairNext == Fill \/ BootB \/ Move \/ WalkB \/ Done

PairSpec == PairInit /\ [][PairNext]_pairVars

\* A definition has the same two fingerprints in both arenas, whatever was
\* interned before it (overlay_wrappers_test.go,
\* TestFingerprintIndependentOfCompilationOrder; fingerprint.go: "Arena-local
\* ID order must never enter an externally comparable fingerprint").
OrderFreeFingerprints ==
    /\ \A t \in Tables : \A id \in DOMAIN copy[t] :
            fingerprints[t][id] = fingerprintsB[t][copy[t][id]]
    /\ \A id \in DOMAIN copy["type"] : semantic[id] = semanticB[copy["type"][id]]


============================================================================
