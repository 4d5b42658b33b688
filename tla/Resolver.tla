------------------------------ MODULE Resolver ------------------------------
(***************************************************************************)
(* How a Compiler expands user-defined names (typeRef of internal/compiled *)
(* and the Compiler of the public API).  A reference asks the resolver for *)
(* the definition and its cache key, takes the type the cache has for the  *)
(* key, and otherwise compiles the definition, whose own references are    *)
(* expanded the same way, one frame of the recursion deeper.               *)
(*                                                                         *)
(* The cache lives as long as the Compiler; the set that detects cycles is *)
(* made anew by each compilation.  The resolver is the user's: it may fail *)
(* at any call, and what it defines may change between any two calls.      *)
(***************************************************************************)
EXTENDS Integers, Sequences, FiniteSets, SequencesExt

CONSTANTS
    Names,          \* the names that are not builtin types
    Scopes,         \* what a context selects: a tenant, a request
    Given,          \* [Scopes -> [Names -> key]]: CacheKey, "" if not used
    Definitions,    \* tables [Scopes -> [Names -> Definition]] of a resolver
    Schemas,        \* the references of schemas a caller compiles: Seq(Names)
    MaxCompiles,    \* bound: compilations
    MaxRevisions,   \* bound: tables a resolver goes through
    MaxDepth        \* bound: frames, more than a compilation should need

Absent == [refs |-> <<>>, ends |-> "absent", body |-> 0]
Definition == {Absent} \cup [refs : Seq(Names), ends : {"type", "error"}, body : Nat]

ASSUME ResolverAssumption ==
    /\ Definitions \subseteq [Scopes -> [Names -> Definition]]
    /\ Schemas \subseteq Seq(Names) /\ Given \in [Scopes -> [Names -> STRING]]
    /\ MaxCompiles \in Nat /\ MaxRevisions \in Nat /\ MaxDepth \in Nat

VARIABLES
    revisions,    \* the tables of the resolver, the one in force last
    cache,        \* Compiler.resolved: partial function key -> type
    scope,        \* the scope of the compilation
    stack,        \* frames of typeRef, the schema compiled at the bottom
    resolving,    \* the set that detects cycles
    outcome,      \* what the last compilation returned
    compiles      \* how many have started

vars == <<revisions, cache, scope, stack, resolving, outcome, compiles>>

\* A type is a definition and the types its references were expanded to.
Type(def, parts) == [def |-> def, parts |-> parts]
NoOutcome == [kind |-> "none", type |-> Type(Absent, <<>>)]
Answer(type) == [kind |-> "type", type |-> type]
Error(kind) == [kind |-> kind, type |-> Type(Absent, <<>>)]

\* Slip: the name is the key, whatever the resolver says.
NameOnly(s, name) == name
CacheKey(s, name) == IF Given[s][name] = "" THEN name ELSE Given[s][name]

Resolve(name) == Last(revisions)[scope][name]

Frame(name, key, def) == [name |-> name, key |-> key, def |-> def, parts |-> <<>>]
Top == Last(stack)
Pending == stack # <<>> /\ Len(Top.parts) < Len(Top.def.refs)
Reference == Top.def.refs[Len(Top.parts) + 1]

Idle == stack = <<>>

(***************************************************************************)
(* One compilation.                                                        *)
(***************************************************************************)
Compile ==
    /\ Idle /\ compiles < MaxCompiles
    /\ \E s \in Scopes, refs \in Schemas :
        /\ scope' = s
        /\ stack' = <<Frame("", "", [refs |-> refs, ends |-> "type", body |-> 0])>>
    /\ resolving' = {} /\ outcome' = NoOutcome /\ compiles' = compiles + 1
    /\ UNCHANGED <<revisions, cache>>

\* Every frame passes an error on and caches nothing.
Fail(kind) ==
    /\ outcome' = Error(kind)
    /\ stack' = <<>> /\ resolving' = {}
    /\ UNCHANGED <<revisions, cache, scope, compiles>>

\* Slips: nothing is in progress; only the definition being compiled is.
InProgressNever(name) == FALSE
InProgressDirect(name) == name = Top.name
InProgress(name) == name \in resolving

Cycle == Pending /\ InProgress(Reference) /\ Fail("cycle")

\* The resolver returns an error.
Unresolved == Pending /\ ~InProgress(Reference) /\ Fail("unknown")

WithPart(frames, type) ==
    [frames EXCEPT ![Len(frames)].parts = Append(@, type)]

\* Slip: the cache is written but not read.
CachedNever(key) == FALSE
Cached(key) == key \in DOMAIN cache

Hit ==
    /\ Pending /\ ~InProgress(Reference)
    /\ LET key == CacheKey(scope, Reference)
       IN  Cached(key) /\ stack' = WithPart(stack, cache[key])
    /\ UNCHANGED <<revisions, cache, scope, resolving, outcome, compiles>>

\* The resolver returns no error and no tree either.
Undefined ==
    /\ Pending /\ ~InProgress(Reference)
    /\ ~Cached(CacheKey(scope, Reference)) /\ Resolve(Reference) = Absent
    /\ Fail("unknown")

Enter ==
    /\ Pending /\ ~InProgress(Reference) /\ Len(stack) < MaxDepth
    /\ LET key == CacheKey(scope, Reference)
           def == Resolve(Reference)
       IN  /\ ~Cached(key) /\ def # Absent
           /\ resolving' = resolving \cup {key}
           /\ stack' = Append(stack, Frame(Reference, key, def))
    /\ UNCHANGED <<revisions, cache, scope, outcome, compiles>>

Compiled == stack # <<>> /\ ~Pending

\* Slips: the key stays marked; no key stays marked.
UnmarkNothing(key) == resolving
UnmarkAll(key) == {}
Unmark(key) == resolving \ {key}

Leave ==
    /\ Compiled /\ Len(stack) > 1 /\ Top.def.ends = "type"
    /\ LET type == Type(Top.def, Top.parts)
       IN  /\ cache' = [k \in DOMAIN cache \cup {Top.key} |->
                            IF k = Top.key THEN type ELSE cache[k]]
           /\ stack' = WithPart(Front(stack), type)
    /\ resolving' = Unmark(Top.key)
    /\ UNCHANGED <<revisions, scope, outcome, compiles>>

\* The definition itself is wrong: it is optional, say, or its clauses are.
Invalid == Compiled /\ Top.def.ends = "error" /\ Fail("invalid")

Return ==
    /\ Compiled /\ Len(stack) = 1
    /\ outcome' = Answer(Type(Top.def, Top.parts))
    /\ stack' = <<>> /\ resolving' = {}
    /\ UNCHANGED <<revisions, cache, scope, compiles>>

(***************************************************************************)
(* The resolver's environment.                                             *)
(***************************************************************************)
Redefine ==
    /\ Len(revisions) < MaxRevisions
    /\ \E table \in Definitions \ {Last(revisions)} : revisions' = Append(revisions, table)
    /\ UNCHANGED <<cache, scope, stack, resolving, outcome, compiles>>

Init ==
    /\ \E table \in Definitions : revisions = <<table>>
    /\ cache = <<>>
    /\ scope \in Scopes
    /\ stack = <<>> /\ resolving = {} /\ outcome = NoOutcome /\ compiles = 0

Next ==
    \/ Compile \/ Redefine
    \/ Cycle \/ Unresolved \/ Hit \/ Undefined \/ Enter \/ Leave \/ Invalid \/ Return

Spec == Init /\ [][Next]_vars

\* A compilation runs on its caller's goroutine until it returns.  The
\* resolver has to answer, but never has to answer with an error.
Work == Cycle \/ Hit \/ Undefined \/ Enter \/ Leave \/ Invalid \/ Return

FairSpec == Spec /\ WF_vars(Work)

(***************************************************************************)
(* Properties.                                                             *)
(***************************************************************************)

\* What the keys of a resolver promise: they are not names; names that share
\* a key are defined alike and refer to names that share keys, in every table;
\* and only names without a key of their own are recursive, while rank falls
\* along the references of the others.
SameKey(s, n, t, m) == Given[s][n] = Given[t][m] /\ (Given[s][n] = "" => n = m)

Contract(table, rank) ==
    \A s \in Scopes : \A n \in Names :
        /\ Given[s][n] \notin Names
        /\ \A t \in Scopes, m \in Names :
            SameKey(s, n, t, m) =>
                /\ table[s][n] = table[t][m]
                /\ \A k \in DOMAIN table[s][n].refs :
                    LET r == table[s][n].refs[k] IN SameKey(s, r, t, r)
        /\ \A k \in DOMAIN table[s][n].refs :
            LET r == table[s][n].refs[k]
            IN  Given[s][r] = "" \/ (Given[s][n] # "" /\ rank[r] < rank[n])

\* The marked keys are exactly those of the frames, and frames have as many
\* parts as they have gone through references.
TypeOK ==
    /\ revisions \in Seq(Definitions) /\ revisions # <<>>
    /\ scope \in Scopes /\ compiles \in 0..MaxCompiles
    /\ DOMAIN cache \subseteq {CacheKey(s, n) : s \in Scopes, n \in Names}
    /\ resolving = {stack[i].key : i \in 2..Len(stack)}
    /\ \A i \in DOMAIN stack :
        /\ Len(stack[i].parts) <= Len(stack[i].def.refs)
        /\ i > 1 => /\ stack[i].name \in Names
                    /\ stack[i].key = CacheKey(scope, stack[i].name)
    /\ outcome.kind \in {"none", "type", "cycle", "unknown", "invalid"}

\* The type of every part is the one the cache has for the reference in s.
Agrees(type, s) ==
    \A k \in DOMAIN type.parts :
        LET key == CacheKey(s, type.def.refs[k])
        IN  key \in DOMAIN cache /\ type.parts[k] = cache[key]

\* The types of one compiler agree with each other on what a name means in a
\* scope, at every depth, though definitions change under its hands and
\* compilations fail half-way; no scope sees a definition that was never its
\* own (katschema_test.go, TestResolver: "customer-scoped cache keys must not
\* reuse another customer's definition").
Coherent ==
    /\ \A s \in Scopes, n \in Names :
        LET key == CacheKey(s, n)
        IN  key \in DOMAIN cache =>
                /\ Agrees(cache[key], s)
                /\ Len(cache[key].parts) = Len(cache[key].def.refs)
                /\ \E i \in DOMAIN revisions : cache[key].def = revisions[i][s][n]
    /\ outcome.kind = "type" => Agrees(outcome.type, scope)

\* A key once compiled keeps its type (ast_test.go, TestCompileASTResolver:
\* "Reusing a scope key must reuse its compiled definition even if a resolver
\* returns a different definition on a later call").
KeysStick ==
    [][\A key \in DOMAIN cache :
        key \in DOMAIN cache' /\ cache'[key] = cache[key]]_vars

\* A definition is never compiled within its own compilation: recursion is
\* caught when the name comes up again (katschema_test.go,
\* TestResolverRejectsRecursion; compile.go: "used for cycle-detection").
RecursionCaught ==
    \A i, j \in 2..Len(stack) : stack[i].name = stack[j].name => i = j

\* A cycle is reported only of a name whose compilation is under way.
NoFalseCycle ==
    [][outcome'.kind = "cycle" /\ outcome.kind # "cycle" =>
        \E i \in 2..Len(stack) : stack[i].name = Reference]_vars

\* Every compilation returns, with a type or with an error.
EveryCompileReturns == stack # <<>> ~> stack = <<>>

=============================================================================
