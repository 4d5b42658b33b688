------------------------------- MODULE Arena -------------------------------
(***************************************************************************)
(* The hash-consing arena of internal/compiled: an append-only table of    *)
(* type definitions and one of constraints.  Every intern function of the  *)
(* code encodes the definition it wants over the fingerprints of its       *)
(* children, walks the chain of entries that have the same fingerprint and *)
(* either returns the entry that equals the definition or appends it.      *)
(*                                                                         *)
(* Both tables follow one algorithm, so the variables are functions of the *)
(* table.  The chain walk is one step per entry.  The hash is a parameter  *)
(* about which nothing is assumed: it may collide as often as it likes.    *)
(***************************************************************************)
EXTENDS Integers, Sequences, FiniteSets, SequencesExt

SimpleKinds == {"Any", "Never", "Null", "Bool", "Int", "Real", "String"}
AtomKinds == {"BoolAtom", "IntAtom", "StringAtom"}
Kinds == SimpleKinds \cup AtomKinds \cup
            {"List", "Tuple", "Object", "Sum", "Refined", "Constraint", "None"}

CONSTANTS
    Hash(_),         \* hashFunc: any function of an encoding
    Builtins,        \* the simple kinds init() interns, in its order
    Atoms,           \* the scalar atoms of a source: pairs <<kind, payload>>
    FieldNames,      \* names of fields, ordered
    TypeNames,       \* names a resolver gives to types, other than ""
    Flags,           \* field flags: 0, or 1 for an optional field
    Metas,           \* MetadataIDs other than 0
    Bounds,          \* the numeric part of a constraint: flags and limits
    MaxWidth,        \* bound: children of a tuple, object or enum
    MaxTypes,        \* bound: nodes of the arena
    MaxConstraints   \* bound: constraints of the arena

ASSUME BuiltinsAssumption == Builtins \in Seq(SimpleKinds)
ASSUME NamesAssumption ==
    /\ FieldNames \subseteq Nat /\ Flags \subseteq {0, 1}
    /\ TypeNames \subseteq Nat \ {0} /\ Metas \subseteq Nat \ {0}
ASSUME DataAssumption ==
    Atoms \subseteq AtomKinds \X Int /\ Bounds \subseteq Seq(Seq(Int)) \ {<<>>}
ASSUME BoundsAssumption ==
    MaxWidth \in Nat /\ MaxTypes \in Nat /\ MaxConstraints \in Nat

VARIABLES
    nodes,         \* [Tables -> Seq(Def)]: nodes, constraints
    fingerprints,  \* [Tables -> Seq(hash)]: fingerprints, constraintHash
    semantic,      \* semanticFingerprints, of types only
    hashNext,      \* [Tables -> Seq(id)]: hashNext, constraintNext
    hashHead,      \* [Tables -> partial function hash -> id]
    pc,            \* "idle", or "find" while a chain is walked
    request,       \* the definition being interned, its table and hash
    cursor,        \* the entry the chain walk looks at, 0 at its end
    result         \* what the last intern call returned

vars == <<nodes, fingerprints, semantic, hashNext, hashHead,
          pc, request, cursor, result>>
tables == <<nodes, fingerprints, semantic, hashNext, hashHead>>

Tables == {"type", "constraint"}

(***************************************************************************)
(* Definitions.  kids are the TypeIDs a node refers to (for a constraint,  *)
(* its enum), constraint is the ConstraintID of a refinement, labels hold  *)
(* what is not a reference: the payload of an atom, the <<name, flags,     *)
(* metadata>> of each field of an object, the <<metadata, name>> of a      *)
(* refinement, the flags and limits of a constraint.                       *)
(***************************************************************************)
Def(kind, labels, kids, constraint) ==
    [kind |-> kind, labels |-> labels, kids |-> kids, constraint |-> constraint]

Simple(k) == Def(k, <<>>, <<>>, 0)
NoRequest == [table |-> "type", def |-> Simple("None"), fp |-> 0]

TypeIds == DOMAIN nodes["type"]
ConstraintIds == DOMAIN nodes["constraint"]
Kind(id) == nodes["type"][id].kind
Kids(id) == nodes["type"][id].kids

(***************************************************************************)
(* Fingerprints and encodings.                                             *)
(***************************************************************************)
Fingerprint(t, id) ==
    IF id \in DOMAIN fingerprints[t] THEN fingerprints[t][id] ELSE 0

SemanticFingerprint(id) == IF id \in DOMAIN semantic THEN semantic[id] ELSE 0

\* The numbers of a sequence, repetitions included, in increasing order.
Ascending(s) ==
    LET order == CHOOSE q \in [DOMAIN s -> DOMAIN s] :
                    \A k, l \in DOMAIN s : k < l => q[k] # q[l] /\ s[q[k]] <= s[q[l]]
    IN  [k \in DOMAIN s |-> s[order[k]]]

\* a set of hashes with repetitions, in hash order
EncodeSumUnsorted(hashes) == hashes
EncodeSum(hashes) == Ascending(hashes)

Encode(def) ==
    LET hashes == [k \in DOMAIN def.kids |-> Fingerprint("type", def.kids[k])]
    IN  Def(def.kind, def.labels,
            IF def.kind = "Sum" THEN EncodeSum(hashes) ELSE hashes,
            Fingerprint("constraint", def.constraint))

\* The semantic encoding leaves names of types and all metadata out.
SemanticLabels(def) ==
    CASE def.kind = "Object"  -> [k \in DOMAIN def.labels |-> SubSeq(def.labels[k], 1, 2)]
      [] def.kind = "Refined" -> <<>>
      [] OTHER                -> def.labels

SemanticHash(def) ==
    LET hashes == [k \in DOMAIN def.kids |-> SemanticFingerprint(def.kids[k])]
    IN  Hash(Def(def.kind, SemanticLabels(def),
                 IF def.kind = "Sum" THEN EncodeSum(hashes) ELSE hashes,
                 Fingerprint("constraint", def.constraint)))

\* A refinement that adds no constraint means what its base means.
SemanticAlways(def) == SemanticHash(def)
Semantic(def) ==
    IF def.kind = "Refined" /\ def.constraint = 0
    THEN SemanticFingerprint(def.kids[1])
    ELSE SemanticHash(def)

(***************************************************************************)
(* The chain walk and the append.                                          *)
(***************************************************************************)
Bucket(t, fp) == IF fp \in DOMAIN hashHead[t] THEN hashHead[t][fp] ELSE 0

\* There is an entry to return, or room for a new one.
Room(t, def) ==
    \/ Len(nodes[t]) < (IF t = "type" THEN MaxTypes ELSE MaxConstraints)
    \/ \E i \in DOMAIN nodes[t] : nodes[t][i] = def

Intern(t, def) ==
    /\ pc = "idle" /\ Room(t, def)
    /\ LET fp == Hash(Encode(def))
       IN  /\ request' = [table |-> t, def |-> def, fp |-> fp]
           /\ cursor' = Bucket(t, fp)
    /\ pc' = "find"
    /\ result' = 0
    /\ UNCHANGED tables

\* The intern function returns an existing type without looking it up.
Return(id) ==
    /\ pc = "idle"
    /\ result' = id
    /\ UNCHANGED <<tables, pc, request, cursor>>

\* Slip: an entry with the hash of the request is taken for it.
EqualByHash(id) == fingerprints[request.table][id] = request.fp
Equal(id) == nodes[request.table][id] = request.def

FindNext ==
    /\ pc = "find" /\ cursor # 0 /\ ~Equal(cursor)
    /\ cursor' = hashNext[request.table][cursor]
    /\ UNCHANGED <<tables, pc, request, result>>

FindHit ==
    /\ pc = "find" /\ cursor # 0 /\ Equal(cursor)
    /\ result' = cursor
    /\ pc' = "idle" /\ cursor' = 0 /\ request' = NoRequest
    /\ UNCHANGED tables

\* Slip: a new entry starts its chain afresh.
LinkNothing(t, fp) == 0
Link(t, fp) == Bucket(t, fp)

AppendNode ==
    LET t  == request.table
        id == Len(nodes[t]) + 1
    IN  /\ pc = "find" /\ cursor = 0
        /\ nodes' = [nodes EXCEPT ![t] = Append(@, request.def)]
        /\ fingerprints' = [fingerprints EXCEPT ![t] = Append(@, request.fp)]
        /\ semantic' = IF t = "type" THEN Append(semantic, Semantic(request.def))
                                     ELSE semantic
        /\ hashNext' = [hashNext EXCEPT ![t] = Append(@, Link(t, request.fp))]
        /\ hashHead' = [hashHead EXCEPT ![t] =
                [fp \in DOMAIN @ \cup {request.fp} |->
                    IF fp = request.fp THEN id ELSE @[fp]]]
        /\ result' = id
        /\ pc' = "idle" /\ request' = NoRequest
        /\ UNCHANGED cursor

(***************************************************************************)
(* The intern functions: from arguments to the definition looked up.       *)
(***************************************************************************)
Booted == Len(nodes["type"]) >= Len(Builtins)
Ready == pc = "idle" /\ Booted

\* init() interns the builtin kinds before anything else.
Boot ==
    /\ pc = "idle" /\ ~Booted
    /\ Intern("type", Simple(Builtins[Len(nodes["type"]) + 1]))

InternSimple ==
    Ready /\ \E i \in DOMAIN Builtins : Intern("type", Simple(Builtins[i]))

InternAtom ==
    Ready /\ \E atom \in Atoms :
        Intern("type", Def(atom[1], << <<atom[2]>> >>, <<>>, 0))

\* finish() leaves either an enum or numeric limits in a constraint.
InternConstraint ==
    Ready /\ \/ \E b \in Bounds : Intern("constraint", Def("Constraint", b, <<>>, 0))
              \/ \E enum \in BoundedSeq({id \in TypeIds : Kind(id) \in AtomKinds}, MaxWidth) :
                    enum # <<>> /\ Intern("constraint", Def("Constraint", <<>>, enum, 0))

InternList ==
    Ready /\ \E elem \in TypeIds : Intern("type", Def("List", <<>>, <<elem>>, 0))

BaseKind[id \in TypeIds] ==
    IF Kind(id) = "Refined" THEN BaseKind[Kids(id)[1]] ELSE Kind(id)

\* Slip: look at the element itself, not at what it refines.
UninhabitedByKind(elems) == \E k \in DOMAIN elems : Kind(elems[k]) = "Never"
Uninhabited(elems) == \E k \in DOMAIN elems : BaseKind[elems[k]] = "Never"

InternTuple ==
    Ready /\ \E elems \in BoundedSeq(TypeIds, MaxWidth) :
        IF Uninhabited(elems)
        THEN \E id \in TypeIds : Kind(id) = "Never" /\ Return(id)
        ELSE Intern("type", Def("Tuple", <<>>, elems, 0))

Field == [name : FieldNames, flags : Flags, metadata : Metas \cup {0}, value : TypeIds]

\* the fields in name order; slip: the fields as written
FieldsAsWritten(fields) == {fields}
ByName(fields) ==
    {s \in [DOMAIN fields -> {fields[k] : k \in DOMAIN fields}] :
        \A k \in DOMAIN s, l \in DOMAIN s : k < l => s[k].name < s[l].name}

\* object() refuses a field given twice.
NoDuplicates(fields) == IsInjective([k \in DOMAIN fields |-> fields[k].name])

InternObject ==
    Ready /\ \E source \in {s \in BoundedSeq(Field, MaxWidth) : NoDuplicates(s)} :
        \E fields \in ByName(source) :
            Intern("type",
                Def("Object",
                    [k \in DOMAIN fields |->
                        <<fields[k].name, fields[k].flags, fields[k].metadata>>],
                    [k \in DOMAIN fields |-> fields[k].value], 0))

\* c = m = name = 0 adds nothing: the base itself is returned.
Vacuous(c, m, name) == c = 0 /\ m = 0 /\ name = 0

RefinedNamed(base, c, m, name) ==
    IF Vacuous(c, m, name)
    THEN Return(base)
    ELSE Intern("type", Def("Refined", << <<m, name>> >>, <<base>>, c))

\* schema() strips the outermost refinement of a named type if it can merge its
\* constraint or if there is none to merge; else it accepts no constraint.  Below
\* what it strips there may be another refinement, which it does not look at.
Strips(id) ==
    Kind(id) = "Refined" /\ (\/ nodes["type"][id].constraint = 0
                             \/ Kind(Kids(id)[1]) \in {"Int", "Real"})

InternRefined ==
    Ready /\ \E named \in TypeIds, c \in ConstraintIds \cup {0},
                 m \in Metas \cup {0}, name \in TypeNames \cup {0} :
        /\ Kind(named) = "Refined" => Strips(named) \/ c = 0
        /\ RefinedNamed(IF Strips(named) THEN Kids(named)[1] ELSE named, c, m, name)

WithRefinedName ==
    Ready /\ \E id \in TypeIds, name \in TypeNames :
        IF Kind(id) = "Refined"
        THEN RefinedNamed(Kids(id)[1], nodes["type"][id].constraint,
                          nodes["type"][id].labels[1][1], name)
        ELSE RefinedNamed(id, 0, 0, name)

(***************************************************************************)
(* Sums.  The members are flattened, sorted by ID and stripped of never,   *)
(* of repetitions and of what another member makes redundant.  Which those *)
(* are is Subtype's verdict; here keep is any choice it could make.  It    *)
(* keeps something; of any only one member, and of any with a label none   *)
(* that is not that too.  Of two members that are alike but for names and  *)
(* metadata it keeps one, unless Subtype does not see that: it tells any   *)
(* and never by their kind, before it looks through a refinement, so with  *)
(* a label they are not what they are without it.                          *)
(***************************************************************************)

\* The definition behind id with type names and metadata erased, objects and
\* sums as sets: what a type means as far as the arena can tell.
Erased ==
    LET E[id \in TypeIds] ==
            LET def == nodes["type"][id]
                parts == [k \in DOMAIN def.kids |-> E[def.kids[k]]]
                con == IF def.constraint = 0 THEN Simple("None")
                       ELSE nodes["constraint"][def.constraint]
            IN  CASE def.kind = "Refined" /\ def.constraint = 0 -> parts[1]
                  [] def.kind = "Object" ->
                        <<"Object", {<<SubSeq(def.labels[k], 1, 2), parts[k]>> :
                                        k \in DOMAIN def.kids}>>
                  [] def.kind = "Sum" -> <<"Sum", {parts[k] : k \in DOMAIN def.kids}>>
                  [] def.kind = "Refined" /\ def.constraint # 0 ->
                        <<"Refined", parts, con.labels,
                          [k \in DOMAIN con.kids |-> E[con.kids[k]]]>>
                  [] OTHER -> <<def.kind, def.labels, parts>>
    IN  E

\* The types id is made of, itself included.
Parts[id \in TypeIds] == {id} \cup UNION {Parts[Kids(id)[k]] : k \in DOMAIN Kids(id)}

\* The types that hold any or never under a name or metadata.
EndsLabelled ==
    {id \in TypeIds : \E p \in Parts[id] :
        /\ Kind(p) = "Refined" /\ nodes["type"][p].constraint = 0
        /\ Kind(Kids(p)[1]) \in {"Any", "Never"}}

SumMembers(id) ==
    CASE Kind(id) = "Never" -> {}
      [] Kind(id) = "Sum"   -> {Kids(id)[k] : k \in DOMAIN Kids(id)}
      [] OTHER              -> {id}

\* the atom of a literal, 0 for another type
Literal(id) ==
    LET c == nodes["type"][id].constraint
    IN  CASE Kind(id) \in AtomKinds \cup {"Null"} -> id
          [] Kind(id) = "Refined" /\ c # 0 /\ Len(nodes["constraint"][c].kids) = 1 ->
                nodes["constraint"][c].kids[1]
          [] OTHER -> 0

BoolLiterals(S, v) ==
    {id \in S : Literal(id) # 0 /\ nodes["type"][Literal(id)] = Def("BoolAtom", << <<v>> >>, <<>>, 0)}

\* true | false is (bool)
FoldBools(S) ==
    LET lits == BoolLiterals(S, 0) \cup BoolLiterals(S, 1)
    IN  IF BoolLiterals(S, 0) # {} /\ BoolLiterals(S, 1) # {}
        THEN (S \ lits) \cup {id \in TypeIds : Kind(id) = "Bool"}
        ELSE S

\* The type under the names and metadata of id.
Plain[id \in TypeIds] ==
    IF Kind(id) = "Refined" /\ nodes["type"][id].constraint = 0
    THEN Plain[Kids(id)[1]] ELSE id

Anys(S) == {id \in S : Kind(Plain[id]) = "Any"}

Kept(S) ==
    {keep \in (SUBSET S) \ {{}} :
        /\ (\E id \in S : Kind(id) = "Any") => Cardinality(keep) = 1
        /\ Anys(S) # {} => keep \subseteq Anys(S)
        /\ \A i, j \in keep \ EndsLabelled : Erased[i] = Erased[j] => i = j}

\* the members in id order
InIdOrder(S) ==
    {s \in [1..Cardinality(S) -> S] : \A k, l \in DOMAIN s : k < l => s[k] < s[l]}

\* The members of two types, in whatever form the two are.
Flats == {FoldBools(SumMembers(left) \cup SumMembers(right)) : left, right \in TypeIds}

InternSum ==
    Ready /\ \/ /\ {} \in Flats
                /\ \E id \in TypeIds : Kind(id) = "Never" /\ Return(id)
             \/ \E keep \in UNION {Kept(flat) : flat \in Flats} :
                IF Cardinality(keep) = 1
                THEN \E id \in keep : Return(id)
                ELSE \E ids \in InIdOrder(keep) : Intern("type", Def("Sum", <<>>, ids, 0))

(***************************************************************************)
(* The specification.                                                      *)
(***************************************************************************)
Init ==
    /\ nodes = [t \in Tables |-> <<>>]
    /\ fingerprints = [t \in Tables |-> <<>>]
    /\ semantic = <<>>
    /\ hashNext = [t \in Tables |-> <<>>]
    /\ hashHead = [t \in Tables |-> <<>>]
    /\ pc = "idle" /\ cursor = 0 /\ result = 0
    /\ request = NoRequest

Next ==
    \/ FindNext \/ FindHit \/ AppendNode
    \/ Boot \/ InternSimple \/ InternAtom \/ InternConstraint
    \/ InternList \/ InternTuple \/ InternObject \/ InternSum
    \/ InternRefined \/ WithRefinedName

Spec == Init /\ [][Next]_vars

(***************************************************************************)
(* Properties.                                                             *)
(***************************************************************************)

\* Every table has a column for every entry and ids stay inside the tables.
TypeOK ==
    /\ nodes \in [Tables -> Seq([kind : Kinds, labels : Seq(Seq(Int)),
                                 kids : Seq(Nat), constraint : Nat])]
    /\ fingerprints \in [Tables -> Seq(Nat)]
    /\ hashNext \in [Tables -> Seq(Nat)]
    /\ DOMAIN hashHead = Tables
    /\ \A t \in Tables : /\ Len(fingerprints[t]) = Len(nodes[t])
                         /\ Len(hashNext[t]) = Len(nodes[t])
    /\ semantic \in Seq(Nat) /\ Len(semantic) = Len(nodes["type"])
    /\ pc \in {"idle", "find"}
    /\ request \in [table : Tables, fp : Nat,
                    def : [kind : Kinds, labels : Seq(Seq(Int)),
                           kids : Seq(Nat), constraint : Nat]]
    /\ cursor \in 0..Len(nodes[request.table])
    /\ result \in Nat

\* What a definition refers to is in the tables; a refinement has one base.
Closed(def) ==
    /\ \A k \in DOMAIN def.kids : def.kids[k] \in TypeIds
    /\ def.constraint \in ConstraintIds \cup {0}
    /\ def.kind = "Refined" =>
            Len(def.kids) = 1 /\ Len(def.labels) = 1 /\ Len(def.labels[1]) = 2

\* A stored fingerprint is the hash of the definition stored with it.
Faithful(t) ==
    \A i \in DOMAIN nodes[t] :
        Closed(nodes[t][i]) /\ fingerprints[t][i] = Hash(Encode(nodes[t][i]))

\* A chain starts at the newest entry with its hash, leads from each entry to
\* the next older one with the same hash, and skips none.
Linked(n, hashes, next, head) ==
    /\ \A fp \in DOMAIN head :
        /\ head[fp] \in 1..n /\ hashes[head[fp]] = fp
        /\ \A j \in 1..n : j > head[fp] => hashes[j] # fp
    /\ \A i \in 1..n :
        /\ hashes[i] \in DOMAIN head
        /\ next[i] \in 0..(i - 1)
        /\ next[i] # 0 => hashes[next[i]] = hashes[i]
        /\ \A j \in 1..n : next[i] < j /\ j < i => hashes[j] # hashes[i]

Chained(t) == Linked(Len(nodes[t]), fingerprints[t], hashNext[t], hashHead[t])

\* No entry the walk has passed is the definition it looks for.
Searching ==
    pc = "find" =>
        LET t == request.table
        IN  /\ Closed(request.def) /\ request.fp = Hash(Encode(request.def))
            /\ cursor # 0 => fingerprints[t][cursor] = request.fp
            /\ \A j \in DOMAIN nodes[t] :
                j > cursor /\ fingerprints[t][j] = request.fp => nodes[t][j] # request.def

\* Equal definitions have equal ids: the "definition equality within same
\* arena is an ID equality" of doc.go, however the hash collides.
Canonical ==
    \A t \in Tables : \A i, j \in DOMAIN nodes[t] : nodes[t][i] = nodes[t][j] => i = j

\* The inductive invariant: why a walk that reaches the end of a chain has
\* seen every entry that could equal the request.
IInv ==
    /\ TypeOK
    /\ \A t \in Tables : Faithful(t) /\ Chained(t)
    /\ Searching
    /\ Canonical

\* A caller gets the definition it asked for, never another one that shares
\* its hash (compile_test.go, TestHashCollisionDoesNotAliasTypes).
NoAlias ==
    [][pc = "find" /\ pc' = "idle" => nodes'[request.table][result'] = request.def]_vars

\* The whole definition behind an id, with names and metadata, fields and
\* members as the sets they are.
Struct ==
    LET S[id \in TypeIds] ==
            LET def == nodes["type"][id]
                parts == [k \in DOMAIN def.kids |-> S[def.kids[k]]]
                con == IF def.constraint = 0 THEN Simple("None")
                       ELSE nodes["constraint"][def.constraint]
            IN  CASE def.kind = "Object" ->
                        <<"Object", {<<def.labels[k], parts[k]>> : k \in DOMAIN def.kids}>>
                  [] def.kind = "Sum" -> <<"Sum", {parts[k] : k \in DOMAIN def.kids}>>
                  [] def.kind = "Refined" ->
                        <<"Refined", def.labels, parts, con.labels,
                          [k \in DOMAIN con.kids |-> S[con.kids[k]]]>>
                  [] OTHER -> <<def.kind, def.labels, parts>>
    IN  S

\* The order in which a source writes fields and alternatives never shows:
\* two ids that unfold to the same structure are one id.
OrderIrrelevant ==
    \A i, j \in TypeIds : Struct[i] = Struct[j] => i = j

\* The types with a sum that may keep several members of one meaning: any or
\* never with different labels.
MayRepeat ==
    {id \in TypeIds : \E p \in Parts[id] :
        Kind(p) = "Sum" /\ \E k \in DOMAIN Kids(p) : Kids(p)[k] \in EndsLabelled}

\* Semantic fingerprints see neither names nor metadata, at any depth
\* (doc.go: they "belong to definition identity, not semantic equivalence"),
\* but for the types with such a sum: it writes one hash for each member kept,
\* so sums of two and of three differently labelled any differ.
SemanticErasure ==
    \A i, j \in TypeIds \ MayRepeat : Erased[i] = Erased[j] => semantic[i] = semantic[j]

\* A tuple with a position nothing fits is never interned as a tuple, however
\* deep the never is refined.
NoEmptyTuple ==
    \A id \in TypeIds : Kind(id) = "Tuple" =>
        \A k \in DOMAIN Kids(id) : BaseKind[Kids(id)[k]] # "Never"

\* Whatever hashes, chains and walks do, intern calls and the ids they return
\* are those of two tables without any: the promise of doc.go, that equality
\* of definitions is equality of ids, as a specification of its own.
Store == INSTANCE TypeStore WITH
    Definition <- [kind : Kinds, labels : Seq(Seq(Int)), kids : Seq(Nat), constraint : Nat],
    store  <- nodes,
    asking <- pc = "find",
    asked  <- [table |-> request.table, def |-> request.def]

ImplementsStore == Store!StoreSpec

============================================================================
