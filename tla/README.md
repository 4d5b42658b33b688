# Katschema: models, checks and proofs

Katschema is a schema language: a schema is a JSON-like value whose positions
may hold types with constraints, `{"age": (int, x >= 0)}`.  The Go code parses
a schema into an AST, compiles the AST into a *semantic type* that is stored
once in an *arena*, and answers questions about types: is a value valid, is a
type a subtype of another, are two types the same, what does one look like
with another's fields laid over it.

This directory holds TLA+ modules of the parts that decide those answers, TLC
configurations that check them and machine-checked proofs about the arena, the
resolver, the decimals and the normalizer.  Paths are relative to `src/`; `compiled/` stands for `internal/compiled/`.

## 1. Inventory

The program is a library.  It starts no goroutine and keeps nothing on disk;
its state is memory that lives across many calls, and that is where it is
hard (with the parser's stack and lookahead, and a decimal read in place): the arena only grows, every type compiled earlier is shared by those
compiled later, and the same answer must come out whatever was compiled
before, in whatever order.

| Component | Files | State | Operations | What makes it correct |
|---|---|---|---|---|
| Type arena | `compiled/arena.go`, `nodes.go` | node table, fingerprints, hash chains, constraint table | one intern function per kind, `find`, `appendNode` | equal definitions have one id; a hash collision never merges two; what is stored never changes |
| Fingerprints | `compiled/fingerprint.go`, `encode.go` | two hashes per node | definition and semantic fingerprint | depend on the definition, never on ids or on the order of compilation; the semantic one ignores names and metadata |
| Normalizer | `compiled/constraint.go`, `integer.go`, `float.go` | a normal form while a schema is read | `consume`, bounds, enums, `finish`, `internConstraint` | accepts exactly what the clauses accept; one form per meaning; an empty type is `never` |
| Constraint order | `compiled/order.go` | none | `accepts`, `subset` | inclusion of the sets accepted |
| Subtype lattice | `compiled/order.go`, `internSum` in `arena.go` | none | `SubtypeOf`, `Equivalent`, reduction of sums | a partial order; a sum keeps one of each meaning and accepts what its members do |
| Named types | `compiled/compile.go` (`typeRef`), `katschema.go` | the compiler's cache, the set of keys in progress | resolve, look up, compile the definition, store | a name means one thing per scope; recursion is refused; every compilation ends |
| Compiler front | `compiled/compile.go` | none of its own | AST to intern calls | no state beyond the above |
| Validation | `compiled/validate.go`, `validate_type.go` | none | `Valid`, `ValidateType` | agrees with the meaning of the type and with `SubtypeOf` |
| Type checking | `compiled/typecheck.go` | none (interns) | `TypeCheck` | a value keeps its meaning when read inside a schema |
| Views, overlays | `compiled/view.go` | immutable view nodes | `Overlay`, `OverlayAt`, `Traverse` | inputs untouched; replaced fields are whole; fingerprints as if compiled |
| Metadata | `compiled/metadata.go` | attribute table | intern, merge | one id per set; the reference wins |
| Decimals | `math/decimal/decimal.go`, `compiled/real.go` | none | `Parse`, `Equal` | one canonical digits/exponent pair per number, at the limits of int64 as well |
| Parser, lexer | `parser/` | one token of lookahead, depth | `Parse` | precedence, depth limit |
| AST, printer | `parser/ast/` | node pools | build, print | print and parse again gives the tree |
| Go DSL | `ks/ks.go` | a value tree | constructors, `Build` | builds the tree the text would |
| Public API | `katschema.go`, `scalar.go`, `json.go` | `Compiler`: arena, resolver, cache | forwards | |
| Ohm grammar | `grammar.ohm`, `grammar/` | none | documentation, JS tests | |

How they interact.  `Compiler.CompileAST` hands the tree to the compiler
front, which walks it depth first.  For a schema `(T, clauses)` it resolves
`T` — a builtin, or a name that the user's resolver defines by another value,
compiled by the same walk, one level deeper — takes the named type's
constraint as the start of a normal form, feeds the clauses to the normalizer
and interns the result as a refinement.  Everything it builds goes through an
intern function of the arena.  `order.go`, `validate.go` and `view.go` read
the arena; `internSum` is the one intern function that asks `order.go` back.

Hard behaviours: hash collisions in the middle of chains; canonical order
where ids are accidental; boundaries and overflow in limits; memory of an
interned constraint that is read, and written, by a later compilation; caches
that outlive the definitions they were filled from; recursion through user
callbacks; compilations that fail half-way and leave their parts behind.  Each
one is listed with its line in `PROJECT.json` under `hazards`.

## 2. Modules

| Module | Models | Composes |
|---|---|---|
| `TypeStore` | abstract: what the arena promises | |
| `Arena` | hash-consing of types and constraints | implements `TypeStore` |
| `ArenaPair` | two compilers' arenas | `Arena` twice |
| `ArenaProofs` | proofs about `Arena`: ids and definitions, then what definitions unfold to | extends `Arena` |
| `ArenaPairProofs` | proofs about `ArenaPair` | extends `ArenaPair` and `ArenaProofs`, and instantiates the latter for the second arena |
| `Constraint` | atoms, constraints, their meaning and order | |
| `ConstraintMeaning` | abstract: what a schema promises | extends `Constraint` |
| `Normalizer` | clauses to normal form to interned constraint | extends `Constraint`, implements `ConstraintMeaning` |
| `NormalizerProofs` | proofs about `Normalizer`, `Constraint` and the refinement | extends `Normalizer` |
| `NormalFormProofs` | proofs that normal forms are unique and `Subset` a complete order | extends `NormalizerProofs` |
| `Resolver` | user-defined names over many compilations | |
| `ResolverProofs` | proofs about `Resolver` | extends `Resolver` |
| `Decimal` | `Parse`, `String`, the arena's reals and their order | |
| `DecimalProofs` | proofs about `Decimal` | extends `Decimal` |
| `Induction` | facts about sets, orders and functions the proofs share | |
| `Parser` | the parser | |
| `ParserProofs` | proofs about `Parser` | extends `Parser` |
| `Printer` | the printer, and the parser on its output | extends `Parser` |
| `Lattice` | types as trees: order, validation, interning of types | extends `Constraint` |
| `Types` | sums, `TypeCheck`, overlays, fingerprints of views over the types a program makes | extends `Lattice` |
| `MC*` | constants for TLC | |

### Arena

`nodes`, `fingerprints`, `hashNext`, `hashHead` are the fields of `Arena` for
the node table, and `constraints`, `constraintHash`, `constraintNext`,
`constraintHead` for constraints: the code repeats the same algorithm, so the
variables are functions of the table.  A *definition* is what a node and its
side tables hold: kind, children, constraint, and labels for everything that
is no reference.  `Encode` is the byte encoding with children replaced by
their fingerprints, `Hash` a constant operator about which nothing is assumed.

An intern call is `Intern` (encode, hash, read the head of the chain), any
number of `FindNext`, then `FindHit` or `AppendNode`.  The intern functions
differ in the definition they ask for: `InternTuple` gives `never` when a
position is, `InternObject` sorts fields, `InternSum` flattens, folds
`true | false`, sorts and removes redundant members, `InternRefined` returns
the base when it adds nothing and takes the outermost refinement of a named type
off where `schema()` does (`Strips`), which may leave one below it.  Which
members of a sum are redundant is `SubtypeOf`'s verdict; the module lets it be
any verdict that keeps one member of each meaning (`Kept`).  Here the arena
does depend on the lattice: `any` and `never` under a name or metadata
(`EndsLabelled`) are not what they are without it in the eyes of `SubtypeOf`, so
a sum may keep several of them, which `Kept` allows as well.

`TypeStore` is what a caller may rely on: two tables that definitions are only
added to, and calls that return the id of the entry that equals the request or
the next id.  Seen through `nodes`, `result` and the request under way, `Arena`
is one (`ImplementsStore`): hashes, fingerprints and chains decide how an entry
is found, never which.

### ArenaPair

A second instance of `Arena` receives the definitions of the first in any
order in which children come before parents, as a second compiler would.

### Constraint, ConstraintMeaning, Normalizer

Numbers are sampled points of a line in units of `1/Step`: integers are
multiples of `Step`, reals all points.  `MCNormalizer` samples quarters so that
there are points between and beyond all literals; on a dense line limits at
literals cannot tell two points of one gap apart, so the sample decides every
question about inclusion, emptiness and equality of the constraints at hand.
`Dense` says what such a sample is: `Cuts` are the numbers limits and enums can
come to stand at (the literals, the integers beside them and what the named
types bring), and there is a point at every cut, between any two, and a whole
one below and above all of them, and a string of every length.  `MCNormalizer` has TLC evaluate it.

`Normalizer` keeps one schema in progress: `norm` is `normConstraint`, an
action per kind of clause (`ValueBound`, `LengthBound`, `EnumClause`; chains,
`&&`, `==` and `||` of equalities are sequences or forms of these), `Reject`
for a clause the base cannot take, and `Finish`, which is all of `finish()`
with `internConstraint`.  `StartNamed` starts from any type compiled before, as
`schema()` does for named types.  A type is a kind under a chain of refinements
(`TypeNodes`): `schema()` looks at the outermost one only, takes it off when it
can merge its constraint or there is none (`Merges`), and puts its own around
what is `below`.  A refinement that only gives metadata is a schema without
constraint clauses; the clauses themselves do not matter here.  `shared` is the aliasing of Go slices: the
constraint whose enum memory the normal form reads.  `Overwritten` is the
in-place filter `out := n.enum[:0]`.  Sorting and merging are described by
what they return: `Picked` is the elements at some positions in an order, and
`SortUniqueTypes`, `Intersect` and `Filtered` are instances of it.  A literal
(`IsAtom`) is a whole number if it is an int, and a string that exists; the
named types at hand are such as `finish()` leaves them (`Finished`, `Fits`,
`Settled`) and `internConstraint` numbers them, no two alike.

`ConstraintMeaning` knows nothing of normal forms: a schema is a set of
values, every clause takes some away, and a finished type keeps its set for
ever.  `ImplementsMeaning` checks the refinement, the abstract state being the
set each compiled type and the schema in progress accepts.

### Resolver

`stack` holds the frames of `typeRef`, the compiled schema at the bottom;
`cache` is `Compiler.resolved`, `resolving` the set of the running
compilation.  The resolver is a table that may be replaced between any two
steps (`Redefine`) and may fail at any call (`Unresolved`).  The key a
resolver gives is a constant, `""` where it gives none.  A type is a definition
with the types its references became, so an out-of-date part can be seen.

What a resolver owes the compiler is stated as `Contract`: names share a key
only if they are defined alike in all scopes, keys are not names, and names
with keys of their own are not recursive.  `MCResolver` assumes it of the
definitions checked, `MCResolverKeys` breaks the last part.

### Decimal

One action per state of `decimal.Parse`: the bytes of the integer, the
fraction, the explicit exponent, then `canonicalize` and `applyExp`.  `raw` is
the memory the text is read from and `buf` the digits; with `shared` a digit
that is gathered overwrites a byte of `raw`, as the "allocation-free
destructive parser" does.  Exponents are `int64`, their magnitude `uint64`, of
a width given by `MaxExp`.  A number that was read is printed and read again
(`Reparse`), as a text handed to `New` or written as a literal is;
`realToFloat64` hands it to `strconv.ParseFloat`, which is not modelled.  The properties
compare with the exact value of the text (`WrittenCoefficient`,
`WrittenExponent`), with what the lexer's `scanNumber` accepts, and
`CompareNumbers` with the order of exact values.

### Parser, Printer

The parser's calls are frames on `calls`; an action runs one function up to
its next token or call.  The lexer gives a token when the parser asks for it,
chosen from a small set, so all texts are explored up to their first error,
and texts with a common prefix are one behaviour.  `tok` and `look` are
`p.tok` and `p.look`, `depth` is `p.depth`.  In `Printer`, when a text is
accepted, `Format` prints the tree, as it is or without its groups (the tree
`ks` builds), and parses the print.

### Lattice, Types

A type is a tree.  That is faithful because the arena gives one id per
definition (`Arena`, proved): equal ids are equal trees.  `SubtypeOf` has the
cases of `order.go` in their order, `AcceptsValue` and `IsValue` those of
`validate_type.go`, `Valid` those of `validate.go`, `Compiled` compiles a value
as `compile.go` does.  A value may have a schema in the place of a value, and
fields twice and in any order.  What constraints do comes from `Constraint`.

`Types` is a program: it compiles a source, joins two types (`internSum`),
reads one type as a value of another (`TypeCheck`), or lays one over another
at a path (`OverlayAt`, whose result is a view: no arena holds it, so it is no
operand of the other two).  Fingerprints decide between members of a sum that
contain each other.  Here a type made earlier comes first, and every order of
making types is explored.  `InternedPrint` is what the intern functions of the
arena hash, `ViewPrint` what `fingerprintEncoding` hashes, as terms.

## 3. Runs

| Run | Shows |
|---|---|
| `arena` | all arenas of 4 nodes and 2 constraints over a 3-valued hash: the inductive invariant, one id per structure whatever the order of fields and alternatives, semantic fingerprints blind to names and metadata, no tuple with a never in it, and for a caller the store of `TypeStore`: no call returns another definition than the one it asked for |
| `arena_pair` | arenas of up to 6 nodes: both fingerprints independent of ids |
| `normalizer` | seven bases, every type compiled before by its name, two clauses, two schemas in a row: normalization keeps the meaning, around constraints as well; one normal form per meaning; `subset` answers yes only to subsets, and on numbers to all of them; empty schemas are `never` unless a constraint is put around another |
| `int_alias` | **violated**: a named int enum loses its enum when referred to |
| `real_alias` | **violated**: refining a named real enum rewrites it |
| `stacked` | **violated**: metadata around a constrained string hides the constraint from the next schema, which puts a second one around it |
| `resolver` | two tenants, recursive names, failing and changing resolver: coherent cache, keys that stick, cycles found and never invented, every compilation returns |
| `resolver_keys` | **violated**: with cache keys other than names recursion is not caught |
| `decimal` | 4 600 texts around the limits of the exponent: the number read is the one written, the exponents refused are those that do not fit, bytes not read yet are intact, printing and reading is the identity, order and identity of reals follow their values |
| `parser` | all texts of up to eight tokens after four openings: the depth counted is that of the constructs being parsed, no tree is deeper than the limit, nothing lost by the lookahead, operators grouped by level, a print parses to the tree it was made of and prints the same again |
| `types` | all programs that make three types: the order is sound and transitive, sums mean what their operands do and nesting does not matter, three validations agree, `TypeCheck` stays between value and schema, labels do not matter, overlays are exact and hash as if compiled |
| `types_ends` | **violated**: a name or metadata on `any` or on `never` makes a type that is not equivalent to it |

Bounds.  Four nodes are two builtins and two more, enough for a chain with
three mixed entries, a parent with two children and a refinement of one; two
widths make order visible.  Sums of three members and three-deep nesting need
the six nodes of `arena_pair`.  In `normalizer` the smallest disagreement of clause order,
inclusivity or merging takes two clauses, or one and a named type; two literals
in an enum are the least that can be out of order or half-filtered.  Two
schemas per behaviour beyond the three named types are what `OneNormalForm`
compares and what a constraint around another one takes: one gives metadata to
the named string, the next refines that.  With the first schema referred to by
name the second folds up to four clauses in all.  `len(x)` is compared with 0 and
the largest length, from either side of which 1 is reached.  In `resolver` two
names in a circle, one scoped name and one change of the table give every
order of hit, miss, failure and change; two compilations make the cache
matter; `MaxDepth` is above any depth reached.

In `decimal` the exponents 18 to 23 lie on both sides of `MaxExp = 20` for
every number of digits that can move into the exponent (at most two dropped
and two fractional), on both signs; the machine's own limit is no different
but for its size.  In `parser` the first opening reaches two nested operators
of every pair of levels in parentheses or not, the others signs, every
bracket, sums, objects, paths, calls and attributes; `MaxDepth = 4` is reached
by the texts, and a print that needs more parentheses than its text may be
refused as too deep, which `PrintParses` allows.  In `types` three types are
the least with which transitivity and nesting can fail, or a sum that was
joined be a schema; the 40 sources cover every kind but null, each constraint
that crosses a kind (limits, enums, formats, lengths), labels on types, on
`never`, on references and on fields, and objects in wrappers for the paths of
overlays.
The sources `any` with an enum of numbers, `any` with a label and a reference
with metadata to a named boolean literal are left out of `types`, because for
them the code does not do what the properties say (section 4).

Deadlock is off where a behaviour ends because a bound is reached
(`MaxTypes`, `MaxCompiles`).

Fairness.  Only `resolver` has a liveness property, under weak fairness of the
compiling goroutine's own steps (`Work`): it runs on its caller's goroutine and
nothing but the resolver can hold it up.  The resolver is assumed to answer;
that it answers with an error is never assumed, and the caller owes no further
compilation.

`OneNormalForm` and `SubsetIsComplete` have exceptions in the statement, because
the code does: limits are not compared with an enum of the same numbers
(`subset`, `order.go:318`), although `compiled/README.md:51` counts them as
one, and float formats make the accepted set of a real depend on rounding.
`NeverIsExact` excepts a constraint around another one, which `finish()` does not
see (section 4), `len(x) < 0`, which it keeps as a limit of -1, and formats
whose range excludes the limits.  `LabelsIrrelevant` excepts types that hold
`any` or `never` under a name or metadata, and `SemanticErasure` types that hold
a sum with such a member (`MayRepeat`).  `SubsetIsSound` compares types that are
`below` the same constraints, as the order does, which descends from refinement
to base.

## 4. Disagreements found

1. **A named int type loses its enum.**  `intConstraintNorm`
   (`compiled/constraint.go:969`) copies limits only.
   `TestResolverPreservesConstrainedType` states the intent, for strings.
2. **Refining a named real type changes it.**  `realConstraintNorm` shares the
   enum's memory and `finish()` filters it in place, against "immutable
   semantic type" (`katschema.go:106`).
3. **Recursion is caught only when keys are names.**  `typeRef` looks up the
   name and marks the key (`compiled/compile.go:459`, `478`).
4. **A label on `any` or `never` is not transparent.**  `SubtypeOf` refuses
   `(any)` below everything but `any` itself, and everything but `never` itself
   below `(never)`, by kind (`compiled/order.go:37`) before it looks through
   refinements without constraints, against "Names and metadata do not affect
   equivalence" (`katschema.go:282`).
5. **Metadata hides a constraint from the next schema.**  With
   `T = (string, x == "a")` and `U = (T, desc "d")`, the schema `(U, x == "b")`
   is compiled: `schema()` takes the metadata off and does not look at what is
   below (`compiled/compile.go:325`).  `(T, x == "b")` is refused, "rejecting
   additional constraints that this normalizer cannot merge"
   (`compiled/compile.go:322`).  The type means what it says, and nothing is its
   meaning here, but it is not `(never)`.

Also noted, without a run:

* By 4, a sum keeps `(any, desc "a")` and `(any, desc "b")` both
  (`compiled/arena.go:567`), and the semantic fingerprint writes one hash for each
  (`compiled/fingerprint.go:105`): the sums of two and of three such members
  differ in metadata alone and have different semantic fingerprints, although
  names and metadata "belong to definition identity, not semantic equivalence"
  (`compiled/doc.go:10`).  TLC finds them if `SemanticErasure` is stated without
  its exception, for an arena of `Any` alone with three metadata and six nodes.
* `(any, x == 1)` keeps an integer atom: `SubtypeOf` and `ValidateType` accept
  `1.0`, `ValidateAST` does not, and `internSum` drops `1.0` beside it.
* Given `T = (bool, x == true)`, a reference `(T, desc "...")` is a refinement
  of a refinement and no literal, so the fold of `true | false` depends on the
  nesting: with `true | (T, desc "...") | false` one order gives `bool`, the
  other a sum that `bool` is not a subtype of.  With this source added to
  `types`, `SumOrderFree` fails.
* The order is incomplete: it does not put `(int, x >= 0)` below
  `(real, x >= 0)`, nor a range below an equal enum (`compiled/README.md:51`
  counts them as one), nor a type below a sum that only together holds it.
  `SubtypeSound` is one direction only for that reason.
* `ValidateAST` refuses a schema that is one value as an element of an array,
  `ValidateType` accepts it: `PathsAgree` excepts it.
* The printer's output for sums nested to the right parses as nested to the
  left, and sums with scalar members built by `ks` print as text that does not
  parse.
* `uint` and uppercase `IN` in `README.md`.

## 5. Proofs

Every theorem holds for all values of the constants that satisfy the named
assumptions of its module; TLC evaluates the same assumptions in the runs.

### The arena: `ArenaProofs`, `ArenaPairProofs`

For every hash function with natural values (`HashIsNat`; the code's `uint64`,
and nothing says hashes are distinct), all sets of builtins, atoms, names and
limits and arenas of any size:

* `ArenaInvariant`: `Spec => []IInv`
* `DefinitionEqualityIsIdEquality`: `Spec => []Canonical`
* `ArenaTypes`: `Spec => []TypeOK`
* `NoDefinitionAliasing`: `Spec => NoAlias`
* `StructureEqualityIsIdEquality`: `Spec => []OrderIrrelevant`
* `TuplesAreInhabited`: `Spec => []NoEmptyTuple`
* `SemanticFingerprintsErase`: `Spec => []SemanticErasure`
* `ArenaImplementsStore`: `Spec => ImplementsStore`
* `StoreKeepsItsWord`: `Store!StoreSpec` implies `[]OneIdEach`,
  `[]ChildrenFirst` and `IdsKeepTheirMeaning`
* `IdsAreForEver`: `Spec` implies the last two
* `FingerprintsAreOrderFree`: `PairSpec => []OrderFreeFingerprints`

`Canonical` alone is not inductive: an append keeps ids unique only if the
walk that preceded it saw every entry that could be equal.  `IInv` adds that
stored fingerprints are hashes of what is stored (`Faithful`: definitions only
refer to entries that exist, and entries never change), that chains run
through all entries of a hash, newest first (`Chained`), and that the running
walk has passed no equal entry (`Searching`).  At the end of a chain these
give: no entry equals the request.

`OrderIrrelevant` is about definitions unfolded to the leaves, with fields and
members as sets.  It needs of every stored node that its fields are sorted by
name without repetition and its members by id, each once, and that a
definition refers to older ones only (`SInv`); then, by induction on ids, nodes
that unfold alike have equal children, hence equal fields and the same members
in the same order, hence equal definitions, and `Canonical` makes them one.  `NoEmptyTuple` follows the
refinements below a position down to a base (`TInv`: children come before
parents, and a node that is never through refinements is `never` itself).

`SemanticErasure` erases names, metadata and refinements without constraints
at every depth and compares what is left, fields and members as sets.  `EInv`
says that the column of semantic fingerprints is computed from the definitions
beside it and stays so (`Column`), that constraints refer to atoms, whose ids
their labels determine, and that the members of a sum are `Apart`: no two erase
to the same, unless one of them holds a labelled `any` or `never`.  The last part carries the proof.  Hashes of members are sorted
with repetitions, so two sums that erase to the same set hash alike only if
neither holds a member twice, which is what the reduction of sums is for.  It
fails at that for members under which there is `any` or `never` with a label, so
the types with such a sum are excepted (`MayRepeat`); `PartsStable`, `EndsStable`
and `RepeatsNot` show that what a type is made of does not change as the arena
grows, and that the parts of a type that is not excepted are not either.
`AscendingIs` and `AscendingSame` say what sorting returns and that it forgets
the order it was given; with them induction on ids shows that what erases alike
hashes alike (`MeaningDetermines`).

`ArenaImplementsStore` maps `Init` to `StoreInit` and each step to one of the
store or to none: a step along a chain is none, `FindHit` is `AnswerOld`, and
the step that needs an argument is `AppendNode`, which is `AnswerNew` only if no
entry equals the request (`WalkedInVain`, from `Searching` and `Faithful` at the
end of a chain).  That what is asked for refers to entries that exist is
`Closed`, again in `IInv`.  The store needs only that to keep its word
(`StoreInv`): a new entry's parts are there before it, and nothing is replaced.

In `ArenaPairProofs` the second arena is an instance of `ArenaProofs`, so
that what was proved of one arena holds of both.  `PInv` adds that what was
copied has the two fingerprints of what it was copied from (`AllCopied`), and
that the walk under way in the second arena looks for the translation of one
definition whose parts were copied (`InFlight`).  The step that matters is
`TranslateAlike`: a translated definition hashes as the original, although the
members of its sums are in another order, that of the ids of the second arena.

### The resolver: `ResolverProofs`

For every resolver that keeps its promise (`Promise(rank)`: every table it may
change to keeps `Contract`, under one rank of the names, that falls along the
references of names with keys of their own; `MCResolver` assumes the same of
the tables it checks), any number of names, scopes, compilations, failures and
changes of the resolver:

* `TypeCorrect`: `Spec => []TypeOK`
* `Coherence`: `Spec => []Coherent`
* `NoRecursion`: `Spec => []RecursionCaught`
* `KeysAreKept`: `Spec => KeysStick`
* `CyclesAreReal`: `Spec => NoFalseCycle`
* `DepthBounded`: with finitely many names the stack is never deeper than
  their number, so `MaxDepth` only cuts what cannot happen.

The strengthening `IInv(rank)` says that the marked keys are those of the
frames, that no key on the stack is in the cache, that frames of one key are
one frame (which needs the rank: names are looked up and keys are marked), that
every frame compiles the reference its caller has come to, and that the parts
it has finished agree with the cache.  A store then puts into the cache what
every other answer for the key agrees with.

### Decimals: `DecimalProofs`

For texts of every length and integers of every width:

* `DecimalTypes`: `Spec => []TypeOK`
* `UnreadBytesKept`: `Spec => []UnreadIntact`; what is gathered is never ahead
  of what is read
* `ResultsCanonical`: numbers have no leading or trailing zero
* `ExponentExact`, `ExponentsNeverWrap`: the test against `expLimit` passes
  just when the exact exponent is an `int64`, and then the arithmetic does not
  wrap, at any step
* `OneRealPerValue`: `Spec => []OneReal`, for numbers compared with that do not
  begin with a zero and whose trailing zeros fit into the exponent (`Tame`;
  every number `Parse` returns is)
* `OrderIsByValue`: `Spec => []OrderIsNumeric`, for numbers compared with that
  do not begin with a zero (`Trimmed`)
* `NumbersAreExact`: `Spec => []Exact`, for texts of any length an `int` counts
  (`DecimalAssumption`, with `MaxExp` the largest `int`)
* `RefusalsAreExact`: `Spec => []RefusesExactly`; what `Parse` takes is what the
  lexer takes, and `overflow` is said of no number whose canonical exponent is
  an `int64`
* `PrintedNumbersReturn`: `Spec => []RoundTrip`

`DInv` adds to the types that fewer bytes are gathered than read, that the
magnitude of an exponent is below its limit while it is read, and what the
buffer holds at each state of the reader.

`NumbersAreExact` needs more, `Reading`: what the bytes read say is at each
state what is gathered, first the digits alone (`Valued`), then digits times a
power of ten (`Says`, which `canonicalize` establishes), and behind the mark of
the exponent its magnitude (`Marked`).  Its part `Fits` looks ahead to the next
parse: the digits of a number, printed, stay within an `int`, so that the zeros
dropped less the fractional digits never wrap in `adjust`.  `CoefficientsAre`
and `PowersAre` give the recursive functions behind it their equations
(`Induction!Recursion`), `ZerosBehind`, `ZerosBefore` and `AppendIs` what zeros
and one more digit do to a coefficient.

`RefusalsAreExact` relates two readers of the same grammar.  `Lexing` says for
each state of `Parse` at which place of `scanNumber` the text has been read to:
inside a run of digits, at the end of the integer part or of the fraction, or
behind the mark (`ScanIs` and `UnsignedIs` give the operators of the lexer as
equations).  `Refused` keeps, once `overflow` is said, what the exponent is:
`CanonicalExponentIs` finds it as the written one plus the zeros at the end of
the coefficient, which are the powers of ten that divide it, and `OverflowIs`
shows that more digits cannot bring it back.

`PrintedNumbersReturn` unfolds `String`: `Laid` says where in a text the sign,
the digits, the mark and the exponent are, `StringSays` that `String` lays them
so, with `DecimalsSay` for the exponent (`Coefficient(Decimals(n)) = n`), and
`StringReads` what the text then says.  `CanonicalOnce` makes the number read
the number printed: of two canonical numbers with one sign, coefficient and
exponent, `OrderIsExact` finds neither less.

### The normalizer: `NormalizerProofs`

For any points, literals, strings, base types, named types and bounds, under
one condition, `EnumAliases = FALSE`: no schema refines a number with an enum by
its name.  Findings 1 and 2 (section 4) are what happens without it.

* `NormalizerTypes`: `Spec => []TypeOK`
* `NormalizingKeepsMeaning`: `Spec => ImplementsMeaning`, the refinement of
  `ConstraintMeaning`
* `CompiledTypesAreImmutable`: `Spec => TypesImmutable`
* `NamesKeepTheirMeaning`: `Spec => NamedTypePreserved`
* `SubsetsAreSubsets`: `Spec => []SubsetIsSound`

The lemmas follow the code from the inside out.  `AtLeastIs` and `AtMostIs`:
a limit that is applied accepts exactly the conjunction, at equal limits of
different inclusivity too.  `ApplyDiscreteIs`: the same with a strict limit
made inclusive, for values a unit apart (`Multiples`: integers are).
`PickedIs`: what sorting and merging return, from `Listed`, that a finite set
with a strict order can be listed in it.  `EnumNarrows`, `IntNarrows`,
`RealNarrows`, `LengthNarrows`: a clause leaves of the form what satisfies the
clause.  `NothingLeft`, `TupleDecided`, `SingleIs`, `FinalIs`: `finish()`
changes the form and not the meaning.  The inductive invariant `NInv` has
three parts: what is interned is `Finished` and fits (`Stored`), the form in
progress has whole limits and a sorted enum (`InProgress`), and it shares no
memory and still means the named type before its first clause (`Untouched`).
Without the sorted enums the merge loses values; without the whole limits over
int `n + 1` is not the next value; without the last part `finish()` writes
into types compiled before.  From a named type a value is only carried over
through `Fits`: `intConstraintNorm` drops a format, which an int never has.

A constraint may stand around others (finding 5).  What is `below` a type is
interned already and of the same base (`Stacks`, part of `Stored`), so its
meaning is kept like that of any compiled type, and what a clause or `finish()`
does to the form in progress narrows what is inside of it (`Inside`).
`NeverIsNever` says nothing of types with two constraints (`Chain`): each alone
leaves a value, and nothing in the code looks at both.

### Normal forms: `NormalFormProofs`

Under the same condition, the first three for points that are `Dense`:

* `NeverIsNever`: `Spec => []NeverIsExact`
* `SubsetsAreFound`: `Spec => []SubsetIsComplete`
* `NormalFormsAreUnique`: `Spec => []OneNormalForm`

They are the converses of the theorems above: different limits accept
different numbers, which is true of the numbers and not of every set of points,
hence `Dense`.  It asks nothing of the code.  For any finite set of literals
such a sample exists: choose `Step` even and large enough for every literal to be
even, and take the literals, the integers beside them, the points next to
each of these, and an integer below and above all of them.

`CInv` is what the code has to keep for it, in three parts, inductive together
with `NInv` (`NormalFormInvariant`).  `Once`: fingerprints are of what is
stored, and no constraint is stored twice or is the empty one.  `AllDone`: what
is interned is `Settled`, so that two limits of a number leave more than one
number, absent limits are zeros (`Tidy`: constraints are compared as records),
a least length is a length and not above the greatest, and the literals of a
real are all reals.  `Forming`: the form in progress is tidy and its numbers
are cuts.  `SingleFormed` is where one number left must become an enum: without
`AsEnum`, `1 <= x <= 1` and `x in (1)` would be two forms.  `IntWitness`,
`RealWitness` and `LengthWitness` then find a value in what is left,
`IntLimitsComplete` and `RealLimitsComplete` a number that refutes a limit
which is not implied, `LimitsAntisymmetric` and `SameEnum` make two forms of
one meaning the same record, and `AnotherLeft` shows that limits never mean
just one number.

One theorem needs no `Dense`:

* `SubsetsAreOrdered`: `Spec => [](Transitive /\ Antisymmetric)`.  Over one base
  a chain of subsets closes, and two types below each other have one constraint,
  so that which of two refinements a sum keeps does not hang on the order they
  come in (over `any` only the first: 1 and 1.0 are two literals there).

`Subset` compares by three different rules, equality, literals against limits
and limits against limits, and a chain may pass from one to another:
`SubsetAccepts` carries a literal along it, `LimitsChain` the limits.
`LiteralIsPlace` says that over the other bases a literal is its place in the
order of atoms, which is why equal enums are equal sequences.

### The parser: `ParserProofs`

For every set of texts, of any length, and every limit of the depth:

* `DepthIsNesting`: `Spec => []TypeOK`.  `depth` is the number of frames on the
  stack whose function has called `enter()`, never above the limit, and zero
  when a text is accepted.

Which of the frames a step replaces, pushes or pops is up to the functions, so
there is one lemma per way of going on (`Goes`, `Calls`, `Returns`, `Leaves`,
`Enters`, `Groups`, `Fails`), each over stacks of any height
(`StackBecomes`, `StackCalls`, `StackReturns`, from `OpenPushed`: a frame more
is one open construct more, or none).  `PInv` adds that the stack never loses
its last frame, the one of `Parse`, and that no other frame is one
(`StackOK`): at `End` that frame is alone, and alone it is not open, which is
why the depth is zero.  And a sum's frame knows which function reads its
members, neither of which enters before it has seen its parenthesis
(`FrameOK`).

### How induction is done

The prover cannot use induction theorems that take an operator.  `Induction`
states the inductions needed about *sets* of ids (`SetInduction`,
`SetStrongInduction`, from `Least`, that a non-empty set of naturals has a
least element), and the proofs define the set of ids for which the claim holds.

### Model-checked only

* Liveness (`EveryCompileReturns`).
* `Printer`, `Lattice` and `Types`, which are about trees and written with
  recursive operators, for which the prover has no arithmetic.

## 6. Plan

Done: all modules, and the proofs above.  What is left is the order of types:
`SubsetsAreOrdered` is what `SubtypeTransitive` rests on for refinements of one
base; that it carries over to trees of types is checked but not proved.

## 7. Not modelled

Character classes, strings, comments and positions of tokens, byte layouts and
hashing, error texts, conversions to float64, JSON output and the Ohm grammar
keep no state and are left to their tests; of the Go DSL only the expressions
without groups are modelled.  Null, a type with one value, is left out of
`Lattice`, and with it nothing but its own equality.  A view is compared by
structure here, in the code by identity first; metadata is a label, its
interning and merging are not modelled.  That an overlay leaves its inputs
alone holds by construction in a model whose values do not change.  Concurrent
use of one `Compiler` is forbidden by its documentation (`katschema.go:42`)
and undefined; there is no behaviour to model.  `Normalizer` has length limits
on lists, strings and a tuple; on objects they are in `Lattice`.

## 8. Running

    tlasany Resolver.tla
    tlc -workers 2 -config MCResolver.cfg MCResolver
    tlapm ArenaProofs.tla

and `tlapm` likewise for `ArenaPairProofs`, `ResolverProofs`, `DecimalProofs`,
`NormalizerProofs`, `NormalFormProofs`, `ParserProofs` and `Induction`, which
stand alone; the longest takes a few minutes.
