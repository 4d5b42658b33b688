-------------------------- MODULE ConstraintMeaning --------------------------
(***************************************************************************)
(* What a schema promises, without the normal form.  A schema starts from  *)
(* a base type or from a named type, every clause takes away the values    *)
(* that do not satisfy it, and the type it ends as accepts what is left.   *)
(* A type accepts the same values for ever.                                *)
(***************************************************************************)
EXTENDS Constraint

CONSTANTS
    Clauses,     \* clauses of schemas, see Sat
    Predefined   \* what the built-in named types accept

VARIABLES
    meaning,   \* Seq(SUBSET AllValues): what each compiled type accepts
    draft,     \* what the schema being compiled accepts so far
    reading    \* what was read last: "none", a base, a type or a clause

meaningVars == <<meaning, draft, reading>>

Idle == [read |-> "none"]
ReadBase(base) == [read |-> "base", base |-> base]
ReadType(i) == [read |-> "type", type |-> i]
ReadClause(clause) == [read |-> "clause", clause |-> clause]

Compare(n, op, m) ==
    CASE op = "Gt" -> n > m [] op = "Ge" -> n >= m
      [] op = "Lt" -> n < m [] op = "Le" -> n <= m

\* The values that satisfy a clause: "x op literal", "len(x) op literal" or
\* "x in [literals]", of which "x == literal" and || are special cases.
Sat(clause) ==
    CASE clause.of = "x" ->
            {v \in AllValues : v.kind \in Numeric /\ Compare(v.n, clause.op, clause.lit.n)}
      [] clause.of = "len" ->
            {v \in AllValues : v.kind \in {"StringAtom", "List", "Tuple"}
                                /\ Compare(Step * v.len, clause.op, clause.lit.n)}
      [] clause.of = "in" ->
            {v \in AllValues : \E k \in DOMAIN clause.values :
                v.kind \notin {"List", "Tuple"} /\ SameAtom(v, clause.values[k])}

MeaningInit == meaning = Predefined /\ draft = {} /\ reading = Idle

Begin ==
    /\ reading = Idle
    /\ \/ \E base \in BaseKinds : reading' = ReadBase(base) /\ draft' = Values(base)
       \/ \E i \in DOMAIN meaning : reading' = ReadType(i) /\ draft' = meaning[i]
    /\ UNCHANGED meaning

Narrow ==
    /\ reading # Idle
    /\ \E clause \in Clauses :
        reading' = ReadClause(clause) /\ draft' = draft \cap Sat(clause)
    /\ UNCHANGED meaning

Conclude ==
    /\ reading # Idle
    /\ reading' = Idle /\ draft' = {}
    /\ meaning' = Append(meaning, draft)

Refuse ==
    /\ reading # Idle
    /\ reading' = Idle /\ draft' = {}
    /\ UNCHANGED meaning

MeaningNext == Begin \/ Narrow \/ Conclude \/ Refuse

MeaningSpec == MeaningInit /\ [][MeaningNext]_meaningVars

=============================================================================
