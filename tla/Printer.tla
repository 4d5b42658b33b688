------------------------------ MODULE Printer ------------------------------
(***************************************************************************)
(* The printer, and the parser on what it prints: a syntax tree that has   *)
(* been parsed is printed, as it is and without its groups (as the Go DSL  *)
(* builds it), and the print is parsed again.                              *)
(***************************************************************************)
EXTENDS Parser, SequencesExt

VARIABLE printed   \* the tree whose print is parsed, or None

printVars == <<vars, printed>>

(***************************************************************************)
(* The printer.                                                            *)
(***************************************************************************)
\* The level printed to the left of an operator without parentheses; the slip
\* forgets that equalities do not chain.
LeftPrecAsIs(op) == Precedence(op)
LeftPrec(op) == IF op \in {"==", "in"} THEN Precedence(op) + 1 ELSE Precedence(op)

Parens(yes, tokens) == IF yes THEN <<"(">> \o tokens \o <<")">> ELSE tokens

\* An identifier alone in a clause would be an attribute.
ClauseParensAgain(e) == e.kind \in {"ident", "group"}
ClauseParens(e) == e.kind = "ident"

RECURSIVE PrintNode(_), PrintExpr(_, _)

Elements(kids, each(_)) ==
    FoldLeft(LAMBDA out, kid : IF out = <<>> THEN each(kid) ELSE out \o <<",">> \o each(kid),
             <<>>, kids)

PrintNode(n) ==
    CASE n.kind \in {"scalar", "int", "name", "path", "ident"} -> n.text
      [] n.kind = "list"   -> <<"[">> \o Elements(n.kids, PrintNode) \o <<"]">>
      [] n.kind = "tuple"  -> <<"#{">> \o Elements(n.kids, PrintNode) \o <<"}">>
      [] n.kind = "object" ->
            <<"{">> \o Elements(n.kids, LAMBDA v : <<"s", ":">> \o PrintNode(v)) \o <<"}">>
      [] n.kind = "schema" -> Parens(TRUE, Elements(n.kids, PrintNode))
      [] n.kind = "sum"    -> PrintNode(n.kids[1]) \o <<"|">> \o PrintNode(n.kids[2])
      [] n.kind = "constraint" -> Parens(ClauseParens(n.kids[1]), PrintNode(n.kids[1]))
      [] n.kind = "attr"   ->
            n.text \o (IF n.kids = <<>> THEN <<>> ELSE <<"=">> \o PrintNode(n.kids[1]))
      [] n.kind = "call"   -> n.text \o Parens(TRUE, Elements(n.kids, PrintNode))
      [] n.kind \in {"unary", "binary"} -> PrintExpr(n, 0)
      [] n.kind = "group"  -> Parens(TRUE, PrintNode(n.kids[1]))

\* -1 is one number, so that a minus before a number needs parentheses.
PrintExpr(n, minPrec) ==
    CASE n.kind = "unary" ->
            n.text \o (IF n.text = <<"-">> /\ n.kids[1].kind = "int"
                       THEN Parens(TRUE, PrintNode(n.kids[1]))
                       ELSE PrintExpr(n.kids[1], 7))
      [] n.kind = "binary" ->
            LET op == n.text[1]
            IN  Parens(Precedence(op) < minPrec,
                       PrintExpr(n.kids[1], LeftPrec(op)) \o n.text
                           \o PrintExpr(n.kids[2], Precedence(op) + 1))
      [] OTHER -> PrintNode(n)

\* The tree without its groups: what ks builds.
RECURSIVE Ungrouped(_)
Ungrouped(n) ==
    IF n.kind = "group" THEN Ungrouped(n.kids[1])
    ELSE Node(n.kind, n.text, [i \in DOMAIN n.kids |-> Ungrouped(n.kids[i])])

(***************************************************************************)
(* Parse, and Print followed by Parse.                                     *)
(***************************************************************************)
Parse == Next /\ UNCHANGED printed

Format ==
    /\ outcome = "done" /\ printed = None
    /\ printed' \in {ret, Ungrouped(ret)}
    /\ source' = [text |-> PrintNode(printed'), tokens |-> {}, room |-> 0]
    /\ read' = <<>> /\ tok' = None /\ look' = None /\ ret' = None /\ depth' = 0
    /\ calls' = <<Plain("start")>> /\ outcome' = "run"

PrintInit == Init /\ printed = None
PrintNext == Parse \/ Format
PrintSpec == PrintInit /\ [][PrintNext]_printVars

(***************************************************************************)
(* Properties.                                                             *)
(***************************************************************************)
RECURSIVE Nesting(_)
Nesting(n) ==
    (IF n.kind \in Entered \cup {"group", "unary"} THEN 1 ELSE 0)
        + FoldLeft(LAMBDA most, kid : IF Nesting(kid) > most THEN Nesting(kid) ELSE most,
                   0, n.kids)

\* A text without the commas before a closing token, and with the spaces
\* after a minus gone.
AsPrinted(tokens) ==
    LET kept == {i \in DOMAIN tokens :
                    ~(tokens[i] = "," /\ i < Len(tokens) /\ tokens[i + 1] \in {")", "]", "}"})}
    IN  FoldLeft(LAMBDA out, i : IF i \in kept THEN Append(out, Op(tokens[i])) ELSE out,
                 <<>>, [i \in DOMAIN tokens |-> i])

RECURSIVE SubNodes(_)
SubNodes(n) == {n} \cup UNION {SubNodes(n.kids[i]) : i \in DOMAIN n.kids}

\* The two places where the printer writes parentheses that need not be there:
\* a dotted name alone in a clause and a minus before a negative number.
Cautious(n) ==
    \/ n.kind = "constraint" /\ n.kids[1].kind = "ident"
    \/ n.kind = "unary" /\ n.text = <<"-">> /\ n.kids[1].kind = "int"

\* A parsed text prints as it was written but for these: no token is lost,
\* moved or taken twice by the lookahead, and every operand is where the
\* printer's levels say it is.
PrintsAsWritten ==
    outcome = "done" /\ (\A n \in SubNodes(ret) : ~Cautious(n))
        => PrintNode(ret) = AsPrinted(read)

Levels == << {"||"}, {"&&"}, {"==", "in"}, {"<"}, {"+", "-"}, {"*"} >>
Level(n) == IF n.kind = "binary" THEN CHOOSE l \in DOMAIN Levels : n.text[1] \in Levels[l] ELSE 7

\* Operators of a higher level bind tighter, those of one level group to the
\* left, equalities do not chain and nothing but parentheses is within a
\* unary operator ("1+2*3 means 1+(2*3)", token.go).
GroupedByLevel ==
    outcome = "done" => \A n \in SubNodes(ret) :
        /\ n.kind = "binary" => /\ Level(n.kids[1]) >= Level(n) /\ Level(n.kids[2]) > Level(n)
                                /\ Level(n) = 3 => Level(n.kids[1]) > 3
        /\ n.kind = "unary" => Level(n.kids[1]) = 7

\* A tree nests no deeper than the parser's limit (the printer and the
\* compiler recurse over it) and groups by level.
ParsedTree == GroupedByLevel /\ (outcome = "done" => Nesting(ret) <= MaxDepth)

\* A print is accepted, and means the tree that was printed: parentheses
\* appear where the tree needs them.
PrintParses ==
    printed # None => /\ outcome # "expected"
                      /\ outcome = "done" => Ungrouped(ret) = Ungrouped(printed)

\* Printing what a print parses to changes nothing any more.
PrintIsStable == printed # None /\ outcome = "done" => PrintNode(ret) = source.text
=============================================================================
