------------------------------- MODULE Parser -------------------------------
(***************************************************************************)
(* The parser, a recursive descent with precedence climbing for            *)
(* expressions.  Its calls are the frames of an explicit stack, and one    *)
(* action runs one function up to the token it reads or the call it makes. *)
(* The lexer gives the next token only when the parser asks, so that every *)
(* text is explored up to its first error.                                 *)
(*                                                                         *)
(* A token is a string: "x" is any identifier, "1" any unsigned number,    *)
(* "null" any of the three keyword values, "s" any string; "- " is a minus *)
(* with a space behind it.                                                 *)
(***************************************************************************)
EXTENDS Integers, Sequences, FiniteSets

CONSTANTS
    Sources,   \* records of a text, the tokens that may follow it and how many may
    MaxDepth,  \* maxDepth
    None

Tokens == {"x", "1", "null", "s", ".", ",", ":", "=", "|", "(", ")", "[", "]", "{", "#{", "}",
           "==", "in", "<", "&&", "||", "+", "-", "- ", "*", "!"}
EOF == "EOF"

ASSUME ParserAssumption ==
    /\ MaxDepth \in Nat \ {0}
    /\ \A s \in Sources : s.text \in Seq(Tokens) /\ s.tokens \subseteq Tokens /\ s.room \in Nat

VARIABLES
    source,    \* the text
    read,      \* the tokens the lexer has given
    tok,       \* p.tok
    look,      \* p.look, or None
    calls,     \* the active functions, the innermost first
    ret,       \* the node a function has just returned, or None
    depth,     \* p.depth
    outcome    \* "run", "done", "expected" or "deep"

vars == <<source, read, tok, look, calls, ret, depth, outcome>>

(***************************************************************************)
(* The syntax tree.                                                        *)
(***************************************************************************)
Node(kind, text, kids) == [kind |-> kind, text |-> text, kids |-> kids]

IsUnary(k) == k \in {"!", "+", "-", "- "}
\* Slip: one level for all arithmetic.
PrecedenceOfAddAndMul(k) ==
    CASE k = "||" -> 1 [] k = "&&" -> 2 [] k \in {"==", "in"} -> 3 [] k = "<" -> 4
      [] k \in {"+", "-", "- ", "*"} -> 5 [] OTHER -> 0
Precedence(k) ==
    CASE k = "||" -> 1 [] k = "&&" -> 2 [] k \in {"==", "in"} -> 3 [] k = "<" -> 4
      [] k \in {"+", "-", "- "} -> 5 [] k = "*" -> 6 [] OTHER -> 0

Op(k) == IF k = "- " THEN "-" ELSE k

(***************************************************************************)
(* Tokens, calls and returns.                                              *)
(***************************************************************************)
Lexemes ==
    LET n == Len(read)
    IN  IF n < Len(source.text) THEN {source.text[n + 1]}
        ELSE IF n < Len(source.text) + source.room THEN source.tokens \cup {EOF} ELSE {EOF}

Lex(k) == read' = IF k = EOF THEN read ELSE Append(read, k)

\* p.next(): the token that was peeked at, or the lexer's.
NextToken ==
    IF look # None THEN tok' = look /\ look' = None /\ UNCHANGED read
    ELSE UNCHANGED look /\ \E k \in Lexemes : tok' = k /\ Lex(k)
SameToken == UNCHANGED <<tok, look, read>>

In(fn) == outcome = "run" /\ Head(calls).fn = fn
Top == Head(calls)

\* The function goes on as f, calls g before it goes on as f, or returns.
Become(f) == calls' = <<f>> \o Tail(calls) /\ ret' = None
CallFrom(f, g) == calls' = <<g, f>> \o Tail(calls) /\ ret' = None
Return(n) == calls' = Tail(calls) /\ ret' = n

Fail(how) == outcome' = how /\ UNCHANGED <<read, tok, look, calls, ret, depth>>
Same == UNCHANGED source
Stay == UNCHANGED <<depth, outcome>> /\ Same
Expected == Fail("expected") /\ Same

\* enter() and the deferred depth--, which the slip misses on one return.
Enter(Step) ==
    /\ Same
    /\ IF depth = MaxDepth THEN Fail("deep") ELSE depth' = depth + 1 /\ Step /\ UNCHANGED outcome
Leave(n) == Return(n) /\ depth' = depth - 1 /\ UNCHANGED outcome /\ Same
LeaveNoDefer(n) == Return(n) /\ Stay
LeaveUnaryNumber(n) == Leave(n)

Plain(fn) == [fn |-> fn]
Expr(min) == [fn |-> "expr", min |-> min, left |-> None, op |-> None]
Items(fn, text, items) == [fn |-> fn, text |-> text, items |-> items, at |-> "item"]

(***************************************************************************)
(* Comma separated items: sequence, object, call and schema.  A comma may  *)
(* be the last.                                                            *)
(***************************************************************************)
Close(n) == NextToken /\ Leave(n)

ItemStart(end, element) ==
    /\ Top.at = "item" /\ ret = None
    /\ IF tok = end /\ ~(Top.fn = "schema" /\ Top.items = <<>>)
       THEN Close(Node(Top.fn, Top.text, Top.items))
       ELSE CallFrom([Top EXCEPT !.at = "after"], element) /\ SameToken /\ Stay

ItemEnd(end) ==
    /\ Top.at = "after" /\ ret # None
    /\ LET items == Append(Top.items, ret)
       IN  CASE tok = "," -> /\ NextToken /\ Stay
                             /\ Become([Top EXCEPT !.items = items, !.at = "item"])
             [] tok = end -> Close(Node(Top.fn, Top.text, items))
             [] tok \notin {",", end} -> Expected

List == In("list") /\ (ItemStart("]", Plain("value")) \/ ItemEnd("]"))
Tuple == In("tuple") /\ (ItemStart("}", Plain("value")) \/ ItemEnd("}"))
CallArgs == In("call") /\ (ItemStart(")", Expr(1)) \/ ItemEnd(")"))
SchemaClauses ==
    /\ In("schema")
    /\ \/ ItemStart(")", Plain(IF Top.items = <<>> THEN "typeSum" ELSE "clause"))
       \/ ItemEnd(")")

Object == In("object") /\ (ItemStart("}", Plain("field")) \/ ItemEnd("}"))

\* The name of a field and its colon.
Field ==
    \/ /\ In("field")
       /\ IF tok = "s" THEN NextToken /\ Stay /\ Become(Plain("colon")) ELSE Expected
    \/ /\ In("colon")
       /\ IF tok = ":" THEN NextToken /\ Stay /\ Become(Plain("value")) ELSE Expected

(***************************************************************************)
(* Values, schemas and their clauses.                                      *)
(***************************************************************************)
Value ==
    /\ In("value") /\ SameToken /\ Stay
    /\ Become(Plain(IF tok = "(" THEN "schemaSum" ELSE "json"))

OpenItems(fn, text) == Enter(NextToken /\ Become(Items(fn, text, <<>>)))

JsonValue ==
    /\ In("json")
    /\ CASE tok = "{"  -> OpenItems("object", <<>>)
         [] tok = "["  -> OpenItems("list", <<>>)
         [] tok = "#{" -> OpenItems("tuple", <<>>)
         [] tok = "1"  -> NextToken /\ Stay /\ Return(Node("int", <<tok>>, <<>>))
         [] tok \in {"-", "- "}   -> NextToken /\ Stay /\ Become([fn |-> "number", minus |-> tok])
         [] tok \in {"s", "null"} -> NextToken /\ Stay /\ Return(Node("scalar", <<tok>>, <<>>))
         [] OTHER -> Expected

\* number(): the digits must immediately follow the minus.
Number ==
    /\ In("number")
    /\ IF tok = "1" /\ Top.minus = "-"
       THEN NextToken /\ Stay /\ Return(Node("int", <<"-", "1">>, <<>>))
       ELSE Expected

OpenSchema ==
    /\ In("openSchema")
    /\ IF depth < MaxDepth /\ tok # "(" THEN Expected
       ELSE OpenItems("schema", <<>>)

\* left | right | ...: the members of schemaSum are schemas, those of typeSum
\* type atoms.
SumOf(fn, member) ==
    /\ In(fn) /\ SameToken /\ Stay
    /\ CallFrom([fn |-> "sumTail", left |-> None, member |-> member], Plain(member))

SchemaSum == SumOf("schemaSum", "openSchema")
TypeSum == SumOf("typeSum", "typeAtom")

SumTail ==
    /\ In("sumTail") /\ ret # None
    /\ LET left == IF Top.left = None THEN ret ELSE Node("sum", <<>>, <<Top.left, ret>>)
       IN  CASE tok = "|" ->
                    NextToken /\ Stay /\ CallFrom([Top EXCEPT !.left = left], Plain(Top.member))
             [] tok # "|" /\ Top.member = "typeAtom" /\ left.kind = "schema" -> Expected
             [] tok # "|" /\ ~(Top.member = "typeAtom" /\ left.kind = "schema") ->
                    Return(left) /\ SameToken /\ Stay

\* ref(): a dotted name; a leading dot makes it a path.
StartRef(kind) ==
    LET f == [fn |-> "ref", kind |-> kind, path |-> tok = ".", text |-> <<>>, at |-> "part"]
    IN  IF tok = "." THEN NextToken /\ Stay /\ Become([f EXCEPT !.text = <<".">>])
                     ELSE SameToken /\ Stay /\ Become(f)

Ref ==
    /\ In("ref")
    /\ LET more(at) == NextToken /\ Stay
                       /\ Become([Top EXCEPT !.text = Append(@, tok), !.at = at])
       IN  CASE Top.at = "part" -> IF tok \in {"x", "null", "in"} THEN more("dot") ELSE Expected
             [] Top.at = "dot" /\ tok = "." -> more("part")
             [] Top.at = "dot" /\ tok = "(" /\ Top.kind = "ident" ->
                    OpenItems("call", Top.text)
             [] OTHER -> /\ SameToken /\ Stay
                         /\ Return(Node(IF Top.path THEN "path" ELSE Top.kind, Top.text, <<>>))

TypeAtom ==
    /\ In("typeAtom")
    /\ CASE tok \in {"x", "."} -> StartRef("name")
         [] tok \in {"{", "[", "#{"} -> Become(Plain("json")) /\ SameToken /\ Stay
         [] tok = "(" -> Become(Plain("openSchema")) /\ SameToken /\ Stay
         [] OTHER -> Expected

\* One token of lookahead tells an attribute from a constraint.
Clause ==
    /\ In("clause")
    /\ IF tok # "x" THEN CallFrom(Plain("constraint"), Expr(1)) /\ SameToken /\ Stay
       ELSE \E k \in IF look = None THEN Lexemes ELSE {look} :
                /\ look' = k /\ UNCHANGED tok /\ Stay
                /\ IF look = None THEN Lex(k) ELSE UNCHANGED read
                /\ IF k \in {"=", ",", ")"} THEN Become(Plain("metadata"))
                   ELSE CallFrom(Plain("constraint"), Expr(1))

Constraint ==
    /\ In("constraint") /\ ret # None
    /\ IF tok \in {",", ")"} THEN Return(Node("constraint", <<>>, <<ret>>)) /\ SameToken /\ Stay
       ELSE Expected

Metadata ==
    \/ In("metadata") /\ NextToken /\ Stay /\ Become([fn |-> "attr", text |-> <<tok>>])
    \/ /\ In("attr") /\ ret = None
       /\ IF tok = "=" THEN NextToken /\ Stay /\ CallFrom(Top, Plain("json"))
          ELSE SameToken /\ Stay /\ Return(Node("attr", Top.text, <<>>))
    \/ In("attr") /\ ret # None /\ SameToken /\ Stay /\ Return(Node("attr", Top.text, <<ret>>))

(***************************************************************************)
(* Expressions.                                                            *)
(***************************************************************************)
\* The level the operand to the right of an operator is parsed at; the slip
\* makes operators group to the right.
RightMinSame(prec) == prec
RightMin(prec) == prec + 1

\* a == b == c wants parentheses.
EqualsTwice(op, next) == Precedence(op) = Precedence("==") /\ Precedence(next) = Precedence("==")

ExprStep ==
    /\ In("expr")
    /\ IF ret = None THEN CallFrom(Top, Plain("unary")) /\ SameToken /\ Stay
       ELSE LET left == IF Top.op = None THEN ret ELSE Node("binary", <<Op(Top.op)>>, <<Top.left, ret>>)
                prec == Precedence(tok)
            IN  CASE Top.op # None /\ EqualsTwice(Top.op, tok) -> Expected
                  [] prec < Top.min -> Return(left) /\ SameToken /\ Stay
                  [] OTHER -> /\ NextToken /\ Stay
                              /\ CallFrom([Top EXCEPT !.left = left, !.op = tok],
                                          Expr(RightMin(prec)))

Unary ==
    \/ /\ In("unary")
       /\ IF IsUnary(tok) THEN Enter(NextToken /\ Become([fn |-> "operand", op |-> Op(tok)]))
          ELSE Become(Plain("primary")) /\ SameToken /\ Stay
    \/ /\ In("operand") /\ ret = None
       /\ IF Top.op = "-" /\ tok = "1" THEN NextToken /\ LeaveUnaryNumber(Node("int", <<"-", "1">>, <<>>))
          ELSE CallFrom(Top, Plain("unary")) /\ SameToken /\ Stay
    \/ In("operand") /\ ret # None /\ SameToken /\ Leave(Node("unary", <<Top.op>>, <<ret>>))

Primary ==
    /\ In("primary")
    /\ CASE tok \in {"x", "."} -> StartRef("ident")
         [] tok = "(" -> Become(Plain("group")) /\ SameToken /\ Stay
         [] tok \in {"null", "1", "s", "{", "[", "#{"} -> Become(Plain("json")) /\ SameToken /\ Stay
         [] OTHER -> Expected

Group ==
    \/ In("group") /\ Enter(NextToken /\ CallFrom(Plain("closeGroup"), Expr(1)))
    \/ /\ In("closeGroup") /\ ret # None
       /\ IF tok = ")" THEN Close(Node("group", <<>>, <<ret>>)) ELSE Expected

(***************************************************************************)
(* Parse.                                                                  *)
(***************************************************************************)
Start ==
    /\ In("start")
    /\ NextToken /\ Stay /\ CallFrom(Plain("end"), Plain("value"))

End ==
    /\ In("end") /\ ret # None
    /\ IF tok # EOF THEN Expected
       ELSE outcome' = "done" /\ UNCHANGED <<read, tok, look, calls, ret, depth>> /\ Same

Init ==
    /\ source \in Sources /\ read = <<>> /\ tok = None /\ look = None /\ ret = None
    /\ depth = 0 /\ calls = <<Plain("start")>> /\ outcome = "run"

Next ==
    \/ List \/ Tuple \/ CallArgs \/ SchemaClauses \/ Object \/ Field
    \/ Value \/ JsonValue \/ Number \/ OpenSchema \/ SchemaSum \/ TypeSum \/ SumTail
    \/ Ref \/ TypeAtom \/ Clause \/ Constraint \/ Metadata
    \/ ExprStep \/ Unary \/ Primary \/ Group \/ Start \/ End

Spec == Init /\ [][Next]_vars

(***************************************************************************)
(* Properties.                                                             *)
(***************************************************************************)
Entered == {"list", "tuple", "object", "call", "schema", "operand", "closeGroup"}

\* The nested constructs being parsed.
Open(stack) == {i \in DOMAIN stack : stack[i].fn \in Entered}

\* The depth counts exactly the nested constructs being parsed, whichever way
\* the functions that counted them return, never passes the limit and is back
\* at zero when a text is accepted.
TypeOK ==
    /\ read \in Seq(Tokens) /\ {tok, look} \subseteq Tokens \cup {EOF, None}
    /\ outcome \in {"run", "done", "expected", "deep"}
    /\ depth = Cardinality(Open(calls)) /\ depth \in 0..MaxDepth
    /\ outcome = "done" => depth = 0

=============================================================================
