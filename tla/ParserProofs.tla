---------------------------- MODULE ParserProofs ----------------------------
(***************************************************************************)
(* Proofs about the parser, for every set of texts and every limit of the  *)
(* depth.                                                                  *)
(***************************************************************************)
EXTENDS Parser, SequenceTheorems, FiniteSetTheorems, TLAPS

(***************************************************************************)
(* Stacks of calls.                                                        *)
(***************************************************************************)
Bottom == {"start", "end"}

Frames(stack) == {stack[i] : i \in DOMAIN stack}

\* Every frame is of a function; that of a sum knows its members.
FrameOK(f) == "fn" \in DOMAIN f /\ (f.fn = "sumTail" => f.member \in {"openSchema", "typeAtom"})

\* Parse itself is the last frame of a stack, and no other one is.
StackOK(stack) ==
    /\ stack \in Seq(Frames(stack)) /\ stack # <<>>
    /\ \A i \in DOMAIN stack : /\ FrameOK(stack[i])
                               /\ stack[i].fn \in Bottom <=> i = Len(stack)

\* A frame more adds itself to the open constructs, if it is one.
LEMMA OpenPushed ==
    ASSUME NEW S, NEW f \in S, NEW rest \in Seq(S)
    PROVE  /\ IsFiniteSet(Open(rest)) /\ Cardinality(Open(rest)) \in Nat
           /\ Cardinality(Open(<<f>> \o rest)) =
                Cardinality(Open(rest)) + (IF f.fn \in Entered THEN 1 ELSE 0)
<1> DEFINE stack == <<f>> \o rest
           moved == {i + 1 : i \in Open(rest)}
<1>1. /\ Len(rest) \in Nat /\ DOMAIN rest = 1..Len(rest)
      /\ DOMAIN stack = 1..(Len(rest) + 1)
      /\ stack[1] = f /\ \A i \in DOMAIN rest : stack[i + 1] = rest[i]
  OBVIOUS
<1>2. IsFiniteSet(Open(rest)) /\ Open(rest) \subseteq Nat
  <2>1. IsFiniteSet(1..Len(rest)) /\ Open(rest) \subseteq 1..Len(rest)
    BY <1>1, FS_Interval DEF Open
  <2>2. QED BY <1>1, <2>1, FS_Subset
<1>3. IsFiniteSet(moved) /\ Cardinality(moved) = Cardinality(Open(rest))
  <2> DEFINE shift == [i \in Open(rest) |-> i + 1]
  <2>1. shift \in Bijection(Open(rest), moved)
    BY <1>2 DEF Bijection, Injection, Surjection, IsInjective
  <2>2. QED BY <1>2, <2>1, FS_Bijection DEF ExistsBijection
<1>4. Open(stack) = moved \cup (IF f.fn \in Entered THEN {1} ELSE {})
  <2>1. ASSUME NEW i \in Open(stack) PROVE i \in moved \/ (i = 1 /\ f.fn \in Entered)
    <3>1. CASE i = 1
      BY <1>1, <2>1, <3>1 DEF Open
    <3>2. CASE i # 1
      <4>1. i - 1 \in DOMAIN rest /\ stack[i] = rest[i - 1] /\ i = (i - 1) + 1
        BY <1>1, <2>1, <3>2 DEF Open
      <4>2. i - 1 \in Open(rest)
        BY <2>1, <4>1 DEF Open
      <4>3. QED BY <4>1, <4>2
    <3>3. QED BY <3>1, <3>2
  <2>2. ASSUME NEW i \in Open(rest) PROVE i + 1 \in Open(stack)
    BY <1>1, <2>2 DEF Open
  <2>3. f.fn \in Entered => 1 \in Open(stack)
    BY <1>1 DEF Open
  <2>4. QED BY <2>1, <2>2, <2>3
<1>5. 1 \notin moved
  BY <1>1 DEF Open
<1>6. Cardinality(Open(rest)) \in Nat
  BY <1>2, FS_CardinalityType
<1>7. CASE f.fn \in Entered
  BY <1>2, <1>3, <1>4, <1>5, <1>6, <1>7, FS_AddElement
<1>8. CASE f.fn \notin Entered
  <2>1. Open(stack) = moved
    BY <1>4, <1>8
  <2>2. Cardinality(Open(stack)) = Cardinality(Open(rest))
    BY <1>3, <2>1, Zenon
  <2>3. QED BY <1>2, <1>6, <1>8, <2>2
<1>9. QED BY <1>7, <1>8

LEMMA OwnSeq ==
    ASSUME NEW S, NEW s \in Seq(S) PROVE s \in Seq(Frames(s))
<1>1. PICK n \in Nat : s \in [1..n -> S]
  BY SeqDef
<1>2. s \in [1..n -> {s[i] : i \in DOMAIN s}]
  <2>1. DOMAIN s = 1..n /\ s = [i \in 1..n |-> s[i]]
    BY <1>1, Zenon
  <2>2. \A i \in 1..n : s[i] \in {s[k] : k \in DOMAIN s}
    BY <2>1, Zenon
  <2>3. QED BY <2>1, <2>2, Zenon
<1>3. QED BY <1>2, SeqDef DEF Frames

\* A stack is its innermost frame and the stack below.
LEMMA StackSplit ==
    ASSUME NEW stack, StackOK(stack)
    PROVE  \E S : \E top \in S, rest \in Seq(S) :
            /\ Head(stack) = top /\ Tail(stack) = rest /\ stack = <<top>> \o rest
            /\ FrameOK(top)
            /\ top.fn \in Bottom <=> rest = <<>>
            /\ rest # <<>> => StackOK(rest)
<1> DEFINE S == Frames(stack)
           top == Head(stack)
           rest == Tail(stack)
<1>1. stack \in Seq(S) /\ stack # <<>>
  BY DEF StackOK
<1>2. /\ top \in S /\ rest \in Seq(S) /\ stack = <<top>> \o rest /\ top = stack[1]
      /\ Len(stack) = Len(rest) + 1 /\ Len(rest) \in Nat
      /\ DOMAIN stack = 1..Len(stack) /\ DOMAIN rest = 1..Len(rest)
      /\ \A i \in DOMAIN rest : rest[i] = stack[i + 1]
  BY <1>1
<1>3. FrameOK(top) /\ (top.fn \in Bottom <=> rest = <<>>)
  BY <1>2 DEF StackOK
<1>4. rest \in Seq(Frames(rest))
  BY <1>2, OwnSeq
<1>5. \A i \in DOMAIN rest : /\ FrameOK(rest[i])
                             /\ rest[i].fn \in Bottom <=> i = Len(rest)
  <2> SUFFICES ASSUME NEW i \in DOMAIN rest
               PROVE  FrameOK(rest[i]) /\ (rest[i].fn \in Bottom <=> i = Len(rest))
    OBVIOUS
  <2>1. i \in Nat /\ i + 1 \in DOMAIN stack /\ rest[i] = stack[i + 1]
    BY <1>2
  <2>2. FrameOK(stack[i + 1]) /\ (stack[i + 1].fn \in Bottom <=> i + 1 = Len(stack))
    BY <2>1 DEF StackOK
  <2>3. i + 1 = Len(stack) <=> i = Len(rest)
    BY <1>2, <2>1
  <2>4. QED BY <2>1, <2>2, <2>3
<1>6. rest # <<>> => StackOK(rest)
  BY <1>4, <1>5 DEF StackOK
<1>7. QED BY <1>2, <1>3, <1>6

LEMMA StackPushed ==
    ASSUME NEW S, NEW f \in S, NEW rest \in Seq(S), FrameOK(f),
           f.fn \in Bottom <=> rest = <<>>, rest # <<>> => StackOK(rest)
    PROVE  StackOK(<<f>> \o rest)
<1> DEFINE stack == <<f>> \o rest
<1>1. /\ stack \in Seq(S) /\ stack # <<>> /\ Len(stack) = Len(rest) + 1 /\ Len(rest) \in Nat
      /\ DOMAIN stack = 1..Len(stack) /\ DOMAIN rest = 1..Len(rest)
      /\ stack[1] = f /\ \A i \in DOMAIN rest : stack[i + 1] = rest[i]
  OBVIOUS
<1>2. stack \in Seq(Frames(stack))
  BY <1>1, OwnSeq
<1>3. ASSUME NEW i \in DOMAIN stack
      PROVE  FrameOK(stack[i]) /\ (stack[i].fn \in Bottom <=> i = Len(stack))
  <2>1. CASE i = 1
    BY <1>1, <2>1
  <2>2. CASE i # 1
    <3>1. i - 1 \in DOMAIN rest /\ stack[i] = rest[i - 1] /\ rest # <<>>
      BY <1>1, <2>2
    <3>2. FrameOK(rest[i - 1]) /\ (rest[i - 1].fn \in Bottom <=> i - 1 = Len(rest))
      BY <3>1 DEF StackOK
    <3>3. QED BY <1>1, <3>1, <3>2
  <2>3. QED BY <2>1, <2>2
<1>4. QED BY <1>1, <1>2, <1>3 DEF StackOK

Bit(f) == IF f.fn \in Entered THEN 1 ELSE 0
Deep(stack) == Cardinality(Open(stack))

\* The innermost frame is replaced,
LEMMA StackBecomes ==
    ASSUME NEW stack, StackOK(stack), NEW f, FrameOK(f),
           f.fn \in Bottom <=> Head(stack).fn \in Bottom
    PROVE  /\ StackOK(<<f>> \o Tail(stack))
           /\ Deep(stack) \in Nat
           /\ Deep(<<f>> \o Tail(stack)) = Deep(stack) - Bit(Head(stack)) + Bit(f)
<1>1. PICK S, top, rest :
            /\ top \in S /\ rest \in Seq(S)
            /\ Head(stack) = top /\ Tail(stack) = rest /\ stack = <<top>> \o rest
            /\ FrameOK(top)
            /\ top.fn \in Bottom <=> rest = <<>>
            /\ rest # <<>> => StackOK(rest)
  BY StackSplit
<1>2. rest \in Seq(S \cup {f})
  BY <1>1, SeqMonotonic
<1>3. StackOK(<<f>> \o rest)
  BY <1>1, <1>2, StackPushed
<1>4. Deep(stack) = Deep(rest) + Bit(top) /\ Deep(rest) \in Nat
  BY <1>1, OpenPushed DEF Deep, Bit
<1>5. Deep(<<f>> \o rest) = Deep(rest) + Bit(f)
  BY <1>2, OpenPushed DEF Deep, Bit
<1>6. Bit(f) \in Nat /\ Bit(top) \in Nat
  BY DEF Bit
<1>7. Deep(stack) \in Nat /\ Deep(<<f>> \o rest) = Deep(stack) - Bit(top) + Bit(f)
  BY <1>4, <1>5, <1>6
<1>8. QED BY <1>1, <1>3, <1>7, Zenon

\* gets another frame on top,
LEMMA StackCalls ==
    ASSUME NEW stack, StackOK(stack), NEW f, FrameOK(f),
           f.fn \in Bottom <=> Head(stack).fn \in Bottom,
           NEW g, FrameOK(g), g.fn \notin Bottom
    PROVE  /\ StackOK(<<g, f>> \o Tail(stack))
           /\ Deep(stack) \in Nat
           /\ Deep(<<g, f>> \o Tail(stack)) = Deep(stack) - Bit(Head(stack)) + Bit(f) + Bit(g)
<1> DEFINE below == <<f>> \o Tail(stack)
<1>1. /\ StackOK(below) /\ Deep(stack) \in Nat
      /\ Deep(below) = Deep(stack) - Bit(Head(stack)) + Bit(f)
  BY StackBecomes
<1>2. PICK S : below \in Seq(S) /\ below # <<>>
  BY <1>1 DEF StackOK
<1>3. below \in Seq(S \cup {g})
  BY <1>2, SeqMonotonic
<1>4. StackOK(<<g>> \o below) /\ Deep(<<g>> \o below) = Deep(below) + Bit(g)
  BY <1>1, <1>2, <1>3, StackPushed, OpenPushed DEF Deep, Bit
<1>5. <<g>> \o below = <<g, f>> \o Tail(stack)
  <2>1. PICK T : Tail(stack) \in Seq(T)
    BY DEF StackOK
  <2>2. QED BY <2>1
<1>6. QED BY <1>1, <1>4, <1>5

\* or returns.
LEMMA StackReturns ==
    ASSUME NEW stack, StackOK(stack), Head(stack).fn \notin Bottom
    PROVE  /\ StackOK(Tail(stack))
           /\ Deep(Tail(stack)) \in Nat
           /\ Deep(stack) = Deep(Tail(stack)) + Bit(Head(stack))
<1>1. PICK S, top, rest :
            /\ top \in S /\ rest \in Seq(S)
            /\ Head(stack) = top /\ Tail(stack) = rest /\ stack = <<top>> \o rest
            /\ top.fn \in Bottom <=> rest = <<>>
            /\ rest # <<>> => StackOK(rest)
  BY StackSplit
<1>2. QED BY <1>1, OpenPushed DEF Deep, Bit

(***************************************************************************)
(* The inductive invariant and the steps it survives.                      *)
(***************************************************************************)
TokensOK == read \in Seq(Tokens) /\ {tok, look} \subseteq Tokens \cup {EOF, None}

PInv == TypeOK /\ StackOK(calls) /\ source \in Sources

LEMMA LexemesAre ==
    ASSUME PInv, NEW k \in Lexemes
    PROVE  k \in Tokens \cup {EOF} /\ (Lex(k) => read' \in Seq(Tokens))
<1>1. source.text \in Seq(Tokens) /\ source.tokens \subseteq Tokens
  BY ParserAssumption DEF PInv
<1>2. read \in Seq(Tokens)
  BY DEF PInv, TypeOK
<1>3. k \in Tokens \cup {EOF}
  <2>1. Len(read) < Len(source.text) => source.text[Len(read) + 1] \in Tokens
    BY <1>1, <1>2
  <2>2. QED BY <1>1, <2>1 DEF Lexemes
<1>4. QED BY <1>2, <1>3 DEF Lex

LEMMA NextTokenOK == ASSUME PInv, NextToken PROVE TokensOK'
<1>1. CASE look # None
  BY <1>1 DEF NextToken, PInv, TypeOK, TokensOK
<1>2. CASE look = None
  <2>1. PICK k \in Lexemes : tok' = k /\ Lex(k) /\ look' = look
    BY <1>2 DEF NextToken
  <2>2. QED BY <1>2, <2>1, LexemesAre DEF TokensOK, PInv, TypeOK
<1>3. QED BY <1>1, <1>2

LEMMA SameTokenOK == ASSUME PInv, SameToken PROVE TokensOK'
  BY DEF PInv, TypeOK, SameToken, TokensOK

\* What a step that goes on has to show.
LEMMA GoesOn ==
    ASSUME PInv, TokensOK', UNCHANGED source, outcome' = "run",
           StackOK(calls'), depth' = Deep(calls'), depth' \in 0..MaxDepth
    PROVE  PInv'
<1>1. Deep(calls') = Cardinality(Open(calls'))
  BY DEF Deep
<1>2. QED BY <1>1 DEF PInv, TypeOK, TokensOK, Open

LEMMA DepthIs == ASSUME PInv PROVE depth = Deep(calls) /\ depth \in 0..MaxDepth /\ MaxDepth \in Nat
  BY ParserAssumption DEF PInv, TypeOK, Deep

LEMMA Goes ==
    ASSUME PInv, outcome = "run", TokensOK', Stay,
           NEW f, Become(f), FrameOK(f),
           f.fn \in Bottom <=> Top.fn \in Bottom, f.fn \in Entered <=> Top.fn \in Entered
    PROVE  PInv'
<1>1. calls' = <<f>> \o Tail(calls) /\ UNCHANGED <<source, depth, outcome>>
  BY DEF Become, Stay, Same
<1>2. StackOK(calls') /\ Deep(calls') = Deep(calls) - Bit(Top) + Bit(f) /\ Deep(calls) \in Nat
  BY <1>1, StackBecomes DEF PInv, Top
<1>3. Bit(Top) = Bit(f) /\ Bit(f) \in Nat
  BY DEF Bit
<1>4. Deep(calls') = Deep(calls)
  BY <1>2, <1>3
<1>5. QED BY <1>1, <1>2, <1>4, DepthIs, GoesOn

LEMMA Calls ==
    ASSUME PInv, outcome = "run", TokensOK', Stay,
           NEW f, NEW g, CallFrom(f, g), FrameOK(f), FrameOK(g),
           f.fn \in Bottom <=> Top.fn \in Bottom, f.fn \in Entered <=> Top.fn \in Entered,
           g.fn \notin Bottom \cup Entered
    PROVE  PInv'
<1>1. calls' = <<g, f>> \o Tail(calls) /\ UNCHANGED <<source, depth, outcome>>
  BY DEF CallFrom, Stay, Same
<1>2. /\ StackOK(calls') /\ Deep(calls) \in Nat
      /\ Deep(calls') = Deep(calls) - Bit(Top) + Bit(f) + Bit(g)
  BY <1>1, StackCalls DEF PInv, Top
<1>3. Bit(Top) = Bit(f) /\ Bit(f) \in Nat /\ Bit(g) = 0
  BY DEF Bit
<1>4. Deep(calls') = Deep(calls)
  BY <1>2, <1>3
<1>5. QED BY <1>1, <1>2, <1>4, DepthIs, GoesOn

LEMMA Returns ==
    ASSUME PInv, outcome = "run", TokensOK', Stay, NEW n, Return(n),
           Top.fn \notin Bottom \cup Entered
    PROVE  PInv'
<1>1. calls' = Tail(calls) /\ UNCHANGED <<source, depth, outcome>>
  BY DEF Return, Stay, Same
<1>2. StackOK(calls') /\ Deep(calls') \in Nat /\ Deep(calls) = Deep(calls') + Bit(Top)
  BY <1>1, StackReturns DEF PInv, Top
<1>3. Bit(Top) = 0
  BY DEF Bit
<1>4. Deep(calls') = Deep(calls)
  BY <1>2, <1>3
<1>5. QED BY <1>1, <1>2, <1>4, DepthIs, GoesOn

\* The deferred depth-- and the frame that entered go together.
LEMMA Leaves ==
    ASSUME PInv, outcome = "run", TokensOK', NEW n, Leave(n), Top.fn \in Entered
    PROVE  PInv'
<1>1. calls' = Tail(calls) /\ depth' = depth - 1 /\ UNCHANGED <<source, outcome>>
  BY DEF Leave, Return, Same
<1>2. Top.fn \notin Bottom
  BY DEF Entered, Bottom
<1>3. StackOK(calls') /\ Deep(calls') \in Nat /\ Deep(calls) = Deep(calls') + Bit(Top)
  BY <1>1, <1>2, StackReturns DEF PInv, Top
<1>4. Bit(Top) = 1
  BY DEF Bit
<1>5. depth' = Deep(calls') /\ depth' \in 0..MaxDepth
  BY <1>1, <1>3, <1>4, DepthIs
<1>6. QED BY <1>1, <1>3, <1>5, GoesOn

LEMMA Fails == ASSUME PInv, NEW how \in {"expected", "deep"}, Fail(how), Same PROVE PInv'
  BY DEF PInv, TypeOK, Fail, Same, Open

LEMMA Enters ==
    ASSUME PInv, outcome = "run", NEW f, Enter(NextToken /\ Become(f)),
           FrameOK(f), f.fn \in Entered, Top.fn \notin Bottom \cup Entered
    PROVE  PInv'
<1>1. CASE depth = MaxDepth
  BY <1>1, Fails DEF Enter
<1>2. CASE depth # MaxDepth
  <2>1. /\ NextToken /\ calls' = <<f>> \o Tail(calls) /\ depth' = depth + 1
        /\ UNCHANGED <<source, outcome>>
    BY <1>2 DEF Enter, Become, Same
  <2>2. f.fn \notin Bottom
    BY DEF Entered, Bottom
  <2>3. StackOK(calls') /\ Deep(calls') = Deep(calls) - Bit(Top) + Bit(f) /\ Deep(calls) \in Nat
    BY <2>1, <2>2, StackBecomes DEF PInv, Top
  <2>4. Bit(Top) = 0 /\ Bit(f) = 1
    BY DEF Bit
  <2>5. depth' = Deep(calls') /\ depth' \in 0..MaxDepth
    BY <1>2, <2>1, <2>3, <2>4, DepthIs
  <2>6. QED BY <2>1, <2>3, <2>5, GoesOn, NextTokenOK
<1>3. QED BY <1>1, <1>2

LEMMA Groups ==
    ASSUME PInv, outcome = "run", NEW f, NEW g, Enter(NextToken /\ CallFrom(f, g)),
           FrameOK(f), FrameOK(g), f.fn \in Entered,
           g.fn \notin Bottom \cup Entered, Top.fn \notin Bottom \cup Entered
    PROVE  PInv'
<1>1. CASE depth = MaxDepth
  BY <1>1, Fails DEF Enter
<1>2. CASE depth # MaxDepth
  <2>1. /\ NextToken /\ calls' = <<g, f>> \o Tail(calls) /\ depth' = depth + 1
        /\ UNCHANGED <<source, outcome>>
    BY <1>2 DEF Enter, CallFrom, Same
  <2>2. f.fn \notin Bottom
    BY DEF Entered, Bottom
  <2>3. /\ StackOK(calls') /\ Deep(calls) \in Nat
        /\ Deep(calls') = Deep(calls) - Bit(Top) + Bit(f) + Bit(g)
    BY <2>1, <2>2, StackCalls DEF PInv, Top
  <2>4. Bit(Top) = 0 /\ Bit(f) = 1 /\ Bit(g) = 0
    BY DEF Bit
  <2>5. depth' = Deep(calls') /\ depth' \in 0..MaxDepth
    BY <1>2, <2>1, <2>3, <2>4, DepthIs
  <2>6. QED BY <2>1, <2>3, <2>5, GoesOn, NextTokenOK
<1>3. QED BY <1>1, <1>2

(***************************************************************************)
(* The functions of the parser.                                            *)
(***************************************************************************)
Sequence == {"list", "tuple", "object", "call", "schema"}

\* The functions that run between two that entered.
Shallow(fn) == fn \notin Bottom \cup Entered

Names == {"value", "typeSum", "clause", "field", "colon", "json", "schemaSum", "number",
          "openSchema", "typeAtom", "ref", "constraint", "metadata", "attr", "expr", "unary",
          "primary", "group"}

LEMMA ShallowIs == Shallow("sumTail") /\ \A fn \in Names : Shallow(fn)
  BY DEF Shallow, Names, Entered, Bottom

LEMMA FrameOf ==
    /\ \A fn : (fn # "sumTail" => FrameOK(Plain(fn))) /\ Plain(fn).fn = fn
    /\ \A m : FrameOK(Expr(m)) /\ Expr(m).fn = "expr"
    /\ \A fn, text, items : (fn # "sumTail" => FrameOK(Items(fn, text, items)))
                             /\ Items(fn, text, items).fn = fn
  BY DEF Plain, Expr, Items, FrameOK

\* A frame that is only a name, or that starts an expression.
LEMMA PlainOK ==
    /\ \A fn \in Names : FrameOK(Plain(fn)) /\ Shallow(Plain(fn).fn)
    /\ \A m : FrameOK(Expr(m)) /\ Shallow(Expr(m).fn)
<1>1. "sumTail" \notin Names /\ "expr" \in Names
  BY DEF Names
<1>2. QED BY <1>1, FrameOf, ShallowIs

LEMMA TopOK == ASSUME PInv PROVE FrameOK(Top)
  BY StackSplit DEF PInv, Top

LEMMA ItemsOpened ==
    ASSUME PInv, outcome = "run", NEW fn \in Sequence, NEW text, OpenItems(fn, text),
           Shallow(Top.fn)
    PROVE  PInv'
<1>1. fn \in Entered
  BY DEF Sequence, Entered
<1>2. Enter(NextToken /\ Become(Items(fn, text, <<>>)))
  BY DEF OpenItems
<1>3. fn # "sumTail"
  BY DEF Sequence
<1>4. QED BY <1>1, <1>2, <1>3, FrameOf, Enters DEF Shallow

LEMMA ItemsStep ==
    ASSUME PInv, outcome = "run", Top.fn \in Sequence, NEW end, NEW element,
           FrameOK(element), Shallow(element.fn),
           ItemStart(end, element) \/ ItemEnd(end)
    PROVE  PInv'
<1>1. Top.fn \in Entered
  BY DEF Sequence, Entered
<1>2. ASSUME NEW n, Close(n) PROVE PInv'
  BY <1>1, <1>2, Leaves, NextTokenOK DEF Close
<1>3. CASE ItemStart(end, element)
  <2>1. ASSUME CallFrom([Top EXCEPT !.at = "after"], element), SameToken, Stay PROVE PInv'
    <3> DEFINE f == [Top EXCEPT !.at = "after"]
    <3>1. FrameOK(f) /\ f.fn = Top.fn
      BY TopOK DEF FrameOK, Sequence
    <3>2. CallFrom(f, element) /\ element.fn \notin Bottom \cup Entered
      BY <2>1 DEF Shallow
    <3> HIDE DEF f
    <3>3. QED BY <2>1, <3>1, <3>2, SameTokenOK, Calls
  <2>2. QED BY <1>2, <1>3, <2>1 DEF ItemStart
<1>4. CASE ItemEnd(end)
  <2> DEFINE items == Append(Top.items, ret)
  <2>1. ASSUME NextToken, Stay, Become([Top EXCEPT !.items = items, !.at = "item"]) PROVE PInv'
    <3> DEFINE f == [Top EXCEPT !.items = items, !.at = "item"]
    <3>1. FrameOK(f) /\ f.fn = Top.fn
      BY TopOK DEF FrameOK, Sequence
    <3>2. Become(f)
      BY <2>1
    <3> HIDE DEF f
    <3>3. QED BY <2>1, <3>1, <3>2, NextTokenOK, Goes
  <2>2. ASSUME Expected PROVE PInv'
    BY <2>2, Fails DEF Expected
  <2>3. \/ NextToken /\ Stay /\ Become([Top EXCEPT !.items = items, !.at = "item"])
        \/ Close(Node(Top.fn, Top.text, items))
        \/ Expected
    <3> HIDE DEF items
    <3>1. QED BY <1>4, Zenon DEF ItemEnd, items
  <2>4. QED BY <1>2, <2>1, <2>2, <2>3, Zenon
<1>5. QED BY <1>3, <1>4

LEMMA ItemActions ==
    ASSUME PInv, List \/ Tuple \/ CallArgs \/ SchemaClauses \/ Object PROVE PInv'
<1>1. outcome = "run" /\ Top.fn \in Sequence
  BY DEF List, Tuple, CallArgs, SchemaClauses, Object, In, Top, Sequence
<1>2. \E end, element : /\ FrameOK(element) /\ Shallow(element.fn)
                        /\ ItemStart(end, element) \/ ItemEnd(end)
  <2>1. \A fn \in {"value", "typeSum", "clause", "field"} :
            FrameOK(Plain(fn)) /\ Shallow(Plain(fn).fn)
    BY PlainOK DEF Names
  <2>2. FrameOK(Expr(1)) /\ Shallow(Expr(1).fn)
    BY PlainOK
  <2>3. QED BY <2>1, <2>2 DEF List, Tuple, CallArgs, SchemaClauses, Object
<1>3. QED BY <1>1, <1>2, ItemsStep

\* Steps of a function that does not count itself in the depth.
LEMMA ShallowStep ==
    ASSUME PInv, outcome = "run", Shallow(Top.fn), NextToken \/ SameToken \/ TokensOK', Stay,
           \/ \E f : Become(f) /\ FrameOK(f) /\ Shallow(f.fn)
           \/ \E f, g : /\ CallFrom(f, g) /\ FrameOK(f) /\ Shallow(f.fn)
                        /\ FrameOK(g) /\ Shallow(g.fn)
           \/ \E n : Return(n)
    PROVE  PInv'
<1>1. TokensOK'
  BY NextTokenOK, SameTokenOK
<1>2. ASSUME NEW f, Become(f), FrameOK(f), Shallow(f.fn) PROVE PInv'
  BY <1>1, <1>2, Goes DEF Shallow
<1>3. ASSUME NEW f, NEW g, CallFrom(f, g), FrameOK(f), Shallow(f.fn),
             FrameOK(g), Shallow(g.fn)
      PROVE  PInv'
  BY <1>1, <1>3, Calls DEF Shallow
<1>4. ASSUME NEW n, Return(n) PROVE PInv'
  BY <1>1, <1>4, Returns DEF Shallow
<1>5. QED BY <1>2, <1>3, <1>4

LEMMA Refuses == ASSUME PInv, Expected PROVE PInv'
  BY Fails DEF Expected

LEMMA ValueActions ==
    ASSUME PInv, Field \/ Value \/ Number \/ OpenSchema \/ SchemaSum \/ TypeSum
    PROVE  PInv'
<1>1. outcome = "run" /\ Shallow(Top.fn)
  BY ShallowIs DEF Field, Value, Number, OpenSchema, SchemaSum, TypeSum, SumOf, In, Top, Names
<1>2. CASE Field \/ Value
  <2>1. \/ Expected
        \/ (NextToken \/ SameToken) /\ Stay /\ \E fn \in Names : Become(Plain(fn))
    BY <1>2 DEF Field, Value, Names
  <2>2. QED BY <1>1, <2>1, PlainOK, ShallowStep, Refuses
<1>3. CASE Number
  <2>1. Expected \/ (NextToken /\ Stay /\ \E n : Return(n))
    BY <1>3 DEF Number
  <2>2. QED BY <1>1, <2>1, ShallowStep, Refuses
<1>4. CASE OpenSchema
  <2>1. Expected \/ OpenItems("schema", <<>>)
    BY <1>4 DEF OpenSchema
  <2>2. "schema" \in Sequence
    BY DEF Sequence
  <2>3. QED BY <1>1, <2>1, <2>2, ItemsOpened, Refuses
<1>5. CASE SchemaSum \/ TypeSum
  <2>1. PICK member \in {"openSchema", "typeAtom"} :
            /\ SameToken /\ Stay
            /\ CallFrom([fn |-> "sumTail", left |-> None, member |-> member], Plain(member))
    BY <1>5 DEF SchemaSum, TypeSum, SumOf
  <2>2. FrameOK(Plain(member)) /\ Shallow(Plain(member).fn)
    BY PlainOK DEF Names
  <2> DEFINE f == [fn |-> "sumTail", left |-> None, member |-> member]
  <2>3. FrameOK(f) /\ Shallow(f.fn) /\ CallFrom(f, Plain(member))
    BY <2>1, ShallowIs DEF FrameOK
  <2> HIDE DEF f
  <2>4. QED BY <1>1, <2>1, <2>2, <2>3, ShallowStep
<1>6. QED BY <1>2, <1>3, <1>4, <1>5

LEMMA JsonSteps == ASSUME PInv, JsonValue PROVE PInv'
<1>1. outcome = "run" /\ Shallow(Top.fn)
  BY ShallowIs DEF JsonValue, In, Top, Names
<1>2. \/ \E fn \in Sequence : OpenItems(fn, <<>>)
      \/ NextToken /\ Stay /\ \E n : Return(n)
      \/ NextToken /\ Stay /\ Become([fn |-> "number", minus |-> tok])
      \/ Expected
  BY DEF JsonValue, Sequence
<1>3. CASE NextToken /\ Stay /\ Become([fn |-> "number", minus |-> tok])
  <2> DEFINE f == [fn |-> "number", minus |-> tok]
  <2>1. FrameOK(f) /\ Shallow(f.fn) /\ Become(f)
    BY <1>3, ShallowIs DEF FrameOK, Names
  <2> HIDE DEF f
  <2>2. QED BY <1>1, <1>3, <2>1, ShallowStep
<1>4. QED BY <1>1, <1>2, <1>3, ItemsOpened, Refuses, ShallowStep

LEMMA SumSteps == ASSUME PInv, SumTail PROVE PInv'
<1>1. outcome = "run" /\ Top.fn = "sumTail" /\ Shallow(Top.fn)
  BY ShallowIs DEF SumTail, In, Top
<1>2. \/ Expected
      \/ SameToken /\ Stay /\ \E n : Return(n)
      \/ NextToken /\ Stay /\ \E left : CallFrom([Top EXCEPT !.left = left], Plain(Top.member))
  BY DEF SumTail
<1>3. Top.member \in Names
  BY <1>1, TopOK DEF FrameOK, Names
<1>4. ASSUME NEW left, CallFrom([Top EXCEPT !.left = left], Plain(Top.member)), NextToken, Stay
      PROVE  PInv'
  <2> DEFINE f == [Top EXCEPT !.left = left]
             g == Plain(Top.member)
  <2>1. FrameOK(f) /\ Shallow(f.fn)
    BY <1>1, TopOK DEF FrameOK
  <2>2. FrameOK(g) /\ Shallow(g.fn) /\ CallFrom(f, g)
    BY <1>3, <1>4, PlainOK
  <2> HIDE DEF f, g
  <2>3. QED BY <1>1, <1>4, <2>1, <2>2, ShallowStep
<1>5. QED BY <1>1, <1>2, <1>4, Refuses, ShallowStep

LEMMA RefStarts ==
    ASSUME PInv, outcome = "run", Shallow(Top.fn), NEW kind, StartRef(kind)
    PROVE  PInv'
<1> DEFINE f == [fn |-> "ref", kind |-> kind, path |-> tok = ".", text |-> <<>>, at |-> "part"]
           g == [f EXCEPT !.text = <<".">>]
<1>1. FrameOK(f) /\ Shallow(f.fn) /\ FrameOK(g) /\ Shallow(g.fn)
  BY ShallowIs DEF FrameOK, Names
<1>2. (NextToken /\ Stay /\ Become(g)) \/ (SameToken /\ Stay /\ Become(f))
  BY DEF StartRef
<1> HIDE DEF f, g
<1>3. QED BY <1>1, <1>2, ShallowStep

LEMMA RefSteps == ASSUME PInv, Ref PROVE PInv'
<1>1. outcome = "run" /\ Top.fn = "ref" /\ Shallow(Top.fn)
  BY ShallowIs DEF Ref, In, Top, Names
<1>2. \/ Expected
      \/ OpenItems("call", Top.text)
      \/ SameToken /\ Stay /\ \E n : Return(n)
      \/ NextToken /\ Stay
         /\ \E at : Become([Top EXCEPT !.text = Append(@, tok), !.at = at])
  BY DEF Ref
<1>3. ASSUME NEW at, Become([Top EXCEPT !.text = Append(@, tok), !.at = at]), NextToken, Stay
      PROVE  PInv'
  <2> DEFINE f == [Top EXCEPT !.text = Append(@, tok), !.at = at]
  <2>1. FrameOK(f) /\ Shallow(f.fn) /\ Become(f)
    BY <1>1, <1>3, TopOK DEF FrameOK
  <2> HIDE DEF f
  <2>2. QED BY <1>1, <1>3, <2>1, ShallowStep
<1>4. "call" \in Sequence
  BY DEF Sequence
<1>5. QED BY <1>1, <1>2, <1>3, <1>4, ItemsOpened, Refuses, ShallowStep

LEMMA AtomSteps == ASSUME PInv, TypeAtom \/ Primary PROVE PInv'
<1>1. outcome = "run" /\ Shallow(Top.fn)
  BY ShallowIs DEF TypeAtom, Primary, In, Top, Names
<1>2. \/ Expected
      \/ \E kind : StartRef(kind)
      \/ SameToken /\ Stay /\ \E fn \in Names : Become(Plain(fn))
  BY DEF TypeAtom, Primary, Names
<1>3. QED BY <1>1, <1>2, PlainOK, RefStarts, Refuses, ShallowStep

\* The token peeked at stays the parser's lookahead.
LEMMA ClauseSteps == ASSUME PInv, Clause PROVE PInv'
<1>1. outcome = "run" /\ Shallow(Top.fn)
  BY ShallowIs DEF Clause, In, Top, Names
<1>2. Stay /\ \/ Become(Plain("metadata"))
              \/ CallFrom(Plain("constraint"), Expr(1))
  BY DEF Clause
<1>3. TokensOK'
  <2>1. CASE tok # "x"
    BY <2>1, SameTokenOK DEF Clause
  <2>2. CASE tok = "x"
    <3>1. PICK k \in IF look = None THEN Lexemes ELSE {look} :
              /\ look' = k /\ UNCHANGED tok
              /\ IF look = None THEN Lex(k) ELSE UNCHANGED read
      BY <2>2 DEF Clause
    <3>2. k \in Tokens \cup {EOF, None} /\ read' \in Seq(Tokens)
      BY <3>1, LexemesAre DEF PInv, TypeOK
    <3>3. QED BY <3>1, <3>2 DEF TokensOK, PInv, TypeOK
  <2>3. QED BY <2>1, <2>2
<1>4. /\ FrameOK(Plain("metadata")) /\ Shallow(Plain("metadata").fn)
      /\ FrameOK(Plain("constraint")) /\ Shallow(Plain("constraint").fn)
      /\ FrameOK(Expr(1)) /\ Shallow(Expr(1).fn)
  BY PlainOK DEF Names
<1>5. QED BY <1>1, <1>2, <1>3, <1>4, ShallowStep

LEMMA ClauseParts == ASSUME PInv, Constraint \/ Metadata PROVE PInv'
<1>1. outcome = "run" /\ Shallow(Top.fn)
  BY ShallowIs DEF Constraint, Metadata, In, Top, Names
<1>2. \/ Expected
      \/ SameToken /\ Stay /\ \E n : Return(n)
      \/ NextToken /\ Stay /\ Become([fn |-> "attr", text |-> <<tok>>])
      \/ NextToken /\ Stay /\ CallFrom(Top, Plain("json"))
  BY DEF Constraint, Metadata
<1>3. CASE NextToken /\ Stay /\ Become([fn |-> "attr", text |-> <<tok>>])
  <2> DEFINE f == [fn |-> "attr", text |-> <<tok>>]
  <2>1. FrameOK(f) /\ Shallow(f.fn) /\ Become(f)
    BY <1>3, ShallowIs DEF FrameOK, Names
  <2> HIDE DEF f
  <2>2. QED BY <1>1, <1>3, <2>1, ShallowStep
<1>4. CASE NextToken /\ Stay /\ CallFrom(Top, Plain("json"))
  <2>1. FrameOK(Plain("json")) /\ Shallow(Plain("json").fn)
    BY PlainOK DEF Names
  <2>2. QED BY <1>1, <1>4, <2>1, TopOK, ShallowStep
<1>5. QED BY <1>1, <1>2, <1>3, <1>4, Refuses, ShallowStep

LEMMA ExprSteps == ASSUME PInv, ExprStep PROVE PInv'
<1>1. outcome = "run" /\ Top.fn = "expr" /\ Shallow(Top.fn)
  BY ShallowIs DEF ExprStep, In, Top, Names
<1>2. \/ Expected
      \/ SameToken /\ Stay /\ \E n : Return(n)
      \/ SameToken /\ Stay /\ CallFrom(Top, Plain("unary"))
      \/ NextToken /\ Stay
         /\ \E left, min : CallFrom([Top EXCEPT !.left = left, !.op = tok], Expr(min))
  BY DEF ExprStep
<1>3. CASE SameToken /\ Stay /\ CallFrom(Top, Plain("unary"))
  <2>1. FrameOK(Plain("unary")) /\ Shallow(Plain("unary").fn)
    BY PlainOK DEF Names
  <2>2. QED BY <1>1, <1>3, <2>1, TopOK, ShallowStep
<1>4. ASSUME NEW left, NEW min, NextToken, Stay,
             CallFrom([Top EXCEPT !.left = left, !.op = tok], Expr(min))
      PROVE  PInv'
  <2> DEFINE f == [Top EXCEPT !.left = left, !.op = tok]
  <2>1. FrameOK(f) /\ Shallow(f.fn) /\ CallFrom(f, Expr(min))
    BY <1>1, <1>4, TopOK DEF FrameOK
  <2> HIDE DEF f
  <2>2. QED BY <1>1, <1>4, <2>1, PlainOK, ShallowStep
<1>5. QED BY <1>1, <1>2, <1>3, <1>4, Refuses, ShallowStep

\* An operand counts itself, and leaves whether it was a number or not.
LEMMA UnarySteps == ASSUME PInv, Unary PROVE PInv'
<1>1. /\ FrameOK(Plain("unary")) /\ Shallow(Plain("unary").fn)
      /\ FrameOK(Plain("primary")) /\ Shallow(Plain("primary").fn)
  BY PlainOK DEF Names
<1>2. CASE In("unary")
  <2>1. outcome = "run" /\ Shallow(Top.fn)
    BY <1>2, ShallowIs DEF In, Top, Names
  <2>2. \/ Enter(NextToken /\ Become([fn |-> "operand", op |-> Op(tok)]))
        \/ Become(Plain("primary")) /\ SameToken /\ Stay
    BY <1>2 DEF Unary, In
  <2>3. CASE Enter(NextToken /\ Become([fn |-> "operand", op |-> Op(tok)]))
    <3> DEFINE f == [fn |-> "operand", op |-> Op(tok)]
    <3>1. FrameOK(f) /\ f.fn \in Entered /\ Enter(NextToken /\ Become(f))
      BY <2>3 DEF FrameOK, Entered
    <3> HIDE DEF f
    <3>2. QED BY <2>1, <3>1, Enters DEF Shallow
  <2>4. QED BY <1>1, <2>1, <2>2, <2>3, ShallowStep
<1>3. CASE In("operand")
  <2>1. outcome = "run" /\ Top.fn \in Entered
    BY <1>3 DEF In, Top, Entered
  <2>2. \/ (NextToken \/ SameToken) /\ \E n : Leave(n)
        \/ CallFrom(Top, Plain("unary")) /\ SameToken /\ Stay
    BY <1>3 DEF Unary, In, LeaveUnaryNumber
  <2>3. QED BY <1>1, <2>1, <2>2, TopOK, Leaves, Calls, NextTokenOK, SameTokenOK DEF Shallow
<1>4. QED BY <1>2, <1>3 DEF Unary

LEMMA GroupSteps == ASSUME PInv, Group PROVE PInv'
<1>1. CASE In("group")
  <2>1. outcome = "run" /\ Shallow(Top.fn)
    BY <1>1, ShallowIs DEF In, Top, Names
  <2>2. Enter(NextToken /\ CallFrom(Plain("closeGroup"), Expr(1)))
    BY <1>1 DEF Group, In
  <2>3. /\ FrameOK(Plain("closeGroup")) /\ Plain("closeGroup").fn \in Entered
        /\ FrameOK(Expr(1)) /\ Shallow(Expr(1).fn)
    BY FrameOf, PlainOK DEF Entered
  <2>4. QED BY <2>1, <2>2, <2>3, Groups DEF Shallow
<1>2. CASE In("closeGroup")
  <2>1. outcome = "run" /\ Top.fn \in Entered
    BY <1>2 DEF In, Top, Entered
  <2>2. Expected \/ (NextToken /\ \E n : Leave(n))
    BY <1>2 DEF Group, In, Close
  <2>3. QED BY <2>1, <2>2, Refuses, Leaves, NextTokenOK
<1>3. QED BY <1>1, <1>2 DEF Group

\* The last frame is alone, so that nothing is open when a text is accepted.
LEMMA ParseSteps == ASSUME PInv, Start \/ End PROVE PInv'
<1>1. CASE Start
  <2>1. outcome = "run" /\ Top.fn \in Bottom
    BY <1>1 DEF Start, In, Top, Bottom
  <2>2. NextToken /\ Stay /\ CallFrom(Plain("end"), Plain("value"))
    BY <1>1 DEF Start
  <2>3. /\ FrameOK(Plain("end")) /\ Plain("end").fn \in Bottom
        /\ FrameOK(Plain("value")) /\ Shallow(Plain("value").fn)
    BY FrameOf, PlainOK DEF Bottom, Names
  <2>4. Plain("end").fn \notin Entered /\ Top.fn \notin Entered
    BY <2>1, <2>3 DEF Bottom, Entered
  <2>5. QED BY <2>1, <2>2, <2>3, <2>4, Calls, NextTokenOK DEF Shallow
<1>2. CASE End
  <2>1. Expected \/ (outcome' = "done" /\ UNCHANGED <<source, read, tok, look, calls, ret, depth>>)
    BY <1>2 DEF End, Same
  <2>2. depth = 0
    <3>1. PICK S, top, rest :
              /\ top \in S /\ rest \in Seq(S) /\ Head(calls) = top /\ calls = <<top>> \o rest
              /\ top.fn \in Bottom <=> rest = <<>>
      BY StackSplit DEF PInv
    <3>2. top.fn = "end" /\ top.fn \in Bottom /\ top.fn \notin Entered
      BY <1>2, <3>1 DEF End, In, Bottom, Entered
    <3>3. Cardinality(Open(calls)) = Cardinality(Open(rest)) /\ rest = <<>>
      BY <3>1, <3>2, OpenPushed
    <3>4. Open(rest) = {}
      BY <3>3 DEF Open
    <3>5. QED BY <3>3, <3>4, FS_EmptySet DEF PInv, TypeOK
  <2>3. ASSUME outcome' = "done", UNCHANGED <<source, read, tok, look, calls, ret, depth>>
        PROVE  PInv'
    BY <2>2, <2>3 DEF PInv, TypeOK, Open
  <2>4. QED BY <2>1, <2>3, Refuses
<1>3. QED BY <1>1, <1>2

(***************************************************************************)
(* The theorem.                                                            *)
(***************************************************************************)
LEMMA InitPInv == Init => PInv
<1> SUFFICES ASSUME Init PROVE PInv
  OBVIOUS
<1> DEFINE f == Plain("start")
<1>1. FrameOK(f) /\ f.fn = "start"
  BY FrameOf
<1>2. calls = <<f>>
  BY DEF Init
<1> HIDE DEF f
<1>3. f.fn \in Bottom /\ f.fn \notin Entered
  BY <1>1 DEF Bottom, Entered
<1>4. StackOK(calls)
  <2>1. calls \in Seq({f}) /\ DOMAIN calls = {1} /\ Len(calls) = 1 /\ calls[1] = f
    BY <1>2
  <2>2. QED BY <1>1, <1>3, <2>1, OwnSeq DEF StackOK
<1>5. Open(calls) = {}
  BY <1>2, <1>3 DEF Open
<1>6. depth = Cardinality(Open(calls)) /\ depth \in 0..MaxDepth
  <2>1. Cardinality(Open(calls)) = 0
    BY <1>5, FS_EmptySet, Zenon
  <2>2. MaxDepth \in Nat
    BY ParserAssumption
  <2>3. depth = 0
    BY DEF Init
  <2>4. QED BY <2>1, <2>2, <2>3
<1>7. TypeOK
  BY <1>6 DEF Init, TypeOK
<1>8. QED BY <1>4, <1>7 DEF Init, PInv

LEMMA NextPInv == PInv /\ [Next]_vars => PInv'
<1> SUFFICES ASSUME PInv, [Next]_vars PROVE PInv'
  OBVIOUS
<1>1. CASE Next
  BY <1>1, ItemActions, ValueActions, JsonSteps, SumSteps, RefSteps, AtomSteps, ClauseSteps,
     ClauseParts, ExprSteps, UnarySteps, GroupSteps, ParseSteps DEF Next
<1>2. CASE UNCHANGED vars
  BY <1>2 DEF vars, PInv, TypeOK, Open
<1>3. QED BY <1>1, <1>2

\* The depth the parser counts is the number of nested constructs it is in,
\* at every step of every text: no way out of enter() forgets its depth-- and
\* none is counted twice, the limit is never passed, and an accepted text has
\* left everything it entered.
THEOREM DepthIsNesting == Spec => []TypeOK
<1>1. PInv => TypeOK
  BY DEF PInv
<1>2. QED BY InitPInv, NextPInv, <1>1, PTL DEF Spec
=============================================================================
