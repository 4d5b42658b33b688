--------------------------- MODULE ResolverProofs ---------------------------
(***************************************************************************)
(* Proofs about the resolution of names, for every set of names and        *)
(* scopes, every resolver that keeps the contract of CacheKey, every       *)
(* schema and every bound.                                                 *)
(***************************************************************************)
EXTENDS Resolver, SequenceTheorems, FiniteSetTheorems, TLAPS

\* What the keys of a resolver promise, of each table it goes through.
Promise(rank) ==
    /\ rank \in [Names -> Int]
    /\ \A table \in Definitions : Contract(table, rank)

(***************************************************************************)
(* The inductive invariant.                                                *)
(***************************************************************************)

\* A sequence, whatever its elements are.
Listed(s) == Len(s) \in Nat /\ s = [i \in 1..Len(s) |-> s[i]]

FrameOK(f) ==
    /\ f = [name |-> f.name, key |-> f.key, def |-> f.def, parts |-> f.parts]
    /\ Listed(f.parts) /\ f.def.refs \in Seq(Names)
    /\ Len(f.parts) <= Len(f.def.refs)

Framed(frames) == Listed(frames) /\ \A i \in 1..Len(frames) : FrameOK(frames[i])

\* A frame compiles what the resolver once defined the name as.
Founded ==
    \A i \in 2..Len(stack) :
        /\ stack[i].name \in Names
        /\ stack[i].key = CacheKey(scope, stack[i].name)
        /\ \E q \in 1..Len(revisions) : stack[i].def = revisions[q][scope][stack[i].name]

\* A frame compiles the reference its caller has come to.
Awaited ==
    \A i \in 2..Len(stack) :
        /\ Len(stack[i - 1].parts) < Len(stack[i - 1].def.refs)
        /\ stack[i].name = stack[i - 1].def.refs[Len(stack[i - 1].parts) + 1]

\* Keys under way are distinct, and none of them is in the cache.
Marked ==
    /\ resolving = {stack[i].key : i \in 2..Len(stack)}
    /\ \A i \in 2..Len(stack) : stack[i].key \notin DOMAIN cache
    /\ \A i, j \in 2..Len(stack) : stack[i].key = stack[j].key => i = j

\* Below a frame with a key of its own are only such frames, of higher rank.
Falling(rank) ==
    \A i, j \in 2..Len(stack) :
        i < j /\ Given[scope][stack[j].name] # "" =>
            \A m \in Names : SameKey(scope, stack[i].name, scope, m) =>
                Given[scope][m] # "" /\ rank[stack[j].name] < rank[m]

\* Agrees, of any cache.
AgreesIn(types, type, s) ==
    \A k \in DOMAIN type.parts :
        LET key == CacheKey(s, type.def.refs[k])
        IN  key \in DOMAIN types /\ type.parts[k] = types[key]

\* Types under way agree with the cache as finished ones do.
FramesAgree ==
    \A i \in 1..Len(stack) : AgreesIn(cache, Type(stack[i].def, stack[i].parts), scope)

\* A type that n may stand for in the scope s.
Sound(types, type, s, n) ==
    /\ AgreesIn(types, type, s)
    /\ Len(type.parts) = Len(type.def.refs)
    /\ \E q \in 1..Len(revisions) : type.def = revisions[q][s][n]

CacheCoherent ==
    \A s \in Scopes, n \in Names :
        CacheKey(s, n) \in DOMAIN cache => Sound(cache, cache[CacheKey(s, n)], s, n)

OutcomeAgrees == outcome.kind = "type" => AgreesIn(cache, outcome.type, scope)

Typed ==
    /\ revisions \in Seq(Definitions) /\ revisions # <<>>
    /\ scope \in Scopes /\ compiles \in 0..MaxCompiles
    /\ DOMAIN cache \subseteq {CacheKey(s, n) : s \in Scopes, n \in Names}
    /\ outcome.kind \in {"none", "type", "cycle", "unknown", "invalid"}

IInv(rank) ==
    /\ Typed /\ Framed(stack)
    /\ Founded /\ Awaited /\ Marked /\ Falling(rank)
    /\ FramesAgree /\ CacheCoherent /\ OutcomeAgrees

(***************************************************************************)
(* Sequences of any elements, and the stack.                               *)
(***************************************************************************)
LEMMA ListedInSeq ==
    ASSUME NEW s, Listed(s), NEW S, \A i \in 1..Len(s) : s[i] \in S
    PROVE  s \in Seq(S)
<1>1. s \in [1..Len(s) -> S]
  BY DEF Listed
<1>2. QED BY <1>1, SeqDef DEF Listed

LEMMA ListedDomain ==
    ASSUME NEW s, Listed(s)
    PROVE  DOMAIN s = 1..Len(s) /\ (s = <<>> <=> Len(s) = 0)
<1> DEFINE S == {s[i] : i \in 1..Len(s)}
<1>1. s \in Seq(S)
  BY ListedInSeq
<1>2. QED BY <1>1, EmptySeq DEF Listed

LEMMA SeqIsListed ==
    ASSUME NEW S, NEW s \in Seq(S)
    PROVE  Listed(s)
BY LenProperties DEF Listed

LEMMA ListedAppend ==
    ASSUME NEW s, Listed(s), NEW e
    PROVE  /\ Listed(Append(s, e))
           /\ Len(Append(s, e)) = Len(s) + 1
           /\ \A i \in 1..Len(s) : Append(s, e)[i] = s[i]
           /\ Append(s, e)[Len(s) + 1] = e
<1> DEFINE S == {s[i] : i \in 1..Len(s)} \cup {e}
<1>1. s \in Seq(S) /\ e \in S
  BY ListedInSeq
<1> HIDE DEF S
<1>2. Append(s, e) \in Seq(S)
  BY <1>1, AppendProperties
<1>3. Listed(Append(s, e))
  BY <1>2, SeqIsListed
<1>4. QED BY <1>1, <1>3, AppendProperties

LEMMA FramedAppend ==
    ASSUME NEW frames, Framed(frames), NEW name, NEW key, NEW def,
           def.refs \in Seq(Names)
    PROVE  LET new == Append(frames, Frame(name, key, def))
           IN  /\ Framed(new) /\ Len(new) = Len(frames) + 1
               /\ \A i \in 1..Len(frames) : new[i] = frames[i]
               /\ new[Len(new)].name = name /\ new[Len(new)].key = key
               /\ new[Len(new)].def = def /\ new[Len(new)].parts = <<>>
<1> DEFINE frame == Frame(name, key, def)
           new == Append(frames, frame)
<1>1. /\ frame.name = name /\ frame.key = key /\ frame.def = def /\ frame.parts = <<>>
      /\ frame = [name |-> frame.name, key |-> frame.key,
                  def |-> frame.def, parts |-> frame.parts]
  BY DEF Frame
<1>2. Listed(frame.parts) /\ Len(frame.parts) = 0 /\ Len(def.refs) \in Nat
  <2>1. <<>> \in Seq(Names) /\ Len(<<>>) = 0
    BY EmptySeq
  <2>2. Listed(<<>>)
    BY <2>1, SeqIsListed
  <2> HIDE DEF frame
  <2>3. QED BY <1>1, <2>1, <2>2, LenProperties
<1> HIDE DEF frame
<1>3. /\ Listed(new) /\ Len(new) = Len(frames) + 1 /\ Len(frames) \in Nat
      /\ \A i \in 1..Len(frames) : new[i] = frames[i]
      /\ new[Len(frames) + 1] = frame
  BY ListedAppend DEF Framed, Listed
<1> HIDE DEF new
<1>4. FrameOK(frame)
  BY <1>1, <1>2 DEF FrameOK
<1>5. Framed(new)
  BY <1>3, <1>4 DEF Framed
<1>6. QED BY <1>1, <1>3, <1>5 DEF new, frame

LEMMA FramedFront ==
    ASSUME NEW frames, Framed(frames), frames # <<>>
    PROVE  /\ Framed(Front(frames)) /\ Len(Front(frames)) = Len(frames) - 1
           /\ \A i \in 1..(Len(frames) - 1) : Front(frames)[i] = frames[i]
<1> DEFINE S == {frames[i] : i \in 1..Len(frames)}
<1>1. Len(frames) \in Nat /\ Len(frames) # 0
  BY ListedDomain DEF Framed, Listed
<1>2. /\ Front(frames) \in Seq(S) /\ Len(Front(frames)) = Len(frames) - 1
      /\ \A i \in 1..(Len(frames) - 1) : Front(frames)[i] = frames[i]
  <2> DEFINE n == Len(frames) - 1
  <2>1. n \in Nat /\ 1 \in Int /\ n \in Int
    BY <1>1
  <2>2. \A i \in 1..n : frames[i] \in S
    BY <1>1
  <2> HIDE DEF S, n
  <2>3. /\ SubSeq(frames, 1, n) \in Seq(S)
        /\ Len(SubSeq(frames, 1, n)) = IF 1 <= n THEN n - 1 + 1 ELSE 0
        /\ \A i \in 1..(n - 1 + 1) : SubSeq(frames, 1, n)[i] = frames[1 + i - 1]
    BY <2>1, <2>2, SubSeqProperties
  <2>4. /\ Len(SubSeq(frames, 1, n)) = n
        /\ \A i \in 1..n : SubSeq(frames, 1, n)[i] = frames[i]
    BY <2>1, <2>3
  <2>5. Front(frames) = SubSeq(frames, 1, n)
    BY DEF Front, n
  <2>6. QED BY <2>3, <2>4, <2>5 DEF n
<1>3. Listed(Front(frames))
  BY <1>2, SeqIsListed
<1>4. QED BY <1>1, <1>2, <1>3 DEF Framed

LEMMA FramedWithPart ==
    ASSUME NEW frames, Framed(frames), NEW top, top = Len(frames), top # 0,
           Len(frames[top].parts) < Len(frames[top].def.refs), NEW type
    PROVE  LET new == WithPart(frames, type)
           IN  /\ Framed(new) /\ Len(new) = Len(frames)
               /\ \A i \in 1..(top - 1) : new[i] = frames[i]
               /\ new[top].name = frames[top].name /\ new[top].key = frames[top].key
               /\ new[top].def = frames[top].def
               /\ new[top].parts = Append(frames[top].parts, type)
<1> DEFINE new == WithPart(frames, type)
           parts == Append(frames[top].parts, type)
<1>1. top \in 1..Len(frames) /\ Len(frames) \in Nat /\ DOMAIN frames = 1..Len(frames)
  BY ListedDomain DEF Framed, Listed
<1>2. new = [frames EXCEPT ![top] = [frames[top] EXCEPT !.parts = parts]]
  BY DEF WithPart
<1>3. /\ \A i \in 1..Len(frames) : i # top => new[i] = frames[i]
      /\ new[top] = [frames[top] EXCEPT !.parts = parts]
      /\ DOMAIN new = 1..Len(frames)
      /\ new = [i \in 1..Len(frames) |-> new[i]]
  BY <1>1, <1>2
<1>4. FrameOK(frames[top])
  BY <1>1 DEF Framed
<1> HIDE DEF parts, new
<1>5. new[top] = [name |-> frames[top].name, key |-> frames[top].key,
                  def |-> frames[top].def, parts |-> parts]
  BY <1>3, <1>4 DEF FrameOK
<1>6. Len(new) = Len(frames) /\ Listed(new)
  <2> DEFINE S == {new[i] : i \in 1..Len(frames)}
  <2>1. new \in [1..Len(frames) -> S]
    BY <1>3
  <2>2. new \in Seq(S)
    BY <1>1, <2>1, SeqDef
  <2> HIDE DEF S
  <2>3. Listed(new)
    BY <2>2, SeqIsListed
  <2>4. DOMAIN new = 1..Len(new)
    BY <2>3, ListedDomain
  <2>5. Len(new) = Len(frames)
    BY <1>1, <1>3, <2>3, <2>4 DEF Listed
  <2>6. QED BY <2>3, <2>5
<1>7. Listed(parts) /\ Len(parts) = Len(frames[top].parts) + 1
  BY <1>4, ListedAppend DEF FrameOK, parts
<1>8. Len(parts) <= Len(frames[top].def.refs)
  BY <1>4, <1>7, LenProperties DEF FrameOK, Listed
<1>9. FrameOK(new[top])
  BY <1>4, <1>5, <1>7, <1>8 DEF FrameOK
<1>10. Framed(new)
  BY <1>1, <1>3, <1>6, <1>9 DEF Framed
<1>11. QED BY <1>1, <1>3, <1>5, <1>6, <1>10 DEF new, parts

(***************************************************************************)
(* The resolver's contract.                                                *)
(***************************************************************************)
LEMMA RefsAreNames ==
    ASSUME NEW table \in Definitions, NEW s \in Scopes, NEW n \in Names
    PROVE  table[s][n].refs \in Seq(Names)
<1>1. table[s][n] \in Definition
  BY ResolverAssumption DEF ResolverAssumption
<1>2. Absent.refs \in Seq(Names)
  BY EmptySeq DEF Absent
<1>3. QED BY <1>1, <1>2 DEF Definition

LEMMA Revised ==
    ASSUME Typed
    PROVE  /\ Len(revisions) \in Nat \ {0}
           /\ \A q \in 1..Len(revisions) : revisions[q] \in Definitions
           /\ Last(revisions) = revisions[Len(revisions)]
<1>1. Len(revisions) \in Nat \ {0}
  BY EmptySeq DEF Typed
<1>2. \A q \in 1..Len(revisions) : revisions[q] \in Definitions
  BY LenProperties, ElementOfSeq DEF Typed
<1>3. QED BY <1>1, <1>2 DEF Last

\* One key stands for one name, or for names the resolver declared alike.
LEMMA OneKey ==
    ASSUME NEW rank, Promise(rank), NEW table \in Definitions,
           NEW s \in Scopes, NEW n \in Names, NEW t \in Scopes, NEW m \in Names
    PROVE  CacheKey(s, n) = CacheKey(t, m) <=> SameKey(s, n, t, m)
<1>1. Given[s][n] \notin Names /\ Given[t][m] \notin Names
  BY DEF Promise, Contract
<1>2. QED BY <1>1 DEF CacheKey, SameKey

LEMMA AlikeRefs ==
    ASSUME NEW rank, Promise(rank), NEW table \in Definitions,
           NEW s \in Scopes, NEW n \in Names, NEW t \in Scopes, NEW m \in Names,
           SameKey(s, n, t, m)
    PROVE  /\ table[s][n] = table[t][m]
           /\ \A k \in DOMAIN table[s][n].refs :
                CacheKey(s, table[s][n].refs[k]) = CacheKey(t, table[s][n].refs[k])
<1>1. /\ table[s][n] = table[t][m]
      /\ \A k \in DOMAIN table[s][n].refs :
            LET r == table[s][n].refs[k] IN SameKey(s, r, t, r)
  BY DEF Promise, Contract
<1>2. QED BY <1>1 DEF SameKey, CacheKey

LEMMA RankFalls ==
    ASSUME NEW rank, Promise(rank), NEW table \in Definitions,
           NEW s \in Scopes, NEW n \in Names, NEW k \in DOMAIN table[s][n].refs,
           Given[s][table[s][n].refs[k]] # ""
    PROVE  \A m \in Names : SameKey(s, n, s, m) =>
                Given[s][m] # "" /\ rank[table[s][n].refs[k]] < rank[m]
<1> SUFFICES ASSUME NEW m \in Names, SameKey(s, n, s, m)
             PROVE  Given[s][m] # "" /\ rank[table[s][n].refs[k]] < rank[m]
  OBVIOUS
<1>1. table[s][n] = table[s][m]
  <2>1. Contract(table, rank)
    BY DEF Promise
  <2>2. SameKey(s, n, s, m) =>
          /\ table[s][n] = table[s][m]
          /\ \A j \in DOMAIN table[s][n].refs :
                LET r == table[s][n].refs[j] IN SameKey(s, r, s, r)
    BY <2>1, Zenon DEF Contract
  <2>3. QED BY <2>2, Zenon
<1>2. \A j \in DOMAIN table[s][m].refs :
        LET r == table[s][m].refs[j]
        IN  Given[s][r] = "" \/ (Given[s][m] # "" /\ rank[r] < rank[m])
  BY DEF Promise, Contract
<1>3. QED BY <1>1, <1>2

LEMMA AgreesGrows ==
    ASSUME NEW old, NEW new, NEW type, NEW s,
           \A key \in DOMAIN old : key \in DOMAIN new /\ new[key] = old[key],
           AgreesIn(old, type, s)
    PROVE  AgreesIn(new, type, s)
BY DEF AgreesIn

\* A part that is the type the cache has for the next reference.
LEMMA PartAdded ==
    ASSUME NEW types, NEW def, NEW parts, NEW s, NEW type, Listed(parts),
           AgreesIn(types, Type(def, parts), s),
           CacheKey(s, def.refs[Len(parts) + 1]) \in DOMAIN types,
           type = types[CacheKey(s, def.refs[Len(parts) + 1])]
    PROVE  AgreesIn(types, Type(def, Append(parts, type)), s)
<1> DEFINE new == Append(parts, type)
<1>1. /\ DOMAIN new = 1..(Len(parts) + 1) /\ DOMAIN parts = 1..Len(parts) /\ Len(parts) \in Nat
      /\ \A i \in 1..Len(parts) : new[i] = parts[i]
      /\ new[Len(parts) + 1] = type
  BY ListedAppend, ListedDomain DEF Listed
<1> HIDE DEF new
<1> SUFFICES ASSUME NEW k \in 1..(Len(parts) + 1)
             PROVE  /\ CacheKey(s, def.refs[k]) \in DOMAIN types
                    /\ new[k] = types[CacheKey(s, def.refs[k])]
  BY <1>1 DEF AgreesIn, Type, new
<1>2. CASE k \in 1..Len(parts)
  BY <1>1, <1>2 DEF AgreesIn, Type
<1>3. CASE k = Len(parts) + 1
  BY <1>1, <1>3
<1>4. QED BY <1>1, <1>2, <1>3

\* The next reference of the frame at the top is a name.
LEMMA PendingReference ==
    ASSUME NEW rank, IInv(rank), Pending
    PROVE  /\ Len(stack) \in Nat \ {0} /\ Top = stack[Len(stack)]
           /\ FrameOK(Top) /\ Len(Top.parts) \in Nat
           /\ Len(Top.parts) + 1 \in DOMAIN Top.def.refs
           /\ Reference \in Names
<1>1. Len(stack) \in Nat \ {0} /\ Top = stack[Len(stack)]
  BY ListedDomain DEF IInv, Framed, Listed, Pending, Top, Last
<1>2. FrameOK(Top)
  BY <1>1 DEF IInv, Framed
<1>3. Len(Top.parts) \in Nat /\ Top.def.refs \in Seq(Names)
  BY <1>2 DEF FrameOK, Listed
<1>4. Len(Top.parts) + 1 \in 1..Len(Top.def.refs)
  BY <1>3, LenProperties DEF Pending
<1>5. QED BY <1>1, <1>2, <1>3, <1>4, LenProperties, ElementOfSeq DEF Reference

(***************************************************************************)
(* The steps.                                                              *)
(***************************************************************************)
LEMMA InitIInv == ASSUME NEW rank, Init PROVE IInv(rank)
<1>1. PICK table \in Definitions : revisions = <<table>>
  BY DEF Init
<1>2. revisions \in Seq(Definitions) /\ revisions # <<>>
  BY <1>1
<1>3. 0 \in 0..MaxCompiles
  BY ResolverAssumption DEF ResolverAssumption
<1>4. DOMAIN cache = {}
  BY DEF Init
<1>5. Typed
  BY <1>2, <1>3, <1>4 DEF Init, Typed, NoOutcome
<1>6. CacheCoherent /\ OutcomeAgrees
  BY <1>4 DEF Init, CacheCoherent, OutcomeAgrees, NoOutcome
<1>7. Listed(<<>>) /\ Len(<<>>) = 0
  BY EmptySeq, SeqIsListed
<1>8. Framed(stack) /\ Founded /\ Awaited /\ Marked /\ Falling(rank) /\ FramesAgree
  BY <1>7 DEF Init, Framed, Founded, Awaited, Marked, Falling, FramesAgree
<1>9. QED BY <1>5, <1>6, <1>8 DEF IInv

\* A compilation that returns leaves the cache as it is.
LEMMA ReturnIInv ==
    ASSUME NEW rank, IInv(rank), stack' = <<>>, resolving' = {},
           UNCHANGED <<revisions, cache, scope, compiles>>,
           outcome'.kind \in {"none", "type", "cycle", "unknown", "invalid"},
           OutcomeAgrees'
    PROVE  IInv(rank)'
<1>1. Listed(<<>>) /\ Len(<<>>) = 0
  BY EmptySeq, SeqIsListed
<1>2. (Framed(stack) /\ Founded /\ Awaited /\ Marked /\ Falling(rank) /\ FramesAgree)'
  BY <1>1 DEF Framed, Founded, Awaited, Marked, Falling, FramesAgree
<1>3. Typed' /\ CacheCoherent'
  BY DEF IInv, Typed, CacheCoherent, Sound
<1>4. QED BY <1>2, <1>3 DEF IInv

LEMMA FailIInv ==
    ASSUME NEW rank, IInv(rank), NEW kind \in {"cycle", "unknown", "invalid"}, Fail(kind)
    PROVE  IInv(rank)'
<1>1. OutcomeAgrees' /\ outcome'.kind = kind
  BY DEF Fail, Error, OutcomeAgrees
<1>2. QED BY <1>1, ReturnIInv DEF Fail

\* Names and keys of the frames that stay.
LEMMA NamesKept ==
    ASSUME NEW rank, IInv(rank), NEW n \in Nat, n <= Len(stack), Len(stack') = n,
           \A i \in 1..n : /\ stack'[i].name = stack[i].name
                           /\ stack'[i].key = stack[i].key
                           /\ stack'[i].def = stack[i].def,
           UNCHANGED <<revisions, scope>>
    PROVE  /\ Founded' /\ Falling(rank)'
           /\ {stack'[i].key : i \in 2..n} = {stack[i].key : i \in 2..n}
           /\ \A i, j \in 2..n : stack'[i].key = stack'[j].key => i = j
<1>1. Len(stack) \in Nat /\ Founded /\ Falling(rank) /\ Marked
  BY DEF IInv, Framed, Listed
<1>2. 2..n \subseteq 1..n /\ 2..n \subseteq 2..Len(stack)
  BY <1>1
<1>3. Founded'
  <2> SUFFICES ASSUME NEW i \in 2..n
               PROVE  /\ stack'[i].name \in Names
                      /\ stack'[i].key = CacheKey(scope, stack'[i].name)
                      /\ \E q \in 1..Len(revisions) :
                            stack'[i].def = revisions[q][scope][stack'[i].name]
    BY DEF Founded
  <2>1. i \in 1..n /\ i \in 2..Len(stack)
    BY <1>2
  <2>2. QED BY <1>1, <2>1 DEF Founded
<1>4. Falling(rank)'
  <2> SUFFICES ASSUME NEW i \in 2..n, NEW j \in 2..n, i < j,
                      Given[scope][stack'[j].name] # ""
               PROVE  \A m \in Names : SameKey(scope, stack'[i].name, scope, m) =>
                        Given[scope][m] # "" /\ rank[stack'[j].name] < rank[m]
    BY DEF Falling
  <2>1. i \in 1..n /\ i \in 2..Len(stack) /\ j \in 1..n /\ j \in 2..Len(stack)
    BY <1>2
  <2>2. QED BY <1>1, <2>1 DEF Falling
<1>5. \A i, j \in 2..n : stack'[i].key = stack'[j].key => i = j
  BY <1>1, <1>2 DEF Marked
<1>6. {stack'[i].key : i \in 2..n} = {stack[i].key : i \in 2..n}
  BY <1>2
<1>7. QED BY <1>3, <1>4, <1>5, <1>6

LEMMA CompileIInv == ASSUME NEW rank, IInv(rank), Compile PROVE IInv(rank)'
<1>1. PICK s \in Scopes, refs \in Schemas :
        /\ scope' = s
        /\ stack' = <<Frame("", "", [refs |-> refs, ends |-> "type", body |-> 0])>>
  BY DEF Compile
<1> DEFINE def == [refs |-> refs, ends |-> "type", body |-> 0]
           frame == Frame("", "", def)
<1>2. refs \in Seq(Names) /\ def.refs = refs
  BY ResolverAssumption DEF ResolverAssumption
<1>3. /\ Listed(<<>>) /\ Len(<<>>) = 0 /\ DOMAIN <<>> = {} /\ Len(refs) \in Nat
  <2>1. <<>> \in Seq(Names) /\ Len(<<>>) = 0
    BY EmptySeq
  <2>2. Listed(<<>>)
    BY <2>1, SeqIsListed
  <2>3. DOMAIN <<>> = {}
    OBVIOUS
  <2>4. QED BY <1>2, <2>1, <2>2, <2>3, LenProperties
<1>4. frame.def = def /\ frame.parts = <<>> /\ FrameOK(frame)
  BY <1>2, <1>3 DEF Frame, FrameOK
<1> HIDE DEF frame, def
<1>5. stack' = <<frame>> /\ Len(stack') = 1 /\ stack'[1] = frame /\ Listed(stack')
  <2>1. stack' = <<frame>>
    BY <1>1 DEF frame, def
  <2>2. <<frame>> \in Seq({frame}) /\ Len(<<frame>>) = 1 /\ <<frame>>[1] = frame
    OBVIOUS
  <2>3. Listed(<<frame>>)
    BY <2>2, SeqIsListed
  <2>4. QED BY <2>1, <2>2, <2>3
<1>6. Framed(stack)'
  BY <1>4, <1>5 DEF Framed
<1>7. 2..1 = {}
  OBVIOUS
<1>8. (Founded /\ Awaited /\ Marked /\ Falling(rank))'
  BY <1>5, <1>7 DEF Founded, Awaited, Marked, Falling, Compile
<1>9. FramesAgree'
  BY <1>3, <1>4, <1>5 DEF FramesAgree, AgreesIn, Type
<1>10. Typed'
  <2>1. Typed
    BY DEF IInv
  <2>2. compiles' = compiles + 1 /\ compiles < MaxCompiles /\ outcome' = NoOutcome
        /\ UNCHANGED <<revisions, cache>>
    BY DEF Compile
  <2>3. compiles' \in 0..MaxCompiles
    BY <2>1, <2>2, ResolverAssumption DEF ResolverAssumption, Typed
  <2>4. outcome'.kind = "none"
    BY <2>2 DEF NoOutcome
  <2>5. scope' \in Scopes /\ revisions' = revisions /\ cache' = cache
    BY <1>1, <2>2
  <2>6. QED BY <2>1, <2>3, <2>4, <2>5 DEF Typed
<1>11. CacheCoherent' /\ OutcomeAgrees'
  BY DEF Compile, IInv, CacheCoherent, Sound, OutcomeAgrees, NoOutcome
<1>12. QED BY <1>6, <1>8, <1>9, <1>10, <1>11 DEF IInv

LEMMA RedefineIInv == ASSUME NEW rank, IInv(rank), Redefine PROVE IInv(rank)'
<1>1. PICK table \in Definitions : revisions' = Append(revisions, table)
  BY DEF Redefine
<1>2. /\ revisions' \in Seq(Definitions) /\ revisions' # <<>>
      /\ Len(revisions') = Len(revisions) + 1
      /\ \A q \in 1..Len(revisions) : revisions'[q] = revisions[q]
  BY <1>1, AppendProperties DEF IInv, Typed
<1>3. Len(revisions) \in Nat
  BY Revised DEF IInv
<1>4. \A q \in 1..Len(revisions) :
        q \in 1..Len(revisions') /\ revisions'[q] = revisions[q]
  BY <1>2, <1>3
<1>5. Typed'
  BY <1>2 DEF Redefine, IInv, Typed
<1>6. (Framed(stack) /\ Awaited /\ Marked /\ Falling(rank) /\ FramesAgree /\ OutcomeAgrees)'
  BY DEF Redefine, IInv, Awaited, Marked, Falling, FramesAgree, OutcomeAgrees
<1>7. Founded'
  BY <1>4 DEF Redefine, IInv, Founded
<1>8. CacheCoherent'
  BY <1>4 DEF Redefine, IInv, CacheCoherent, Sound
<1>9. QED BY <1>5, <1>6, <1>7, <1>8 DEF IInv

LEMMA HitIInv == ASSUME NEW rank, IInv(rank), Hit PROVE IInv(rank)'
<1> DEFINE n == Len(stack)
           key == CacheKey(scope, Reference)
           type == cache[key]
<1>1. /\ Pending /\ key \in DOMAIN cache /\ stack' = WithPart(stack, type)
      /\ UNCHANGED <<revisions, cache, scope, resolving, outcome, compiles>>
  BY DEF Hit, Cached
<1>2. /\ n \in Nat \ {0} /\ Top = stack[n] /\ FrameOK(Top)
      /\ Len(stack[n].parts) < Len(stack[n].def.refs)
      /\ Reference = stack[n].def.refs[Len(stack[n].parts) + 1]
  BY <1>1, PendingReference DEF Pending, Reference
<1> HIDE DEF key, type
<1>3. /\ Framed(stack') /\ Len(stack') = n
      /\ \A i \in 1..(n - 1) : stack'[i] = stack[i]
      /\ stack'[n].name = stack[n].name /\ stack'[n].key = stack[n].key
      /\ stack'[n].def = stack[n].def
      /\ stack'[n].parts = Append(stack[n].parts, type)
  BY <1>1, <1>2, FramedWithPart DEF IInv
<1>4. \A i \in 1..n : /\ stack'[i].name = stack[i].name /\ stack'[i].key = stack[i].key
                      /\ stack'[i].def = stack[i].def
  BY <1>2, <1>3
<1>5. Typed' /\ CacheCoherent' /\ OutcomeAgrees'
  BY <1>1 DEF IInv, Typed, CacheCoherent, Sound, OutcomeAgrees
<1>6. /\ Founded' /\ Falling(rank)'
      /\ {stack'[i].key : i \in 2..n} = {stack[i].key : i \in 2..n}
      /\ \A i, j \in 2..n : stack'[i].key = stack'[j].key => i = j
  <2>1. n \in Nat /\ n <= Len(stack) /\ Len(stack') = n /\ UNCHANGED <<revisions, scope>>
    BY <1>1, <1>2, <1>3
  <2> HIDE DEF n
  <2>2. QED BY <1>4, <2>1, NamesKept
<1>7. Awaited'
  <2> SUFFICES ASSUME NEW i \in 2..n
               PROVE  /\ Len(stack'[i - 1].parts) < Len(stack'[i - 1].def.refs)
                      /\ stack'[i].name = stack'[i - 1].def.refs[Len(stack'[i - 1].parts) + 1]
    BY <1>3 DEF Awaited
  <2>1. i - 1 \in 1..(n - 1) /\ i \in 1..n
    BY <1>2
  <2>2. stack'[i - 1] = stack[i - 1] /\ stack'[i].name = stack[i].name
    BY <1>3, <1>4, <2>1
  <2>3. QED BY <2>2 DEF IInv, Awaited
<1>8. Marked'
  <2>1. Marked
    BY DEF IInv
  <2>2. \A i \in 2..n : stack'[i].key \notin DOMAIN cache
    BY <1>2, <1>4, <2>1 DEF Marked
  <2>3. QED BY <1>1, <1>3, <1>6, <2>1, <2>2 DEF Marked
<1>9. FramesAgree'
  <2> SUFFICES ASSUME NEW i \in 1..n
               PROVE  AgreesIn(cache, Type(stack'[i].def, stack'[i].parts), scope)
    BY <1>1, <1>3 DEF FramesAgree
  <2>1. AgreesIn(cache, Type(stack[i].def, stack[i].parts), scope)
    BY DEF IInv, FramesAgree
  <2>2. CASE i # n
    BY <1>2, <1>3, <2>1, <2>2
  <2>3. CASE i = n
    <3>1. Listed(stack[n].parts)
      BY <1>2 DEF FrameOK
    <3>2. AgreesIn(cache, Type(stack[n].def, Append(stack[n].parts, type)), scope)
      BY <1>1, <1>2, <2>1, <2>3, <3>1, PartAdded DEF key, type
    <3>3. QED BY <1>3, <2>3, <3>2
  <2>4. QED BY <2>2, <2>3
<1>10. QED BY <1>3, <1>5, <1>6, <1>7, <1>8, <1>9 DEF IInv

\* A name that comes up under way has a key that is not under way.
LEMMA NewKey ==
    ASSUME NEW rank, Promise(rank), IInv(rank), Pending, ~InProgress(Reference)
    PROVE  /\ \A i \in 2..Len(stack) : stack[i].key # CacheKey(scope, Reference)
           /\ Given[scope][Reference] # "" => \A i \in 2..Len(stack) :
                \A m \in Names : SameKey(scope, stack[i].name, scope, m) =>
                    Given[scope][m] # "" /\ rank[Reference] < rank[m]
<1> DEFINE n == Len(stack)
           r == Reference
<1>1. /\ n \in Nat \ {0} /\ Top = stack[n] /\ r \in Names
      /\ Len(Top.parts) + 1 \in DOMAIN Top.def.refs
      /\ r = stack[n].def.refs[Len(stack[n].parts) + 1]
  BY PendingReference DEF Reference
<1>2. scope \in Scopes /\ Typed /\ Founded /\ Marked /\ Falling(rank)
  BY DEF IInv, Typed
<1>3. \A i \in 2..n : n \in 2..n /\ (i # n => i < n)
  <2>1. n \in Nat
    BY <1>1
  <2> HIDE DEF n
  <2>2. QED BY <2>1
<1>4. \A a, b, c \in Int : a < b /\ b < c => a < c
  OBVIOUS
<1>5. Given[scope][r] # "" => \A i \in 2..n :
        \A m \in Names : SameKey(scope, stack[i].name, scope, m) =>
            Given[scope][m] # "" /\ rank[r] < rank[m]
  <2> SUFFICES ASSUME Given[scope][r] # "", NEW i \in 2..n
               PROVE  \A m \in Names : SameKey(scope, stack[i].name, scope, m) =>
                        Given[scope][m] # "" /\ rank[r] < rank[m]
    OBVIOUS
  <2>0. n \in 2..n /\ i \in 2..n
    BY <1>3, Zenon
  <2>1. n \in 2..n /\ stack[n].name \in Names /\ stack[i].name \in Names
    BY <1>2, <2>0 DEF Founded
  <2>2. PICK q \in 1..Len(revisions) : stack[n].def = revisions[q][scope][stack[n].name]
    BY <1>2, <2>1 DEF Founded
  <2>3. revisions[q] \in Definitions
    BY <1>2, Revised
  <2>4. \A m \in Names : SameKey(scope, stack[n].name, scope, m) =>
            Given[scope][m] # "" /\ rank[r] < rank[m]
    BY <1>1, <1>2, <2>1, <2>2, <2>3, RankFalls
  <2>5. CASE i = n
    BY <2>4, <2>5
  <2>6. CASE i # n
    <3>1. Given[scope][stack[n].name] # "" /\ rank[r] < rank[stack[n].name]
      BY <2>1, <2>4 DEF SameKey
    <3>2. \A m \in Names : SameKey(scope, stack[i].name, scope, m) =>
            Given[scope][m] # "" /\ rank[stack[n].name] < rank[m]
      <4>1. i < n
        BY <1>3, <2>6, Zenon
      <4>2. QED BY <1>2, <2>0, <3>1, <4>1 DEF Falling
    <3>3. \A m \in Names : rank[m] \in Int
      BY DEF Promise
    <3>5. /\ rank[r] \in Int /\ rank[stack[n].name] \in Int
          /\ rank[r] < rank[stack[n].name]
      BY <1>1, <2>1, <3>1, <3>3
    <3> HIDE DEF n, r
    <3>6. QED BY <1>4, <3>2, <3>3, <3>5, Zenon
  <2>7. QED BY <2>5, <2>6
<1>6. \A i \in 2..n : stack[i].key # CacheKey(scope, r)
  <2> SUFFICES ASSUME NEW i \in 2..n, stack[i].key = CacheKey(scope, r)
               PROVE  FALSE
    OBVIOUS
  <2>1. stack[i].name \in Names /\ CacheKey(scope, stack[i].name) = CacheKey(scope, r)
    BY <1>2 DEF Founded
  <2>2. revisions[1] \in Definitions
    BY <1>2, Revised
  <2>3. SameKey(scope, stack[i].name, scope, r)
    BY <1>1, <1>2, <2>1, <2>2, OneKey
  <2>4. CASE Given[scope][r] # ""
    <3>1. rank[r] < rank[r] /\ rank[r] \in Int
      BY <1>1, <1>5, <2>3, <2>4 DEF Promise
    <3>2. QED BY <3>1
  <2>5. CASE Given[scope][r] = ""
    <3>1. r = stack[i].key
      BY <2>5 DEF CacheKey
    <3>2. QED BY <1>2, <3>1 DEF Marked, InProgress
  <2>6. QED BY <2>4, <2>5
<1>7. QED BY <1>5, <1>6

LEMMA EnterIInv == ASSUME NEW rank, Promise(rank), IInv(rank), Enter PROVE IInv(rank)'
<1> DEFINE n == Len(stack)
           r == Reference
           key == CacheKey(scope, r)
           def == Resolve(r)
           last == Len(revisions)
<1>1. /\ Pending /\ ~InProgress(r) /\ key \notin DOMAIN cache
      /\ resolving' = resolving \cup {key}
      /\ stack' = Append(stack, Frame(r, key, def))
      /\ UNCHANGED <<revisions, cache, scope, outcome, compiles>>
  BY DEF Enter, Cached
<1>2. /\ n \in Nat \ {0} /\ r \in Names
      /\ Len(stack[n].parts) < Len(stack[n].def.refs)
      /\ r = stack[n].def.refs[Len(stack[n].parts) + 1]
  BY <1>1, PendingReference DEF Pending, Reference
<1>3. /\ \A i \in 2..n : stack[i].key # key
      /\ Given[scope][r] # "" => \A i \in 2..n :
            \A m \in Names : SameKey(scope, stack[i].name, scope, m) =>
                Given[scope][m] # "" /\ rank[r] < rank[m]
  BY <1>1, NewKey
<1>4. /\ Typed /\ Founded /\ Awaited /\ Marked /\ Falling(rank) /\ FramesAgree
      /\ scope \in Scopes /\ Framed(stack)
  BY DEF IInv, Typed
<1>5. last \in 1..last /\ def = revisions[last][scope][r] /\ revisions[last] \in Definitions
  BY <1>4, Revised DEF Resolve
<1>6. def.refs \in Seq(Names)
  BY <1>2, <1>4, <1>5, RefsAreNames
<1> HIDE DEF r, key, def, last
<1>7. /\ Framed(stack') /\ Len(stack') = n + 1
      /\ \A i \in 1..n : stack'[i] = stack[i]
      /\ stack'[n + 1].name = r /\ stack'[n + 1].key = key
      /\ stack'[n + 1].def = def /\ stack'[n + 1].parts = <<>>
  BY <1>1, <1>4, <1>6, FramedAppend
<1>8. /\ 2..(n + 1) = 2..n \cup {n + 1} /\ 2..n \subseteq 1..n /\ n + 1 \notin 1..n
      /\ \A i, j \in 2..(n + 1) : i < j => i \in 2..n /\ i \in 1..n
  BY <1>2
<1>9. Founded'
  <2> SUFFICES ASSUME NEW i \in 2..(n + 1)
               PROVE  /\ stack'[i].name \in Names
                      /\ stack'[i].key = CacheKey(scope, stack'[i].name)
                      /\ \E q \in 1..Len(revisions) :
                            stack'[i].def = revisions[q][scope][stack'[i].name]
    BY <1>1, <1>7 DEF Founded
  <2>1. CASE i \in 2..n
    BY <1>4, <1>7, <1>8, <2>1 DEF Founded
  <2>2. CASE i = n + 1
    BY <1>2, <1>5, <1>7, <2>2 DEF key, last
  <2>3. QED BY <1>8, <2>1, <2>2
<1>10. Awaited'
  <2> SUFFICES ASSUME NEW i \in 2..(n + 1)
               PROVE  /\ Len(stack'[i - 1].parts) < Len(stack'[i - 1].def.refs)
                      /\ stack'[i].name = stack'[i - 1].def.refs[Len(stack'[i - 1].parts) + 1]
    BY <1>7 DEF Awaited
  <2>1. i - 1 \in 1..n /\ stack'[i - 1] = stack[i - 1]
    BY <1>2, <1>7
  <2>2. CASE i \in 2..n
    BY <1>4, <1>7, <1>8, <2>1, <2>2 DEF Awaited
  <2>3. CASE i = n + 1
    BY <1>2, <1>7, <2>1, <2>3
  <2>4. QED BY <1>8, <2>2, <2>3
<1>11. Marked'
  <2>1. {stack'[i].key : i \in 2..(n + 1)} = {stack[i].key : i \in 2..n} \cup {key}
    BY <1>7, <1>8
  <2>2. resolving' = {stack'[i].key : i \in 2..(n + 1)}
    BY <1>1, <1>4, <2>1 DEF Marked
  <2>3. \A i \in 2..(n + 1) : stack'[i].key \notin DOMAIN cache
    BY <1>1, <1>4, <1>7, <1>8 DEF Marked
  <2>4. \A i, j \in 2..(n + 1) : stack'[i].key = stack'[j].key => i = j
    BY <1>3, <1>4, <1>7, <1>8 DEF Marked
  <2>5. QED BY <1>1, <1>7, <2>2, <2>3, <2>4 DEF Marked
<1>12. Falling(rank)'
  <2> SUFFICES ASSUME NEW i \in 2..(n + 1), NEW j \in 2..(n + 1), i < j,
                      Given[scope][stack'[j].name] # ""
               PROVE  \A m \in Names : SameKey(scope, stack'[i].name, scope, m) =>
                        Given[scope][m] # "" /\ rank[stack'[j].name] < rank[m]
    BY <1>1, <1>7 DEF Falling
  <2>0. i \in 2..n /\ i \in 1..n
    BY <1>8, Zenon
  <2>1. i \in 2..n /\ stack'[i] = stack[i]
    BY <1>7, <2>0
  <2>2. CASE j \in 2..n
    BY <1>4, <1>7, <1>8, <2>1, <2>2 DEF Falling
  <2>3. CASE j = n + 1
    BY <1>3, <1>7, <2>1, <2>3
  <2>4. QED BY <1>8, <2>2, <2>3
<1>13. FramesAgree'
  <2> SUFFICES ASSUME NEW i \in 1..(n + 1)
               PROVE  AgreesIn(cache, Type(stack'[i].def, stack'[i].parts), scope)
    BY <1>1, <1>7 DEF FramesAgree
  <2>1. CASE i \in 1..n
    BY <1>4, <1>7, <2>1 DEF FramesAgree
  <2>2. CASE i = n + 1
    BY <1>7, <2>2 DEF AgreesIn, Type
  <2>3. QED BY <1>2, <2>1, <2>2
<1>14. Typed' /\ CacheCoherent' /\ OutcomeAgrees'
  BY <1>1 DEF IInv, Typed, CacheCoherent, Sound, OutcomeAgrees
<1>15. QED BY <1>7, <1>9, <1>10, <1>11, <1>12, <1>13, <1>14 DEF IInv

\* The definition at the top is finished: its type goes to the cache, under a
\* key the cache does not have yet.
LEMMA Finished ==
    ASSUME NEW rank, Promise(rank), IInv(rank), Leave
    PROVE  /\ Len(stack) \in Nat /\ Len(stack) >= 2 /\ Top = stack[Len(stack)]
           /\ Top.key \notin DOMAIN cache
           /\ DOMAIN cache' = DOMAIN cache \cup {Top.key}
           /\ cache'[Top.key] = Type(Top.def, Top.parts)
           /\ \A key \in DOMAIN cache : cache'[key] = cache[key]
           /\ \A s \in Scopes, m \in Names :
                CacheKey(s, m) = Top.key => Sound(cache, Type(Top.def, Top.parts), s, m)
<1> DEFINE n == Len(stack)
           type == Type(Top.def, Top.parts)
<1>1. /\ Compiled /\ n > 1
      /\ cache' = [k \in DOMAIN cache \cup {Top.key} |-> IF k = Top.key THEN type ELSE cache[k]]
  BY DEF Leave
<1>2. /\ Typed /\ Founded /\ Marked /\ FramesAgree /\ Framed(stack) /\ scope \in Scopes
  BY DEF IInv, Typed
<1>3. n \in Nat /\ n >= 2 /\ n \in 2..n /\ n \in 1..n /\ Top = stack[n]
  <2>1. n \in Nat
    BY <1>2 DEF Framed, Listed
  <2>2. QED BY <1>1, <2>1 DEF Top, Last
<1>4. Top.key \notin DOMAIN cache
  BY <1>2, <1>3 DEF Marked
<1>5. Len(type.parts) = Len(type.def.refs)
  <2>1. FrameOK(Top)
    BY <1>2, <1>3 DEF Framed
  <2>2. Len(Top.parts) \in Nat /\ Len(Top.def.refs) \in Nat
        /\ Len(Top.parts) <= Len(Top.def.refs)
    BY <2>1, LenProperties DEF FrameOK, Listed
  <2>3. ~(Len(Top.parts) < Len(Top.def.refs))
    BY <1>1 DEF Compiled, Pending
  <2>4. QED BY <2>2, <2>3 DEF Type
<1>6. AgreesIn(cache, type, scope)
  BY <1>2, <1>3 DEF FramesAgree
<1>7. /\ Top.name \in Names /\ Top.key = CacheKey(scope, Top.name)
      /\ \E q \in 1..Len(revisions) : Top.def = revisions[q][scope][Top.name]
  BY <1>2, <1>3 DEF Founded
<1>8. \A s \in Scopes, m \in Names : CacheKey(s, m) = Top.key => Sound(cache, type, s, m)
  <2> SUFFICES ASSUME NEW s \in Scopes, NEW m \in Names, CacheKey(s, m) = Top.key
               PROVE  Sound(cache, type, s, m)
    OBVIOUS
  <2>1. PICK q \in 1..Len(revisions) : Top.def = revisions[q][scope][Top.name]
    BY <1>7
  <2>2. revisions[q] \in Definitions
    BY <1>2, Revised
  <2>3. SameKey(scope, Top.name, s, m)
    BY <1>2, <1>7, <2>2, OneKey
  <2>4. /\ Top.def = revisions[q][s][m]
        /\ \A k \in DOMAIN Top.def.refs :
            CacheKey(scope, Top.def.refs[k]) = CacheKey(s, Top.def.refs[k])
    BY <1>2, <1>7, <2>1, <2>2, <2>3, AlikeRefs
  <2>5. DOMAIN type.parts = DOMAIN type.def.refs
    <3>1. Listed(Top.parts) /\ Top.def.refs \in Seq(Names)
      BY <1>2, <1>3 DEF Framed, FrameOK
    <3>2. QED BY <1>5, <3>1, ListedDomain, LenProperties DEF Type
  <2>6. AgreesIn(cache, type, s)
    BY <1>6, <2>4, <2>5 DEF AgreesIn, Type
  <2>7. type.def = revisions[q][s][m]
    BY <2>4 DEF Type
  <2>8. QED BY <1>5, <2>6, <2>7 DEF Sound
<1>9. /\ DOMAIN cache' = DOMAIN cache \cup {Top.key}
      /\ cache'[Top.key] = type
      /\ \A key \in DOMAIN cache : cache'[key] = cache[key]
  <2> HIDE DEF type
  <2>1. QED BY <1>1, <1>4
<1>10. QED BY <1>3, <1>4, <1>8, <1>9

LEMMA LeaveIInv == ASSUME NEW rank, Promise(rank), IInv(rank), Leave PROVE IInv(rank)'
<1> DEFINE n == Len(stack)
           m == n - 1
           type == Type(Top.def, Top.parts)
           front == Front(stack)
<1>1. /\ n \in Nat /\ n >= 2 /\ Top = stack[n]
      /\ Top.key \notin DOMAIN cache
      /\ DOMAIN cache' = DOMAIN cache \cup {Top.key}
      /\ cache'[Top.key] = type
      /\ \A key \in DOMAIN cache : cache'[key] = cache[key]
      /\ \A s \in Scopes, name \in Names :
            CacheKey(s, name) = Top.key => Sound(cache, type, s, name)
  BY Finished
<1>2. /\ stack' = WithPart(front, type) /\ resolving' = resolving \ {Top.key}
      /\ UNCHANGED <<revisions, scope, outcome, compiles>>
  BY DEF Leave, Unmark
<1>3. /\ Typed /\ Founded /\ Awaited /\ Marked /\ FramesAgree /\ CacheCoherent
      /\ OutcomeAgrees /\ scope \in Scopes /\ Framed(stack)
  BY DEF IInv, Typed
<1>4. /\ Top.name \in Names /\ Top.key = CacheKey(scope, Top.name)
      /\ Len(stack[m].parts) < Len(stack[m].def.refs)
      /\ Top.name = stack[m].def.refs[Len(stack[m].parts) + 1]
  <2>1. n \in 2..n
    BY <1>1
  <2>2. QED BY <1>1, <1>3, <2>1 DEF Founded, Awaited
<1> HIDE DEF type, front
<1>5. /\ m \in Nat \ {0} /\ m <= n /\ m \in 1..m /\ n = m + 1 /\ m + 1 \in Nat
      /\ 1..m \subseteq 1..n /\ 2..m \subseteq 2..n /\ n \in 2..n /\ n \notin 2..m
      /\ 2..n = 2..m \cup {n}
  BY <1>1
<1>6. /\ Framed(front) /\ Len(front) = m
      /\ \A i \in 1..m : front[i] = stack[i]
  <2>1. stack # <<>>
    BY <1>1, <1>3, ListedDomain DEF Framed
  <2>2. QED BY <1>3, <2>1, FramedFront DEF front
<1>7. /\ Framed(stack') /\ Len(stack') = m
      /\ \A i \in 1..(m - 1) : stack'[i] = stack[i]
      /\ stack'[m].name = stack[m].name /\ stack'[m].key = stack[m].key
      /\ stack'[m].def = stack[m].def
      /\ stack'[m].parts = Append(stack[m].parts, type)
  <2>1. m - 1 \in Nat /\ \A i \in 1..(m - 1) : i \in 1..m
    BY <1>5
  <2>2. front[m] = stack[m]
    BY <1>5, <1>6
  <2> HIDE DEF m
  <2>3. m # 0 /\ m = Len(front) /\ Len(front[m].parts) < Len(front[m].def.refs)
    BY <1>4, <1>5, <1>6, <2>2
  <2>4. /\ Framed(stack') /\ Len(stack') = Len(front)
        /\ \A i \in 1..(m - 1) : stack'[i] = front[i]
        /\ stack'[m].name = front[m].name /\ stack'[m].key = front[m].key
        /\ stack'[m].def = front[m].def
        /\ stack'[m].parts = Append(front[m].parts, type)
    BY <1>2, <1>6, <2>3, FramedWithPart
  <2>5. \A i \in 1..(m - 1) : stack'[i] = stack[i]
    BY <1>6, <2>1, <2>4
  <2>6. QED BY <1>6, <2>2, <2>4, <2>5
<1>8. \A i \in 1..m : /\ stack'[i].name = stack[i].name /\ stack'[i].key = stack[i].key
                      /\ stack'[i].def = stack[i].def
  <2> SUFFICES ASSUME NEW i \in 1..m
               PROVE  /\ stack'[i].name = stack[i].name /\ stack'[i].key = stack[i].key
                      /\ stack'[i].def = stack[i].def
    OBVIOUS
  <2>1. CASE i = m
    BY <1>7, <2>1, Zenon
  <2>2. CASE i \in 1..(m - 1)
    BY <1>7, <2>2, Zenon
  <2>3. i = m \/ i \in 1..(m - 1)
    <3>1. m \in Nat
      BY <1>5
    <3> HIDE DEF m, n
    <3>2. QED BY <3>1
  <2>4. QED BY <2>1, <2>2, <2>3, Zenon
<1>9. /\ Founded' /\ Falling(rank)'
      /\ {stack'[i].key : i \in 2..m} = {stack[i].key : i \in 2..m}
      /\ \A i, j \in 2..m : stack'[i].key = stack'[j].key => i = j
  BY <1>2, <1>5, <1>7, <1>8, NamesKept
<1>10. Awaited'
  <2> SUFFICES ASSUME NEW i \in 2..m
               PROVE  /\ Len(stack'[i - 1].parts) < Len(stack'[i - 1].def.refs)
                      /\ stack'[i].name = stack'[i - 1].def.refs[Len(stack'[i - 1].parts) + 1]
    BY <1>7 DEF Awaited
  <2>1. i - 1 \in 1..(m - 1) /\ i \in 1..m /\ i \in 2..n
    BY <1>5
  <2>2. stack'[i - 1] = stack[i - 1] /\ stack'[i].name = stack[i].name
    BY <1>7, <1>8, <2>1
  <2>3. QED BY <1>3, <2>1, <2>2 DEF Awaited
<1>11. Marked'
  <2>1. resolving = {stack[i].key : i \in 2..m} \cup {stack[n].key}
    BY <1>3, <1>5 DEF Marked
  <2>2. \A i \in 2..m : stack[i].key # stack[n].key
    BY <1>3, <1>5 DEF Marked
  <2>3. resolving' = {stack'[i].key : i \in 2..m}
    <3> DEFINE K == {stack[i].key : i \in 2..m}
    <3>1. stack[n].key \notin K
      BY <2>2
    <3>2. resolving = K \cup {stack[n].key} /\ resolving' = resolving \ {stack[n].key}
      BY <1>1, <1>2, <2>1
    <3>3. {stack'[i].key : i \in 2..m} = K
      BY <1>9, Zenon
    <3> HIDE DEF K
    <3>4. resolving' = K
      BY <3>1, <3>2
    <3>5. QED BY <3>3, <3>4, Zenon
  <2>4. \A i \in 2..m : stack'[i].key \notin DOMAIN cache'
    BY <1>1, <1>3, <1>5, <1>8, <2>2 DEF Marked
  <2>5. QED BY <1>7, <1>9, <2>3, <2>4 DEF Marked
<1>12. \A t, s : AgreesIn(cache, t, s) => AgreesIn(cache', t, s)
  BY <1>1, AgreesGrows
<1>13. FramesAgree'
  <2> SUFFICES ASSUME NEW i \in 1..m
               PROVE  AgreesIn(cache', Type(stack'[i].def, stack'[i].parts), scope)
    BY <1>2, <1>7 DEF FramesAgree
  <2>1. AgreesIn(cache', Type(stack[i].def, stack[i].parts), scope)
    BY <1>3, <1>5, <1>12 DEF FramesAgree
  <2>2. CASE i # m
    <3>1. i \in 1..(m - 1)
      <4>1. m \in Nat
        BY <1>5
      <4> HIDE DEF m, n
      <4>2. QED BY <2>2, <4>1
    <3>2. QED BY <1>7, <2>1, <3>1, Zenon
  <2>3. CASE i = m
    <3>1. Listed(stack[m].parts)
      BY <1>3, <1>5 DEF Framed, FrameOK
    <3>2. AgreesIn(cache', Type(stack[m].def, Append(stack[m].parts, type)), scope)
      BY <1>1, <1>4, <2>1, <2>3, <3>1, PartAdded
    <3>3. QED BY <1>7, <2>3, <3>2
  <2>4. QED BY <2>2, <2>3
<1>14. CacheCoherent'
  <2> SUFFICES ASSUME NEW s \in Scopes, NEW name \in Names, CacheKey(s, name) \in DOMAIN cache'
               PROVE  Sound(cache', cache'[CacheKey(s, name)], s, name)
    BY <1>2 DEF CacheCoherent, Sound
  <2>1. PICK t : t = cache'[CacheKey(s, name)] /\ Sound(cache, t, s, name)
    BY <1>1, <1>3 DEF CacheCoherent
  <2>2. QED BY <1>12, <2>1 DEF Sound
<1>15. Typed'
  <2>1. Top.key \in {CacheKey(s, name) : s \in Scopes, name \in Names}
    BY <1>3, <1>4
  <2>2. DOMAIN cache' \subseteq {CacheKey(s, name) : s \in Scopes, name \in Names}
    BY <1>1, <1>3, <2>1 DEF Typed
  <2>3. QED BY <1>2, <1>3, <2>2 DEF Typed
<1>16. OutcomeAgrees'
  BY <1>2, <1>3, <1>12 DEF OutcomeAgrees
<1>17. QED BY <1>7, <1>9, <1>10, <1>11, <1>13, <1>14, <1>15, <1>16 DEF IInv

LEMMA InvalidIInv == ASSUME NEW rank, IInv(rank), Invalid PROVE IInv(rank)'
BY FailIInv DEF Invalid

LEMMA ReturningIInv == ASSUME NEW rank, IInv(rank), Return PROVE IInv(rank)'
<1>1. /\ stack' = <<>> /\ resolving' = {} /\ UNCHANGED <<revisions, cache, scope, compiles>>
      /\ Compiled /\ Len(stack) = 1 /\ outcome' = Answer(Type(Top.def, Top.parts))
  BY DEF Return
<1>2. AgreesIn(cache, Type(stack[1].def, stack[1].parts), scope) /\ Top = stack[1]
  BY <1>1 DEF IInv, FramesAgree, Top, Last
<1>3. outcome'.kind = "type" /\ outcome'.type = Type(Top.def, Top.parts)
  BY <1>1 DEF Answer
<1>4. OutcomeAgrees'
  BY <1>1, <1>2, <1>3 DEF OutcomeAgrees
<1>5. QED BY <1>1, <1>3, <1>4, ReturnIInv

LEMMA StepIInv ==
    ASSUME NEW rank, Promise(rank), IInv(rank), [Next]_vars
    PROVE  IInv(rank)'
<1>1. CASE Compile
  BY <1>1, CompileIInv
<1>2. CASE Redefine
  BY <1>2, RedefineIInv
<1>3. CASE Cycle \/ Unresolved \/ Undefined
  BY <1>3, FailIInv DEF Cycle, Unresolved, Undefined
<1>4. CASE Hit
  BY <1>4, HitIInv
<1>5. CASE Enter
  BY <1>5, EnterIInv
<1>6. CASE Leave
  BY <1>6, LeaveIInv
<1>7. CASE Invalid
  BY <1>7, InvalidIInv
<1>8. CASE Return
  BY <1>8, ReturningIInv
<1>9. CASE UNCHANGED vars
  <2>1. UNCHANGED <<revisions, cache, scope, stack, resolving, outcome, compiles>>
    BY <1>9 DEF vars
  <2>2. Typed' /\ Framed(stack)' /\ Awaited' /\ Marked'
    BY <2>1 DEF IInv, Typed, Awaited, Marked
  <2>3. Founded' /\ Falling(rank)' /\ FramesAgree'
    BY <2>1 DEF IInv, Founded, Falling, FramesAgree
  <2>4. CacheCoherent' /\ OutcomeAgrees'
    BY <2>1 DEF IInv, CacheCoherent, Sound, OutcomeAgrees
  <2>5. QED BY <2>2, <2>3, <2>4 DEF IInv
<1>10. QED BY <1>1, <1>2, <1>3, <1>4, <1>5, <1>6, <1>7, <1>8, <1>9 DEF Next

LEMMA AlwaysIInv == ASSUME NEW rank, Promise(rank) PROVE Spec => []IInv(rank)
<1>1. Init => IInv(rank)
  BY InitIInv
<1>2. IInv(rank) /\ [Next]_vars => IInv(rank)'
  BY StepIInv
<1>3. QED BY <1>1, <1>2, PTL DEF Spec

(***************************************************************************)
(* What follows for every resolver that keeps the contract.                *)
(***************************************************************************)

\* The marked keys are those of the recursion under way, and every frame has
\* gone through as many references as it has parts.
THEOREM TypeCorrect == ASSUME NEW rank, Promise(rank) PROVE Spec => []TypeOK
<1>1. IInv(rank) => TypeOK
  <2> SUFFICES ASSUME IInv(rank) PROVE TypeOK
    OBVIOUS
  <2>1. DOMAIN stack = 1..Len(stack) /\ Len(stack) \in Nat
    BY ListedDomain DEF IInv, Framed, Listed
  <2>2. \A i \in DOMAIN stack : Len(stack[i].parts) <= Len(stack[i].def.refs)
    BY <2>1 DEF IInv, Framed, FrameOK
  <2>3. \A i \in DOMAIN stack : i > 1 => /\ stack[i].name \in Names
                                         /\ stack[i].key = CacheKey(scope, stack[i].name)
    <3>1. \A i \in DOMAIN stack : i > 1 => i \in 2..Len(stack)
      BY <2>1
    <3>2. QED BY <3>1 DEF IInv, Founded
  <2>4. QED BY <2>2, <2>3 DEF TypeOK, IInv, Typed, Marked
<1>2. QED BY <1>1, AlwaysIInv, PTL

\* All types a compiler has cached or returned agree on what a name means in
\* a scope, whatever the resolver changed and wherever compilations failed.
THEOREM Coherence == ASSUME NEW rank, Promise(rank) PROVE Spec => []Coherent
<1>1. IInv(rank) => Coherent
  <2> SUFFICES ASSUME IInv(rank) PROVE Coherent
    OBVIOUS
  <2>1. DOMAIN revisions = 1..Len(revisions)
    BY LenProperties DEF IInv, Typed
  <2>2. \A s \in Scopes, n \in Names : CacheKey(s, n) \in DOMAIN cache =>
            Sound(cache, cache[CacheKey(s, n)], s, n)
    BY DEF IInv, CacheCoherent
  <2>3. outcome.kind = "type" => Agrees(outcome.type, scope)
    BY DEF IInv, OutcomeAgrees, AgreesIn, Agrees
  <2>4. QED BY <2>1, <2>2, <2>3 DEF Coherent, Sound, AgreesIn, Agrees
<1>2. QED BY <1>1, AlwaysIInv, PTL

\* No definition is compiled within its own compilation.
THEOREM NoRecursion == ASSUME NEW rank, Promise(rank) PROVE Spec => []RecursionCaught
<1>1. IInv(rank) => RecursionCaught
  BY DEF IInv, Marked, Founded, RecursionCaught
<1>2. QED BY <1>1, AlwaysIInv, PTL

\* The recursion is never deeper than there are names, so a bound on it that
\* is larger forbids nothing.
THEOREM DepthBounded ==
    ASSUME NEW rank, Promise(rank), IsFiniteSet(Names)
    PROVE  Spec => [](Len(stack) <= Cardinality(Names) + 1)
<1>1. IInv(rank) => Len(stack) <= Cardinality(Names) + 1
  <2> SUFFICES ASSUME IInv(rank) PROVE Len(stack) <= Cardinality(Names) + 1
    OBVIOUS
  <2> DEFINE I == 2..Len(stack)
             f == [i \in I |-> stack[i].name]
  <2>1. Len(stack) \in Nat
    BY DEF IInv, Framed, Listed
  <2>2. f \in Injection(I, Names)
    BY DEF IInv, Marked, Founded, Injection, IsInjective
  <2>3. Cardinality(I) <= Cardinality(Names)
    BY <2>2, FS_Injection
  <2>4. Cardinality(I) = IF 2 > Len(stack) THEN 0 ELSE Len(stack) - 2 + 1
    BY <2>1, FS_Interval
  <2>5. Cardinality(Names) \in Nat
    BY FS_CardinalityType
  <2>6. QED BY <2>1, <2>3, <2>4, <2>5
<1>2. QED BY <1>1, AlwaysIInv, PTL

\* A key once compiled keeps its type for as long as the compiler lives: the
\* key a definition is stored under is never in the cache already.
THEOREM KeysAreKept == ASSUME NEW rank, Promise(rank) PROVE Spec => KeysStick
<1> DEFINE Kept == \A key \in DOMAIN cache : key \in DOMAIN cache' /\ cache'[key] = cache[key]
<1>1. IInv(rank) /\ [Next]_vars => [Kept]_vars
  <2> SUFFICES ASSUME IInv(rank), Next PROVE Kept
    OBVIOUS
  <2>1. CASE Leave
    BY <2>1, Finished
  <2>2. CASE ~Leave
    <3>1. cache' = cache
      BY <2>2 DEF Next, Compile, Redefine, Cycle, Unresolved, Hit, Undefined, Enter,
                  Invalid, Return, Fail
    <3>2. QED BY <3>1
  <2>3. QED BY <2>1, <2>2
<1>2. Spec => [][Kept]_vars
  BY <1>1, AlwaysIInv, PTL DEF Spec
<1>3. QED BY <1>2 DEF KeysStick

\* A cycle is reported of a name only while that name is being compiled.
THEOREM CyclesAreReal == ASSUME NEW rank, Promise(rank) PROVE Spec => NoFalseCycle
<1> DEFINE Real == outcome'.kind = "cycle" /\ outcome.kind # "cycle" =>
                        \E i \in 2..Len(stack) : stack[i].name = Reference
<1>1. IInv(rank) /\ [Next]_vars => [Real]_vars
  <2> SUFFICES ASSUME IInv(rank), Next PROVE Real
    OBVIOUS
  <2>1. CASE Cycle
    <3>1. Reference \in Names /\ Reference \in resolving
      BY <2>1, PendingReference DEF Cycle, InProgress
    <3>2. PICK i \in 2..Len(stack) : stack[i].key = Reference
      BY <3>1 DEF IInv, Marked
    <3>3. /\ stack[i].name \in Names /\ stack[i].key = CacheKey(scope, stack[i].name)
          /\ scope \in Scopes
      BY DEF IInv, Founded, Typed
    <3>4. PICK table \in Definitions : TRUE
      BY Revised DEF IInv
    <3>5. Given[scope][stack[i].name] \notin Names
      BY <3>3, <3>4 DEF Promise, Contract
    <3>6. stack[i].name = Reference
      BY <3>1, <3>2, <3>3, <3>5 DEF CacheKey
    <3>7. QED BY <3>6
  <2>2. CASE ~Cycle
    <3>1. NoOutcome.kind = "none" /\ Error("unknown").kind = "unknown"
          /\ Error("invalid").kind = "invalid" /\ \A type : Answer(type).kind = "type"
      BY DEF NoOutcome, Error, Answer
    <3>2. \/ outcome' \in {outcome, NoOutcome, Error("unknown"), Error("invalid")}
          \/ \E type : outcome' = Answer(type)
      BY <2>2 DEF Next, Compile, Redefine, Unresolved, Hit, Undefined, Enter, Leave,
                  Invalid, Return, Fail
    <3>3. QED BY <3>1, <3>2
  <2>3. QED BY <2>1, <2>2
<1>2. Spec => [][Real]_vars
  BY <1>1, AlwaysIInv, PTL DEF Spec
<1>3. QED BY <1>2 DEF NoFalseCycle
=============================================================================
