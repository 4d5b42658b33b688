-------------------------- MODULE ArenaPairProofs --------------------------
(***************************************************************************)
(* Proofs that what two arenas show of one definition is the same, for     *)
(* every hash function, every source and every order of interning.         *)
(***************************************************************************)
EXTENDS ArenaPair, ArenaProofs

SB == INSTANCE ArenaProofs WITH
        nodes <- nodesB, fingerprints <- fingerprintsB, semantic <- semanticB,
        hashNext <- hashNextB, hashHead <- hashHeadB,
        pc <- pcB, request <- requestB, cursor <- cursorB, result <- resultB

(***************************************************************************)
(* The second arena is an arena: its definitions, its steps and what was   *)
(* proved of them.                                                         *)
(***************************************************************************)
LEMMA SameConstants ==
    /\ SB!Tables = Tables /\ SB!Defs = Defs
    /\ HashIsNat => SB!HashIsNat
    /\ SB!TypeIds = DOMAIN nodesB["type"] /\ SB!ConstraintIds = DOMAIN nodesB["constraint"]
BY DEF SB!Tables, Tables, SB!Defs, Defs, SB!Kinds, Kinds, SB!SimpleKinds, SimpleKinds,
       SB!AtomKinds, AtomKinds, HashIsNat, SB!HashIsNat, SB!TypeIds, SB!ConstraintIds

LEMMA SameInit == B!Init = SB!Init
BY DEF B!Init, SB!Init, B!Tables, SB!Tables, B!NoRequest, SB!NoRequest, B!Simple, SB!Simple,
       B!Def, SB!Def

LEMMA SameWalk ==
    B!FindNext = SB!FindNext /\ B!FindHit = SB!FindHit /\ B!AppendNode = SB!AppendNode
<1>1. B!FindNext = SB!FindNext
  BY DEF B!FindNext, SB!FindNext, B!Equal, SB!Equal, B!tables, SB!tables
<1>2. B!FindHit = SB!FindHit
  BY DEF B!FindHit, SB!FindHit, B!Equal, SB!Equal, B!tables, SB!tables, B!NoRequest, SB!NoRequest,
         B!Simple, SB!Simple, B!Def, SB!Def
<1>3. B!AppendNode = SB!AppendNode
  BY DEF B!AppendNode, SB!AppendNode, B!Link, SB!Link, B!Bucket, SB!Bucket, B!NoRequest, SB!NoRequest,
         B!Simple, SB!Simple, B!Def, SB!Def, B!Semantic, SB!Semantic, B!SemanticHash, SB!SemanticHash,
         B!SemanticFingerprint, SB!SemanticFingerprint, B!SemanticLabels, SB!SemanticLabels,
         B!EncodeSum, SB!EncodeSum, B!Ascending, SB!Ascending, B!Fingerprint, SB!Fingerprint
<1>4. QED BY <1>1, <1>2, <1>3

LEMMA SameIntern ==
    ASSUME NEW t, NEW def PROVE B!Intern(t, def) = SB!Intern(t, def)
BY DEF B!Intern, SB!Intern, B!Room, SB!Room, B!Bucket, SB!Bucket, B!Encode, SB!Encode,
       B!EncodeSum, SB!EncodeSum, B!Ascending, SB!Ascending, B!Fingerprint, SB!Fingerprint,
       B!Def, SB!Def, B!tables, SB!tables

LEMMA SameBoot == B!Boot = SB!Boot
BY SameIntern DEF B!Boot, SB!Boot, B!Booted, SB!Booted, B!Simple, SB!Simple, B!Def, SB!Def

LEMMA SecondInit == ASSUME HashIsNat PROVE B!Init => SB!IInv
<1>1. SB!Init => SB!IInv
  BY SB!InitIInv, BuiltinsAssumption, NamesAssumption, DataAssumption, BoundsAssumption
     DEF AtomKinds, SB!AtomKinds, SimpleKinds, SB!SimpleKinds
<1>2. QED BY <1>1, SameInit

\* A step of a walk, and the request that starts one.
SecondStep == SB!FindNext \/ SB!FindHit \/ SB!AppendNode \/ SB!Boot
SecondAsks == \E t \in Tables : \E def \in Defs : SB!Closed(def) /\ SB!Intern(t, def)

LEMMA SecondIInv ==
    ASSUME HashIsNat, SB!IInv, SecondStep \/ SecondAsks PROVE SB!IInv'
<1>1. SB!HashIsNat
  BY SameConstants
<1>2. CASE SecondStep
  <2>1. SB!FindNext => SB!IInv'
    BY SB!FindNextIInv, BuiltinsAssumption, NamesAssumption, DataAssumption, BoundsAssumption
       DEF AtomKinds, SB!AtomKinds, SimpleKinds, SB!SimpleKinds
  <2>2. SB!FindHit => SB!IInv'
    BY SB!FindHitIInv, BuiltinsAssumption, NamesAssumption, DataAssumption, BoundsAssumption
       DEF AtomKinds, SB!AtomKinds, SimpleKinds, SB!SimpleKinds
  <2>3. SB!AppendNode => SB!IInv'
    BY <1>1, SB!AppendNodeIInv, BuiltinsAssumption, NamesAssumption, DataAssumption, BoundsAssumption
       DEF AtomKinds, SB!AtomKinds, SimpleKinds, SB!SimpleKinds
  <2>4. SB!Boot => SB!IInv'
    BY <1>1, SB!BootIInv, BuiltinsAssumption, NamesAssumption, DataAssumption, BoundsAssumption
       DEF AtomKinds, SB!AtomKinds, SimpleKinds, SB!SimpleKinds
  <2>5. QED BY <1>2, <2>1, <2>2, <2>3, <2>4 DEF SecondStep
<1>3. CASE SecondAsks
  <2>1. PICK t \in SB!Tables, def \in SB!Defs : SB!Closed(def) /\ SB!Intern(t, def)
    BY <1>3, SameConstants DEF SecondAsks
  <2>2. QED BY <1>1, <2>1, SB!InternIInv, BuiltinsAssumption, NamesAssumption, DataAssumption, BoundsAssumption
       DEF AtomKinds, SB!AtomKinds, SimpleKinds, SB!SimpleKinds
<1>4. QED BY <1>2, <1>3

LEMMA SecondColumn ==
    ASSUME SB!IInv, SB!IInv', SB!Column, SecondStep \/ SecondAsks PROVE SB!Column'
<1>1. CASE SecondStep
  <2>1. [SB!Next]_SB!vars
    BY <1>1 DEF SecondStep, SB!Next
  <2>2. QED BY <2>1, SB!NextColumn, BuiltinsAssumption, NamesAssumption, DataAssumption, BoundsAssumption
       DEF AtomKinds, SB!AtomKinds, SimpleKinds, SB!SimpleKinds
<1>2. CASE SecondAsks
  <2>1. UNCHANGED SB!tables
    BY <1>2 DEF SecondAsks, SB!Intern
  <2>2. QED BY <2>1, SB!TablesColumn, BuiltinsAssumption, NamesAssumption, DataAssumption, BoundsAssumption
       DEF AtomKinds, SB!AtomKinds, SimpleKinds, SB!SimpleKinds
<1>3. QED BY <1>1, <1>2

LEMMA SecondKeeps ==
    ASSUME SB!IInv, SecondStep \/ SecondAsks
    PROVE  /\ \A id \in DOMAIN nodesB["type"] : semanticB'[id] = semanticB[id]
           /\ \A t \in Tables : \A i \in DOMAIN nodesB[t] :
                i \in DOMAIN nodesB'[t] /\ fingerprintsB'[t][i] = fingerprintsB[t][i]
<1>1. CASE SecondStep
  <2>1. [SB!Next]_SB!vars
    BY <1>1 DEF SecondStep, SB!Next
  <2>2. /\ \A id \in SB!TypeIds : semanticB'[id] = semanticB[id]
        /\ \A t \in SB!Tables : \A i \in DOMAIN nodesB[t] :
                i \in DOMAIN nodesB'[t] /\ fingerprintsB'[t][i] = fingerprintsB[t][i]
    BY <2>1, SB!ColumnsKept, BuiltinsAssumption, NamesAssumption, DataAssumption, BoundsAssumption
       DEF AtomKinds, SB!AtomKinds, SimpleKinds, SB!SimpleKinds
  <2>3. QED BY <2>2, SameConstants
<1>2. CASE SecondAsks
  BY <1>2 DEF SecondAsks, SB!Intern, SB!tables
<1>3. QED BY <1>1, <1>2

LEMMA SecondEnds ==
    ASSUME SB!IInv, SB!Column, SB!FindHit \/ SB!AppendNode
    PROVE  /\ pcB' = "idle" /\ resultB' \in DOMAIN nodesB'[requestB.table]
           /\ fingerprintsB'[requestB.table][resultB'] = Hash(SB!Encode(requestB.def))
           /\ requestB.table = "type" => semanticB'[resultB'] = SB!Semantic(requestB.def)
BY SB!WalkEnds, BuiltinsAssumption, NamesAssumption, DataAssumption, BoundsAssumption
   DEF AtomKinds, SB!AtomKinds, SimpleKinds, SB!SimpleKinds

LEMMA SecondIds ==
    ASSUME SB!IInv, NEW t \in Tables
    PROVE  /\ DOMAIN nodesB[t] = 1..Len(nodesB[t]) /\ Len(nodesB[t]) \in Nat
           /\ DOMAIN fingerprintsB[t] = DOMAIN nodesB[t]
           /\ DOMAIN semanticB = DOMAIN nodesB["type"]
<1>1. SB!TypeOK /\ t \in SB!Tables
  BY SameConstants DEF SB!IInv
<1>2. /\ DOMAIN nodesB[t] = 1..Len(nodesB[t]) /\ Len(nodesB[t]) \in Nat
      /\ DOMAIN fingerprintsB[t] = 1..Len(nodesB[t])
  BY <1>1, SB!Columns, BuiltinsAssumption, NamesAssumption, DataAssumption, BoundsAssumption
     DEF AtomKinds, SB!AtomKinds, SimpleKinds, SB!SimpleKinds
<1>3. DOMAIN semanticB = SB!TypeIds
  BY <1>1, SB!SemanticColumn, BuiltinsAssumption, NamesAssumption, DataAssumption, BoundsAssumption
     DEF AtomKinds, SB!AtomKinds, SimpleKinds, SB!SimpleKinds
<1>4. QED BY <1>2, <1>3, SameConstants

(***************************************************************************)
(* A translated definition has the hashes of the one it translates.        *)
(***************************************************************************)

\* What was copied shows the same in both arenas.
Copied(t, id) ==
    /\ id \in DOMAIN nodes[t] /\ copy[t][id] \in DOMAIN nodesB[t]
    /\ fingerprints[t][id] = fingerprintsB[t][copy[t][id]]
    /\ t = "type" => semantic[id] = semanticB[copy[t][id]]

AllCopied == DOMAIN copy = Tables /\ \A t \in Tables : \A id \in DOMAIN copy[t] : Copied(t, id)

\* Everything a definition refers to has been copied.
PartsCopied(def) ==
    /\ \A k \in DOMAIN def.kids : def.kids[k] \in DOMAIN copy["type"]
    /\ def.constraint # 0 => def.constraint \in DOMAIN copy["constraint"]

LEMMA PartsAlike ==
    ASSUME IInv, SB!IInv, AllCopied, NEW def \in Defs, PartsCopied(def)
    PROVE  /\ \A k \in DOMAIN def.kids :
                /\ copy["type"][def.kids[k]] \in DOMAIN nodesB["type"]
                /\ SB!Fingerprint("type", copy["type"][def.kids[k]]) = Fingerprint("type", def.kids[k])
                /\ SB!SemanticFingerprint(copy["type"][def.kids[k]]) = SemanticFingerprint(def.kids[k])
           /\ def.constraint # 0 => copy["constraint"][def.constraint] \in DOMAIN nodesB["constraint"]
           /\ SB!Fingerprint("constraint",
                    IF def.constraint = 0 THEN 0 ELSE copy["constraint"][def.constraint]) =
              Fingerprint("constraint", def.constraint)
<1>1. "type" \in Tables /\ "constraint" \in Tables
  BY DEF Tables
<1>2. /\ \A t \in Tables : DOMAIN fingerprints[t] = DOMAIN nodes[t] /\ DOMAIN nodes[t] = 1..Len(nodes[t])
      /\ DOMAIN semantic = DOMAIN nodes["type"]
  BY Columns, SemanticColumn DEF IInv, TypeIds
<1>3. /\ \A t \in Tables : DOMAIN fingerprintsB[t] = DOMAIN nodesB[t] /\ DOMAIN nodesB[t] = 1..Len(nodesB[t])
      /\ DOMAIN semanticB = DOMAIN nodesB["type"]
  BY <1>1, SecondIds
<1>4. ASSUME NEW t \in Tables, NEW id \in DOMAIN copy[t]
      PROVE  /\ copy[t][id] \in DOMAIN nodesB[t]
             /\ SB!Fingerprint(t, copy[t][id]) = Fingerprint(t, id)
  BY <1>2, <1>3 DEF AllCopied, Copied, SB!Fingerprint, Fingerprint
<1>5. ASSUME NEW id \in DOMAIN copy["type"]
      PROVE  SB!SemanticFingerprint(copy["type"][id]) = SemanticFingerprint(id)
  BY <1>1, <1>2, <1>3 DEF AllCopied, Copied, SB!SemanticFingerprint, SemanticFingerprint
<1>6. SB!Fingerprint("constraint", 0) = 0 /\ Fingerprint("constraint", 0) = 0
  BY <1>1, <1>2, <1>3 DEF SB!Fingerprint, Fingerprint
<1>7. QED BY <1>1, <1>4, <1>5, <1>6 DEF PartsCopied

CopiedKids(def) == [k \in DOMAIN def.kids |-> copy["type"][def.kids[k]]]

LEMMA TranslateIs ==
    ASSUME NEW def
    PROVE  /\ Translate(def).kind = def.kind /\ Translate(def).labels = def.labels
           /\ Translate(def).kids =
                IF def.kind = "Sum" THEN Ascending(CopiedKids(def)) ELSE CopiedKids(def)
           /\ Translate(def).constraint =
                IF def.constraint = 0 THEN 0 ELSE copy["constraint"][def.constraint]
BY DEF Translate, CopiedKids, Def

\* The children of a translation are the copied children, in some order.
LEMMA TranslatedKids ==
    ASSUME IInv, SB!IInv, AllCopied, NEW def \in Defs, PartsCopied(def)
    PROVE  LET kids == Translate(def).kids
               n    == Len(def.kids)
           IN  /\ n \in Nat /\ DOMAIN def.kids = 1..n /\ DOMAIN kids = 1..n
               /\ kids \in Seq(Nat) /\ Len(kids) = n
               /\ \E p : Permutes(p, n) /\ Reorders(kids, CopiedKids(def), p, n)
               /\ def.kind # "Sum" => kids = CopiedKids(def)
<1> DEFINE n == Len(def.kids)
           ck == CopiedKids(def)
<1>1. n \in Nat /\ DOMAIN def.kids = 1..n
  BY DEF Defs
<1> HIDE DEF n
<1>2. DOMAIN ck = 1..n /\ \A k \in 1..n : ck[k] = copy["type"][def.kids[k]]
  BY <1>1 DEF CopiedKids
<1>3. \A k \in 1..n : ck[k] \in Nat
  <2>1. \A i \in DOMAIN nodesB["type"] : i \in Nat
    BY SecondIds DEF Tables
  <2>2. QED BY <1>1, <1>2, <2>1, PartsAlike
<1>4. ck = [k \in 1..n |-> ck[k]]
  BY <1>2 DEF CopiedKids
<1> HIDE DEF ck
<1>5. ck \in [1..n -> Nat]
  BY <1>3, <1>4
<1>6. CASE def.kind = "Sum"
  <2>1. Translate(def).kids = Ascending(ck)
    BY <1>6, TranslateIs DEF ck
  <2>2. DOMAIN Ascending(ck) = 1..n /\ \E p : Permutes(p, n) /\ Reorders(Ascending(ck), ck, p, n)
    <3>0. PICK c : c = ck
      OBVIOUS
    <3>1. c = ck /\ DOMAIN c = 1..n /\ \A k \in 1..n : c[k] \in Int
      BY <1>2, <1>3, <3>0
    <3>2. DOMAIN Ascending(c) = 1..n /\ \E p : Permutes(p, n) /\ Reorders(Ascending(c), c, p, n)
      BY <1>1, <3>1, AscendingIs
    <3>3. QED BY <3>1, <3>2
  <2>3. \A k \in 1..n : Ascending(ck)[k] \in Nat
    BY <1>3, <2>2 DEF Permutes, Reorders
  <2>7. PICK s : s = Ascending(ck)
    OBVIOUS
  <2>4. s = Ascending(ck) /\ s = [k \in DOMAIN s |-> s[k]]
    BY <2>7 DEF Ascending
  <2>5. s \in [1..n -> Nat]
    BY <2>2, <2>3, <2>4
  <2>6. Ascending(ck) \in Seq(Nat) /\ Len(Ascending(ck)) = n
    BY <1>1, <2>2, <2>4, <2>5
  <2>8. QED BY <1>1, <1>6, <2>1, <2>2, <2>6 DEF n, ck
<1>7. CASE def.kind # "Sum"
  <2>1. Translate(def).kids = ck
    BY <1>7, TranslateIs DEF ck
  <2>2. ck \in Seq(Nat) /\ Len(ck) = n
    BY <1>1, <1>2, <1>5
  <2> DEFINE p == [k \in 1..n |-> k]
  <2>3. Permutes(p, n) /\ Reorders(ck, ck, p, n)
    BY DEF Permutes, Reorders
  <2> HIDE DEF p
  <2>4. QED BY <1>1, <1>2, <1>7, <2>1, <2>2, <2>3 DEF n, ck
<1>8. QED BY <1>6, <1>7

LEMMA TranslateClosed ==
    ASSUME IInv, SB!IInv, AllCopied, NEW def \in Defs, PartsCopied(def), Closed(def)
    PROVE  Translate(def) \in Defs /\ SB!Closed(Translate(def))
<1> DEFINE new == Translate(def)
           c == new.constraint
<1>1. new = [kind |-> new.kind, labels |-> new.labels, kids |-> new.kids, constraint |-> new.constraint]
  BY DEF Translate, Def
<1>2. /\ new.kind = def.kind /\ new.labels = def.labels
      /\ c = IF def.constraint = 0 THEN 0 ELSE copy["constraint"][def.constraint]
  BY TranslateIs
<1> HIDE DEF new
<1>3. PICK n \in Nat, kids \in Seq(Nat) :
        /\ kids = new.kids /\ n = Len(def.kids) /\ Len(kids) = n /\ DOMAIN kids = 1..n
        /\ DOMAIN def.kids = 1..n
        /\ \E p : Permutes(p, n) /\ Reorders(kids, CopiedKids(def), p, n)
  BY TranslatedKids DEF new
<1>4. c \in SB!ConstraintIds \cup {0} /\ c \in Nat
  <2>1. \A i \in DOMAIN nodesB["constraint"] : i \in Nat
    BY SecondIds DEF Tables
  <2>2. QED BY <1>2, <2>1, PartsAlike, SameConstants
<1>5. new \in Defs
  BY <1>1, <1>2, <1>3, <1>4 DEF Defs
<1>6. \A k \in DOMAIN kids : kids[k] \in SB!TypeIds
  <2>1. PICK p : Permutes(p, n) /\ Reorders(kids, CopiedKids(def), p, n)
    BY <1>3
  <2>2. \A k \in 1..n : CopiedKids(def)[k] \in DOMAIN nodesB["type"]
    BY <1>3, PartsAlike DEF CopiedKids
  <2>3. QED BY <1>3, <2>1, <2>2, SameConstants DEF Permutes, Reorders
<1>7. def.kind = "Refined" => Len(def.kids) = 1 /\ Len(def.labels) = 1 /\ Len(def.labels[1]) = 2
  BY DEF Closed
<1>8. SB!Closed(new)
  BY <1>2, <1>3, <1>4, <1>6, <1>7 DEF SB!Closed
<1>9. QED BY <1>5, <1>8 DEF new

LEMMA SameAscending == ASSUME NEW s PROVE SB!Ascending(s) = Ascending(s)
BY DEF SB!Ascending, Ascending

Family(v, n) == v = [k \in 1..n |-> v[k]]

\* v is to kids what w is to the children whose copies kids are.
Follows(kids, v, def, w, n) ==
    \A k, l \in 1..n : kids[k] = copy["type"][def.kids[l]] => v[k] = w[l]

\* Hashes of the copied children, in the order of the translation, are those
\* of the children; of a sum's, once they are sorted.
LEMMA HashesAlike ==
    ASSUME IInv, SB!IInv, AllCopied, NEW def \in Defs, PartsCopied(def),
           NEW n \in Nat, n = Len(def.kids), NEW v, NEW w, Family(v, n), Family(w, n),
           \A k \in 1..n : w[k] \in Nat, Follows(Translate(def).kids, v, def, w, n)
    PROVE  IF def.kind = "Sum" THEN Ascending(v) = Ascending(w) ELSE v = w
<1>1. PICK kids : kids = Translate(def).kids
  OBVIOUS
<1>2. /\ DOMAIN def.kids = 1..n
      /\ \E p : Permutes(p, n) /\ Reorders(kids, CopiedKids(def), p, n)
      /\ def.kind # "Sum" => kids = CopiedKids(def)
  BY <1>1, TranslatedKids
<1>3. \A k \in 1..n : CopiedKids(def)[k] = copy["type"][def.kids[k]]
  BY <1>2 DEF CopiedKids
<1>4. \A k, l \in 1..n : kids[k] = copy["type"][def.kids[l]] => v[k] = w[l]
  BY <1>1 DEF Follows
<1>5. DOMAIN v = 1..n /\ DOMAIN w = 1..n
  <2>1. DOMAIN [k \in 1..n |-> v[k]] = 1..n /\ DOMAIN [k \in 1..n |-> w[k]] = 1..n
    OBVIOUS
  <2>2. QED BY <2>1, Zenon DEF Family
<1>6. CASE def.kind = "Sum"
  <2>1. PICK p : Permutes(p, n) /\ Reorders(kids, CopiedKids(def), p, n)
    BY <1>2
  <2>2. ASSUME NEW k \in 1..n PROVE v[k] = w[p[k]]
    <3>1. PICK l \in 1..n : l = p[k]
      BY <2>1 DEF Permutes
    <3>2. kids[k] = copy["type"][def.kids[l]]
      BY <1>3, <2>1, <3>1 DEF Reorders
    <3>3. QED BY <1>4, <3>1, <3>2
  <2>3. Reorders(v, w, p, n)
    BY <2>2 DEF Reorders
  <2>4. \A k \in 1..n : w[k] \in Int
    OBVIOUS
  <2>5. Ascending(w) = Ascending(v)
    BY <1>5, <2>1, <2>3, <2>4, AscendingSame
  <2>6. QED BY <1>6, <2>5
<1>7. CASE def.kind # "Sum"
  <2>1. ASSUME NEW k \in 1..n PROVE v[k] = w[k]
    BY <1>2, <1>3, <1>4, <1>7
  <2>2. [k \in 1..n |-> v[k]] = [k \in 1..n |-> w[k]]
    BY <2>1, Zenon
  <2>3. v = w
    BY <2>2, Zenon DEF Family
  <2>4. QED BY <1>7, <2>3
<1>8. QED BY <1>6, <1>7

LEMMA TranslateAlike ==
    ASSUME IInv, SB!IInv, AllCopied, NEW def \in Defs, PartsCopied(def), HashIsNat
    PROVE  /\ SB!Encode(Translate(def)) = Encode(def)
           /\ Closed(def) => SB!Semantic(Translate(def)) = Semantic(def)
<1> DEFINE new == Translate(def)
<1>1. PICK n : /\ n \in Nat /\ n = Len(def.kids) /\ DOMAIN def.kids = 1..n /\ DOMAIN new.kids = 1..n
  BY TranslatedKids
<1>2. /\ new.kind = def.kind /\ new.labels = def.labels
      /\ new.constraint = IF def.constraint = 0 THEN 0 ELSE copy["constraint"][def.constraint]
      /\ def.kind # "Sum" => new.kids = CopiedKids(def)
  BY TranslateIs
<1>3. SB!Fingerprint("constraint", new.constraint) = Fingerprint("constraint", def.constraint)
  BY <1>2, PartsAlike
<1> HIDE DEF new
<1>4. PICK v, w, x, y :
        /\ v = [k \in DOMAIN new.kids |-> SB!Fingerprint("type", new.kids[k])]
        /\ w = [k \in DOMAIN def.kids |-> Fingerprint("type", def.kids[k])]
        /\ x = [k \in DOMAIN new.kids |-> SB!SemanticFingerprint(new.kids[k])]
        /\ y = [k \in DOMAIN def.kids |-> SemanticFingerprint(def.kids[k])]
  OBVIOUS
<1>5. /\ Family(v, n) /\ Family(w, n) /\ Family(x, n) /\ Family(y, n)
      /\ \A k \in 1..n : /\ v[k] = SB!Fingerprint("type", new.kids[k])
                         /\ w[k] = Fingerprint("type", def.kids[k])
                         /\ x[k] = SB!SemanticFingerprint(new.kids[k])
                         /\ y[k] = SemanticFingerprint(def.kids[k])
  BY <1>1, <1>4 DEF Family
<1>6. \A k \in 1..n :
        /\ SB!Fingerprint("type", copy["type"][def.kids[k]]) = Fingerprint("type", def.kids[k])
        /\ SB!SemanticFingerprint(copy["type"][def.kids[k]]) = SemanticFingerprint(def.kids[k])
  BY <1>1, PartsAlike
<1>7. Follows(new.kids, v, def, w, n) /\ Follows(new.kids, x, def, y, n)
  BY <1>5, <1>6 DEF Follows
<1>8. \A k \in 1..n : w[k] \in Nat /\ y[k] \in Nat
  <2>1. \A id : SemanticFingerprint(id) \in Nat
    BY SemanticColumn DEF IInv
  <2>2. \A id : Fingerprint("type", id) \in Nat
    <3>1. fingerprints["type"] \in Seq(Nat)
      BY NoRequestOK DEF IInv, TypeOK
    <3>2. QED BY <3>1 DEF Fingerprint
  <2>3. QED BY <1>5, <2>1, <2>2
<1>9. /\ IF def.kind = "Sum" THEN Ascending(v) = Ascending(w) ELSE v = w
      /\ IF def.kind = "Sum" THEN Ascending(x) = Ascending(y) ELSE x = y
  <2>1. /\ Follows(Translate(def).kids, v, def, w, n) /\ Follows(Translate(def).kids, x, def, y, n)
        /\ \A k \in 1..n : w[k] \in Nat
        /\ \A k \in 1..n : y[k] \in Nat
        /\ Family(v, n) /\ Family(w, n) /\ Family(x, n) /\ Family(y, n)
    BY <1>5, <1>7, <1>8 DEF new
  <2>2. IF def.kind = "Sum" THEN Ascending(v) = Ascending(w) ELSE v = w
    BY <1>1, <2>1, HashesAlike
  <2>3. IF def.kind = "Sum" THEN Ascending(x) = Ascending(y) ELSE x = y
    BY <1>1, <2>1, HashesAlike
  <2>4. QED BY <2>2, <2>3
<1>10. \A s : SB!Ascending(s) = Ascending(s)
  BY SameAscending
<1>11. SB!Encode(new) = Encode(def)
  <2>1. PICK a, b : /\ a = (IF def.kind = "Sum" THEN Ascending(w) ELSE w)
                    /\ b = (IF new.kind = "Sum" THEN SB!Ascending(v) ELSE v)
    OBVIOUS
  <2>2. /\ Encode(def) = Def(def.kind, def.labels, a, Fingerprint("constraint", def.constraint))
        /\ SB!Encode(new) = SB!Def(new.kind, new.labels, b, SB!Fingerprint("constraint", new.constraint))
    BY <1>4, <2>1, Zenon DEF Encode, SB!Encode, EncodeSum, SB!EncodeSum
  <2>3. a = b
    BY <1>2, <1>9, <1>10, <2>1
  <2>4. QED BY <1>2, <1>3, <2>2, <2>3, Zenon DEF Def, SB!Def
<1>12. SB!SemanticHash(new) = SemanticHash(def)
  <2>1. PICK a, b : /\ a = (IF def.kind = "Sum" THEN Ascending(y) ELSE y)
                    /\ b = (IF new.kind = "Sum" THEN SB!Ascending(x) ELSE x)
    OBVIOUS
  <2>2. /\ SemanticHash(def) =
            Hash(Def(def.kind, SemanticLabels(def), a, Fingerprint("constraint", def.constraint)))
        /\ SB!SemanticHash(new) =
            Hash(SB!Def(new.kind, SB!SemanticLabels(new), b, SB!Fingerprint("constraint", new.constraint)))
    BY <1>4, <2>1, Zenon DEF SemanticHash, SB!SemanticHash, EncodeSum, SB!EncodeSum
  <2>3. SB!SemanticLabels(new) = SemanticLabels(def)
    BY <1>2, Zenon DEF SemanticLabels, SB!SemanticLabels
  <2>4. a = b
    BY <1>2, <1>9, <1>10, <2>1
  <2>5. QED BY <1>2, <1>3, <2>2, <2>3, <2>4, Zenon DEF Def, SB!Def
<1>13. ASSUME Closed(def) PROVE SB!Semantic(new) = Semantic(def)
  <2>1. CASE def.kind = "Refined" /\ def.constraint = 0
    <3>1. 1 \in 1..n
      BY <1>1, <1>13, <2>1 DEF Closed
    <3>2. new.kids[1] = copy["type"][def.kids[1]]
      BY <1>1, <1>2, <2>1, <3>1 DEF CopiedKids
    <3>3. SB!SemanticFingerprint(new.kids[1]) = SemanticFingerprint(def.kids[1])
      BY <1>6, <3>1, <3>2
    <3>4. QED BY <1>2, <2>1, <3>3 DEF Semantic, SB!Semantic
  <2>2. CASE def.kind = "Refined" /\ def.constraint # 0
    <3>1. new.constraint # 0
      <4>1. copy["constraint"][def.constraint] \in DOMAIN nodesB["constraint"]
        BY <2>2, PartsAlike
      <4>2. 0 \notin DOMAIN nodesB["constraint"]
        BY SecondIds DEF Tables
      <4>3. QED BY <1>2, <2>2, <4>1, <4>2
    <3>2. QED BY <1>2, <1>12, <2>2, <3>1 DEF Semantic, SB!Semantic
  <2>3. CASE def.kind # "Refined"
    BY <1>2, <1>12, <2>3 DEF Semantic, SB!Semantic
  <2>4. QED BY <2>1, <2>2, <2>3
<1>14. QED BY <1>11, <1>13 DEF new

(***************************************************************************)
(* The inductive invariant: both arenas are arenas, what has been copied   *)
(* shows the same in both, and what is being copied is a translation.      *)
(***************************************************************************)
NotStarted == moving = Nothing /\ pcB = "idle" /\ \A t \in Tables : DOMAIN copy[t] = {}

InFlight ==
    \E t \in Tables : \E id \in DOMAIN nodes[t] :
        /\ moving = <<t, id>> /\ pcB = "find" /\ requestB.table = t
        /\ PartsCopied(nodes[t][id]) /\ requestB.def = Translate(nodes[t][id])

PInv ==
    /\ IInv /\ Column /\ SB!IInv /\ SB!Column
    /\ AllCopied
    /\ ~copying => NotStarted
    /\ moving # Nothing => InFlight

LEMMA DefsAre ==
    ASSUME IInv, NEW t \in Tables, NEW id \in DOMAIN nodes[t]
    PROVE  /\ nodes[t][id] \in Defs /\ Closed(nodes[t][id])
           /\ fingerprints[t][id] = Hash(Encode(nodes[t][id]))
<1>1. nodes[t] \in Seq(Defs)
  BY DEF IInv, TypeOK, Defs
<1>2. QED BY <1>1 DEF IInv, Faithful

LEMMA InitPInv == ASSUME HashIsNat PROVE PairInit => PInv
<1> SUFFICES ASSUME PairInit PROVE PInv
  OBVIOUS
<1>1. IInv /\ SB!IInv
  BY InitIInv, SecondInit DEF PairInit
<1>2. TypeIds = {} /\ SB!TypeIds = {} /\ pcB = "idle"
  <2>1. SB!Init
    BY SameInit DEF PairInit
  <2>2. nodes["type"] = <<>> /\ nodesB["type"] = <<>> /\ pcB = "idle"
    BY <2>1 DEF PairInit, Init, SB!Init, SB!Tables, Tables
  <2>3. QED BY <2>2 DEF TypeIds, SB!TypeIds
<1>3. DOMAIN copy = Tables /\ \A t \in Tables : DOMAIN copy[t] = {}
  BY DEF PairInit
<1>4. QED BY <1>1, <1>2, <1>3 DEF PInv, Column, SB!Column, AllCopied, NotStarted, PairInit

\* While the first arena is filled nothing has been copied.
LEMMA FillPInv == ASSUME HashIsNat, PInv, Fill PROVE PInv'
<1>1. Next /\ ~copying /\ NotStarted /\ UNCHANGED <<varsB, copying, moving, copy>>
  BY DEF PInv, Fill
<1>2. IInv' /\ Column'
  <2>1. IInv'
    BY <1>1, NextIInv DEF PInv
  <2>2. QED BY <1>1, <2>1, NextColumn DEF PInv
<1>3. SB!IInv' /\ SB!Column'
  <2>1. UNCHANGED SB!vars
    BY <1>1 DEF varsB, SB!vars
  <2>2. SB!HashIsNat
    BY SameConstants
  <2>3. SB!IInv'
    BY <2>1, <2>2, SB!NextIInv, BuiltinsAssumption, NamesAssumption, DataAssumption, BoundsAssumption
       DEF AtomKinds, SB!AtomKinds, SimpleKinds, SB!SimpleKinds, PInv
  <2>4. QED BY <2>1, <2>3, SB!NextColumn, BuiltinsAssumption, NamesAssumption, DataAssumption, BoundsAssumption
       DEF AtomKinds, SB!AtomKinds, SimpleKinds, SB!SimpleKinds, PInv
<1>4. moving' = Nothing /\ pcB' = "idle" /\ copy' = copy /\ \A t \in Tables : DOMAIN copy[t] = {}
  BY <1>1 DEF NotStarted, varsB
<1>5. QED BY <1>2, <1>3, <1>4 DEF PInv, AllCopied, NotStarted, Nothing

\* What has been copied stays as it is when the second arena goes on.
LEMMA AllCopiedStays ==
    ASSUME AllCopied, SB!IInv, SecondStep \/ SecondAsks, UNCHANGED <<vars, copy>>
    PROVE  AllCopied'
<1>1. /\ \A id \in DOMAIN nodesB["type"] : semanticB'[id] = semanticB[id]
      /\ \A t \in Tables : \A i \in DOMAIN nodesB[t] :
            i \in DOMAIN nodesB'[t] /\ fingerprintsB'[t][i] = fingerprintsB[t][i]
  BY SecondKeeps
<1>2. QED BY <1>1 DEF AllCopied, Copied, vars

\* The first arena stays an arena when nothing in it changes.
LEMMA FirstStays == ASSUME HashIsNat, IInv, Column, UNCHANGED vars PROVE IInv' /\ Column'
<1>1. IInv'
  BY NextIInv
<1>2. QED BY <1>1, NextColumn

LEMMA BootBPInv == ASSUME HashIsNat, PInv, BootB PROVE PInv'
<1>1. SB!Boot /\ copying' /\ UNCHANGED <<vars, moving, copy>>
  BY SameBoot DEF BootB
<1>2. SecondStep
  BY <1>1 DEF SecondStep
<1>3. IInv' /\ Column' /\ SB!IInv' /\ SB!Column' /\ AllCopied'
  BY <1>1, <1>2, FirstStays, SecondIInv, SecondColumn, AllCopiedStays DEF PInv
<1>4. moving' = Nothing
  BY <1>1 DEF SB!Boot, PInv, InFlight
<1>5. QED BY <1>1, <1>3, <1>4 DEF PInv

LEMMA MovePInv == ASSUME HashIsNat, PInv, Move PROVE PInv'
<1>1. PICK t \in Tables : \E id \in DOMAIN nodes[t] :
            /\ copying' /\ UNCHANGED <<vars, copy>> /\ PartsCopied(nodes[t][id])
            /\ B!Intern(t, Translate(nodes[t][id])) /\ moving' = <<t, id>>
  BY DEF Move, PartsCopied
<1>2. PICK id \in DOMAIN nodes[t] :
            /\ copying' /\ UNCHANGED <<vars, copy>> /\ PartsCopied(nodes[t][id])
            /\ B!Intern(t, Translate(nodes[t][id])) /\ moving' = <<t, id>>
  BY <1>1
<1>3. PICK def \in Defs : def = nodes[t][id] /\ Closed(def)
  BY DefsAre DEF PInv
<1>4. PICK new : new = Translate(def)
  OBVIOUS
<1>5. SB!Intern(t, new)
  BY <1>2, <1>3, <1>4, SameIntern
<1>6. new \in Defs /\ SB!Closed(new)
  BY <1>2, <1>3, <1>4, TranslateClosed DEF PInv
<1>7. SecondAsks
  BY <1>5, <1>6 DEF SecondAsks
<1>8. IInv' /\ Column' /\ SB!IInv' /\ SB!Column' /\ AllCopied'
  BY <1>2, <1>7, FirstStays, SecondIInv, SecondColumn, AllCopiedStays DEF PInv
<1>9. requestB'.table = t /\ requestB'.def = new /\ pcB' = "find"
  BY <1>5 DEF SB!Intern
<1>10. InFlight'
  <2>1. nodes' = nodes /\ copy' = copy
    BY <1>2 DEF vars
  <2>2. PartsCopied(nodes[t][id])' /\ Translate(nodes[t][id])' = Translate(nodes[t][id])
    BY <1>2, <2>1 DEF PartsCopied, Translate
  <2>3. QED BY <1>2, <1>3, <1>4, <1>9, <2>1, <2>2 DEF InFlight
<1>11. QED BY <1>2, <1>8, <1>10 DEF PInv

\* A walk that ends while something is being copied copies it.
LEMMA ArrivalCopies ==
    ASSUME HashIsNat, PInv, SB!FindHit \/ SB!AppendNode, UNCHANGED <<vars, copying>>, moving # Nothing,
           copy' = [copy EXCEPT ![moving[1]] =
                        [id \in DOMAIN @ \cup {moving[2]} |->
                            IF id = moving[2] THEN resultB' ELSE @[id]]]
    PROVE  AllCopied'
<1>1. PICK t \in Tables : \E id \in DOMAIN nodes[t] :
            /\ moving = <<t, id>> /\ requestB.table = t
            /\ PartsCopied(nodes[t][id]) /\ requestB.def = Translate(nodes[t][id])
  BY DEF PInv, InFlight
<1>2. PICK id \in DOMAIN nodes[t] :
            /\ moving = <<t, id>> /\ requestB.table = t
            /\ PartsCopied(nodes[t][id]) /\ requestB.def = Translate(nodes[t][id])
  BY <1>1
<1>3. PICK def \in Defs : /\ def = nodes[t][id] /\ Closed(def)
                          /\ fingerprints[t][id] = Hash(Encode(def))
  BY DefsAre DEF PInv
<1>4. /\ SB!Encode(requestB.def) = Encode(def)
      /\ SB!Semantic(requestB.def) = Semantic(def)
  <2>1. SB!Encode(Translate(def)) = Encode(def) /\ SB!Semantic(Translate(def)) = Semantic(def)
    BY <1>2, <1>3, TranslateAlike DEF PInv
  <2>2. QED BY <1>2, <1>3, <2>1
<1>5. t = "type" => semantic[id] = Semantic(def)
  BY <1>3 DEF PInv, Column, TypeIds
<1>6. /\ resultB' \in DOMAIN nodesB'[t]
      /\ fingerprintsB'[t][resultB'] = fingerprints[t][id]
      /\ t = "type" => semanticB'[resultB'] = semantic[id]
  BY <1>2, <1>3, <1>4, <1>5, SecondEnds DEF PInv
<1>7. DOMAIN copy = Tables /\ \A u \in Tables : \A i \in DOMAIN copy[u] : Copied(u, i)
  BY DEF PInv, AllCopied
<1>8. /\ DOMAIN copy' = Tables
      /\ \A u \in Tables \ {t} : copy'[u] = copy[u]
      /\ copy'[t] = [i \in DOMAIN copy[t] \cup {id} |-> IF i = id THEN resultB' ELSE copy[t][i]]
  BY <1>2, <1>7
<1>9. nodes' = nodes /\ fingerprints' = fingerprints /\ semantic' = semantic
  BY DEF vars
<1>10. /\ \A i \in DOMAIN nodesB["type"] : semanticB'[i] = semanticB[i]
       /\ \A u \in Tables : \A i \in DOMAIN nodesB[u] :
            i \in DOMAIN nodesB'[u] /\ fingerprintsB'[u][i] = fingerprintsB[u][i]
  BY SecondKeeps DEF SecondStep, PInv
<1>11. ASSUME NEW u \in Tables, NEW i \in DOMAIN copy'[u] PROVE Copied(u, i)'
  <2>1. CASE u = t /\ i = id
    BY <1>6, <1>8, <1>9, <2>1 DEF Copied
  <2>2. CASE ~(u = t /\ i = id)
    <3>1. i \in DOMAIN copy[u] /\ copy'[u][i] = copy[u][i]
      BY <1>8, <2>2
    <3>2. QED BY <1>7, <1>9, <1>10, <3>1 DEF Copied
  <2>3. QED BY <2>1, <2>2
<1>12. QED BY <1>8, <1>11 DEF AllCopied

LEMMA WalkBPInv == ASSUME HashIsNat, PInv, WalkB PROVE PInv'
<1>1. /\ SB!FindNext \/ SB!FindHit \/ SB!AppendNode
      /\ pcB = "find"
      /\ UNCHANGED vars /\ copying' = copying
  BY SameWalk DEF WalkB, SB!FindNext, SB!FindHit, SB!AppendNode
<1>2. SecondStep
  BY <1>1 DEF SecondStep
<1>3. IInv' /\ Column' /\ SB!IInv' /\ SB!Column'
  BY <1>1, <1>2, FirstStays, SecondIInv, SecondColumn DEF PInv
<1>4. copying'
  BY <1>1 DEF PInv, NotStarted
<1>5. CASE pcB' = "idle" /\ moving # Nothing
  <2>1. /\ moving' = Nothing
        /\ copy' = [copy EXCEPT ![moving[1]] =
                        [id \in DOMAIN @ \cup {moving[2]} |->
                            IF id = moving[2] THEN resultB' ELSE @[id]]]
    BY <1>5 DEF WalkB
  <2>2. SB!FindHit \/ SB!AppendNode
    BY <1>1, <1>5 DEF SB!FindNext
  <2>3. AllCopied'
    BY <1>1, <1>5, <2>1, <2>2, ArrivalCopies
  <2>4. QED BY <1>3, <1>4, <2>1, <2>3 DEF PInv
<1>6. CASE ~(pcB' = "idle" /\ moving # Nothing)
  <2>1. copy' = copy /\ moving' = moving
    BY <1>6 DEF WalkB
  <2>2. AllCopied'
    BY <1>1, <1>2, <2>1, AllCopiedStays DEF PInv
  <2>3. CASE moving = Nothing
    BY <1>3, <1>4, <2>1, <2>2, <2>3 DEF PInv
  <2>4. CASE moving # Nothing
    <3>1. SB!FindNext
      <4>1. SB!FindHit \/ SB!AppendNode => pcB' = "idle"
        BY SecondEnds DEF PInv
      <4>2. QED BY <1>1, <1>6, <2>4, <4>1
    <3>2. pcB' = pcB /\ requestB' = requestB
      BY <3>1 DEF SB!FindNext
    <3>3. InFlight'
      <4>1. nodes' = nodes
        BY <1>1 DEF vars
      <4>2. PICK t \in Tables : \E id \in DOMAIN nodes[t] :
                /\ moving = <<t, id>> /\ pcB = "find" /\ requestB.table = t
                /\ PartsCopied(nodes[t][id]) /\ requestB.def = Translate(nodes[t][id])
        BY <2>4 DEF PInv, InFlight
      <4>3. PICK id \in DOMAIN nodes[t] :
                /\ moving = <<t, id>> /\ pcB = "find" /\ requestB.table = t
                /\ PartsCopied(nodes[t][id]) /\ requestB.def = Translate(nodes[t][id])
        BY <4>2
      <4>4. PartsCopied(nodes[t][id])' /\ Translate(nodes[t][id])' = Translate(nodes[t][id])
        BY <2>1, <4>1, <4>3 DEF PartsCopied, Translate
      <4>5. QED BY <2>1, <3>2, <4>1, <4>3, <4>4 DEF InFlight
    <3>4. QED BY <1>3, <1>4, <2>2, <3>3 DEF PInv
  <2>5. QED BY <2>3, <2>4
<1>7. QED BY <1>5, <1>6

LEMMA StillPInv == ASSUME HashIsNat, PInv, UNCHANGED pairVars PROVE PInv'
<1>1. UNCHANGED vars /\ copy' = copy /\ moving' = moving /\ copying' = copying /\ UNCHANGED varsB
  BY DEF pairVars
<1>2. IInv' /\ Column'
  BY <1>1, FirstStays DEF PInv
<1>3. UNCHANGED SB!vars
  BY <1>1 DEF varsB, SB!vars
<1>4. SB!IInv' /\ SB!Column'
  <2>1. SB!HashIsNat
    BY SameConstants
  <2>2. SB!IInv'
    BY <1>3, <2>1, SB!NextIInv, BuiltinsAssumption, NamesAssumption, DataAssumption, BoundsAssumption
       DEF AtomKinds, SB!AtomKinds, SimpleKinds, SB!SimpleKinds, PInv
  <2>3. QED BY <1>3, <2>2, SB!NextColumn, BuiltinsAssumption, NamesAssumption, DataAssumption, BoundsAssumption
       DEF AtomKinds, SB!AtomKinds, SimpleKinds, SB!SimpleKinds, PInv
<1>5. /\ nodes' = nodes /\ fingerprints' = fingerprints /\ semantic' = semantic
      /\ nodesB' = nodesB /\ fingerprintsB' = fingerprintsB /\ semanticB' = semanticB
      /\ pcB' = pcB /\ requestB' = requestB
  BY <1>1 DEF vars, varsB
<1>6. AllCopied'
  BY <1>1, <1>5 DEF PInv, AllCopied, Copied
<1>7. moving' # Nothing => InFlight'
  BY <1>1, <1>5 DEF PInv, InFlight, PartsCopied, Translate
<1>8. ~copying' => NotStarted'
  BY <1>1, <1>5 DEF PInv, NotStarted
<1>9. QED BY <1>2, <1>4, <1>6, <1>7, <1>8 DEF PInv, Nothing

(***************************************************************************)
(* The theorem.                                                            *)
(***************************************************************************)

\* A definition shows the same two fingerprints in both arenas, whatever was
\* interned before it, in whatever order, and however the hash collides.
THEOREM FingerprintsAreOrderFree == ASSUME HashIsNat PROVE PairSpec => []OrderFreeFingerprints
<1>1. PairInit => PInv
  BY InitPInv
<1>2. PInv /\ [PairNext]_pairVars => PInv'
  <2> SUFFICES ASSUME PInv, [PairNext]_pairVars PROVE PInv'
    OBVIOUS
  <2>1. QED BY FillPInv, BootBPInv, MovePInv, WalkBPInv, StillPInv DEF PairNext, Done
<1>3. PInv => OrderFreeFingerprints
  BY DEF PInv, AllCopied, Copied, OrderFreeFingerprints, Tables
<1>4. QED BY <1>1, <1>2, <1>3, PTL DEF PairSpec
===========================================================================
