---------------------------- MODULE ArenaProofs ----------------------------
(***************************************************************************)
(* Proofs about the arena, for every hash function, every set of requests  *)
(* and every bound: first of single definitions, then of what they unfold  *)
(* to.                                                                     *)
(***************************************************************************)
EXTENDS Arena, FiniteSetTheorems, SequenceTheorems, Induction, TLAPS

\* hashFunc returns a uint64: some number, no more is assumed of it.
HashIsNat == \A e : Hash(e) \in Nat

Defs == [kind : Kinds, labels : Seq(Seq(Int)), kids : Seq(Nat), constraint : Nat]

\* The columns of a table have one length.
LEMMA Columns ==
    ASSUME TypeOK, NEW t \in Tables
    PROVE  /\ DOMAIN nodes[t] = 1..Len(nodes[t])
           /\ DOMAIN fingerprints[t] = 1..Len(nodes[t])
           /\ DOMAIN hashNext[t] = 1..Len(nodes[t])
           /\ Len(nodes[t]) \in Nat
<1>1. nodes[t] \in Seq(Defs) /\ fingerprints[t] \in Seq(Nat) /\ hashNext[t] \in Seq(Nat)
  BY DEF TypeOK, Defs
<1>2. Len(fingerprints[t]) = Len(nodes[t]) /\ Len(hashNext[t]) = Len(nodes[t])
  BY DEF TypeOK
<1>3. QED BY <1>1, <1>2

\* The encoding of a definition looks only at what the definition refers to:
\* appending to the tables changes no encoding.
LEMMA EncodeStable ==
    ASSUME TypeOK, NEW def \in Defs, Closed(def),
           fingerprints' \in [Tables -> Seq(Nat)],
           \A t \in Tables : \A i \in DOMAIN fingerprints[t] :
                /\ i \in DOMAIN fingerprints'[t]
                /\ fingerprints'[t][i] = fingerprints[t][i]
    PROVE  Encode(def)' = Encode(def)
<1>1. "type" \in Tables /\ "constraint" \in Tables
  BY DEF Tables
<1>2. \A id \in TypeIds : Fingerprint("type", id)' = Fingerprint("type", id)
  BY <1>1, Columns DEF Fingerprint, TypeIds
<1>3. \A id \in ConstraintIds \cup {0} :
        Fingerprint("constraint", id)' = Fingerprint("constraint", id)
  <2>1. 0 \notin DOMAIN fingerprints["constraint"]
    BY <1>1, Columns
  <2>2. 0 \notin DOMAIN fingerprints'["constraint"]
    <3>1. fingerprints'["constraint"] \in Seq(Nat)
      BY <1>1
    <3>2. QED BY <3>1
  <2>3. QED BY <1>1, <2>1, <2>2, Columns DEF Fingerprint, ConstraintIds
<1>4. \A k \in DOMAIN def.kids :
        Fingerprint("type", def.kids[k])' = Fingerprint("type", def.kids[k])
  BY <1>2 DEF Closed
<1>5. Fingerprint("constraint", def.constraint)' = Fingerprint("constraint", def.constraint)
  BY <1>3 DEF Closed
<1>6. [k \in DOMAIN def.kids |-> Fingerprint("type", def.kids[k])]' =
      [k \in DOMAIN def.kids |-> Fingerprint("type", def.kids[k])]
  BY <1>4
<1>7. QED BY <1>5, <1>6 DEF Encode

(***************************************************************************)
(* The three steps of a chain walk and the two ways an intern call starts. *)
(***************************************************************************)
LEMMA NoRequestOK ==
    /\ NoRequest \in [table : Tables, fp : Nat, def : Defs]
    /\ NoRequest.table = "type" /\ "type" \in Tables
<1>1. <<>> \in Seq(Seq(Int)) /\ <<>> \in Seq(Nat)
  OBVIOUS
<1>2. Simple("None") \in Defs
  BY <1>1 DEF Simple, Def, Defs, Kinds
<1>3. QED BY <1>2 DEF NoRequest, Tables

LEMMA InitIInv == Init => IInv
<1> SUFFICES ASSUME Init PROVE IInv
  OBVIOUS
<1> USE DEF Init
<1>1. TypeOK
  <2>1. \A t \in Tables : nodes[t] = <<>> /\ fingerprints[t] = <<>> /\ hashNext[t] = <<>>
    OBVIOUS
  <2>2. cursor \in 0..Len(nodes[request.table])
    BY <2>1, NoRequestOK
  <2>3. QED BY <2>1, <2>2, NoRequestOK DEF TypeOK, Defs
<1>2. \A t \in Tables : DOMAIN nodes[t] = {}
  OBVIOUS
<1>3. \A t \in Tables : Faithful(t) /\ Chained(t)
  <2> SUFFICES ASSUME NEW t \in Tables PROVE Faithful(t) /\ Chained(t)
    OBVIOUS
  <2>1. Len(nodes[t]) = 0 /\ DOMAIN hashHead[t] = {}
    OBVIOUS
  <2>2. 1..0 = {}
    OBVIOUS
  <2>3. QED BY <1>2, <2>1, <2>2 DEF Faithful, Chained, Linked
<1>4. Searching /\ Canonical
  BY <1>2 DEF Searching, Canonical
<1>5. QED BY <1>1, <1>3, <1>4 DEF IInv

LEMMA TablesUnchanged ==
    ASSUME IInv, UNCHANGED tables
    PROVE  /\ \A t \in Tables : (Faithful(t) /\ Chained(t))'
           /\ Canonical'
           /\ \A def \in Defs : Closed(def) => Closed(def)' /\ Encode(def)' = Encode(def)
<1>1. \A t, id : Fingerprint(t, id)' = Fingerprint(t, id)
  BY DEF tables, Fingerprint
<1>2. \A def : Encode(def)' = Encode(def)
  <2> SUFFICES ASSUME NEW def PROVE Encode(def)' = Encode(def)
    OBVIOUS
  <2>1. [k \in DOMAIN def.kids |-> Fingerprint("type", def.kids[k])]' =
        [k \in DOMAIN def.kids |-> Fingerprint("type", def.kids[k])]
    BY <1>1
  <2>2. QED BY <1>1, <2>1 DEF Encode
<1>3. \A def : Closed(def)' = Closed(def)
  BY DEF tables, Closed, TypeIds, ConstraintIds
<1>4. \A t \in Tables : Faithful(t)'
  BY <1>2, <1>3 DEF IInv, tables, Faithful
<1>5. \A t \in Tables : Chained(t)'
  BY DEF IInv, tables, Chained
<1>6. Canonical'
  BY DEF IInv, tables, Canonical
<1>7. QED BY <1>2, <1>3, <1>4, <1>5, <1>6

LEMMA InternIInv ==
    ASSUME HashIsNat, IInv, NEW t \in Tables, NEW def \in Defs, Closed(def),
           Intern(t, def)
    PROVE  IInv'
<1> DEFINE fp == Hash(Encode(def))
<1>1. /\ UNCHANGED tables /\ pc' = "find" /\ result' = 0
      /\ request' = [table |-> t, def |-> def, fp |-> fp]
      /\ cursor' = Bucket(t, fp)
  BY DEF Intern
<1>2. fp \in Nat
  BY DEF HashIsNat
<1>3. /\ request'.table = t /\ request'.def = def /\ request'.fp = fp
  BY <1>1
<1>4. Bucket(t, fp) \in 0..Len(nodes[t])
  BY Columns DEF Bucket, IInv, Chained, Linked
<1>5. TypeOK'
  BY <1>1, <1>2, <1>4 DEF TypeOK, tables, IInv, Defs
<1>6. \A u \in Tables : (Faithful(u) /\ Chained(u))'
  BY <1>1, TablesUnchanged
<1>7. Canonical'
  BY <1>1, TablesUnchanged
<1>8. Closed(def)' /\ Encode(def)' = Encode(def)
  BY <1>1, TablesUnchanged
<1>9. /\ Bucket(t, fp) # 0 => fingerprints[t][Bucket(t, fp)] = fp
      /\ \A j \in DOMAIN nodes[t] : j > Bucket(t, fp) => fingerprints[t][j] # fp
  <2>1. Linked(Len(nodes[t]), fingerprints[t], hashNext[t], hashHead[t])
    BY DEF IInv, Chained
  <2>2. DOMAIN nodes[t] = 1..Len(nodes[t])
    BY Columns DEF IInv
  <2>3. CASE fp \in DOMAIN hashHead[t]
    BY <2>1, <2>2, <2>3 DEF Bucket, Linked
  <2>4. CASE fp \notin DOMAIN hashHead[t]
    <3>1. Bucket(t, fp) = 0
      BY <2>4 DEF Bucket
    <3>2. \A j \in DOMAIN nodes[t] : fingerprints[t][j] \in DOMAIN hashHead[t]
      BY <2>1, <2>2 DEF Linked
    <3>3. QED BY <2>4, <3>1, <3>2
  <2>5. QED BY <2>3, <2>4
<1>10. Searching'
  BY <1>1, <1>3, <1>8, <1>9 DEF Searching, tables
<1>11. QED BY <1>5, <1>6, <1>7, <1>10 DEF IInv

LEMMA ReturnIInv ==
    ASSUME IInv, NEW id \in TypeIds, Return(id)
    PROVE  IInv'
<1>1. /\ UNCHANGED <<tables, pc, request, cursor>> /\ result' = id /\ pc = "idle"
  BY DEF Return
<1>2. id \in Nat
  BY Columns DEF TypeIds, IInv, Tables
<1>3. TypeOK'
  BY <1>1, <1>2 DEF TypeOK, tables, IInv
<1>4. \A u \in Tables : (Faithful(u) /\ Chained(u))'
  BY <1>1, TablesUnchanged
<1>5. Canonical' /\ Searching'
  BY <1>1, TablesUnchanged DEF Searching, IInv, NoRequest
<1>6. QED BY <1>3, <1>4, <1>5 DEF IInv

LEMMA FindNextIInv == IInv /\ FindNext => IInv'
<1> SUFFICES ASSUME IInv, FindNext PROVE IInv'
  OBVIOUS
<1> DEFINE t == request.table
<1>1. /\ pc = "find" /\ cursor # 0 /\ nodes[t][cursor] # request.def
      /\ cursor' = hashNext[t][cursor]
      /\ UNCHANGED <<tables, pc, request, result>>
  BY DEF FindNext, Equal
<1>2. t \in Tables /\ cursor \in DOMAIN nodes[t]
  BY <1>1, Columns DEF IInv, TypeOK
<1>3. hashNext[t][cursor] \in 0..(cursor - 1)
  BY <1>2, Columns DEF IInv, Chained, Linked
<1>4. TypeOK'
  <2>1. cursor' \in 0..Len(nodes[t])
    BY <1>1, <1>2, <1>3, Columns DEF IInv
  <2>2. QED BY <1>1, <2>1 DEF TypeOK, tables, IInv
<1>5. \A u \in Tables : (Faithful(u) /\ Chained(u))'
  BY <1>1, TablesUnchanged
<1>6. Canonical'
  BY <1>1, TablesUnchanged
<1>7. /\ Closed(request.def) /\ request.fp = Hash(Encode(request.def))
      /\ fingerprints[t][cursor] = request.fp
      /\ \A j \in DOMAIN nodes[t] :
            j > cursor /\ fingerprints[t][j] = request.fp => nodes[t][j] # request.def
  BY <1>1 DEF IInv, Searching
<1>8. /\ cursor' # 0 => fingerprints[t][cursor'] = request.fp
      /\ \A j \in DOMAIN nodes[t] :
            cursor' < j /\ j < cursor => fingerprints[t][j] # request.fp
  <2>1. Linked(Len(nodes[t]), fingerprints[t], hashNext[t], hashHead[t])
    BY <1>2 DEF IInv, Chained
  <2>2. DOMAIN nodes[t] = 1..Len(nodes[t])
    BY <1>2, Columns DEF IInv
  <2>3. QED BY <1>1, <1>2, <1>7, <2>1, <2>2 DEF Linked
<1>9. \A j \in DOMAIN nodes[t] :
            j > cursor' /\ fingerprints[t][j] = request.fp => nodes[t][j] # request.def
  <2> SUFFICES ASSUME NEW j \in DOMAIN nodes[t], j > cursor', fingerprints[t][j] = request.fp
               PROVE  nodes[t][j] # request.def
    OBVIOUS
  <2>1. j \in Nat /\ cursor \in Nat
    BY <1>2, Columns DEF IInv
  <2>2. j = cursor \/ j > cursor
    BY <1>1, <1>3, <1>8, <2>1
  <2>3. QED BY <1>1, <1>7, <2>2
<1>10. Closed(request.def)' /\ Encode(request.def)' = Encode(request.def)
  <2>1. PICK d \in Defs : d = request.def
    BY DEF IInv, TypeOK, Defs
  <2>2. d = request'.def
    BY <1>1, <2>1
  <2>3. Closed(d)' /\ Encode(d)' = Encode(d)
    BY <1>1, <1>7, <2>1, TablesUnchanged
  <2>4. QED BY <2>1, <2>2, <2>3
<1>11. Searching'
  BY <1>1, <1>7, <1>8, <1>9, <1>10 DEF Searching, tables
<1>12. QED BY <1>4, <1>5, <1>6, <1>11 DEF IInv

LEMMA FindHitIInv == IInv /\ FindHit => IInv'
<1> SUFFICES ASSUME IInv, FindHit PROVE IInv'
  OBVIOUS
<1>1. /\ UNCHANGED tables /\ pc' = "idle" /\ cursor' = 0
      /\ request' = NoRequest /\ result' = cursor
  BY DEF FindHit
<1>2. TypeOK'
  <2>1. cursor \in Nat
    BY Columns DEF IInv, TypeOK
  <2>2. Len(nodes["type"]) \in Nat
    BY Columns DEF IInv, Tables
  <2>3. cursor' \in 0..Len(nodes'[request'.table]) /\ result' \in Nat /\ pc' \in {"idle", "find"}
    BY <1>1, <2>1, <2>2, NoRequestOK DEF tables
  <2>4. request' \in [table : Tables, fp : Nat, def : Defs]
    BY <1>1, NoRequestOK
  <2>5. QED BY <1>1, <2>3, <2>4 DEF TypeOK, tables, IInv, Defs
<1>3. \A u \in Tables : (Faithful(u) /\ Chained(u))'
  BY <1>1, TablesUnchanged
<1>4. Canonical' /\ Searching'
  BY <1>1, TablesUnchanged DEF Searching, IInv, NoRequest
<1>5. QED BY <1>2, <1>3, <1>4 DEF IInv

\* Appending an entry at the head of the chain of its hash keeps every chain
\* whole.
LEMMA LinkedAppend ==
    ASSUME NEW n \in Nat, NEW hashes, NEW next, NEW head, Linked(n, hashes, next, head),
           NEW fp, NEW old \in 0..n,
           old = IF fp \in DOMAIN head THEN head[fp] ELSE 0,
           NEW hashes2, NEW next2, NEW head2,
           \A i \in 1..n : hashes2[i] = hashes[i] /\ next2[i] = next[i],
           hashes2[n + 1] = fp, next2[n + 1] = old,
           head2 = [h \in DOMAIN head \cup {fp} |-> IF h = fp THEN n + 1 ELSE head[h]]
    PROVE  Linked(n + 1, hashes2, next2, head2)
<1>1. \A i \in 1..(n + 1) : i \in 1..n \/ i = n + 1
  OBVIOUS
<1>2. \A h \in DOMAIN head2 :
        /\ head2[h] \in 1..(n + 1) /\ hashes2[head2[h]] = h
        /\ \A j \in 1..(n + 1) : j > head2[h] => hashes2[j] # h
  <2> SUFFICES ASSUME NEW h \in DOMAIN head2
               PROVE  /\ head2[h] \in 1..(n + 1) /\ hashes2[head2[h]] = h
                      /\ \A j \in 1..(n + 1) : j > head2[h] => hashes2[j] # h
    OBVIOUS
  <2>1. CASE h = fp
    BY <2>1
  <2>2. CASE h # fp
    <3>1. h \in DOMAIN head /\ head2[h] = head[h]
      BY <2>2
    <3>2. head[h] \in 1..n /\ hashes[head[h]] = h
      BY <3>1 DEF Linked
    <3>3. \A j \in 1..n : j > head[h] => hashes[j] # h
      BY <3>1 DEF Linked
    <3>4. QED BY <1>1, <2>2, <3>1, <3>2, <3>3
  <2>3. QED BY <2>1, <2>2
<1>3. \A i \in 1..(n + 1) :
        /\ hashes2[i] \in DOMAIN head2
        /\ next2[i] \in 0..(i - 1)
        /\ next2[i] # 0 => hashes2[next2[i]] = hashes2[i]
        /\ \A j \in 1..(n + 1) : next2[i] < j /\ j < i => hashes2[j] # hashes2[i]
  <2> SUFFICES ASSUME NEW i \in 1..(n + 1)
               PROVE  /\ hashes2[i] \in DOMAIN head2
                      /\ next2[i] \in 0..(i - 1)
                      /\ next2[i] # 0 => hashes2[next2[i]] = hashes2[i]
                      /\ \A j \in 1..(n + 1) :
                            next2[i] < j /\ j < i => hashes2[j] # hashes2[i]
    OBVIOUS
  <2>1. CASE i \in 1..n
    <3>1. /\ hashes[i] \in DOMAIN head /\ next[i] \in 0..(i - 1)
          /\ next[i] # 0 => hashes[next[i]] = hashes[i]
          /\ \A j \in 1..n : next[i] < j /\ j < i => hashes[j] # hashes[i]
      BY <2>1 DEF Linked
    <3>2. QED BY <2>1, <3>1
  <2>2. CASE i = n + 1
    <3>1. hashes2[i] = fp /\ next2[i] = old
      BY <2>2
    <3>2. old # 0 => hashes[old] = fp
      BY DEF Linked
    <3>3. \A j \in 1..n : j > old => hashes[j] # fp
      BY DEF Linked
    <3>4. \A j \in 1..(n + 1) : j < i => j \in 1..n
      BY <2>2
    <3>5. old # 0 => old \in 1..n
      OBVIOUS
    <3>6. QED BY <2>2, <3>1, <3>2, <3>3, <3>4, <3>5
  <2>3. QED BY <1>1, <2>1, <2>2
<1>4. QED BY <1>2, <1>3 DEF Linked

\* An append keeps every chain whole and adds no second copy of a definition:
\* the walk has seen all entries with the hash of the request.
LEMMA AppendNodeIInv == HashIsNat /\ IInv /\ AppendNode => IInv'
<1> SUFFICES ASSUME HashIsNat, IInv, AppendNode PROVE IInv'
  OBVIOUS
<1>2. PICK t \in Tables, def \in Defs, fp \in Nat, n \in Nat :
        request.table = t /\ request.def = def /\ request.fp = fp /\ n = Len(nodes[t])
  <2>1. request.table \in Tables /\ request.def \in Defs /\ request.fp \in Nat
    BY DEF IInv, TypeOK, Defs
  <2>2. QED BY <2>1, Columns DEF IInv
<1>1. /\ pc = "find" /\ cursor = 0
      /\ nodes' = [nodes EXCEPT ![t] = Append(@, def)]
      /\ fingerprints' = [fingerprints EXCEPT ![t] = Append(@, fp)]
      /\ semantic' = IF t = "type" THEN Append(semantic, Semantic(def)) ELSE semantic
      /\ hashNext' = [hashNext EXCEPT ![t] = Append(@, Bucket(t, fp))]
      /\ hashHead' = [hashHead EXCEPT ![t] =
              [h \in DOMAIN @ \cup {fp} |-> IF h = fp THEN n + 1 ELSE @[h]]]
      /\ result' = n + 1 /\ pc' = "idle" /\ request' = NoRequest /\ cursor' = cursor
  BY <1>2 DEF AppendNode, Link
<1>3. /\ nodes \in [Tables -> Seq(Defs)] /\ fingerprints \in [Tables -> Seq(Nat)]
      /\ hashNext \in [Tables -> Seq(Nat)] /\ DOMAIN hashHead = Tables
      /\ n \in Nat
  BY <1>2, Columns DEF IInv, TypeOK, Defs
<1>4. /\ Closed(def) /\ fp = Hash(Encode(def))
      /\ \A j \in DOMAIN nodes[t] : fingerprints[t][j] = fp => nodes[t][j] # def
  <2>1. \A j \in DOMAIN nodes[t] : j > 0
    BY <1>2, Columns DEF IInv
  <2>2. QED BY <1>1, <1>2, <2>1 DEF IInv, Searching
<1>5. Bucket(t, fp) \in 0..n
  BY <1>2, Columns DEF Bucket, IInv, Chained, Linked
<1>6. /\ nodes'[t] = Append(nodes[t], def) /\ fingerprints'[t] = Append(fingerprints[t], fp)
      /\ hashNext'[t] = Append(hashNext[t], Bucket(t, fp))
      /\ hashHead'[t] = [h \in DOMAIN hashHead[t] \cup {fp} |->
                            IF h = fp THEN n + 1 ELSE hashHead[t][h]]
      /\ \A u \in Tables \ {t} : /\ nodes'[u] = nodes[u] /\ fingerprints'[u] = fingerprints[u]
                                 /\ hashNext'[u] = hashNext[u] /\ hashHead'[u] = hashHead[u]
  BY <1>1, <1>2, <1>3
<1>7. /\ DOMAIN nodes'[t] = 1..(n + 1)
      /\ nodes'[t][n + 1] = def /\ fingerprints'[t][n + 1] = fp
      /\ hashNext'[t][n + 1] = Bucket(t, fp)
      /\ \A i \in 1..n : /\ nodes'[t][i] = nodes[t][i]
                         /\ fingerprints'[t][i] = fingerprints[t][i]
                         /\ hashNext'[t][i] = hashNext[t][i]
  BY <1>2, <1>3, <1>5, <1>6, Columns DEF IInv
<1>8. DOMAIN nodes[t] = 1..n
  BY <1>2, Columns DEF IInv
<1>9. TypeOK'
  <2>1. /\ nodes' \in [Tables -> Seq(Defs)] /\ fingerprints' \in [Tables -> Seq(Nat)]
        /\ hashNext' \in [Tables -> Seq(Nat)] /\ DOMAIN hashHead' = Tables
    BY <1>1, <1>2, <1>3, <1>5
  <2>2. \A u \in Tables : /\ Len(fingerprints'[u]) = Len(nodes'[u])
                          /\ Len(hashNext'[u]) = Len(nodes'[u])
    <3> SUFFICES ASSUME NEW u \in Tables
                 PROVE  /\ Len(fingerprints'[u]) = Len(nodes'[u])
                        /\ Len(hashNext'[u]) = Len(nodes'[u])
      OBVIOUS
    <3>1. /\ Len(fingerprints[u]) = Len(nodes[u]) /\ Len(hashNext[u]) = Len(nodes[u])
          /\ nodes[u] \in Seq(Defs) /\ fingerprints[u] \in Seq(Nat) /\ hashNext[u] \in Seq(Nat)
      BY <1>3 DEF IInv, TypeOK
    <3>2. CASE u = t
      BY <1>6, <3>1, <3>2
    <3>3. CASE u # t
      BY <1>6, <3>1, <3>3
    <3>4. QED BY <3>2, <3>3
  <2>3. Semantic(def) \in Nat
    <3>1. \A id : SemanticFingerprint(id) \in Nat
      BY DEF SemanticFingerprint, IInv, TypeOK
    <3>2. SemanticHash(def) \in Nat
      BY DEF SemanticHash, HashIsNat
    <3>3. QED BY <3>1, <3>2 DEF Semantic
  <2>4. semantic' \in Seq(Nat) /\ Len(semantic') = Len(nodes'["type"])
    <3>1. CASE t = "type"
      <4>1. semantic \in Seq(Nat) /\ Len(semantic) = Len(nodes["type"])
        BY DEF IInv, TypeOK
      <4>2. semantic' = Append(semantic, Semantic(def))
        BY <1>1, <3>1
      <4>3. nodes["type"] \in Seq(Defs) /\ nodes'["type"] = Append(nodes["type"], def)
        BY <1>3, <1>6, <3>1, NoRequestOK
      <4>4. QED BY <2>3, <4>1, <4>2, <4>3
    <3>2. CASE t # "type"
      BY <1>1, <1>6, <3>2, NoRequestOK DEF IInv, TypeOK
    <3>3. QED BY <3>1, <3>2
  <2>5. cursor' \in 0..Len(nodes'[request'.table]) /\ result' \in Nat
    <3>1. Len(nodes'["type"]) \in Nat
      BY <2>1, NoRequestOK
    <3>2. QED BY <1>1, <1>3, <3>1, NoRequestOK
  <2>6. QED BY <1>1, <2>1, <2>2, <2>4, <2>5, NoRequestOK DEF TypeOK, Defs
<1>10. \A d \in Defs : Closed(d) => Closed(d)' /\ Encode(d)' = Encode(d)
  <2> SUFFICES ASSUME NEW d \in Defs, Closed(d) PROVE Closed(d)' /\ Encode(d)' = Encode(d)
    OBVIOUS
  <2>1. TypeIds \subseteq TypeIds' /\ ConstraintIds \subseteq ConstraintIds'
    BY <1>6, <1>7, <1>8 DEF TypeIds, ConstraintIds, Tables
  <2>2. \A u \in Tables : \A i \in DOMAIN fingerprints[u] :
            i \in DOMAIN fingerprints'[u] /\ fingerprints'[u][i] = fingerprints[u][i]
    <3> SUFFICES ASSUME NEW u \in Tables, NEW i \in DOMAIN fingerprints[u]
                 PROVE  i \in DOMAIN fingerprints'[u] /\ fingerprints'[u][i] = fingerprints[u][i]
      OBVIOUS
    <3>1. CASE u = t
      <4>1. DOMAIN fingerprints[t] = 1..n
        BY <1>2, Columns DEF IInv
      <4>2. fingerprints[t] \in Seq(Nat)
        BY <1>2, <1>3
      <4>3. QED BY <1>6, <3>1, <4>1, <4>2
    <3>2. CASE u # t
      BY <1>6, <3>2
    <3>3. QED BY <3>1, <3>2
  <2>3. fingerprints' \in [Tables -> Seq(Nat)]
    BY <1>9 DEF TypeOK
  <2>4. Encode(d)' = Encode(d)
    BY <2>2, <2>3, EncodeStable DEF IInv
  <2>5. QED BY <2>1, <2>4 DEF Closed
<1>11. \A u \in Tables : Faithful(u)'
  <2> SUFFICES ASSUME NEW u \in Tables, NEW i \in DOMAIN nodes'[u]
               PROVE  (Closed(nodes[u][i]) /\ fingerprints[u][i] = Hash(Encode(nodes[u][i])))'
    BY DEF Faithful
  <2>1. PICK d \in Defs : /\ d = nodes'[u][i] /\ Closed(d)
                          /\ fingerprints'[u][i] = Hash(Encode(d))
    <3>1. CASE u = t /\ i = n + 1
      BY <1>4, <1>7, <3>1
    <3>2. CASE ~(u = t /\ i = n + 1)
      <4>1. i \in DOMAIN nodes[u]
        <5>1. CASE u = t
          BY <1>2, <1>7, <1>8, <3>2, <5>1
        <5>2. CASE u # t
          BY <1>6, <5>2
        <5>3. QED BY <5>1, <5>2
      <4>2. nodes'[u][i] = nodes[u][i] /\ fingerprints'[u][i] = fingerprints[u][i]
        BY <1>6, <1>7, <1>8, <4>1
      <4>3. nodes[u] \in Seq(Defs)
        BY <1>3
      <4>4. nodes[u][i] \in Defs
        BY <4>1, <4>3
      <4>5. Closed(nodes[u][i]) /\ fingerprints[u][i] = Hash(Encode(nodes[u][i]))
        BY <4>1 DEF IInv, Faithful
      <4>6. QED BY <4>2, <4>4, <4>5
    <3>3. QED BY <3>1, <3>2
  <2>2. Closed(d)' /\ Encode(d)' = Encode(d)
    BY <1>10, <2>1
  <2>3. QED BY <2>1, <2>2
<1>12. \A u \in Tables : Chained(u)'
  <2> SUFFICES ASSUME NEW u \in Tables PROVE Chained(u)'
    OBVIOUS
  <2>1. CASE u # t
    BY <1>6, <2>1 DEF IInv, Chained
  <2>2. CASE u = t
    <3>1. Linked(n, fingerprints[t], hashNext[t], hashHead[t])
      BY <1>2 DEF IInv, Chained
    <3>2. Linked(n + 1, fingerprints'[t], hashNext'[t], hashHead'[t])
      <4>1. Bucket(t, fp) = IF fp \in DOMAIN hashHead[t] THEN hashHead[t][fp] ELSE 0
        BY DEF Bucket
      <4>2. PICK old \in 0..n : old = Bucket(t, fp)
        BY <1>5
      <4>3. /\ old = (IF fp \in DOMAIN hashHead[t] THEN hashHead[t][fp] ELSE 0)
            /\ hashNext'[t][n + 1] = old /\ fingerprints'[t][n + 1] = fp
        BY <1>7, <4>1, <4>2
      <4>4. \A i \in 1..n : /\ fingerprints'[t][i] = fingerprints[t][i]
                            /\ hashNext'[t][i] = hashNext[t][i]
        BY <1>7
      <4>5. hashHead'[t] = [h \in DOMAIN hashHead[t] \cup {fp} |->
                                IF h = fp THEN n + 1 ELSE hashHead[t][h]]
        BY <1>6
      <4>6. PICK F, G, H, F2, G2, H2 :
                /\ F = fingerprints[t] /\ G = hashNext[t] /\ H = hashHead[t]
                /\ F2 = fingerprints'[t] /\ G2 = hashNext'[t] /\ H2 = hashHead'[t]
        OBVIOUS
      <4>7. Linked(n, F, G, H) /\ old = IF fp \in DOMAIN H THEN H[fp] ELSE 0
        BY <3>1, <4>3, <4>6
      <4>8. /\ \A i \in 1..n : F2[i] = F[i] /\ G2[i] = G[i]
            /\ F2[n + 1] = fp /\ G2[n + 1] = old
            /\ H2 = [h \in DOMAIN H \cup {fp} |-> IF h = fp THEN n + 1 ELSE H[h]]
        BY <4>3, <4>4, <4>5, <4>6
      <4>9. Linked(n + 1, F2, G2, H2)
        BY <4>7, <4>8, LinkedAppend
      <4>10. QED BY <4>6, <4>9
    <3>3. Len(nodes'[t]) = n + 1
      BY <1>2, <1>3, <1>6
    <3>4. QED BY <2>2, <3>2, <3>3 DEF Chained
  <2>3. QED BY <2>1, <2>2
<1>13. Canonical'
  <2>1. \A j \in 1..n : nodes[t][j] # def
    BY <1>2, <1>4, <1>8 DEF IInv, Faithful
  <2> SUFFICES ASSUME NEW u \in Tables, NEW i \in DOMAIN nodes'[u], NEW j \in DOMAIN nodes'[u],
                      nodes'[u][i] = nodes'[u][j]
               PROVE  i = j
    BY DEF Canonical
  <2>2. \A k, l \in DOMAIN nodes[u] : nodes[u][k] = nodes[u][l] => k = l
    BY DEF IInv, Canonical
  <2>3. CASE u # t
    BY <1>6, <2>2, <2>3
  <2>4. CASE u = t
    <3>1. \A k \in 1..(n + 1) : k \in 1..n \/ k = n + 1
      OBVIOUS
    <3>2. QED BY <1>7, <1>8, <2>1, <2>2, <2>4, <3>1
  <2>5. QED BY <2>3, <2>4
<1>14. Searching'
  BY <1>1 DEF Searching
<1>15. QED BY <1>9, <1>11, <1>12, <1>13, <1>14 DEF IInv

(***************************************************************************)
(* Every intern function asks for a definition that refers to what is in   *)
(* the tables, or returns what is in them.                                 *)
(***************************************************************************)
LEMMA DefOK ==
    ASSUME NEW kind \in Kinds, NEW labels \in Seq(Seq(Int)), NEW kids \in Seq(Nat),
           NEW c \in Nat, \A k \in DOMAIN kids : kids[k] \in TypeIds,
           c \in ConstraintIds \cup {0},
           kind = "Refined" => Len(kids) = 1 /\ Len(labels) = 1 /\ Len(labels[1]) = 2
    PROVE  Def(kind, labels, kids, c) \in Defs /\ Closed(Def(kind, labels, kids, c))
BY DEF Def, Defs, Closed

LEMMA IdsAreNats ==
    ASSUME IInv
    PROVE  /\ TypeIds \subseteq Nat /\ ConstraintIds \subseteq Nat
           /\ IsFiniteSet(TypeIds)
           /\ \A id \in TypeIds : nodes["type"][id] \in Defs /\ Closed(nodes["type"][id])
<1>1. "type" \in Tables /\ "constraint" \in Tables
  BY DEF Tables
<1>2. /\ TypeIds = 1..Len(nodes["type"]) /\ Len(nodes["type"]) \in Nat
      /\ ConstraintIds = 1..Len(nodes["constraint"]) /\ Len(nodes["constraint"]) \in Nat
  BY <1>1, Columns DEF IInv, TypeIds, ConstraintIds
<1>3. IsFiniteSet(TypeIds)
  BY <1>2, FS_Interval
<1>4. nodes["type"] \in Seq(Defs)
  BY <1>1 DEF IInv, TypeOK, Defs
<1>5. \A id \in TypeIds : nodes["type"][id] \in Defs
  BY <1>4 DEF TypeIds
<1>6. \A id \in TypeIds : Closed(nodes["type"][id])
  BY <1>1 DEF IInv, Faithful, TypeIds
<1>7. QED BY <1>2, <1>3, <1>5, <1>6

LEMMA SimpleIInv ==
    ASSUME HashIsNat, IInv, NEW i \in DOMAIN Builtins, Intern("type", Simple(Builtins[i]))
    PROVE  IInv'
<1>1. Builtins[i] \in SimpleKinds
  BY BuiltinsAssumption
<1>2. Builtins[i] \in Kinds /\ Builtins[i] # "Refined"
  BY <1>1 DEF Kinds, SimpleKinds
<1>3. <<>> \in Seq(Seq(Int)) /\ <<>> \in Seq(Nat) /\ DOMAIN <<>> = {}
  OBVIOUS
<1>4. Simple(Builtins[i]) \in Defs /\ Closed(Simple(Builtins[i]))
  BY <1>2, <1>3, DefOK DEF Simple
<1>5. QED BY <1>4, InternIInv, NoRequestOK

LEMMA BootIInv == HashIsNat /\ IInv /\ Boot => IInv'
<1> SUFFICES ASSUME HashIsNat, IInv, Boot PROVE IInv'
  OBVIOUS
<1>1. PICK i : i = Len(nodes["type"]) + 1
  OBVIOUS
<1>2. i \in DOMAIN Builtins
  BY <1>1, Columns, NoRequestOK, BuiltinsAssumption DEF Boot, Booted, IInv
<1>3. Intern("type", Simple(Builtins[i]))
  BY <1>1 DEF Boot
<1>4. QED BY <1>2, <1>3, SimpleIInv

LEMMA InternAtomIInv == HashIsNat /\ IInv /\ InternAtom => IInv'
<1> SUFFICES ASSUME HashIsNat, IInv, InternAtom PROVE IInv'
  OBVIOUS
<1>1. PICK atom \in Atoms : Intern("type", Def(atom[1], << <<atom[2]>> >>, <<>>, 0))
  BY DEF InternAtom
<1>2. atom[1] \in AtomKinds /\ atom[2] \in Int
  BY DataAssumption
<1>3. atom[1] \in Kinds /\ atom[1] # "Refined"
  BY <1>2 DEF Kinds, AtomKinds
<1>4. << <<atom[2]>> >> \in Seq(Seq(Int)) /\ <<>> \in Seq(Nat) /\ DOMAIN <<>> = {}
  BY <1>2
<1>5. PICK d : d = Def(atom[1], << <<atom[2]>> >>, <<>>, 0)
  OBVIOUS
<1>6. d \in Defs /\ Closed(d)
  BY <1>3, <1>4, <1>5, DefOK
<1>7. QED BY <1>1, <1>5, <1>6, InternIInv, NoRequestOK

LEMMA InternConstraintIInv == HashIsNat /\ IInv /\ InternConstraint => IInv'
<1> SUFFICES ASSUME HashIsNat, IInv, InternConstraint PROVE IInv'
  OBVIOUS
<1>1. "constraint" \in Tables /\ "Constraint" \in Kinds
  BY DEF Tables, Kinds
<1>2. <<>> \in Seq(Seq(Int)) /\ <<>> \in Seq(Nat) /\ DOMAIN <<>> = {}
  OBVIOUS
<1>3. CASE \E b \in Bounds : Intern("constraint", Def("Constraint", b, <<>>, 0))
  <2>1. PICK b \in Bounds : Intern("constraint", Def("Constraint", b, <<>>, 0))
    BY <1>3
  <2>2. b \in Seq(Seq(Int))
    BY DataAssumption
  <2>3. Def("Constraint", b, <<>>, 0) \in Defs /\ Closed(Def("Constraint", b, <<>>, 0))
    BY <1>1, <1>2, <2>2, DefOK
  <2>4. QED BY <1>1, <2>1, <2>3, InternIInv
<1>4. CASE \E enum \in BoundedSeq({id \in TypeIds : Kind(id) \in AtomKinds}, MaxWidth) :
              enum # <<>> /\ Intern("constraint", Def("Constraint", <<>>, enum, 0))
  <2>1. PICK enum \in BoundedSeq({id \in TypeIds : Kind(id) \in AtomKinds}, MaxWidth) :
              Intern("constraint", Def("Constraint", <<>>, enum, 0))
    BY <1>4
  <2>2. PICK m \in 0..MaxWidth : enum \in [1..m -> {id \in TypeIds : Kind(id) \in AtomKinds}]
    BY DEF BoundedSeq, SeqOf
  <2>3. enum \in Seq(Nat) /\ \A k \in DOMAIN enum : enum[k] \in TypeIds
    BY <2>2, IdsAreNats, BoundsAssumption
  <2>4. Def("Constraint", <<>>, enum, 0) \in Defs /\ Closed(Def("Constraint", <<>>, enum, 0))
    BY <1>1, <1>2, <2>3, DefOK
  <2>5. QED BY <1>1, <2>1, <2>4, InternIInv
<1>5. QED BY <1>3, <1>4 DEF InternConstraint

LEMMA InternListIInv == HashIsNat /\ IInv /\ InternList => IInv'
<1> SUFFICES ASSUME HashIsNat, IInv, InternList PROVE IInv'
  OBVIOUS
<1>1. PICK elem \in TypeIds : Intern("type", Def("List", <<>>, <<elem>>, 0))
  BY DEF InternList
<1>2. <<>> \in Seq(Seq(Int)) /\ <<elem>> \in Seq(Nat) /\ "List" \in Kinds
  BY IdsAreNats DEF Kinds
<1>3. \A k \in DOMAIN <<elem>> : <<elem>>[k] \in TypeIds
  OBVIOUS
<1>4. Def("List", <<>>, <<elem>>, 0) \in Defs /\ Closed(Def("List", <<>>, <<elem>>, 0))
  BY <1>2, <1>3, DefOK
<1>5. QED BY <1>1, <1>4, InternIInv, NoRequestOK

LEMMA InternTupleIInv == HashIsNat /\ IInv /\ InternTuple => IInv'
<1> SUFFICES ASSUME HashIsNat, IInv, InternTuple PROVE IInv'
  OBVIOUS
<1>1. PICK elems \in BoundedSeq(TypeIds, MaxWidth) :
        IF Uninhabited(elems)
        THEN \E id \in TypeIds : Kind(id) = "Never" /\ Return(id)
        ELSE Intern("type", Def("Tuple", <<>>, elems, 0))
  BY DEF InternTuple
<1>2. CASE \E id \in TypeIds : Return(id)
  BY <1>2, ReturnIInv
<1>3. CASE Intern("type", Def("Tuple", <<>>, elems, 0))
  <2>1. PICK m \in 0..MaxWidth : elems \in [1..m -> TypeIds]
    BY DEF BoundedSeq, SeqOf
  <2>2. elems \in Seq(Nat) /\ \A k \in DOMAIN elems : elems[k] \in TypeIds
    BY <2>1, IdsAreNats, BoundsAssumption
  <2>3. <<>> \in Seq(Seq(Int)) /\ "Tuple" \in Kinds
    BY DEF Kinds
  <2>4. Def("Tuple", <<>>, elems, 0) \in Defs /\ Closed(Def("Tuple", <<>>, elems, 0))
    BY <2>2, <2>3, DefOK
  <2>5. QED BY <1>3, <2>4, InternIInv, NoRequestOK
<1>4. QED BY <1>1, <1>2, <1>3

LEMMA InternObjectIInv == HashIsNat /\ IInv /\ InternObject => IInv'
<1> SUFFICES ASSUME HashIsNat, IInv, InternObject PROVE IInv'
  OBVIOUS
<1>1. PICK source \in BoundedSeq(Field, MaxWidth) : \E fields \in ByName(source) :
        Intern("type",
            Def("Object",
                [k \in DOMAIN fields |->
                    <<fields[k].name, fields[k].flags, fields[k].metadata>>],
                [k \in DOMAIN fields |-> fields[k].value], 0))
  BY DEF InternObject
<1>2. PICK fields \in ByName(source) :
        Intern("type",
            Def("Object",
                [k \in DOMAIN fields |->
                    <<fields[k].name, fields[k].flags, fields[k].metadata>>],
                [k \in DOMAIN fields |-> fields[k].value], 0))
  BY <1>1
<1>3. PICK m \in 0..MaxWidth : source \in [1..m -> Field]
  BY DEF BoundedSeq, SeqOf
<1>4. fields \in [1..m -> Field] /\ m \in Nat
  BY <1>3, BoundsAssumption DEF ByName
<1>5. PICK labels, kids :
        /\ labels = [k \in DOMAIN fields |->
                        <<fields[k].name, fields[k].flags, fields[k].metadata>>]
        /\ kids = [k \in DOMAIN fields |-> fields[k].value]
  OBVIOUS
<1>6. \A k \in 1..m : /\ fields[k].name \in Int /\ fields[k].flags \in Int
                      /\ fields[k].metadata \in Int /\ fields[k].value \in TypeIds
  <2> SUFFICES ASSUME NEW k \in 1..m
               PROVE  /\ fields[k].name \in Int /\ fields[k].flags \in Int
                      /\ fields[k].metadata \in Int /\ fields[k].value \in TypeIds
    OBVIOUS
  <2>1. fields[k] \in Field
    BY <1>4
  <2>2. fields[k].name \in FieldNames /\ fields[k].flags \in Flags
        /\ fields[k].metadata \in Metas \cup {0} /\ fields[k].value \in TypeIds
    BY <2>1 DEF Field
  <2>3. FieldNames \subseteq Int /\ Flags \subseteq Int /\ Metas \cup {0} \subseteq Int
    BY NamesAssumption
  <2>4. QED BY <2>2, <2>3
<1>7. labels \in Seq(Seq(Int))
  <2>1. \A k \in 1..m : <<fields[k].name, fields[k].flags, fields[k].metadata>> \in Seq(Int)
    BY <1>6
  <2>2. labels \in [1..m -> Seq(Int)]
    BY <1>4, <1>5, <2>1
  <2>3. QED BY <1>4, <2>2
<1>8. kids \in Seq(Nat) /\ \A k \in DOMAIN kids : kids[k] \in TypeIds
  BY <1>4, <1>5, <1>6, IdsAreNats
<1>9. Def("Object", labels, kids, 0) \in Defs /\ Closed(Def("Object", labels, kids, 0))
  <2>1. "Object" \in Kinds
    BY DEF Kinds
  <2>2. QED BY <1>7, <1>8, <2>1, DefOK
<1>10. QED BY <1>2, <1>5, <1>9, InternIInv, NoRequestOK

LEMMA RefinedNamedIInv ==
    ASSUME HashIsNat, IInv, NEW base \in TypeIds, NEW c \in ConstraintIds \cup {0},
           NEW m \in Int, NEW name \in Int, RefinedNamed(base, c, m, name)
    PROVE  IInv'
<1>1. CASE Vacuous(c, m, name)
  BY <1>1, ReturnIInv DEF RefinedNamed
<1>2. CASE ~Vacuous(c, m, name)
  <2>1. Intern("type", Def("Refined", << <<m, name>> >>, <<base>>, c))
    BY <1>2 DEF RefinedNamed
  <2>2. << <<m, name>> >> \in Seq(Seq(Int)) /\ <<base>> \in Seq(Nat) /\ c \in Nat
    BY IdsAreNats
  <2>3. "Refined" \in Kinds
    BY DEF Kinds
  <2>4. /\ \A k \in DOMAIN <<base>> : <<base>>[k] \in TypeIds
        /\ Len(<<base>>) = 1 /\ Len(<< <<m, name>> >>) = 1 /\ Len(<< <<m, name>> >>[1]) = 2
    OBVIOUS
  <2>5. PICK d : d = Def("Refined", << <<m, name>> >>, <<base>>, c)
    OBVIOUS
  <2>6. d \in Defs /\ Closed(d)
    BY <2>2, <2>3, <2>4, <2>5, DefOK
  <2>7. QED BY <2>1, <2>5, <2>6, InternIInv, NoRequestOK
<1>3. QED BY <1>1, <1>2

\* The base that schema() refines anew, of which a named type was stripped.
RefinesAnew(named) == IF Strips(named) THEN Kids(named)[1] ELSE named

LEMMA StrippedId ==
    ASSUME IInv, NEW named \in TypeIds PROVE RefinesAnew(named) \in TypeIds
<1>1. nodes["type"][named] \in Defs /\ Closed(nodes["type"][named])
  BY IdsAreNats
<1>2. CASE Strips(named)
  BY <1>1, <1>2 DEF Strips, RefinesAnew, Closed, Kind, Kids, Defs
<1>3. QED BY <1>2 DEF RefinesAnew

LEMMA InternRefinedIInv == HashIsNat /\ IInv /\ InternRefined => IInv'
<1> SUFFICES ASSUME HashIsNat, IInv, InternRefined PROVE IInv'
  OBVIOUS
<1>1. PICK named \in TypeIds, c \in ConstraintIds \cup {0},
           m \in Metas \cup {0}, name \in TypeNames \cup {0} :
                RefinedNamed(RefinesAnew(named), c, m, name)
  BY DEF InternRefined, RefinesAnew
<1>2. m \in Int /\ name \in Int
  BY NamesAssumption
<1>3. QED BY <1>1, <1>2, StrippedId, RefinedNamedIInv

LEMMA WithRefinedNameIInv == HashIsNat /\ IInv /\ WithRefinedName => IInv'
<1> SUFFICES ASSUME HashIsNat, IInv, WithRefinedName PROVE IInv'
  OBVIOUS
<1>1. PICK id \in TypeIds, name \in TypeNames :
        IF Kind(id) = "Refined"
        THEN RefinedNamed(Kids(id)[1], nodes["type"][id].constraint,
                          nodes["type"][id].labels[1][1], name)
        ELSE RefinedNamed(id, 0, 0, name)
  BY DEF WithRefinedName
<1>2. name \in Int
  BY NamesAssumption
<1>3. CASE Kind(id) # "Refined"
  BY <1>1, <1>2, <1>3, RefinedNamedIInv
<1>4. CASE Kind(id) = "Refined"
  <2>1. PICK base, c, m : /\ base = Kids(id)[1] /\ c = nodes["type"][id].constraint
                          /\ m = nodes["type"][id].labels[1][1]
    OBVIOUS
  <2>2. nodes["type"][id] \in Defs /\ Closed(nodes["type"][id])
    BY IdsAreNats
  <2>3. base \in TypeIds /\ c \in ConstraintIds \cup {0}
    BY <1>4, <2>1, <2>2 DEF Closed, Kind, Kids, Defs
  <2>4. m \in Int
    <3>1. PICK labels \in Seq(Seq(Int)) : labels = nodes["type"][id].labels
      BY <2>2 DEF Defs
    <3>2. Len(labels) = 1 /\ Len(labels[1]) = 2
      BY <1>4, <2>2, <3>1 DEF Closed, Kind
    <3>3. labels[1] \in Seq(Int)
      <4>1. 1 \in DOMAIN labels
        BY <3>2
      <4>2. QED BY <4>1
    <3>4. labels[1][1] \in Int
      BY <3>2, <3>3
    <3>5. QED BY <2>1, <3>1, <3>4
  <2>5. QED BY <1>1, <1>2, <1>4, <2>1, <2>3, <2>4, RefinedNamedIInv
<1>5. QED BY <1>3, <1>4

LEMMA InternSumIInv == HashIsNat /\ IInv /\ InternSum => IInv'
<1> SUFFICES ASSUME HashIsNat, IInv, InternSum PROVE IInv'
  OBVIOUS
<1>1. \/ \E id \in TypeIds : Return(id)
      \/ \E keep \in UNION {Kept(flat) : flat \in Flats} :
            IF Cardinality(keep) = 1
            THEN \E id \in keep : Return(id)
            ELSE \E ids \in InIdOrder(keep) : Intern("type", Def("Sum", <<>>, ids, 0))
  BY DEF InternSum
<1>2. CASE \E id \in TypeIds : Return(id)
  BY <1>2, ReturnIInv
<1>3. ASSUME NEW keep \in UNION {Kept(flat) : flat \in Flats},
             IF Cardinality(keep) = 1
             THEN \E id \in keep : Return(id)
             ELSE \E ids \in InIdOrder(keep) : Intern("type", Def("Sum", <<>>, ids, 0))
      PROVE  IInv'
  <2>1. \A id \in TypeIds : SumMembers(id) \subseteq TypeIds
    BY IdsAreNats DEF SumMembers, Kids, Closed
  <2>2. \A S \in SUBSET TypeIds : FoldBools(S) \subseteq TypeIds
    BY DEF FoldBools
  <2>3. keep \subseteq TypeIds
    <3>1. PICK flat \in Flats : keep \in Kept(flat)
      OBVIOUS
    <3>2. flat \subseteq TypeIds
      <4>1. PICK left \in TypeIds, right \in TypeIds :
              flat = FoldBools(SumMembers(left) \cup SumMembers(right))
        BY DEF Flats
      <4>2. QED BY <2>1, <2>2, <4>1
    <3>3. QED BY <3>1, <3>2 DEF Kept
  <2>4. Cardinality(keep) \in Nat
    BY <2>3, IdsAreNats, FS_Subset, FS_CardinalityType
  <2>5. CASE \E id \in keep : Return(id)
    BY <2>3, <2>5, ReturnIInv
  <2>6. CASE \E ids \in InIdOrder(keep) : Intern("type", Def("Sum", <<>>, ids, 0))
    <3>1. PICK ids \in InIdOrder(keep) : Intern("type", Def("Sum", <<>>, ids, 0))
      BY <2>6
    <3>2. ids \in [1..Cardinality(keep) -> keep]
      BY DEF InIdOrder
    <3>3. ids \in Seq(Nat) /\ \A k \in DOMAIN ids : ids[k] \in TypeIds
      BY <2>3, <2>4, <3>2, IdsAreNats
    <3>4. <<>> \in Seq(Seq(Int)) /\ "Sum" \in Kinds
      BY DEF Kinds
    <3>5. Def("Sum", <<>>, ids, 0) \in Defs /\ Closed(Def("Sum", <<>>, ids, 0))
      BY <3>3, <3>4, DefOK
    <3>6. QED BY <3>1, <3>5, InternIInv, NoRequestOK
  <2>7. QED BY <1>3, <2>5, <2>6
<1>4. QED BY <1>1, <1>2, <1>3

LEMMA NextIInv == HashIsNat /\ IInv /\ [Next]_vars => IInv'
<1> SUFFICES ASSUME HashIsNat, IInv, [Next]_vars PROVE IInv'
  OBVIOUS
<1>1. CASE UNCHANGED vars
  <2>1. UNCHANGED tables
    BY <1>1 DEF vars, tables
  <2>2. TypeOK'
    BY <1>1 DEF vars, IInv, TypeOK
  <2>3. Canonical' /\ \A u \in Tables : (Faithful(u) /\ Chained(u))'
    BY <2>1, TablesUnchanged
  <2>4. Searching'
    <3>1. PICK d \in Defs : d = request.def
      BY DEF IInv, TypeOK, Defs
    <3>2. d = request'.def
      BY <1>1, <3>1 DEF vars
    <3>3. Closed(d) => Closed(d)' /\ Encode(d)' = Encode(d)
      BY <2>1, TablesUnchanged
    <3>4. pc = "find" => Closed(request.def)' /\ Encode(request.def)' = Encode(request.def)
      BY <3>1, <3>2, <3>3 DEF IInv, Searching
    <3>5. QED BY <1>1, <3>4 DEF vars, IInv, Searching
  <2>5. QED BY <2>2, <2>3, <2>4 DEF IInv
<1>2. CASE InternSimple
  BY <1>2, SimpleIInv DEF InternSimple
<1>3. CASE Next
  BY <1>2, <1>3, FindNextIInv, FindHitIInv, AppendNodeIInv, BootIInv, InternAtomIInv,
     InternConstraintIInv, InternListIInv, InternTupleIInv, InternObjectIInv,
     InternSumIInv, InternRefinedIInv, WithRefinedNameIInv DEF Next
<1>4. QED BY <1>1, <1>3

(***************************************************************************)
(* The theorems.                                                           *)
(***************************************************************************)

\* Every chain is whole, every stored fingerprint is the hash of its
\* definition and no definition is stored twice, in every reachable state,
\* whatever the hash.
THEOREM ArenaInvariant == ASSUME HashIsNat PROVE Spec => []IInv
<1>1. Init => IInv
  BY InitIInv
<1>2. IInv /\ [Next]_vars => IInv'
  BY NextIInv
<1>3. QED BY <1>1, <1>2, PTL DEF Spec

\* Equal definitions in one arena have equal ids.
THEOREM DefinitionEqualityIsIdEquality == ASSUME HashIsNat PROVE Spec => []Canonical
<1>1. IInv => Canonical
  BY DEF IInv
<1>2. QED BY <1>1, ArenaInvariant, PTL

\* The columns of the tables stay equally long and well typed.
THEOREM ArenaTypes == ASSUME HashIsNat PROVE Spec => []TypeOK
<1>1. IInv => TypeOK
  BY DEF IInv
<1>2. QED BY <1>1, ArenaInvariant, PTL

\* A caller is given the definition it asked for, whatever the hash: neither a
\* hit in the middle of a mixed chain nor an append returns another one.
THEOREM NoDefinitionAliasing == ASSUME HashIsNat PROVE Spec => NoAlias
<1>1. ASSUME IInv, [Next]_vars, pc = "find", pc' = "idle", ~UNCHANGED vars
      PROVE  nodes'[request.table][result'] = request.def
  <2>1. FindHit \/ AppendNode
    <3>1. ~FindNext
      BY <1>1 DEF FindNext
    <3>2. \A t, d : ~Intern(t, d)
      BY <1>1 DEF Intern
    <3>3. \A id : ~Return(id)
      BY <1>1 DEF Return
    <3>4. ~Boot /\ ~Ready
      BY <1>1 DEF Boot, Ready
    <3>5. QED BY <1>1, <3>1, <3>4 DEF Next, InternSimple, InternAtom, InternConstraint,
              InternList, InternTuple, InternObject, InternSum, InternRefined, WithRefinedName
  <2>2. CASE FindHit
    BY <2>2 DEF FindHit, Equal, tables
  <2>3. CASE AppendNode
    <3>1. PICK t \in Tables, def \in Defs : request.table = t /\ request.def = def
      BY <1>1 DEF IInv, TypeOK, Defs
    <3>2. nodes' = [nodes EXCEPT ![t] = Append(@, def)] /\ result' = Len(nodes[t]) + 1
      BY <2>3, <3>1 DEF AppendNode
    <3>3. nodes \in [Tables -> Seq(Defs)]
      BY <1>1 DEF IInv, TypeOK, Defs
    <3>4. nodes'[t] = Append(nodes[t], def) /\ nodes[t] \in Seq(Defs)
      BY <3>1, <3>2, <3>3
    <3>5. QED BY <3>1, <3>2, <3>4
  <2>4. QED BY <2>1, <2>2, <2>3
<1>2. IInv /\ [Next]_vars => [pc = "find" /\ pc' = "idle" =>
                                nodes'[request.table][result'] = request.def]_vars
  BY <1>1
<1>3. QED BY <1>2, ArenaInvariant, PTL DEF Spec, NoAlias

(***************************************************************************)
(* What definitions unfold to.                                             *)
(***************************************************************************)
N == Len(nodes["type"])

(***************************************************************************)
(* The inductive invariant.                                                *)
(***************************************************************************)

\* What the intern functions ask for: fields in name order and members in id
\* order, and nothing in a definition that its kind has no use for.
Shaped(t, def) ==
    /\ t = "constraint" => def.kind = "Constraint" /\ (def.labels # <<>> \/ def.kids # <<>>)
    /\ def.kind # "Refined" => def.constraint = 0
    /\ def.kind = "Sum" =>
            /\ def.labels = <<>>
            /\ \A k, l \in DOMAIN def.kids : k < l => def.kids[k] < def.kids[l]
    /\ def.kind = "Object" =>
            /\ DOMAIN def.labels = DOMAIN def.kids
            /\ \A k \in DOMAIN def.kids : Len(def.labels[k]) = 3
            /\ \A k, l \in DOMAIN def.kids : k < l => def.labels[k][1] < def.labels[l][1]

\* The types a definition refers to, in its constraint too.
Refers(def) ==
    {def.kids[k] : k \in DOMAIN def.kids} \cup
    IF def.constraint = 0 THEN {}
    ELSE {nodes["constraint"][def.constraint].kids[k] :
            k \in DOMAIN nodes["constraint"][def.constraint].kids}

\* A definition only refers to older ones.
Layered == \A id \in TypeIds : \A r \in Refers(nodes["type"][id]) : r \in 1..(id - 1)

SInv ==
    /\ IInv
    /\ \A t \in Tables : \A i \in DOMAIN nodes[t] : Shaped(t, nodes[t][i])
    /\ pc = "find" => Shaped(request.table, request.def)
    /\ Layered

(***************************************************************************)
(* Recursion over the entries of the arena.                                *)
(***************************************************************************)

KindOf(f, id) == IF Kind(id) = "Refined" THEN f[Kids(id)[1]] ELSE Kind(id)

LEMMA TypeIdsAre ==
    ASSUME IInv
    PROVE  /\ TypeIds = 1..N /\ N \in Nat
           /\ ConstraintIds = 1..Len(nodes["constraint"]) /\ Len(nodes["constraint"]) \in Nat
           /\ \A id \in TypeIds : nodes["type"][id] \in Defs /\ Closed(nodes["type"][id])
           /\ \A c \in ConstraintIds :
                nodes["constraint"][c] \in Defs /\ Closed(nodes["constraint"][c])
<1>1. "type" \in Tables /\ "constraint" \in Tables /\ TypeOK
  BY DEF Tables, IInv
<1>2. /\ TypeIds = 1..N /\ N \in Nat
      /\ ConstraintIds = 1..Len(nodes["constraint"]) /\ Len(nodes["constraint"]) \in Nat
  BY <1>1, Columns DEF TypeIds, ConstraintIds, N
<1>3. \A id \in TypeIds : nodes["type"][id] \in Defs /\ Closed(nodes["type"][id])
  BY IdsAreNats
<1>4. ConstraintIds = DOMAIN nodes["constraint"]
  BY DEF ConstraintIds
<1>5. nodes["constraint"] \in Seq(Defs)
  BY <1>1 DEF TypeOK, Defs
<1>6. \A c \in ConstraintIds : nodes["constraint"][c] \in Defs
  BY <1>4, <1>5
<1>7. \A c \in ConstraintIds : Closed(nodes["constraint"][c])
  BY <1>1, <1>4 DEF IInv, Faithful
<1>8. QED BY <1>2, <1>3, <1>6, <1>7

LEMMA BaseKindIs ==
    ASSUME SInv
    PROVE  \A id \in TypeIds : BaseKind[id] = KindOf(BaseKind, id)
<1> DEFINE Kinded(f, n) == f = [id \in 1..n |-> KindOf(f, id)]
           S == {n \in Nat : n <= N => \E f : Kinded(f, n)}
<1>1. 0 \in S
  <2>1. Kinded([id \in 1..0 |-> 0], 0)
    OBVIOUS
  <2>2. QED BY <2>1
<1>2. ASSUME NEW n \in Nat, n \in S PROVE n + 1 \in S
  <2> SUFFICES ASSUME n + 1 <= N PROVE \E f : Kinded(f, n + 1)
    OBVIOUS
  <2>1. PICK f : Kinded(f, n)
    BY <1>2, TypeIdsAre DEF SInv
  <2> DEFINE g == [id \in 1..(n + 1) |-> IF id <= n THEN f[id] ELSE KindOf(f, id)]
  <2>2. \A id \in 1..(n + 1) : Kind(id) = "Refined" => Kids(id)[1] \in 1..n
    <3> SUFFICES ASSUME NEW id \in 1..(n + 1), Kind(id) = "Refined" PROVE Kids(id)[1] \in 1..n
      OBVIOUS
    <3>1. id \in TypeIds
      BY TypeIdsAre DEF SInv
    <3>2. 1 \in DOMAIN Kids(id)
      BY <3>1, TypeIdsAre DEF SInv, Closed, Kind, Kids, Defs
    <3>3. Kids(id)[1] \in 1..(id - 1)
      BY <3>1, <3>2 DEF SInv, Layered, Refers, Kids
    <3>4. QED BY <3>3
  <2>3. \A id \in 1..(n + 1) : KindOf(g, id) = KindOf(f, id)
    BY <2>2 DEF KindOf
  <2>4. Kinded(g, n + 1)
    BY <2>1, <2>3
  <2>5. QED BY <2>4
<1>3. \A n \in Nat : n \in S
  <2> HIDE DEF S
  <2>1. QED BY <1>1, <1>2, SetInduction
<1>4. \E f : f = [id \in TypeIds |-> KindOf(f, id)]
  BY <1>3, TypeIdsAre DEF SInv
<1>5. BaseKind = [id \in TypeIds |-> KindOf(BaseKind, id)]
  BY <1>4 DEF BaseKind, KindOf
<1>6. QED BY <1>5

\* The bodies of Struct and of Erased, of any function for the parts.
Con(def) == IF def.constraint = 0 THEN Simple("None") ELSE nodes["constraint"][def.constraint]
Mapped(f, kids) == [k \in DOMAIN kids |-> f[kids[k]]]

Assembled(def, parts, con, enum) ==
    CASE def.kind = "Object" -> <<"Object", {<<def.labels[k], parts[k]>> : k \in DOMAIN def.kids}>>
      [] def.kind = "Sum" -> <<"Sum", {parts[k] : k \in DOMAIN def.kids}>>
      [] def.kind = "Refined" -> <<"Refined", def.labels, parts, con.labels, enum>>
      [] OTHER -> <<def.kind, def.labels, parts>>

StructOf(f, id) ==
    Assembled(nodes["type"][id], Mapped(f, nodes["type"][id].kids),
              Con(nodes["type"][id]), Mapped(f, Con(nodes["type"][id]).kids))

LEMMA StructIs ==
    ASSUME SInv
    PROVE  \A id \in TypeIds : Struct[id] = StructOf(Struct, id)
<1> DEFINE Unfolds(f, n) == f = [id \in 1..n |-> StructOf(f, id)]
           S == {n \in Nat : n <= N => \E f : Unfolds(f, n)}
<1>1. 0 \in S
  <2>1. Unfolds([id \in 1..0 |-> 0], 0)
    OBVIOUS
  <2>2. QED BY <2>1
<1>2. ASSUME NEW n \in Nat, n \in S PROVE n + 1 \in S
  <2> SUFFICES ASSUME n + 1 <= N PROVE \E f : Unfolds(f, n + 1)
    OBVIOUS
  <2>1. PICK f : Unfolds(f, n)
    BY <1>2, TypeIdsAre DEF SInv
  <2> DEFINE g == [id \in 1..(n + 1) |-> IF id <= n THEN f[id] ELSE StructOf(f, id)]
  <2>2. ASSUME NEW id \in 1..(n + 1) PROVE StructOf(g, id) = StructOf(f, id)
    <3> DEFINE def == nodes["type"][id]
               con == Con(def)
    <3>1. id \in TypeIds
      BY TypeIdsAre DEF SInv
    <3>2. \A r \in Refers(def) : r \in 1..n
      BY <3>1 DEF SInv, Layered
    <3>3. \A k \in DOMAIN def.kids : g[def.kids[k]] = f[def.kids[k]]
      BY <3>2 DEF Refers
    <3>4. \A k \in DOMAIN con.kids : g[con.kids[k]] = f[con.kids[k]]
      <4>1. CASE def.constraint = 0
        BY <4>1 DEF Con, Simple, Def
      <4>2. CASE def.constraint # 0
        <5>1. con = nodes["constraint"][def.constraint]
          BY <4>2 DEF Con
        <5>2. \A k \in DOMAIN con.kids : con.kids[k] \in Refers(def)
          BY <4>2, <5>1 DEF Refers
        <5>3. \A k \in DOMAIN con.kids : con.kids[k] \in 1..n
          BY <3>2, <5>2
        <5>4. QED BY <5>3
      <4>3. QED BY <4>1, <4>2
    <3>5. Mapped(g, def.kids) = Mapped(f, def.kids)
      <4>1. [k \in DOMAIN def.kids |-> g[def.kids[k]]] = [k \in DOMAIN def.kids |-> f[def.kids[k]]]
        BY <3>3, Zenon
      <4>2. QED BY <4>1, Zenon DEF Mapped
    <3>7. Mapped(g, con.kids) = Mapped(f, con.kids)
      <4>1. [k \in DOMAIN con.kids |-> g[con.kids[k]]] = [k \in DOMAIN con.kids |-> f[con.kids[k]]]
        BY <3>4, Zenon
      <4>2. QED BY <4>1, Zenon DEF Mapped
    <3> HIDE DEF g
    <3>8. QED BY <3>5, <3>7, Zenon DEF StructOf
  <2>3. Unfolds(g, n + 1)
    <3> SUFFICES ASSUME NEW id \in 1..(n + 1) PROVE g[id] = StructOf(g, id)
      OBVIOUS
    <3>1. id <= n => g[id] = f[id] /\ f[id] = StructOf(f, id)
      BY <2>1
    <3>2. ~(id <= n) => g[id] = StructOf(f, id)
      OBVIOUS
    <3> HIDE DEF g
    <3>3. QED BY <2>2, <3>1, <3>2
  <2>4. QED BY <2>3
<1>3. \A n \in Nat : n \in S
  <2> HIDE DEF S
  <2>1. QED BY <1>1, <1>2, SetInduction
<1>4. \E f : f = [id \in TypeIds |-> StructOf(f, id)]
  BY <1>3, TypeIdsAre DEF SInv
<1>5. Struct = [id \in TypeIds |-> StructOf(Struct, id)]
  BY <1>4, Zenon DEF Struct, StructOf, Assembled, Mapped, Con
<1>6. QED BY <1>5

(***************************************************************************)
(* What the intern functions ask for.                                      *)
(***************************************************************************)

\* No position of a tuple is filled by a refined never.
Inhabited(def) ==
    def.kind = "Tuple" => \A k \in DOMAIN def.kids : BaseKind[def.kids[k]] # "Never"

\* Constraints list atoms, and atoms have no parts.
Atomic(t, def) ==
    /\ t = "constraint" => \A k \in DOMAIN def.kids : Kind(def.kids[k]) \in AtomKinds
    /\ def.kind \in AtomKinds => def.kids = <<>>

\* The members of a sum mean different things, but for those with labelled
\* ends.
Apart(def) ==
    def.kind = "Sum" =>
        \A k, l \in DOMAIN def.kids :
            \/ Erased[def.kids[k]] = Erased[def.kids[l]] => k = l
            \/ def.kids[k] \in EndsLabelled \/ def.kids[l] \in EndsLabelled

Legal(t, def) == Inhabited(def) /\ Atomic(t, def) /\ Apart(def)

Asked == \E t \in Tables : \E def : Intern(t, def) /\ Shaped(t, def) /\ Legal(t, def)
Answered == \E id \in TypeIds : Return(id)

LEMMA AskedOf ==
    ASSUME NEW kind, NEW labels, NEW kids, NEW c,
           kind \notin {"Sum", "Object", "Tuple"}, kind # "Refined" => c = 0,
           kind \in AtomKinds => kids = <<>>,
           Intern("type", Def(kind, labels, kids, c))
    PROVE  Asked
<1>1. Shaped("type", Def(kind, labels, kids, c)) /\ Legal("type", Def(kind, labels, kids, c))
  BY DEF Shaped, Legal, Inhabited, Atomic, Apart, AtomKinds, Def
<1>2. "type" \in Tables
  BY DEF Tables
<1>3. QED BY <1>1, <1>2 DEF Asked

LEMMA AskedSimple ==
    ASSUME NEW i \in DOMAIN Builtins, Intern("type", Simple(Builtins[i])) PROVE Asked
<1>1. Builtins[i] \in SimpleKinds
  BY BuiltinsAssumption
<1>2. Builtins[i] \notin {"Sum", "Object", "Tuple", "Refined"}
  BY <1>1 DEF SimpleKinds
<1>3. QED BY <1>2, AskedOf DEF Simple

LEMMA AskedAtom == InternAtom => Asked
<1> SUFFICES ASSUME InternAtom PROVE Asked
  OBVIOUS
<1>1. PICK atom \in Atoms : Intern("type", Def(atom[1], << <<atom[2]>> >>, <<>>, 0))
  BY DEF InternAtom
<1>2. atom[1] \in AtomKinds
  BY <1>1, DataAssumption
<1>3. atom[1] \notin {"Sum", "Object", "Tuple", "Refined"}
  BY <1>2 DEF AtomKinds
<1>4. PICK labels : labels = << <<atom[2]>> >>
  OBVIOUS
<1>5. QED BY <1>1, <1>3, <1>4, AskedOf

LEMMA AskedConstraint == InternConstraint => Asked
<1> SUFFICES ASSUME InternConstraint PROVE Asked
  OBVIOUS
<1>1. ASSUME NEW labels, NEW kids, labels # <<>> \/ kids # <<>>,
             \A k \in DOMAIN kids : Kind(kids[k]) \in AtomKinds,
             Intern("constraint", Def("Constraint", labels, kids, 0))
      PROVE  Asked
  <2>1. Shaped("constraint", Def("Constraint", labels, kids, 0))
        /\ Legal("constraint", Def("Constraint", labels, kids, 0))
    BY <1>1 DEF Shaped, Legal, Inhabited, Atomic, Apart, AtomKinds, Def
  <2>2. "constraint" \in Tables
    BY DEF Tables
  <2>3. QED BY <1>1, <2>1, <2>2 DEF Asked
<1>2. CASE \E b \in Bounds : Intern("constraint", Def("Constraint", b, <<>>, 0))
  <2>1. PICK b \in Bounds : Intern("constraint", Def("Constraint", b, <<>>, 0))
    BY <1>2
  <2>2. b # <<>> /\ DOMAIN <<>> = {}
    BY DataAssumption
  <2>3. QED BY <1>1, <2>1, <2>2
<1>3. CASE \E enum \in BoundedSeq({id \in TypeIds : Kind(id) \in AtomKinds}, MaxWidth) :
              enum # <<>> /\ Intern("constraint", Def("Constraint", <<>>, enum, 0))
  <2> DEFINE atoms == {id \in TypeIds : Kind(id) \in AtomKinds}
  <2>1. PICK enum \in BoundedSeq(atoms, MaxWidth) :
            enum # <<>> /\ Intern("constraint", Def("Constraint", <<>>, enum, 0))
    BY <1>3
  <2>2. \E n \in 0..MaxWidth : enum \in [1..n -> atoms]
    BY <2>1, BoundsAssumption DEF BoundedSeq, SeqOf
  <2>3. \A k \in DOMAIN enum : Kind(enum[k]) \in AtomKinds
    BY <2>2
  <2>4. QED BY <1>1, <2>1, <2>3
<1>4. QED BY <1>2, <1>3 DEF InternConstraint

LEMMA AskedList == InternList => Asked
<1> SUFFICES ASSUME InternList PROVE Asked
  OBVIOUS
<1>1. PICK elem \in TypeIds : Intern("type", Def("List", <<>>, <<elem>>, 0))
  BY DEF InternList
<1>2. QED BY <1>1, AskedOf DEF AtomKinds

LEMMA AskedTuple == InternTuple => Asked \/ Answered
<1> SUFFICES ASSUME InternTuple PROVE Asked \/ Answered
  OBVIOUS
<1>1. PICK elems \in BoundedSeq(TypeIds, MaxWidth) :
        IF Uninhabited(elems)
        THEN \E id \in TypeIds : Kind(id) = "Never" /\ Return(id)
        ELSE Intern("type", Def("Tuple", <<>>, elems, 0))
  BY DEF InternTuple
<1>2. CASE Uninhabited(elems)
  BY <1>1, <1>2 DEF Answered
<1>3. CASE ~Uninhabited(elems)
  <2>1. Shaped("type", Def("Tuple", <<>>, elems, 0)) /\ Legal("type", Def("Tuple", <<>>, elems, 0))
    BY <1>3 DEF Shaped, Legal, Inhabited, Atomic, Apart, AtomKinds, Uninhabited, Def
  <2>2. QED BY <1>1, <1>3, <2>1, NoRequestOK DEF Asked
<1>4. QED BY <1>2, <1>3

LEMMA AskedObject == InternObject => Asked
<1> SUFFICES ASSUME InternObject PROVE Asked
  OBVIOUS
<1>1. PICK source \in BoundedSeq(Field, MaxWidth) : \E fields \in ByName(source) :
        Intern("type",
            Def("Object",
                [k \in DOMAIN fields |->
                    <<fields[k].name, fields[k].flags, fields[k].metadata>>],
                [k \in DOMAIN fields |-> fields[k].value], 0))
  BY DEF InternObject
<1>2. PICK fields \in ByName(source) :
        Intern("type",
            Def("Object",
                [k \in DOMAIN fields |->
                    <<fields[k].name, fields[k].flags, fields[k].metadata>>],
                [k \in DOMAIN fields |-> fields[k].value], 0))
  BY <1>1
<1>3. \A k, l \in DOMAIN fields : k < l => fields[k].name < fields[l].name
  BY DEF ByName
<1>4. PICK labels, kids :
        /\ labels = [k \in DOMAIN fields |->
                        <<fields[k].name, fields[k].flags, fields[k].metadata>>]
        /\ kids = [k \in DOMAIN fields |-> fields[k].value]
  OBVIOUS
<1>5. /\ DOMAIN labels = DOMAIN kids
      /\ \A k \in DOMAIN kids : Len(labels[k]) = 3 /\ labels[k][1] = fields[k].name
      /\ DOMAIN kids = DOMAIN fields
  BY <1>4
<1>6. Shaped("type", Def("Object", labels, kids, 0)) /\ Legal("type", Def("Object", labels, kids, 0))
  BY <1>3, <1>5 DEF Shaped, Legal, Inhabited, Atomic, Apart, AtomKinds, Def
<1>7. Intern("type", Def("Object", labels, kids, 0))
  BY <1>2, <1>4
<1>8. QED BY <1>6, <1>7, NoRequestOK DEF Asked

LEMMA AskedRefined ==
    ASSUME NEW base \in TypeIds, NEW c, NEW m, NEW name, RefinedNamed(base, c, m, name)
    PROVE  Asked \/ Answered
<1>1. CASE Vacuous(c, m, name)
  BY <1>1 DEF RefinedNamed, Answered
<1>2. CASE ~Vacuous(c, m, name)
  <2>1. Intern("type", Def("Refined", << <<m, name>> >>, <<base>>, c))
    BY <1>2 DEF RefinedNamed
  <2>2. PICK labels, kids : labels = << <<m, name>> >> /\ kids = <<base>>
    OBVIOUS
  <2>3. QED BY <2>1, <2>2, AskedOf DEF AtomKinds
<1>3. QED BY <1>1, <1>2

\* What a sum keeps are types of the arena.
LEMMA KeptIds ==
    ASSUME IInv, NEW keep \in UNION {Kept(flat) : flat \in Flats}
    PROVE  keep \subseteq TypeIds /\ keep \subseteq Nat /\ Cardinality(keep) \in Nat
<1>1. \A id \in TypeIds : SumMembers(id) \subseteq TypeIds
  BY IdsAreNats DEF SumMembers, Kids, Closed
<1>2. \A S \in SUBSET TypeIds : FoldBools(S) \subseteq TypeIds
  BY DEF FoldBools
<1>3. PICK left \in TypeIds, right \in TypeIds :
        keep \in Kept(FoldBools(SumMembers(left) \cup SumMembers(right)))
  BY DEF Flats
<1>4. keep \subseteq TypeIds
  BY <1>1, <1>2, <1>3 DEF Kept
<1>5. QED BY <1>4, IdsAreNats, FS_Subset, FS_CardinalityType

LEMMA AskedSum == IInv /\ InternSum => Asked \/ Answered
<1> SUFFICES ASSUME IInv, InternSum, \A id \in TypeIds : ~Return(id) PROVE Asked
  BY DEF Answered
<1>1. PICK keep \in UNION {Kept(flat) : flat \in Flats} :
        \E ids \in InIdOrder(keep) : Intern("type", Def("Sum", <<>>, ids, 0))
  BY KeptIds DEF InternSum
<1>2. PICK ids \in InIdOrder(keep) : Intern("type", Def("Sum", <<>>, ids, 0))
  BY <1>1
<1>3. \A k, l \in DOMAIN ids : k < l => ids[k] < ids[l]
  BY DEF InIdOrder
<1>6. ASSUME NEW k \in DOMAIN ids, NEW l \in DOMAIN ids, Erased[ids[k]] = Erased[ids[l]],
             ids[k] \notin EndsLabelled, ids[l] \notin EndsLabelled
      PROVE  k = l
  <2>1. \A i, j \in keep \ EndsLabelled : Erased[i] = Erased[j] => i = j
    BY DEF Kept
  <2>2. ids \in [1..Cardinality(keep) -> keep] /\ DOMAIN ids = 1..Cardinality(keep)
    BY DEF InIdOrder
  <2>3. ids[k] = ids[l]
    BY <1>6, <2>1, <2>2
  <2>4. keep \subseteq Nat
    BY KeptIds
  <2>5. \A m \in DOMAIN ids : ids[m] \in Nat
    BY <2>2, <2>4
  <2>6. Cardinality(keep) \in Nat
    BY KeptIds
  <2>7. k \in Int /\ l \in Int
    BY <2>2, <2>6
  <2>8. QED BY <1>3, <2>3, <2>5, <2>7
<1>4. Shaped("type", Def("Sum", <<>>, ids, 0)) /\ Legal("type", Def("Sum", <<>>, ids, 0))
  BY <1>3, <1>6 DEF Shaped, Legal, Inhabited, Atomic, Apart, AtomKinds, Def
<1>5. QED BY <1>2, <1>4, NoRequestOK DEF Asked

LEMMA NextAsks == IInv /\ Next => FindNext \/ FindHit \/ AppendNode \/ Asked \/ Answered
<1> SUFFICES ASSUME IInv, Next PROVE FindNext \/ FindHit \/ AppendNode \/ Asked \/ Answered
  OBVIOUS
<1>1. CASE Boot
  <2>1. PICK i : i = Len(nodes["type"]) + 1 /\ Intern("type", Simple(Builtins[i]))
    BY <1>1 DEF Boot
  <2>2. i \in DOMAIN Builtins
    BY <1>1, <2>1, TypeIdsAre, BuiltinsAssumption DEF Boot, Booted, N
  <2>3. QED BY <2>1, <2>2, AskedSimple
<1>2. CASE InternSimple
  BY <1>2, AskedSimple DEF InternSimple
<1>3. CASE InternRefined
  <2>1. \E named \in TypeIds : \E c, m, name : RefinedNamed(RefinesAnew(named), c, m, name)
    BY <1>3 DEF InternRefined, RefinesAnew
  <2>2. QED BY <2>1, StrippedId, AskedRefined
<1>4. CASE WithRefinedName
  <2>1. PICK id, base, c, m, name :
            /\ id \in TypeIds /\ base = (IF Kind(id) = "Refined" THEN Kids(id)[1] ELSE id)
            /\ RefinedNamed(base, c, m, name)
    BY <1>4 DEF WithRefinedName
  <2>2. Kind(id) = "Refined" => Kids(id)[1] \in TypeIds
    BY <2>1, TypeIdsAre DEF Closed, Kind, Kids, Defs
  <2>3. QED BY <2>1, <2>2, AskedRefined
<1>5. QED BY <1>1, <1>2, <1>3, <1>4, AskedAtom, AskedConstraint, AskedList, AskedTuple,
             AskedObject, AskedSum DEF Next

(***************************************************************************)
(* The invariant is inductive.                                             *)
(***************************************************************************)
LEMMA Appended ==
    ASSUME IInv, AppendNode
    PROVE  \E t \in Tables, def \in Defs :
            /\ pc = "find" /\ request.table = t /\ request.def = def /\ Closed(def)
            /\ \A u \in Tables \ {t} : nodes'[u] = nodes[u]
            /\ DOMAIN nodes'[t] = 1..(Len(nodes[t]) + 1)
            /\ Len(nodes'[t]) = Len(nodes[t]) + 1
            /\ nodes'[t][Len(nodes[t]) + 1] = def
            /\ \A i \in DOMAIN nodes[t] : nodes'[t][i] = nodes[t][i]
            /\ pc' = "idle"
<1>1. PICK t \in Tables, def \in Defs : request.table = t /\ request.def = def
  BY DEF IInv, TypeOK, Defs
<1>2. pc = "find" /\ pc' = "idle" /\ nodes' = [nodes EXCEPT ![t] = Append(@, def)]
  BY <1>1 DEF AppendNode
<1>3. nodes \in [Tables -> Seq(Defs)]
  BY DEF IInv, TypeOK, Defs
<1>4. nodes[t] \in Seq(Defs) /\ nodes'[t] = Append(nodes[t], def)
      /\ \A u \in Tables \ {t} : nodes'[u] = nodes[u]
  BY <1>2, <1>3
<1>5. Closed(def)
  BY <1>1, <1>2 DEF IInv, Searching
<1>6. /\ DOMAIN nodes'[t] = 1..(Len(nodes[t]) + 1)
      /\ Len(nodes'[t]) = Len(nodes[t]) + 1
      /\ nodes'[t][Len(nodes[t]) + 1] = def
      /\ \A i \in DOMAIN nodes[t] : nodes'[t][i] = nodes[t][i]
  BY <1>4
<1>7. QED BY <1>1, <1>2, <1>4, <1>5, <1>6

LEMMA ReferredOlder ==
    ASSUME IInv, NEW def \in Defs, Closed(def) PROVE Refers(def) \subseteq 1..N
<1>1. CASE def.constraint = 0
  BY <1>1, TypeIdsAre DEF Refers, Closed
<1>2. CASE def.constraint # 0
  <2>1. def.constraint \in ConstraintIds
    BY <1>2 DEF Closed
  <2>2. PICK con \in Defs : con = nodes["constraint"][def.constraint] /\ Closed(con)
    BY <2>1, TypeIdsAre
  <2>3. \A k \in DOMAIN con.kids : con.kids[k] \in 1..N
    BY <2>2, TypeIdsAre DEF Closed
  <2>4. \A k \in DOMAIN def.kids : def.kids[k] \in 1..N
    BY TypeIdsAre DEF Closed
  <2>5. QED BY <1>2, <2>2, <2>3, <2>4 DEF Refers
<1>3. QED BY <1>1, <1>2

LEMMA AppendNodeSInv == HashIsNat /\ SInv /\ AppendNode => SInv'
<1> SUFFICES ASSUME HashIsNat, SInv, AppendNode PROVE SInv'
  OBVIOUS
<1>1. IInv /\ IInv'
  BY AppendNodeIInv DEF SInv
<1>2. PICK t \in Tables, def \in Defs :
            /\ pc = "find" /\ request.table = t /\ request.def = def /\ Closed(def)
            /\ \A u \in Tables \ {t} : nodes'[u] = nodes[u]
            /\ DOMAIN nodes'[t] = 1..(Len(nodes[t]) + 1)
            /\ Len(nodes'[t]) = Len(nodes[t]) + 1
            /\ nodes'[t][Len(nodes[t]) + 1] = def
            /\ \A i \in DOMAIN nodes[t] : nodes'[t][i] = nodes[t][i]
            /\ pc' = "idle"
  BY <1>1, Appended
<1>3. Shaped(t, def)
  BY <1>2 DEF SInv
<1>4. DOMAIN nodes[t] = 1..Len(nodes[t]) /\ Len(nodes[t]) \in Nat
  BY <1>1, Columns DEF IInv
<1>5. \A i \in DOMAIN nodes'[t] : i \in DOMAIN nodes[t] \/ i = Len(nodes[t]) + 1
  BY <1>2, <1>4
<1>6. \A u \in Tables : \A i \in DOMAIN nodes'[u] : Shaped(u, nodes'[u][i])
  <2> SUFFICES ASSUME NEW u \in Tables, NEW i \in DOMAIN nodes'[u] PROVE Shaped(u, nodes'[u][i])
    OBVIOUS
  <2>1. \A j \in DOMAIN nodes[u] : Shaped(u, nodes[u][j])
    BY DEF SInv
  <2>2. CASE u = t
    BY <1>2, <1>3, <1>5, <2>1, <2>2
  <2>3. CASE u # t
    BY <1>2, <2>1, <2>3
  <2>4. QED BY <2>2, <2>3
<1>7. \A d \in Defs : Closed(d) => Refers(d)' = Refers(d)
  <2> SUFFICES ASSUME NEW d \in Defs, Closed(d) PROVE Refers(d)' = Refers(d)
    OBVIOUS
  <2>1. \A c \in ConstraintIds : nodes'["constraint"][c] = nodes["constraint"][c]
    BY <1>2, <1>4 DEF ConstraintIds, Tables
  <2>2. d.constraint # 0 => nodes'["constraint"][d.constraint] = nodes["constraint"][d.constraint]
    BY <2>1 DEF Closed
  <2>3. QED BY <2>2 DEF Refers
<1>8. Layered'
  <2> SUFFICES ASSUME NEW id \in TypeIds' PROVE \A r \in Refers(nodes["type"][id])' : r \in 1..(id - 1)
    BY DEF Layered
  <2>1. CASE id \in TypeIds
    <3>1. PICK d \in Defs : d = nodes["type"][id] /\ Closed(d)
      BY <1>1, <2>1, TypeIdsAre
    <3>2. d = nodes'["type"][id]
      BY <1>2, <2>1, <3>1, NoRequestOK DEF TypeIds
    <3>3. \A r \in Refers(d) : r \in 1..(id - 1)
      BY <2>1, <3>1 DEF SInv, Layered
    <3>4. Refers(d)' = Refers(nodes["type"][id])'
      BY <3>2 DEF Refers
    <3>5. QED BY <1>7, <3>1, <3>3, <3>4
  <2>2. CASE id \notin TypeIds
    <3>1. t = "type" /\ id = N + 1
      BY <1>2, <1>5, <2>2, NoRequestOK DEF TypeIds, N
    <3>2. nodes'["type"][id] = def
      BY <1>2, <3>1 DEF N
    <3>3. Refers(def)' = Refers(nodes["type"][id])'
      BY <3>2 DEF Refers
    <3>4. \A r \in Refers(def) : r \in 1..(id - 1)
      <4>1. id - 1 = N
        BY <1>1, <3>1, TypeIdsAre
      <4>2. QED BY <1>1, <1>2, <4>1, ReferredOlder
    <3>5. QED BY <1>2, <1>7, <3>3, <3>4
  <2>3. QED BY <2>1, <2>2
<1>9. pc' # "find"
  BY <1>2
<1>10. QED BY <1>1, <1>6, <1>8, <1>9 DEF SInv

LEMMA NextSInv == HashIsNat /\ SInv /\ [Next]_vars => SInv'
<1> SUFFICES ASSUME HashIsNat, SInv, [Next]_vars, ~AppendNode PROVE SInv'
  BY AppendNodeSInv
<1>1. IInv'
  BY NextIInv DEF SInv
<1>2. CASE UNCHANGED vars
  BY <1>1, <1>2 DEF vars, SInv, Layered, Refers, TypeIds
<1>3. ASSUME UNCHANGED nodes, pc' = "find" => Shaped(request.table, request.def)' PROVE SInv'
  BY <1>1, <1>3 DEF SInv, Layered, Refers, TypeIds
<1>4. CASE FindNext
  BY <1>3, <1>4 DEF FindNext, tables, SInv
<1>5. CASE FindHit
  BY <1>3, <1>5 DEF FindHit, tables
<1>6. CASE Asked
  <2>1. PICK t, def : t \in Tables /\ Intern(t, def) /\ Shaped(t, def)
    BY <1>6 DEF Asked
  <2>2. UNCHANGED nodes /\ request'.table = t /\ request'.def = def
    BY <2>1 DEF Intern, tables
  <2>3. Shaped(request.table, request.def)'
    BY <2>1, <2>2 DEF Shaped
  <2>4. QED BY <1>3, <2>2, <2>3
<1>7. CASE Answered
  <2>1. PICK id \in TypeIds : Return(id)
    BY <1>7 DEF Answered
  <2>2. QED BY <1>3, <2>1 DEF Return, tables
<1>8. QED BY <1>2, <1>4, <1>5, <1>6, <1>7, NextAsks DEF SInv

LEMMA InitSInv == Init => SInv
<1> SUFFICES ASSUME Init PROVE SInv
  OBVIOUS
<1>1. \A t \in Tables : DOMAIN nodes[t] = {}
  BY DEF Init
<1>2. TypeIds = {} /\ pc = "idle"
  BY <1>1, NoRequestOK DEF TypeIds, Init
<1>3. QED BY <1>1, <1>2, InitIInv DEF SInv, Layered

LEMMA StructureInvariant == ASSUME HashIsNat PROVE Spec => []SInv
<1>1. Init => SInv
  BY InitSInv
<1>2. SInv /\ [Next]_vars => SInv'
  BY NextSInv
<1>3. QED BY <1>1, <1>2, PTL DEF Spec

(***************************************************************************)
(* A structure determines the definition it was assembled from.            *)
(***************************************************************************)

\* f tells the elements of s from those of t.
Separates(f, s, t) == \A k \in DOMAIN s, l \in DOMAIN t : f[s[k]] = f[t[l]] => s[k] = t[l]

LEMMA MappedInjective ==
    ASSUME NEW f, NEW s \in Seq(Nat), NEW t \in Seq(Nat), Separates(f, s, t),
           Mapped(f, s) = Mapped(f, t)
    PROVE  s = t
<1>1. DOMAIN Mapped(f, s) = DOMAIN s /\ DOMAIN Mapped(f, t) = DOMAIN t
  BY DEF Mapped
<1>2. DOMAIN s = DOMAIN t
  BY <1>1
<1>3. \A k \in DOMAIN s : f[s[k]] = f[t[k]]
  <2> SUFFICES ASSUME NEW k \in DOMAIN s PROVE f[s[k]] = f[t[k]]
    OBVIOUS
  <2>1. Mapped(f, s)[k] = f[s[k]] /\ Mapped(f, t)[k] = f[t[k]]
    BY <1>2 DEF Mapped
  <2>2. QED BY <2>1
<1>4. \A k \in DOMAIN s : s[k] = t[k]
  BY <1>2, <1>3 DEF Separates
<1>5. QED BY <1>2, <1>4

LEMMA SameSeq ==
    ASSUME NEW S, NEW s \in Seq(S), NEW t \in Seq(S), DOMAIN s = DOMAIN t,
           \A k \in DOMAIN s : s[k] = t[k]
    PROVE  s = t
<1>1. Len(s) = Len(t) /\ DOMAIN s = 1..Len(s)
  BY LenProperties
<1>2. QED BY <1>1, SeqEqual

LEMMA LabelNames ==
    ASSUME NEW s \in Seq(Seq(Int)), \A k \in DOMAIN s : Len(s[k]) = 3
    PROVE  \A k \in DOMAIN s : s[k][1] \in Int
<1> SUFFICES ASSUME NEW k \in DOMAIN s PROVE s[k][1] \in Int
  OBVIOUS
<1>1. s[k] \in Seq(Int) /\ Len(s[k]) = 3
  BY LenProperties, ElementOfSeq
<1>2. 1 \in 1..Len(s[k])
  BY <1>1
<1>3. QED BY <1>1, <1>2, ElementOfSeq

\* What a structure is assembled from can be read off it.
LEMMA AssembledDetermines ==
    ASSUME NEW f, NEW d \in Defs, NEW e \in Defs, NEW cd \in Defs, NEW ce \in Defs,
           Shaped("type", d), Shaped("type", e),
           Separates(f, d.kids, e.kids), Separates(f, cd.kids, ce.kids),
           Assembled(d, Mapped(f, d.kids), cd, Mapped(f, cd.kids)) =
           Assembled(e, Mapped(f, e.kids), ce, Mapped(f, ce.kids))
    PROVE  /\ d.kind = e.kind /\ d.labels = e.labels /\ d.kids = e.kids
           /\ d.kind = "Refined" => cd.labels = ce.labels /\ cd.kids = ce.kids
<1> DEFINE x == Assembled(d, Mapped(f, d.kids), cd, Mapped(f, cd.kids))
           y == Assembled(e, Mapped(f, e.kids), ce, Mapped(f, ce.kids))
           m == Len(d.kids)
           n == Len(e.kids)
<1>1. /\ d.kids \in Seq(Nat) /\ e.kids \in Seq(Nat)
      /\ cd.kids \in Seq(Nat) /\ ce.kids \in Seq(Nat)
      /\ d.labels \in Seq(Seq(Int)) /\ e.labels \in Seq(Seq(Int))
  BY DEF Defs
<1>2. m \in Nat /\ n \in Nat /\ DOMAIN d.kids = 1..m /\ DOMAIN e.kids = 1..n
  BY <1>1
<1>3. x[1] = d.kind /\ y[1] = e.kind
  BY DEF Assembled
<1>11. x = y
  OBVIOUS
<1> HIDE DEF x, y, m, n
<1>4. d.kind = e.kind
  BY <1>3, <1>11
<1>5. /\ \A k \in DOMAIN d.kids : Mapped(f, d.kids)[k] = f[d.kids[k]]
      /\ \A k \in DOMAIN e.kids : Mapped(f, e.kids)[k] = f[e.kids[k]]
  BY DEF Mapped
<1>6. CASE d.kind = "Object"
  <2> DEFINE p == [k \in 1..m |-> <<d.labels[k], f[d.kids[k]]>>]
             q == [k \in 1..n |-> <<e.labels[k], f[e.kids[k]]>>]
  <2>1. /\ x[2] = {<<d.labels[k], Mapped(f, d.kids)[k]>> : k \in 1..m}
        /\ y[2] = {<<e.labels[k], Mapped(f, e.kids)[k]>> : k \in 1..n}
    BY <1>2, <1>4, <1>6 DEF Assembled, x, y
  <2>2. {<<d.labels[k], Mapped(f, d.kids)[k]>> : k \in 1..m} =
        {<<e.labels[k], Mapped(f, e.kids)[k]>> : k \in 1..n}
    BY <1>11, <2>1
  <2>3. /\ \A k \in 1..m : p[k] = <<d.labels[k], f[d.kids[k]]>>
        /\ \A k \in 1..n : q[k] = <<e.labels[k], f[e.kids[k]]>>
    OBVIOUS
  <2> HIDE DEF p, q
  <2>4. /\ DOMAIN d.labels = 1..m /\ \A k \in 1..m : Len(d.labels[k]) = 3
        /\ DOMAIN e.labels = 1..n /\ \A k \in 1..n : Len(e.labels[k]) = 3
        /\ \A k, l \in 1..m : k < l => d.labels[k][1] < d.labels[l][1]
        /\ \A k, l \in 1..n : k < l => e.labels[k][1] < e.labels[l][1]
    BY <1>2, <1>4, <1>6 DEF Shaped
  <2>5. /\ \A k \in 1..m : d.labels[k][1] \in Int
        /\ \A k \in 1..n : e.labels[k][1] \in Int
    BY <1>1, <2>4, LabelNames
  <2>6. AllIn(p, m, q, n)
    <3> SUFFICES ASSUME NEW k \in 1..m PROVE \E l \in 1..n : p[k] = q[l]
      BY DEF AllIn
    <3>1. PICK l \in 1..n : <<d.labels[k], Mapped(f, d.kids)[k]>> =
                             <<e.labels[l], Mapped(f, e.kids)[l]>>
      BY <2>2
    <3>2. Mapped(f, d.kids)[k] = f[d.kids[k]] /\ Mapped(f, e.kids)[l] = f[e.kids[l]]
      BY <1>2, <1>5
    <3>3. p[k] = q[l]
      BY <2>3, <3>1, <3>2, Zenon
    <3>4. QED BY <3>3
  <2>7. AllIn(q, n, p, m)
    <3> SUFFICES ASSUME NEW l \in 1..n PROVE \E k \in 1..m : q[l] = p[k]
      BY DEF AllIn
    <3>1. PICK k \in 1..m : <<e.labels[l], Mapped(f, e.kids)[l]>> =
                             <<d.labels[k], Mapped(f, d.kids)[k]>>
      BY <2>2
    <3>2. Mapped(f, d.kids)[k] = f[d.kids[k]] /\ Mapped(f, e.kids)[l] = f[e.kids[l]]
      BY <1>2, <1>5
    <3>3. q[l] = p[k]
      BY <2>3, <3>1, <3>2, Zenon
    <3>4. QED BY <3>3
  <2>8. \A k \in 1..m, l \in 1..n : f[d.kids[k]] = f[e.kids[l]] => d.kids[k] = e.kids[l]
    BY <1>2 DEF Separates
  <2>9. m = n /\ \A k \in 1..m : d.labels[k] = e.labels[k] /\ d.kids[k] = e.kids[k]
    <3>1. PICK a, s, b, t : a = d.labels /\ s = d.kids /\ b = e.labels /\ t = e.kids
      OBVIOUS
    <3>2. Fields(f, a, s, m, p) /\ Fields(f, b, t, n, q) /\ Tells(f, s, m, t, n)
      BY <1>2, <2>3, <2>4, <2>5, <2>8, <3>1 DEF Fields, Tells
    <3>3. m = n /\ \A k \in 1..m : a[k] = b[k] /\ s[k] = t[k]
      BY <2>6, <2>7, <3>2, ObjectDetermined
    <3>4. QED BY <3>1, <3>3
  <2>10. d.labels = e.labels
    <3>1. DOMAIN d.labels = DOMAIN e.labels /\ \A k \in DOMAIN d.labels : d.labels[k] = e.labels[k]
      BY <2>4, <2>9, Zenon
    <3>2. QED BY <1>1, <3>1, SameSeq
  <2>11. d.kids = e.kids
    BY <1>1, <1>2, <2>9, SameSeq
  <2>12. QED BY <1>4, <1>6, <2>10, <2>11
<1>7. CASE d.kind = "Sum"
  <2>1. /\ x[2] = {Mapped(f, d.kids)[k] : k \in 1..m}
        /\ y[2] = {Mapped(f, e.kids)[k] : k \in 1..n}
    BY <1>2, <1>4, <1>7 DEF Assembled, x, y
  <2>2. {Mapped(f, d.kids)[k] : k \in 1..m} = {Mapped(f, e.kids)[k] : k \in 1..n}
    BY <1>11, <2>1
  <2>3. /\ d.labels = <<>> /\ e.labels = <<>>
        /\ \A k, l \in 1..m : k < l => d.kids[k] < d.kids[l]
        /\ \A k, l \in 1..n : k < l => e.kids[k] < e.kids[l]
    BY <1>2, <1>4, <1>7 DEF Shaped
  <2>4. PICK s, t, fs, ft : /\ s = d.kids /\ fs = Mapped(f, d.kids)
                            /\ t = e.kids /\ ft = Mapped(f, e.kids)
    OBVIOUS
  <2>5. AllIn(fs, m, ft, n) /\ AllIn(ft, n, fs, m)
    BY <2>2, <2>4 DEF AllIn
  <2>6. \A k \in 1..m, l \in 1..n : f[s[k]] = f[t[l]] => s[k] = t[l]
    BY <1>2, <2>4 DEF Separates
  <2>7. /\ \A k \in 1..m : s[k] \in Nat /\ fs[k] = f[s[k]]
        /\ \A k \in 1..n : t[k] \in Nat /\ ft[k] = f[t[k]]
    <3>1. /\ \A k \in 1..m : fs[k] = f[s[k]]
          /\ \A k \in 1..n : ft[k] = f[t[k]]
      BY <1>2, <1>5, <2>4
    <3>2. s \in Seq(Nat) /\ t \in Seq(Nat) /\ Len(s) = m /\ Len(t) = n
      BY <1>1, <2>4 DEF m, n
    <3>3. QED BY <3>1, <3>2, ElementOfSeq
  <2>8. Members(f, s, m, fs) /\ Members(f, t, n, ft) /\ Tells(f, s, m, t, n)
    BY <1>2, <2>3, <2>4, <2>6, <2>7 DEF Members, Tells
  <2>9. m = n /\ \A k \in 1..m : s[k] = t[k]
    BY <2>5, <2>8, SumDetermined
  <2>10. s = t
    BY <1>1, <1>2, <2>4, <2>9, SameSeq
  <2>11. QED BY <1>4, <1>7, <2>3, <2>4, <2>10
<1>8. CASE d.kind = "Refined"
  <2>1. /\ x[2] = d.labels /\ x[3] = Mapped(f, d.kids)
        /\ x[4] = cd.labels /\ x[5] = Mapped(f, cd.kids)
        /\ y[2] = e.labels /\ y[3] = Mapped(f, e.kids)
        /\ y[4] = ce.labels /\ y[5] = Mapped(f, ce.kids)
    BY <1>4, <1>8 DEF Assembled, x, y
  <2>2. /\ d.labels = e.labels /\ cd.labels = ce.labels
        /\ Mapped(f, d.kids) = Mapped(f, e.kids) /\ Mapped(f, cd.kids) = Mapped(f, ce.kids)
    BY <1>11, <2>1
  <2>3. QED BY <1>1, <1>4, <2>2, MappedInjective
<1>9. CASE d.kind \notin {"Object", "Sum", "Refined"}
  <2>1. /\ x[2] = d.labels /\ x[3] = Mapped(f, d.kids)
        /\ y[2] = e.labels /\ y[3] = Mapped(f, e.kids)
    BY <1>4, <1>9 DEF Assembled, x, y
  <2>2. d.labels = e.labels /\ Mapped(f, d.kids) = Mapped(f, e.kids)
    BY <1>11, <2>1
  <2>3. QED BY <1>1, <1>4, <1>9, <2>2, MappedInjective
<1>10. QED BY <1>6, <1>7, <1>8, <1>9

LEMMA SameDef ==
    ASSUME NEW d \in Defs, NEW e \in Defs, d.kind = e.kind, d.labels = e.labels,
           d.kids = e.kids, d.constraint = e.constraint
    PROVE  d = e
<1>1. d = [kind |-> d.kind, labels |-> d.labels, kids |-> d.kids, constraint |-> d.constraint]
  BY SMT DEF Defs
<1>2. e = [kind |-> e.kind, labels |-> e.labels, kids |-> e.kids, constraint |-> e.constraint]
  BY SMT DEF Defs
<1>3. QED BY <1>1, <1>2, Zenon

LEMMA NoConstraint ==
    Simple("None") \in Defs /\ Simple("None").labels = <<>> /\ Simple("None").kids = <<>>
<1>1. <<>> \in Seq(Seq(Int)) /\ <<>> \in Seq(Nat)
  OBVIOUS
<1>2. QED BY <1>1 DEF Simple, Def, Defs, Kinds

LEMMA ConIs ==
    ASSUME SInv, NEW d \in Defs, Closed(d)
    PROVE  /\ Con(d) \in Defs
           /\ d.constraint # 0 =>
                /\ d.constraint \in ConstraintIds
                /\ Con(d) = nodes["constraint"][d.constraint]
                /\ Con(d).kind = "Constraint" /\ Con(d).constraint = 0
                /\ Con(d).labels # <<>> \/ Con(d).kids # <<>>
           /\ d.constraint = 0 => Con(d).labels = <<>> /\ Con(d).kids = <<>>
<1>1. CASE d.constraint = 0
  BY <1>1, NoConstraint DEF Con
<1>2. CASE d.constraint # 0
  <2>1. d.constraint \in ConstraintIds
    BY <1>2 DEF Closed
  <2>2. PICK c \in Defs : c = nodes["constraint"][d.constraint] /\ Shaped("constraint", c)
    BY <2>1, TypeIdsAre DEF SInv, Tables, ConstraintIds
  <2>3. Con(d) = c
    BY <1>2, <2>2 DEF Con
  <2>4. c.kind = "Constraint" /\ c.constraint = 0 /\ (c.labels # <<>> \/ c.kids # <<>>)
    BY <2>2 DEF Shaped
  <2>5. QED BY <1>2, <2>1, <2>2, <2>3, <2>4
<1>3. QED BY <1>1, <1>2

\* A constraint is known by its limits and its enum: no constraint is not
\* mistaken for one, for one that limits nothing is never interned.
LEMMA ConDetermines ==
    ASSUME SInv, NEW d \in Defs, NEW e \in Defs, Closed(d), Closed(e),
           Con(d).labels = Con(e).labels, Con(d).kids = Con(e).kids
    PROVE  d.constraint = e.constraint
<1>1. CASE d.constraint = 0 \/ e.constraint = 0
  BY <1>1, ConIs
<1>2. CASE d.constraint # 0 /\ e.constraint # 0
  <2>1. Con(d) = Con(e)
    BY <1>2, ConIs, SameDef
  <2>2. nodes["constraint"][d.constraint] = nodes["constraint"][e.constraint]
    BY <1>2, <2>1, ConIs
  <2>3. d.constraint \in DOMAIN nodes["constraint"] /\ e.constraint \in DOMAIN nodes["constraint"]
    BY <1>2, ConIs DEF ConstraintIds
  <2>4. QED BY <2>2, <2>3, NoRequestOK DEF SInv, IInv, Canonical, Tables
<1>3. QED BY <1>1, <1>2

LEMMA StructureDeterminesId ==
    ASSUME SInv PROVE OrderIrrelevant
<1> DEFINE S == {n \in Nat : \A i, j \in TypeIds :
                                i <= n /\ j <= n /\ Struct[i] = Struct[j] => i = j}
<1>1. 0 \in S
  <2>1. \A i \in TypeIds : i \in Nat /\ ~(i <= 0)
    BY TypeIdsAre DEF SInv
  <2>2. QED BY <2>1
<1>2. ASSUME NEW n \in Nat, n \in S PROVE n + 1 \in S
  <2> SUFFICES ASSUME NEW i \in TypeIds, NEW j \in TypeIds, i <= n + 1, j <= n + 1,
                      Struct[i] = Struct[j]
               PROVE  i = j
    OBVIOUS
  <2>1. PICK d \in Defs : d = nodes["type"][i] /\ Closed(d)
    BY TypeIdsAre DEF SInv
  <2>2. PICK e \in Defs : e = nodes["type"][j] /\ Closed(e)
    BY TypeIdsAre DEF SInv
  <2>3. Shaped("type", d) /\ Shaped("type", e)
    BY <2>1, <2>2 DEF SInv, Tables, TypeIds
  <2>4. \A p, q \in TypeIds : p <= n /\ q <= n /\ Struct[p] = Struct[q] => p = q
    BY <1>2
  <2>5. /\ \A r \in Refers(d) : r \in TypeIds /\ r <= n
        /\ \A r \in Refers(e) : r \in TypeIds /\ r <= n
    <3>1. /\ i \in 1..N /\ j \in 1..N /\ N \in Nat /\ TypeIds = 1..N
          /\ \A r \in Refers(d) : r \in 1..(i - 1)
          /\ \A r \in Refers(e) : r \in 1..(j - 1)
      BY <2>1, <2>2, TypeIdsAre DEF SInv, Layered
    <3>2. QED BY <3>1
  <2>6. \A p \in Refers(d), q \in Refers(e) : Struct[p] = Struct[q] => p = q
    BY <2>4, <2>5
  <2>7. Separates(Struct, d.kids, e.kids)
    <3>1. /\ \A k \in DOMAIN d.kids : d.kids[k] \in Refers(d)
          /\ \A k \in DOMAIN e.kids : e.kids[k] \in Refers(e)
      BY DEF Refers
    <3>2. QED BY <2>6, <3>1 DEF Separates
  <2>8. Separates(Struct, Con(d).kids, Con(e).kids)
    <3>1. /\ \A k \in DOMAIN Con(d).kids : Con(d).kids[k] \in Refers(d)
          /\ \A k \in DOMAIN Con(e).kids : Con(e).kids[k] \in Refers(e)
      BY NoConstraint DEF Refers, Con
    <3>2. QED BY <2>6, <3>1 DEF Separates
  <2>9. Assembled(d, Mapped(Struct, d.kids), Con(d), Mapped(Struct, Con(d).kids)) =
        Assembled(e, Mapped(Struct, e.kids), Con(e), Mapped(Struct, Con(e).kids))
    <3>1. StructOf(Struct, i) = StructOf(Struct, j)
      BY StructIs
    <3>2. QED BY <2>1, <2>2, <3>1 DEF StructOf
  <2>10. /\ d.kind = e.kind /\ d.labels = e.labels /\ d.kids = e.kids
         /\ d.kind = "Refined" => Con(d).labels = Con(e).labels /\ Con(d).kids = Con(e).kids
    <3>1. PICK cd \in Defs, ce \in Defs : cd = Con(d) /\ ce = Con(e)
      BY <2>1, <2>2, ConIs
    <3>2. PICK f : f = Struct
      OBVIOUS
    <3>3. /\ Separates(f, d.kids, e.kids) /\ Separates(f, cd.kids, ce.kids)
          /\ Assembled(d, Mapped(f, d.kids), cd, Mapped(f, cd.kids)) =
             Assembled(e, Mapped(f, e.kids), ce, Mapped(f, ce.kids))
      BY <2>7, <2>8, <2>9, <3>1, <3>2
    <3>4. /\ d.kind = e.kind /\ d.labels = e.labels /\ d.kids = e.kids
          /\ d.kind = "Refined" => cd.labels = ce.labels /\ cd.kids = ce.kids
      BY <2>3, <3>3, AssembledDetermines
    <3>5. QED BY <3>1, <3>4
  <2>11. d.constraint = e.constraint
    <3>1. CASE d.kind = "Refined"
      BY <2>1, <2>2, <2>10, <3>1, ConDetermines
    <3>2. CASE d.kind # "Refined"
      BY <2>3, <2>10, <3>2 DEF Shaped
    <3>3. QED BY <3>1, <3>2
  <2>12. d = e
    BY <2>10, <2>11, SameDef
  <2>13. QED BY <2>1, <2>2, <2>12, NoRequestOK DEF SInv, IInv, Canonical, TypeIds
<1>3. \A n \in Nat : n \in S
  <2> HIDE DEF S
  <2>1. QED BY <1>1, <1>2, SetInduction
<1>4. \A n \in Nat : \A i, j \in TypeIds :
            i <= n /\ j <= n /\ Struct[i] = Struct[j] => i = j
  BY <1>3
<1>5. N \in Nat /\ \A i \in TypeIds : i <= N
  BY TypeIdsAre DEF SInv
<1>6. QED BY <1>4, <1>5 DEF OrderIrrelevant

(***************************************************************************)
(* The base of a refinement never changes.                                 *)
(***************************************************************************)
BaseKindsUnfold == \A id \in TypeIds : BaseKind[id] = KindOf(BaseKind, id)

LEMMA EntriesKept ==
    ASSUME IInv, [Next]_vars
    PROVE  /\ \A id \in TypeIds : id \in TypeIds' /\ nodes'["type"][id] = nodes["type"][id]
           /\ \A c \in ConstraintIds :
                c \in ConstraintIds' /\ nodes'["constraint"][c] = nodes["constraint"][c]
           /\ ~AppendNode => UNCHANGED nodes
<1>1. CASE AppendNode
  <2>1. \A t \in Tables : DOMAIN nodes[t] = 1..Len(nodes[t]) /\ Len(nodes[t]) \in Nat
    BY Columns DEF IInv
  <2>2. QED BY <1>1, <2>1, Appended, NoRequestOK DEF TypeIds, ConstraintIds, Tables
<1>2. CASE ~AppendNode
  <2>1. CASE UNCHANGED vars
    BY <1>2, <2>1 DEF vars, TypeIds, ConstraintIds
  <2>2. CASE FindNext \/ FindHit \/ Asked \/ Answered
    BY <1>2, <2>2 DEF FindNext, FindHit, Asked, Answered, Intern, Return, tables, TypeIds, ConstraintIds
  <2>3. QED BY <1>2, <2>1, <2>2, NextAsks
<1>3. QED BY <1>1, <1>2

LEMMA BaseKindStable ==
    ASSUME SInv, BaseKindsUnfold, BaseKindsUnfold',
           \A id \in TypeIds : id \in TypeIds' /\ nodes'["type"][id] = nodes["type"][id]
    PROVE  \A id \in TypeIds : (BaseKind')[id] = BaseKind[id]
<1> DEFINE S == {n \in Nat : \A id \in TypeIds : id <= n => (BaseKind')[id] = BaseKind[id]}
<1>1. 0 \in S
  <2>1. \A i \in TypeIds : i \in Nat /\ ~(i <= 0)
    BY TypeIdsAre DEF SInv
  <2>2. QED BY <2>1
<1>2. ASSUME NEW n \in Nat, n \in S PROVE n + 1 \in S
  <2> SUFFICES ASSUME NEW id \in TypeIds, id <= n + 1 PROVE (BaseKind')[id] = BaseKind[id]
    OBVIOUS
  <2>1. PICK d \in Defs : d = nodes["type"][id] /\ d = nodes'["type"][id] /\ Closed(d)
    BY TypeIdsAre DEF SInv
  <2>2. /\ BaseKind[id] = IF d.kind = "Refined" THEN BaseKind[d.kids[1]] ELSE d.kind
        /\ (BaseKind')[id] = IF d.kind = "Refined" THEN (BaseKind')[d.kids[1]] ELSE d.kind
    BY <2>1 DEF BaseKindsUnfold, KindOf, Kind, Kids
  <2>3. d.kind = "Refined" => d.kids[1] \in TypeIds /\ d.kids[1] <= n
    <3> SUFFICES ASSUME d.kind = "Refined" PROVE d.kids[1] \in TypeIds /\ d.kids[1] <= n
      OBVIOUS
    <3>1. 1 \in DOMAIN d.kids
      BY <2>1 DEF Closed, Defs
    <3>2. d.kids[1] \in TypeIds /\ d.kids[1] \in 1..(id - 1)
      BY <2>1, <3>1 DEF SInv, Layered, Refers, Closed
    <3>3. id \in Nat
      BY TypeIdsAre DEF SInv
    <3>4. QED BY <3>2, <3>3
  <2>4. QED BY <1>2, <2>2, <2>3
<1>3. \A n \in Nat : n \in S
  <2> HIDE DEF S
  <2>1. QED BY <1>1, <1>2, SetInduction
<1>4. N \in Nat /\ \A id \in TypeIds : id <= N
  BY TypeIdsAre DEF SInv
<1>5. QED BY <1>3, <1>4

\* The invariant of the tuples, those of the walk included.
TInv == NoEmptyTuple /\ (pc = "find" => Inhabited(request.def))

LEMMA NextTInv ==
    ASSUME SInv, SInv', BaseKindsUnfold, BaseKindsUnfold', TInv, [Next]_vars
    PROVE  TInv'
<1>1. /\ \A id \in TypeIds : id \in TypeIds' /\ nodes'["type"][id] = nodes["type"][id]
      /\ ~AppendNode => UNCHANGED nodes
  BY EntriesKept DEF SInv
<1>2. \A id \in TypeIds : (BaseKind')[id] = BaseKind[id]
  BY <1>1, BaseKindStable
<1>3. \A def \in Defs : Closed(def) /\ Inhabited(def) => Inhabited(def)'
  BY <1>2 DEF Closed, Inhabited
<1>4. \A id \in TypeIds : Inhabited(nodes["type"][id])
  BY DEF TInv, NoEmptyTuple, Inhabited, Kind, Kids
<1>5. \A id \in TypeIds : Inhabited(nodes["type"][id])'
  <2> SUFFICES ASSUME NEW id \in TypeIds PROVE Inhabited(nodes["type"][id])'
    OBVIOUS
  <2>1. PICK d \in Defs : d = nodes["type"][id] /\ d = nodes'["type"][id] /\ Closed(d)
    BY <1>1, TypeIdsAre DEF SInv
  <2>2. Inhabited(d)'
    BY <1>3, <1>4, <2>1
  <2>3. QED BY <2>1, <2>2 DEF Inhabited
<1>6. CASE AppendNode
  <2>1. PICK t \in Tables, def \in Defs :
            /\ pc = "find" /\ request.table = t /\ request.def = def /\ Closed(def)
            /\ \A u \in Tables \ {t} : nodes'[u] = nodes[u]
            /\ DOMAIN nodes'[t] = 1..(Len(nodes[t]) + 1)
            /\ nodes'[t][Len(nodes[t]) + 1] = def
            /\ pc' = "idle"
    BY <1>6, Appended DEF SInv
  <2>2. Inhabited(def)'
    BY <1>3, <2>1 DEF TInv
  <2>3. \A id \in TypeIds' : id \in TypeIds \/ nodes'["type"][id] = def
    <3>1. TypeIds = 1..N /\ N \in Nat
      BY TypeIdsAre DEF SInv
    <3>2. \A id \in 1..(N + 1) : id \in 1..N \/ id = N + 1
      BY <3>1
    <3>3. QED BY <2>1, <3>1, <3>2, NoRequestOK DEF TypeIds, N
  <2>4. \A id \in TypeIds' : Inhabited(nodes["type"][id])'
    <3> SUFFICES ASSUME NEW id \in TypeIds' PROVE Inhabited(nodes["type"][id])'
      OBVIOUS
    <3>1. CASE id \in TypeIds
      BY <1>5, <3>1
    <3>2. CASE nodes'["type"][id] = def
      BY <2>2, <3>2 DEF Inhabited
    <3>3. QED BY <2>3, <3>1, <3>2
  <2>5. NoEmptyTuple'
    BY <2>4 DEF NoEmptyTuple, Inhabited, Kind, Kids
  <2>6. QED BY <2>1, <2>5 DEF TInv
<1>7. CASE ~AppendNode
  <2>1. UNCHANGED nodes /\ TypeIds' = TypeIds
    BY <1>1, <1>7 DEF TypeIds
  <2>2. NoEmptyTuple'
    BY <1>5, <2>1 DEF NoEmptyTuple, Inhabited, Kind, Kids
  <2>3. pc' = "find" => Inhabited(request.def)'
    <3>1. CASE UNCHANGED <<request, pc>>
      <4>1. pc = "find" => request.def \in Defs /\ Closed(request.def) /\ Inhabited(request.def)
        BY DEF SInv, IInv, TypeOK, Searching, TInv, Defs
      <4>2. QED BY <1>3, <3>1, <4>1 DEF Inhabited
    <3>2. CASE Asked
      <4>1. PICK t, def : t \in Tables /\ Intern(t, def) /\ Inhabited(def)
        BY <3>2 DEF Asked, Legal
      <4>2. request'.def = def /\ request'.table = t /\ pc' = "find"
        BY <4>1 DEF Intern
      <4>3. def \in Defs /\ Closed(def)'
        BY <4>2 DEF SInv, IInv, TypeOK, Searching, Defs
      <4>4. Closed(def)
        BY <2>1, <4>3 DEF Closed, ConstraintIds
      <4>5. QED BY <1>3, <4>1, <4>2, <4>3, <4>4 DEF Inhabited
    <3>3. CASE FindHit
      BY <3>3 DEF FindHit
    <3>4. CASE FindNext \/ Answered \/ UNCHANGED vars
      BY <3>1, <3>4 DEF FindNext, Answered, Return, vars
    <3>5. QED BY <1>7, <3>2, <3>3, <3>4, NextAsks DEF SInv
  <2>4. QED BY <2>2, <2>3 DEF TInv
<1>8. QED BY <1>6, <1>7

(***************************************************************************)
(* Sorted hashes.                                                          *)
(***************************************************************************)
LEMMA AscendingIs ==
    ASSUME NEW n \in Nat, NEW w, DOMAIN w = 1..n, \A k \in 1..n : w[k] \in Int
    PROVE  /\ DOMAIN Ascending(w) = 1..n /\ Rising(Ascending(w), n)
           /\ \E a : Permutes(a, n) /\ Reorders(Ascending(w), w, a, n)
<1> DEFINE a == CHOOSE q \in [DOMAIN w -> DOMAIN w] :
                    \A k, l \in DOMAIN w : k < l => q[k] # q[l] /\ w[q[k]] <= w[q[l]]
<1>1. \E q \in [1..n -> 1..n] : \A k, l \in 1..n : k < l => q[k] # q[l] /\ w[q[k]] <= w[q[l]]
  <2>1. PICK q : Permutes(q, n) /\ \A k, l \in 1..n : k < l => w[q[k]] <= w[q[l]]
    BY Sortable
  <2>2. \A k, l \in 1..n : k < l => k # l
    OBVIOUS
  <2>3. QED BY <2>1, <2>2 DEF Permutes
<1>2. a \in [1..n -> 1..n] /\ \A k, l \in 1..n : k < l => a[k] # a[l] /\ w[a[k]] <= w[a[l]]
  BY <1>1
<1>3. Ascending(w) = [k \in 1..n |-> w[a[k]]]
  BY DEF Ascending
<1> HIDE DEF a
<1>4. \A k \in 1..n : a[k] \in 1..n /\ Ascending(w)[k] = w[a[k]]
  BY <1>2, <1>3
<1>5. DOMAIN Ascending(w) = 1..n /\ Rising(Ascending(w), n) /\ Reorders(Ascending(w), w, a, n)
  BY <1>2, <1>3, <1>4 DEF Rising, Reorders
<1>6. Permutes(a, n)
  <2>1. ASSUME NEW k \in 1..n, NEW l \in 1..n, k # l PROVE a[k] # a[l]
    <3>1. k < l \/ l < k
      BY <2>1
    <3>2. QED BY <1>2, <3>1
  <2>2. QED BY <1>2, <2>1 DEF Permutes
<1>7. QED BY <1>5, <1>6

\* In whatever order hashes are met, sorted they are the same.
LEMMA AscendingSame ==
    ASSUME NEW n \in Nat, NEW w, NEW v, NEW p, DOMAIN w = 1..n, DOMAIN v = 1..n,
           \A k \in 1..n : w[k] \in Int, Permutes(p, n), Reorders(v, w, p, n)
    PROVE  Ascending(w) = Ascending(v)
<1>1. \A k \in 1..n : p[k] \in 1..n /\ v[k] = w[p[k]] /\ v[k] \in Int
  BY DEF Permutes, Reorders
<1>2. PICK s, t : s = Ascending(w) /\ t = Ascending(v)
  OBVIOUS
<1>3. PICK a : DOMAIN s = 1..n /\ Rising(s, n) /\ Permutes(a, n) /\ Reorders(s, w, a, n)
  BY <1>2, AscendingIs
<1>4. PICK b : DOMAIN t = 1..n /\ Rising(t, n) /\ Permutes(b, n) /\ Reorders(t, v, b, n)
  BY <1>1, <1>2, AscendingIs
<1> DEFINE c == [k \in 1..n |-> p[b[k]]]
<1>5. \A k \in 1..n : b[k] \in 1..n /\ t[k] = v[b[k]]
  BY <1>4 DEF Permutes, Reorders
<1>6. \A k \in 1..n : c[k] \in 1..n /\ c[k] = p[b[k]] /\ t[k] = w[c[k]]
  BY <1>1, <1>5
<1>7. c \in [1..n -> 1..n]
  BY <1>1, <1>5
<1> HIDE DEF c
<1>8. Permutes(c, n)
  <2>1. ASSUME NEW k \in 1..n, NEW l \in 1..n, k # l PROVE c[k] # c[l]
    <3>1. b[k] # b[l]
      BY <1>4, <2>1 DEF Permutes
    <3>2. PICK i \in 1..n, j \in 1..n : i = b[k] /\ j = b[l]
      BY <1>5
    <3>3. p[i] # p[j]
      BY <3>1, <3>2 DEF Permutes
    <3>4. QED BY <1>6, <3>2, <3>3
  <2>2. QED BY <1>7, <2>1 DEF Permutes
<1>9. Reorders(t, w, c, n)
  BY <1>6 DEF Reorders
<1>10. \A k \in 1..n : s[k] = t[k]
  BY <1>3, <1>4, <1>8, <1>9, SortedAlike
<1>11. /\ s = [k \in DOMAIN s |-> s[k]] /\ t = [k \in DOMAIN t |-> t[k]]
  BY <1>2 DEF Ascending
<1>12. QED BY <1>2, <1>3, <1>4, <1>10, <1>11

(***************************************************************************)
(* What Erased unfolds to.                                                 *)
(***************************************************************************)
Stripped(def, parts, con, enum) ==
    CASE def.kind = "Refined" /\ def.constraint = 0 -> parts[1]
      [] def.kind = "Object" ->
            <<"Object", {<<SubSeq(def.labels[k], 1, 2), parts[k]>> : k \in DOMAIN def.kids}>>
      [] def.kind = "Sum" -> <<"Sum", {parts[k] : k \in DOMAIN def.kids}>>
      [] def.kind = "Refined" /\ def.constraint # 0 -> <<"Refined", parts, con.labels, enum>>
      [] OTHER -> <<def.kind, def.labels, parts>>

ErasedOf(f, id) ==
    Stripped(nodes["type"][id], Mapped(f, nodes["type"][id].kids),
             Con(nodes["type"][id]), Mapped(f, Con(nodes["type"][id]).kids))

LEMMA MappedAgree ==
    ASSUME NEW f, NEW g, NEW def, \A r \in Refers(def) : g[r] = f[r]
    PROVE  Mapped(g, def.kids) = Mapped(f, def.kids) /\ Mapped(g, Con(def).kids) = Mapped(f, Con(def).kids)
<1> DEFINE con == Con(def)
<1>1. \A k \in DOMAIN def.kids : g[def.kids[k]] = f[def.kids[k]]
  BY DEF Refers
<1>2. \A k \in DOMAIN con.kids : g[con.kids[k]] = f[con.kids[k]]
  BY DEF Con, Simple, Def, Refers
<1>3. [k \in DOMAIN def.kids |-> g[def.kids[k]]] = [k \in DOMAIN def.kids |-> f[def.kids[k]]]
  BY <1>1, Zenon
<1>4. [k \in DOMAIN con.kids |-> g[con.kids[k]]] = [k \in DOMAIN con.kids |-> f[con.kids[k]]]
  BY <1>2, Zenon
<1>5. QED BY <1>3, <1>4, Zenon DEF Mapped

LEMMA ErasedIs ==
    ASSUME SInv
    PROVE  \A id \in TypeIds : Erased[id] = ErasedOf(Erased, id)
<1> DEFINE Unfolds(f, n) == f = [id \in 1..n |-> ErasedOf(f, id)]
           S == {n \in Nat : n <= N => \E f : Unfolds(f, n)}
<1>1. 0 \in S
  <2>1. Unfolds([id \in 1..0 |-> 0], 0)
    OBVIOUS
  <2>2. QED BY <2>1
<1>2. ASSUME NEW n \in Nat, n \in S PROVE n + 1 \in S
  <2> SUFFICES ASSUME n + 1 <= N PROVE \E f : Unfolds(f, n + 1)
    OBVIOUS
  <2>1. PICK f : Unfolds(f, n)
    BY <1>2, TypeIdsAre DEF SInv
  <2> DEFINE g == [id \in 1..(n + 1) |-> IF id <= n THEN f[id] ELSE ErasedOf(f, id)]
  <2>2. ASSUME NEW id \in 1..(n + 1) PROVE ErasedOf(g, id) = ErasedOf(f, id)
    <3>1. id \in TypeIds /\ \A r \in 1..n : g[r] = f[r]
      BY TypeIdsAre DEF SInv
    <3>2. \A r \in Refers(nodes["type"][id]) : g[r] = f[r]
      BY <3>1 DEF SInv, Layered
    <3> HIDE DEF g
    <3>3. /\ Mapped(g, nodes["type"][id].kids) = Mapped(f, nodes["type"][id].kids)
          /\ Mapped(g, Con(nodes["type"][id]).kids) = Mapped(f, Con(nodes["type"][id]).kids)
      BY <3>2, MappedAgree
    <3>4. QED BY <3>3, Zenon DEF ErasedOf
  <2>3. Unfolds(g, n + 1)
    <3> SUFFICES ASSUME NEW id \in 1..(n + 1) PROVE g[id] = ErasedOf(g, id)
      OBVIOUS
    <3>1. id <= n => g[id] = f[id] /\ f[id] = ErasedOf(f, id)
      BY <2>1
    <3>2. ~(id <= n) => g[id] = ErasedOf(f, id)
      OBVIOUS
    <3> HIDE DEF g
    <3>3. QED BY <2>2, <3>1, <3>2
  <2>4. QED BY <2>3
<1>3. \A n \in Nat : n \in S
  <2> HIDE DEF S
  <2>1. QED BY <1>1, <1>2, SetInduction
<1>4. \E f : f = [id \in TypeIds |-> ErasedOf(f, id)]
  BY <1>3, TypeIdsAre DEF SInv
<1>5. Erased = [id \in TypeIds |-> ErasedOf(Erased, id)]
  BY <1>4, Zenon DEF Erased, ErasedOf, Stripped, Mapped, Con
<1>6. QED BY <1>5

ErasedUnfolds == \A id \in TypeIds : Erased[id] = ErasedOf(Erased, id)

\* What an entry means does not change when others are appended.
LEMMA ErasedStable ==
    ASSUME SInv, ErasedUnfolds, ErasedUnfolds',
           \A id \in TypeIds : id \in TypeIds' /\ nodes'["type"][id] = nodes["type"][id],
           \A c \in ConstraintIds :
                c \in ConstraintIds' /\ nodes'["constraint"][c] = nodes["constraint"][c]
    PROVE  \A id \in TypeIds : (Erased')[id] = Erased[id]
<1> DEFINE S == {n \in Nat : \A id \in TypeIds : id <= n => (Erased')[id] = Erased[id]}
<1>1. 0 \in S
  <2>1. \A i \in TypeIds : i \in Nat /\ ~(i <= 0)
    BY TypeIdsAre DEF SInv
  <2>2. QED BY <2>1
<1>2. ASSUME NEW n \in Nat, n \in S PROVE n + 1 \in S
  <2> SUFFICES ASSUME NEW id \in TypeIds, id <= n + 1 PROVE (Erased')[id] = Erased[id]
    OBVIOUS
  <2>1. PICK d \in Defs : d = nodes["type"][id] /\ d = nodes'["type"][id] /\ Closed(d)
    BY TypeIdsAre DEF SInv
  <2>2. Con(d)' = Con(d)
    BY <2>1 DEF Con, Closed
  <2>3. \A r \in Refers(d) : r \in TypeIds /\ r <= n
    <3>1. TypeIds = 1..N /\ N \in Nat /\ \A r \in Refers(d) : r \in 1..(id - 1)
      BY <2>1, TypeIdsAre DEF SInv, Layered
    <3>2. QED BY <3>1
  <2>4. \A r \in Refers(d) : (Erased')[r] = Erased[r]
    BY <1>2, <2>3
  <2>5. PICK f, g : f = Erased /\ g = Erased'
    OBVIOUS
  <2>6. Mapped(g, d.kids) = Mapped(f, d.kids) /\ Mapped(g, Con(d).kids) = Mapped(f, Con(d).kids)
    BY <2>4, <2>5, MappedAgree
  <2>7. /\ Erased[id] = Stripped(d, Mapped(f, d.kids), Con(d), Mapped(f, Con(d).kids))
        /\ (Erased')[id] = Stripped(d, Mapped(g, d.kids), Con(d), Mapped(g, Con(d).kids))
    <3>1. Erased[id] = ErasedOf(Erased, id) /\ (Erased')[id] = ErasedOf(Erased, id)'
      BY DEF ErasedUnfolds
    <3>2. ErasedOf(Erased, id) = Stripped(d, Mapped(f, d.kids), Con(d), Mapped(f, Con(d).kids))
      BY <2>1, <2>5, Zenon DEF ErasedOf
    <3>3. ErasedOf(Erased, id)' =
            Stripped(nodes'["type"][id], Mapped(Erased', nodes'["type"][id].kids),
                     Con(nodes["type"][id])', Mapped(Erased', (Con(nodes["type"][id])').kids))
      BY Zenon DEF ErasedOf, Mapped, Stripped
    <3>4. Con(nodes["type"][id])' = Con(d)'
      BY <2>1 DEF Con
    <3>5. QED BY <2>1, <2>2, <2>5, <3>1, <3>2, <3>3, <3>4, Zenon
  <2>8. QED BY <2>5, <2>6, <2>7, Zenon
<1>3. \A n \in Nat : n \in S
  <2> HIDE DEF S
  <2>1. QED BY <1>1, <1>2, SetInduction
<1>4. N \in Nat /\ \A id \in TypeIds : id <= N
  BY TypeIdsAre DEF SInv
<1>5. QED BY <1>3, <1>4

(***************************************************************************)
(* What a type is made of.                                                 *)
(***************************************************************************)
PartsOf(f, id) == {id} \cup UNION {f[Kids(id)[k]] : k \in DOMAIN Kids(id)}

\* The kids of a type are older types.
LEMMA KidsAre ==
    ASSUME SInv, NEW id \in TypeIds, NEW k \in DOMAIN Kids(id)
    PROVE  Kids(id)[k] \in TypeIds /\ Kids(id)[k] \in 1..(id - 1)
<1>1. Closed(nodes["type"][id])
  BY TypeIdsAre DEF SInv
<1>2. QED BY <1>1 DEF SInv, Layered, Refers, Closed, Kids

LEMMA PartsIs ==
    ASSUME SInv
    PROVE  \A id \in TypeIds : Parts[id] = PartsOf(Parts, id)
<1> DEFINE Unfolds(f, n) == f = [id \in 1..n |-> PartsOf(f, id)]
           S == {n \in Nat : n <= N => \E f : Unfolds(f, n)}
<1>1. 0 \in S
  <2>1. Unfolds([id \in 1..0 |-> 0], 0)
    OBVIOUS
  <2>2. QED BY <2>1
<1>2. ASSUME NEW n \in Nat, n \in S PROVE n + 1 \in S
  <2> SUFFICES ASSUME n + 1 <= N PROVE \E f : Unfolds(f, n + 1)
    OBVIOUS
  <2>1. PICK f : Unfolds(f, n)
    BY <1>2, TypeIdsAre DEF SInv
  <2> DEFINE g == [id \in 1..(n + 1) |-> IF id <= n THEN f[id] ELSE PartsOf(f, id)]
  <2>2. ASSUME NEW id \in 1..(n + 1) PROVE PartsOf(g, id) = PartsOf(f, id)
    <3>1. id \in TypeIds /\ \A r \in 1..n : g[r] = f[r]
      BY TypeIdsAre DEF SInv
    <3>2. \A k \in DOMAIN Kids(id) : g[Kids(id)[k]] = f[Kids(id)[k]]
      BY <3>1, KidsAre
    <3> HIDE DEF g
    <3>3. {g[Kids(id)[k]] : k \in DOMAIN Kids(id)} = {f[Kids(id)[k]] : k \in DOMAIN Kids(id)}
      BY <3>2
    <3>4. QED BY <3>3, Zenon DEF PartsOf
  <2>3. Unfolds(g, n + 1)
    <3> SUFFICES ASSUME NEW id \in 1..(n + 1) PROVE g[id] = PartsOf(g, id)
      OBVIOUS
    <3>1. id <= n => g[id] = f[id] /\ f[id] = PartsOf(f, id)
      BY <2>1
    <3>2. ~(id <= n) => g[id] = PartsOf(f, id)
      OBVIOUS
    <3> HIDE DEF g
    <3>3. QED BY <2>2, <3>1, <3>2
  <2>4. QED BY <2>3
<1>3. \A n \in Nat : n \in S
  <2> HIDE DEF S
  <2>1. QED BY <1>1, <1>2, SetInduction
<1>4. \E f : f = [id \in TypeIds |-> PartsOf(f, id)]
  BY <1>3, TypeIdsAre DEF SInv
<1>5. Parts = [id \in TypeIds |-> PartsOf(Parts, id)]
  BY <1>4, Zenon DEF Parts, PartsOf
<1>6. QED BY <1>5

PartsUnfold == \A id \in TypeIds : Parts[id] = PartsOf(Parts, id)

\* A type is a part of itself, and the parts of a kid are parts of it.
LEMMA PartsOfKids ==
    ASSUME PartsUnfold, NEW id \in TypeIds
    PROVE  id \in Parts[id] /\ \A k \in DOMAIN Kids(id) : Parts[Kids(id)[k]] \subseteq Parts[id]
  BY DEF PartsUnfold, PartsOf

LEMMA PartsAreTypes ==
    ASSUME SInv, PartsUnfold
    PROVE  \A id \in TypeIds : Parts[id] \subseteq TypeIds
<1> DEFINE S == {n \in Nat : n \in TypeIds => Parts[n] \subseteq TypeIds}
<1>1. ASSUME NEW id \in Nat, \A m \in Nat : m < id => m \in S PROVE id \in S
  <2> SUFFICES ASSUME id \in TypeIds PROVE Parts[id] \subseteq TypeIds
    OBVIOUS
  <2>1. ASSUME NEW k \in DOMAIN Kids(id) PROVE Parts[Kids(id)[k]] \subseteq TypeIds
    <3>1. Kids(id)[k] \in TypeIds /\ Kids(id)[k] \in 1..(id - 1)
      BY KidsAre
    <3>2. QED BY <1>1, <3>1
  <2>2. QED BY <2>1 DEF PartsUnfold, PartsOf
<1>2. \A n \in Nat : n \in S
  <2> HIDE DEF S
  <2>1. QED BY <1>1, SetStrongInduction
<1>3. QED BY <1>2, TypeIdsAre DEF SInv

\* The parts of an entry do not change when others are appended.
LEMMA PartsStable ==
    ASSUME SInv, PartsUnfold, PartsUnfold',
           \A id \in TypeIds : id \in TypeIds' /\ nodes'["type"][id] = nodes["type"][id]
    PROVE  \A id \in TypeIds : (Parts')[id] = Parts[id]
<1> DEFINE S == {n \in Nat : n \in TypeIds => (Parts')[n] = Parts[n]}
<1>1. ASSUME NEW id \in Nat, \A m \in Nat : m < id => m \in S PROVE id \in S
  <2> SUFFICES ASSUME id \in TypeIds PROVE (Parts')[id] = Parts[id]
    OBVIOUS
  <2>1. PICK kids, f, g : kids = Kids(id) /\ kids = Kids(id)' /\ f = Parts /\ g = Parts'
    BY DEF Kids
  <2>2. \A k \in DOMAIN kids : g[kids[k]] = f[kids[k]]
    <3>1. \A k \in DOMAIN kids : kids[k] \in TypeIds /\ kids[k] \in 1..(id - 1)
      BY <2>1, KidsAre
    <3>2. QED BY <1>1, <2>1, <3>1
  <2>3. /\ f[id] = {id} \cup UNION {f[kids[k]] : k \in DOMAIN kids}
        /\ g[id] = {id} \cup UNION {g[kids[k]] : k \in DOMAIN kids}
    <3>1. Parts[id] = PartsOf(Parts, id) /\ (Parts')[id] = PartsOf(Parts, id)'
      BY DEF PartsUnfold
    <3>2. QED BY <2>1, <3>1 DEF PartsOf
  <2>4. {g[kids[k]] : k \in DOMAIN kids} = {f[kids[k]] : k \in DOMAIN kids}
    BY <2>2
  <2>5. QED BY <2>1, <2>3, <2>4
<1>2. \A n \in Nat : n \in S
  <2> HIDE DEF S
  <2>1. QED BY <1>1, SetStrongInduction
<1>3. QED BY <1>2, TypeIdsAre DEF SInv

LEMMA RefinesOne ==
    ASSUME NEW d \in Defs, Closed(d), d.kind = "Refined"
    PROVE  DOMAIN d.kids = 1..1 /\ d.kids[1] \in TypeIds /\ d.kids[1] \in Refers(d)
<1>1. d.kids \in Seq(Nat) /\ Len(d.kids) = 1
  BY DEF Defs, Closed
<1>2. DOMAIN d.kids = 1..1 /\ 1 \in 1..1
  BY <1>1
<1>3. QED BY <1>2 DEF Closed, Refers

\* Nor do its ends get labels, or lose them.
LEMMA EndsStable ==
    ASSUME SInv, PartsUnfold, PartsUnfold',
           \A id \in TypeIds : id \in TypeIds' /\ nodes'["type"][id] = nodes["type"][id]
    PROVE  \A id \in TypeIds : id \in EndsLabelled' <=> id \in EndsLabelled
<1> DEFINE Labels(p) == /\ Kind(p) = "Refined" /\ nodes["type"][p].constraint = 0
                        /\ Kind(Kids(p)[1]) \in {"Any", "Never"}
<1>1. \A p \in TypeIds : Labels(p)' <=> Labels(p)
  <2> SUFFICES ASSUME NEW p \in TypeIds PROVE Labels(p)' <=> Labels(p)
    OBVIOUS
  <2>1. PICK d \in Defs : d = nodes["type"][p] /\ d = nodes'["type"][p] /\ Closed(d)
    BY TypeIdsAre DEF SInv
  <2>2. d.kind = "Refined" => d.kids[1] \in TypeIds
    BY <2>1, RefinesOne
  <2>3. d.kind = "Refined" => nodes'["type"][d.kids[1]] = nodes["type"][d.kids[1]]
    BY <2>2
  <2>4. QED BY <2>1, <2>3 DEF Kind, Kids
<1>2. \A id \in TypeIds : (Parts')[id] = Parts[id] /\ Parts[id] \subseteq TypeIds
  BY PartsStable, PartsAreTypes
<1>3. \A id \in TypeIds : (id \in EndsLabelled <=> \E p \in Parts[id] : Labels(p))
  BY DEF EndsLabelled
<1>4. \A id \in TypeIds : (id \in EndsLabelled' <=> \E p \in (Parts')[id] : Labels(p)')
  BY DEF EndsLabelled
<1> HIDE DEF Labels
<1>5. QED BY <1>1, <1>2, <1>3, <1>4

\* A type with no sum that may repeat a member is made of such types, and none
\* of its members has labelled ends.
LEMMA RepeatsNot ==
    ASSUME SInv, PartsUnfold, NEW id \in TypeIds, id \notin MayRepeat, NEW k \in DOMAIN Kids(id)
    PROVE  Kids(id)[k] \notin MayRepeat /\ (Kind(id) = "Sum" => Kids(id)[k] \notin EndsLabelled)
  BY PartsOfKids DEF MayRepeat

(***************************************************************************)
(* The column of semantic fingerprints.                                    *)
(***************************************************************************)
Column == \A id \in TypeIds : semantic[id] = Semantic(nodes["type"][id])

Kempt(t, def) == Atomic(t, def) /\ Apart(def)

\* Every entry has its semantic fingerprint, and sums, atoms and constraints
\* are as the intern functions left them.
EInv ==
    /\ Column
    /\ \A t \in Tables : \A i \in DOMAIN nodes[t] : Kempt(t, nodes[t][i])
    /\ pc = "find" => Kempt(request.table, request.def)

LEMMA SemanticColumn ==
    ASSUME TypeOK
    PROVE  DOMAIN semantic = TypeIds /\ semantic \in Seq(Nat) /\ 0 \notin TypeIds
           /\ \A id : SemanticFingerprint(id) \in Nat
<1>1. TypeIds = 1..Len(nodes["type"])
  BY Columns, NoRequestOK DEF TypeIds
<1>2. semantic \in Seq(Nat) /\ Len(semantic) = Len(nodes["type"])
  BY DEF TypeOK
<1>3. DOMAIN semantic = TypeIds /\ 0 \notin TypeIds
  BY <1>1, <1>2
<1>4. QED BY <1>2, <1>3 DEF SemanticFingerprint

LEMMA SemanticStable ==
    ASSUME TypeOK, TypeOK', NEW def \in Defs, Closed(def),
           \A id \in TypeIds : id \in TypeIds' /\ semantic'[id] = semantic[id],
           \A c \in ConstraintIds :
                c \in ConstraintIds' /\ fingerprints'["constraint"][c] = fingerprints["constraint"][c]
    PROVE  Semantic(def)' = Semantic(def)
<1>1. \A id \in TypeIds : SemanticFingerprint(id)' = SemanticFingerprint(id)
  <2>1. nodes["type"] \in Seq(Defs) /\ nodes'["type"] \in Seq(Defs)
    BY NoRequestOK DEF TypeOK, Defs
  <2>2. /\ semantic \in Seq(Nat) /\ Len(semantic) = Len(nodes["type"])
        /\ semantic' \in Seq(Nat) /\ Len(semantic') = Len(nodes'["type"])
    BY DEF TypeOK
  <2>3. DOMAIN semantic = TypeIds /\ DOMAIN semantic' = TypeIds'
    BY <2>1, <2>2 DEF TypeIds
  <2>4. QED BY <2>3 DEF SemanticFingerprint
<1>2. "constraint" \in Tables
  BY DEF Tables
<1>3. /\ DOMAIN fingerprints["constraint"] = ConstraintIds /\ 0 \notin ConstraintIds
      /\ DOMAIN fingerprints'["constraint"] = ConstraintIds' /\ 0 \notin ConstraintIds'
  <2>1. nodes["constraint"] \in Seq(Defs) /\ nodes'["constraint"] \in Seq(Defs)
    BY <1>2 DEF TypeOK, Defs
  <2>2. /\ fingerprints["constraint"] \in Seq(Nat) /\ fingerprints'["constraint"] \in Seq(Nat)
        /\ Len(fingerprints["constraint"]) = Len(nodes["constraint"])
        /\ Len(fingerprints'["constraint"]) = Len(nodes'["constraint"])
    BY <1>2 DEF TypeOK
  <2>3. QED BY <2>1, <2>2 DEF ConstraintIds
<1>4. \A c \in ConstraintIds \cup {0} :
        Fingerprint("constraint", c)' = Fingerprint("constraint", c)
  BY <1>3 DEF Fingerprint
<1>5. [k \in DOMAIN def.kids |-> SemanticFingerprint(def.kids[k])]' =
      [k \in DOMAIN def.kids |-> SemanticFingerprint(def.kids[k])]
  BY <1>1 DEF Closed
<1>6. Fingerprint("constraint", def.constraint)' = Fingerprint("constraint", def.constraint)
  BY <1>4 DEF Closed
<1>7. SemanticHash(def)' = SemanticHash(def)
  BY <1>5, <1>6, Zenon DEF SemanticHash, SemanticLabels
<1>8. def.kind = "Refined" => def.kids[1] \in TypeIds
  BY DEF Closed, Defs
<1>9. QED BY <1>1, <1>7, <1>8 DEF Semantic

LEMMA KemptStable ==
    ASSUME SInv, ErasedUnfolds, ErasedUnfolds', PartsUnfold, PartsUnfold',
           \A id \in TypeIds : id \in TypeIds' /\ nodes'["type"][id] = nodes["type"][id],
           \A c \in ConstraintIds :
                c \in ConstraintIds' /\ nodes'["constraint"][c] = nodes["constraint"][c],
           NEW t \in Tables, NEW def \in Defs, Closed(def), Kempt(t, def)
    PROVE  Kempt(t, def)'
<1>1. \A id \in TypeIds : (Erased')[id] = Erased[id]
  BY ErasedStable
<1>2. \A k \in DOMAIN def.kids : def.kids[k] \in TypeIds
  BY DEF Closed
<1>3. Apart(def)'
  <2>1. PICK f, g : f = Erased /\ g = Erased'
    OBVIOUS
  <2>2. \A k \in DOMAIN def.kids : f[def.kids[k]] = g[def.kids[k]]
    BY <1>1, <1>2, <2>1
  <2>3. def.kind = "Sum" => \A k, l \in DOMAIN def.kids :
            \/ f[def.kids[k]] = f[def.kids[l]] => k = l
            \/ def.kids[k] \in EndsLabelled \/ def.kids[l] \in EndsLabelled
    BY <2>1 DEF Kempt, Apart
  <2>4. \A k \in DOMAIN def.kids : def.kids[k] \in EndsLabelled' <=> def.kids[k] \in EndsLabelled
    BY <1>2, EndsStable
  <2>5. def.kind = "Sum" => \A k, l \in DOMAIN def.kids :
            \/ g[def.kids[k]] = g[def.kids[l]] => k = l
            \/ def.kids[k] \in EndsLabelled' \/ def.kids[l] \in EndsLabelled'
    BY <2>2, <2>3, <2>4
  <2>6. QED BY <2>1, <2>5 DEF Apart
<1>4. Atomic(t, def)'
  BY <1>2 DEF Kempt, Atomic, Kind
<1>5. QED BY <1>3, <1>4 DEF Kempt

LEMMA ColumnsKept ==
    ASSUME IInv, [Next]_vars
    PROVE  /\ \A id \in TypeIds : semantic'[id] = semantic[id]
           /\ \A t \in Tables : \A i \in DOMAIN nodes[t] :
                i \in DOMAIN nodes'[t] /\ fingerprints'[t][i] = fingerprints[t][i]
           /\ ~AppendNode => UNCHANGED tables
<1>1. CASE AppendNode
  <2>1. PICK t \in Tables : request.table = t
    BY DEF IInv, TypeOK
  <2>2. /\ fingerprints' = [fingerprints EXCEPT ![t] = Append(@, request.fp)]
        /\ semantic' = IF t = "type" THEN Append(semantic, Semantic(request.def)) ELSE semantic
    BY <1>1, <2>1 DEF AppendNode
  <2>3. /\ DOMAIN semantic = TypeIds /\ semantic \in Seq(Nat)
        /\ fingerprints \in [Tables -> Seq(Nat)]
    BY SemanticColumn DEF IInv, TypeOK
  <2>4. \A id \in TypeIds : semantic'[id] = semantic[id]
    BY <2>2, <2>3
  <2>5. ASSUME NEW u \in Tables, NEW i \in DOMAIN nodes[u]
        PROVE  i \in DOMAIN nodes'[u] /\ fingerprints'[u][i] = fingerprints[u][i]
    <3>1. i \in DOMAIN nodes'[u]
      <4>1. DOMAIN nodes[u] = 1..Len(nodes[u]) /\ Len(nodes[u]) \in Nat
        BY Columns DEF IInv
      <4>2. QED BY <1>1, <4>1, Appended
    <3>2. DOMAIN fingerprints[u] = DOMAIN nodes[u] /\ fingerprints[u] \in Seq(Nat)
      BY <2>3, Columns DEF IInv
    <3>3. CASE u = t
      <4>1. fingerprints'[u] = Append(fingerprints[u], request.fp)
        BY <2>2, <2>3, <3>3
      <4>2. QED BY <3>1, <3>2, <4>1
    <3>4. CASE u # t
      BY <2>2, <2>3, <3>1, <3>4
    <3>5. QED BY <3>3, <3>4
  <2>6. QED BY <1>1, <2>4, <2>5
<1>2. CASE ~AppendNode
  <2>1. CASE UNCHANGED vars
    BY <1>2, <2>1 DEF vars, tables
  <2>2. CASE FindNext \/ FindHit \/ Asked \/ Answered
    BY <1>2, <2>2 DEF FindNext, FindHit, Asked, Answered, Intern, Return, tables
  <2>3. QED BY <1>2, <2>1, <2>2, NextAsks
<1>3. QED BY <1>1, <1>2

LEMMA TablesColumn ==
    ASSUME IInv, IInv', Column, UNCHANGED tables PROVE Column'
<1>1. /\ nodes' = nodes /\ TypeIds' = TypeIds /\ ConstraintIds' = ConstraintIds
      /\ semantic' = semantic /\ fingerprints' = fingerprints
  BY DEF tables, TypeIds, ConstraintIds
<1>2. \A def \in Defs : Closed(def) => Semantic(def)' = Semantic(def)
  BY <1>1, SemanticStable DEF IInv
<1>3. ASSUME NEW id \in TypeIds PROVE semantic'[id] = Semantic(nodes["type"][id])'
  <2>1. PICK d \in Defs : d = nodes["type"][id] /\ d = nodes'["type"][id] /\ Closed(d)
    BY <1>1, TypeIdsAre
  <2>2. semantic'[id] = Semantic(d)
    BY <1>1, <2>1 DEF Column
  <2>3. Semantic(d)' = Semantic(d)
    BY <1>2, <2>1
  <2>4. QED BY <2>1, <2>2, <2>3, Zenon DEF Semantic, SemanticHash, SemanticLabels
<1>4. QED BY <1>1, <1>3 DEF Column

LEMMA NextColumn ==
    ASSUME IInv, IInv', Column, [Next]_vars
    PROVE  Column'
<1>1. /\ \A id \in TypeIds : id \in TypeIds' /\ nodes'["type"][id] = nodes["type"][id]
      /\ \A c \in ConstraintIds :
            c \in ConstraintIds' /\ nodes'["constraint"][c] = nodes["constraint"][c]
  BY EntriesKept
<1>2. \A def \in Defs : Closed(def) => Semantic(def)' = Semantic(def)
  <2>1. /\ \A id \in TypeIds : semantic'[id] = semantic[id]
        /\ \A c \in ConstraintIds : fingerprints'["constraint"][c] = fingerprints["constraint"][c]
    BY ColumnsKept DEF Tables, ConstraintIds
  <2>2. QED BY <1>1, <2>1, SemanticStable DEF IInv
<1>3. \A id \in TypeIds : semantic'[id] = Semantic(nodes["type"][id])'
  <2> SUFFICES ASSUME NEW id \in TypeIds PROVE semantic'[id] = Semantic(nodes["type"][id])'
    OBVIOUS
  <2>1. PICK d \in Defs : d = nodes["type"][id] /\ d = nodes'["type"][id] /\ Closed(d)
    BY <1>1, TypeIdsAre
  <2>2. semantic'[id] = Semantic(d)
    BY <2>1, ColumnsKept DEF Column
  <2>3. Semantic(d)' = Semantic(d)
    BY <1>2, <2>1
  <2>4. QED BY <2>1, <2>2, <2>3, Zenon DEF Semantic, SemanticHash, SemanticLabels
<1>4. CASE AppendNode
  <2>1. PICK t \in Tables, def \in Defs :
            /\ pc = "find" /\ request.table = t /\ request.def = def /\ Closed(def)
            /\ \A u \in Tables \ {t} : nodes'[u] = nodes[u]
            /\ DOMAIN nodes'[t] = 1..(Len(nodes[t]) + 1)
            /\ nodes'[t][Len(nodes[t]) + 1] = def
    BY <1>4, Appended
  <2>2. \A id \in TypeIds' : id \in TypeIds \/ (t = "type" /\ id = N + 1 /\ nodes'["type"][id] = def)
    <3>1. TypeIds = 1..N /\ N \in Nat
      BY TypeIdsAre
    <3>2. \A id \in 1..(N + 1) : id \in 1..N \/ id = N + 1
      BY <3>1
    <3>3. QED BY <2>1, <3>1, <3>2, NoRequestOK DEF TypeIds, N
  <2>3. ASSUME NEW id \in TypeIds' PROVE semantic'[id] = Semantic(nodes["type"][id])'
    <3>1. CASE id \in TypeIds
      BY <1>3, <3>1
    <3>2. CASE t = "type" /\ id = N + 1 /\ nodes'["type"][id] = def
      <4>1. semantic' = Append(semantic, Semantic(def))
        BY <1>4, <2>1, <3>2 DEF AppendNode
      <4>2. semantic \in Seq(Nat) /\ Len(semantic) = N
        BY DEF IInv, TypeOK, N
      <4>3. semantic'[id] = Semantic(def)
        BY <3>2, <4>1, <4>2
      <4>4. Semantic(def)' = Semantic(def)
        BY <1>2, <2>1
      <4>5. QED BY <3>2, <4>3, <4>4, Zenon DEF Semantic, SemanticHash, SemanticLabels
    <3>3. QED BY <2>2, <2>3, <3>1, <3>2
  <2>4. QED BY <2>3 DEF Column
<1>5. CASE ~AppendNode
  <2>1. UNCHANGED tables /\ TypeIds' = TypeIds
    BY <1>5, ColumnsKept DEF tables, TypeIds
  <2>2. QED BY <1>3, <2>1 DEF Column
<1>6. QED BY <1>4, <1>5

\* What the end of a walk returns carries the two hashes of the request.
LEMMA WalkEnds ==
    ASSUME IInv, Column, FindHit \/ AppendNode
    PROVE  /\ pc = "find" /\ pc' = "idle" /\ result' \in DOMAIN nodes'[request.table]
           /\ fingerprints'[request.table][result'] = Hash(Encode(request.def))
           /\ request.table = "type" => semantic'[result'] = Semantic(request.def)
<1>1. PICK t \in Tables, def \in Defs : request.table = t /\ request.def = def
  BY DEF IInv, TypeOK, Defs
<1>2. /\ DOMAIN nodes[t] = 1..Len(nodes[t]) /\ DOMAIN fingerprints[t] = 1..Len(nodes[t])
      /\ Len(nodes[t]) \in Nat /\ DOMAIN semantic = TypeIds /\ semantic \in Seq(Nat)
  BY Columns, SemanticColumn DEF IInv
<1>3. CASE FindHit
  <2>1. /\ UNCHANGED tables /\ pc = "find" /\ pc' = "idle" /\ result' = cursor
        /\ cursor # 0 /\ nodes[t][cursor] = def
    BY <1>1, <1>3 DEF FindHit, Equal
  <2>2. cursor \in DOMAIN nodes[t]
    <3>1. cursor \in 0..Len(nodes[t])
      BY <1>1 DEF IInv, TypeOK
    <3>2. QED BY <1>2, <2>1, <3>1
  <2>3. fingerprints[t][cursor] = Hash(Encode(def))
    BY <2>1, <2>2 DEF IInv, Faithful
  <2>4. t = "type" => semantic[cursor] = Semantic(def)
    BY <2>1, <2>2 DEF Column, TypeIds
  <2>5. QED BY <1>1, <2>1, <2>2, <2>3, <2>4 DEF tables
<1>4. CASE AppendNode
  <2> DEFINE id == Len(nodes[t]) + 1
  <2>1. /\ pc = "find" /\ pc' = "idle" /\ result' = id
        /\ fingerprints' = [fingerprints EXCEPT ![t] = Append(@, request.fp)]
        /\ semantic' = IF t = "type" THEN Append(semantic, Semantic(def)) ELSE semantic
    BY <1>1, <1>4 DEF AppendNode
  <2>2. id \in DOMAIN nodes'[t]
    BY <1>1, <1>2, <1>4, Appended
  <2>3. fingerprints'[t][id] = Hash(Encode(def))
    <3>1. request.fp = Hash(Encode(def))
      BY <1>1, <2>1 DEF IInv, Searching
    <3>2. fingerprints'[t] = Append(fingerprints[t], request.fp)
      BY <2>1 DEF IInv, TypeOK
    <3>3. fingerprints[t] \in Seq(Nat) /\ Len(fingerprints[t]) = Len(nodes[t])
      BY DEF IInv, TypeOK
    <3>4. QED BY <3>1, <3>2, <3>3
  <2>4. t = "type" => semantic'[id] = Semantic(def)
    <3>1. Len(semantic) = Len(nodes["type"])
      BY DEF IInv, TypeOK
    <3>2. QED BY <1>2, <2>1, <3>1
  <2>5. QED BY <1>1, <2>1, <2>2, <2>3, <2>4
<1>5. QED BY <1>3, <1>4

LEMMA InitEInv == Init => EInv
<1> SUFFICES ASSUME Init PROVE EInv
  OBVIOUS
<1>1. TypeIds = {} /\ pc = "idle" /\ \A t \in Tables : DOMAIN nodes[t] = {}
  BY NoRequestOK DEF Init, TypeIds
<1>2. QED BY <1>1 DEF EInv, Column

LEMMA NextEInv ==
    ASSUME SInv, SInv', ErasedUnfolds, ErasedUnfolds', PartsUnfold, PartsUnfold', EInv, [Next]_vars
    PROVE  EInv'
<1>1. /\ \A id \in TypeIds : id \in TypeIds' /\ nodes'["type"][id] = nodes["type"][id]
      /\ \A c \in ConstraintIds :
            c \in ConstraintIds' /\ nodes'["constraint"][c] = nodes["constraint"][c]
  BY EntriesKept DEF SInv
<1>2. \A t \in Tables, def \in Defs : Closed(def) /\ Kempt(t, def) => Kempt(t, def)'
  BY <1>1, KemptStable
<1>3. \A t \in Tables : \A i \in DOMAIN nodes[t] :
            nodes[t][i] \in Defs /\ Closed(nodes[t][i]) /\ Kempt(t, nodes[t][i])
  BY TypeIdsAre DEF SInv, EInv, Tables, TypeIds, ConstraintIds
<1>6. Column'
  BY NextColumn DEF SInv, EInv
<1>4. CASE AppendNode
  <2>1. PICK t \in Tables, def \in Defs :
            /\ pc = "find" /\ request.table = t /\ request.def = def /\ Closed(def)
            /\ \A u \in Tables \ {t} : nodes'[u] = nodes[u]
            /\ DOMAIN nodes'[t] = 1..(Len(nodes[t]) + 1)
            /\ nodes'[t][Len(nodes[t]) + 1] = def
            /\ \A i \in DOMAIN nodes[t] : nodes'[t][i] = nodes[t][i]
            /\ pc' = "idle"
    BY <1>4, Appended DEF SInv
  <2>2. Kempt(t, def)'
    BY <1>2, <2>1 DEF EInv
  <2>3. \A u \in Tables : \A i \in DOMAIN nodes'[u] :
            (i \in DOMAIN nodes[u] /\ nodes'[u][i] = nodes[u][i]) \/ (u = t /\ nodes'[u][i] = def)
    <3>1. DOMAIN nodes[t] = 1..Len(nodes[t]) /\ Len(nodes[t]) \in Nat
      BY Columns DEF SInv, IInv
    <3>2. QED BY <2>1, <3>1
  <2>4. \A u \in Tables : \A i \in DOMAIN nodes'[u] : Kempt(u, nodes[u][i])'
    <3> SUFFICES ASSUME NEW u \in Tables, NEW i \in DOMAIN nodes'[u] PROVE Kempt(u, nodes[u][i])'
      OBVIOUS
    <3>1. PICK e \in Defs : e = nodes'[u][i] /\ Kempt(u, e)'
      BY <1>2, <1>3, <2>2, <2>3
    <3>2. QED BY <3>1 DEF Kempt, Atomic, Apart
  <2>5. QED BY <1>6, <2>1, <2>4 DEF EInv
<1>5. CASE ~AppendNode
  <2>1. UNCHANGED tables /\ TypeIds' = TypeIds /\ nodes' = nodes
    BY <1>5, ColumnsKept DEF SInv, tables, TypeIds
  <2>3. \A u \in Tables : \A i \in DOMAIN nodes'[u] : Kempt(u, nodes[u][i])'
    <3> SUFFICES ASSUME NEW u \in Tables, NEW i \in DOMAIN nodes'[u] PROVE Kempt(u, nodes[u][i])'
      OBVIOUS
    <3>1. PICK e \in Defs : e = nodes'[u][i] /\ Kempt(u, e)'
      BY <1>2, <1>3, <2>1
    <3>2. QED BY <3>1 DEF Kempt, Atomic, Apart
  <2>4. pc' = "find" => Kempt(request.table, request.def)'
    <3>1. CASE UNCHANGED <<request, pc>>
      <4>1. pc = "find" => /\ request.def \in Defs /\ Closed(request.def) /\ request.table \in Tables
                           /\ Kempt(request.table, request.def)
        BY DEF SInv, IInv, TypeOK, Searching, EInv, Defs
      <4>2. pc = "find" => Kempt(request.table, request.def)'
        <5> SUFFICES ASSUME pc = "find" PROVE Kempt(request.table, request.def)'
          OBVIOUS
        <5>1. PICK t \in Tables, e \in Defs : t = request.table /\ e = request.def /\ Kempt(t, e)'
          BY <1>2, <4>1
        <5>2. QED BY <3>1, <5>1 DEF Kempt, Atomic, Apart
      <4>3. QED BY <3>1, <4>2
    <3>2. CASE Asked
      <4>1. PICK t, def : t \in Tables /\ Intern(t, def) /\ Kempt(t, def)
        BY <3>2 DEF Asked, Legal, Kempt
      <4>2. request'.def = def /\ request'.table = t /\ pc' = "find"
        BY <4>1 DEF Intern
      <4>3. def \in Defs /\ Closed(def)'
        BY <4>2 DEF SInv, IInv, TypeOK, Searching, Defs
      <4>4. Closed(def)
        BY <2>1, <4>3 DEF Closed, ConstraintIds
      <4>5. Kempt(t, def)'
        BY <1>2, <4>1, <4>3, <4>4
      <4>6. QED BY <4>2, <4>5 DEF Kempt, Atomic, Apart
    <3>3. CASE FindHit
      BY <3>3 DEF FindHit
    <3>4. CASE FindNext \/ Answered \/ UNCHANGED vars
      BY <3>1, <3>4 DEF FindNext, Answered, Return, vars
    <3>5. QED BY <1>5, <3>2, <3>3, <3>4, NextAsks DEF SInv
  <2>5. QED BY <1>6, <2>3, <2>4 DEF EInv
<1>8. QED BY <1>4, <1>5

(***************************************************************************)
(* What is erased to the same means the same.                              *)
(***************************************************************************)
Vacuously(def) == def.kind = "Refined" /\ def.constraint = 0

\* Every entry means what one that is no vacuous refinement means.
LEMMA Bare ==
    ASSUME SInv, EInv, ErasedUnfolds, PartsUnfold
    PROVE  \A id \in TypeIds : \E b \in TypeIds :
                /\ b <= id /\ ~Vacuously(nodes["type"][b]) /\ Parts[b] \subseteq Parts[id]
                /\ Erased[b] = Erased[id] /\ semantic[b] = semantic[id]
<1> DEFINE Bared(id) == \E b \in TypeIds :
                /\ b <= id /\ ~Vacuously(nodes["type"][b]) /\ Parts[b] \subseteq Parts[id]
                /\ Erased[b] = Erased[id] /\ semantic[b] = semantic[id]
           S == {n \in Nat : n \in TypeIds => Bared(n)}
<1>1. ASSUME NEW id \in Nat, \A m \in Nat : m < id => m \in S PROVE id \in S
  <2> SUFFICES ASSUME id \in TypeIds PROVE Bared(id)
    OBVIOUS
  <2>1. PICK d \in Defs : d = nodes["type"][id] /\ Closed(d)
    BY TypeIdsAre DEF SInv
  <2>2. CASE ~Vacuously(d)
    BY <2>1, <2>2
  <2>3. CASE Vacuously(d)
    <3>1. d.kids[1] \in TypeIds /\ d.kids[1] \in Refers(d) /\ 1 \in DOMAIN d.kids
      BY <2>1, <2>3, RefinesOne DEF Vacuously
    <3>2. PICK kid \in TypeIds : kid = d.kids[1] /\ kid \in 1..(id - 1)
      BY <2>1, <3>1 DEF SInv, Layered
    <3>3. kid \in Nat /\ kid < id
      BY <3>2
    <3>4. PICK b \in TypeIds : /\ b <= kid /\ ~Vacuously(nodes["type"][b]) /\ Parts[b] \subseteq Parts[kid]
                               /\ Erased[b] = Erased[kid] /\ semantic[b] = semantic[kid]
      BY <1>1, <3>3
    <3>5. Erased[id] = Erased[kid]
      <4>1. Erased[id] = Mapped(Erased, d.kids)[1]
        BY <2>1, <2>3 DEF ErasedUnfolds, ErasedOf, Stripped, Vacuously
      <4>2. QED BY <3>1, <3>2, <4>1 DEF Mapped
    <3>6. semantic[id] = semantic[kid]
      <4>1. semantic[id] = SemanticFingerprint(kid)
        BY <2>1, <2>3, <3>2 DEF EInv, Column, Semantic, Vacuously
      <4>2. DOMAIN semantic = TypeIds
        BY SemanticColumn DEF SInv, IInv
      <4>3. QED BY <3>2, <4>1, <4>2 DEF SemanticFingerprint
    <3>7. b \in Nat /\ b <= id
      BY <3>3, <3>4, TypeIdsAre DEF SInv
    <3>8. Parts[kid] \subseteq Parts[id]
      BY <2>1, <3>1, <3>2, PartsOfKids DEF Kids
    <3>9. QED BY <3>4, <3>5, <3>6, <3>7, <3>8
  <2>4. QED BY <2>2, <2>3
<1>2. \A n \in Nat : n \in S
  <2> HIDE DEF S
  <2>1. QED BY <1>1, SetStrongInduction
<1>3. TypeIds \subseteq Nat
  BY TypeIdsAre DEF SInv
<1>4. QED BY <1>2, <1>3

\* An atom is known by its kind and its payload.
LEMMA AtomsAre ==
    ASSUME SInv, EInv, ErasedUnfolds, NEW a \in TypeIds, NEW b \in TypeIds,
           Kind(a) \in AtomKinds, Kind(b) \in AtomKinds, Erased[a] = Erased[b]
    PROVE  a = b
<1>1. PICK d \in Defs : d = nodes["type"][a] /\ Closed(d)
  BY TypeIdsAre DEF SInv
<1>2. PICK e \in Defs : e = nodes["type"][b] /\ Closed(e)
  BY TypeIdsAre DEF SInv
<1>3. /\ Shaped("type", d) /\ Shaped("type", e) /\ Atomic("type", d) /\ Atomic("type", e)
      /\ d.kind \in AtomKinds /\ e.kind \in AtomKinds
  BY <1>1, <1>2 DEF SInv, EInv, Kempt, Tables, TypeIds, Kind
<1>4. d.constraint = 0 /\ e.constraint = 0 /\ d.kids = <<>> /\ e.kids = <<>>
  BY <1>3 DEF Shaped, Atomic, AtomKinds
<1>5. /\ Erased[a] = <<d.kind, d.labels, Mapped(Erased, d.kids)>>
      /\ Erased[b] = <<e.kind, e.labels, Mapped(Erased, e.kids)>>
  BY <1>1, <1>2, <1>3 DEF ErasedUnfolds, ErasedOf, Stripped, AtomKinds
<1>6. PICK x, y : x = Mapped(Erased, d.kids) /\ y = Mapped(Erased, e.kids)
  OBVIOUS
<1>7. <<d.kind, d.labels, x>> = <<e.kind, e.labels, y>>
  BY <1>5, <1>6
<1>8. d.kind = e.kind /\ d.labels = e.labels
  BY <1>7
<1>9. d = e
  BY <1>4, <1>8, SameDef
<1>10. QED BY <1>1, <1>2, <1>9, NoRequestOK DEF SInv, IInv, Canonical, TypeIds

\* Equal images under f have equal images under g.
Carries(f, g, s, t) == \A k \in DOMAIN s, l \in DOMAIN t : f[s[k]] = f[t[l]] => g[s[k]] = g[t[l]]

Meant(kids) == [k \in DOMAIN kids |-> SemanticFingerprint(kids[k])]

LEMMA HashAlike ==
    ASSUME NEW d, NEW e, d.kind = e.kind, SemanticLabels(d) = SemanticLabels(e),
           IF d.kind = "Sum" THEN Ascending(Meant(d.kids)) = Ascending(Meant(e.kids))
                             ELSE Meant(d.kids) = Meant(e.kids),
           d.constraint = e.constraint
    PROVE  SemanticHash(d) = SemanticHash(e)
<1>1. /\ [k \in DOMAIN d.kids |-> SemanticFingerprint(d.kids[k])] = Meant(d.kids)
      /\ [k \in DOMAIN e.kids |-> SemanticFingerprint(e.kids[k])] = Meant(e.kids)
  BY DEF Meant
<1>2. PICK v, w : v = Meant(d.kids) /\ w = Meant(e.kids)
  OBVIOUS
<1>3. CASE d.kind = "Sum"
  <2>1. /\ SemanticHash(d) = Hash(Def(d.kind, SemanticLabels(d), Ascending(v), Fingerprint("constraint", d.constraint)))
        /\ SemanticHash(e) = Hash(Def(e.kind, SemanticLabels(e), Ascending(w), Fingerprint("constraint", e.constraint)))
    BY <1>1, <1>2, <1>3, Zenon DEF SemanticHash, EncodeSum
  <2>2. QED BY <1>2, <1>3, <2>1, Zenon
<1>4. CASE d.kind # "Sum"
  <2>1. /\ SemanticHash(d) = Hash(Def(d.kind, SemanticLabels(d), v, Fingerprint("constraint", d.constraint)))
        /\ SemanticHash(e) = Hash(Def(e.kind, SemanticLabels(e), w, Fingerprint("constraint", e.constraint)))
    BY <1>1, <1>2, <1>4, Zenon DEF SemanticHash
  <2>2. QED BY <1>2, <1>4, <2>1, Zenon
<1>5. QED BY <1>3, <1>4

\* Parts that are erased to the same families have the same hashes.
LEMMA MeantAlike ==
    ASSUME SInv, NEW f, NEW s \in Seq(Nat), NEW t \in Seq(Nat), Carries(f, semantic, s, t),
           \A k \in DOMAIN s : s[k] \in TypeIds, \A k \in DOMAIN t : t[k] \in TypeIds,
           Mapped(f, s) = Mapped(f, t)
    PROVE  Meant(s) = Meant(t)
<1>1. DOMAIN Mapped(f, s) = DOMAIN s /\ DOMAIN Mapped(f, t) = DOMAIN t
  BY DEF Mapped
<1>2. DOMAIN s = DOMAIN t
  BY <1>1
<1>3. \A k \in DOMAIN s : f[s[k]] = f[t[k]]
  BY <1>2 DEF Mapped
<1>4. \A k \in DOMAIN s : semantic[s[k]] = semantic[t[k]]
  BY <1>2, <1>3 DEF Carries
<1>5. DOMAIN semantic = TypeIds
  BY SemanticColumn DEF SInv, IInv
<1>6. \A k \in DOMAIN s : SemanticFingerprint(s[k]) = SemanticFingerprint(t[k])
  BY <1>2, <1>4, <1>5 DEF SemanticFingerprint
<1>7. [k \in DOMAIN s |-> SemanticFingerprint(s[k])] = [k \in DOMAIN t |-> SemanticFingerprint(t[k])]
  BY <1>2, <1>6, Zenon
<1>8. QED BY <1>7, Zenon DEF Meant

\* What the semantic encoding keeps of a field.
Cut(label) == SubSeq(label, 1, 2)

LEMMA ObjectsMean ==
    ASSUME SInv, NEW f, NEW d \in Defs, NEW e \in Defs, Closed(d), Closed(e),
           Shaped("type", d), Shaped("type", e), d.kind = "Object", e.kind = "Object",
           Carries(f, semantic, d.kids, e.kids),
           {<<SubSeq(d.labels[k], 1, 2), Mapped(f, d.kids)[k]>> : k \in DOMAIN d.kids} =
           {<<SubSeq(e.labels[k], 1, 2), Mapped(f, e.kids)[k]>> : k \in DOMAIN e.kids}
    PROVE  SemanticHash(d) = SemanticHash(e)
<1> DEFINE m == Len(d.kids)
           n == Len(e.kids)
           p == [k \in 1..m |-> <<Cut(d.labels[k]), f[d.kids[k]]>>]
           q == [k \in 1..n |-> <<Cut(e.labels[k]), f[e.kids[k]]>>]
           a == [k \in 1..m |-> d.labels[k][1]]
           b == [k \in 1..n |-> e.labels[k][1]]
<1>1. /\ d.kids \in Seq(Nat) /\ e.kids \in Seq(Nat)
      /\ d.labels \in Seq(Seq(Int)) /\ e.labels \in Seq(Seq(Int))
  BY DEF Defs
<1>2. m \in Nat /\ n \in Nat /\ DOMAIN d.kids = 1..m /\ DOMAIN e.kids = 1..n
  BY <1>1
<1>3. /\ \A k \in 1..m : p[k] = <<Cut(d.labels[k]), f[d.kids[k]]>> /\ a[k] = d.labels[k][1]
      /\ \A k \in 1..n : q[k] = <<Cut(e.labels[k]), f[e.kids[k]]>> /\ b[k] = e.labels[k][1]
  OBVIOUS
<1> HIDE DEF m, n, p, q, a, b
<1>4. /\ DOMAIN d.labels = 1..m /\ \A k \in 1..m : Len(d.labels[k]) = 3
      /\ DOMAIN e.labels = 1..n /\ \A k \in 1..n : Len(e.labels[k]) = 3
      /\ \A k, l \in 1..m : k < l => d.labels[k][1] < d.labels[l][1]
      /\ \A k, l \in 1..n : k < l => e.labels[k][1] < e.labels[l][1]
  BY <1>2 DEF Shaped
<1>5. /\ \A k \in 1..m : d.labels[k][1] \in Int
      /\ \A k \in 1..n : e.labels[k][1] \in Int
  BY <1>1, <1>4, LabelNames
<1>6. /\ \A k \in 1..m : Cut(d.labels[k])[1] = d.labels[k][1]
      /\ \A k \in 1..n : Cut(e.labels[k])[1] = e.labels[k][1]
  <2>1. ASSUME NEW s \in Seq(Int), Len(s) = 3 PROVE Cut(s)[1] = s[1]
    BY <2>1 DEF Cut
  <2>2. /\ \A k \in 1..m : d.labels[k] \in Seq(Int)
        /\ \A k \in 1..n : e.labels[k] \in Seq(Int)
    <3>1. /\ \A k \in DOMAIN d.labels : d.labels[k] \in Seq(Int)
          /\ \A k \in DOMAIN e.labels : e.labels[k] \in Seq(Int)
      BY <1>1, LenProperties, ElementOfSeq
    <3>2. QED BY <1>4, <3>1
  <2>3. QED BY <1>4, <2>1, <2>2
<1>7. /\ \A k \in 1..m : a[k] \in Int /\ p[k][1][1] = a[k]
      /\ \A k \in 1..n : b[k] \in Int /\ q[k][1][1] = b[k]
      /\ \A k, l \in 1..m : k < l => a[k] < a[l]
      /\ \A k, l \in 1..n : k < l => b[k] < b[l]
  BY <1>3, <1>4, <1>5, <1>6
<1>8. /\ \A k \in 1..m : Mapped(f, d.kids)[k] = f[d.kids[k]]
      /\ \A k \in 1..n : Mapped(f, e.kids)[k] = f[e.kids[k]]
  BY <1>2 DEF Mapped
<1>9. {<<Cut(d.labels[k]), Mapped(f, d.kids)[k]>> : k \in 1..m} =
      {<<Cut(e.labels[k]), Mapped(f, e.kids)[k]>> : k \in 1..n}
  <2>1. {<<Cut(d.labels[k]), Mapped(f, d.kids)[k]>> : k \in DOMAIN d.kids} =
        {<<Cut(e.labels[k]), Mapped(f, e.kids)[k]>> : k \in DOMAIN e.kids}
    BY Zenon DEF Cut
  <2>2. QED BY <1>2, <2>1
<1>10. AllIn(p, m, q, n)
  <2> SUFFICES ASSUME NEW k \in 1..m PROVE \E l \in 1..n : p[k] = q[l]
    BY DEF AllIn
  <2>1. PICK l \in 1..n : <<Cut(d.labels[k]), Mapped(f, d.kids)[k]>> =
                          <<Cut(e.labels[l]), Mapped(f, e.kids)[l]>>
    BY <1>9
  <2>2. /\ p[k] = <<Cut(d.labels[k]), Mapped(f, d.kids)[k]>>
        /\ q[l] = <<Cut(e.labels[l]), Mapped(f, e.kids)[l]>>
    BY <1>3, <1>8
  <2>3. QED BY <2>1, <2>2
<1>11. AllIn(q, n, p, m)
  <2> SUFFICES ASSUME NEW l \in 1..n PROVE \E k \in 1..m : q[l] = p[k]
    BY DEF AllIn
  <2>1. PICK k \in 1..m : <<Cut(e.labels[l]), Mapped(f, e.kids)[l]>> =
                          <<Cut(d.labels[k]), Mapped(f, d.kids)[k]>>
    BY <1>9
  <2>2. /\ p[k] = <<Cut(d.labels[k]), Mapped(f, d.kids)[k]>>
        /\ q[l] = <<Cut(e.labels[l]), Mapped(f, e.kids)[l]>>
    BY <1>3, <1>8
  <2>3. QED BY <2>1, <2>2
<1>12. m = n /\ \A k \in 1..m : p[k] = q[k]
  <2>1. Keyed(p, m, a) /\ Keyed(q, n, b)
    BY <1>2, <1>7 DEF Keyed
  <2>2. QED BY <1>10, <1>11, <2>1, PairsAlike
<1>13. \A k \in 1..m : Cut(d.labels[k]) = Cut(e.labels[k]) /\ f[d.kids[k]] = f[e.kids[k]]
  <2> SUFFICES ASSUME NEW k \in 1..m
               PROVE  Cut(d.labels[k]) = Cut(e.labels[k]) /\ f[d.kids[k]] = f[e.kids[k]]
    OBVIOUS
  <2>1. <<Cut(d.labels[k]), f[d.kids[k]]>> = <<Cut(e.labels[k]), f[e.kids[k]]>>
    BY <1>3, <1>12
  <2>2. PICK u, v, x, y : /\ u = Cut(d.labels[k]) /\ v = Cut(e.labels[k])
                          /\ x = f[d.kids[k]] /\ y = f[e.kids[k]]
    OBVIOUS
  <2>3. <<u, x>> = <<v, y>>
    BY <2>1, <2>2
  <2>4. u = v /\ x = y
    BY <2>3
  <2>5. QED BY <2>2, <2>4
<1>14. SemanticLabels(d) = SemanticLabels(e)
  <2>1. [k \in DOMAIN d.labels |-> Cut(d.labels[k])] =
        [k \in DOMAIN e.labels |-> Cut(e.labels[k])]
    BY <1>4, <1>12, <1>13, Zenon
  <2>2. QED BY <2>1, Zenon DEF SemanticLabels, Cut
<1>15. Meant(d.kids) = Meant(e.kids)
  <2>1. [k \in DOMAIN d.kids |-> f[d.kids[k]]] = [k \in DOMAIN e.kids |-> f[e.kids[k]]]
    BY <1>2, <1>12, <1>13, Zenon
  <2>2. Mapped(f, d.kids) = Mapped(f, e.kids)
    BY <2>1, Zenon DEF Mapped
  <2>3. QED BY <1>1, <2>2, MeantAlike DEF Closed
<1>16. d.constraint = 0 /\ e.constraint = 0
  BY DEF Shaped
<1>17. QED BY <1>14, <1>15, <1>16, HashAlike

\* f tells the elements of s apart; the set of their images.
Parted(f, s) == \A k, l \in DOMAIN s : f[s[k]] = f[s[l]] => k = l
Listing(f, s) == {Mapped(f, s)[k] : k \in DOMAIN s}

LEMMA SumsMean ==
    ASSUME SInv, NEW f, NEW d \in Defs, NEW e \in Defs, Closed(d), Closed(e),
           Shaped("type", d), Shaped("type", e), d.kind = "Sum", e.kind = "Sum",
           Carries(f, semantic, d.kids, e.kids),
           Parted(f, d.kids), Parted(f, e.kids), Listing(f, d.kids) = Listing(f, e.kids)
    PROVE  SemanticHash(d) = SemanticHash(e)
<1> DEFINE m == Len(d.kids)
           n == Len(e.kids)
           x == Mapped(f, d.kids)
           y == Mapped(f, e.kids)
           w == Meant(d.kids)
           v == Meant(e.kids)
<1>1. d.kids \in Seq(Nat) /\ e.kids \in Seq(Nat)
  BY DEF Defs
<1>2. m \in Nat /\ n \in Nat /\ DOMAIN d.kids = 1..m /\ DOMAIN e.kids = 1..n
  BY <1>1
<1>3. (\A k \in 1..m : x[k] = f[d.kids[k]]) /\ (\A k \in 1..n : y[k] = f[e.kids[k]])
  BY <1>2 DEF Mapped
<1>4. /\ DOMAIN w = 1..m /\ \A k \in 1..m : w[k] = SemanticFingerprint(d.kids[k])
      /\ DOMAIN v = 1..n /\ \A k \in 1..n : v[k] = SemanticFingerprint(e.kids[k])
  BY <1>2 DEF Meant
<1>5. {x[k] : k \in 1..m} = {y[k] : k \in 1..n}
  BY <1>2 DEF Listing
<1> HIDE DEF m, n, x, y, w, v
<1>6. AllIn(x, m, y, n) /\ AllIn(y, n, x, m)
  BY <1>5 DEF AllIn
<1>7. Distinct(x, m) /\ Distinct(y, n)
  BY <1>2, <1>3 DEF Distinct, Parted
<1>8. m = n /\ \E p : Permutes(p, n) /\ Reorders(y, x, p, n)
  BY <1>2, <1>6, <1>7, SetsPermute
<1>9. PICK p : Permutes(p, n) /\ Reorders(y, x, p, n)
  BY <1>8
<1>10. DOMAIN semantic = TypeIds /\ \A id : SemanticFingerprint(id) \in Nat
  BY SemanticColumn DEF SInv, IInv
<1>11. Reorders(v, w, p, n)
  <2> SUFFICES ASSUME NEW k \in 1..n PROVE v[k] = w[p[k]]
    BY DEF Reorders
  <2>1. PICK l \in 1..m : l = p[k] /\ y[k] = x[l]
    BY <1>8, <1>9 DEF Permutes, Reorders
  <2>2. f[d.kids[l]] = f[e.kids[k]]
    BY <1>3, <2>1
  <2>3. semantic[d.kids[l]] = semantic[e.kids[k]]
    BY <1>2, <2>2 DEF Carries
  <2>4. d.kids[l] \in TypeIds /\ e.kids[k] \in TypeIds
    BY <1>2 DEF Closed
  <2>5. SemanticFingerprint(d.kids[l]) = SemanticFingerprint(e.kids[k])
    BY <1>10, <2>3, <2>4 DEF SemanticFingerprint
  <2>6. QED BY <1>4, <2>1, <2>5
<1>12. \A k \in 1..n : w[k] \in Int
  BY <1>4, <1>8, <1>10
<1>13. Ascending(w) = Ascending(v)
  BY <1>2, <1>4, <1>8, <1>9, <1>11, <1>12, AscendingSame
<1>14. d.labels = e.labels /\ d.constraint = 0 /\ e.constraint = 0
  BY DEF Shaped
<1>15. SemanticLabels(d) = SemanticLabels(e)
  BY <1>14, Zenon DEF SemanticLabels
<1>16. QED BY <1>13, <1>14, <1>15, HashAlike DEF w, v

LEMMA RefinementsMean ==
    ASSUME SInv, EInv, ErasedUnfolds, NEW d \in Defs, NEW e \in Defs, Closed(d), Closed(e),
           d.kind = "Refined", e.kind = "Refined", d.constraint # 0, e.constraint # 0,
           Carries(Erased, semantic, d.kids, e.kids),
           Mapped(Erased, d.kids) = Mapped(Erased, e.kids), Con(d).labels = Con(e).labels,
           Mapped(Erased, Con(d).kids) = Mapped(Erased, Con(e).kids)
    PROVE  SemanticHash(d) = SemanticHash(e)
<1>1. PICK c \in Defs, g \in Defs : /\ c = Con(d) /\ c = nodes["constraint"][d.constraint]
                                    /\ g = Con(e) /\ g = nodes["constraint"][e.constraint]
                                    /\ d.constraint \in ConstraintIds /\ e.constraint \in ConstraintIds
  BY ConIs
<1>2. Atomic("constraint", c) /\ Atomic("constraint", g) /\ Closed(c) /\ Closed(g)
  BY <1>1, TypeIdsAre DEF SInv, EInv, Kempt, Tables, ConstraintIds
<1>3. /\ \A k \in DOMAIN c.kids : c.kids[k] \in TypeIds /\ Kind(c.kids[k]) \in AtomKinds
      /\ \A k \in DOMAIN g.kids : g.kids[k] \in TypeIds /\ Kind(g.kids[k]) \in AtomKinds
  BY <1>2 DEF Closed, Atomic
<1>4. \A a, b \in TypeIds : Kind(a) \in AtomKinds /\ Kind(b) \in AtomKinds /\ Erased[a] = Erased[b] => a = b
  BY AtomsAre
<1>5. c.kids = g.kids
  <2>1. Separates(Erased, c.kids, g.kids)
    BY <1>3, <1>4 DEF Separates
  <2>2. Mapped(Erased, c.kids) = Mapped(Erased, g.kids)
    BY <1>1
  <2>3. c.kids \in Seq(Nat) /\ g.kids \in Seq(Nat)
    BY DEF Defs
  <2>4. QED BY <2>1, <2>2, <2>3, MappedInjective
<1>6. d.constraint = e.constraint
  BY <1>1, <1>5, ConDetermines
<1>7. Meant(d.kids) = Meant(e.kids)
  <2>1. d.kids \in Seq(Nat) /\ e.kids \in Seq(Nat)
    BY DEF Defs
  <2>2. QED BY <2>1, MeantAlike DEF Closed
<1>8. SemanticLabels(d) = SemanticLabels(e)
  BY DEF SemanticLabels
<1>9. QED BY <1>6, <1>7, <1>8, HashAlike

LEMMA StrippedMean ==
    ASSUME SInv, EInv, ErasedUnfolds, NEW d \in Defs, NEW e \in Defs, Closed(d), Closed(e),
           Shaped("type", d), Shaped("type", e), Apart(d), Apart(e),
           d.kind = "Sum" => \A k \in DOMAIN d.kids : d.kids[k] \notin EndsLabelled,
           e.kind = "Sum" => \A k \in DOMAIN e.kids : e.kids[k] \notin EndsLabelled,
           ~Vacuously(d), ~Vacuously(e), Carries(Erased, semantic, d.kids, e.kids),
           Stripped(d, Mapped(Erased, d.kids), Con(d), Mapped(Erased, Con(d).kids)) =
           Stripped(e, Mapped(Erased, e.kids), Con(e), Mapped(Erased, Con(e).kids))
    PROVE  Semantic(d) = Semantic(e)
<1> DEFINE x == Stripped(d, Mapped(Erased, d.kids), Con(d), Mapped(Erased, Con(d).kids))
           y == Stripped(e, Mapped(Erased, e.kids), Con(e), Mapped(Erased, Con(e).kids))
<1>1. x[1] = d.kind /\ y[1] = e.kind
  BY DEF Stripped, Vacuously
<1>2. x = y
  OBVIOUS
<1> HIDE DEF x, y
<1>3. d.kind = e.kind
  BY <1>1, <1>2
<1>4. Semantic(d) = SemanticHash(d) /\ Semantic(e) = SemanticHash(e)
  BY DEF Semantic, Vacuously
<1>5. CASE d.kind = "Object"
  <2>1. /\ x[2] = {<<SubSeq(d.labels[k], 1, 2), Mapped(Erased, d.kids)[k]>> : k \in DOMAIN d.kids}
        /\ y[2] = {<<SubSeq(e.labels[k], 1, 2), Mapped(Erased, e.kids)[k]>> : k \in DOMAIN e.kids}
    BY <1>3, <1>5 DEF Stripped, x, y
  <2>2. {<<SubSeq(d.labels[k], 1, 2), Mapped(Erased, d.kids)[k]>> : k \in DOMAIN d.kids} =
        {<<SubSeq(e.labels[k], 1, 2), Mapped(Erased, e.kids)[k]>> : k \in DOMAIN e.kids}
    BY <1>2, <2>1, Zenon
  <2>3. QED BY <1>3, <1>4, <1>5, <2>2, ObjectsMean
<1>6. CASE d.kind = "Sum"
  <2>1. x[2] = Listing(Erased, d.kids) /\ y[2] = Listing(Erased, e.kids)
    BY <1>3, <1>6 DEF Stripped, Listing, x, y
  <2>2. Parted(Erased, d.kids) /\ Parted(Erased, e.kids)
    BY <1>3, <1>6 DEF Apart, Parted
  <2>3. QED BY <1>2, <1>3, <1>4, <1>6, <2>1, <2>2, SumsMean
<1>7. CASE d.kind = "Refined"
  <2>1. d.constraint # 0 /\ e.constraint # 0
    BY <1>3, <1>7 DEF Vacuously
  <2>2. /\ x[2] = Mapped(Erased, d.kids) /\ x[3] = Con(d).labels /\ x[4] = Mapped(Erased, Con(d).kids)
        /\ y[2] = Mapped(Erased, e.kids) /\ y[3] = Con(e).labels /\ y[4] = Mapped(Erased, Con(e).kids)
    BY <1>3, <1>7, <2>1 DEF Stripped, x, y
  <2>3. /\ Mapped(Erased, d.kids) = Mapped(Erased, e.kids) /\ Con(d).labels = Con(e).labels
        /\ Mapped(Erased, Con(d).kids) = Mapped(Erased, Con(e).kids)
    BY <1>2, <2>2, Zenon
  <2>4. QED BY <1>3, <1>4, <1>7, <2>1, <2>3, RefinementsMean
<1>8. CASE d.kind \notin {"Object", "Sum", "Refined"}
  <2>1. /\ x[2] = d.labels /\ x[3] = Mapped(Erased, d.kids)
        /\ y[2] = e.labels /\ y[3] = Mapped(Erased, e.kids)
    BY <1>3, <1>8 DEF Stripped, x, y
  <2>2. d.labels = e.labels /\ Mapped(Erased, d.kids) = Mapped(Erased, e.kids)
    BY <1>2, <2>1, Zenon
  <2>3. d.kids \in Seq(Nat) /\ e.kids \in Seq(Nat)
    BY DEF Defs
  <2>4. Meant(d.kids) = Meant(e.kids)
    BY <2>2, <2>3, MeantAlike DEF Closed
  <2>5. SemanticLabels(d) = SemanticLabels(e)
    BY <1>3, <2>2, Zenon DEF SemanticLabels
  <2>6. d.constraint = 0 /\ e.constraint = 0
    BY <1>3, <1>8 DEF Shaped
  <2>7. QED BY <1>3, <1>4, <1>8, <2>4, <2>5, <2>6, HashAlike
<1>9. QED BY <1>5, <1>6, <1>7, <1>8

LEMMA MeaningDetermines ==
    ASSUME SInv, EInv, ErasedUnfolds, PartsUnfold PROVE SemanticErasure
<1> DEFINE S == {n \in Nat : \A i, j \in TypeIds \ MayRepeat :
                i <= n /\ j <= n /\ Erased[i] = Erased[j] => semantic[i] = semantic[j]}
<1>1. 0 \in S
  <2>1. \A i \in TypeIds : i \in Nat /\ ~(i <= 0)
    BY TypeIdsAre DEF SInv
  <2>2. QED BY <2>1
<1>2. ASSUME NEW n \in Nat, n \in S PROVE n + 1 \in S
  <2> SUFFICES ASSUME NEW p \in TypeIds \ MayRepeat, NEW q \in TypeIds \ MayRepeat,
                      p <= n + 1, q <= n + 1,
                      Erased[p] = Erased[q]
               PROVE  semantic[p] = semantic[q]
    OBVIOUS
  <2>0. TypeIds \subseteq Nat
    BY TypeIdsAre DEF SInv
  <2>1. PICK i \in TypeIds : /\ i <= p /\ ~Vacuously(nodes["type"][i]) /\ Parts[i] \subseteq Parts[p]
                             /\ Erased[i] = Erased[p] /\ semantic[i] = semantic[p]
    BY Bare
  <2>2. PICK j \in TypeIds : /\ j <= q /\ ~Vacuously(nodes["type"][j]) /\ Parts[j] \subseteq Parts[q]
                             /\ Erased[j] = Erased[q] /\ semantic[j] = semantic[q]
    BY Bare
  <2>3. i <= n + 1 /\ j <= n + 1 /\ Erased[i] = Erased[j] /\ p \in Nat /\ q \in Nat /\ i \in Nat /\ j \in Nat
    BY <2>0, <2>1, <2>2
  <2>4. i \notin MayRepeat /\ j \notin MayRepeat
    BY <2>1, <2>2 DEF MayRepeat
  <2>5. PICK d \in Defs : d = nodes["type"][i] /\ Closed(d) /\ ~Vacuously(d)
    BY <2>1, TypeIdsAre DEF SInv
  <2>6. PICK e \in Defs : e = nodes["type"][j] /\ Closed(e) /\ ~Vacuously(e)
    BY <2>2, TypeIdsAre DEF SInv
  <2>7. Shaped("type", d) /\ Shaped("type", e) /\ Apart(d) /\ Apart(e)
    BY <2>5, <2>6 DEF SInv, EInv, Kempt, Tables, TypeIds
  <2>8. \A r, s \in TypeIds \ MayRepeat : r <= n /\ s <= n /\ Erased[r] = Erased[s] => semantic[r] = semantic[s]
    BY <1>2
  <2>9. /\ \A k \in DOMAIN d.kids :
            d.kids[k] \notin MayRepeat /\ (d.kind = "Sum" => d.kids[k] \notin EndsLabelled)
        /\ \A k \in DOMAIN e.kids :
            e.kids[k] \notin MayRepeat /\ (e.kind = "Sum" => e.kids[k] \notin EndsLabelled)
    BY <2>5, <2>6, <2>4, RepeatsNot DEF Kids, Kind
  <2>10. /\ \A k \in DOMAIN d.kids : d.kids[k] \in TypeIds /\ d.kids[k] <= n
         /\ \A k \in DOMAIN e.kids : e.kids[k] \in TypeIds /\ e.kids[k] <= n
    <3>1. /\ \A r \in Refers(d) : r \in 1..(i - 1)
          /\ \A r \in Refers(e) : r \in 1..(j - 1)
      BY <2>5, <2>6 DEF SInv, Layered
    <3>2. /\ \A k \in DOMAIN d.kids : d.kids[k] \in 1..(i - 1)
          /\ \A k \in DOMAIN e.kids : e.kids[k] \in 1..(j - 1)
      BY <3>1 DEF Refers
    <3>3. (\A r \in 1..(i - 1) : r <= n) /\ (\A r \in 1..(j - 1) : r <= n)
      BY <2>3
    <3>4. QED BY <2>5, <2>6, <3>2, <3>3 DEF Closed
  <2>11. Carries(Erased, semantic, d.kids, e.kids)
    BY <2>8, <2>10, <2>9 DEF Carries
  <2>12. Stripped(d, Mapped(Erased, d.kids), Con(d), Mapped(Erased, Con(d).kids)) =
         Stripped(e, Mapped(Erased, e.kids), Con(e), Mapped(Erased, Con(e).kids))
    BY <2>3, <2>5, <2>6, Zenon DEF ErasedUnfolds, ErasedOf
  <2>13. Semantic(d) = Semantic(e)
    BY <2>5, <2>6, <2>7, <2>9, <2>11, <2>12, StrippedMean
  <2>14. semantic[i] = Semantic(d) /\ semantic[j] = Semantic(e)
    BY <2>5, <2>6 DEF EInv, Column
  <2>15. QED BY <2>1, <2>2, <2>13, <2>14
<1>3. \A n \in Nat : n \in S
  <2> HIDE DEF S
  <2>1. QED BY <1>1, <1>2, SetInduction
<1>4. N \in Nat /\ \A i \in TypeIds : i <= N
  BY TypeIdsAre DEF SInv
<1>5. QED BY <1>3, <1>4 DEF SemanticErasure

(***************************************************************************)
(* The theorems.                                                           *)
(***************************************************************************)

\* The order in which a source writes fields and alternatives never shows:
\* whatever the hash, two ids of an arena that unfold to the same structure,
\* fields and members taken as sets, are one id.
THEOREM StructureEqualityIsIdEquality ==
    ASSUME HashIsNat PROVE Spec => []OrderIrrelevant
<1>1. SInv => OrderIrrelevant
  BY StructureDeterminesId
<1>2. QED BY <1>1, StructureInvariant, PTL

\* No tuple has a position that nothing fits, however deep the never is
\* refined: a tuple over one was answered by never.
THEOREM TuplesAreInhabited == ASSUME HashIsNat PROVE Spec => []NoEmptyTuple
<1>1. SInv => BaseKindsUnfold
  BY BaseKindIs DEF BaseKindsUnfold
<1>2. Init => TInv
  <2>1. Init => TypeIds = {} /\ pc = "idle"
    BY NoRequestOK DEF Init, TypeIds
  <2>2. QED BY <2>1 DEF TInv, NoEmptyTuple
<1>3. SInv /\ SInv' /\ BaseKindsUnfold /\ BaseKindsUnfold' /\ TInv /\ [Next]_vars => TInv'
  BY NextTInv
<1>4. TInv => NoEmptyTuple
  BY DEF TInv
<1>5. QED BY <1>1, <1>2, <1>3, <1>4, StructureInvariant, PTL DEF Spec

\* Semantic fingerprints see neither the names of types nor metadata, at any
\* depth, nor the order of fields and members, whatever the hash: types that
\* are alike without them have equal ones, unless one is made of a sum with a
\* member that has any or never under a label, of which a sum may keep several.
THEOREM SemanticFingerprintsErase == ASSUME HashIsNat PROVE Spec => []SemanticErasure
<1>1. SInv => ErasedUnfolds /\ PartsUnfold
  BY ErasedIs, PartsIs DEF ErasedUnfolds, PartsUnfold
<1>2. Init => EInv
  BY InitEInv
<1>3. SInv /\ SInv' /\ ErasedUnfolds /\ ErasedUnfolds' /\ PartsUnfold /\ PartsUnfold'
      /\ EInv /\ [Next]_vars => EInv'
  BY NextEInv
<1>4. SInv /\ EInv /\ ErasedUnfolds /\ PartsUnfold => SemanticErasure
  BY MeaningDetermines
<1>5. QED BY <1>1, <1>2, <1>3, <1>4, StructureInvariant, PTL DEF Spec

(***************************************************************************)
(* The arena implements the store.                                         *)
(***************************************************************************)

LEMMA StoreBegins == Init => Store!StoreInit
<1> SUFFICES ASSUME Init PROVE Store!StoreInit
  OBVIOUS
<1>1. request \in [table : Tables, fp : Nat, def : Defs]
  BY NoRequestOK DEF Init
<1>2. [table |-> request.table, def |-> request.def] \in Store!Requests
  BY <1>1 DEF Store!Requests, Store!Tables, Tables, Defs
<1>3. QED BY <1>2 DEF Init, Store!StoreInit, Store!Tables, Tables

\* What is asked for, before a step and after it.
LEMMA Requested ==
    ASSUME TypeOK
    PROVE  /\ request.table \in Tables /\ request.def \in Defs
           /\ [table |-> request.table, def |-> request.def] \in Store!Requests
  BY DEF TypeOK, Store!Requests, Store!Tables, Tables, Defs

\* A walk that ends has met no entry that equals the request.
LEMMA WalkedInVain ==
    ASSUME IInv, pc = "find", cursor = 0
    PROVE  \A i \in DOMAIN nodes[request.table] : nodes[request.table][i] # request.def
<1> SUFFICES ASSUME NEW i \in DOMAIN nodes[request.table], nodes[request.table][i] = request.def
             PROVE  FALSE
  OBVIOUS
<1>1. PICK t \in Tables : t = request.table
  BY DEF IInv, TypeOK
<1>2. fingerprints[t][i] = Hash(Encode(nodes[t][i]))
  BY <1>1 DEF IInv, Faithful
<1>3. request.fp = Hash(Encode(nodes[t][i]))
  BY <1>1 DEF IInv, Searching
<1>4. i > cursor
  BY <1>1, Columns DEF IInv
<1>5. QED BY <1>1, <1>2, <1>3, <1>4 DEF IInv, Searching

LEMMA StoreSteps ==
    ASSUME IInv, IInv', Next
    PROVE  Store!StoreNext \/ UNCHANGED Store!storeVars
<1>1. [table |-> request'.table, def |-> request'.def] \in Store!Requests
  BY DEF IInv, TypeOK, Store!Requests, Store!Tables, Tables, Defs
<1>2. CASE FindNext
  BY <1>2 DEF FindNext, tables, Store!storeVars
<1>3. CASE FindHit
  <2>1. cursor \in DOMAIN nodes[request.table]
    BY <1>3, Columns DEF FindHit, IInv, TypeOK
  <2>2. Store!AnswerOld
    BY <1>1, <1>3, <2>1 DEF FindHit, Equal, tables, Store!AnswerOld, Store!Entry
  <2>3. QED BY <2>2 DEF Store!StoreNext
<1>4. CASE AppendNode
  <2>1. pc = "find" /\ cursor = 0 /\ request.table \in Tables
    BY <1>4 DEF AppendNode, IInv, TypeOK
  <2>2. \A i \in DOMAIN nodes[request.table] : nodes[request.table][i] # request.def
    BY <2>1, WalkedInVain
  <2>3. Store!AnswerNew
    BY <1>1, <1>4, <2>1, <2>2 DEF AppendNode, Store!AnswerNew, Store!Entry
  <2>4. QED BY <2>3 DEF Store!StoreNext
<1>5. CASE Asked
  <2>1. pc = "idle" /\ pc' = "find" /\ result' = 0 /\ UNCHANGED nodes
    BY <1>5 DEF Asked, Intern, tables
  <2>2. Closed(request'.def)
    BY <2>1 DEF IInv, Searching, Closed, TypeIds, ConstraintIds
  <2>3. Store!Known(request'.def)
    BY <2>2 DEF Closed, TypeIds, ConstraintIds, Store!Known
  <2>4. Store!Ask
    BY <1>1, <2>1, <2>3 DEF Store!Ask
  <2>5. QED BY <2>4 DEF Store!StoreNext
<1>6. CASE Answered
  <2>1. Store!AnswerAtOnce
    BY <1>6 DEF Answered, Return, tables, TypeIds, Store!AnswerAtOnce
  <2>2. QED BY <2>1 DEF Store!StoreNext
<1>7. QED BY <1>2, <1>3, <1>4, <1>5, <1>6, NextAsks

\* Whatever the hash, intern calls and the ids they return are those of two
\* tables of definitions to which entries are only added.
THEOREM ArenaImplementsStore == ASSUME HashIsNat PROVE Spec => ImplementsStore
<1>1. Init => Store!StoreInit
  BY StoreBegins
<1>2. IInv /\ IInv' /\ [Next]_vars => [Store!StoreNext]_Store!storeVars
  <2>1. UNCHANGED vars => UNCHANGED Store!storeVars
    BY DEF vars, Store!storeVars
  <2>2. QED BY <2>1, StoreSteps
<1>3. QED BY <1>1, <1>2, ArenaInvariant, PTL DEF Spec, ImplementsStore, Store!StoreSpec

LEMMA StoreIs ==
    ASSUME Store!StoreInv
    PROVE  \A t \in Tables : nodes[t] \in Seq(Defs) /\ DOMAIN nodes[t] = 1..Len(nodes[t])
                              /\ Len(nodes[t]) \in Nat
  BY DEF Store!StoreInv, Store!Tables, Tables, Defs

\* An answer that is new adds one entry to the store.
LEMMA StoreGrows ==
    ASSUME Store!StoreInv, Store!AnswerNew
    PROVE  \E t \in Tables, def \in Defs :
            /\ request.table = t /\ request.def = def
            /\ \A u \in Tables \ {t} : nodes'[u] = nodes[u]
            /\ nodes' \in [Tables -> Seq(Defs)]
            /\ DOMAIN nodes'[t] = 1..(Len(nodes[t]) + 1)
            /\ nodes'[t][Len(nodes[t]) + 1] = def
            /\ \A i \in DOMAIN nodes[t] : nodes'[t][i] = nodes[t][i] /\ nodes[t][i] # def
<1>1. PICK t \in Tables, def \in Defs : request.table = t /\ request.def = def
  BY DEF Store!StoreInv, Store!Requests, Store!Tables, Tables, Defs
<1>2. /\ nodes' = [nodes EXCEPT ![t] = Append(@, def)]
      /\ \A i \in DOMAIN nodes[t] : nodes[t][i] # def
  BY <1>1 DEF Store!AnswerNew, Store!Entry
<1>3. nodes \in [Tables -> Seq(Defs)]
  BY DEF Store!StoreInv, Store!Tables, Tables, Defs
<1>4. nodes[t] \in Seq(Defs) /\ nodes'[t] = Append(nodes[t], def)
  BY <1>2, <1>3
<1>5. nodes' \in [Tables -> Seq(Defs)] /\ \A u \in Tables \ {t} : nodes'[u] = nodes[u]
  BY <1>2, <1>3
<1>6. /\ DOMAIN nodes'[t] = 1..(Len(nodes[t]) + 1)
      /\ nodes'[t][Len(nodes[t]) + 1] = def
      /\ \A i \in DOMAIN nodes[t] : nodes'[t][i] = nodes[t][i]
  BY <1>4
<1>7. QED BY <1>1, <1>2, <1>5, <1>6

LEMMA StoreStepInv ==
    ASSUME Store!StoreInv, Store!StoreNext PROVE Store!StoreInv'
<1>1. [table |-> request'.table, def |-> request'.def] \in Store!Requests
  <2>1. [table |-> request.table, def |-> request.def] \in Store!Requests
    BY DEF Store!StoreInv
  <2>2. QED BY <2>1 DEF Store!StoreNext, Store!Ask, Store!AnswerAtOnce, Store!AnswerOld, Store!AnswerNew
<1>2. CASE ~Store!AnswerNew
  <2>1. UNCHANGED nodes
    BY <1>2 DEF Store!StoreNext, Store!Ask, Store!AnswerAtOnce, Store!AnswerOld
  <2>2. pc' = "find" => Store!Known(request'.def)
    BY <1>2 DEF Store!StoreNext, Store!Ask, Store!AnswerAtOnce, Store!AnswerOld, Store!StoreInv
  <2>3. pc' = "find" => Store!Known(request.def)'
    BY <2>1, <2>2 DEF Store!Known
  <2>4. Store!OneIdEach' /\ Store!ChildrenFirst'
    BY <2>1 DEF Store!StoreInv, Store!OneIdEach, Store!ChildrenFirst
  <2>5. QED BY <1>1, <2>1, <2>3, <2>4 DEF Store!StoreInv
<1>3. CASE Store!AnswerNew
  <2>1. PICK t \in Tables, def \in Defs :
            /\ request.table = t /\ request.def = def
            /\ \A u \in Tables \ {t} : nodes'[u] = nodes[u]
            /\ nodes' \in [Tables -> Seq(Defs)]
            /\ DOMAIN nodes'[t] = 1..(Len(nodes[t]) + 1)
            /\ nodes'[t][Len(nodes[t]) + 1] = def
            /\ \A i \in DOMAIN nodes[t] : nodes'[t][i] = nodes[t][i] /\ nodes[t][i] # def
    BY <1>3, StoreGrows
  <2>2. \A i \in DOMAIN nodes'[t] : i \in DOMAIN nodes[t] \/ i = Len(nodes[t]) + 1
    BY <2>1, StoreIs
  <2>3. Store!OneIdEach'
    <3> SUFFICES ASSUME NEW u \in Tables, NEW i \in DOMAIN nodes'[u], NEW j \in DOMAIN nodes'[u],
                        nodes'[u][i] = nodes'[u][j]
                 PROVE  i = j
      BY DEF Store!OneIdEach, Store!Tables, Tables
    <3>1. \A k, l \in DOMAIN nodes[u] : nodes[u][k] = nodes[u][l] => k = l
      BY DEF Store!StoreInv, Store!OneIdEach, Store!Tables, Tables
    <3>2. CASE u # t
      BY <2>1, <3>1, <3>2
    <3>3. CASE u = t
      BY <2>1, <2>2, <3>1, <3>3
    <3>4. QED BY <3>2, <3>3
  <2>4. Store!Known(def)
    BY <1>3, <2>1 DEF Store!StoreInv, Store!AnswerNew
  <2>5. Store!ChildrenFirst'
    <3>1. CASE t # "type"
      <4>1. nodes'["type"] = nodes["type"]
        BY <2>1, <3>1 DEF Tables
      <4>2. QED BY <4>1 DEF Store!StoreInv, Store!ChildrenFirst
    <3>2. CASE t = "type"
      <4>1. \A k \in DOMAIN def.kids : def.kids[k] \in 1..(Len(nodes[t]) + 1 - 1)
        BY <2>4, <3>2, StoreIs DEF Store!Known
      <4>2. \A i \in DOMAIN nodes[t] : \A k \in DOMAIN nodes[t][i].kids :
                nodes[t][i].kids[k] \in 1..(i - 1)
        BY <3>2 DEF Store!StoreInv, Store!ChildrenFirst
      <4>3. \A i \in DOMAIN nodes'[t] : \A k \in DOMAIN nodes'[t][i].kids :
                nodes'[t][i].kids[k] \in 1..(i - 1)
        BY <2>1, <2>2, <4>1, <4>2
      <4>4. QED BY <3>2, <4>3 DEF Store!ChildrenFirst
    <3>3. QED BY <3>1, <3>2
  <2>6. pc' # "find"
    BY <1>3 DEF Store!AnswerNew
  <2>7. QED BY <1>1, <2>1, <2>3, <2>5, <2>6 DEF Store!StoreInv, Store!Tables, Tables, Defs
<1>4. QED BY <1>2, <1>3

\* The promise itself says that equal definitions have one id and children
\* come before their parents, and that an id never changes its meaning.
THEOREM StoreKeepsItsWord ==
    Store!StoreSpec =>
        [](Store!OneIdEach /\ Store!ChildrenFirst) /\ Store!IdsKeepTheirMeaning
<1>1. Store!StoreInit => Store!StoreInv
  <2> SUFFICES ASSUME Store!StoreInit PROVE Store!StoreInv
    OBVIOUS
  <2>1. nodes = [t \in Tables |-> <<>>] /\ \A t \in Tables : DOMAIN nodes[t] = {}
    BY DEF Store!StoreInit, Store!Tables, Tables
  <2>2. Store!OneIdEach /\ Store!ChildrenFirst
    BY <2>1 DEF Store!OneIdEach, Store!ChildrenFirst, Store!Tables, Tables
  <2>3. QED BY <2>1, <2>2 DEF Store!StoreInit, Store!StoreInv, Store!Tables, Tables
<1>2. Store!StoreInv /\ [Store!StoreNext]_Store!storeVars => Store!StoreInv'
  <2>1. ASSUME Store!StoreInv, UNCHANGED Store!storeVars PROVE Store!StoreInv'
    BY <2>1 DEF Store!storeVars, Store!StoreInv, Store!Known, Store!OneIdEach, Store!ChildrenFirst
  <2>2. QED BY <2>1, StoreStepInv
<1>3. Store!StoreInv /\ [Store!StoreNext]_Store!storeVars =>
        [\A t \in Store!Tables : \A i \in DOMAIN nodes[t] :
            i \in DOMAIN nodes'[t] /\ nodes'[t][i] = nodes[t][i]]_Store!storeVars
  <2>1. ASSUME Store!StoreInv, Store!AnswerNew,
               NEW t \in Tables, NEW i \in DOMAIN nodes[t]
        PROVE  i \in DOMAIN nodes'[t] /\ nodes'[t][i] = nodes[t][i]
    BY <2>1, StoreGrows, StoreIs
  <2>2. ASSUME Store!StoreNext, ~Store!AnswerNew PROVE UNCHANGED nodes
    BY <2>2 DEF Store!StoreNext, Store!Ask, Store!AnswerAtOnce, Store!AnswerOld
  <2>3. QED BY <2>1, <2>2 DEF Store!StoreNext, Store!Tables, Tables
<1>4. Store!StoreInv => Store!OneIdEach /\ Store!ChildrenFirst
  BY DEF Store!StoreInv
<1>5. QED BY <1>1, <1>2, <1>3, <1>4, PTL DEF Store!StoreSpec, Store!IdsKeepTheirMeaning

\* So do the ids of the arena, whatever the hash: once a type has an id, no
\* later call changes what the id, or a part of it, means.
THEOREM IdsAreForEver ==
    ASSUME HashIsNat PROVE Spec => []Store!ChildrenFirst /\ Store!IdsKeepTheirMeaning
  BY ArenaImplementsStore, StoreKeepsItsWord, PTL DEF ImplementsStore
=============================================================================
