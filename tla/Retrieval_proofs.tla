------------------------- MODULE Retrieval_proofs -------------------------
(***************************************************************************)
(* Theorems about Retrieval and the assembly of documents, for any sources, *)
(* documents, callers and limits, and any size of a batch.                 *)
(***************************************************************************)
EXTENDS Retrieval, FiniteSetTheorems, FunctionTheorems, TLAPS

-----------------------------------------------------------------------------
(***************************************************************************)
(* Sequences.                                                              *)
(***************************************************************************)
LEMMA SeqIsFunction ==
    ASSUME NEW S, NEW q \in Seq(S)
    PROVE  q \in [1..Len(q) -> S] /\ Len(q) \in Nat
OBVIOUS

LEMMA AppendFacts ==
    ASSUME NEW S, NEW q \in Seq(S), NEW e \in S
    PROVE  /\ Append(q, e) \in Seq(S)
           /\ Len(q) \in Nat /\ Len(Append(q, e)) = Len(q) + 1
           /\ \A n \in 1..Len(q) : Append(q, e)[n] = q[n]
           /\ Append(q, e)[Len(q) + 1] = e
OBVIOUS

LEMMA ConcatFacts ==
    ASSUME NEW S, NEW q \in Seq(S), NEW r \in Seq(S)
    PROVE  /\ q \o r \in Seq(S)
           /\ Len(q) \in Nat /\ Len(r) \in Nat
           /\ Len(q \o r) = Len(q) + Len(r)
           /\ \A n \in 1..Len(q) : (q \o r)[n] = q[n]
           /\ \A n \in 1..Len(r) : (q \o r)[Len(q) + n] = r[n]
OBVIOUS

LEMMA SubSeqFacts ==
    ASSUME NEW S, NEW q \in Seq(S), NEW a \in Nat \ {0}, NEW b \in Int,
           b <= Len(q)
    PROVE  /\ SubSeq(q, a, b) \in Seq(S)
           /\ a <= b => Len(SubSeq(q, a, b)) = b - a + 1
           /\ \A n \in 1..(b - a + 1) : SubSeq(q, a, b)[n] = q[a + n - 1]
OBVIOUS

LEMMA Within ==
    ASSUME NEW x \in Nat, NEW y \in Nat, NEW m \in Nat, x + y <= m,
           NEW n \in 1..y
    PROVE  x + n \in 1..m
OBVIOUS

LEMMA ExtendBase ==
    ASSUME NEW base \in [Nat -> Nat], NEW k \in Nat, NEW v \in Nat
    PROVE  LET b == [base EXCEPT ![(k + 1) + 1] = v] IN
           /\ b \in [Nat -> Nat] /\ b[(k + 1) + 1] = v
           /\ \A i \in 1..(k + 1) : b[i] = base[i] /\ b[i] \in Nat
OBVIOUS

-----------------------------------------------------------------------------
(***************************************************************************)
(* Numbers.  Among finitely many numbers, how many are smaller tells each  *)
(* of them apart, so that one of them is the least.                        *)
(***************************************************************************)
LEMMA RankFacts ==
    ASSUME NEW T, T \subseteq Int, IsFiniteSet(T),
           NEW i \in T, NEW j \in T, i < j
    PROVE  /\ Cardinality({m \in T : m < i}) \in Nat
           /\ Cardinality({m \in T : m < j}) \in Nat
           /\ Cardinality({m \in T : m < i}) < Cardinality({m \in T : m < j})
<1> DEFINE Below == {m \in T : m < i}
           Under == {m \in T : m < j}
<1>0. /\ i \in Int /\ j \in Int
      /\ \A m \in T : m \in Int
    OBVIOUS
<1>1. Below \subseteq Under /\ i \in Under /\ i \notin Below /\ Under \subseteq T
    <2>1. \A m \in T : m < i => m < j
        BY <1>0
    <2>2. ~(i < i)
        BY <1>0
    <2> QED
        BY <2>1, <2>2
<1> HIDE DEF Below, Under
<1>2. IsFiniteSet(Under)
    BY <1>1, FS_Subset
<1>3. /\ IsFiniteSet(Below) /\ Cardinality(Below) <= Cardinality(Under)
      /\ Cardinality(Under) = Cardinality(Below) => Under = Below
    BY <1>1, <1>2, FS_Subset
<1>4. Cardinality(Below) \in Nat /\ Cardinality(Under) \in Nat
    BY <1>2, <1>3, FS_CardinalityType
<1>5. Cardinality(Below) < Cardinality(Under)
    BY <1>1, <1>3, <1>4
<1> QED
    BY <1>4, <1>5 DEF Below, Under

LEMMA RankBound ==
    ASSUME NEW T, T \subseteq Int, IsFiniteSet(T), NEW i \in T
    PROVE  /\ Cardinality({m \in T : m < i}) \in Nat
           /\ Cardinality(T) \in Nat
           /\ Cardinality({m \in T : m < i}) < Cardinality(T)
<1> DEFINE Below == {m \in T : m < i}
<1>1. Below \subseteq T /\ i \in T \ Below
    OBVIOUS
<1> HIDE DEF Below
<1>2. /\ IsFiniteSet(Below) /\ Cardinality(Below) <= Cardinality(T)
      /\ Cardinality(T) = Cardinality(Below) => T = Below
    BY <1>1, FS_Subset
<1>3. Cardinality(Below) \in Nat /\ Cardinality(T) \in Nat
    BY <1>2, FS_CardinalityType
<1> QED
    BY <1>1, <1>2, <1>3 DEF Below

\* Otherwise the ranks of n numbers would be n different numbers in 1..n-1.
LEMMA LeastOfFinite ==
    ASSUME NEW T, T \subseteq Int, IsFiniteSet(T), T # {}
    PROVE  \E i \in T : \A j \in T : i <= j
<1> SUFFICES ASSUME \A i \in T : \E j \in T : j < i
             PROVE  FALSE
    OBVIOUS
<1> DEFINE size == Cardinality(T)
           rank == [i \in T |-> Cardinality({m \in T : m < i})]
<1>1. size \in Nat /\ size # 0
    BY FS_CardinalityType, FS_EmptySet
<1>2. ASSUME NEW i \in T
      PROVE  rank[i] \in 1..(size - 1)
    <2>1. PICK j \in T : j < i
        OBVIOUS
    <2>2. /\ Cardinality({m \in T : m < j}) \in Nat
          /\ Cardinality({m \in T : m < i}) \in Nat
          /\ Cardinality({m \in T : m < j}) < Cardinality({m \in T : m < i})
        BY <2>1, RankFacts
    <2>3. Cardinality({m \in T : m < i}) < size
        BY RankBound
    <2> QED
        BY <1>1, <2>2, <2>3
<1>3. ASSUME NEW i \in T, NEW j \in T, i # j
      PROVE  rank[i] # rank[j]
    <2> HIDE DEF rank
    <2>1. ASSUME NEW a \in T, NEW b \in T, a < b
          PROVE  rank[a] # rank[b]
        <3>1. /\ Cardinality({m \in T : m < a}) \in Nat
              /\ Cardinality({m \in T : m < b}) \in Nat
              /\ Cardinality({m \in T : m < a}) < Cardinality({m \in T : m < b})
            BY <2>1, RankFacts
        <3>2. /\ rank[a] = Cardinality({m \in T : m < a})
              /\ rank[b] = Cardinality({m \in T : m < b})
            BY DEF rank
        <3> QED
            BY <3>1, <3>2
    <2>2. i \in Int /\ j \in Int
        OBVIOUS
    <2>3. i < j \/ j < i
        BY <1>3, <2>2
    <2> QED
        BY <2>1, <2>3
<1>4. rank \in [T -> 1..(size - 1)]
    BY <1>2
<1>5. IsFiniteSet(1..(size - 1)) /\ Cardinality(1..(size - 1)) < Cardinality(T)
    <2>1. 1 \in Int /\ size - 1 \in Int
        BY <1>1
    <2>2. /\ IsFiniteSet(1..(size - 1))
          /\ Cardinality(1..(size - 1)) = IF 1 > size - 1 THEN 0 ELSE (size - 1) - 1 + 1
        BY <2>1, FS_Interval
    <2> QED
        BY <1>1, <2>2
<1> HIDE DEF rank
<1>6. \E x, y \in T : x # y /\ rank[x] = rank[y]
    BY <1>4, <1>5, FS_PigeonHole
<1> QED
    BY <1>3, <1>6

\* Every set of naturals that is not empty has a least member.
LEMMA Least ==
    ASSUME NEW T \in SUBSET Nat, T # {}
    PROVE  \E i \in T : \A j \in T : i <= j
<1>1. PICK n \in T : TRUE
    OBVIOUS
<1> DEFINE S == {i \in T : i <= n}
<1>2. S \subseteq 0..n /\ n \in Int /\ IsFiniteSet(0..n)
    <2>1. n \in Int /\ 0 \in Int
        OBVIOUS
    <2>2. IsFiniteSet(0..n)
        BY <2>1, FS_Interval
    <2>3. ASSUME NEW i \in S PROVE i \in 0..n
        <3>1. i \in Nat /\ i <= n
            OBVIOUS
        <3> QED
            BY <2>1, <3>1
    <2> QED
        BY <2>1, <2>2, <2>3
<1>3. IsFiniteSet(S) /\ S \subseteq Int /\ n \in S
    BY <1>2, FS_Subset
<1> HIDE DEF S
<1>4. PICK i \in S : \A j \in S : i <= j
    BY <1>3, LeastOfFinite
<1> QED
    BY <1>1, <1>4 DEF S

-----------------------------------------------------------------------------
(***************************************************************************)
(* Pieces and batches.                                                     *)
(***************************************************************************)
Items(S) == {S[n] : n \in DOMAIN S}

Texts == UNION {UNION {Items(Children(i, d[i])) : i \in DOMAIN d} : d \in Documents}

\* The children of a section are a sequence, whatever its pieces.
LEMMA ChildrenType ==
    ASSUME NEW d \in Documents, NEW i \in DOMAIN d
    PROVE  /\ Children(i, d[i]) \in Seq(Items(Children(i, d[i])))
           /\ Len(Children(i, d[i])) \in Nat
<1> DEFINE pieces == d[i]
           Full == {k \in DOMAIN pieces : pieces[k]}
<1>1. pieces \in Seq(BOOLEAN)
    BY DocumentsAreSections
<1>2. DOMAIN pieces = 1..Len(pieces) /\ Len(pieces) \in Nat
    BY <1>1
<1>3. IsFiniteSet(DOMAIN pieces)
    BY <1>2, FS_Interval
<1>4. IsFiniteSet(Full) /\ Cardinality(Full) \in Nat
    BY <1>3, FS_Subset, FS_CardinalityType
<1> HIDE DEF pieces, Full
<1>5. CASE Full = {}
    <2>1. Children(i, pieces) = <<[section |-> i, piece |-> 0]>>
        BY <1>5 DEF Children, Full
    <2> QED
        BY <2>1 DEF Items, pieces
<1>6. CASE Full # {}
    <2> DEFINE f == [n \in 1..Cardinality(Full) |->
                     [section |-> i,
                      piece |-> CHOOSE k \in Full :
                                    Cardinality({m \in Full : m < k}) = n - 1]]
    <2>1. Children(i, pieces) = f
        BY <1>6 DEF Children, Full
    <2>2. f \in [1..Cardinality(Full) -> Items(f)]
        BY DEF Items
    <2> HIDE DEF f
    <2>3. f \in Seq(Items(f)) /\ Len(f) \in Nat
        BY <1>4, <2>2
    <2> QED
        BY <2>1, <2>3 DEF pieces
<1> QED
    BY <1>5, <1>6

LEMMA PairType ==
    ASSUME document \in Documents, NEW i \in DOMAIN document
    PROVE  Pair(i) \in Seq(Texts) /\ Len(Pair(i)) \in Nat
<1>1. /\ Children(i, document[i]) \in Seq(Items(Children(i, document[i])))
      /\ Len(Children(i, document[i])) \in Nat
    BY ChildrenType
<1>2. Items(Children(i, document[i])) \subseteq Texts
    BY DEF Texts
<1> QED
    BY <1>1, <1>2 DEF Pair

\* Sorted by index, an answer is the batch again, in whatever order it came.
LEMMA SortedAnswer ==
    ASSUME NEW batch \in Seq(Texts), NEW data \in Answers(batch)
    PROVE  ByIndex(data) = batch
<1>1. PICK p \in [DOMAIN batch -> DOMAIN batch] :
          /\ \A k \in DOMAIN batch : \E n \in DOMAIN batch : p[n] = k
          /\ data = [n \in DOMAIN batch |->
                         [index |-> p[n], embedding |-> batch[p[n]]]]
    BY DEF Answers
<1>2. DOMAIN data = DOMAIN batch
    BY <1>1
<1>3. ASSUME NEW k \in DOMAIN batch
      PROVE  ByIndex(data)[k] = batch[k]
    <2> DEFINE items == {data[m] : m \in DOMAIN data}
               item == CHOOSE x \in items : x.index = k
    <2>1. \E x \in items : x.index = k
        <3>1. PICK n \in DOMAIN batch : p[n] = k
            BY <1>1
        <3>2. data[n] \in items /\ data[n].index = k
            BY <1>1, <1>2, <3>1
        <3> QED
            BY <3>2
    <2>2. item \in items /\ item.index = k
        BY <2>1
    <2>3. \A x \in items : x.embedding = batch[x.index]
        BY <1>1
    <2> HIDE DEF item
    <2>4. item.embedding = batch[k]
        BY <2>2, <2>3
    <2>5. ByIndex(data)[k] = item.embedding
        BY <1>2 DEF ByIndex, item
    <2> QED
        BY <2>4, <2>5
<1>4. ByIndex(data) = [k \in DOMAIN batch |-> ByIndex(data)[k]]
    BY <1>2 DEF ByIndex
<1>5. batch = [k \in DOMAIN batch |-> batch[k]]
    OBVIOUS
<1> QED
    BY <1>3, <1>4, <1>5

-----------------------------------------------------------------------------
(***************************************************************************)
(* The assembly.                                                           *)
(***************************************************************************)
AssemblyType ==
    /\ step \in {"idle", "collect", "embed", "split", "save"}
    /\ source \in Sources
    /\ step # "idle" => document \in Documents
    /\ index \in Nat \ {0}
    /\ texts \in Seq(Texts) /\ embeddings \in Seq(Texts)
    /\ counts \in Seq(Nat)
    /\ offset \in Nat

Pairs == [i \in DOMAIN document |-> Pair(i)]

\* The texts of the first k sections lie one after the other in the m texts txt,
\* each section from its base on, with the counts cnt.
LaysOut(base, k, txt, m, cnt, prs) ==
    /\ base[1] = 0 /\ base[k + 1] = m
    /\ \A i \in 1..k :
           /\ base[i + 1] = base[i] + cnt[i] /\ base[i + 1] <= m
           /\ \A n \in 1..cnt[i] : txt[base[i] + n] = prs[i][n]

Layout(base) == LaysOut(base, Len(counts), texts, Len(texts), counts, Pairs)

RowOK(r) ==
    /\ r.embedding = r.text
    /\ r.owner = Owner[r.source]

LaidOut ==
    \E base \in [Nat -> Nat] :
        Layout(base) /\ (step = "split" => offset = base[index])

LoopsOK ==
    /\ step \in {"idle", "collect"} => embeddings = << >>
    /\ step \in {"idle", "collect", "embed"} => offset = 0 /\ rows = {}
    /\ step = "idle" => index = 1 /\ texts = << >> /\ counts = << >>
    /\ step = "collect" =>
           index <= Len(document) + 1 /\ Len(counts) = index - 1
    /\ step \in {"embed", "split", "save"} => Len(counts) = Len(document)
    /\ step = "embed" =>
           /\ Len(embeddings) = Min2(index - 1, Len(texts))
           /\ \A n \in 1..Len(embeddings) : embeddings[n] = texts[n]
    /\ step \in {"split", "save"} => embeddings = texts
    /\ step = "split" => index <= Len(document) + 1
    /\ step # "idle" => LaidOut

AssemblyOK ==
    /\ AssemblyType
    /\ LoopsOK
    /\ \A r \in rows : RowOK(r)
    /\ \A r \in stored : RowOK(r)

LEMMA InitAssembly == AssemblyInit => AssemblyOK
<1> SUFFICES ASSUME AssemblyInit PROVE AssemblyOK
    OBVIOUS
<1>1. AssemblyType
    BY DEF AssemblyInit, AssemblyType
<1>2. LoopsOK
    BY DEF AssemblyInit, LoopsOK
<1> QED
    BY <1>1, <1>2 DEF AssemblyInit, AssemblyOK

LEMMA BeginStep ==
    ASSUME AssemblyOK, NEW s \in Sources, NEW d \in Documents, Begin(s, d)
    PROVE  AssemblyOK'
<1>1. /\ step = "idle" /\ step' = "collect" /\ document' = d /\ source' = s
      /\ index' = 1 /\ texts' = << >> /\ counts' = << >> /\ embeddings' = << >>
      /\ offset' = 0 /\ rows' = {} /\ stored' = stored
      /\ d \in Seq(Seq(BOOLEAN)) /\ Len(d) \in Nat
    BY DocumentsAreSections DEF Begin, AssemblyOK, LoopsOK
<1>2. AssemblyType'
    BY <1>1 DEF AssemblyType
<1>3. LoopsOK'
    <2> DEFINE base == [n \in Nat |-> 0]
    <2>1. Layout(base)'
        BY <1>1 DEF Layout, LaysOut
    <2>2. base \in [Nat -> Nat]
        OBVIOUS
    <2>3. LaidOut'
        BY <1>1, <2>1, <2>2 DEF LaidOut
    <2> QED
        BY <1>1, <2>3 DEF LoopsOK
<1> QED
    BY <1>1, <1>2, <1>3 DEF AssemblyOK, RowOK

\* Another section, of l texts, is laid out behind the others.
LEMMA LayoutGrows ==
    ASSUME NEW k \in Nat, NEW m \in Nat, NEW l \in Nat,
           NEW base \in [Nat -> Nat], NEW prs,
           NEW cnt \in [1..k -> Nat], NEW c,
           \A n \in 1..k : c[n] = cnt[n], c[k + 1] = l,
           NEW txt, NEW t,
           \A n \in 1..m : t[n] = txt[n],
           \A n \in 1..l : t[m + n] = prs[k + 1][n],
           LaysOut(base, k, txt, m, cnt, prs)
    PROVE  \E b \in [Nat -> Nat] : LaysOut(b, k + 1, t, m + l, c, prs)
<1> DEFINE b == [base EXCEPT ![(k + 1) + 1] = m + l]
<1>1. /\ b \in [Nat -> Nat] /\ b[(k + 1) + 1] = m + l
      /\ \A i \in 1..(k + 1) : b[i] = base[i] /\ b[i] \in Nat
    <2>1. m + l \in Nat
        OBVIOUS
    <2> QED
        BY <2>1, ExtendBase
<1>2. /\ base[1] = 0 /\ base[k + 1] = m
      /\ \A i \in 1..k :
           /\ base[i + 1] = base[i] + cnt[i] /\ base[i + 1] <= m
           /\ \A n \in 1..cnt[i] : txt[base[i] + n] = prs[i][n]
    BY DEF LaysOut
<1> HIDE DEF b
<1>3. ASSUME NEW i \in 1..(k + 1)
      PROVE  /\ b[i + 1] = b[i] + c[i] /\ b[i + 1] <= m + l
             /\ \A n \in 1..c[i] : t[b[i] + n] = prs[i][n]
    <2>1. CASE i = k + 1
        <3>1. b[i] = m /\ c[i] = l /\ b[i + 1] = m + l
            BY <1>1, <1>2, <2>1
        <3>2. ASSUME NEW n \in 1..c[i] PROVE t[b[i] + n] = prs[i][n]
            <4>1. n \in 1..l
                BY <3>1
            <4>2. t[m + n] = prs[k + 1][n]
                BY <4>1
            <4> QED
                BY <2>1, <3>1, <4>2
        <3>3. b[i + 1] = b[i] + c[i]
            BY <3>1
        <3>4. b[i + 1] <= m + l
            BY <3>1
        <3> QED
            BY <3>2, <3>3, <3>4
    <2>2. CASE i \in 1..k
        <3>1. i + 1 \in 1..(k + 1)
            BY <2>2
        <3>2. /\ b[i] = base[i] /\ b[i + 1] = base[i + 1]
              /\ b[i] \in Nat /\ b[i + 1] \in Nat
            BY <1>1, <3>1
        <3>3. c[i] = cnt[i] /\ cnt[i] \in Nat
            BY <2>2
        <3>4. b[i + 1] = b[i] + c[i] /\ b[i + 1] <= m
            BY <1>2, <2>2, <3>2, <3>3
        <3>5. ASSUME NEW n \in 1..c[i]
              PROVE  t[b[i] + n] = prs[i][n]
            <4>1. b[i] + n \in 1..m
                <5>1. b[i] + c[i] <= m
                    BY <3>4
                <5>2. c[i] \in Nat
                    BY <3>3
                <5> QED
                    BY <3>2, <5>1, <5>2, Within
            <4>2. txt[base[i] + n] = prs[i][n]
                BY <1>2, <2>2, <3>3
            <4>3. t[b[i] + n] = txt[b[i] + n]
                BY <4>1
            <4> QED
                BY <3>2, <4>2, <4>3
        <3>6. b[i + 1] <= m + l
            BY <3>2, <3>4
        <3> QED
            BY <3>4, <3>5, <3>6
    <2> QED
        BY <2>1, <2>2
<1>4. b[1] = 0
    <2>1. 1 \in 1..(k + 1)
        OBVIOUS
    <2> QED
        BY <1>1, <1>2, <2>1
<1>5. LaysOut(b, k + 1, t, m + l, c, prs)
    BY <1>1, <1>3, <1>4 DEF LaysOut
<1> QED
    BY <1>1, <1>5

LEMMA CollectStep ==
    ASSUME AssemblyOK, Collect PROVE AssemblyOK'
<1>1. /\ step = "collect" /\ document \in Documents /\ document' = document
      /\ source' = source /\ embeddings' = embeddings /\ embeddings = << >>
      /\ offset' = offset /\ offset = 0 /\ rows' = rows /\ rows = {}
      /\ stored' = stored
    BY DEF Collect, AssemblyOK, AssemblyType, LoopsOK
<1>2. /\ index \in Nat \ {0} /\ index <= Len(document) + 1
      /\ texts \in Seq(Texts) /\ counts \in Seq(Nat) /\ Len(counts) = index - 1
      /\ Len(counts) \in Nat
    BY <1>1 DEF AssemblyOK, AssemblyType, LoopsOK
<1>3. Len(document) \in Nat /\ DOMAIN document = 1..Len(document)
    BY <1>1, DocumentsAreSections
<1>4. index = Len(counts) + 1
    BY <1>2
<1>5. PICK base \in [Nat -> Nat] : Layout(base)
    BY <1>1 DEF AssemblyOK, LoopsOK, LaidOut
<1>6. Pairs' = Pairs
    BY <1>1 DEF Pairs, Pair
<1>7. CASE /\ index <= Len(document)
           /\ texts' = texts \o Pair(index)
           /\ counts' = Append(counts, Len(Pair(index)))
           /\ index' = index + 1
           /\ step' = "collect"
    <2>1. index \in DOMAIN document
        BY <1>2, <1>3, <1>7
    <2>2. Pair(index) \in Seq(Texts) /\ Len(Pair(index)) \in Nat
        BY <1>1, <2>1, PairType
    <2>3. Pair(index) = Pairs[index]
        BY <2>1 DEF Pairs
    <2>4. \E b \in [Nat -> Nat] :
              LaysOut(b, Len(counts) + 1, texts', Len(texts) + Len(Pair(index)),
                      counts', Pairs)
        <3>1. /\ \A n \in 1..Len(counts) : counts'[n] = counts[n]
              /\ counts'[Len(counts) + 1] = Len(Pair(index))
              /\ counts \in [1..Len(counts) -> Nat]
            <4>1. counts \in Seq(Nat) /\ Len(Pair(index)) \in Nat
                BY <1>2, <2>2
            <4>2. /\ \A n \in 1..Len(counts) :
                         Append(counts, Len(Pair(index)))[n] = counts[n]
                  /\ Append(counts, Len(Pair(index)))[Len(counts) + 1]
                         = Len(Pair(index))
                BY <4>1, AppendFacts
            <4>3. counts \in [1..Len(counts) -> Nat]
                BY <4>1, SeqIsFunction
            <4> QED
                BY <1>7, <4>2, <4>3
        <3>2. /\ \A n \in 1..Len(texts) : texts'[n] = texts[n]
              /\ \A n \in 1..Len(Pair(index)) :
                     texts'[Len(texts) + n] = Pairs[Len(counts) + 1][n]
              /\ Len(texts) \in Nat
            <4>1. texts \in Seq(Texts) /\ Pair(index) \in Seq(Texts)
                BY <1>2, <2>2
            <4>2. /\ \A n \in 1..Len(texts) :
                         (texts \o Pair(index))[n] = texts[n]
                  /\ \A n \in 1..Len(Pair(index)) :
                         (texts \o Pair(index))[Len(texts) + n] = Pair(index)[n]
                  /\ Len(texts) \in Nat
                BY <4>1, ConcatFacts
            <4>3. Pair(index) = Pairs[Len(counts) + 1]
                BY <1>4, <2>3
            <4> QED
                BY <1>7, <4>2, <4>3
        <3>3. LaysOut(base, Len(counts), texts, Len(texts), counts, Pairs)
            BY <1>5 DEF Layout
        <3>4. Len(counts) \in Nat /\ Len(Pair(index)) \in Nat
            BY <1>2, <2>2
        <3>5. ASSUME NEW k, k = Len(counts), NEW m, m = Len(texts),
                     NEW l, l = Len(Pair(index)), NEW c, c = counts',
                     NEW t, t = texts', NEW prs, prs = Pairs
              PROVE  \E b \in [Nat -> Nat] : LaysOut(b, k + 1, t, m + l, c, prs)
            <4>1. /\ k \in Nat /\ m \in Nat /\ l \in Nat
                  /\ counts \in [1..k -> Nat]
                  /\ LaysOut(base, k, texts, m, counts, prs)
                BY <3>1, <3>2, <3>3, <3>4, <3>5
            <4>2. /\ \A n \in 1..k : c[n] = counts[n]
                  /\ c[k + 1] = l
                BY <3>1, <3>5
            <4>3. /\ \A n \in 1..m : t[n] = texts[n]
                  /\ \A n \in 1..l : t[m + n] = prs[k + 1][n]
                BY <3>2, <3>5
            <4> HIDE DEF Pairs
            <4> QED
                BY <4>1, <4>2, <4>3, LayoutGrows
        <3> QED
            BY <3>5
    <2>5. /\ Len(counts') = Len(counts) + 1 /\ counts' \in Seq(Nat)
          /\ Len(texts') = Len(texts) + Len(Pair(index))
        BY <1>2, <1>7, <2>2, AppendFacts, ConcatFacts
    <2>6. LaidOut'
        BY <1>6, <1>7, <2>4, <2>5 DEF LaidOut, Layout
    <2>7. index' <= Len(document') + 1 /\ Len(counts') = index' - 1
          /\ index' \in Nat \ {0}
        BY <1>1, <1>2, <1>3, <1>4, <1>7, <2>5
    <2>8. LoopsOK'
        BY <1>1, <1>7, <2>6, <2>7 DEF LoopsOK
    <2>9. texts' \in Seq(Texts)
        BY <1>2, <1>7, <2>2, ConcatFacts
    <2>10. AssemblyType'
        BY <1>1, <1>7, <2>5, <2>7, <2>9 DEF AssemblyOK, AssemblyType
    <2> QED
        BY <1>1, <2>8, <2>10 DEF AssemblyOK, RowOK
<1>8. CASE /\ index > Len(document)
           /\ step' = "embed" /\ index' = 1
           /\ UNCHANGED <<texts, counts>>
    <2>1. Layout(base)'
        BY <1>5, <1>6, <1>8 DEF Layout
    <2>2. LaidOut'
        BY <1>8, <2>1 DEF LaidOut
    <2>3. Len(embeddings') = Min2(index' - 1, Len(texts'))
        <3>1. Len(texts) \in Nat /\ Len(embeddings') = 0 /\ index' - 1 = 0
            BY <1>1, <1>2, <1>8
        <3> QED
            BY <1>8, <3>1 DEF Min2
    <2>4. Len(counts') = Len(document')
        BY <1>1, <1>2, <1>3, <1>8
    <2>5. \A n \in 1..Len(embeddings') : FALSE
        BY <1>1
    <2>6. LoopsOK'
        BY <1>1, <1>8, <2>2, <2>3, <2>4, <2>5 DEF LoopsOK
    <2>7. AssemblyType'
        BY <1>1, <1>8 DEF AssemblyOK, AssemblyType
    <2> QED
        BY <1>1, <2>6, <2>7 DEF AssemblyOK, RowOK
<1> QED
    BY <1>1, <1>7, <1>8 DEF Collect

LEMMA LastOfBatch ==
    ASSUME NEW i \in Nat \ {0}, NEW k \in Nat \ {0}, NEW m \in Nat, i <= m
    PROVE  LET last == Min2(i + k - 1, m) IN
           /\ last \in Nat /\ last \in Int /\ i <= last /\ last <= m
           /\ (i - 1) + (last - i + 1) = last
           /\ last - i + 1 \in Nat /\ i - 1 \in Nat
           /\ Min2(i - 1, m) = i - 1
BY DEF Min2

LEMMA BehindIt ==
    ASSUME NEW i \in Nat \ {0}, NEW last \in Nat, i <= last,
           NEW n \in 1..last, n \notin 1..(i - 1)
    PROVE  \E j \in 1..(last - i + 1) : n = (i - 1) + j /\ i + j - 1 = n
<1> DEFINE j == n - (i - 1)
<1>1. j \in 1..(last - i + 1) /\ n = (i - 1) + j /\ i + j - 1 = n
    OBVIOUS
<1> QED
    BY <1>1

\* The sequence e has the first z texts of txt.
Copies(e, txt, z) ==
    /\ e \in Seq(Texts) /\ Len(e) = z
    /\ \A n \in 1..z : e[n] = txt[n]

\* The embeddings of a batch, behind those of the texts before it, are those of
\* the texts up to the end of the batch.
LEMMA BatchGrows ==
    ASSUME NEW txt \in Seq(Texts), NEW emb, NEW k \in Nat \ {0},
           NEW i \in Nat \ {0}, i <= Len(txt), Copies(emb, txt, i - 1),
           NEW last, last = Min2(i + k - 1, Len(txt))
    PROVE  Copies(emb \o SubSeq(txt, i, last), txt, last)
<1> DEFINE b == SubSeq(txt, i, last)
<1>1. /\ Len(txt) \in Nat
      /\ emb \in Seq(Texts) /\ Len(emb) = i - 1
      /\ \A n \in 1..(i - 1) : emb[n] = txt[n]
    BY SeqIsFunction DEF Copies
<1>2. /\ last \in Nat /\ last \in Int /\ i <= last /\ last <= Len(txt)
      /\ (i - 1) + (last - i + 1) = last
      /\ i - 1 \in Nat
    BY <1>1, LastOfBatch
<1>3. /\ b \in Seq(Texts) /\ Len(b) = last - i + 1
      /\ \A n \in 1..(last - i + 1) : b[n] = txt[i + n - 1]
    BY <1>2, SubSeqFacts
<1> HIDE DEF b
<1>4. /\ emb \o b \in Seq(Texts) /\ Len(emb \o b) = Len(emb) + Len(b)
      /\ \A n \in 1..Len(emb) : (emb \o b)[n] = emb[n]
      /\ \A n \in 1..Len(b) : (emb \o b)[Len(emb) + n] = b[n]
    <2>1. b \in Seq(Texts)
        BY <1>3
    <2>2. ASSUME NEW e \in Seq(Texts)
          PROVE  /\ e \o b \in Seq(Texts) /\ Len(e \o b) = Len(e) + Len(b)
                 /\ \A n \in 1..Len(e) : (e \o b)[n] = e[n]
                 /\ \A n \in 1..Len(b) : (e \o b)[Len(e) + n] = b[n]
        BY <2>1, ConcatFacts
    <2> QED
        BY <1>1, <2>2
<1>5. Len(emb \o b) = last
    BY <1>1, <1>2, <1>3, <1>4
<1>6. ASSUME NEW n \in 1..last
      PROVE  (emb \o b)[n] = txt[n]
    <2>1. CASE n \in 1..(i - 1)
        BY <1>1, <1>4, <2>1
    <2>2. CASE n \notin 1..(i - 1)
        <3>1. PICK j \in 1..(last - i + 1) : n = (i - 1) + j /\ i + j - 1 = n
            BY <1>2, <2>2, BehindIt
        <3>2. (emb \o b)[(i - 1) + j] = b[j]
            BY <1>1, <1>3, <1>4
        <3>3. b[j] = txt[i + j - 1]
            BY <1>3
        <3> QED
            BY <3>1, <3>2, <3>3
    <2> QED
        BY <2>1, <2>2
<1> QED
    BY <1>4, <1>5, <1>6 DEF b, Copies

LEMMA SameSequence ==
    ASSUME NEW S, NEW q \in Seq(S), NEW r \in Seq(S), Len(q) = Len(r),
           \A n \in 1..Len(q) : q[n] = r[n]
    PROVE  q = r
<1>1. q \in [1..Len(q) -> S] /\ r \in [1..Len(q) -> S]
    BY SeqIsFunction
<1> QED
    BY <1>1

LEMMA EmbedStep ==
    ASSUME AssemblyOK, Embed PROVE AssemblyOK'
<1>1. /\ step = "embed" /\ document \in Documents
      /\ UNCHANGED <<document, source, texts, counts, offset, rows, stored>>
      /\ offset = 0 /\ rows = {}
    BY DEF Embed, AssemblyOK, AssemblyType, LoopsOK
<1>2. /\ index \in Nat \ {0}
      /\ texts \in Seq(Texts) /\ counts \in Seq(Nat)
      /\ embeddings \in Seq(Texts)
      /\ Len(counts) = Len(document)
      /\ Len(embeddings) = Min2(index - 1, Len(texts))
      /\ \A n \in 1..Len(embeddings) : embeddings[n] = texts[n]
    BY <1>1 DEF AssemblyOK, AssemblyType, LoopsOK
<1>3. Len(texts) \in Nat
    BY <1>2, SeqIsFunction
<1>4. PICK base \in [Nat -> Nat] : Layout(base)
    BY <1>1 DEF AssemblyOK, LoopsOK, LaidOut
<1>5. Pairs' = Pairs
    BY <1>1 DEF Pairs, Pair
<1>6. Layout(base)'
    BY <1>1, <1>4, <1>5 DEF Layout
<1> DEFINE last == Min2(index + BatchSize - 1, Len(texts))
<1>7. CASE /\ index <= Len(texts)
           /\ embeddings' = embeddings \o SubSeq(texts, index, last)
           /\ index' = index + BatchSize
           /\ step' = "embed"
    <2>1. Len(embeddings) = index - 1
        BY <1>2, <1>3, <1>7, BatchesAreNotEmpty, LastOfBatch
    <2>2. /\ embeddings' \in Seq(Texts) /\ Len(embeddings') = last
          /\ \A n \in 1..last : embeddings'[n] = texts[n]
        <3>1. Copies(embeddings, texts, index - 1)
            BY <1>2, <2>1 DEF Copies
        <3>2. /\ texts \in Seq(Texts)
              /\ BatchSize \in Nat \ {0} /\ index \in Nat \ {0}
              /\ index <= Len(texts)
            BY <1>2, <1>7, BatchesAreNotEmpty
        <3>3. last = Min2(index + BatchSize - 1, Len(texts))
            OBVIOUS
        <3> HIDE DEF last
        <3>4. Copies(embeddings \o SubSeq(texts, index, last), texts, last)
            BY <3>1, <3>2, <3>3, BatchGrows
        <3>5. Copies(embeddings', texts, last)
            BY <1>7, <3>4 DEF last
        <3> QED
            BY <3>5 DEF Copies
    <2>3. last = Min2(index' - 1, Len(texts)) /\ index' \in Nat \ {0}
        <3>1. index' = index + BatchSize
            BY <1>7
        <3>2. index \in Nat \ {0} /\ BatchSize \in Nat \ {0}
            BY <1>2, BatchesAreNotEmpty
        <3>3. index' \in Nat \ {0} /\ index' - 1 = index + BatchSize - 1
            BY <3>1, <3>2
        <3> QED
            BY <3>3
    <2> HIDE DEF last
    <2>4. LaidOut'
        BY <1>6, <1>7 DEF LaidOut
    <2>5. LoopsOK'
        BY <1>1, <1>2, <1>7, <2>2, <2>3, <2>4 DEF LoopsOK
    <2>6. AssemblyType'
        BY <1>1, <1>7, <2>2, <2>3 DEF AssemblyOK, AssemblyType
    <2> QED
        BY <1>1, <2>5, <2>6 DEF AssemblyOK, RowOK
<1>8. CASE /\ index > Len(texts)
           /\ step' = "split" /\ index' = 1
           /\ embeddings' = embeddings
    <2>1. Len(embeddings) = Len(texts)
        BY <1>2, <1>3, <1>8 DEF Min2
    <2>2. embeddings = texts
        BY <1>2, <2>1, SameSequence
    <2>3. base[1] = 0
        BY <1>4 DEF Layout, LaysOut
    <2>4. LaidOut'
        BY <1>1, <1>6, <1>8, <2>3 DEF LaidOut
    <2>5. Len(document) \in Nat
        BY <1>1, DocumentsAreSections
    <2>6. LoopsOK'
        BY <1>1, <1>2, <1>8, <2>2, <2>4, <2>5 DEF LoopsOK
    <2>7. AssemblyType'
        BY <1>1, <1>8 DEF AssemblyOK, AssemblyType
    <2> QED
        BY <1>1, <2>6, <2>7 DEF AssemblyOK, RowOK
<1>9. ASSUME index <= Len(texts)
      PROVE  Batch \in Seq(Texts)
    <2>1. last \in Int /\ last <= Len(texts)
        BY <1>2, <1>3, <1>9, BatchesAreNotEmpty, LastOfBatch
    <2> QED
        BY <1>2, <2>1, SubSeqFacts DEF Batch
<1>10. ASSUME index <= Len(texts), NEW data \in Answers(Batch)
       PROVE  ByIndex(data) = SubSeq(texts, index, last)
    BY <1>9, <1>10, SortedAnswer DEF Batch
<1> HIDE DEF last
<1> QED
    BY <1>1, <1>7, <1>8, <1>10 DEF Embed

LEMMA SplitStep ==
    ASSUME AssemblyOK, Split PROVE AssemblyOK'
<1>1. /\ step = "split" /\ document \in Documents
      /\ UNCHANGED <<document, source, texts, counts, embeddings, stored>>
      /\ index \in Nat \ {0} /\ index <= Len(document) + 1
      /\ counts \in Seq(Nat)
      /\ Len(counts) = Len(document)
      /\ embeddings = texts
      /\ \A r \in rows : RowOK(r)
    BY DEF Split, AssemblyOK, AssemblyType, LoopsOK
<1>2. Len(document) \in Nat
    BY <1>1, DocumentsAreSections
<1>3. PICK base \in [Nat -> Nat] :
          Layout(base) /\ offset = base[index]
    BY <1>1 DEF AssemblyOK, LoopsOK, LaidOut
<1>4. Pairs' = Pairs
    BY <1>1 DEF Pairs, Pair
<1>5. Layout(base)'
    BY <1>1, <1>3, <1>4 DEF Layout
<1>6. CASE /\ index <= Len(document)
           /\ rows' = rows \cup NewRows(index)
           /\ index' = index + 1
           /\ offset' = offset + counts[index]
           /\ step' = "split"
    <2>1. index \in 1..Len(counts)
        BY <1>1, <1>2, <1>6
    <2>2. counts[index] \in Nat
        <3>1. counts \in Seq(Nat)
            BY <1>1
        <3>2. counts \in [1..Len(counts) -> Nat]
            BY <3>1, SeqIsFunction
        <3> QED
            BY <2>1, <3>2
    <2>3. index \in DOMAIN document
        BY <1>1, <1>2, <2>1, DocumentsAreSections
    <2>4. /\ base[index + 1] = base[index] + counts[index]
          /\ \A n \in 1..counts[index] :
                 texts[base[index] + n] = Pairs[index][n]
        BY <1>3, <2>1 DEF Layout, LaysOut
    <2>5. Pairs[index] = Pair(index)
        BY <2>3 DEF Pairs
    <2>6. ASSUME NEW r \in NewRows(index)
          PROVE  RowOK(r)
        <3>1. PICK n \in 1..counts[index] :
                  /\ r.source = source /\ r.owner = Owner[source]
                  /\ r.text = Pair(index)[n]
                  /\ r.embedding = embeddings[offset + n]
            <4>1. PICK n \in 1..counts[index] :
                      r = [source |-> source, project |-> ProjectColumn(source),
                           owner |-> Owner[source],
                           parent |-> <<Len(saved) + 1, index>>,
                           text |-> Pair(index)[n],
                           embedding |-> embeddings[offset + n]]
                BY DEF NewRows
            <4> QED
                BY <4>1
        <3>2. texts[base[index] + n] = Pair(index)[n]
            BY <2>4, <2>5
        <3> QED
            BY <1>1, <1>3, <3>1, <3>2 DEF RowOK
    <2>7. offset' = base[index'] /\ offset' \in Nat /\ index' \in Nat \ {0}
        <3>1. index \in Nat \ {0} /\ base[index] \in Nat
            BY <1>1
        <3>2. index' = index + 1 /\ offset' = base[index] + counts[index]
            BY <1>3, <1>6
        <3> QED
            BY <2>2, <2>4, <3>1, <3>2
    <2>8. LaidOut'
        BY <1>5, <2>7 DEF LaidOut
    <2>9. index' <= Len(document') + 1
        BY <1>1, <1>2, <1>6
    <2>10. LoopsOK'
        BY <1>1, <1>6, <2>8, <2>9 DEF LoopsOK
    <2>11. AssemblyType'
        BY <1>1, <1>6, <2>7 DEF AssemblyOK, AssemblyType
    <2>12. (\A r \in rows : RowOK(r))'
        BY <1>1, <1>6, <2>6 DEF RowOK
    <2> QED
        BY <1>1, <2>10, <2>11, <2>12 DEF AssemblyOK, RowOK
<1>7. CASE step' = "save" /\ UNCHANGED <<rows, index, offset>>
    <2>1. LaidOut'
        BY <1>5, <1>7 DEF LaidOut
    <2>2. LoopsOK'
        BY <1>1, <1>7, <2>1 DEF LoopsOK
    <2>3. AssemblyType'
        BY <1>1, <1>7 DEF AssemblyOK, AssemblyType
    <2> QED
        BY <1>1, <1>7, <2>2, <2>3 DEF AssemblyOK, RowOK
<1> QED
    BY <1>1, <1>6, <1>7 DEF Split

LEMMA EndStep ==
    ASSUME AssemblyOK, Save \/ Raise PROVE AssemblyOK'
<1>1. /\ step' = "idle" /\ index' = 1 /\ texts' = << >> /\ counts' = << >>
      /\ embeddings' = << >> /\ offset' = 0 /\ rows' = {} /\ source' = source
      /\ stored' \subseteq stored \cup rows
    BY DEF Save, Raise, End
<1>2. LoopsOK'
    BY <1>1 DEF LoopsOK
<1>3. AssemblyType'
    BY <1>1 DEF AssemblyOK, AssemblyType
<1> QED
    BY <1>1, <1>2, <1>3 DEF AssemblyOK, RowOK

LEMMA NextAssembly == AssemblyOK /\ [Next]_vars => AssemblyOK'
<1> SUFFICES ASSUME AssemblyOK, [Next]_vars PROVE AssemblyOK'
    OBVIOUS
<1>1. CASE AssemblyStep
    BY <1>1, BeginStep, CollectStep, EmbedStep, SplitStep, EndStep
    DEF AssemblyStep
<1>2. ASSUME UNCHANGED assembly, stored' \subseteq stored
      PROVE  AssemblyOK'
    <2>1. UNCHANGED <<step, source, document, index, texts, counts, embeddings,
                      offset, rows>>
        BY <1>2 DEF assembly
    <2>2. AssemblyType'
        BY <2>1 DEF AssemblyOK, AssemblyType
    <2>3. LaidOut <=> LaidOut'
        BY <2>1 DEF LaidOut, Layout, Pairs, Pair
    <2>4. LoopsOK'
        BY <2>1, <2>3 DEF AssemblyOK, LoopsOK
    <2> QED
        BY <1>2, <2>1, <2>2, <2>4 DEF AssemblyOK, RowOK
<1>3. CASE CallStep \/ (\E s \in Sources : Delete(s)) \/ UNCHANGED vars
    BY <1>2, <1>3
    DEF CallStep, Ask, Search, Rerank, Complete, OpenStream, Piece, EndStream,
        Break, Delete, vars
<1> QED
    BY <1>1, <1>3 DEF Next

\* The inductive invariant of the assembly: the loops lay the texts out, and deal
\* the embeddings out from the same places.
THEOREM AssemblyHolds == Spec => []AssemblyOK
<1>1. Init => AssemblyOK
    BY InitAssembly DEF Init
<1> QED
    BY <1>1, NextAssembly, PTL DEF Spec

\* Whatever the size of a batch and however the provider orders its answers,
\* every row in the vector store has the embedding of its own text.
THEOREM EmbeddingsMatch == Spec => []EmbeddingIsOfItsText
<1>1. AssemblyOK => EmbeddingIsOfItsText
    BY DEF AssemblyOK, RowOK, EmbeddingIsOfItsText
<1> QED
    BY <1>1, AssemblyHolds, PTL

-----------------------------------------------------------------------------
(***************************************************************************)
(* Whole documents.                                                        *)
(***************************************************************************)
\* Every piece with text is among the children of its section: the number of
\* those before it tells it apart from the others.
LEMMA ChildrenAreComplete ==
    ASSUME NEW d \in Documents, NEW i \in DOMAIN d
    PROVE  /\ Len(Children(i, d[i])) >= 1
           /\ \A k \in DOMAIN d[i] :
                  d[i][k] => \E n \in 1..Len(Children(i, d[i])) :
                                 Children(i, d[i])[n] = [section |-> i, piece |-> k]
<1> DEFINE pieces == d[i]
           Full == {k \in DOMAIN pieces : pieces[k]}
           Before(k) == Cardinality({m \in Full : m < k})
<1>1. pieces \in Seq(BOOLEAN)
    BY DocumentsAreSections
<1>2. DOMAIN pieces = 1..Len(pieces) /\ Len(pieces) \in Nat
    BY <1>1
<1>3. Full \subseteq Int /\ IsFiniteSet(Full) /\ Cardinality(Full) \in Nat
    <2>1. 1 \in Int /\ Len(pieces) \in Int
        BY <1>2
    <2>2. IsFiniteSet(DOMAIN pieces)
        BY <1>2, <2>1, FS_Interval
    <2>3. \A k \in Full : k \in Int
        BY <1>2
    <2> QED
        BY <2>2, <2>3, FS_Subset, FS_CardinalityType
<1>4. CASE Full = {}
    <2>1. Children(i, pieces) = <<[section |-> i, piece |-> 0]>>
        BY <1>4 DEF Children
    <2>2. Len(Children(i, pieces)) = 1
        BY <2>1
    <2>3. ASSUME NEW k \in DOMAIN pieces, pieces[k] PROVE FALSE
        BY <1>4, <2>3
    <2> QED
        BY <2>2, <2>3
<1>5. CASE Full # {}
    <2> DEFINE f == [n \in 1..Cardinality(Full) |->
                     [section |-> i,
                      piece |-> CHOOSE k \in Full : Before(k) = n - 1]]
    <2>1. Children(i, pieces) = f
        BY <1>5 DEF Children
    <2>2. Cardinality(Full) # 0
        BY <1>3, <1>5, FS_EmptySet
    <2>3. Len(f) = Cardinality(Full)
        BY <1>3
    <2>4. ASSUME NEW k \in Full
          PROVE  \E n \in 1..Cardinality(Full) : f[n] = [section |-> i, piece |-> k]
        <3> HIDE DEF Full
        <3>1. Before(k) \in Nat /\ Before(k) < Cardinality(Full)
            BY <1>3, RankBound
        <3>2. ASSUME NEW l \in Full, Before(l) = Before(k)
              PROVE  l = k
            <4>1. k \in Int /\ l \in Int
                BY <1>3
            <4>2. k < l => Before(k) < Before(l)
                BY <1>3, RankFacts
            <4>3. l < k => Before(l) < Before(k)
                BY <1>3, RankFacts
            <4> HIDE DEF Before
            <4> QED
                BY <3>1, <3>2, <4>1, <4>2, <4>3
        <3> DEFINE n == Before(k) + 1
        <3>3. n \in 1..Cardinality(Full) /\ n - 1 = Before(k)
            BY <1>3, <3>1
        <3> HIDE DEF n, Before
        <3>4. (CHOOSE l \in Full : Before(l) = n - 1) = k
            BY <3>2, <3>3
        <3>5. f[n] = [section |-> i, piece |-> CHOOSE l \in Full : Before(l) = n - 1]
            BY <3>3
        <3> QED
            BY <3>3, <3>4, <3>5
    <2> HIDE DEF f
    <2> QED
        BY <1>3, <2>1, <2>2, <2>3, <2>4
<1> QED
    BY <1>4, <1>5

RowFor(s, n, i, text) ==
    [source |-> s, project |-> ProjectColumn(s), owner |-> Owner[s],
     parent |-> <<n, i>>, text |-> text, embedding |-> text]

\* The rows R hold section i of the document d, saved as number n for source s.
HasSection(R, s, n, d, i) ==
    \A k \in 1..Len(Children(i, d[i])) : RowFor(s, n, i, Children(i, d[i])[k]) \in R

\* The rows of a document are complete up to the section that the loop has reached,
\* and complete in the store: a save adds all of them and a delete takes them all.
PartsOK ==
    /\ saved \in Seq(Documents)
    /\ step # "idle" =>
           \A i \in 1..Len(counts) : counts[i] = Len(Pair(i))
    /\ \A r \in rows : r.parent[1] = Len(saved) + 1 /\ r.source = source
    /\ step = "split" =>
           \A i \in 1..(index - 1) :
               HasSection(rows, source, Len(saved) + 1, document, i)
    /\ step = "save" =>
           \A i \in DOMAIN document :
               HasSection(rows, source, Len(saved) + 1, document, i)
    /\ \A r \in stored :
           /\ r.parent[1] \in 1..Len(saved)
           /\ \A i \in DOMAIN saved[r.parent[1]] :
                  HasSection(stored, r.source, r.parent[1], saved[r.parent[1]], i)

LEMMA InitParts == AssemblyInit => PartsOK
BY DEF AssemblyInit, PartsOK

LEMMA CollectParts ==
    ASSUME AssemblyOK, PartsOK, Collect PROVE PartsOK'
<1>1. /\ step = "collect" /\ document' = document /\ saved' = saved
      /\ rows' = rows /\ stored' = stored /\ source' = source
      /\ step' \in {"collect", "embed"}
      /\ counts \in Seq(Nat) /\ Len(counts) = index - 1
      /\ index \in Nat \ {0} /\ index <= Len(document) + 1
      /\ document \in Documents
    BY DEF Collect, AssemblyOK, AssemblyType, LoopsOK
<1>2. \A i \in 1..Len(counts) : counts[i] = Len(Pair(i))
    BY <1>1 DEF PartsOK
<1>3. \A i \in 1..Len(counts') : counts'[i] = Len(Pair(i))
    <2>1. CASE index <= Len(document) /\ counts' = Append(counts, Len(Pair(index)))
        <3>1. Len(document) \in Nat /\ DOMAIN document = 1..Len(document)
            BY <1>1, DocumentsAreSections
        <3>2. Len(Pair(index)) \in Nat
            BY <1>1, <2>1, <3>1, PairType
        <3>3. /\ Len(counts') = Len(counts) + 1 /\ Len(counts) \in Nat
              /\ \A n \in 1..Len(counts) : counts'[n] = counts[n]
              /\ counts'[Len(counts) + 1] = Len(Pair(index))
            BY <1>1, <2>1, <3>2, AppendFacts
        <3>4. index = Len(counts) + 1
            BY <1>1, <3>3
        <3> QED
            BY <1>2, <3>3, <3>4
    <2>2. CASE counts' = counts
        BY <1>2, <2>2
    <2> QED
        BY <2>1, <2>2 DEF Collect
<1>4. \A i : Pair(i)' = Pair(i)
    BY <1>1 DEF Pair
<1> QED
    BY <1>1, <1>3, <1>4 DEF PartsOK

LEMMA SplitParts ==
    ASSUME AssemblyOK, PartsOK, Split PROVE PartsOK'
<1>1. /\ step = "split" /\ document \in Documents
      /\ UNCHANGED <<document, source, texts, counts, embeddings, stored, saved>>
      /\ index \in Nat \ {0} /\ index <= Len(document) + 1
      /\ counts \in Seq(Nat)
      /\ Len(counts) = Len(document)
      /\ embeddings = texts
      /\ saved \in Seq(Documents)
    BY DEF Split, AssemblyOK, AssemblyType, LoopsOK, PartsOK
<1>2. Len(document) \in Nat /\ DOMAIN document = 1..Len(document)
    BY <1>1, DocumentsAreSections
<1>3. /\ \A i \in 1..Len(counts) : counts[i] = Len(Pair(i))
      /\ \A r \in rows : r.parent[1] = Len(saved) + 1 /\ r.source = source
      /\ \A i \in 1..(index - 1) :
             HasSection(rows, source, Len(saved) + 1, document, i)
    BY <1>1 DEF PartsOK
<1>4. \A i : Pair(i)' = Pair(i)
    BY <1>1 DEF Pair
<1>5. CASE /\ index <= Len(document)
           /\ rows' = rows \cup NewRows(index)
           /\ index' = index + 1
           /\ step' = "split"
    <2>1. index \in DOMAIN document /\ index \in 1..Len(counts)
        BY <1>1, <1>2, <1>5
    <2>2. counts[index] = Len(Pair(index)) /\ Len(Pair(index)) \in Nat
        BY <1>1, <1>3, <2>1, PairType
    <2>3. ASSUME NEW n \in 1..counts[index]
          PROVE  embeddings[offset + n] = Pair(index)[n]
        <3>1. PICK base \in [Nat -> Nat] : Layout(base) /\ offset = base[index]
            BY <1>1 DEF AssemblyOK, LoopsOK, LaidOut
        <3>2. texts[base[index] + n] = Pairs[index][n]
            BY <2>1, <3>1 DEF Layout, LaysOut
        <3>3. Pairs[index] = Pair(index)
            BY <2>1 DEF Pairs
        <3> QED
            BY <1>1, <3>1, <3>2, <3>3
    <2>4. ASSUME NEW n \in 1..counts[index]
          PROVE  RowFor(source, Len(saved) + 1, index, Pair(index)[n]) \in NewRows(index)
        BY <2>3 DEF NewRows, RowFor
    <2>5. HasSection(rows', source, Len(saved) + 1, document, index)
        BY <1>5, <2>2, <2>4 DEF HasSection, Pair
    <2>6. \A i \in 1..index : HasSection(rows', source, Len(saved) + 1, document, i)
        <3>1. ASSUME NEW i \in 1..(index - 1)
              PROVE  HasSection(rows', source, Len(saved) + 1, document, i)
            BY <1>3, <1>5 DEF HasSection
        <3>2. \A i \in 1..index : i = index \/ i \in 1..(index - 1)
            BY <1>1
        <3> QED
            BY <2>5, <3>1, <3>2
    <2>7. ASSUME NEW r \in NewRows(index)
          PROVE  r.parent[1] = Len(saved) + 1 /\ r.source = source
        BY DEF NewRows
    <2>8. index' - 1 = index
        BY <1>1, <1>5
    <2> QED
        BY <1>1, <1>3, <1>4, <1>5, <2>6, <2>7, <2>8 DEF PartsOK
<1>6. CASE /\ index > Len(document)
           /\ step' = "save" /\ rows' = rows
    <2>1. \A i \in DOMAIN document : i \in 1..(index - 1)
        BY <1>1, <1>2, <1>6
    <2> QED
        BY <1>1, <1>3, <1>4, <1>6, <2>1 DEF PartsOK
<1> QED
    BY <1>5, <1>6 DEF Split

LEMMA SaveParts ==
    ASSUME AssemblyOK, PartsOK, Save PROVE PartsOK'
<1>1. /\ step = "save" /\ document \in Documents /\ saved \in Seq(Documents)
      /\ step' = "idle" /\ rows' = {} /\ source' = source
      /\ stored' = stored \cup rows /\ saved' = Append(saved, document)
    BY DEF Save, End, AssemblyOK, AssemblyType, PartsOK
<1>2. /\ saved' \in Seq(Documents)
      /\ Len(saved) \in Nat /\ Len(saved') = Len(saved) + 1
      /\ \A n \in 1..Len(saved) : saved'[n] = saved[n]
      /\ saved'[Len(saved) + 1] = document
    BY <1>1, AppendFacts
<1>3. ASSUME NEW r \in stored
      PROVE  /\ r.parent[1] \in 1..Len(saved')
             /\ \A i \in DOMAIN saved'[r.parent[1]] :
                    HasSection(stored', r.source, r.parent[1], saved'[r.parent[1]], i)
    <2>1. /\ r.parent[1] \in 1..Len(saved)
          /\ \A i \in DOMAIN saved[r.parent[1]] :
                  HasSection(stored, r.source, r.parent[1], saved[r.parent[1]], i)
        BY DEF PartsOK
    <2>2. saved'[r.parent[1]] = saved[r.parent[1]] /\ r.parent[1] \in 1..Len(saved')
        BY <1>2, <2>1
    <2> QED
        BY <1>1, <2>1, <2>2 DEF HasSection
<1>4. ASSUME NEW r \in rows
      PROVE  /\ r.parent[1] \in 1..Len(saved')
             /\ \A i \in DOMAIN saved'[r.parent[1]] :
                    HasSection(stored', r.source, r.parent[1], saved'[r.parent[1]], i)
    <2>1. /\ r.parent[1] = Len(saved) + 1 /\ r.source = source
          /\ \A i \in DOMAIN document :
                  HasSection(rows, source, Len(saved) + 1, document, i)
        BY <1>1 DEF PartsOK
    <2>2. saved'[r.parent[1]] = document /\ r.parent[1] \in 1..Len(saved')
        BY <1>2, <2>1
    <2> QED
        BY <1>1, <2>1, <2>2 DEF HasSection
<1> QED
    BY <1>1, <1>2, <1>3, <1>4 DEF PartsOK

LEMMA DeleteParts ==
    ASSUME AssemblyOK, PartsOK, NEW s \in Sources, Delete(s) PROVE PartsOK'
<1>1. /\ UNCHANGED <<step, source, document, index, counts, rows, saved>>
      /\ stored' = {r \in stored : ~(r.source = s /\ r.owner = Owner[s])}
    BY DEF Delete, assembly
<1>2. ASSUME NEW r \in stored', NEW i \in DOMAIN saved[r.parent[1]]
      PROVE  HasSection(stored', r.source, r.parent[1], saved[r.parent[1]], i)
    <2>1. r \in stored /\ ~(r.source = s /\ r.owner = Owner[s])
        BY <1>1
    <2>2. r.owner = Owner[r.source]
        BY <2>1 DEF AssemblyOK, RowOK
    <2>3. r.source # s
        BY <2>1, <2>2
    <2>4. HasSection(stored, r.source, r.parent[1], saved[r.parent[1]], i)
        BY <2>1 DEF PartsOK
    <2>5. \A n, text : RowFor(r.source, n, i, text).source # s
        BY <2>3 DEF RowFor
    <2> QED
        BY <1>1, <2>4, <2>5 DEF HasSection
<1>3. \A i : Pair(i)' = Pair(i)
    BY <1>1 DEF Pair
<1> QED
    BY <1>1, <1>2, <1>3 DEF PartsOK

LEMMA NextParts == AssemblyOK /\ PartsOK /\ [Next]_vars => PartsOK'
<1> SUFFICES ASSUME AssemblyOK, PartsOK, [Next]_vars PROVE PartsOK'
    OBVIOUS
<1>1. ASSUME NEW s \in Sources, NEW d \in Documents, Begin(s, d)
      PROVE  PartsOK'
    <2>1. step = "idle" /\ step' = "collect" /\ counts' = counts /\ rows' = rows
          /\ stored' = stored /\ saved' = saved
        BY <1>1 DEF Begin
    <2>2. counts = << >> /\ rows = {}
        BY <2>1 DEF AssemblyOK, LoopsOK
    <2> QED
        BY <2>1, <2>2 DEF PartsOK
<1>2. CASE Embed
    <2>1. /\ step = "embed" /\ step' \in {"embed", "split"}
          /\ step' = "split" => index' = 1
          /\ UNCHANGED <<source, document, counts, rows, stored, saved>>
        BY <1>2 DEF Embed
    <2>2. \A i : Pair(i)' = Pair(i)
        BY <2>1 DEF Pair
    <2>3. step' = "split" => 1..(index' - 1) = {}
        BY <2>1
    <2> QED
        BY <2>1, <2>2, <2>3 DEF PartsOK
<1>3. CASE Raise
    BY <1>3 DEF Raise, End, PartsOK
<1>4. ASSUME UNCHANGED <<assembly, stored>>
      PROVE  PartsOK'
    <2>1. UNCHANGED <<step, source, document, index, counts, rows, saved, stored>>
        BY <1>4 DEF assembly
    <2>2. \A i : Pair(i)' = Pair(i)
        BY <2>1 DEF Pair
    <2> QED
        BY <2>1, <2>2 DEF PartsOK
<1>5. CASE CallStep \/ UNCHANGED vars
    BY <1>4, <1>5
    DEF CallStep, Ask, Search, Rerank, Complete, OpenStream, Piece, EndStream,
        Break, vars
<1> QED
    BY <1>1, <1>2, <1>3, <1>5, CollectParts, SplitParts, SaveParts, DeleteParts
    DEF Next, AssemblyStep

\* Whatever raises and whenever sources are deleted, a document that has a row in
\* the vector store has all of them: a row for every section and for every piece
\* with text.
THEOREM DocumentsAreWhole == Spec => []WholeDocuments
<1>1. ASSUME PartsOK, NEW r \in stored, NEW i \in DOMAIN saved[r.parent[1]]
      PROVE  LET Of == {t \in stored : t.parent[1] = r.parent[1]}
                 doc == saved[r.parent[1]]
             IN  /\ \E t \in Of : t.parent[2] = i
                 /\ \A k \in DOMAIN doc[i] :
                        doc[i][k] => \E t \in Of : /\ t.parent[2] = i
                                                   /\ t.text = [section |-> i, piece |-> k]
    <2> DEFINE n == r.parent[1]
               doc == saved[n]
               Of == {t \in stored : t.parent[1] = n}
    <2>1. doc \in Documents
        BY <1>1 DEF PartsOK
    <2>2. HasSection(stored, r.source, n, doc, i)
        BY <1>1 DEF PartsOK
    <2>3. ASSUME NEW k \in 1..Len(Children(i, doc[i]))
          PROVE  \E t \in Of : t.parent[2] = i /\ t.text = Children(i, doc[i])[k]
        <3>1. RowFor(r.source, n, i, Children(i, doc[i])[k]) \in stored
            BY <2>2 DEF HasSection
        <3> QED
            BY <3>1 DEF RowFor
    <2>4. /\ Len(Children(i, doc[i])) \in Nat /\ Len(Children(i, doc[i])) >= 1
          /\ \A k \in DOMAIN doc[i] :
                 doc[i][k] => \E m \in 1..Len(Children(i, doc[i])) :
                                 Children(i, doc[i])[m] = [section |-> i, piece |-> k]
        BY <1>1, <2>1, ChildrenType, ChildrenAreComplete
    <2>5. 1 \in 1..Len(Children(i, doc[i]))
        BY <2>4
    <2> HIDE DEF doc, Of, n
    <2>6. \E t \in Of : t.parent[2] = i
        BY <2>3, <2>5
    <2>7. ASSUME NEW k \in DOMAIN doc[i], doc[i][k]
          PROVE  \E t \in Of : t.parent[2] = i /\ t.text = [section |-> i, piece |-> k]
        <3>1. PICK m \in 1..Len(Children(i, doc[i])) :
                  Children(i, doc[i])[m] = [section |-> i, piece |-> k]
            BY <2>4, <2>7
        <3> QED
            BY <2>3, <3>1
    <2> QED
        BY <2>6, <2>7 DEF doc, Of, n
<1>2. PartsOK => WholeDocuments
    BY <1>1 DEF WholeDocuments
<1>3. Init => PartsOK
    BY InitParts DEF Init
<1> QED
    BY <1>2, <1>3, NextParts, AssemblyHolds, PTL DEF Spec

-----------------------------------------------------------------------------
(***************************************************************************)
(* The calls.                                                              *)
(***************************************************************************)
FoundIsOwn == \A n \in DOMAIN found : Owner[found[n].row.source] = caller

OwnOK == FoundIsOwn /\ AnswerIsOwn

LEMMA SearchIsOwn ==
    ASSUME AssemblyOK, NEW f \in Ranked(Scope), NEW n \in DOMAIN f
    PROVE  Owner[f[n].row.source] = caller
<1>1. PICK m \in Nat : f \in [1..m -> [row : Scope, score : 0..MaxScore]]
    <2>1. PICK k \in 0..Min2(AnnK, Cardinality(Scope)) :
              f \in [1..k -> [row : Scope, score : 0..MaxScore]]
        BY DEF Ranked
    <2> QED
        BY <2>1
<1>2. f[n].row \in Scope
    BY <1>1
<1>3. f[n].row \in stored /\ f[n].row.owner = caller
    BY <1>2 DEF Scope
<1> QED
    BY <1>3 DEF AssemblyOK, RowOK

\* Everything found, and so everything that an answer is made from, is the
\* caller's: the search is restricted to rows with the owner of the token, the
\* rows of a source have the owner that its job named, and neither changes while
\* the call runs.
LEMMA NextOwn == OwnOK /\ AssemblyOK /\ [Next]_vars => OwnOK'
<1> SUFFICES ASSUME OwnOK, AssemblyOK, [Next]_vars PROVE OwnOK'
    OBVIOUS
<1>1. ASSUME UNCHANGED <<caller, found, contexts>>
      PROVE  OwnOK'
    BY <1>1 DEF OwnOK, FoundIsOwn, AnswerIsOwn
<1>2. ASSUME NEW u \in Callers, NEW r \in Requests, Ask(u, r)
      PROVE  OwnOK'
    BY <1>2 DEF Ask, OwnOK, FoundIsOwn, AnswerIsOwn
<1>3. CASE Search
    <2>1. /\ found' \in Ranked(Scope) /\ caller' = caller /\ contexts' = contexts
        BY <1>3 DEF Search
    <2>2. \A n \in DOMAIN found' : Owner[found'[n].row.source] = caller
        BY <2>1, SearchIsOwn
    <2> QED
        BY <2>1, <2>2 DEF OwnOK, FoundIsOwn, AnswerIsOwn
<1>4. CASE Rerank
    <2>1. /\ found' = found /\ caller' = caller
          /\ \E order \in [1..Min2(Limit, Cardinality(Unique)) -> Unique] :
                 contexts' = [n \in DOMAIN order |-> found[order[n]]]
        BY <1>4 DEF Rerank
    <2>2. Unique \subseteq DOMAIN found
        BY DEF Unique
    <2>3. \A n \in DOMAIN contexts' : \E m \in DOMAIN found : contexts'[n] = found[m]
        BY <2>1, <2>2
    <2> QED
        BY <2>1, <2>3 DEF OwnOK, FoundIsOwn, AnswerIsOwn
<1>5. CASE (AssemblyStep /\ UNCHANGED call) \/ UNCHANGED vars
    BY <1>1, <1>5 DEF call, vars
<1>6. ASSUME NEW s \in Sources, Delete(s)
      PROVE  OwnOK'
    BY <1>1, <1>6 DEF Delete, call
<1>7. CASE Complete \/ OpenStream \/ Piece \/ EndStream \/ Break
    BY <1>1, <1>7 DEF Complete, OpenStream, Piece, EndStream, Break
<1> QED
    BY <1>2, <1>3, <1>4, <1>5, <1>6, <1>7 DEF Next, CallStep

\* Whatever the body of a request says, no answer is made from a source of
\* another user.
THEOREM AnswersAreOwn == Spec => []AnswerIsOwn
<1>1. Init => OwnOK
    BY DEF Init, OwnOK, FoundIsOwn, AnswerIsOwn
<1>2. OwnOK => AnswerIsOwn
    BY DEF OwnOK
<1> QED
    BY <1>1, <1>2, NextOwn, AssemblyHolds, PTL DEF Spec

Words == {"contexts", "answer", "text", "done"}

\* Nothing is sent before the model speaks, and then a piece for each of its own.
SentOK ==
    /\ sent \in Seq(Words)
    /\ model \in [state : {"silent", "speaking", "broken"} \cup Ends, said : Nat]
    /\ phase \in {"search", "rerank", "model"} => sent = << >>
    /\ phase = "stream" =>
           Len(sent) = model.said /\ \A n \in 1..Len(sent) : sent[n] # "done"
    /\ DoneEndsTheStream

LEMMA NextSent == SentOK /\ [Next]_vars => SentOK'
<1> SUFFICES ASSUME SentOK, [Next]_vars PROVE SentOK'
    OBVIOUS
<1>1. ASSUME UNCHANGED <<phase, found, model, sent>>
      PROVE  SentOK'
    BY <1>1 DEF SentOK, DoneEndsTheStream
<1>2. ASSUME NEW u \in Callers, NEW r \in Requests, Ask(u, r)
      PROVE  SentOK'
    BY <1>2 DEF Ask, Silent, SentOK, DoneEndsTheStream
<1>3. CASE Search
    <2>1. CASE found' = << >> /\ Nothing
        <3>1. \/ sent' = <<"contexts">>
              \/ sent' = <<"answer">>
              \/ sent' = <<"text", "done">>
            BY <2>1 DEF Nothing
        <3>2. sent' \in Seq(Words)
            <4>1. "contexts" \in Words /\ "answer" \in Words
                  /\ "text" \in Words /\ "done" \in Words
                BY DEF Words
            <4>2. \A w \in Words : <<w>> \in Seq(Words)
                OBVIOUS
            <4>3. \A v, w \in Words : <<v, w>> \in Seq(Words)
                OBVIOUS
            <4> QED
                BY <3>1, <4>1, <4>2, <4>3
        <3>3. ASSUME NEW n \in DOMAIN sent', sent'[n] = "done"
              PROVE  n = 2 /\ Len(sent') = 2
            BY <3>1, <3>3
        <3>4. DoneEndsTheStream'
            BY <2>1, <3>3 DEF DoneEndsTheStream
        <3> QED
            BY <1>3, <2>1, <3>2, <3>4 DEF Search, Nothing, SentOK
    <2>2. CASE phase' = "rerank" /\ UNCHANGED sent
        BY <1>3, <2>2 DEF Search, SentOK, DoneEndsTheStream
    <2> QED
        BY <1>3, <2>1, <2>2 DEF Search
<1>4. CASE Rerank
    <2>1. CASE phase' = "over" /\ sent' = <<"contexts">>
        <3>1. sent' \in Seq(Words) /\ DoneEndsTheStream'
            BY <2>1 DEF Words, DoneEndsTheStream
        <3> QED
            BY <1>4, <2>1, <3>1 DEF Rerank, SentOK
    <2>2. CASE phase' = "model" /\ UNCHANGED sent
        BY <1>4, <2>2 DEF Rerank, SentOK, DoneEndsTheStream
    <2> QED
        BY <1>4, <2>1, <2>2 DEF Rerank
<1>5. CASE Complete
    <2>1. sent' = <<"answer">> /\ phase' = "over"
          /\ \E end \in Ends : model' = [state |-> end, said |-> 1]
        BY <1>5 DEF Complete
    <2>2. sent' \in Seq(Words) /\ DoneEndsTheStream'
        BY <2>1 DEF Words, DoneEndsTheStream
    <2> QED
        BY <2>1, <2>2 DEF SentOK
<1>6. CASE OpenStream
    BY <1>6 DEF OpenStream, SentOK, DoneEndsTheStream
<1>7. CASE Piece
    <2>1. /\ sent \in Seq(Words) /\ Len(sent) = model.said
          /\ \A n \in 1..Len(sent) : sent[n] # "done"
          /\ model.said \in Nat /\ "text" \in Words
          /\ phase' = "stream"
          /\ sent' = Append(sent, "text")
          /\ model' = [model EXCEPT !.said = @ + 1]
        BY <1>7 DEF Piece, SentOK, Words
    <2>2. /\ sent' \in Seq(Words) /\ Len(sent') = Len(sent) + 1
          /\ Len(sent) \in Nat
          /\ \A n \in 1..Len(sent) : sent'[n] = sent[n]
          /\ sent'[Len(sent) + 1] = "text"
        BY <2>1, AppendFacts
    <2>3. /\ model' \in [state : {"silent", "speaking", "broken"} \cup Ends, said : Nat]
          /\ model'.said = model.said + 1
        BY <2>1 DEF SentOK
    <2>4. \A n \in 1..Len(sent') : sent'[n] # "done"
        BY <2>1, <2>2
    <2>5. DOMAIN sent' = 1..Len(sent')
        BY <2>2
    <2> QED
        BY <2>1, <2>2, <2>3, <2>4, <2>5 DEF SentOK, DoneEndsTheStream
<1>8. CASE EndStream
    <2>1. /\ sent \in Seq(Words) /\ Len(sent) = model.said
          /\ \A n \in 1..Len(sent) : sent[n] # "done"
          /\ model.said \in Nat /\ "done" \in Words
          /\ phase' = "over"
          /\ sent' = Append(sent, "done")
          /\ \E end \in Ends : model' = [model EXCEPT !.state = end]
        BY <1>8 DEF EndStream, SentOK, Words
    <2>2. /\ sent' \in Seq(Words) /\ Len(sent') = Len(sent) + 1
          /\ Len(sent) \in Nat
          /\ \A n \in 1..Len(sent) : sent'[n] = sent[n]
        BY <2>1, AppendFacts
    <2>3. /\ model' \in [state : {"silent", "speaking", "broken"} \cup Ends, said : Nat]
          /\ model'.said = model.said /\ model'.state \in Ends
        BY <2>1 DEF SentOK
    <2>4. \A n \in 1..Len(sent') : sent'[n] = "done" => n = Len(sent')
        BY <2>1, <2>2
    <2>5. DOMAIN sent' = 1..Len(sent') /\ Len(sent') = model'.said + 1
        BY <2>1, <2>2, <2>3
    <2>6. DoneEndsTheStream'
        BY <2>3, <2>4, <2>5 DEF DoneEndsTheStream
    <2> QED
        BY <2>1, <2>2, <2>3, <2>6 DEF SentOK
<1>9. CASE Break
    <2>1. /\ model' = [model EXCEPT !.state = "broken"]
          /\ sent' = sent /\ found' = found /\ phase' = "over"
        BY <1>9 DEF Break
    <2>2. sent \in Seq(Words) /\ \A n \in 1..Len(sent) : sent[n] # "done"
        BY <1>9 DEF Break, SentOK
    <2>3. DOMAIN sent = 1..Len(sent)
        BY <2>2
    <2>4. DoneEndsTheStream'
        BY <2>1, <2>2, <2>3 DEF DoneEndsTheStream
    <2> QED
        BY <2>1, <2>4 DEF SentOK
<1>10. CASE (AssemblyStep /\ UNCHANGED call) \/ UNCHANGED vars
    BY <1>1, <1>10 DEF call, vars
<1>11. ASSUME NEW s \in Sources, Delete(s)
       PROVE  SentOK'
    BY <1>1, <1>11 DEF Delete, call
<1> QED
    BY <1>2, <1>3, <1>4, <1>5, <1>6, <1>7, <1>8, <1>9, <1>10, <1>11
    DEF Next, CallStep

\* A stream says it is done only behind every piece that the model has said, whether
\* it finished or was cut at max_tokens, and never when it broke; and nothing
\* follows, for answers of any length.
THEOREM DoneIsTheEnd == Spec => []DoneEndsTheStream
<1>1. Init => SentOK
    BY DEF Init, Silent, SentOK, DoneEndsTheStream
<1>2. SentOK => DoneEndsTheStream
    BY DEF SentOK
<1> QED
    BY <1>1, <1>2, NextSent, PTL DEF Spec

-----------------------------------------------------------------------------
(***************************************************************************)
(* The best of each parent.                                                *)
(***************************************************************************)
FoundIsRanked ==
    \E m \in Nat :
        /\ DOMAIN found = 1..m
        /\ \A i \in 1..m : found[i].score \in Nat
        /\ \A i, j \in 1..m : i < j => found[i].score >= found[j].score

Parents == {found[n].row.parent : n \in DOMAIN found}

\* As many indexes are picked as there are parents: no parent is picked twice,
\* and since the rows are found in the order of their scores, the first one of a
\* parent is picked.
LEMMA OneOfEach ==
    ASSUME FoundIsRanked
    PROVE  /\ Cardinality(Unique) = Cardinality(Parents)
           /\ Cardinality(Unique) \in Nat
<1>1. PICK m \in Nat :
          /\ DOMAIN found = 1..m
          /\ \A i \in 1..m : found[i].score \in Nat
          /\ \A i, j \in 1..m : i < j => found[i].score >= found[j].score
    BY DEF FoundIsRanked
<1>2. Unique \subseteq 1..m
    BY <1>1 DEF Unique
<1>3. IsFiniteSet(Unique) /\ Cardinality(Unique) \in Nat
    <2>1. 1 \in Int /\ m \in Int
        OBVIOUS
    <2>2. IsFiniteSet(1..m)
        BY <2>1, FS_Interval
    <2> QED
        BY <1>2, <2>2, FS_Subset, FS_CardinalityType
<1> DEFINE parent == [i \in Unique |-> found[i].row.parent]
<1>4. parent \in [Unique -> Parents]
    BY <1>1, <1>2 DEF Parents
<1>5. ASSUME NEW i \in Unique, NEW j \in Unique, parent[i] = parent[j]
      PROVE  i = j
    <2>1. i \in 1..m /\ j \in 1..m
        BY <1>2
    <2>2. found[i].row.parent = found[j].row.parent
        BY <1>5
    <2>3. \/ found[j].score < found[i].score
          \/ found[j].score = found[i].score /\ i <= j
        BY <1>1, <2>1, <2>2 DEF Unique
    <2>4. \/ found[i].score < found[j].score
          \/ found[j].score = found[i].score /\ j <= i
        BY <1>1, <2>1, <2>2 DEF Unique
    <2>5. found[i].score \in Nat /\ found[j].score \in Nat
        BY <1>1, <2>1
    <2> QED
        BY <2>1, <2>3, <2>4, <2>5
<1>6. ASSUME NEW p \in Parents
      PROVE  \E i \in Unique : parent[i] = p
    <2> DEFINE of == {i \in 1..m : found[i].row.parent = p}
    <2>1. of \in SUBSET Nat /\ of # {}
        <3>1. PICK n \in 1..m : found[n].row.parent = p
            BY <1>1 DEF Parents
        <3> QED
            BY <3>1
    <2>2. PICK i \in of : \A j \in of : i <= j
        BY <2>1, Least
    <2>3. i \in 1..m /\ found[i].row.parent = p
        OBVIOUS
    <2>4. ASSUME NEW j \in 1..m, found[j].row.parent = found[i].row.parent
          PROVE  \/ found[j].score < found[i].score
                 \/ found[j].score = found[i].score /\ i <= j
        <3>1. i <= j
            BY <2>2, <2>3, <2>4
        <3>2. i = j \/ found[i].score >= found[j].score
            BY <1>1, <2>3, <3>1
        <3>3. found[i].score \in Nat /\ found[j].score \in Nat
            BY <1>1, <2>3
        <3> QED
            BY <3>1, <3>2, <3>3
    <2>5. i \in Unique
        BY <1>1, <2>3, <2>4 DEF Unique
    <2> QED
        BY <2>3, <2>5
<1> HIDE DEF parent
<1>7. parent \in Bijection(Unique, Parents)
    BY <1>4, <1>5, <1>6, Fun_IsBij
<1>8. ExistsBijection(Unique, Parents)
    BY <1>7 DEF ExistsBijection
<1> QED
    BY <1>3, <1>8, FS_Bijection

BestOK ==
    /\ request \in Requests
    /\ FoundIsRanked
    /\ phase \in {"search", "rerank"} => contexts = << >>
    /\ BestOfEachParent

LEMMA RerankBest ==
    ASSUME BestOK, Rerank PROVE BestOfEachParent'
<1>1. PICK order \in [1..Min2(Limit, Cardinality(Unique)) -> Unique] :
          /\ \A m, n \in DOMAIN order : order[m] = order[n] => m = n
          /\ contexts' = [n \in DOMAIN order |-> found[order[n]]]
    BY DEF Rerank
<1>2. found' = found /\ request' = request
    BY DEF Rerank
<1>3. PICK last \in Nat :
          /\ DOMAIN found = 1..last
          /\ \A i \in 1..last : found[i].score \in Nat
    BY DEF BestOK, FoundIsRanked
<1>4. Limit \in Nat
    <2>1. request.topK \in TopKs \cup {0}
        BY DEF BestOK, Requests
    <2>2. /\ request.topK \in Int
          /\ RerankK \in Nat /\ DefaultTopK \in Nat
        <3>1. TopKs \subseteq Int /\ RerankK \in Nat /\ DefaultTopK \in Nat
            BY LimitsArePositive
        <3>2. \A k \in TopKs \cup {0} : k \in Int
            BY <3>1
        <3> QED
            BY <2>1, <3>1, <3>2
    <2>3. CASE request.op = "Search" /\ request.topK > 0
        BY <2>2, <2>3 DEF Limit
    <2>4. CASE ~(request.op = "Search" /\ request.topK > 0)
        BY <2>2, <2>4 DEF Limit
    <2> QED
        BY <2>3, <2>4
<1>5. /\ Cardinality(Unique) = Cardinality(Parents)
      /\ Cardinality(Unique) \in Nat
    BY OneOfEach DEF BestOK
<1> DEFINE size == Min2(Limit, Cardinality(Unique))
<1>6. size \in Nat /\ DOMAIN order = 1..size
    BY <1>4, <1>5 DEF Min2
<1> HIDE DEF size
<1>7. /\ DOMAIN contexts' = 1..size
      /\ \A n \in 1..size :
             /\ order[n] \in Unique /\ order[n] \in DOMAIN found
             /\ contexts'[n] = found[order[n]]
    BY <1>1, <1>6 DEF Unique, size
<1>8. ASSUME NEW m \in 1..size, NEW n \in 1..size,
             contexts'[m].row.parent = contexts'[n].row.parent
      PROVE  m = n
    <2>1. found[order[m]].row.parent = found[order[n]].row.parent
        BY <1>7, <1>8
    <2>2. /\ order[m] \in 1..last /\ order[n] \in 1..last
          /\ found[order[m]].score \in Nat /\ found[order[n]].score \in Nat
        BY <1>3, <1>7
    <2>3. \/ found[order[n]].score < found[order[m]].score
          \/ found[order[n]].score = found[order[m]].score /\ order[m] <= order[n]
        BY <1>7, <2>1 DEF Unique
    <2>4. \/ found[order[m]].score < found[order[n]].score
          \/ found[order[m]].score = found[order[n]].score /\ order[n] <= order[m]
        BY <1>7, <2>1 DEF Unique
    <2>5. order[m] = order[n]
        BY <2>2, <2>3, <2>4
    <2> QED
        BY <1>1, <1>6, <2>5
<1>9. ASSUME NEW m \in 1..size, NEW n \in DOMAIN found,
             found[n].row.parent = contexts'[m].row.parent
      PROVE  found[n].score <= contexts'[m].score
    <2>1. /\ contexts'[m] = found[order[m]]
          /\ \/ found[n].score < found[order[m]].score
             \/ found[n].score = found[order[m]].score
        BY <1>7, <1>9 DEF Unique
    <2>2. found[n].score \in Nat /\ found[order[m]].score \in Nat
        BY <1>3, <1>7
    <2> QED
        BY <2>1, <2>2
<1>10. Len(contexts') = size
    <2>1. contexts' \in [1..size -> {found[i] : i \in DOMAIN found}]
        BY <1>1, <1>6, <1>7
    <2> QED
        BY <1>6, <2>1
<1>11. Limit' = Limit
    BY <1>2 DEF Limit
<1>12. Len(contexts') = Min2(Limit', Cardinality(Parents))
    BY <1>5, <1>10, <1>11 DEF size
<1> QED
    BY <1>2, <1>7, <1>8, <1>9, <1>12 DEF BestOfEachParent, Parents

LEMMA NextBest == BestOK /\ [Next]_vars => BestOK'
<1> SUFFICES ASSUME BestOK, [Next]_vars PROVE BestOK'
    OBVIOUS
<1>1. ASSUME UNCHANGED <<phase, request, found, contexts>>
      PROVE  BestOK'
    BY <1>1 DEF BestOK, FoundIsRanked, BestOfEachParent, Limit
<1>2. ASSUME NEW u \in Callers, NEW r \in Requests, Ask(u, r)
      PROVE  BestOK'
    <2>1. /\ request' \in Requests /\ found' = << >> /\ contexts' = << >>
        BY <1>2 DEF Ask
    <2>2. FoundIsRanked'
        BY <2>1 DEF FoundIsRanked
    <2> QED
        BY <2>1, <2>2 DEF BestOK, BestOfEachParent
<1>3. CASE Search
    <2>1. /\ found' \in Ranked(Scope) /\ request' = request
          /\ contexts' = contexts /\ contexts = << >>
        BY <1>3 DEF Search, BestOK
    <2>2. PICK m \in 0..Min2(AnnK, Cardinality(Scope)) :
              /\ found' \in [1..m -> [row : Scope, score : 0..MaxScore]]
              /\ \A i, j \in 1..m : i < j => found'[i].score >= found'[j].score
        BY <2>1 DEF Ranked
    <2>3. \A i \in 1..m : found'[i].score \in Nat
        BY <2>2
    <2>4. FoundIsRanked'
        BY <2>2, <2>3 DEF FoundIsRanked
    <2> QED
        BY <2>1, <2>4 DEF BestOK, BestOfEachParent
<1>4. CASE Rerank
    <2>1. request' = request /\ found' = found /\ phase' \notin {"search", "rerank"}
        BY <1>4 DEF Rerank
    <2> QED
        BY <1>4, <2>1, RerankBest DEF BestOK, FoundIsRanked
<1>5. CASE (AssemblyStep /\ UNCHANGED call) \/ UNCHANGED vars
    BY <1>1, <1>5 DEF call, vars
<1>6. ASSUME NEW s \in Sources, Delete(s)
      PROVE  BestOK'
    BY <1>1, <1>6 DEF Delete, call
<1>7. ASSUME UNCHANGED <<request, found, contexts>>,
             phase' \notin {"search", "rerank"}
      PROVE  BestOK'
    BY <1>7 DEF BestOK, FoundIsRanked, BestOfEachParent, Limit
<1>8. CASE Complete \/ OpenStream \/ Piece \/ EndStream \/ Break
    BY <1>1, <1>7, <1>8 DEF Complete, OpenStream, Piece, EndStream, Break
<1> QED
    BY <1>2, <1>3, <1>4, <1>5, <1>6, <1>8 DEF Next, CallStep

\* However the rows are scored and whatever the limits, an answer has every
\* parent once, with the best of its scores, and as many parents as it may.
THEOREM AnswersAreBest == Spec => []BestOfEachParent
<1>1. Init => BestOK
    <2> SUFFICES ASSUME Init PROVE BestOK
        OBVIOUS
    <2>1. FoundIsRanked
        BY DEF Init, FoundIsRanked
    <2> QED
        BY <2>1 DEF Init, BestOK, BestOfEachParent
<1>2. BestOK => BestOfEachParent
    BY DEF BestOK
<1> QED
    BY <1>1, <1>2, NextBest, PTL DEF Spec
=============================================================================
