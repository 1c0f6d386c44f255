---------------------------- MODULE SearchProofs ----------------------------
(***************************************************************************)
(* What is proved of the search, for every catalogue of rows, every        *)
(* request and every budget. A page is a loop over rows, so its facts need *)
(* an induction over the rows: the first section proves one that takes a   *)
(* set instead of a predicate, and the recursive functions of Search are   *)
(* then known by the equation each satisfies.                              *)
(***************************************************************************)
EXTENDS SearchProperties, FiniteSetTheorems, SequenceTheorems, TLAPS

-----------------------------------------------------------------------------
(* Induction *)

\* A set of numbers that is not empty has a least member: otherwise adding one
\* would map the members of 0..k below all of T into themselves without 0.
LEMMA LeastNat ==
  ASSUME NEW T \in SUBSET Nat, T # {}
  PROVE  \E n \in T : \A m \in T : n <= m
<1>1. PICK k \in T : TRUE
  OBVIOUS
<1> DEFINE U == {u \in 0..k : \A t \in T : u < t}
<1>2. SUFFICES ASSUME ~ \E n \in T : \A m \in T : n <= m PROVE FALSE
  OBVIOUS
<1>3. 0 \in U
  BY <1>1, <1>2
<1>4. ASSUME NEW u \in U PROVE u + 1 \in U \ {0}
  <2>1. \A t \in T : u + 1 <= t
    OBVIOUS
  <2>2. u + 1 \notin T
    BY <1>2, <2>1
  <2> QED BY <1>1, <2>1, <2>2
<1>5. IsFiniteSet(U) /\ Cardinality(U) \in Nat
  <2>1. k \in Nat /\ IsFiniteSet(0..k)
    BY <1>1, FS_Interval
  <2> QED BY <2>1, FS_Subset, FS_CardinalityType
<1> HIDE DEF U
<1>6. IsFiniteSet(U \ {0}) /\ Cardinality(U \ {0}) < Cardinality(U)
  <2>1. /\ IsFiniteSet(U \ {0})
        /\ Cardinality(U \ {0}) = IF 0 \in U THEN Cardinality(U) - 1 ELSE Cardinality(U)
    BY <1>5, FS_RemoveElement, Zenon
  <2> QED BY <1>3, <1>5, <2>1
<1> DEFINE f == [u \in U |-> u + 1]
<1>7. f \in [U -> U \ {0}]
  BY <1>4
<1>8. U \subseteq Int
  BY DEF U
<1> HIDE DEF f
<1>9. PICK x \in U, y \in U : x # y /\ f[x] = f[y]
  BY <1>5, <1>6, <1>7, FS_PigeonHole
<1> QED BY <1>8, <1>9 DEF f

\* A set that holds zero and is closed under adding one holds every number.
LEMMA Induction ==
  ASSUME NEW T, 0 \in T, \A n \in Nat : n \in T => n + 1 \in T
  PROVE  \A n \in Nat : n \in T
<1> DEFINE U == {n \in Nat : n \notin T}
<1>1. SUFFICES ASSUME U # {} PROVE FALSE
  OBVIOUS
<1>2. PICK n \in U : \A m \in U : n <= m
  BY <1>1, LeastNat
<1>3. n # 0 /\ n - 1 \in Nat /\ n - 1 \notin U
  BY <1>2
<1> QED BY <1>2, <1>3

-----------------------------------------------------------------------------
(* The recursive functions *)

IsOrder(ids, best) ==
  best = [n \in 0..Len(Rank) |->
            IF n = 0 THEN <<>>
            ELSE IF Rank[n] \in ids THEN Append(best[n - 1], Rank[n])
            ELSE best[n - 1]]

IsSum(hits, sum) ==
  sum = [n \in 0..Len(hits) |->
           IF n = 0 THEN 0
           ELSE sum[n - 1] + hits[n].bytes + (IF n = 1 THEN 0 ELSE 1)]

IsPage(q, rows, page) ==
  page = [n \in 0..Len(rows) |->
            IF n = 0 THEN EmptyPage ELSE Take(q, page[n - 1], rows[n])]

\* The rows in order of rank are the last value of a function that IsOrder.
LEMMA OrderedIs ==
  ASSUME NEW ids, Len(Rank) \in Nat
  PROVE  \E best : IsOrder(ids, best) /\ Ordered(ids) = best[Len(Rank)]
<1> DEFINE Upto(best, N) ==
      best = [n \in 0..N |->
                IF n = 0 THEN <<>>
                ELSE IF Rank[n] \in ids THEN Append(best[n - 1], Rank[n])
                ELSE best[n - 1]]
           T == {N \in Nat : \E best : Upto(best, N)}
<1>1. 0 \in T
  <2> DEFINE f == [n \in 0..0 |-> <<>>]
  <2>1. Upto(f, 0)
    OBVIOUS
  <2> QED BY <2>1
<1>2. ASSUME NEW N \in Nat, N \in T PROVE N + 1 \in T
  <2>1. PICK g : Upto(g, N)
    BY <1>2
  <2> DEFINE f == [n \in 0..N + 1 |->
                     IF n = N + 1
                       THEN IF Rank[n] \in ids THEN Append(g[N], Rank[n]) ELSE g[N]
                     ELSE g[n]]
           h == [n \in 0..N + 1 |->
                   IF n = 0 THEN <<>>
                   ELSE IF Rank[n] \in ids THEN Append(f[n - 1], Rank[n])
                   ELSE f[n - 1]]
  <2>3. \A n \in 0..N + 1 : f[n] = h[n]
    <3> TAKE n \in 0..N + 1
    <3>1. CASE n = 0
      BY <2>1, <3>1
    <3>2. CASE n > 0
      <4>1. f[n - 1] = g[n - 1]
        BY <3>2
      <4>2. CASE n = N + 1
        BY <4>1, <4>2
      <4>3. CASE n <= N
        <5>1. g[n] = IF Rank[n] \in ids THEN Append(g[n - 1], Rank[n]) ELSE g[n - 1]
          <6>1. n \in 0..N /\ n # 0
            BY <3>2, <4>3
          <6> HIDE DEF f, h
          <6> QED BY <2>1, <6>1, Zenon
        <5> QED BY <3>2, <4>1, <4>3, <5>1
      <4> QED BY <4>2, <4>3
    <3> QED BY <3>1, <3>2
  <2>2. Upto(f, N + 1)
    <3> HIDE DEF f
    <3>1. f = [n \in 0..N + 1 |-> f[n]]
      BY DEF f
    <3>2. f = h
      BY <2>3, <3>1
    <3> QED BY <3>2
  <2> HIDE DEF f, Upto
  <2> QED BY <2>2
<1> HIDE DEF T
<1>3. Len(Rank) \in T
  BY <1>1, <1>2, Induction
<1> USE DEF T
<1> DEFINE best == CHOOSE g : IsOrder(ids, g)
<1>4. IsOrder(ids, best)
  BY <1>3 DEF IsOrder
<1>5. Ordered(ids) = best[Len(Rank)]
  BY DEF Ordered, IsOrder
<1> QED BY <1>4, <1>5

\* The size of a list is the last value of a function that IsSum.
LEMMA BytesIs ==
  ASSUME NEW hits, Len(hits) \in Nat
  PROVE  \E sum : IsSum(hits, sum) /\ Bytes(hits) = sum[Len(hits)]
<1> DEFINE Upto(sum, N) ==
      sum = [n \in 0..N |->
               IF n = 0 THEN 0
               ELSE sum[n - 1] + hits[n].bytes + (IF n = 1 THEN 0 ELSE 1)]
           T == {N \in Nat : \E sum : Upto(sum, N)}
<1>1. 0 \in T
  <2> DEFINE f == [n \in 0..0 |-> 0]
  <2>1. Upto(f, 0)
    OBVIOUS
  <2> QED BY <2>1
<1>2. ASSUME NEW N \in Nat, N \in T PROVE N + 1 \in T
  <2>1. PICK g : Upto(g, N)
    BY <1>2
  <2> DEFINE f == [n \in 0..N + 1 |->
                     IF n = N + 1
                       THEN g[N] + hits[n].bytes + (IF n = 1 THEN 0 ELSE 1)
                     ELSE g[n]]
  <2>2. Upto(f, N + 1)
    BY <2>1
  <2> HIDE DEF f, Upto
  <2> QED BY <2>2
<1> HIDE DEF T
<1>3. Len(hits) \in T
  BY <1>1, <1>2, Induction
<1> USE DEF T
<1> DEFINE sum == CHOOSE g : IsSum(hits, g)
<1>4. IsSum(hits, sum)
  BY <1>3 DEF IsSum
<1>5. Bytes(hits) = sum[Len(hits)]
  BY DEF Bytes, IsSum
<1> QED BY <1>4, <1>5

\* A page is the last value of a function that IsPage.
LEMMA PageIs ==
  ASSUME NEW q, NEW offset, Len(Rows(q, offset)) \in Nat
  PROVE  \E page : /\ IsPage(q, Rows(q, offset), page)
                   /\ Page(q, offset) = page[Len(Rows(q, offset))]
<1> DEFINE rows == Rows(q, offset)
           Upto(page, N) ==
             page = [n \in 0..N |->
                       IF n = 0 THEN EmptyPage ELSE Take(q, page[n - 1], rows[n])]
           T == {N \in Nat : \E page : Upto(page, N)}
<1>1. 0 \in T
  <2> DEFINE f == [n \in 0..0 |-> EmptyPage]
  <2>1. Upto(f, 0)
    OBVIOUS
  <2> QED BY <2>1
<1>2. ASSUME NEW N \in Nat, N \in T PROVE N + 1 \in T
  <2>1. PICK g : Upto(g, N)
    BY <1>2
  <2> DEFINE f == [n \in 0..N + 1 |->
                     IF n = N + 1 THEN Take(q, g[N], rows[n]) ELSE g[n]]
  <2> HIDE DEF rows
  <2>2. Upto(f, N + 1)
    BY <2>1
  <2> HIDE DEF f, Upto
  <2> QED BY <2>2
<1> HIDE DEF T
<1>3. Len(rows) \in T
  BY <1>1, <1>2, Induction
<1> USE DEF T
<1> DEFINE page == CHOOSE g : IsPage(q, rows, g)
<1>4. IsPage(q, rows, page)
  BY <1>3 DEF IsPage
<1>5. Page(q, offset) = page[Len(rows)]
  BY DEF Page, IsPage
<1> QED BY <1>4, <1>5

-----------------------------------------------------------------------------
(* Sequences without repetition *)

\* A new element at the end of a sequence without repetition.
LEMMA AppendDistinct ==
  ASSUME NEW S, NEW s \in Seq(S), NEW e \in S, IsInjective(s), e \notin ToSet(s)
  PROVE  /\ Append(s, e) \in Seq(S) /\ IsInjective(Append(s, e))
         /\ ToSet(Append(s, e)) = ToSet(s) \cup {e}
<1> DEFINE t == Append(s, e)
<1>1. /\ t \in Seq(S) /\ DOMAIN s = 1..Len(s) /\ DOMAIN t = 1..Len(s) + 1 /\ Len(s) \in Nat
      /\ \A i \in 1..Len(s) : t[i] = s[i]
      /\ t[Len(s) + 1] = e
  BY AppendProperties
<1> HIDE DEF t
<1>2. \A i \in DOMAIN s : s[i] # e
  BY DEF ToSet
<1>3. IsInjective(t)
  <2> SUFFICES ASSUME NEW a \in DOMAIN t, NEW b \in DOMAIN t, t[a] = t[b] PROVE a = b
    BY DEF IsInjective
  <2>1. CASE a = Len(s) + 1 \/ b = Len(s) + 1
    BY <1>1, <1>2, <2>1
  <2>2. CASE a \in DOMAIN s /\ b \in DOMAIN s
    BY <1>1, <2>2 DEF IsInjective
  <2> QED BY <1>1, <2>1, <2>2
<1>4. ToSet(t) = ToSet(s) \cup {e}
  <2>1. \A x \in ToSet(t) : x \in ToSet(s) \cup {e}
    BY <1>1 DEF ToSet
  <2>2. \A x \in ToSet(s) : x \in ToSet(t)
    BY <1>1 DEF ToSet
  <2>3. e \in ToSet(t)
    BY <1>1 DEF ToSet
  <2> QED BY <2>1, <2>2, <2>3
<1> QED BY <1>1, <1>3, <1>4 DEF t

\* Two sequences without repetition and without a common element.
LEMMA ConcatDistinct ==
  ASSUME NEW S, NEW s \in Seq(S), NEW t \in Seq(S), IsInjective(s), IsInjective(t),
         ToSet(s) \cap ToSet(t) = {}
  PROVE  /\ s \o t \in Seq(S) /\ IsInjective(s \o t)
         /\ ToSet(s \o t) = ToSet(s) \cup ToSet(t)
<1> DEFINE u == s \o t
<1>1. /\ u \in Seq(S) /\ DOMAIN s = 1..Len(s) /\ DOMAIN t = 1..Len(t)
      /\ DOMAIN u = 1..Len(s) + Len(t) /\ Len(s) \in Nat /\ Len(t) \in Nat
      /\ \A i \in 1..Len(s) : u[i] = s[i]
      /\ \A i \in DOMAIN t : Len(s) + i \in DOMAIN u /\ u[Len(s) + i] = t[i]
  <2>1. \A i \in 1..Len(s) + Len(t) : u[i] = IF i <= Len(s) THEN s[i] ELSE t[i - Len(s)]
    BY ConcatProperties
  <2>2. /\ u \in Seq(S) /\ DOMAIN s = 1..Len(s) /\ DOMAIN t = 1..Len(t)
        /\ DOMAIN u = 1..Len(s) + Len(t) /\ Len(s) \in Nat /\ Len(t) \in Nat
    BY ConcatProperties
  <2> HIDE DEF u
  <2>3. ASSUME NEW i \in 1..Len(s) PROVE u[i] = s[i]
    BY <2>1, <2>2
  <2>4. ASSUME NEW i \in DOMAIN t PROVE Len(s) + i \in DOMAIN u /\ u[Len(s) + i] = t[i]
    <3>1. Len(s) + i \in 1..Len(s) + Len(t) /\ ~(Len(s) + i <= Len(s)) /\ Len(s) + i - Len(s) = i
      BY <2>2
    <3> QED BY <2>1, <2>2, <3>1
  <2> QED BY <2>2, <2>3, <2>4
<1> HIDE DEF u
<1>5. ASSUME NEW i \in DOMAIN u PROVE i \in DOMAIN s \/ \E j \in DOMAIN t : i = Len(s) + j
  <2>1. CASE i > Len(s)
    <3>1. i - Len(s) \in DOMAIN t /\ i = Len(s) + (i - Len(s))
      BY <1>1, <2>1
    <3> QED BY <3>1
  <2> QED BY <1>1, <2>1
<1>2. \A i \in DOMAIN s, j \in DOMAIN t : s[i] # t[j]
  BY DEF ToSet
<1>3. IsInjective(u)
  <2> SUFFICES ASSUME NEW a \in DOMAIN u, NEW b \in DOMAIN u, u[a] = u[b] PROVE a = b
    BY DEF IsInjective
  <2>1. CASE a \in DOMAIN s /\ b \in DOMAIN s
    BY <1>1, <2>1 DEF IsInjective
  <2>2. ASSUME NEW i \in DOMAIN t, NEW j \in DOMAIN t, a = Len(s) + i, b = Len(s) + j PROVE a = b
    <3>1. t[i] = t[j]
      BY <1>1, <2>2
    <3> QED BY <2>2, <3>1 DEF IsInjective
  <2>3. ASSUME a \in DOMAIN s, NEW j \in DOMAIN t, b = Len(s) + j PROVE FALSE
    BY <1>1, <1>2, <2>3
  <2>4. ASSUME b \in DOMAIN s, NEW j \in DOMAIN t, a = Len(s) + j PROVE FALSE
    BY <1>1, <1>2, <2>4
  <2> QED BY <1>5, <2>1, <2>2, <2>3, <2>4
<1>4. ToSet(u) = ToSet(s) \cup ToSet(t)
  <2>1. \A x \in ToSet(u) : x \in ToSet(s) \cup ToSet(t)
    <3> SUFFICES ASSUME NEW i \in DOMAIN u PROVE u[i] \in ToSet(s) \cup ToSet(t)
      BY DEF ToSet
    <3> QED BY <1>1, <1>5 DEF ToSet
  <2>2. \A x \in ToSet(s) : x \in ToSet(u)
    BY <1>1 DEF ToSet
  <2>3. \A x \in ToSet(t) : x \in ToSet(u)
    <3> SUFFICES ASSUME NEW j \in DOMAIN t PROVE t[j] \in ToSet(u)
      BY DEF ToSet
    <3>1. Len(s) + j \in DOMAIN u /\ u[Len(s) + j] = t[j]
      BY <1>1
    <3> QED BY <3>1 DEF ToSet
  <2> QED BY <2>1, <2>2, <2>3
<1> QED BY <1>1, <1>3, <1>4 DEF u

\* The rows in order of rank are the rows of the set, each once.
LEMMA OrderedFacts ==
  ASSUME NEW ids \in SUBSET RowIds
  PROVE  /\ Ordered(ids) \in Seq(RowIds) /\ IsInjective(Ordered(ids))
         /\ ToSet(Ordered(ids)) = ids
<1>1. Rank \in Seq(RowIds) /\ IsInjective(Rank) /\ Len(Rank) \in Nat /\ DOMAIN Rank = 1..Len(Rank)
  BY SearchAssumption
<1>2. PICK best : IsOrder(ids, best) /\ Ordered(ids) = best[Len(Rank)]
  BY <1>1, OrderedIs
<1>3. /\ best[0] = <<>>
      /\ \A n \in 1..Len(Rank) :
           best[n] = IF Rank[n] \in ids THEN Append(best[n - 1], Rank[n]) ELSE best[n - 1]
  <2>1. best[0] = <<>>
    BY <1>1, <1>2 DEF IsOrder
  <2>2. ASSUME NEW n \in 1..Len(Rank)
        PROVE  best[n] = IF Rank[n] \in ids THEN Append(best[n - 1], Rank[n]) ELSE best[n - 1]
    <3>1. n \in 0..Len(Rank) /\ n # 0
      OBVIOUS
    <3> QED BY <1>2, <3>1, Zenon DEF IsOrder
  <2> QED BY <2>1, <2>2
<1> DEFINE Upto(n) == {Rank[i] : i \in 1..n}
           Good(s, n) == /\ s \in Seq(RowIds) /\ IsInjective(s)
                         /\ ToSet(s) = Upto(n) \cap ids
           T == {n \in Nat : n <= Len(Rank) => Good(best[n], n)}
<1>4. 0 \in T
  <2>1. Upto(0) = {} /\ ToSet(<<>>) = {} /\ IsInjective(<<>>)
    BY DEF ToSet, IsInjective
  <2>2. Good(best[0], 0)
    BY <1>3, <2>1
  <2> HIDE DEF Good
  <2> QED BY <2>2
<1>5. ASSUME NEW n \in Nat, n \in T, n + 1 <= Len(Rank) PROVE Good(best[n + 1], n + 1)
  <2> DEFINE id == Rank[n + 1]
             s == best[n]
  <2>1. Good(s, n)
    BY <1>1, <1>5
  <2>2. id \in RowIds /\ Upto(n + 1) = Upto(n) \cup {id} /\ id \notin Upto(n)
    <3>1. id \in RowIds
      BY <1>1, <1>5
    <3>2. \A i \in 1..n + 1 : i = n + 1 \/ i \in 1..n
      OBVIOUS
    <3>3. \A i \in 1..n : i \in 1..n + 1 /\ i \in DOMAIN Rank /\ n + 1 \in DOMAIN Rank /\ i # n + 1
      BY <1>1, <1>5
    <3>4. Upto(n + 1) = Upto(n) \cup {id}
      BY <3>2, <3>3
    <3>5. id \notin Upto(n)
      BY <1>1, <3>3 DEF IsInjective
    <3> QED BY <3>1, <3>4, <3>5
  <2>3. best[n + 1] = IF id \in ids THEN Append(s, id) ELSE s
    <3>1. n + 1 \in 1..Len(Rank) /\ n + 1 - 1 = n
      BY <1>1, <1>5
    <3> QED BY <1>3, <3>1
  <2> HIDE DEF id, s, Upto
  <2>4. CASE id \in ids
    BY <2>1, <2>2, <2>3, <2>4, AppendDistinct
  <2>5. CASE id \notin ids
    BY <2>1, <2>2, <2>3, <2>5
  <2> QED BY <2>4, <2>5
<1>6. Good(best[Len(Rank)], Len(Rank))
  <2> HIDE DEF Good
  <2>1. \A n \in Nat : n \in T => n + 1 \in T
    BY <1>1, <1>5
  <2> HIDE DEF T
  <2>2. Len(Rank) \in T
    BY <1>1, <1>4, <2>1, Induction
  <2> QED BY <1>1, <2>2 DEF T
<1>7. Upto(Len(Rank)) = RowIds
  BY <1>1 DEF RowIds, ToSet
<1> QED BY <1>2, <1>6, <1>7

-----------------------------------------------------------------------------
(* Hits *)

HitRecords == [id : RowIds, cut : BOOLEAN, bytes : Nat]
IdSeq(hits) == [i \in DOMAIN hits |-> hits[i].id]

LEMMA IdSeqEmpty == IdSeq(<<>>) = <<>> /\ ToSet(<<>>) = {} /\ IsInjective(<<>>)
  BY DEF IdSeq, ToSet, IsInjective

LEMMA HitFields ==
  ASSUME NEW hits \in Seq(HitRecords)
  PROVE  \A i \in 1..Len(hits) : hits[i].id \in RowIds /\ hits[i].bytes \in Nat
<1> TAKE i \in 1..Len(hits)
<1>1. hits[i] \in HitRecords
  OBVIOUS
<1> QED BY <1>1 DEF HitRecords

LEMMA IdSeqType ==
  ASSUME NEW hits \in Seq(HitRecords)
  PROVE  IdSeq(hits) \in Seq(RowIds) /\ Len(IdSeq(hits)) = Len(hits)
<1>1. \A i \in 1..Len(hits) : hits[i].id \in RowIds
  BY HitFields
<1>2. IdSeq(hits) = [i \in 1..Len(hits) |-> hits[i].id]
  BY DEF IdSeq
<1>3. Len(hits) \in Nat
  OBVIOUS
<1> DEFINE ids == [i \in 1..Len(hits) |-> hits[i].id]
<1>4. ids \in Seq(RowIds) /\ Len(ids) = Len(hits)
  BY <1>1, <1>3
<1> QED BY <1>2, <1>4

LEMMA IdSeqAppend ==
  ASSUME NEW hits \in Seq(HitRecords), NEW h \in HitRecords
  PROVE  IdSeq(Append(hits, h)) = Append(IdSeq(hits), h.id)
<1> DEFINE t == Append(hits, h)
           u == IdSeq(t)
           v == Append(IdSeq(hits), h.id)
<1>1. /\ t \in Seq(HitRecords) /\ Len(t) = Len(hits) + 1 /\ t[Len(hits) + 1] = h
      /\ \A i \in 1..Len(hits) : t[i] = hits[i]
  BY AppendProperties
<1>2. h.id \in RowIds /\ Len(hits) \in Nat
  BY DEF HitRecords
<1>3. /\ v \in Seq(RowIds) /\ Len(v) = Len(hits) + 1 /\ v[Len(hits) + 1] = h.id
      /\ \A i \in 1..Len(hits) : v[i] = IdSeq(hits)[i]
  <2>1. IdSeq(hits) \in Seq(RowIds) /\ Len(IdSeq(hits)) = Len(hits)
    BY IdSeqType
  <2> HIDE DEF t, u
  <2> QED BY <1>2, <2>1, AppendProperties
<1> HIDE DEF t, v
<1>4. u \in Seq(RowIds) /\ Len(u) = Len(hits) + 1
  BY <1>1, IdSeqType
<1>5. ASSUME NEW i \in 1..Len(hits) + 1 PROVE u[i] = v[i]
  <2>1. u[i] = t[i].id
    BY <1>1, <1>2 DEF IdSeq
  <2>2. CASE i = Len(hits) + 1
    BY <1>1, <1>3, <2>1, <2>2
  <2>3. CASE i \in 1..Len(hits)
    <3>1. i \in DOMAIN hits /\ t[i] = hits[i] /\ v[i] = IdSeq(hits)[i]
      BY <1>1, <1>2, <1>3, <2>3
    <3> QED BY <2>1, <3>1 DEF IdSeq
  <2> QED BY <1>2, <2>2, <2>3
<1> HIDE DEF u
<1>6. u = v
  BY <1>3, <1>4, <1>5, SeqEqual
<1> QED BY <1>6 DEF t, u, v

LEMMA IdSeqConcat ==
  ASSUME NEW a \in Seq(HitRecords), NEW b \in Seq(HitRecords)
  PROVE  IdSeq(a \o b) = IdSeq(a) \o IdSeq(b)
<1> DEFINE t == a \o b
           u == IdSeq(t)
           v == IdSeq(a) \o IdSeq(b)
<1>1. /\ t \in Seq(HitRecords) /\ Len(t) = Len(a) + Len(b)
      /\ \A i \in 1..Len(a) + Len(b) : t[i] = IF i <= Len(a) THEN a[i] ELSE b[i - Len(a)]
  BY ConcatProperties
<1>2. /\ IdSeq(a) \in Seq(RowIds) /\ IdSeq(b) \in Seq(RowIds)
      /\ Len(IdSeq(a)) = Len(a) /\ Len(IdSeq(b)) = Len(b)
      /\ Len(a) \in Nat /\ Len(b) \in Nat
  BY IdSeqType
<1>3. /\ v \in Seq(RowIds) /\ Len(v) = Len(a) + Len(b)
      /\ \A i \in 1..Len(a) + Len(b) :
           v[i] = IF i <= Len(a) THEN IdSeq(a)[i] ELSE IdSeq(b)[i - Len(a)]
  <2>1. /\ v \in Seq(RowIds) /\ Len(v) = Len(IdSeq(a)) + Len(IdSeq(b))
        /\ \A i \in 1..Len(IdSeq(a)) + Len(IdSeq(b)) :
             v[i] = IF i <= Len(IdSeq(a)) THEN IdSeq(a)[i] ELSE IdSeq(b)[i - Len(IdSeq(a))]
    BY <1>2, ConcatProperties
  <2> HIDE DEF v, t, u
  <2> QED BY <1>2, <2>1
<1> HIDE DEF t, v
<1>4. u \in Seq(RowIds) /\ Len(u) = Len(a) + Len(b)
  BY <1>1, IdSeqType
<1>5. ASSUME NEW i \in 1..Len(a) + Len(b) PROVE u[i] = v[i]
  <2>1. u[i] = t[i].id
    BY <1>1, <1>2 DEF IdSeq
  <2>2. CASE i <= Len(a)
    <3>1. i \in DOMAIN a
      BY <1>2, <2>2
    <3>2. t[i] = a[i] /\ v[i] = IdSeq(a)[i]
      BY <1>1, <1>3, <2>2
    <3> QED BY <2>1, <3>1, <3>2 DEF IdSeq
  <2>3. CASE ~(i <= Len(a))
    <3>1. i - Len(a) \in DOMAIN b
      BY <1>2, <2>3
    <3>2. t[i] = b[i - Len(a)] /\ v[i] = IdSeq(b)[i - Len(a)]
      BY <1>1, <1>3, <2>3
    <3> QED BY <2>1, <3>1, <3>2 DEF IdSeq
  <2> QED BY <2>2, <2>3
<1> HIDE DEF u
<1>6. u = v
  BY <1>3, <1>4, <1>5, SeqEqual
<1> QED BY <1>6 DEF t, u, v

\* The size of a list, and of the list with one more hit.
LEMMA BytesEmpty == Bytes(<<>>) = 0
<1>1. PICK sum : IsSum(<<>>, sum) /\ Bytes(<<>>) = sum[0]
  BY BytesIs
<1> QED BY <1>1 DEF IsSum

LEMMA SumType ==
  ASSUME NEW hits \in Seq(HitRecords), NEW sum, IsSum(hits, sum)
  PROVE  /\ sum[0] = 0
         /\ \A n \in 0..Len(hits) : sum[n] \in Nat
         /\ \A n \in 1..Len(hits) :
              sum[n] = sum[n - 1] + hits[n].bytes + (IF n = 1 THEN 0 ELSE 1)
<1>1. Len(hits) \in Nat /\ \A n \in 1..Len(hits) : hits[n].bytes \in Nat
  BY HitFields
<1>2. sum[0] = 0
  BY <1>1 DEF IsSum
<1>3. ASSUME NEW n \in 1..Len(hits)
      PROVE  sum[n] = sum[n - 1] + hits[n].bytes + (IF n = 1 THEN 0 ELSE 1)
  <2>1. n \in 0..Len(hits) /\ n # 0
    OBVIOUS
  <2> QED BY <2>1, Zenon DEF IsSum
<1> DEFINE T == {n \in Nat : n <= Len(hits) => sum[n] \in Nat}
<1>4. 0 \in T
  BY <1>2
<1>5. \A n \in Nat : n \in T => n + 1 \in T
  <2> SUFFICES ASSUME NEW n \in Nat, n \in T, n + 1 <= Len(hits) PROVE sum[n + 1] \in Nat
    OBVIOUS
  <2>1. n + 1 \in 1..Len(hits) /\ n + 1 - 1 = n /\ sum[n] \in Nat
    BY <1>1
  <2> QED BY <1>1, <1>3, <2>1
<1> HIDE DEF T
<1>6. \A n \in Nat : n \in T
  BY <1>4, <1>5, Induction
<1>7. \A n \in 0..Len(hits) : sum[n] \in Nat
  BY <1>1, <1>6 DEF T
<1> QED BY <1>2, <1>3, <1>7

LEMMA BytesAppend ==
  ASSUME NEW hits \in Seq(HitRecords), NEW h \in HitRecords
  PROVE  /\ Bytes(hits) \in Nat
         /\ Bytes(Append(hits, h)) = Bytes(hits) + h.bytes + (IF Len(hits) = 0 THEN 0 ELSE 1)
<1> DEFINE t == Append(hits, h)
<1>1. /\ t \in Seq(HitRecords) /\ Len(t) = Len(hits) + 1 /\ t[Len(hits) + 1] = h
      /\ \A i \in 1..Len(hits) : t[i] = hits[i]
      /\ Len(hits) \in Nat
  BY AppendProperties
<1> HIDE DEF t
<1>2. PICK f : IsSum(hits, f) /\ Bytes(hits) = f[Len(hits)]
  BY BytesIs
<1>3. PICK g : IsSum(t, g) /\ Bytes(t) = g[Len(t)]
  BY <1>1, BytesIs
<1>4. /\ f[0] = 0 /\ \A n \in 0..Len(hits) : f[n] \in Nat
      /\ \A n \in 1..Len(hits) : f[n] = f[n - 1] + hits[n].bytes + (IF n = 1 THEN 0 ELSE 1)
  BY <1>2, SumType
<1>5. /\ g[0] = 0
      /\ \A n \in 1..Len(t) : g[n] = g[n - 1] + t[n].bytes + (IF n = 1 THEN 0 ELSE 1)
  BY <1>1, <1>3, SumType
<1> DEFINE T == {n \in Nat : n <= Len(hits) => g[n] = f[n]}
<1>6. 0 \in T
  BY <1>4, <1>5
<1>7. \A n \in Nat : n \in T => n + 1 \in T
  <2> SUFFICES ASSUME NEW n \in Nat, n \in T, n + 1 <= Len(hits) PROVE g[n + 1] = f[n + 1]
    OBVIOUS
  <2>1. n + 1 \in 1..Len(hits) /\ n + 1 \in 1..Len(t) /\ n + 1 - 1 = n /\ g[n] = f[n]
    BY <1>1
  <2>2. f[n + 1] = f[n] + hits[n + 1].bytes + (IF n + 1 = 1 THEN 0 ELSE 1)
    BY <1>4, <2>1
  <2>3. g[n + 1] = g[n] + t[n + 1].bytes + (IF n + 1 = 1 THEN 0 ELSE 1)
    BY <1>5, <2>1
  <2>4. t[n + 1] = hits[n + 1]
    BY <1>1, <2>1
  <2> QED BY <2>1, <2>2, <2>3, <2>4
<1> HIDE DEF T
<1>8. Len(hits) \in T
  BY <1>1, <1>6, <1>7, Induction
<1>9. g[Len(hits)] = f[Len(hits)]
  BY <1>1, <1>8 DEF T
<1>10. g[Len(hits) + 1] = g[Len(hits)] + h.bytes + (IF Len(hits) = 0 THEN 0 ELSE 1)
  <2>1. Len(hits) + 1 \in 1..Len(t) /\ Len(hits) + 1 - 1 = Len(hits)
        /\ (Len(hits) + 1 = 1 <=> Len(hits) = 0)
    BY <1>1
  <2> QED BY <1>1, <1>5, <2>1
<1>11. f[Len(hits)] \in Nat
  BY <1>1, <1>4
<1> QED BY <1>1, <1>2, <1>3, <1>9, <1>10, <1>11 DEF t

-----------------------------------------------------------------------------
(* A page *)

Listed(page) == ToSet(IdSeq(page.items)) \cup ToSet(IdSeq(page.conflicts))

\* What the loop has made of the first n rows.
PageOf(q, rows, n, page) ==
  /\ page \in [items : Seq(HitRecords), conflicts : Seq(HitRecords), consumed : 0..n,
               full : BOOLEAN, omitted : SUBSET RowIds]
  /\ IF page.full THEN page.consumed < n ELSE page.consumed = n
  /\ n > 0 => page.consumed > 0
  /\ IsInjective(IdSeq(page.items)) /\ IsInjective(IdSeq(page.conflicts))
  /\ ToSet(IdSeq(page.items)) \cap ToSet(IdSeq(page.conflicts)) = {}
  /\ Listed(page) \subseteq {rows[k] : k \in 1..page.consumed}
  /\ \A k \in 1..page.consumed : Valid(rows[k]) => rows[k] \in Listed(page) \cup page.omitted
  /\ \A id \in page.omitted : ~Fits(id, FreshRoom(q))
  /\ Size(page.items, page.conflicts) <= Cap(q)

LEMMA Budgets ==
  /\ EmptyBytes \in Nat /\ HostEmptyBytes \in Nat /\ MinBytes \in Nat /\ MinTokens \in Nat
  /\ HostMaxBytes \in Nat /\ HostMaxTokens \in Nat
  /\ EmptyBytes <= HostEmptyBytes /\ EmptyBytes <= MinBytes /\ EmptyBytes <= MinTokens
  BY SearchAssumption

LEMMA Limit == PageLimit \in Nat /\ PageLimit > 0
  BY SearchAssumption

LEMMA RequestType ==
  ASSUME NEW q \in Queries
  PROVE  /\ Requests[q].bytes \in Nat /\ Requests[q].tokens \in Nat
         /\ Requests[q].items \in Nat /\ Requests[q].items > 0
         /\ Requests[q].bytes >= MinBytes /\ Requests[q].tokens >= MinTokens
  BY SearchAssumption

LEMMA CapType ==
  ASSUME NEW q \in Queries
  PROVE  Cap(q) \in Nat /\ Cap(q) >= EmptyBytes
<1> DEFINE b == Requests[q].bytes
           t == Requests[q].tokens
<1>1. b \in Nat /\ t \in Nat /\ b >= MinBytes /\ t >= MinTokens
  BY RequestType
<1>2. Least(b, t) \in Nat /\ Least(b, t) >= EmptyBytes
  BY <1>1, Budgets DEF Least
<1> DEFINE x == Most(Least(b, HostMaxBytes) - Overhead, MinBytes)
           y == Most(Least(t, HostMaxTokens) - Overhead, MinTokens)
<1>3. /\ Least(b, HostMaxBytes) \in Nat /\ Least(t, HostMaxTokens) \in Nat
      /\ Overhead \in Nat
  BY <1>1, Budgets DEF Least, Overhead
<1>4. x \in Nat /\ y \in Nat /\ x >= MinBytes /\ y >= MinTokens
  BY <1>3, Budgets DEF Most
<1> HIDE DEF x, y
<1>5. Least(x, y) \in Nat /\ Least(x, y) >= EmptyBytes
  BY <1>4, Budgets DEF Least
<1> QED BY <1>2, <1>5 DEF x, y, Cap, HostBudget

LEMMA SizeType ==
  ASSUME NEW items \in Seq(HitRecords), NEW conflicts \in Seq(HitRecords)
  PROVE  Size(items, conflicts) \in Nat
<1>1. \A hits \in Seq(HitRecords) : Bytes(hits) \in Nat
  <2> SUFFICES ASSUME NEW hits \in Seq(HitRecords) PROVE Bytes(hits) \in Nat
    OBVIOUS
  <2>1. PICK sum : IsSum(hits, sum) /\ Bytes(hits) = sum[Len(hits)]
    BY BytesIs
  <2>2. Len(hits) \in Nat /\ \A n \in 0..Len(hits) : sum[n] \in Nat
    BY <2>1, SumType
  <2> QED BY <2>1, <2>2
<1> QED BY <1>1, SearchAssumption DEF Size

\* A hit takes no more than the room it was given.
LEMMA HitType ==
  ASSUME NEW id \in RowIds, NEW room \in Int, Fits(id, room)
  PROVE  /\ Hit(id, room) \in HitRecords /\ Hit(id, room).id = id
         /\ Hit(id, room).bytes <= room
<1>1. /\ Catalog[id].least \in Nat \ {0} /\ Catalog[id].passage \in Nat \ {0}
      /\ Catalog[id].full \in Nat \ {0}
  BY SearchAssumption
<1> DEFINE bytes == IF Catalog[id].full <= room THEN Catalog[id].full
                    ELSE Least(room, Catalog[id].passage)
<1>2. bytes \in Nat /\ bytes <= room
  BY <1>1 DEF Fits, Least
<1>3. Hit(id, room) = [id |-> id, cut |-> Catalog[id].full > room, bytes |-> bytes]
  BY DEF Hit
<1>4. (Catalog[id].full > room) \in BOOLEAN
  BY <1>1
<1> HIDE DEF bytes
<1> QED BY <1>2, <1>3, <1>4 DEF HitRecords

\* With the comma before it, a hit keeps the page within the cap.
LEMMA SizeAppend ==
  ASSUME NEW items \in Seq(HitRecords), NEW conflicts \in Seq(HitRecords),
         NEW h \in HitRecords
  PROVE  /\ Size(Append(items, h), conflicts) <= Size(items, conflicts) + 1 + h.bytes
         /\ Size(items, Append(conflicts, h)) <= Size(items, conflicts) + 1 + h.bytes
<1>1. h.bytes \in Nat /\ EmptyBytes \in Nat
  BY SearchAssumption DEF HitRecords
<1>2. /\ Bytes(items) \in Nat /\ Bytes(conflicts) \in Nat
      /\ Bytes(Append(items, h)) = Bytes(items) + h.bytes + (IF Len(items) = 0 THEN 0 ELSE 1)
      /\ Bytes(Append(conflicts, h)) =
           Bytes(conflicts) + h.bytes + (IF Len(conflicts) = 0 THEN 0 ELSE 1)
  BY BytesAppend
<1>4. Len(items) \in Nat /\ Len(conflicts) \in Nat
  OBVIOUS
<1>5. /\ Bytes(Append(items, h)) \in Nat
      /\ Bytes(Append(items, h)) <= Bytes(items) + h.bytes + 1
  BY <1>1, <1>2, <1>4
<1>6. /\ Bytes(Append(conflicts, h)) \in Nat
      /\ Bytes(Append(conflicts, h)) <= Bytes(conflicts) + h.bytes + 1
  BY <1>1, <1>2, <1>4
<1> DEFINE a == Bytes(items)
           b == Bytes(conflicts)
           c == Bytes(Append(items, h))
           d == Bytes(Append(conflicts, h))
           e == h.bytes
<1>7. /\ a \in Nat /\ b \in Nat /\ c \in Nat /\ d \in Nat /\ e \in Nat
      /\ c <= a + e + 1 /\ d <= b + e + 1
  BY <1>1, <1>2, <1>5, <1>6
<1>8. /\ Size(Append(items, h), conflicts) = EmptyBytes + c + b
      /\ Size(items, Append(conflicts, h)) = EmptyBytes + a + d
      /\ Size(items, conflicts) = EmptyBytes + a + b
  BY DEF Size
<1> HIDE DEF a, b, c, d, e
<1>9. /\ EmptyBytes + c + b <= EmptyBytes + a + b + 1 + e
      /\ EmptyBytes + a + d <= EmptyBytes + a + b + 1 + e
  BY <1>1, <1>7
<1> QED BY <1>8, <1>9 DEF e

\* The empty page, before any row.
LEMMA EmptyPageOf ==
  ASSUME NEW q \in Queries, NEW rows
  PROVE  PageOf(q, rows, 0, EmptyPage)
<1>1. EmptyPage.items = <<>> /\ EmptyPage.conflicts = <<>> /\ EmptyPage.consumed = 0
      /\ EmptyPage.full = FALSE /\ EmptyPage.omitted = {}
  BY DEF EmptyPage
<1>2. EmptyPage \in [items : Seq(HitRecords), conflicts : Seq(HitRecords), consumed : 0..0,
                     full : BOOLEAN, omitted : SUBSET RowIds]
  BY DEF EmptyPage
<1>3. Size(<<>>, <<>>) <= Cap(q)
  BY BytesEmpty, CapType, SearchAssumption DEF Size
<1> QED BY <1>1, <1>2, <1>3, IdSeqEmpty DEF PageOf, Listed

\* A page that lists nothing is empty.
LEMMA NothingListed ==
  ASSUME NEW hits \in Seq(HitRecords), ToSet(IdSeq(hits)) = {}
  PROVE  hits = <<>>
<1>1. IdSeq(hits) \in Seq(RowIds) /\ Len(IdSeq(hits)) = Len(hits) /\ Len(hits) \in Nat
  BY IdSeqType
<1>2. Len(hits) = 0
  <2> SUFFICES ASSUME Len(hits) # 0 PROVE FALSE
    OBVIOUS
  <2>1. 1 \in DOMAIN IdSeq(hits)
    BY <1>1
  <2> QED BY <2>1 DEF ToSet
<1> QED BY <1>2

\* One more hit in a list, of a row that no list has yet.
LEMMA ListOneMore ==
  ASSUME NEW hits \in Seq(HitRecords), NEW h \in HitRecords,
         IsInjective(IdSeq(hits)), h.id \notin ToSet(IdSeq(hits))
  PROVE  /\ Append(hits, h) \in Seq(HitRecords)
         /\ IsInjective(IdSeq(Append(hits, h)))
         /\ ToSet(IdSeq(Append(hits, h))) = ToSet(IdSeq(hits)) \cup {h.id}
<1>1. IdSeq(hits) \in Seq(RowIds) /\ h.id \in RowIds
  BY IdSeqType DEF HitRecords
<1>2. IdSeq(Append(hits, h)) = Append(IdSeq(hits), h.id)
  BY IdSeqAppend
<1>3. /\ IsInjective(Append(IdSeq(hits), h.id))
      /\ ToSet(Append(IdSeq(hits), h.id)) = ToSet(IdSeq(hits)) \cup {h.id}
  BY <1>1, AppendDistinct
<1>4. Append(hits, h) \in Seq(HitRecords)
  BY AppendProperties
<1> QED BY <1>2, <1>3, <1>4

\* The loop body, one row at a time.
LEMMA TakeKeeps ==
  ASSUME NEW q \in Queries, NEW rows \in Seq(RowIds), IsInjective(rows),
         NEW n \in 1..Len(rows), NEW page, PageOf(q, rows, n - 1, page)
  PROVE  PageOf(q, rows, n, Take(q, page, rows[n]))
<1> DEFINE id == rows[n]
           items == page.items
           conflicts == page.conflicts
           room == Room(q, items, conflicts)
           seen == {rows[k] : k \in 1..page.consumed}
           next == Take(q, page, id)
<1> SUFFICES PageOf(q, rows, n, next)
  OBVIOUS
<1>1. /\ items \in Seq(HitRecords) /\ conflicts \in Seq(HitRecords)
      /\ page.consumed \in 0..n - 1 /\ page.full \in BOOLEAN /\ page.omitted \in SUBSET RowIds
      /\ page = [items |-> items, conflicts |-> conflicts, consumed |-> page.consumed,
                 full |-> page.full, omitted |-> page.omitted]
  BY DEF PageOf
<1>2. /\ IF page.full THEN page.consumed < n - 1 ELSE page.consumed = n - 1
      /\ n - 1 > 0 => page.consumed > 0
      /\ IsInjective(IdSeq(items)) /\ IsInjective(IdSeq(conflicts))
      /\ ToSet(IdSeq(items)) \cap ToSet(IdSeq(conflicts)) = {}
      /\ ToSet(IdSeq(items)) \subseteq seen /\ ToSet(IdSeq(conflicts)) \subseteq seen
      /\ \A k \in 1..page.consumed :
           Valid(rows[k]) => rows[k] \in Listed(page) \cup page.omitted
      /\ \A o \in page.omitted : ~Fits(o, FreshRoom(q))
      /\ Size(items, conflicts) <= Cap(q)
  BY DEF PageOf, Listed
<1>3. n \in Nat /\ n > 0 /\ id \in RowIds /\ Cap(q) \in Nat /\ Size(items, conflicts) \in Nat
      /\ room \in Int
  <2>1. Cap(q) \in Nat /\ Size(items, conflicts) \in Nat
    BY <1>1, CapType, SizeType
  <2>2. room \in Int
    BY <2>1 DEF Room
  <2> HIDE DEF room
  <2> QED BY <2>1, <2>2
<1>4. ~page.full => id \notin seen
  BY <1>2 DEF IsInjective
\* Before the first row the page is empty: whatever fits a page fits this one.
<1>5. ASSUME n = 1
      PROVE  room = FreshRoom(q) /\ Len(items) + Len(conflicts) = 0
  <2>1. seen = {}
    BY <1>1, <1>5
  <2>2. items = <<>> /\ conflicts = <<>>
    BY <1>1, <1>2, <2>1, NothingListed
  <2> QED BY <2>2 DEF FreshRoom
<1> HIDE DEF room
<1>6. CASE page.full
  <2>1. next = page
    BY <1>6 DEF Take
  <2>2. page.consumed < n - 1 /\ page.consumed \in 0..n
    BY <1>1, <1>2, <1>6
  <2>3. page \in [items : Seq(HitRecords), conflicts : Seq(HitRecords), consumed : 0..n,
                  full : BOOLEAN, omitted : SUBSET RowIds]
    BY <1>1, <2>2
  <2>4. page.consumed < n /\ page.consumed > 0
    BY <1>1, <1>2, <1>3, <2>2
  <2> HIDE DEF items, conflicts, id, next
  <2> QED BY <1>6, <2>1, <2>3, <2>4 DEF PageOf
<1>7. CASE ~page.full /\ next = [page EXCEPT !.full = TRUE] /\ n > 1
  <2> DEFINE p == [items |-> items, conflicts |-> conflicts, consumed |-> page.consumed,
                   full |-> TRUE, omitted |-> page.omitted]
  <2>1. next = p
    BY <1>1, <1>7
  <2>2. page.consumed = n - 1 /\ page.consumed \in 0..n /\ page.consumed < n /\ page.consumed > 0
    BY <1>1, <1>2, <1>3, <1>7
  <2>3. Listed(p) = Listed(page)
    BY DEF Listed
  <2>4. Listed(page) \subseteq seen
    BY <1>2 DEF Listed
  <2>5. p \in [items : Seq(HitRecords), conflicts : Seq(HitRecords), consumed : 0..n,
                  full : BOOLEAN, omitted : SUBSET RowIds]
    BY <1>1, <2>2
  <2>6. PageOf(q, rows, n, p)
    BY <1>2, <2>2, <2>3, <2>4, <2>5 DEF PageOf
  <2> QED BY <2>1, <2>6
\* The row is consumed; it is listed, or left out for its size, or not valid.
<1>8. ASSUME ~page.full, NEW its \in Seq(HitRecords), NEW cons \in Seq(HitRecords),
             NEW out \in SUBSET RowIds,
             next = [items |-> its, conflicts |-> cons, consumed |-> page.consumed + 1,
                     full |-> page.full, omitted |-> out],
             IsInjective(IdSeq(its)), IsInjective(IdSeq(cons)),
             ToSet(IdSeq(its)) \cap ToSet(IdSeq(cons)) = {},
             ToSet(IdSeq(items)) \subseteq ToSet(IdSeq(its)),
             ToSet(IdSeq(conflicts)) \subseteq ToSet(IdSeq(cons)),
             ToSet(IdSeq(its)) \cup ToSet(IdSeq(cons)) \subseteq seen \cup {id},
             page.omitted \subseteq out, \A o \in out : ~Fits(o, FreshRoom(q)),
             Valid(id) => id \in ToSet(IdSeq(its)) \cup ToSet(IdSeq(cons)) \cup out,
             Size(its, cons) <= Cap(q)
      PROVE  PageOf(q, rows, n, next)
  <2>1. /\ next.items = its /\ next.conflicts = cons /\ next.consumed = n
        /\ next.full = FALSE /\ next.omitted = out
    BY <1>1, <1>2, <1>3, <1>8
  <2>2. next \in [items : Seq(HitRecords), conflicts : Seq(HitRecords), consumed : 0..n,
                  full : BOOLEAN, omitted : SUBSET RowIds]
    BY <1>1, <1>2, <1>3, <1>8
  <2>3. seen \cup {id} \subseteq {rows[k] : k \in 1..n}
    BY <1>1, <1>3
  <2>4. Listed(next) = ToSet(IdSeq(its)) \cup ToSet(IdSeq(cons))
    BY <2>1 DEF Listed
  <2>5. Listed(page) \subseteq Listed(next)
    BY <1>8, <2>4 DEF Listed
  <2>6. ASSUME NEW k \in 1..n, Valid(rows[k]) PROVE rows[k] \in Listed(next) \cup out
    <3>1. CASE k = n
      BY <1>8, <2>4, <2>6, <3>1
    <3>2. CASE k # n
      <4>1. k \in 1..page.consumed
        BY <1>2, <1>3, <1>8, <3>2
      <4> QED BY <1>2, <1>8, <2>5, <2>6, <4>1
    <3> QED BY <3>1, <3>2
  <2> HIDE DEF next, id, items, conflicts
  <2> QED BY <1>3, <1>8, <2>1, <2>2, <2>3, <2>4, <2>6 DEF PageOf
<1>9. CASE ~page.full /\ next = Consume(page) /\ ~Valid(id)
  <2>1. next = [items |-> items, conflicts |-> conflicts, consumed |-> page.consumed + 1,
                full |-> page.full, omitted |-> page.omitted]
    BY <1>1, <1>9 DEF Consume
  <2> HIDE DEF next, id, items, conflicts, seen
  <2> QED BY <1>1, <1>2, <1>8, <1>9, <2>1
<1>10. CASE ~page.full /\ next = Omit(page, id) /\ ~Fits(id, FreshRoom(q))
  <2>1. next = [items |-> items, conflicts |-> conflicts, consumed |-> page.consumed + 1,
                full |-> page.full, omitted |-> page.omitted \cup {id}]
    BY <1>1, <1>10 DEF Omit, Consume
  <2>2. page.omitted \cup {id} \in SUBSET RowIds
    BY <1>1, <1>3
  <2> HIDE DEF next, id, items, conflicts, seen
  <2> QED BY <1>1, <1>2, <1>8, <1>10, <2>1, <2>2
<1>11. CASE ~page.full /\ next = Return(page, id, Hit(id, room)) /\ Fits(id, room)
  <2> DEFINE h == Hit(id, room)
  <2>1. h \in HitRecords /\ h.id = id /\ h.bytes <= room /\ h.bytes \in Nat
    <3>1. h \in HitRecords /\ h.id = id /\ h.bytes <= room
      BY <1>3, <1>11, HitType
    <3> HIDE DEF h
    <3> QED BY <3>1 DEF HitRecords
  <2> HIDE DEF h
  <2>2. id \notin ToSet(IdSeq(items)) /\ id \notin ToSet(IdSeq(conflicts))
    BY <1>2, <1>4, <1>11
  <2>3. Size(items, conflicts) + 1 + h.bytes <= Cap(q)
    BY <1>3, <2>1 DEF room, Room
  <2>4. CASE Contested(id)
    <3> DEFINE cons == Append(conflicts, h)
    <3>1. next = [items |-> items, conflicts |-> cons, consumed |-> page.consumed + 1,
                  full |-> page.full, omitted |-> page.omitted]
      BY <1>1, <1>11, <2>4 DEF Return, Consume, h
    <3>2. /\ cons \in Seq(HitRecords) /\ IsInjective(IdSeq(cons))
          /\ ToSet(IdSeq(cons)) = ToSet(IdSeq(conflicts)) \cup {id}
      BY <1>1, <1>2, <2>1, <2>2, ListOneMore
    <3>3. Size(items, cons) <= Cap(q)
      <4>1. Size(items, cons) <= Size(items, conflicts) + 1 + h.bytes
        BY <1>1, <2>1, SizeAppend
      <4>2. Size(items, cons) \in Nat
        BY <1>1, <3>2, SizeType
      <4> HIDE DEF cons, items, conflicts
      <4> QED BY <1>3, <2>1, <2>3, <4>1, <4>2
    <3> HIDE DEF next, id, items, conflicts, seen, cons
    <3> QED BY <1>1, <1>2, <1>8, <1>11, <2>2, <3>1, <3>2, <3>3
  <2>5. CASE ~Contested(id)
    <3> DEFINE its == Append(items, h)
    <3>1. next = [items |-> its, conflicts |-> conflicts, consumed |-> page.consumed + 1,
                  full |-> page.full, omitted |-> page.omitted]
      BY <1>1, <1>11, <2>5 DEF Return, Consume, h
    <3>2. /\ its \in Seq(HitRecords) /\ IsInjective(IdSeq(its))
          /\ ToSet(IdSeq(its)) = ToSet(IdSeq(items)) \cup {id}
      BY <1>1, <1>2, <2>1, <2>2, ListOneMore
    <3>3. Size(its, conflicts) <= Cap(q)
      <4>1. Size(its, conflicts) <= Size(items, conflicts) + 1 + h.bytes
        BY <1>1, <2>1, SizeAppend
      <4>2. Size(its, conflicts) \in Nat
        BY <1>1, <3>2, SizeType
      <4> HIDE DEF its, items, conflicts
      <4> QED BY <1>3, <2>1, <2>3, <4>1, <4>2
    <3> HIDE DEF next, id, items, conflicts, seen, its
    <3> QED BY <1>1, <1>2, <1>8, <1>11, <2>2, <3>1, <3>2, <3>3
  <2> QED BY <2>4, <2>5
<1>12. CASE ~page.full
  <2>1. CASE ~Valid(id)
    <3>1. next = Consume(page)
      BY <1>12, <2>1 DEF Take
    <3> QED BY <1>9, <1>12, <2>1, <3>1
  <2>2. CASE Valid(id) /\ Len(items) + Len(conflicts) >= Requests[q].items
    <3>1. next = [page EXCEPT !.full = TRUE]
      BY <1>12, <2>2 DEF Take
    <3>2. n > 1
      <4>1. Requests[q].items \in Nat /\ Requests[q].items > 0
        BY RequestType
      <4>2. n # 1
        <5> SUFFICES ASSUME n = 1 PROVE FALSE
          OBVIOUS
        <5>1. Len(items) + Len(conflicts) = 0
          BY <1>5
        <5>2. 0 >= Requests[q].items
          BY <2>2, <5>1
        <5> QED BY <4>1, <5>2
      <4> QED BY <1>3, <4>2
    <3> QED BY <1>7, <1>12, <3>1, <3>2
  <2>3. CASE Valid(id) /\ ~(Len(items) + Len(conflicts) >= Requests[q].items) /\ Fits(id, room)
    <3>1. next = Return(page, id, Hit(id, room))
      BY <1>12, <2>3 DEF Take, room
    <3> QED BY <1>11, <1>12, <2>3, <3>1
  <2>4. CASE /\ Valid(id) /\ ~(Len(items) + Len(conflicts) >= Requests[q].items)
             /\ ~Fits(id, room) /\ Fits(id, FreshRoom(q))
    <3>1. next = [page EXCEPT !.full = TRUE]
      BY <1>12, <2>4 DEF Take, room
    <3>2. n > 1
      <4>1. n # 1
        BY <1>5, <2>4
      <4> QED BY <1>3, <4>1
    <3> QED BY <1>7, <1>12, <3>1, <3>2
  <2>5. CASE /\ Valid(id) /\ ~(Len(items) + Len(conflicts) >= Requests[q].items)
             /\ ~Fits(id, room) /\ ~Fits(id, FreshRoom(q))
    <3>1. next = Omit(page, id)
      BY <1>12, <2>5 DEF Take, room
    <3> QED BY <1>10, <1>12, <2>5, <3>1
  <2> QED BY <2>1, <2>2, <2>3, <2>4, <2>5
<1> QED BY <1>1, <1>6, <1>12

\* The statement returns the rows that match from the offset on, up to LIMIT.
LEMMA RowsFacts ==
  ASSUME stored \in SUBSET RowIds, NEW q, NEW offset \in Nat
  PROVE  /\ Matching(q) \in Seq(RowIds) /\ IsInjective(Matching(q))
         /\ ToSet(Matching(q)) = Due(q)
         /\ Rows(q, offset) \in Seq(RowIds) /\ IsInjective(Rows(q, offset))
         /\ Len(Rows(q, offset)) \in Nat /\ Len(Rows(q, offset)) <= PageLimit
         /\ \A k \in 1..Len(Rows(q, offset)) :
              /\ offset + k \in 1..Len(Matching(q))
              /\ Rows(q, offset)[k] = Matching(q)[offset + k]
         /\ Len(Rows(q, offset)) < PageLimit =>
              offset + Len(Rows(q, offset)) >= Len(Matching(q))
<1> DEFINE all == Matching(q)
           last == Least(Len(all), offset + PageLimit)
           rows == Rows(q, offset)
<1>1. all \in Seq(RowIds) /\ IsInjective(all) /\ ToSet(all) = Due(q)
  <2>1. Due(q) \in SUBSET RowIds
    BY DEF Due
  <2> QED BY <2>1, OrderedFacts DEF Matching
<1>2. rows = SubSeq(all, offset + 1, last)
  BY DEF Rows
<1> HIDE DEF all, rows
<1>9. Len(all) \in Nat /\ DOMAIN all = 1..Len(all)
  BY <1>1
<1>3. /\ Len(all) \in Nat /\ PageLimit \in Nat /\ PageLimit > 0
      /\ last \in Nat /\ last <= Len(all) /\ last <= offset + PageLimit
      /\ last < offset + PageLimit => last = Len(all)
  <2>1. Len(all) \in Nat
    BY <1>1
  <2> QED BY <2>1, Limit DEF Least
<1> HIDE DEF last
<1>4. \A i \in offset + 1..last : all[i] \in RowIds
  BY <1>1, <1>3
<1>5. /\ rows \in Seq(RowIds)
      /\ Len(rows) = IF offset + 1 <= last THEN last - (offset + 1) + 1 ELSE 0
      /\ \A k \in 1..last - (offset + 1) + 1 : rows[k] = all[offset + 1 + k - 1]
  <2>1. offset + 1 \in Int /\ last \in Int
    BY <1>3
  <2> QED BY <1>2, <1>4, <2>1, SubSeqProperties
<1>6. ASSUME NEW k \in 1..Len(rows)
      PROVE  offset + k \in 1..Len(all) /\ rows[k] = all[offset + k]
  <2>1. k \in 1..last - (offset + 1) + 1 /\ offset + 1 + k - 1 = offset + k
        /\ offset + k \in 1..Len(all)
    BY <1>3, <1>5
  <2> QED BY <1>5, <2>1
<1>7. Len(rows) \in Nat /\ Len(rows) <= PageLimit
      /\ (Len(rows) < PageLimit => offset + Len(rows) >= Len(all))
  <2>1. CASE offset + 1 <= last
    BY <1>3, <1>5, <2>1
  <2>2. CASE ~(offset + 1 <= last)
    BY <1>3, <1>5, <2>2
  <2> QED BY <2>1, <2>2
<1>8. IsInjective(rows)
  <2> SUFFICES ASSUME NEW a \in DOMAIN rows, NEW b \in DOMAIN rows, rows[a] = rows[b]
               PROVE  a = b
    BY DEF IsInjective
  <2>1. a \in 1..Len(rows) /\ b \in 1..Len(rows)
    BY <1>5
  <2>2. offset + a = offset + b
    BY <1>1, <1>6, <1>9, <2>1 DEF IsInjective
  <2> QED BY <2>1, <2>2
<1> QED BY <1>1, <1>5, <1>6, <1>7, <1>8 DEF all, rows

\* The loop over all rows of a page.
LEMMA PageFacts ==
  ASSUME stored \in SUBSET RowIds, NEW q \in Queries, NEW offset \in Nat
  PROVE  PageOf(q, Rows(q, offset), Len(Rows(q, offset)), Page(q, offset))
<1> DEFINE rows == Rows(q, offset)
<1>1. rows \in Seq(RowIds) /\ IsInjective(rows) /\ Len(rows) \in Nat
  BY RowsFacts
<1>2. PICK page : IsPage(q, rows, page) /\ Page(q, offset) = page[Len(rows)]
  BY <1>1, PageIs
<1> HIDE DEF rows
<1>3. page[0] = EmptyPage
  BY <1>1, <1>2 DEF IsPage
<1>4. ASSUME NEW n \in 1..Len(rows) PROVE page[n] = Take(q, page[n - 1], rows[n])
  <2>1. n \in 0..Len(rows) /\ n # 0
    BY <1>1
  <2> QED BY <1>2, <2>1, Zenon DEF IsPage
<1> DEFINE T == {n \in Nat : n <= Len(rows) => PageOf(q, rows, n, page[n])}
<1>5. 0 \in T
  <2>1. PageOf(q, rows, 0, page[0])
    BY <1>3, EmptyPageOf
  <2> QED BY <2>1
<1>6. \A n \in Nat : n \in T => n + 1 \in T
  <2> SUFFICES ASSUME NEW n \in Nat, n \in T, n + 1 <= Len(rows)
               PROVE  PageOf(q, rows, n + 1, page[n + 1])
    OBVIOUS
  <2>1. n + 1 \in 1..Len(rows) /\ n + 1 - 1 = n /\ PageOf(q, rows, n, page[n])
    BY <1>1
  <2>2. PageOf(q, rows, n + 1, Take(q, page[n], rows[n + 1]))
    BY <1>1, <2>1, TakeKeeps
  <2>3. page[n + 1] = Take(q, page[n], rows[n + 1])
    BY <1>4, <2>1
  <2> QED BY <2>2, <2>3
<1> HIDE DEF T
<1>7. Len(rows) \in T
  BY <1>1, <1>5, <1>6, Induction
<1>8. PageOf(q, rows, Len(rows), page[Len(rows)])
  BY <1>1, <1>7 DEF T
<1> QED BY <1>2, <1>8 DEF rows

\* What an answer says of the rows from its offset on, of which it consumed n.
AnswerOf(q, offset, n, all, reply) ==
  /\ n \in Nat
  /\ \A i \in offset + 1..offset + n : i \in 1..Len(all)
  /\ reply.query = q /\ reply.offset = offset
  /\ reply.items \in Seq(HitRecords) /\ reply.conflicts \in Seq(HitRecords)
  /\ Got(reply) \in Seq(RowIds) /\ IsInjective(Got(reply))
  /\ ToSet(Got(reply)) \subseteq {all[i] : i \in offset + 1..offset + n}
  /\ \A i \in offset + 1..offset + n :
       Valid(all[i]) /\ Fits(all[i], FreshRoom(q)) => all[i] \in ToSet(Got(reply))
  /\ IF reply.next = NoCursor THEN Len(all) <= offset + n
     ELSE /\ reply.next = [query |-> q, generation |-> generation, offset |-> offset + n]
          /\ offset + n <= Len(all)
  /\ Size(reply.items, reply.conflicts) <= Cap(q)

LEMMA AnswerFacts ==
  ASSUME stored \in SUBSET RowIds, generation \in Nat, NEW q \in Queries, NEW offset \in Nat
  PROVE  /\ \E n : AnswerOf(q, offset, n, Matching(q), Answer(q, offset))
         /\ ~Answer(q, offset).truncated =>
              /\ Answer(q, offset).next = NoCursor
              /\ \A i \in offset + 1..Len(Matching(q)) : Valid(Matching(q)[i]) =>
                   \E h \in ToSet(Hits(Answer(q, offset))) :
                     h.id = Matching(q)[i] /\ ~h.cut
<1> DEFINE all == Matching(q)
           rows == Rows(q, offset)
           page == Page(q, offset)
           n == page.consumed
           more == More(q, offset)
           hits == Hits(page)
           reply == Answer(q, offset)
<1>1. /\ all \in Seq(RowIds) /\ IsInjective(all) /\ Len(all) \in Nat
      /\ Len(rows) \in Nat /\ Len(rows) <= PageLimit
      /\ \A k \in 1..Len(rows) : offset + k \in 1..Len(all) /\ rows[k] = all[offset + k]
      /\ Len(rows) < PageLimit => offset + Len(rows) >= Len(all)
  BY RowsFacts
<1>2. PageOf(q, rows, Len(rows), page)
  BY PageFacts
<1>3. /\ reply.query = q /\ reply.offset = offset
      /\ reply.items = page.items /\ reply.conflicts = page.conflicts
      /\ reply.next = IF more /\ n > 0
                      THEN [query |-> q, generation |-> generation, offset |-> offset + n]
                      ELSE NoCursor
      /\ Hits(reply) = hits
      /\ ~reply.truncated =>
           ~more /\ page.omitted = {} /\ \A i \in DOMAIN hits : ~hits[i].cut
  <2>1. /\ reply.items = page.items /\ reply.conflicts = page.conflicts
        /\ reply.query = q /\ reply.offset = offset
        /\ reply.next = IF more /\ n > 0
                        THEN [query |-> q, generation |-> generation, offset |-> offset + n]
                        ELSE NoCursor
        /\ reply.truncated =
             (more \/ (\E i \in DOMAIN hits : hits[i].cut) \/ page.omitted # {})
    BY DEF Answer
  <2>2. Hits(reply) = hits
    BY <2>1 DEF Hits
  <2> HIDE DEF reply, page, more, hits
  <2> QED BY <2>1, <2>2
<1>4. /\ more <=> n < Len(rows) \/ Len(rows) = PageLimit
  BY DEF More
<1> HIDE DEF all, rows, page, more, hits, reply
<1>5. /\ page.items \in Seq(HitRecords) /\ page.conflicts \in Seq(HitRecords)
      /\ n \in 0..Len(rows) /\ page.omitted \subseteq RowIds
      /\ Len(rows) > 0 => n > 0
      /\ IsInjective(IdSeq(page.items)) /\ IsInjective(IdSeq(page.conflicts))
      /\ ToSet(IdSeq(page.items)) \cap ToSet(IdSeq(page.conflicts)) = {}
      /\ Listed(page) \subseteq {rows[k] : k \in 1..n}
      /\ \A k \in 1..n : Valid(rows[k]) => rows[k] \in Listed(page) \cup page.omitted
      /\ \A id \in page.omitted : ~Fits(id, FreshRoom(q))
      /\ Size(page.items, page.conflicts) <= Cap(q)
  BY <1>2 DEF PageOf
<1>6. /\ Got(reply) = IdSeq(hits) /\ hits \in Seq(HitRecords)
      /\ Got(reply) \in Seq(RowIds) /\ IsInjective(Got(reply))
      /\ ToSet(Got(reply)) = Listed(page)
  <2>1. Got(reply) = IdSeq(hits)
    BY <1>3 DEF Got, IdSeq
  <2>2. hits \in Seq(HitRecords) /\ IdSeq(hits) = IdSeq(page.items) \o IdSeq(page.conflicts)
    BY <1>5, IdSeqConcat, ConcatProperties DEF hits, Hits
  <2>3. IdSeq(page.items) \in Seq(RowIds) /\ IdSeq(page.conflicts) \in Seq(RowIds)
    BY <1>5, IdSeqType
  <2>4. /\ IdSeq(hits) \in Seq(RowIds) /\ IsInjective(IdSeq(hits))
        /\ ToSet(IdSeq(hits)) = Listed(page)
    BY <1>5, <2>2, <2>3, ConcatDistinct DEF Listed
  <2> QED BY <2>1, <2>2, <2>4
<1>7. ASSUME NEW i \in offset + 1..offset + n
      PROVE  i \in 1..Len(all) /\ i - offset \in 1..n /\ rows[i - offset] = all[i]
  <2>1. i - offset \in 1..n /\ i - offset \in 1..Len(rows) /\ offset + (i - offset) = i
    BY <1>1, <1>5
  <2> QED BY <1>1, <2>1
<1>8. \A k \in 1..n : offset + k \in offset + 1..offset + n /\ rows[k] = all[offset + k]
  BY <1>1, <1>5
<1>9. {rows[k] : k \in 1..n} \subseteq {all[i] : i \in offset + 1..offset + n}
  BY <1>8
<1>10. ~more => offset + n >= Len(all)
  <2> SUFFICES ASSUME ~more PROVE offset + n >= Len(all)
    OBVIOUS
  <2>1. Len(rows) # PageLimit /\ ~(n < Len(rows))
    BY <1>4
  <2>2. n = Len(rows) /\ Len(rows) < PageLimit
    BY <1>1, <1>5, <2>1, Limit
  <2> QED BY <1>1, <2>2
<1>11. more => n > 0
  BY <1>1, <1>4, <1>5, Limit
<1>12. offset + n <= Len(all) \/ n = 0
  <2>1. CASE n > 0
    <3>1. n \in 1..Len(rows)
      BY <1>1, <1>5, <2>1
    <3> QED BY <1>1, <3>1
  <2> QED BY <1>1, <1>5, <2>1
<1>13. [query |-> q, generation |-> generation, offset |-> offset + n] # NoCursor
  <2>1. offset + n \in Nat
    BY <1>1, <1>5
  <2> QED BY <2>1, SearchAssumption
<1>14. AnswerOf(q, offset, n, all, reply)
  <2>1. n \in Nat
    BY <1>1, <1>5
  <2>2. IF reply.next = NoCursor THEN Len(all) <= offset + n
        ELSE /\ reply.next = [query |-> q, generation |-> generation, offset |-> offset + n]
             /\ offset + n <= Len(all)
    BY <1>1, <1>3, <1>10, <1>11, <1>12, <1>13, <2>1
  <2>3. ASSUME NEW i \in offset + 1..offset + n, Valid(all[i]), Fits(all[i], FreshRoom(q))
        PROVE  all[i] \in ToSet(Got(reply))
    BY <1>5, <1>6, <1>7, <2>3
  <2>4. \A i \in offset + 1..offset + n : i \in 1..Len(all)
    BY <1>7
  <2> HIDE DEF n
  <2> QED BY <1>3, <1>5, <1>6, <1>9, <2>1, <2>2, <2>3, <2>4 DEF AnswerOf
<1>15. ASSUME ~reply.truncated
       PROVE  /\ reply.next = NoCursor
              /\ \A i \in offset + 1..Len(all) : Valid(all[i]) =>
                   \E h \in ToSet(Hits(reply)) : h.id = all[i] /\ ~h.cut
  <2>1. reply.next = NoCursor
    BY <1>3, <1>15
  <2>2. ASSUME NEW i \in offset + 1..Len(all), Valid(all[i])
        PROVE  \E h \in ToSet(Hits(reply)) : h.id = all[i] /\ ~h.cut
    <3>1. i \in offset + 1..offset + n
      BY <1>1, <1>3, <1>5, <1>10, <1>15
    <3>2. all[i] \in ToSet(IdSeq(hits))
      BY <1>3, <1>5, <1>6, <1>7, <1>15, <2>2, <3>1
    <3>3. PICK j \in DOMAIN hits : hits[j].id = all[i]
      BY <3>2 DEF ToSet, IdSeq
    <3>4. hits[j] \in ToSet(Hits(reply)) /\ ~hits[j].cut
      BY <1>3, <1>15 DEF ToSet
    <3> QED BY <3>3, <3>4
  <2> QED BY <2>1, <2>2
<1>16. \E m : AnswerOf(q, offset, m, all, reply)
  BY <1>14
<1> QED BY <1>15, <1>16 DEF all, reply

-----------------------------------------------------------------------------
(* The inductive invariant *)

Cursors == [query : Queries, generation : Nat, offset : Nat]

SearchType ==
  /\ stored \in SUBSET RowIds /\ generation \in Nat
  /\ chain \in [query : Queries \cup {"none"}, cursor : Cursors \cup {NoCursor},
                due : SUBSET RowIds, valid : SUBSET RowIds, got : Seq(RowIds),
                steady : BOOLEAN, ended : BOOLEAN]

\* A client has followed the first n of the rows that were due: it got each of
\* them at most once, and every one that stayed valid and fits a page.
Follows(query, due, valid, got, n) ==
  /\ n \in Nat /\ n <= Len(Ordered(due))
  /\ valid \subseteq due /\ due \subseteq RowIds
  /\ got \in Seq(RowIds) /\ IsInjective(got)
  /\ ToSet(got) \subseteq {Ordered(due)[i] : i \in 1..n}
  /\ \A i \in 1..n :
       LET id == Ordered(due)[i] IN
       id \in valid /\ Fits(id, FreshRoom(query)) => id \in ToSet(got)

\* A steady chain has followed the rows up to its cursor, or to the end.
ChainInv ==
  /\ chain.cursor # NoCursor =>
       /\ ~chain.ended /\ chain.cursor.query = chain.query
       /\ chain.steady => Follows(chain.query, chain.due, chain.valid, chain.got,
                                  chain.cursor.offset)
  /\ chain.ended /\ chain.steady =>
       Follows(chain.query, chain.due, chain.valid, chain.got, Len(Ordered(chain.due)))

SearchInv == SearchType /\ ChainInv /\ UntruncatedIsWhole /\ HostFits

\* One more page.
LEMMA FollowOn ==
  ASSUME NEW q, NEW due \in SUBSET RowIds, NEW valid, NEW got, NEW offset,
         Follows(q, due, valid, got, offset),
         NEW reply, NEW n, AnswerOf(q, offset, n, Ordered(due), reply),
         NEW kept, kept \subseteq {id \in valid : Valid(id)}
  PROVE  /\ Follows(q, due, kept, got \o Got(reply), offset + n)
         /\ reply.next = NoCursor => offset + n = Len(Ordered(due))
<1> DEFINE all == Ordered(due)
           more == Got(reply)
           whole == got \o more
<1>1. all \in Seq(RowIds) /\ IsInjective(all) /\ Len(all) \in Nat
  <2>1. all \in Seq(RowIds) /\ IsInjective(all)
    BY OrderedFacts
  <2> HIDE DEF all
  <2> QED BY <2>1
<1>2. /\ offset \in Nat /\ offset <= Len(all) /\ valid \subseteq due
      /\ got \in Seq(RowIds) /\ IsInjective(got)
      /\ ToSet(got) \subseteq {all[i] : i \in 1..offset}
      /\ \A i \in 1..offset :
           all[i] \in valid /\ Fits(all[i], FreshRoom(q)) => all[i] \in ToSet(got)
  BY DEF Follows
<1>3. /\ n \in Nat /\ \A i \in offset + 1..offset + n : i \in 1..Len(all)
      /\ more \in Seq(RowIds) /\ IsInjective(more)
      /\ ToSet(more) \subseteq {all[i] : i \in offset + 1..offset + n}
      /\ \A i \in offset + 1..offset + n :
           Valid(all[i]) /\ Fits(all[i], FreshRoom(q)) => all[i] \in ToSet(more)
      /\ reply.next = NoCursor => Len(all) <= offset + n
  BY DEF AnswerOf
<1> HIDE DEF all, more
<1>4. offset + n \in Nat /\ offset + n <= Len(all)
  <2>1. CASE n = 0
    BY <1>1, <1>2, <2>1
  <2>2. CASE n > 0
    <3>1. offset + n \in offset + 1..offset + n
      BY <1>2, <1>3, <2>2
    <3>2. offset + n \in 1..Len(all)
      BY <1>3, <3>1
    <3> QED BY <1>1, <3>2
  <2> QED BY <1>3, <2>1, <2>2
<1>5. ToSet(got) \cap ToSet(more) = {}
  <2> SUFFICES ASSUME NEW x \in ToSet(got), x \in ToSet(more) PROVE FALSE
    OBVIOUS
  <2>1. PICK i \in 1..offset : x = all[i]
    BY <1>2
  <2>2. PICK j \in offset + 1..offset + n : x = all[j]
    BY <1>3
  <2>3. i \in 1..Len(all) /\ j \in 1..Len(all) /\ i # j
    BY <1>1, <1>2, <1>3
  <2>4. DOMAIN all = 1..Len(all)
    BY <1>1
  <2> QED BY <1>1, <2>1, <2>2, <2>3, <2>4 DEF IsInjective
<1>6. whole \in Seq(RowIds) /\ IsInjective(whole) /\ ToSet(whole) = ToSet(got) \cup ToSet(more)
  BY <1>2, <1>3, <1>5, ConcatDistinct
<1> HIDE DEF whole
<1>7. \A i \in 1..offset : i \in 1..offset + n
  BY <1>2, <1>3
<1>8. \A i \in offset + 1..offset + n : i \in 1..offset + n
  BY <1>2, <1>3
<1>9. \A i \in 1..offset + n : i \in 1..offset \/ i \in offset + 1..offset + n
  BY <1>2, <1>3
<1>10. ToSet(whole) \subseteq {all[i] : i \in 1..offset + n}
  BY <1>2, <1>3, <1>6, <1>7, <1>8
<1>11. ASSUME NEW i \in 1..offset + n, all[i] \in kept, Fits(all[i], FreshRoom(q))
       PROVE  all[i] \in ToSet(whole)
  BY <1>2, <1>3, <1>6, <1>9, <1>11
<1>12. kept \subseteq due
  BY <1>2
<1>13. Follows(q, due, kept, whole, offset + n)
  BY <1>4, <1>6, <1>10, <1>11, <1>12 DEF Follows, all
<1>14. reply.next = NoCursor => offset + n = Len(all)
  BY <1>1, <1>3, <1>4
<1> QED BY <1>13, <1>14 DEF all, more, whole

\* The adapter's share and its wrapper are within the limits of the host.
LEMMA HostCap ==
  ASSUME NEW q \in Queries, Requests[q].host,
         ~(Least(Requests[q].bytes, HostMaxBytes) - Overhead < MinBytes),
         ~(Least(Requests[q].tokens, HostMaxTokens) - Overhead < MinTokens)
  PROVE  Cap(q) + Overhead = HostLimit(q)
<1> DEFINE b == Least(Requests[q].bytes, HostMaxBytes)
           t == Least(Requests[q].tokens, HostMaxTokens)
<1>1. b \in Nat /\ t \in Nat /\ Overhead \in Nat
  BY RequestType, Budgets DEF Least, Overhead
<1>2. b - Overhead >= MinBytes /\ t - Overhead >= MinTokens
  <2> HIDE DEF b, t
  <2> QED BY <1>1, Budgets DEF b, t
<1>3. Cap(q) = Least(Most(b - Overhead, MinBytes), Most(t - Overhead, MinTokens))
  BY DEF Cap, HostBudget
<1>4. HostLimit(q) = Least(b, t)
  BY DEF HostLimit
<1> HIDE DEF b, t
<1>5. Most(b - Overhead, MinBytes) = b - Overhead /\ Most(t - Overhead, MinTokens) = t - Overhead
  BY <1>1, <1>2, Budgets DEF Most
<1>6. Least(b - Overhead, t - Overhead) + Overhead = Least(b, t)
  BY <1>1 DEF Least
<1> QED BY <1>3, <1>4, <1>5, <1>6

\* What a step that answers establishes, whatever the page.
LEMMA AnswerKeeps ==
  ASSUME SearchType, NEW q \in Queries, NEW offset \in Nat,
         answer' = Answer(q, offset), UNCHANGED <<stored, clock, generation, grants>>
  PROVE  UntruncatedIsWhole' /\ HostFits'
<1>1. stored \in SUBSET RowIds /\ generation \in Nat
  BY DEF SearchType
<1>2. PICK n : AnswerOf(q, offset, n, Matching(q), answer')
  BY <1>1, AnswerFacts
<1>3. ~answer'.truncated =>
        /\ answer'.next = NoCursor
        /\ \A i \in offset + 1..Len(Matching(q)) : Valid(Matching(q)[i]) =>
             \E h \in ToSet(Hits(answer')) : h.id = Matching(q)[i] /\ ~h.cut
  BY <1>1, AnswerFacts
<1>4. /\ answer'.query = q /\ answer'.offset = offset
      /\ Size(answer'.items, answer'.conflicts) <= Cap(q)
      /\ answer'.items \in Seq(HitRecords) /\ answer'.conflicts \in Seq(HitRecords)
  BY <1>2 DEF AnswerOf
<1>5. Matching(q)' = Matching(q) /\ \A id : Valid(id)' = Valid(id)
  BY DEF Matching, Due, Searched, Authorized, Unexpired, Valid
<1>6. UntruncatedIsWhole'
  BY <1>3, <1>4, <1>5 DEF UntruncatedIsWhole, Everything
<1>7. HostFits'
  <2> SUFFICES ASSUME Requests[q].host,
                      ~(Least(Requests[q].bytes, HostMaxBytes) - Overhead < MinBytes),
                      ~(Least(Requests[q].tokens, HostMaxTokens) - Overhead < MinTokens)
               PROVE  Size(answer'.items, answer'.conflicts) + Overhead <= HostLimit(q)
    BY <1>4 DEF HostFits
  <2>1. Cap(q) + Overhead = HostLimit(q)
    BY HostCap
  <2>2. Cap(q) \in Nat /\ Overhead \in Nat
    BY CapType, Budgets DEF Overhead
  <2>3. Size(answer'.items, answer'.conflicts) \in Nat
    BY <1>4, SizeType
  <2> QED BY <1>4, <2>1, <2>2, <2>3
<1> QED BY <1>6, <1>7

-----------------------------------------------------------------------------
(* The steps *)

LEMMA GotType ==
  ASSUME NEW q, NEW offset, NEW n, NEW all, NEW reply, AnswerOf(q, offset, n, all, reply)
  PROVE  Got(reply) \in Seq(RowIds)
  BY DEF AnswerOf

LEMMA InitHolds == Init => SearchInv
<1> SUFFICES ASSUME Init PROVE SearchInv
  OBVIOUS
<1>1. stored \in SUBSET RowIds /\ generation \in Nat /\ answer = NoAnswer /\ chain = NoChain
  BY DEF Init
<1>2. SearchType
  BY <1>1 DEF SearchType, NoChain
<1>3. ChainInv
  BY <1>1 DEF ChainInv, NoChain
<1>4. UntruncatedIsWhole /\ HostFits
  BY <1>1 DEF UntruncatedIsWhole, HostFits, Served
<1> QED BY <1>2, <1>3, <1>4 DEF SearchInv

\* What the cursor of an answer is.
LEMMA CursorType ==
  ASSUME NEW q \in Queries, NEW offset \in Nat, NEW n, NEW all, NEW reply,
         generation \in Nat, AnswerOf(q, offset, n, all, reply)
  PROVE  /\ reply.next \in Cursors \cup {NoCursor}
         /\ reply.next # NoCursor => reply.next.query = q /\ reply.next.offset = offset + n
<1>1. n \in Nat /\ (reply.next # NoCursor =>
        reply.next = [query |-> q, generation |-> generation, offset |-> offset + n])
  BY DEF AnswerOf
<1> QED BY <1>1 DEF Cursors

\* A first page follows what is due from the start.
LEMMA SearchKeeps ==
  ASSUME SearchInv, NEW q \in Queries, Search(q)
  PROVE  SearchInv'
<1> DEFINE due == Due(q)
           kept == {id \in Due(q) : Valid(id)}
           next == answer'.next
<1>1. /\ SearchType /\ stored \in SUBSET RowIds /\ generation \in Nat
      /\ answer' = Answer(q, 0)
      /\ chain' = [query |-> q, cursor |-> next, due |-> due, valid |-> kept,
                   got |-> Got(answer'), steady |-> TRUE, ended |-> next = NoCursor]
      /\ UNCHANGED <<stored, clock, generation, grants>>
  BY DEF SearchInv, SearchType, Search
<1>2. UntruncatedIsWhole' /\ HostFits'
  BY <1>1, AnswerKeeps
<1>3. PICK n : AnswerOf(q, 0, n, Ordered(due), answer')
  BY <1>1, AnswerFacts DEF Matching
<1>4. due \in SUBSET RowIds /\ kept \subseteq {id \in due : Valid(id)} /\ kept \in SUBSET RowIds
  BY <1>1 DEF Due
<1> HIDE DEF due, kept
<1>5. Follows(q, due, due, <<>>, 0)
  <2>1. Ordered(due) \in Seq(RowIds)
    BY <1>4, OrderedFacts
  <2>2. 0 <= Len(Ordered(due))
    BY <2>1
  <2>3. <<>> \in Seq(RowIds)
    OBVIOUS
  <2> QED BY <1>4, <2>2, <2>3, IdSeqEmpty DEF Follows
<1>6. Got(answer') \in Seq(RowIds) /\ <<>> \o Got(answer') = Got(answer')
  <2>1. Got(answer') \in Seq(RowIds)
    BY <1>3, GotType
  <2> QED BY <2>1, ConcatEmptySeq
<1>7. /\ Follows(q, due, kept, Got(answer'), 0 + n)
      /\ next = NoCursor => 0 + n = Len(Ordered(due))
  <2>1. due \in SUBSET RowIds /\ kept \subseteq {id \in due : Valid(id)}
    BY <1>4
  <2> DEFINE none == <<>>
             start == 0
  <2>2. AnswerOf(q, start, n, Ordered(due), answer') /\ Follows(q, due, due, none, start)
    BY <1>3, <1>5
  <2> HIDE DEF none, start
  <2>3. /\ Follows(q, due, kept, none \o Got(answer'), start + n)
        /\ next = NoCursor => start + n = Len(Ordered(due))
    BY <2>1, <2>2, FollowOn
  <2> QED BY <1>6, <2>3 DEF none, start
<1>8. next \in Cursors \cup {NoCursor}
      /\ (next # NoCursor => next.query = q /\ next.offset = 0 + n)
  BY <1>1, <1>3, CursorType
<1> HIDE DEF next
<1>9. SearchType'
  BY <1>1, <1>4, <1>6, <1>8 DEF SearchType
<1>10. ChainInv'
  BY <1>1, <1>7, <1>8 DEF ChainInv
<1> QED BY <1>2, <1>9, <1>10 DEF SearchInv

\* A later page follows on from the cursor, if the rows are still the same.
LEMMA ResumeKeeps ==
  ASSUME SearchInv, NEW q \in Queries, Resume(q)
  PROVE  SearchInv'
<1> DEFINE offset == chain.cursor.offset
           kept == {id \in chain.valid \cap Due(q) : Valid(id)}
           same == chain.steady /\ Due(q) = chain.due
           next == answer'.next
           got == chain.got \o Got(answer')
<1>1. /\ SearchType /\ ChainInv /\ stored \in SUBSET RowIds /\ generation \in Nat
      /\ chain.cursor # NoCursor /\ chain.cursor.query = q
      /\ answer' = Answer(q, offset)
      /\ chain' = [chain EXCEPT !.cursor = next, !.got = got, !.valid = kept,
                                !.steady = same, !.ended = next = NoCursor]
      /\ UNCHANGED <<stored, clock, generation, grants>>
  BY DEF SearchInv, SearchType, Resume, Accepted
<1>2. /\ chain.cursor \in Cursors /\ offset \in Nat
      /\ chain.query = q /\ chain.due \in SUBSET RowIds /\ chain.valid \in SUBSET RowIds
      /\ chain.got \in Seq(RowIds)
      /\ chain.steady => Follows(q, chain.due, chain.valid, chain.got, offset)
  <2>1. chain.cursor \in Cursors
    BY <1>1 DEF SearchType
  <2> QED BY <1>1, <2>1 DEF SearchType, ChainInv, Cursors
<1>3. chain' = [query |-> q, cursor |-> next, due |-> chain.due, valid |-> kept,
                got |-> got, steady |-> same, ended |-> next = NoCursor]
  <2>1. chain = [query |-> chain.query, cursor |-> chain.cursor, due |-> chain.due,
                 valid |-> chain.valid, got |-> chain.got, steady |-> chain.steady,
                 ended |-> chain.ended]
    BY <1>1 DEF SearchType
  <2> HIDE DEF next, got, same, kept
  <2> QED BY <1>1, <1>2, <2>1
<1>4. UntruncatedIsWhole' /\ HostFits'
  BY <1>1, <1>2, AnswerKeeps
<1>5. PICK n : AnswerOf(q, offset, n, Matching(q), answer')
  BY <1>1, <1>2, AnswerFacts
<1>6. /\ next \in Cursors \cup {NoCursor}
      /\ next # NoCursor => next.query = q /\ next.offset = offset + n
  BY <1>1, <1>2, <1>5, CursorType
<1>7. kept \subseteq {id \in chain.valid : Valid(id)} /\ kept \in SUBSET RowIds
  BY <1>2
<1>8. got \in Seq(RowIds)
  <2>1. Got(answer') \in Seq(RowIds)
    BY <1>5, GotType
  <2> QED BY <1>2, <2>1, ConcatProperties
<1>9. same \in BOOLEAN
  BY <1>1 DEF SearchType
<1>10. ASSUME same
       PROVE  /\ Follows(q, chain.due, kept, got, offset + n)
              /\ next = NoCursor => offset + n = Len(Ordered(chain.due))
  <2>1. AnswerOf(q, offset, n, Ordered(chain.due), answer')
    BY <1>5, <1>10 DEF Matching
  <2>2. Follows(q, chain.due, chain.valid, chain.got, offset)
    BY <1>2, <1>10
  <2> HIDE DEF kept, offset
  <2> QED BY <1>2, <1>7, <2>1, <2>2, FollowOn
<1> HIDE DEF next, kept, same, got, offset
<1>11. SearchType'
  <2>1. chain' \in [query : Queries \cup {"none"}, cursor : Cursors \cup {NoCursor},
                    due : SUBSET RowIds, valid : SUBSET RowIds, got : Seq(RowIds),
                    steady : BOOLEAN, ended : BOOLEAN]
    BY <1>2, <1>3, <1>6, <1>7, <1>8, <1>9
  <2>2. stored' \in SUBSET RowIds /\ generation' \in Nat
    BY <1>1
  <2> QED BY <2>1, <2>2 DEF SearchType
<1>12. ChainInv'
  BY <1>3, <1>6, <1>10 DEF ChainInv
<1> QED BY <1>4, <1>11, <1>12 DEF SearchInv

\* Every other step clears the answer and leaves the chain, or drops it.
LEMMA OthersKeep ==
  ASSUME SearchInv, answer' = NoAnswer, stored' \in SUBSET RowIds, generation' \in Nat,
         chain' = chain \/ chain' = NoChain
  PROVE  SearchInv'
<1>1. UntruncatedIsWhole' /\ HostFits'
  BY DEF UntruncatedIsWhole, HostFits, Served
<1>2. SearchType'
  <2>1. CASE chain' = chain
    BY <2>1 DEF SearchInv, SearchType
  <2>2. CASE chain' = NoChain
    BY <2>2 DEF SearchType, NoChain
  <2> QED BY <2>1, <2>2
<1>3. ChainInv'
  <2>1. CASE chain' = chain
    BY <2>1 DEF SearchInv, ChainInv
  <2>2. CASE chain' = NoChain
    BY <2>2 DEF ChainInv, NoChain
  <2> QED BY <2>1, <2>2
<1> QED BY <1>1, <1>2, <1>3 DEF SearchInv

LEMMA NextKeeps == SearchInv /\ [Next]_vars => SearchInv'
<1> SUFFICES ASSUME SearchInv, [Next]_vars PROVE SearchInv'
  OBVIOUS
<1>1. stored \in SUBSET RowIds /\ generation \in Nat
  BY DEF SearchInv, SearchType
<1>2. ASSUME NEW q \in Queries, Search(q) PROVE SearchInv'
  BY <1>2, SearchKeeps
<1>3. ASSUME NEW q \in Queries, Resume(q) PROVE SearchInv'
  BY <1>3, ResumeKeeps
<1>4. ASSUME NEW q \in Queries, RefuseCursor(q) PROVE SearchInv'
  BY <1>1, <1>4, OthersKeep DEF RefuseCursor
<1>5. CASE Tick
  BY <1>1, <1>5, OthersKeep DEF Tick
<1>6. CASE Write
  <2>1. stored' \in SUBSET RowIds /\ generation' \in Nat
    BY <1>1, <1>6 DEF Write
  <2> QED BY <1>6, <2>1, OthersKeep DEF Write
<1>7. CASE Sweep
  <2>1. stored' \in SUBSET RowIds /\ generation' \in Nat
    BY <1>1, <1>7 DEF Sweep
  <2> QED BY <1>7, <2>1, OthersKeep DEF Sweep
<1>8. CASE Regrant
  BY <1>1, <1>8, OthersKeep DEF Regrant
<1>9. CASE UNCHANGED vars
  <2>1. /\ stored' = stored /\ clock' = clock /\ generation' = generation
        /\ grants' = grants /\ answer' = answer /\ chain' = chain
    BY <1>9 DEF vars
  <2>2. SearchType' /\ ChainInv'
    BY <2>1 DEF SearchInv, SearchType, ChainInv
  <2>3. \A q : Matching(q)' = Matching(q)
    BY <2>1 DEF Matching, Due, Searched, Authorized, Unexpired
  <2>4. \A id : Valid(id)' = Valid(id)
    BY <2>1 DEF Valid
  <2>5. UntruncatedIsWhole'
    BY <2>1, <2>3, <2>4 DEF SearchInv, UntruncatedIsWhole, Served, Everything
  <2>6. HostFits'
    BY <2>1 DEF SearchInv, HostFits, Served
  <2> QED BY <2>2, <2>5, <2>6 DEF SearchInv
<1> QED BY <1>2, <1>3, <1>4, <1>5, <1>6, <1>7, <1>8, <1>9 DEF Next

LEMMA SearchInvHolds == Spec => []SearchInv
  BY InitHolds, NextKeeps, PTL DEF Spec

\* A chain that ended and stayed steady has followed all that was due.
LEMMA ChainCovers == SearchInv => PagesCover
<1> SUFFICES ASSUME SearchInv, chain.ended, chain.steady,
                    NEW id \in chain.valid, Fits(id, FreshRoom(chain.query))
             PROVE  Times(id, chain.got) = 1
  BY DEF PagesCover
<1> DEFINE all == Ordered(chain.due)
           got == chain.got
<1>1. Follows(chain.query, chain.due, chain.valid, got, Len(all))
  BY DEF SearchInv, ChainInv
<1>2. chain.due \in SUBSET RowIds /\ id \in chain.due /\ got \in Seq(RowIds) /\ IsInjective(got)
  BY <1>1 DEF Follows
<1>3. all \in Seq(RowIds) /\ ToSet(all) = chain.due
  BY <1>2, OrderedFacts
<1> HIDE DEF all, got
<1>4. PICK i \in 1..Len(all) : id = all[i]
  BY <1>2, <1>3 DEF ToSet
<1>5. id \in ToSet(got)
  BY <1>1, <1>4 DEF Follows, all
<1>6. PICK j \in DOMAIN got : got[j] = id
  BY <1>5 DEF ToSet
<1>7. {k \in DOMAIN got : got[k] = id} = {j}
  BY <1>2, <1>6 DEF IsInjective
<1>8. Cardinality({j}) = 1
  BY FS_Singleton
<1> QED BY <1>7, <1>8 DEF Times, got

-----------------------------------------------------------------------------
(* The theorems *)

\* Every page, and every chain of pages, has its type (store.rs:1079-1237).
THEOREM SearchTyped == Spec => []SearchType
  BY SearchInvHolds, PTL DEF SearchInv

\* A chain of cursors followed to its end returns, exactly once, every row
\* that matched, stayed valid and fits a page, if no row entered or left the
\* matching set meanwhile (store.rs:1166-1236).
THEOREM PagesCoverHolds == Spec => []PagesCover
  BY SearchInvHolds, ChainCovers, PTL

\* An answer that does not say "truncated" is the whole rest of the result,
\* uncut (store.rs:1209-1235).
THEOREM UntruncatedHolds == Spec => []UntruncatedIsWhole
  BY SearchInvHolds, PTL DEF SearchInv

\* The reference the adapter builds from a page is within both of the host's
\* limits, unless a schema minimum was in the way (adapter.rs:239-268).
THEOREM HostFitsHolds == Spec => []HostFits
  BY SearchInvHolds, PTL DEF SearchInv

=============================================================================
