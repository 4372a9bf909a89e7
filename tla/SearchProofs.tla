---------------------------- MODULE SearchProofs ----------------------------
(***************************************************************************)
(* Proofs about Search, as Texts composes it, for every value of the       *)
(* constants.                                                              *)
(***************************************************************************)
EXTENDS ReadingProofs

USE SearchAssumption

-----------------------------------------------------------------------------
(* Positions.                                                              *)

\* A function that goes through some positions, each of them once.
Goes(s, I, g) ==
    /\ g \in [1 .. Cardinality(I) -> I]
    /\ \A m, n \in 1 .. Cardinality(I) : g[m] = g[n] => m = n
    /\ \A i \in I : \E n \in 1 .. Cardinality(I) : g[n] = i
    /\ \A n \in 1 .. Cardinality(I) : Picked(s, I)[n] = s[g[n]]

\* Picking goes through the positions given.
LEMMA PickedBy ==
    ASSUME NEW s, NEW I, NEW k \in Nat, I \subseteq 1 .. k
    PROVE  /\ Cardinality(I) \in Nat
           /\ Picked(s, I) = [n \in 1 .. Cardinality(I) |-> Picked(s, I)[n]]
           /\ \E g : Goes(s, I, g)
<1> DEFINE nth(n) == CHOOSE i \in I : Cardinality(I \cap 1 .. i) = n
           f == [i \in I |-> Cardinality(I \cap 1 .. i)]
<1>1. IsFiniteSet(I) /\ Cardinality(I) \in Nat
  <2>1. IsFiniteSet(1 .. k)
    BY FS_Interval
  <2> QED
    BY <2>1, FS_Subset, FS_CardinalityType
<1>2. \A i \in I : IsFiniteSet(I \cap 1 .. i) /\ Cardinality(I \cap 1 .. i) \in Nat
         /\ Cardinality(I \cap 1 .. i) <= Cardinality(I)
  <2> TAKE i \in I
  <2>1. I \cap 1 .. i \in SUBSET I
    OBVIOUS
  <2> QED
    BY <1>1, <2>1, FS_Subset, FS_CardinalityType
<1>3. \A i \in I : Cardinality(I \cap 1 .. i) \in 1 .. Cardinality(I)
  <2> TAKE i \in I
  <2>1. i \in I \cap 1 .. i
    OBVIOUS
  <2>2. Cardinality(I \cap 1 .. i) # 0
    BY <1>2, <2>1, FS_EmptySet
  <2> QED
    BY <1>1, <1>2, <2>2
<1>4. \A i, j \in I : i < j => Cardinality(I \cap 1 .. i) < Cardinality(I \cap 1 .. j)
  <2> SUFFICES ASSUME NEW i \in I, NEW j \in I, i < j
               PROVE  Cardinality(I \cap 1 .. i) < Cardinality(I \cap 1 .. j)
    OBVIOUS
  <2>1. /\ I \cap 1 .. i \subseteq I \cap 1 .. j
        /\ j \in I \cap 1 .. j /\ j \notin I \cap 1 .. i
    OBVIOUS
  <2> QED
    BY <1>2, <2>1, Nested
<1>5. \A i, j \in I : f[i] = f[j] => i = j
  <2> SUFFICES ASSUME NEW i \in I, NEW j \in I, f[i] = f[j], i # j PROVE FALSE
    OBVIOUS
  <2>1. i < j \/ j < i
    <3>1. i \in Int /\ j \in Int
      OBVIOUS
    <3> QED
      BY <3>1
  <2>2. f[i] \in Nat /\ f[j] \in Nat
    BY <1>2
  <2>3. i < j => f[i] < f[j]
    BY <1>4
  <2>4. j < i => f[j] < f[i]
    BY <1>4
  <2> HIDE DEF f
  <2> QED
    BY <2>1, <2>2, <2>3, <2>4
<1>6. f \in [I -> 1 .. Cardinality(I)]
  BY <1>3
<1>7. \A n \in 1 .. Cardinality(I) : \E i \in I : Cardinality(I \cap 1 .. i) = n
  <2>1. \A n \in 1 .. Cardinality(I) : \E i \in I : f[i] = n
    <3> HIDE DEF f
    <3> QED BY <1>1, <1>5, <1>6, Onto
  <2> QED
    BY <2>1
<1>8. \A n \in 1 .. Cardinality(I) : nth(n) \in I /\ f[nth(n)] = n
  BY <1>7
<1>9. Picked(s, I) = [n \in 1 .. Cardinality(I) |-> s[nth(n)]]
  BY DEF Picked
<1> DEFINE g == [n \in 1 .. Cardinality(I) |-> nth(n)]
<1> HIDE DEF nth, f
<1>10. g \in [1 .. Cardinality(I) -> I]
  BY <1>8
<1>11. \A m, n \in 1 .. Cardinality(I) : g[m] = g[n] => m = n
  BY <1>8
<1>12. \A i \in I : \E n \in 1 .. Cardinality(I) : g[n] = i
  <2> TAKE i \in I
  <2>1. f[i] \in 1 .. Cardinality(I)
    BY <1>6
  <2>2. g[f[i]] \in I /\ f[g[f[i]]] = f[i]
    BY <1>8, <2>1
  <2>3. g[f[i]] = i
    BY <1>5, <2>2
  <2> QED
    BY <2>1, <2>3
<1>13. /\ Picked(s, I) = [n \in 1 .. Cardinality(I) |-> Picked(s, I)[n]]
       /\ \A n \in 1 .. Cardinality(I) : Picked(s, I)[n] = s[g[n]]
  BY <1>9
<1> HIDE DEF g
<1>14. Goes(s, I, g)
  BY <1>10, <1>11, <1>12, <1>13 DEF Goes
<1> QED
  BY <1>1, <1>13, <1>14

\* Picking takes elements from the positions given.
LEMMA PickedFrom ==
    ASSUME NEW s, NEW I, NEW k \in Nat, I \subseteq 1 .. k
    PROVE  /\ Cardinality(I) \in Nat
           /\ Picked(s, I) = [n \in 1 .. Cardinality(I) |-> Picked(s, I)[n]]
           /\ \A n \in 1 .. Cardinality(I) : \E i \in I : Picked(s, I)[n] = s[i]
<1>1. Cardinality(I) \in Nat
  BY PickedBy
<1>2. Picked(s, I) = [n \in 1 .. Cardinality(I) |-> Picked(s, I)[n]]
  BY PickedBy
<1>3. PICK g : Goes(s, I, g)
  BY PickedBy
<1>4. \A n \in 1 .. Cardinality(I) : g[n] \in I /\ Picked(s, I)[n] = s[g[n]]
  BY <1>3 DEF Goes
<1> QED
  BY <1>1, <1>2, <1>4

\* What counts for a sequence here: its positions.
Listed(s) == \E k \in Nat : s = [n \in 1 .. k |-> s[n]]

LEMMA ListedSeq ==
    ASSUME NEW s, NEW S, Listed(s), \A n \in DOMAIN s : s[n] \in S
    PROVE  s \in Seq(S) /\ Len(s) \in Nat /\ DOMAIN s = 1 .. Len(s)
<1>1. PICK k \in Nat : s = [n \in 1 .. k |-> s[n]]
  BY DEF Listed
<1>2. DOMAIN s = 1 .. k
  BY <1>1
<1>3. s \in [1 .. k -> S]
  BY <1>1, <1>2
<1>4. s \in Seq(S)
  BY <1>3, SeqDef
<1> QED
  BY <1>4, LenProperties

LEMMA ThoseFrom ==
    ASSUME NEW s, NEW S, Listed(s)
    PROVE  /\ Listed(Those(s, S))
           /\ \A n \in DOMAIN Those(s, S) :
                 Those(s, S)[n] \in S /\ \E i \in DOMAIN s : Those(s, S)[n] = s[i]
<1> DEFINE I == {i \in DOMAIN s : s[i] \in S}
<1>1. PICK k \in Nat : DOMAIN s = 1 .. k
  BY DEF Listed
<1>2. I \subseteq 1 .. k
  BY <1>1
<1>3. Those(s, S) = Picked(s, I)
  BY DEF Those
<1>4. \A i \in I : i \in DOMAIN s /\ s[i] \in S
  OBVIOUS
<1> HIDE DEF I
<1>5. /\ Cardinality(I) \in Nat
      /\ Picked(s, I) = [n \in 1 .. Cardinality(I) |-> Picked(s, I)[n]]
      /\ \A n \in 1 .. Cardinality(I) : \E i \in I : Picked(s, I)[n] = s[i]
  BY ZenonT(40), <1>1, <1>2, PickedFrom
<1>6. DOMAIN Picked(s, I) = 1 .. Cardinality(I)
  BY <1>5
<1> QED
  BY <1>3, <1>4, <1>5, <1>6 DEF Listed

LEMMA SeenFrom ==
    ASSUME NEW s, Listed(s)
    PROVE  /\ Listed(Seen(s))
           /\ \A n \in DOMAIN Seen(s) : \E i \in DOMAIN s : Seen(s)[n] = s[i]
<1> DEFINE I == {i \in DOMAIN s : Rank(s, s[i]) = i}
<1>1. PICK k \in Nat : DOMAIN s = 1 .. k
  BY DEF Listed
<1>2. I \subseteq 1 .. k
  BY <1>1
<1>3. Seen(s) = Picked(s, I)
  BY DEF Seen
<1>4. \A i \in I : i \in DOMAIN s
  OBVIOUS
<1> HIDE DEF I
<1>5. /\ Cardinality(I) \in Nat
      /\ Picked(s, I) = [n \in 1 .. Cardinality(I) |-> Picked(s, I)[n]]
      /\ \A n \in 1 .. Cardinality(I) : \E i \in I : Picked(s, I)[n] = s[i]
  BY ZenonT(40), <1>1, <1>2, PickedFrom
<1>6. DOMAIN Picked(s, I) = 1 .. Cardinality(I)
  BY <1>5
<1> QED
  BY <1>3, <1>4, <1>5, <1>6 DEF Listed

LEMMA ShortestOf ==
    ASSUME NEW m \in Nat, NEW n \in Nat
    PROVE  Shortest(m, n) \in Nat /\ Shortest(m, n) <= n /\ Shortest(m, n) <= m
BY DEF Shortest

LEMMA FirstFrom ==
    ASSUME NEW s, NEW S, s \in Seq(S), NEW n \in Nat
    PROVE  First(s, n) \in Seq(S)
<1>1. Len(s) \in Nat /\ \A i \in 1 .. Len(s) : s[i] \in S
  BY LenProperties, ElementOfSeq
<1>2. Shortest(n, Len(s)) \in Nat /\ Shortest(n, Len(s)) <= Len(s)
  BY <1>1, ShortestOf
<1> DEFINE l == Shortest(n, Len(s))
<1> HIDE DEF l
<1>3. \A i \in 1 .. l : s[i] \in S
  BY <1>1, <1>2 DEF l
<1>4. SubSeq(s, 1, l) \in Seq(S)
  BY <1>2, <1>3, SubSeqProperties DEF l
<1> QED
  BY <1>4 DEF First, l

-----------------------------------------------------------------------------
(* Pages.                                                                  *)

\* The order of a page is a strict order of the positions.
LEMMA BeforeOrders ==
    ASSUME NEW items, NEW sort \in Sorts, NEW D, D \subseteq Nat,
           \A i \in D : items[i].date \in Int
    PROVE  /\ \A i \in D : ~Before(items, sort, i, i)
           /\ \A i, j \in D : i # j =>
                 Before(items, sort, i, j) \/ Before(items, sort, j, i)
           /\ \A i, j, k \in D :
                 Before(items, sort, i, j) /\ Before(items, sort, j, k)
                    => Before(items, sort, i, k)
<1>1. CASE sort = "relevance"
  <2>1. \A i, j \in D : Before(items, sort, i, j) <=> i < j
    BY <1>1 DEF Before
  <2> QED
    BY <2>1
<1>2. CASE sort = "date_desc"
  <2>1. \A i, j \in D : Before(items, sort, i, j) <=>
            \/ items[i].date > items[j].date
            \/ items[i].date = items[j].date /\ i < j
    BY <1>2 DEF Before
  <2>2. ASSUME NEW i \in D
        PROVE  ~Before(items, sort, i, i)
    <3>1. i \in Nat /\ items[i].date \in Int
      OBVIOUS
    <3> QED
      BY <2>1, <3>1
  <2>3. ASSUME NEW i \in D, NEW j \in D, i # j
        PROVE  Before(items, sort, i, j) \/ Before(items, sort, j, i)
    <3>1. i \in Nat /\ j \in Nat /\ items[i].date \in Int /\ items[j].date \in Int
      OBVIOUS
    <3> QED
      BY <2>1, <2>3, <3>1
  <2>4. ASSUME NEW i \in D, NEW j \in D, NEW k \in D,
               Before(items, sort, i, j), Before(items, sort, j, k)
        PROVE  Before(items, sort, i, k)
    <3>1. i \in Nat /\ j \in Nat /\ k \in Nat
      OBVIOUS
    <3>2. items[i].date \in Int /\ items[j].date \in Int /\ items[k].date \in Int
      OBVIOUS
    <3>3. /\ \/ items[i].date > items[j].date
             \/ items[i].date = items[j].date /\ i < j
          /\ \/ items[j].date > items[k].date
             \/ items[j].date = items[k].date /\ j < k
      BY <2>1, <2>4
    <3>4. \/ items[i].date > items[k].date
          \/ items[i].date = items[k].date /\ i < k
      BY <3>1, <3>2, <3>3
    <3> QED
      BY <2>1, <3>4
  <2> QED
    BY <2>2, <2>3, <2>4
<1>3. CASE sort = "date_asc"
  <2>1. \A i, j \in D : Before(items, sort, i, j) <=>
            \/ items[i].date < items[j].date
            \/ items[i].date = items[j].date /\ i < j
    BY <1>3 DEF Before
  <2>2. ASSUME NEW i \in D
        PROVE  ~Before(items, sort, i, i)
    <3>1. i \in Nat /\ items[i].date \in Int
      OBVIOUS
    <3> QED
      BY <2>1, <3>1
  <2>3. ASSUME NEW i \in D, NEW j \in D, i # j
        PROVE  Before(items, sort, i, j) \/ Before(items, sort, j, i)
    <3>1. i \in Nat /\ j \in Nat /\ items[i].date \in Int /\ items[j].date \in Int
      OBVIOUS
    <3> QED
      BY <2>1, <2>3, <3>1
  <2>4. ASSUME NEW i \in D, NEW j \in D, NEW k \in D,
               Before(items, sort, i, j), Before(items, sort, j, k)
        PROVE  Before(items, sort, i, k)
    <3>1. i \in Nat /\ j \in Nat /\ k \in Nat
      OBVIOUS
    <3>2. items[i].date \in Int /\ items[j].date \in Int /\ items[k].date \in Int
      OBVIOUS
    <3>3. /\ \/ items[i].date < items[j].date
             \/ items[i].date = items[j].date /\ i < j
          /\ \/ items[j].date < items[k].date
             \/ items[j].date = items[k].date /\ j < k
      BY <2>1, <2>4
    <3>4. \/ items[i].date < items[k].date
          \/ items[i].date = items[k].date /\ i < k
      BY <3>1, <3>2, <3>3
    <3> QED
      BY <2>1, <3>4
  <2> QED
    BY <2>2, <2>3, <2>4
<1> QED
  BY <1>1, <1>2, <1>3 DEF Sorts

\* So each position of the page is some position of the result.
LEMMA Positions ==
    ASSUME NEW items, NEW sort \in Sorts, NEW k \in Nat,
           DOMAIN items = 1 .. k, \A i \in 1 .. k : items[i].date \in Int
    PROVE  \A n \in 1 .. k : \E i \in 1 .. k : Position(items, sort, i) = n
<1> DEFINE D == 1 .. k
           Below(i) == {j \in D : Before(items, sort, j, i)}
           f == [i \in D |-> 1 + Cardinality(Below(i))]
<1>1. IsFiniteSet(D) /\ Cardinality(D) = k
  <2>1. 1 \in Int /\ k \in Int /\ (IF 1 > k THEN 0 ELSE k - 1 + 1) = k
    OBVIOUS
  <2> QED
    BY <2>1, FS_Interval
<1>2. /\ \A i \in D : ~Before(items, sort, i, i)
      /\ \A i, j \in D : i # j =>
            Before(items, sort, i, j) \/ Before(items, sort, j, i)
      /\ \A i, j, l \in D :
            Before(items, sort, i, j) /\ Before(items, sort, j, l)
               => Before(items, sort, i, l)
  <2>1. D \subseteq Nat
    OBVIOUS
  <2> QED
    BY <2>1, BeforeOrders
<1>3. \A i \in D : Cardinality(Below(i)) \in Nat /\ Cardinality(Below(i)) < k
  <2> TAKE i \in D
  <2>1. Below(i) \subseteq D /\ i \notin Below(i)
    BY <1>2
  <2> HIDE DEF Below, D
  <2>2. IsFiniteSet(Below(i)) /\ Cardinality(Below(i)) < Cardinality(D)
    BY <1>1, <2>1, Nested
  <2> QED
    BY <1>1, <2>2, FS_CardinalityType
<1>4. \A i, j \in D : Before(items, sort, i, j)
                        => Cardinality(Below(i)) < Cardinality(Below(j))
  <2> SUFFICES ASSUME NEW i \in D, NEW j \in D, Before(items, sort, i, j)
               PROVE  Cardinality(Below(i)) < Cardinality(Below(j))
    OBVIOUS
  <2>1. Below(i) \subseteq Below(j) /\ i \in Below(j) /\ i \notin Below(i)
    BY <1>2
  <2>2. Below(j) \in SUBSET D
    OBVIOUS
  <2> HIDE DEF Below, D
  <2>3. IsFiniteSet(Below(j))
    BY <1>1, <2>2, FS_Subset
  <2> QED
    BY <2>1, <2>3, Nested
<1>5. f \in [D -> 1 .. Cardinality(D)]
  <2> HIDE DEF Below
  <2> QED BY <1>1, <1>3
<1>6. \A i, j \in D : f[i] = f[j] => i = j
  <2> SUFFICES ASSUME NEW i \in D, NEW j \in D, f[i] = f[j], i # j PROVE FALSE
    OBVIOUS
  <2> HIDE DEF Below, D
  <2>1. Cardinality(Below(i)) = Cardinality(Below(j))
    BY <1>3
  <2> QED
    BY <1>2, <1>3, <1>4, <2>1
<1>7. \A n \in 1 .. k : \E i \in D : f[i] = n
  <2> HIDE DEF f, D
  <2> QED BY <1>1, <1>5, <1>6, Onto
<1>8. \A i \in D : f[i] = Position(items, sort, i)
  BY DEF Position
<1> HIDE DEF f
<1> QED
  BY <1>7, <1>8

LEMMA PageFrom ==
    ASSUME NEW S, \A x \in S : x.date \in Int, NEW items \in Seq(S),
           NEW sort \in Sorts, NEW offset \in Nat
    PROVE  Page(items, sort, offset) \in Seq(S)
<1> DEFINE k == Len(items)
           ordered == [n \in DOMAIN items |->
              items[CHOOSE i \in DOMAIN items : Position(items, sort, i) = n]]
           m == Shortest(offset + PageSize, k)
<1>1. k \in Nat /\ DOMAIN items = 1 .. k /\ \A i \in 1 .. k : items[i] \in S
  BY LenProperties, ElementOfSeq
<1>2. \A n \in 1 .. k : \E i \in 1 .. k : Position(items, sort, i) = n
  <2>1. \A i \in 1 .. k : items[i].date \in Int
    BY <1>1
  <2> HIDE DEF k
  <2> QED
    BY <1>1, <2>1, Positions
<1>4. \A n \in 1 .. k : ordered[n] \in S
  BY <1>1, <1>2
<1>5. offset + PageSize \in Nat /\ offset + 1 \in Int /\ offset + 1 >= 1
  BY PageSize \in Nat
<1>6. m \in Int /\ m <= k
  <2>1. m \in Nat /\ m <= k
    BY <1>1, <1>5, ShortestOf
  <2> QED
    BY <2>1
<1>7. Page(items, sort, offset) = SubSeq(ordered, offset + 1, m)
  BY DEF Page
<1> HIDE DEF ordered, m, k
<1>8. \A i \in (offset + 1) .. m : ordered[i] \in S
  BY <1>1, <1>4, <1>5, <1>6
<1> QED
  BY <1>5, <1>6, <1>7, <1>8, SubSeqProperties

-----------------------------------------------------------------------------
(* What a search puts together.                                            *)

LEMMA FunctionListed ==
    ASSUME NEW k \in Nat, NEW S, NEW f \in [1 .. k -> S]
    PROVE  Listed(f)
BY DEF Listed

LEMMA SeqListed ==
    ASSUME NEW S, NEW s \in Seq(S)
    PROVE  Listed(s) /\ \A n \in DOMAIN s : s[n] \in S
<1>1. Len(s) \in Nat /\ s \in [1 .. Len(s) -> S]
  BY LenProperties
<1> QED
  BY <1>1, FunctionListed

\* Reranking gives back candidates, whatever the model sends.
LEMMA RerankedFrom ==
    ASSUME NEW candidates, NEW ranking, NEW S, Listed(candidates), Listed(ranking),
           \A n \in DOMAIN candidates : candidates[n] \in S
    PROVE  /\ Listed(Reranked(candidates, ranking))
           /\ \A n \in DOMAIN Reranked(candidates, ranking) :
                 Reranked(candidates, ranking)[n] \in S
<1> DEFINE usable == Those(ranking, DOMAIN candidates)
           kept == Seen(usable)
           order == [n \in DOMAIN kept |-> candidates[kept[n]]]
<1>1. Listed(usable) /\ \A n \in DOMAIN usable : usable[n] \in DOMAIN candidates
  BY ThoseFrom
<1> HIDE DEF usable
<1>2. Listed(kept) /\ \A n \in DOMAIN kept : kept[n] \in DOMAIN candidates
  BY <1>1, SeenFrom
<1> HIDE DEF kept
<1>3. Listed(order) /\ \A n \in DOMAIN order : order[n] \in S
  BY <1>2 DEF Listed
<1>4. Reranked(candidates, ranking) = IF usable = <<>> THEN candidates ELSE order
  BY DEF Reranked, usable, kept
<1> HIDE DEF order
<1> QED
  BY <1>3, <1>4

LEMMA FusedListed ==
    ASSUME NEW S, NEW bm25 \in Seq(S), NEW dense, Listed(dense), NEW m \in Nat
    PROVE  Listed(First(Fused(bm25, dense), m))
<1> DEFINE D == {dense[i] : i \in DOMAIN dense}
           met == Seen(bm25 \o dense)
           f == Fused(bm25, dense)
           R == {f[i] : i \in DOMAIN f}
<1>1. dense \in Seq(D)
  BY ListedSeq
<1>2. bm25 \in Seq(S \cup D) /\ dense \in Seq(S \cup D)
  BY <1>1, SeqMonotonic
<1>3. bm25 \o dense \in Seq(S \cup D)
  BY <1>2, ConcatProperties
<1>4. Listed(met)
  BY <1>3, SeqListed, SeenFrom
<1>5. PICK k \in Nat : DOMAIN met = 1 .. k
  BY <1>4 DEF Listed
<1>6. f = [n \in DOMAIN met |-> f[n]]
  BY DEF Fused
<1> HIDE DEF met, f
<1>7. Listed(f)
  BY <1>5, <1>6 DEF Listed
<1>8. f \in Seq(R)
  BY <1>7, ListedSeq
<1> HIDE DEF R
<1>9. First(f, m) \in Seq(R)
  BY <1>8, FirstFrom
<1> QED
  BY <1>9, SeqListed DEF f

-----------------------------------------------------------------------------
(* The invariant.                                                          *)

Mine(user) == {e \in Entry : Owner[e] = user}
Item(user) == [entry : Mine(user), date : Int]

\* What a search knows, it knows of entries of the user who asks.
Running ==
    /\ run = [phase |-> run.phase, key |-> run.key, began |-> run.began,
              bm25 |-> run.bm25, known |-> run.known, dense |-> run.dense,
              fused |-> run.fused]
    /\ run.phase \in {"dense", "resolve", "rerank"}
    /\ run.key \in Keys
    /\ run.bm25 \in Seq(Entry) /\ Listed(run.fused)
    /\ DOMAIN run.known \subseteq Mine(run.key.user)
    /\ run.known \in [DOMAIN run.known -> Int]

OwnInv ==
    /\ rows \in [Entry -> Int]
    /\ run = NoRun \/ Running
    /\ \A k \in Keys : cached[k].items \in Seq(Item(k.user))
    /\ cached = [k \in Keys |-> cached[k]]
    /\ answer.items \in Seq(Item(answer.key.user))

LEMMA OwnImplies == OwnInv => OwnEntriesOnly
<1>1. \A u : \A s \in Seq(Item(u)) : \A i \in DOMAIN s : Owner[s[i].entry] = u
  <2> SUFFICES ASSUME NEW u, NEW s \in Seq(Item(u)), NEW i \in DOMAIN s
               PROVE  Owner[s[i].entry] = u
    OBVIOUS
  <2>1. s[i] \in Item(u)
    BY SeqListed
  <2> QED
    BY <2>1 DEF Item, Mine
<1> QED
  BY <1>1 DEF OwnInv, OwnEntriesOnly

LEMMA PageAnswered ==
    ASSUME NEW key \in Keys, NEW items \in Seq(Item(key.user)), Answered(key, items)
    PROVE  answer'.items \in Seq(Item(answer'.key.user))
<1>1. PICK sort \in Sorts, offset \in {0, PageSize} :
          answer' = [key |-> key, items |-> Page(items, sort, offset)]
  BY DEF Answered
<1>2. offset \in Nat
  OBVIOUS
<1>3. \A x \in Item(key.user) : x.date \in Int
  BY DEF Item
<1>4. Page(items, sort, offset) \in Seq(Item(key.user))
  BY <1>2, <1>3, PageFrom
<1> QED
  BY <1>1, <1>4

-----------------------------------------------------------------------------
(* Every step keeps it.                                                    *)

LEMMA NothingEmpty ==
    /\ \A u : Nothing.items \in Seq(Item(u))
    /\ \A u : <<>> \in Seq(Item(u))
BY EmptySeq DEF Nothing

LEMMA CacheHitKeeps ==
    ASSUME OwnInv, NEW key \in Keys, CacheHit(key)
    PROVE  OwnInv'
<1>1. /\ Answered(key, cached[key].items)
      /\ UNCHANGED <<rows, cached, run>>
  BY DEF CacheHit
<1>2. cached[key].items \in Seq(Item(key.user))
  BY DEF OwnInv
<1>3. answer'.items \in Seq(Item(answer'.key.user))
  BY <1>1, <1>2, PageAnswered
<1> QED
  BY <1>1, <1>3 DEF OwnInv, Running

LEMMA VisibleMine ==
    ASSUME OwnInv, NEW key, NEW ranking \in Ranked(Visible(key)), NEW n \in Nat
    PROVE  /\ First(ranking, n) \in Seq(Entry)
           /\ Range(First(ranking, n)) \subseteq Mine(key.user)
           /\ Range(First(ranking, n)) \subseteq Visible(key)
<1>1. Visible(key) \subseteq Mine(key.user)
  BY DEF Visible, Mine
<1>2. IsFiniteSet(Visible(key))
  <2>1. Visible(key) \in SUBSET Entry
    BY DEF Visible
  <2> QED
    BY <2>1, FS_Subset
<1>3. Cardinality(Visible(key)) \in Nat
  BY <1>2, FS_CardinalityType
<1>4. PICK k \in 0 .. Cardinality(Visible(key)) :
          ranking \in Injection(1 .. k, Visible(key))
  BY DEF Ranked
<1>5. ranking \in [1 .. k -> Visible(key)] /\ k \in Nat
  BY <1>3, <1>4 DEF Injection
<1>6. ranking \in Seq(Visible(key))
  BY <1>5, SeqDef
<1>7. First(ranking, n) \in Seq(Visible(key))
  BY <1>6, FirstFrom
<1>8. \A i \in DOMAIN First(ranking, n) : First(ranking, n)[i] \in Visible(key)
  BY <1>7, SeqListed
<1>9. Range(First(ranking, n)) \subseteq Visible(key)
  BY <1>8 DEF Range
<1>10. Visible(key) \subseteq Entry
  BY DEF Visible
<1> QED
  BY <1>1, <1>7, <1>9, <1>10, SeqMonotonic

LEMMA CacheMissKeeps ==
    ASSUME OwnInv, NEW key \in Keys, CacheMiss(key)
    PROVE  OwnInv'
<1>1. PICK ranking \in Ranked(Visible(key)) :
          run' = [phase |-> "dense", key |-> key, began |-> clock,
                  bm25 |-> First(ranking, Bm25Candidates),
                  known |-> [e \in Range(First(ranking, Bm25Candidates)) |-> rows[e]],
                  dense |-> <<>>, fused |-> <<>>]
  BY DEF CacheMiss
<1> DEFINE found == First(ranking, Bm25Candidates)
<1>2. Bm25Candidates \in Nat
  OBVIOUS
<1>3. found \in Seq(Entry) /\ Range(found) \subseteq Mine(key.user)
  BY <1>2, VisibleMine
<1> HIDE DEF found
<1>4. /\ run' = [phase |-> "dense", key |-> key, began |-> clock, bm25 |-> found,
                 known |-> [e \in Range(found) |-> rows[e]],
                 dense |-> <<>>, fused |-> <<>>]
  BY <1>1 DEF found
<1>5. Listed(<<>>)
  BY DEF Listed
<1>6. [e \in Range(found) |-> rows[e]] \in [Range(found) -> Int]
  BY <1>3 DEF OwnInv, Mine
<1>7. Running'
  BY <1>3, <1>4, <1>5, <1>6 DEF Running
<1>8. /\ cached' = [cached EXCEPT ![key] = Nothing]
      /\ UNCHANGED <<rows, answer>>
  BY DEF CacheMiss
<1>9. /\ cached' = [k \in Keys |-> cached'[k]]
      /\ \A k \in Keys : cached'[k].items \in Seq(Item(k.user))
  BY <1>8, NothingEmpty DEF OwnInv
<1> QED
  BY <1>7, <1>8, <1>9 DEF OwnInv

LEMMA DenseSearchKeeps ==
    ASSUME OwnInv, DenseSearch
    PROVE  OwnInv'
<1> DEFINE mine == {h \in Hits : vectors[h[1]].owner = run.key.user}
           n == Shortest(DenseCandidates, Cardinality(mine))
           late == {h \in mine : vectors[h[1]].date >= run.key.from}
<1>1. PICK nearest \in Injection(1 .. n, mine) :
          LET inRange == Those(nearest, late)
              dense == Seen([i \in DOMAIN inRange |-> inRange[i][1]])
          IN run' = [run EXCEPT !.phase = "resolve", !.dense = dense,
                        !.fused = First(Fused(run.bm25, dense), FusionTopM)]
  BY DEF DenseSearch
<1>2. Cardinality(mine) \in Nat
  <2>1. mine \in SUBSET Hits
    OBVIOUS
  <2> QED
    BY <2>1, FS_Subset, FS_CardinalityType
<1>3. n \in Nat
  <2>1. DenseCandidates \in Nat
    OBVIOUS
  <2> QED
    BY <1>2, <2>1, ShortestOf
<1>4. Listed(nearest)
  BY <1>3, FunctionListed DEF Injection
<1> DEFINE inRange == Those(nearest, late)
           entries == [i \in DOMAIN inRange |-> inRange[i][1]]
           dense == Seen(entries)
           fused == First(Fused(run.bm25, dense), FusionTopM)
<1>5. run' = [run EXCEPT !.phase = "resolve", !.dense = dense, !.fused = fused]
  BY <1>1
<1> HIDE DEF mine, n, late
<1>6. Listed(inRange)
  BY <1>4, ThoseFrom
<1> HIDE DEF inRange
<1>7. Listed(entries)
  BY <1>6 DEF Listed
<1> HIDE DEF entries
<1>8. Listed(dense)
  BY <1>7, SeenFrom
<1>9. run.phase = "dense" /\ UNCHANGED <<rows, cached, answer>>
  BY DEF DenseSearch
<1>10. Running
  BY <1>9 DEF OwnInv, NoRun
<1> HIDE DEF dense
<1>11. Listed(fused)
  <2>1. FusionTopM \in Nat /\ run.bm25 \in Seq(Entry)
    BY <1>10 DEF Running
  <2> QED
    BY <1>8, <2>1, FusedListed
<1> HIDE DEF fused
<1>12. Running'
  BY <1>5, <1>10, <1>11 DEF Running
<1> QED
  BY <1>9, <1>12 DEF OwnInv

\* Whatever owner the vectors of an entry carry, the row has the user's own.
LEMMA ResolveKeeps ==
    ASSUME OwnInv, Resolve
    PROVE  OwnInv'
<1> DEFINE old == DOMAIN run.known
           new == (Range(run.fused) \ old) \cap Resolvable(run.key.user)
           known == [e \in old \cup new |->
                        IF e \in old THEN run.known[e] ELSE rows[e]]
<1>1. /\ run.phase = "resolve" /\ UNCHANGED <<rows, cached, answer>>
      /\ run' = [run EXCEPT !.phase = "rerank", !.known = known]
  BY DEF Resolve
<1>2. Running
  BY <1>1 DEF OwnInv, NoRun
<1>3. new \subseteq Mine(run.key.user)
  BY DEF Resolvable, Mine
<1>4. old \subseteq Mine(run.key.user) /\ run.known \in [old -> Int]
  BY <1>2 DEF Running
<1> HIDE DEF old, new
<1>5. known \in [old \cup new -> Int] /\ old \cup new \subseteq Mine(run.key.user)
  BY <1>3, <1>4 DEF OwnInv, Mine
<1> HIDE DEF known
<1>6. Running'
  BY <1>1, <1>2, <1>5 DEF Running
<1> QED
  BY <1>1, <1>6 DEF OwnInv

LEMMA RerankKeeps ==
    ASSUME OwnInv, Rerank
    PROVE  OwnInv'
<1> DEFINE candidates == Those(run.fused, DOMAIN run.known)
<1>1. PICK ranking \in Rankings(Len(candidates)) :
          LET order == Reranked(candidates, ranking)
              items == [i \in DOMAIN order |->
                  [entry |-> order[i], date |-> run.known[order[i]]]]
          IN Cache(run.key, items) /\ Answered(run.key, items)
  BY DEF Rerank
<1>2. run.phase = "rerank" /\ run' = NoRun /\ UNCHANGED rows
  BY DEF Rerank
<1>3. Running
  BY <1>2 DEF OwnInv, NoRun
<1>4. Listed(candidates) /\ \A i \in DOMAIN candidates : candidates[i] \in DOMAIN run.known
  BY <1>3, ThoseFrom DEF Running
<1>5. Listed(ranking)
  <2>1. PICK m \in 0 .. RankLength :
            ranking \in [1 .. m -> 1 .. Len(candidates) + 1]
    BY DEF Rankings
  <2>2. RankLength \in Nat
    OBVIOUS
  <2>3. m \in Nat
    BY <2>2
  <2> QED
    BY <2>1, <2>3, FunctionListed
<1> HIDE DEF candidates
<1> DEFINE order == Reranked(candidates, ranking)
           items == [i \in DOMAIN order |->
                        [entry |-> order[i], date |-> run.known[order[i]]]]
<1>6. Cache(run.key, items) /\ Answered(run.key, items)
  BY <1>1 DEF candidates
<1>7. Listed(order) /\ \A i \in DOMAIN order : order[i] \in DOMAIN run.known
  BY <1>4, <1>5, RerankedFrom
<1> HIDE DEF order
<1>8. Listed(items)
  BY <1>7 DEF Listed
<1>9. \A i \in DOMAIN items : items[i] \in Item(run.key.user)
  BY <1>3, <1>7 DEF Running, Item
<1> HIDE DEF items
<1>10. run.key \in Keys /\ items \in Seq(Item(run.key.user))
  BY <1>3, <1>8, <1>9, ListedSeq DEF Running
<1>11. answer'.items \in Seq(Item(answer'.key.user))
  BY <1>6, <1>10, PageAnswered
<1>12. /\ cached' = [k \in Keys |-> cached'[k]]
       /\ \A k \in Keys : cached'[k].items \in Seq(Item(k.user))
  BY <1>6, <1>10, NothingEmpty DEF Cache, OwnInv
<1> QED
  BY <1>2, <1>11, <1>12 DEF OwnInv

\* Everything else leaves answers and results alone.
LEMMA OthersKeep ==
    ASSUME OwnInv, rows' \in [Entry -> Int], run' \in {run, NoRun},
           UNCHANGED <<cached, answer>>
    PROVE  OwnInv'
BY DEF OwnInv, Running

LEMMA WorldKeeps ==
    ASSUME OwnInv, WorldStep
    PROVE  OwnInv'
<1>1. run' = run /\ UNCHANGED <<cached, answer>>
  BY DEF WorldStep, EntryDeleted, DateChanged, VectorsDropped, VectorsAdded, Tick
<1>2. rows' \in [Entry -> Int]
  <2>1. Gone \in Int /\ Dates \subseteq Int
    BY DEF Gone, Dates
  <2>2. \/ UNCHANGED rows
        \/ \E e \in Entry, d \in Int : rows' = [rows EXCEPT ![e] = d]
    BY <2>1 DEF WorldStep, EntryDeleted, DateChanged, VectorsDropped,
                VectorsAdded, Tick
  <2> QED
    BY <2>2 DEF OwnInv
<1> QED
  BY <1>1, <1>2, OthersKeep

LEMMA LookKeeps ==
    ASSUME OwnInv, SearchStep
    PROVE  OwnInv'
<1>1. CASE SearchRaises
  <2>1. run' = NoRun /\ UNCHANGED <<rows, cached, answer>>
    BY <1>1 DEF SearchRaises
  <2>2. rows' \in [Entry -> Int]
    BY <2>1 DEF OwnInv
  <2> QED
    BY <2>1, <2>2, OthersKeep
<1> QED
  BY <1>1, CacheHitKeeps, CacheMissKeeps, DenseSearchKeeps, ResolveKeeps,
     RerankKeeps DEF SearchStep

LEMMA OwnNext == OwnInv /\ [Next]_vars => OwnInv'
<1> SUFFICES ASSUME OwnInv, [Next]_vars PROVE OwnInv'
  OBVIOUS
<1>1. CASE Read
  <2>1. /\ rows' = rows \/ rows' = [rows EXCEPT ![New] = 1]
        /\ UNCHANGED <<run, cached, answer>>
    BY <1>1 DEF Read
  <2>2. rows' \in [Entry -> Int]
    BY <2>1 DEF OwnInv
  <2> QED
    BY <2>1, <2>2, OthersKeep
<1>2. CASE Embed \/ UNCHANGED vars
  <2>1. UNCHANGED <<rows, run, cached, answer>>
    BY <1>2 DEF Embed, vars, searchVars
  <2>2. rows' \in [Entry -> Int]
    BY <2>1 DEF OwnInv
  <2> QED
    BY <2>1, <2>2, OthersKeep
<1>3. CASE Look
  BY <1>3, LookKeeps DEF Look
<1>4. CASE Change
  BY <1>4, WorldKeeps DEF Change
<1> QED
  BY <1>1, <1>2, <1>3, <1>4 DEF Next

LEMMA OwnInit == Init => OwnInv
<1> SUFFICES ASSUME SearchInit PROVE OwnInv
  BY DEF Init
<1>1. rows \in [Entry -> Int]
  BY DEF SearchInit, Gone
<1>2. \A k \in Keys : cached[k] = Nothing
  BY DEF SearchInit
<1>3. cached = [k \in Keys |-> cached[k]]
  BY DEF SearchInit
<1>4. answer.items = <<>> /\ run = NoRun
  BY DEF SearchInit, NoAnswer
<1> QED
  BY <1>1, <1>2, <1>3, <1>4, NothingEmpty DEF OwnInv

\* No page, and nothing in the cache of results, shows another user's entry,
\* whatever owner its vectors carry, whatever the index, the vectors and the model
\* rank first, and whatever the worker, edits and deletes change in between: the
\* keyword search asks for the user's rows, and what only the vectors name is
\* looked up again (services/hybrid.py).
THEOREM OwnEntries == Spec => []OwnEntriesOnly
<1>1. OwnInv => OwnEntriesOnly
  BY OwnImplies
<1> QED
  BY <1>1, OwnInit, OwnNext, PTL DEF Spec


-----------------------------------------------------------------------------
(* Deleted entries.                                                        *)

\* An entry that is not deleted, or was deleted no earlier than a time.
There(e, began) == since.deleted[e] # -1 => began <= since.deleted[e]

Timed ==
    /\ clock \in Nat
    /\ since = [deleted |-> since.deleted, computed |-> since.computed]
    /\ since.deleted \in [Entry -> Int]
    /\ since.computed \in [Keys -> [began : Int, ended : Int]]
    /\ \A k \in Keys : since.computed[k].began <= clock

\* No row comes back: an upload is stored once, under a new number.
OnceDeleted ==
    /\ \A e \in Entry : rows[e] # Gone => since.deleted[e] = -1
    /\ entry.state = "reading" => rows[New] = Gone /\ since.deleted[New] = -1

\* What a search knows was there when it began.
KnownThere ==
    run # NoRun =>
        /\ run.began \in Int /\ run.began <= clock
        /\ \A e \in DOMAIN run.known : There(e, run.began)

\* A result is as old as it says, and what it holds was there when it began.
CachedThere ==
    \A k \in Keys :
        /\ cached[k] # Nothing => cached[k].at = since.computed[k].ended
        /\ \A i \in DOMAIN cached[k].items :
              There(cached[k].items[i].entry, since.computed[k].began)

StaleInv == Timed /\ OnceDeleted /\ KnownThere /\ CachedThere

LEMMA StaleInit == Init => StaleInv
<1> SUFFICES ASSUME Init PROVE StaleInv
  OBVIOUS
<1>1. PICK l \in Loads : load = l.search
  BY DEF Init
<1>2. SearchInit /\ entry = NoEntry
  BY DEF Init, ReadingInit
<1>3. /\ since = [deleted |-> [e \in Entry |-> -1],
                  computed |-> [k \in Keys |-> [began |-> 0, ended |-> 0]]]
      /\ rows = [e \in Entry |-> IF e \in load.entries THEN 1 ELSE Gone]
      /\ clock = 0 /\ run = NoRun /\ cached = [k \in Keys |-> Nothing]
  BY <1>2 DEF SearchInit
<1>4. Timed
  BY <1>3 DEF Timed
<1>5. OnceDeleted
  <2>1. New \in Entry /\ New \notin load.entries
    BY <1>1, TextsAssumption
  <2> QED
    BY <1>3, <2>1 DEF OnceDeleted
<1>6. KnownThere
  BY <1>3 DEF KnownThere
<1>7. CachedThere
  BY <1>3 DEF CachedThere, Nothing
<1> QED
  BY <1>4, <1>5, <1>6, <1>7 DEF StaleInv

\* A page of a result that was there when it was computed.
Sound(began) == {x \in [entry : Entry, date : Int] : There(x.entry, began)}

LEMMA SoundResult ==
    ASSUME OwnInv, StaleInv, NEW key \in Keys
    PROVE  cached[key].items \in Seq(Sound(since.computed[key].began))
<1> DEFINE items == cached[key].items
<1>1. items \in Seq(Item(key.user))
  BY DEF OwnInv
<1>2. Listed(items) /\ \A n \in DOMAIN items : items[n] \in Item(key.user)
  BY <1>1, SeqListed
<1>3. \A n \in DOMAIN items : There(items[n].entry, since.computed[key].began)
  BY DEF StaleInv, CachedThere
<1>4. \A n \in DOMAIN items : items[n] \in Sound(since.computed[key].began)
  BY <1>2, <1>3 DEF Sound, Item, Mine
<1> HIDE DEF items
<1>5. items \in Seq(Sound(since.computed[key].began))
  BY <1>2, <1>4, ListedSeq
<1> QED
  BY <1>5 DEF items

LEMMA SoundPage ==
    ASSUME NEW key, NEW began, NEW items \in Seq(Sound(began)), Answered(key, items)
    PROVE  /\ answer'.key = key
           /\ \A i \in DOMAIN answer'.items : There(answer'.items[i].entry, began)
<1>1. PICK sort \in Sorts, offset \in {0, PageSize} :
          answer' = [key |-> key, items |-> Page(items, sort, offset)]
  BY DEF Answered
<1>2. offset \in Nat
  OBVIOUS
<1>3. \A x \in Sound(began) : x.date \in Int
  BY DEF Sound
<1>4. Page(items, sort, offset) \in Seq(Sound(began))
  BY <1>2, <1>3, PageFrom
<1>5. \A i \in DOMAIN Page(items, sort, offset) :
          Page(items, sort, offset)[i] \in Sound(began)
  BY <1>4, SeqListed
<1> QED
  BY <1>1, <1>5 DEF Sound

\* What the reranking puts together was there when the search began.
LEMMA RerankSound ==
    ASSUME OwnInv, StaleInv, Rerank
    PROVE  /\ Running /\ run.key \in Keys
           /\ \E items \in Seq(Sound(run.began)) :
                 Cache(run.key, items) /\ Answered(run.key, items)
<1> DEFINE candidates == Those(run.fused, DOMAIN run.known)
<1>1. PICK ranking \in Rankings(Len(candidates)) :
          LET order == Reranked(candidates, ranking)
              items == [i \in DOMAIN order |->
                  [entry |-> order[i], date |-> run.known[order[i]]]]
          IN Cache(run.key, items) /\ Answered(run.key, items)
  BY DEF Rerank
<1>2. run.phase = "rerank"
  BY DEF Rerank
<1>3. Running /\ run # NoRun
  BY <1>2 DEF OwnInv, NoRun
<1>4. Listed(candidates) /\ \A i \in DOMAIN candidates : candidates[i] \in DOMAIN run.known
  BY <1>3, ThoseFrom DEF Running
<1>5. Listed(ranking)
  <2>1. PICK m \in 0 .. RankLength :
            ranking \in [1 .. m -> 1 .. Len(candidates) + 1]
    BY DEF Rankings
  <2>2. RankLength \in Nat
    OBVIOUS
  <2>3. m \in Nat
    BY <2>2
  <2> QED
    BY <2>1, <2>3, FunctionListed
<1> HIDE DEF candidates
<1> DEFINE order == Reranked(candidates, ranking)
           items == [i \in DOMAIN order |->
                        [entry |-> order[i], date |-> run.known[order[i]]]]
<1>6. Cache(run.key, items) /\ Answered(run.key, items)
  BY <1>1 DEF candidates
<1>7. Listed(order) /\ \A i \in DOMAIN order : order[i] \in DOMAIN run.known
  BY <1>4, <1>5, RerankedFrom
<1> HIDE DEF order
<1>8. Listed(items)
  BY <1>7 DEF Listed
<1>9. \A e \in DOMAIN run.known :
          e \in Entry /\ run.known[e] \in Int /\ There(e, run.began)
  BY <1>3 DEF Running, Mine, StaleInv, KnownThere
<1>10. \A i \in DOMAIN items : items[i] \in Sound(run.began)
  BY <1>7, <1>9 DEF Sound
<1> HIDE DEF items
<1>11. items \in Seq(Sound(run.began))
  BY <1>8, <1>10, ListedSeq
<1> QED
  BY <1>3, <1>6, <1>11 DEF Running

-----------------------------------------------------------------------------
(* Every step keeps that, too.                                             *)

LEMMA LookedUp ==
    ASSUME OwnInv, StaleInv, SearchStep, UNCHANGED entry
    PROVE  StaleInv'
<1>0. /\ UNCHANGED <<rows, clock>>
      /\ clock \in Nat
  BY DEF SearchStep, CacheHit, CacheMiss, DenseSearch, Resolve, Rerank,
         SearchRaises, StaleInv, Timed
<1>1. ASSUME NEW key \in Keys, CacheHit(key) PROVE StaleInv'
  <2>1. UNCHANGED <<rows, cached, run, clock, since, entry>>
    BY <1>1 DEF CacheHit
  <2> QED
    BY <2>1 DEF StaleInv, Timed, OnceDeleted, KnownThere, CachedThere, There
<1>2. ASSUME NEW key \in Keys, CacheMiss(key) PROVE StaleInv'
  <2>1. PICK ranking \in Ranked(Visible(key)) :
            run' = [phase |-> "dense", key |-> key, began |-> clock,
                    bm25 |-> First(ranking, Bm25Candidates),
                    known |-> [e \in Range(First(ranking, Bm25Candidates)) |->
                                  rows[e]],
                    dense |-> <<>>, fused |-> <<>>]
    BY <1>2 DEF CacheMiss
  <2> DEFINE found == First(ranking, Bm25Candidates)
  <2>2. Bm25Candidates \in Nat
    OBVIOUS
  <2>3. Range(found) \subseteq Visible(key)
    BY <2>2, VisibleMine
  <2> HIDE DEF found
  <2>4. /\ run' = [phase |-> "dense", key |-> key, began |-> clock, bm25 |-> found,
                   known |-> [e \in Range(found) |-> rows[e]],
                   dense |-> <<>>, fused |-> <<>>]
    BY <2>1 DEF found
  <2>5. \A e \in Range(found) : since.deleted[e] = -1
    BY <2>3 DEF Visible, StaleInv, OnceDeleted
  <2>6. cached' = [cached EXCEPT ![key] = Nothing]
        /\ UNCHANGED <<rows, clock, since, entry>>
    BY <1>2 DEF CacheMiss
  <2>7. Timed' /\ OnceDeleted'
    BY <2>6 DEF StaleInv, Timed, OnceDeleted
  <2>8. run'.began = clock /\ DOMAIN run'.known = Range(found)
    BY <2>4
  <2>9. KnownThere'
    BY <1>0, <2>5, <2>6, <2>8 DEF KnownThere, There
  <2>10. CachedThere'
    <3>1. \A k \in Keys : cached'[k] = IF k = key THEN Nothing ELSE cached[k]
      BY <2>6 DEF OwnInv
    <3>2. Nothing.items = <<>>
      BY DEF Nothing
    <3> HIDE DEF Nothing
    <3> QED
      BY SMTT(30), <2>6, <3>1, <3>2 DEF StaleInv, CachedThere, There
  <2> QED
    BY <2>7, <2>9, <2>10 DEF StaleInv
<1>3. CASE DenseSearch
  <2>1. /\ UNCHANGED <<rows, cached, clock, since, entry>>
        /\ run.phase = "dense"
        /\ \E d, f : run' = [run EXCEPT !.phase = "resolve", !.dense = d, !.fused = f]
    BY <1>3 DEF DenseSearch
  <2>2. Running /\ run # NoRun
    BY <2>1 DEF OwnInv, NoRun
  <2>3. run'.began = run.began /\ run'.known = run.known
    BY <2>1, <2>2 DEF Running
  <2>4. KnownThere'
    BY <2>1, <2>2, <2>3 DEF StaleInv, KnownThere, There
  <2> QED
    BY <2>1, <2>4 DEF StaleInv, Timed, OnceDeleted, CachedThere, There
<1>4. CASE Resolve
  <2> DEFINE old == DOMAIN run.known
             new == (Range(run.fused) \ old) \cap Resolvable(run.key.user)
             known == [e \in old \cup new |->
                          IF e \in old THEN run.known[e] ELSE rows[e]]
  <2>1. /\ run.phase = "resolve" /\ UNCHANGED <<rows, cached, clock, since, entry>>
        /\ run' = [run EXCEPT !.phase = "rerank", !.known = known]
    BY <1>4 DEF Resolve
  <2>2. Running /\ run # NoRun
    BY <2>1 DEF OwnInv, NoRun
  <2>3. \A e \in new : since.deleted[e] = -1
    BY DEF Resolvable, StaleInv, OnceDeleted
  <2>4. \A e \in old : There(e, run.began)
    BY <2>2 DEF StaleInv, KnownThere
  <2> HIDE DEF new
  <2>5. DOMAIN known = old \cup new
    OBVIOUS
  <2> HIDE DEF old, known
  <2>6. run'.began = run.began /\ DOMAIN run'.known = old \cup new
    BY <2>1, <2>2, <2>5 DEF Running
  <2>7. KnownThere'
    BY <2>1, <2>2, <2>3, <2>4, <2>6 DEF StaleInv, KnownThere, There
  <2> QED
    BY <2>1, <2>7 DEF StaleInv, Timed, OnceDeleted, CachedThere, There
<1>5. CASE Rerank
  <2>1. /\ Running /\ run.key \in Keys
        /\ \E items \in Seq(Sound(run.began)) :
              Cache(run.key, items) /\ Answered(run.key, items)
    BY <1>5, RerankSound
  <2>2. PICK items \in Seq(Sound(run.began)) : Cache(run.key, items)
    BY <2>1
  <2>3. PICK key \in Keys : key = run.key
    BY <2>1
  <2>4. PICK began : began = run.began
    OBVIOUS
  <2>5. /\ run' = NoRun /\ UNCHANGED <<rows, clock, entry>>
        /\ since' = [since EXCEPT !.computed[key] = [began |-> began, ended |-> clock]]
    BY <1>5, <2>3, <2>4 DEF Rerank
  <2>6. run # NoRun /\ began \in Int /\ began <= clock
    <3>1. run # NoRun
      BY <1>5 DEF Rerank, NoRun
    <3> QED
      BY <2>4, <3>1 DEF StaleInv, KnownThere
  <2>7. /\ since'.deleted = since.deleted
        /\ since' = [deleted |-> since'.deleted, computed |-> since'.computed]
        /\ since'.computed \in [Keys -> [began : Int, ended : Int]]
        /\ \A k \in Keys : since'.computed[k] =
              IF k = key THEN [began |-> began, ended |-> clock]
                         ELSE since.computed[k]
    <3> DEFINE c == since.computed
               timed == [began |-> began, ended |-> clock]
    <3>1. c \in [Keys -> [began : Int, ended : Int]]
      BY DEF StaleInv, Timed
    <3>2. timed \in [began : Int, ended : Int]
      BY <1>0, <2>6
    <3>3. since' = [deleted |-> since.deleted, computed |-> [c EXCEPT ![key] = timed]]
      BY <2>5 DEF StaleInv, Timed
    <3> HIDE DEF c, timed
    <3>4. /\ since'.computed = [c EXCEPT ![key] = timed]
          /\ since'.deleted = since.deleted
      BY <3>3
    <3>5. [c EXCEPT ![key] = timed] \in [Keys -> [began : Int, ended : Int]]
      BY <3>1, <3>2
    <3>6. \A k \in Keys : [c EXCEPT ![key] = timed][k] = IF k = key THEN timed ELSE c[k]
      BY <3>1
    <3> QED
      BY <3>3, <3>4, <3>5, <3>6 DEF c, timed
  <2>8. Timed'
    <3>1. \A k \in Keys : since'.computed[k].began <= clock
      <4> SUFFICES ASSUME NEW k \in Keys PROVE since'.computed[k].began <= clock
        OBVIOUS
      <4>1. CASE k = key
        BY <2>6, <2>7, <4>1
      <4>2. CASE k # key
        BY <2>7, <4>2 DEF StaleInv, Timed
      <4> QED
        BY <4>1, <4>2
    <3> QED
      BY <1>0, <2>7, <3>1 DEF StaleInv, Timed
  <2>9. OnceDeleted'
    BY <2>5, <2>7 DEF StaleInv, OnceDeleted
  <2>10. KnownThere'
    BY <2>5 DEF KnownThere
  <2>11. \A k \in Keys : cached'[k] \in
            {Nothing} \cup
            (IF k = key THEN {[at |-> clock, items |-> items]} ELSE {cached[k]})
    BY <2>2, <2>3 DEF Cache
  <2>12. \A i \in DOMAIN items : There(items[i].entry, began)
    BY <2>2, <2>4, SeqListed DEF Sound
  <2>13. CachedThere'
    <3> SUFFICES ASSUME NEW k \in Keys
                 PROVE  /\ cached'[k] # Nothing =>
                              cached'[k].at = since'.computed[k].ended
                        /\ \A i \in DOMAIN cached'[k].items :
                              There(cached[k].items[i].entry,
                                    since.computed[k].began)'
      BY DEF CachedThere, There
    <3>1. CASE cached'[k] = Nothing
      BY <3>1 DEF Nothing
    <3>2. CASE k = key /\ cached'[k] = [at |-> clock, items |-> items]
      BY <2>7, <2>12, <3>2 DEF There
    <3>3. CASE k # key /\ cached'[k] = cached[k]
      BY <2>7, <3>3 DEF StaleInv, CachedThere, There
    <3> QED
      BY <2>11, <3>1, <3>2, <3>3
  <2> QED
    BY <2>8, <2>9, <2>10, <2>13 DEF StaleInv
<1>6. CASE SearchRaises
  <2>1. run' = NoRun /\ UNCHANGED <<rows, cached, clock, since, entry>>
    BY <1>6 DEF SearchRaises
  <2> QED
    BY <2>1 DEF StaleInv, Timed, OnceDeleted, KnownThere, CachedThere, There
<1> QED
  BY <1>1, <1>2, <1>3, <1>4, <1>5, <1>6 DEF SearchStep

LEMMA Changed ==
    ASSUME OwnInv, StaleInv, WorldStep, UNCHANGED entry
    PROVE  StaleInv'
<1>0. clock \in Nat /\ Gone = 0 /\ -1 # clock
  BY DEF StaleInv, Timed, Gone
<1>1. ASSUME NEW e \in Entry, EntryDeleted(e), UNCHANGED <<rows, since>>
      PROVE  StaleInv'
  BY <1>1 DEF EntryDeleted, StaleInv, Timed, OnceDeleted, KnownThere,
              CachedThere, There
<1>2. ASSUME NEW e \in Entry, EntryDeleted(e),
             rows' = [rows EXCEPT ![e] = Gone],
             since' = [since EXCEPT !.deleted[e] = clock]
      PROVE  StaleInv'
  <2>1. run = NoRun /\ rows[e] # Gone /\ UNCHANGED <<cached, run, clock, entry>>
    BY <1>2 DEF EntryDeleted
  <2>2. /\ since' = [deleted |-> since'.deleted, computed |-> since.computed]
        /\ since'.computed = since.computed
        /\ since'.deleted \in [Entry -> Int]
        /\ \A d \in Entry : since'.deleted[d] = IF d = e THEN clock ELSE since.deleted[d]
    BY <1>0, <1>2 DEF StaleInv, Timed
  <2>3. Timed'
    BY <2>1, <2>2 DEF StaleInv, Timed
  <2>4. OnceDeleted'
    <3>1. \A d \in Entry : rows'[d] = IF d = e THEN Gone ELSE rows[d]
      BY <1>2 DEF OwnInv
    <3>2. New \in Entry
      BY TextsAssumption
    <3>3. entry.state = "reading" => New # e
      BY <2>1 DEF StaleInv, OnceDeleted
    <3>4. \A d \in Entry : rows'[d] # Gone => since'.deleted[d] = -1
      BY <2>2, <3>1 DEF StaleInv, OnceDeleted
    <3>5. entry.state = "reading" => rows'[New] = Gone /\ since'.deleted[New] = -1
      BY <2>2, <3>1, <3>2, <3>3 DEF StaleInv, OnceDeleted
    <3> QED
      BY <2>1, <3>4, <3>5 DEF OnceDeleted
  <2>5. KnownThere'
    BY <2>1 DEF KnownThere
  <2>6. CachedThere'
    <3>1. \A k \in Keys : since.computed[k].began \in Int
                          /\ since.computed[k].began <= clock
      BY DEF StaleInv, Timed
    <3>2. ASSUME NEW k \in Keys, NEW i \in DOMAIN cached[k].items
          PROVE  There(cached[k].items[i].entry, since.computed[k].began)'
      <4>1. cached[k].items[i] \in Item(k.user)
        BY SeqListed DEF OwnInv
      <4>2. PICK d \in Entry : d = cached[k].items[i].entry
        BY <4>1 DEF Item, Mine
      <4>3. There(d, since.computed[k].began)
        BY <4>2 DEF StaleInv, CachedThere
      <4> QED
        BY <2>1, <2>2, <3>1, <4>2, <4>3 DEF There
    <3> QED
      BY <2>1, <2>2, <3>2 DEF StaleInv, CachedThere
  <2> QED
    BY <2>3, <2>4, <2>5, <2>6 DEF StaleInv
<1>3. ASSUME NEW e \in Entry, DateChanged(e) PROVE StaleInv'
  <2>1. PICK d \in Dates : rows' = [rows EXCEPT ![e] = d]
    BY <1>3 DEF DateChanged
  <2>2. rows[e] # Gone /\ UNCHANGED <<cached, run, clock, since, entry>>
    BY <1>3 DEF DateChanged
  <2>3. OnceDeleted'
    <3>1. \A x \in Entry : rows'[x] = IF x = e THEN d ELSE rows[x]
      BY <2>1 DEF OwnInv
    <3>2. New \in Entry
      BY TextsAssumption
    <3> QED
      BY <2>2, <3>1, <3>2 DEF StaleInv, OnceDeleted
  <2> QED
    BY <2>2, <2>3 DEF StaleInv, Timed, KnownThere, CachedThere, There
<1>4. ASSUME NEW e \in Entry, VectorsDropped(e) \/ VectorsAdded(e) PROVE StaleInv'
  <2>1. UNCHANGED <<rows, cached, run, clock, since, entry>>
    BY <1>4 DEF VectorsDropped, VectorsAdded
  <2> QED
    BY <2>1 DEF StaleInv, Timed, OnceDeleted, KnownThere, CachedThere, There
<1>5. CASE Tick
  <2>1. clock' = clock + 1 /\ UNCHANGED <<rows, cached, run, since, entry>>
    BY <1>5 DEF Tick
  <2>2. Timed'
    BY <1>0, <2>1 DEF StaleInv, Timed
  <2>3. KnownThere'
    BY <1>0, <2>1 DEF StaleInv, KnownThere, There
  <2> QED
    BY <2>1, <2>2, <2>3 DEF StaleInv, OnceDeleted, CachedThere, There
<1> QED
  BY <1>1, <1>2, <1>3, <1>4, <1>5 DEF WorldStep, EntryDeleted

LEMMA OnlyReading == ReadingStep => entry.state = "reading"
BY DEF ReadingStep, ProviderStep, EntryStored, TextStored, PageFails, PageRead,
       CallStarts, Answers, PrimaryFails, BackupFails, ShadowEnds, CallEnds,
       Missing, Reading

LEMMA StaleNext == OwnInv /\ StaleInv /\ [Next]_vars => StaleInv'
<1> SUFFICES ASSUME OwnInv, StaleInv, [Next]_vars PROVE StaleInv'
  OBVIOUS
<1>1. CASE Read
  <2>1. entry.state = "reading"
    BY <1>1, OnlyReading DEF Read
  <2>2. /\ rows' = IF entry'.state = "stored" THEN [rows EXCEPT ![New] = 1] ELSE rows
        /\ UNCHANGED <<cached, run, clock, since>>
    BY <1>1 DEF Read
  <2>3. rows[New] = Gone /\ since.deleted[New] = -1
    BY <2>1 DEF StaleInv, OnceDeleted
  <2>4. OnceDeleted'
    <3>1. \A e \in Entry : rows'[e] = rows[e] \/ e = New
      BY <2>2 DEF OwnInv
    <3>2. entry'.state # "stored" => rows' = rows
      BY <2>2
    <3>3. entry'.state = "reading" => entry'.state # "stored"
      OBVIOUS
    <3> QED
      BY <2>2, <2>3, <3>1, <3>2, <3>3 DEF StaleInv, OnceDeleted
  <2> QED
    BY <2>2, <2>4 DEF StaleInv, Timed, KnownThere, CachedThere, There
<1>2. CASE Embed \/ UNCHANGED vars
  <2>1. UNCHANGED <<rows, cached, run, clock, since, entry>>
    BY <1>2 DEF Embed, Chunked, vars, readingVars, searchVars
  <2> QED
    BY <2>1 DEF StaleInv, Timed, OnceDeleted, KnownThere, CachedThere, There
<1>3. CASE Look
  BY <1>3, LookedUp DEF Look, readingVars
<1>4. CASE Change
  BY <1>4, Changed DEF Change, readingVars
<1> QED
  BY <1>1, <1>2, <1>3, <1>4 DEF Next

StaleStep ==
    answer' # answer => \A i \in DOMAIN answer'.items :
        LET e == answer'.items[i].entry
            was == since'.computed[answer'.key]
        IN since.deleted[e] # -1 =>
            was.began <= since.deleted[e] /\ clock - was.ended <= Ttl

LEMMA StaleAnswer ==
    ASSUME OwnInv, StaleInv, [Next]_vars
    PROVE  StaleStep
<1> SUFFICES ASSUME answer' # answer PROVE StaleStep
  BY DEF StaleStep
<1>1. SearchStep
  BY DEF Next, Read, Embed, Look, Change, WorldStep, EntryDeleted, DateChanged,
         VectorsDropped, VectorsAdded, Tick, vars, searchVars
<1>2. ASSUME NEW key \in Keys, CacheHit(key) PROVE StaleStep
  <2>1. Answered(key, cached[key].items) /\ Fresh(key) /\ UNCHANGED since
    BY <1>2 DEF CacheHit
  <2>2. PICK began : began = since.computed[key].began
    OBVIOUS
  <2>3. cached[key].items \in Seq(Sound(began))
    BY <2>2, SoundResult
  <2>4. PICK items \in Seq(Sound(began)) : items = cached[key].items
    BY <2>3
  <2>5. /\ answer'.key = key
        /\ \A i \in DOMAIN answer'.items : There(answer'.items[i].entry, began)
    BY <2>1, <2>4, SoundPage
  <2>6. clock - since.computed[key].ended <= Ttl
    BY <2>1 DEF Fresh, StaleInv, CachedThere
  <2> QED
    BY <2>1, <2>2, <2>5, <2>6 DEF StaleStep, There
<1>3. CASE Rerank
  <2>1. /\ run.key \in Keys /\ run # NoRun
        /\ \E items \in Seq(Sound(run.began)) : Answered(run.key, items)
    BY <1>3, RerankSound DEF Rerank, NoRun
  <2>0. PICK began : began = run.began
    OBVIOUS
  <2>2. PICK key \in Keys : key = run.key
    BY <2>1
  <2>3. PICK items \in Seq(Sound(began)) : Answered(key, items)
    BY <2>0, <2>1, <2>2
  <2>4. /\ answer'.key = key
        /\ \A i \in DOMAIN answer'.items : There(answer'.items[i].entry, began)
    BY <2>3, SoundPage
  <2>5. since'.computed[key] = [began |-> began, ended |-> clock]
    BY <1>3, <2>0, <2>2 DEF Rerank, StaleInv, Timed
  <2>6. clock - clock <= Ttl
    <3>1. clock \in Nat /\ Ttl \in Nat
      BY DEF StaleInv, Timed
    <3> QED
      BY <3>1
  <2> QED
    BY <2>4, <2>5, <2>6 DEF StaleStep, There
<1> QED
  BY <1>1, <1>2, <1>3 DEF SearchStep, CacheMiss, DenseSearch, Resolve, SearchRaises

\* A page that shows an entry deleted meanwhile shows a result that began to be
\* computed while the entry was there, and that was no older than its time to live
\* when the page was made: a hit never renews a result (_ResultCache.get), a miss
\* asks the database again, and no row comes back once it is gone.
THEOREM StaleNotForLong == Spec => StaleForATime
<1> DEFINE Inv == OwnInv /\ StaleInv
<1>1. Init => Inv
  BY OwnInit, StaleInit
<1>2. Inv /\ [Next]_vars => Inv'
  BY OwnNext, StaleNext
<1>3. Inv /\ [Next]_vars => [StaleStep]_searchVars
  BY StaleAnswer
<1> HIDE DEF Inv
<1>4. Spec => [][StaleStep]_searchVars
  BY <1>1, <1>2, <1>3, PTL DEF Spec
<1> QED
  BY <1>4 DEF StaleForATime, StaleStep

-----------------------------------------------------------------------------
(* The cache of results.                                                   *)

Where(s, S) == {i \in 1 .. Len(s) : s[i] \in S}

\* Of a sequence in which nothing occurs twice: what is in S, once.
LEMMA ThoseOnce ==
    ASSUME NEW T, NEW s \in Seq(T), NEW S, IsInjective(s)
    PROVE  /\ Those(s, S) \in Seq(T)
           /\ IsInjective(Those(s, S))
           /\ Range(Those(s, S)) = Range(s) \cap S
           /\ Len(Those(s, S)) = Cardinality(Where(s, S))
<1> DEFINE I == {i \in DOMAIN s : s[i] \in S}
           l == Cardinality(I)
           those == Those(s, S)
<1>1. Len(s) \in Nat /\ DOMAIN s = 1 .. Len(s) /\ \A i \in 1 .. Len(s) : s[i] \in T
  BY LenProperties, ElementOfSeq
<1>2. I \subseteq 1 .. Len(s) /\ I = Where(s, S)
  BY <1>1 DEF Where
<1>3. those = Picked(s, I)
  BY DEF Those
<1>4. \A i \in DOMAIN s : i \in I <=> s[i] \in S
  OBVIOUS
<1>5. I \subseteq DOMAIN s
  OBVIOUS
<1> HIDE DEF I, those
<1>6. /\ Cardinality(I) \in Nat
      /\ \E g : Goes(s, I, g)
      /\ Picked(s, I) = [n \in 1 .. Cardinality(I) |-> Picked(s, I)[n]]
  BY <1>1, <1>2, PickedBy
<1>6a. PICK g : Goes(s, I, g)
  BY <1>6
<1>7. /\ g \in [1 .. l -> I]
      /\ \A m, n \in 1 .. l : g[m] = g[n] => m = n
      /\ \A i \in I : \E n \in 1 .. l : g[n] = i
      /\ \A n \in 1 .. l : those[n] = s[g[n]]
  BY <1>3, <1>6a DEF Goes
<1>7a. those = [n \in 1 .. l |-> those[n]] /\ l \in Nat
  BY <1>3, <1>6
<1> HIDE DEF l
<1>8. DOMAIN those = 1 .. l /\ \A n \in 1 .. l : those[n] = s[g[n]] /\ g[n] \in I
  BY <1>7, <1>7a
<1>9. those \in [1 .. l -> T]
  <2>1. \A n \in 1 .. l : those[n] \in T
    BY <1>1, <1>2, <1>8
  <2> QED
    BY <1>7a, <2>1
<1>10. those \in Seq(T) /\ Len(those) = l
  <2>1. those \in Seq(T)
    BY <1>7a, <1>9, SeqDef
  <2>2. Len(those) \in Nat /\ DOMAIN those = 1 .. Len(those)
    BY <2>1, LenProperties
  <2>3. 1 .. l = 1 .. Len(those)
    BY <1>8, <2>2
  <2> QED
    BY <1>7a, <2>1, <2>2, <2>3
<1>11. IsInjective(those)
  BY <1>5, <1>7, <1>8 DEF IsInjective
<1>12. Range(those) = Range(s) \cap S
  <2>1. ASSUME NEW n \in 1 .. l PROVE those[n] \in Range(s) \cap S
    BY <1>4, <1>5, <1>8, <2>1 DEF Range
  <2>2. ASSUME NEW i \in DOMAIN s, s[i] \in S
        PROVE  \E n \in 1 .. l : those[n] = s[i]
    BY <1>4, <1>7, <2>2
  <2>3. \A x \in Range(s) \cap S : \E n \in 1 .. l : those[n] = x
    BY <2>2 DEF Range
  <2>4. Range(those) = {those[n] : n \in 1 .. l}
    BY <1>8 DEF Range
  <2> QED
    BY <2>1, <2>3, <2>4
<1> QED
  BY <1>2, <1>10, <1>11, <1>12 DEF those, l

\* The cache remembers the use of just the keys it holds, and holds no more than
\* it may.
CacheInv ==
    /\ recency \in Seq(Keys) /\ IsInjective(recency)
    /\ Len(recency) <= CacheMax
    /\ \A k \in Keys : (cached[k] # Nothing) <=> (k \in Range(recency))

\* Some of the first n numbers are at most n, and fewer once one is left out.
LEMMA Fewer ==
    ASSUME NEW n \in Nat, NEW T, T \subseteq 1 .. n
    PROVE  /\ Cardinality(T) \in Nat /\ Cardinality(T) <= n
           /\ \A x \in 1 .. n : x \notin T => Cardinality(T) < n
<1> DEFINE S == 1 .. n
<1>1. IsFiniteSet(S) /\ Cardinality(S) = n
  <2>1. (IF 1 > n THEN 0 ELSE n - 1 + 1) = n /\ n \in Int /\ 1 \in Int
    OBVIOUS
  <2> QED
    BY <2>1, FS_Interval
<1>2. T \in SUBSET S
  OBVIOUS
<1> HIDE DEF S
<1>3. IsFiniteSet(T) /\ Cardinality(T) <= Cardinality(S)
  BY <1>1, <1>2, FS_Subset
<1>4. Cardinality(T) \in Nat
  BY <1>3, FS_CardinalityType
<1>5. \A x \in S : x \notin T => Cardinality(T) < Cardinality(S)
  BY <1>1, <1>2, Nested
<1> QED
  BY <1>1, <1>3, <1>4, <1>5 DEF S

\* Taking a key out of the order of use shortens it by that key alone.
LEMMA WithoutKey ==
    ASSUME CacheInv, NEW key \in Keys
    PROVE  /\ Without(recency, key) \in Seq(Keys)
           /\ IsInjective(Without(recency, key))
           /\ Range(Without(recency, key)) = Range(recency) \ {key}
           /\ Len(Without(recency, key)) <= Len(recency)
           /\ key \in Range(recency) =>
                 Len(Without(recency, key)) = Len(recency) - 1
<1> DEFINE n == Len(recency)
           I == Where(recency, Keys \ {key})
<1>1. recency \in Seq(Keys) /\ IsInjective(recency)
  BY DEF CacheInv
<1>2. n \in Nat /\ DOMAIN recency = 1 .. n /\ \A i \in 1 .. n : recency[i] \in Keys
  BY <1>1, LenProperties, ElementOfSeq
<1>3. /\ Without(recency, key) \in Seq(Keys)
      /\ IsInjective(Without(recency, key))
      /\ Range(Without(recency, key)) = Range(recency) \cap (Keys \ {key})
      /\ Len(Without(recency, key)) = Cardinality(I)
  <2>1. /\ Those(recency, Keys \ {key}) \in Seq(Keys)
        /\ IsInjective(Those(recency, Keys \ {key}))
        /\ Range(Those(recency, Keys \ {key})) = Range(recency) \cap (Keys \ {key})
        /\ Len(Those(recency, Keys \ {key})) =
              Cardinality(I)
    BY <1>1, ThoseOnce
  <2> QED
    BY <2>1 DEF Without
<1>4. Range(recency) \subseteq Keys
  BY <1>2 DEF Range
<1>5. Cardinality(I) <= n
  <2>1. I \subseteq 1 .. n
    BY DEF Where
  <2> HIDE DEF I, n
  <2> QED
    BY <1>2, <2>1, Fewer
<1>6. ASSUME key \in Range(recency) PROVE Cardinality(I) = n - 1
  <2> DEFINE S == 1 .. n
  <2>1. PICK j \in S : recency[j] = key
    BY <1>2, <1>6 DEF Range
  <2>2. I = S \ {j}
    BY <1>1, <1>2, <2>1 DEF IsInjective, Where
  <2>3. IsFiniteSet(S) /\ Cardinality(S) = n
    <3>1. (IF 1 > n THEN 0 ELSE n - 1 + 1) = n /\ n \in Int /\ 1 \in Int
      BY <1>2
    <3> HIDE DEF n
    <3> QED
      BY <3>1, FS_Interval
  <2> HIDE DEF I, n, S
  <2>4. Cardinality(S \ {j}) = Cardinality(S) - 1
    BY <2>1, <2>3, FS_RemoveElement
  <2> QED
    BY <2>2, <2>3, <2>4
<1> QED
  BY <1>3, <1>4, <1>5, <1>6

LEMMA TouchedKey ==
    ASSUME CacheInv, NEW key \in Keys
    PROVE  /\ Touched(key) \in Seq(Keys)
           /\ IsInjective(Touched(key))
           /\ Range(Touched(key)) = Range(recency) \cup {key}
           /\ Len(Touched(key)) <= CacheMax + 1
           /\ key \in Range(recency) => Len(Touched(key)) <= CacheMax
<1> DEFINE w == Without(recency, key)
           l == Len(w)
<1>1. /\ w \in Seq(Keys) /\ IsInjective(w)
      /\ Range(w) = Range(recency) \ {key}
      /\ l <= Len(recency)
      /\ key \in Range(recency) => l = Len(recency) - 1
  BY WithoutKey
<1>2. Len(recency) \in Nat /\ Len(recency) <= CacheMax /\ CacheMax \in Nat
  BY LenProperties DEF CacheInv
<1> HIDE DEF w
<1>3. l \in Nat /\ DOMAIN w = 1 .. l
  BY <1>1, LenProperties
<1>4. Touched(key) = Append(w, key)
  BY DEF Touched, w
<1>5. /\ Append(w, key) \in Seq(Keys) /\ Len(Append(w, key)) = l + 1
      /\ DOMAIN Append(w, key) = 1 .. l + 1
      /\ \A i \in 1 .. l : Append(w, key)[i] = w[i]
      /\ Append(w, key)[l + 1] = key
  <2>1. Append(w, key) \in Seq(Keys) /\ Len(Append(w, key)) = l + 1
    BY <1>1, AppendProperties
  <2>2. \A i \in 1 .. l : Append(w, key)[i] = w[i]
    BY <1>1, AppendProperties
  <2>3. Append(w, key)[l + 1] = key
    BY <1>1, AppendProperties
  <2> QED
    BY <2>1, <2>2, <2>3, LenProperties
<1> HIDE DEF l
<1>6. \A i \in 1 .. l + 1 : i \in 1 .. l \/ i = l + 1
  BY <1>3
<1>7. \A i \in 1 .. l : i \in 1 .. l + 1 /\ w[i] # key
  <2>1. \A i \in 1 .. l : w[i] \in Range(w)
    BY <1>3 DEF Range
  <2>2. \A i \in 1 .. l : i \in 1 .. l + 1
    BY <1>3
  <2>3. key \notin Range(w)
    BY <1>1
  <2> QED
    BY <2>1, <2>2, <2>3
<1>8. l + 1 \in 1 .. l + 1
  BY <1>3
<1>9. IsInjective(Append(w, key))
  BY <1>1, <1>3, <1>5, <1>6, <1>7 DEF IsInjective
<1>10. Range(Append(w, key)) = Range(w) \cup {key}
  BY <1>3, <1>5, <1>6, <1>7, <1>8 DEF Range
<1>11. l + 1 <= CacheMax + 1 /\ (key \in Range(recency) => l + 1 <= CacheMax)
  BY <1>1, <1>2, <1>3
<1> QED
  BY <1>1, <1>4, <1>5, <1>9, <1>10, <1>11

\* What is evicted leaves room for the rest.
LEMMA RoomLeft ==
    ASSUME NEW keys \in Seq(Keys), IsInjective(keys), Len(keys) <= CacheMax + 1
    PROVE  /\ Those(keys, Keys \ Evicted(keys)) \in Seq(Keys)
           /\ IsInjective(Those(keys, Keys \ Evicted(keys)))
           /\ Range(Those(keys, Keys \ Evicted(keys))) = Range(keys) \ Evicted(keys)
           /\ Len(Those(keys, Keys \ Evicted(keys))) <= CacheMax
<1> DEFINE n == Len(keys)
           m == n - CacheMax
           I == Where(keys, Keys \ Evicted(keys))
<1>1. n \in Nat /\ DOMAIN keys = 1 .. n /\ \A i \in 1 .. n : keys[i] \in Keys
  BY LenProperties, ElementOfSeq
<1>2. CacheMax \in Nat /\ m \in Int /\ m <= 1
  <2>1. n \in Nat /\ n <= CacheMax + 1 /\ CacheMax \in Nat
    BY <1>1
  <2> HIDE DEF n
  <2> QED
    BY <2>1
<1>3. /\ Those(keys, Keys \ Evicted(keys)) \in Seq(Keys)
      /\ IsInjective(Those(keys, Keys \ Evicted(keys)))
      /\ Range(Those(keys, Keys \ Evicted(keys))) = Range(keys) \cap (Keys \ Evicted(keys))
      /\ Len(Those(keys, Keys \ Evicted(keys))) = Cardinality(I)
  BY ThoseOnce
<1> HIDE DEF I
<1>4. Range(keys) \subseteq Keys
  BY <1>1 DEF Range
<1>5. Cardinality(I) <= CacheMax
  <2>1. CASE m < 1
    <3>1. n <= CacheMax
      BY <1>1, <1>2, <2>1
    <3>2. I \subseteq 1 .. n
      BY DEF I, Where
    <3>3. Cardinality(I) \in Nat /\ Cardinality(I) <= n
      BY <1>1, <3>2, Fewer
    <3> HIDE DEF n
    <3> QED
      BY <1>1, <1>2, <3>1, <3>3
  <2>2. CASE m = 1
    <3>1. n = CacheMax + 1
      <4>1. n \in Int /\ CacheMax \in Int
        BY <1>1, <1>2
      <4>2. n - CacheMax = 1
        BY <2>2
      <4> HIDE DEF n, m
      <4> QED
        BY <4>1, <4>2
    <3>2. Evicted(keys) = {keys[1]}
      <4>1. Evicted(keys) = {keys[i] : i \in 1 .. m}
        BY DEF Evicted
      <4>2. 1 .. m = {1}
        BY <2>2
      <4> HIDE DEF m
      <4> QED
        BY <4>1, <4>2
    <3>3. I \subseteq 1 .. n /\ 1 \notin I
      BY <3>2 DEF I, Where
    <3>4. 1 \in 1 .. n
      BY <1>1, <1>2, <3>1
    <3>5. Cardinality(I) \in Nat /\ Cardinality(I) < n
      BY <1>1, <3>3, <3>4, Fewer
    <3> HIDE DEF n
    <3> QED
      BY <1>1, <1>2, <3>1, <3>5
  <2> QED
    BY <1>2, <2>1, <2>2
<1> QED
  BY <1>3, <1>4, <1>5

LEMMA CacheInit == Init => CacheInv
<1> SUFFICES ASSUME SearchInit PROVE CacheInv
  BY DEF Init
<1>1. recency = <<>> /\ \A k \in Keys : cached[k] = Nothing
  BY DEF SearchInit
<1>2. recency \in Seq(Keys) /\ Len(recency) = 0 /\ DOMAIN recency = {}
  BY <1>1, EmptySeq
<1>3. Len(recency) <= CacheMax
  <2>1. CacheMax \in Nat
    OBVIOUS
  <2> QED
    BY <1>2, <2>1
<1> QED
  BY <1>1, <1>2, <1>3 DEF CacheInv, IsInjective, Range

LEMMA CacheLooked ==
    ASSUME OwnInv, StaleInv, CacheInv, SearchStep
    PROVE  CacheInv'
<1>1. ASSUME NEW key \in Keys, CacheHit(key) PROVE CacheInv'
  <2>1. recency' = Touched(key) /\ cached' = cached /\ cached[key] # Nothing
    BY <1>1 DEF CacheHit, Fresh
  <2>2. key \in Range(recency)
    BY <2>1 DEF CacheInv
  <2>3. /\ recency' \in Seq(Keys) /\ IsInjective(recency')
        /\ Range(recency') = Range(recency) /\ Len(recency') <= CacheMax
    BY <2>1, <2>2, TouchedKey
  <2> QED
    BY <2>1, <2>3 DEF CacheInv
<1>2. ASSUME NEW key \in Keys, CacheMiss(key) PROVE CacheInv'
  <2>1. recency' = Without(recency, key) /\ cached' = [cached EXCEPT ![key] = Nothing]
    BY <1>2 DEF CacheMiss
  <2>2. /\ recency' \in Seq(Keys) /\ IsInjective(recency')
        /\ Range(recency') = Range(recency) \ {key} /\ Len(recency') <= Len(recency)
    BY <2>1, WithoutKey
  <2>3. Len(recency') <= CacheMax
    <3>1. Len(recency) \in Nat /\ Len(recency') \in Nat /\ CacheMax \in Nat
      BY <2>2, LenProperties DEF CacheInv
    <3> QED
      BY <2>2, <3>1 DEF CacheInv
  <2>4. \A k \in Keys : cached'[k] = IF k = key THEN Nothing ELSE cached[k]
    BY <2>1 DEF OwnInv
  <2>5. \A k \in Keys : (cached'[k] # Nothing) <=> (k \in Range(recency'))
    BY <2>2, <2>4 DEF CacheInv
  <2> QED
    BY <2>2, <2>3, <2>5 DEF CacheInv
<1>3. CASE Rerank
  <2>1. /\ run.key \in Keys
        /\ \E items \in Seq(Sound(run.began)) : Cache(run.key, items)
    BY <1>3, RerankSound
  <2>2. PICK key \in Keys : \E items : Cache(key, items)
    BY <2>1
  <2>3. PICK items : Cache(key, items)
    BY <2>2
  <2> DEFINE keys == Touched(key)
  <2>4. /\ keys \in Seq(Keys) /\ IsInjective(keys)
        /\ Range(keys) = Range(recency) \cup {key} /\ Len(keys) <= CacheMax + 1
    BY TouchedKey
  <2>5. /\ recency' = Those(keys, Keys \ Evicted(keys))
        /\ \A k \in Keys : cached'[k] =
              IF k \in Evicted(keys) THEN Nothing
              ELSE IF k = key THEN [at |-> clock, items |-> items]
              ELSE cached[k]
    BY <2>3 DEF Cache
  <2> HIDE DEF keys
  <2>6. /\ recency' \in Seq(Keys) /\ IsInjective(recency')
        /\ Range(recency') = Range(keys) \ Evicted(keys) /\ Len(recency') <= CacheMax
    BY <2>4, <2>5, RoomLeft
  <2>7. [at |-> clock, items |-> items] # Nothing
    <3>1. clock # -1
      BY DEF StaleInv, Timed
    <3> QED
      BY <3>1 DEF Nothing
  <2>8. \A k \in Keys : (cached'[k] # Nothing) <=> (k \in Range(recency'))
    BY <2>4, <2>5, <2>6, <2>7 DEF CacheInv
  <2> QED
    BY <2>6, <2>8 DEF CacheInv
<1>4. CASE DenseSearch \/ Resolve \/ SearchRaises
  BY <1>4 DEF DenseSearch, Resolve, SearchRaises, CacheInv
<1> QED
  BY <1>1, <1>2, <1>3, <1>4 DEF SearchStep

LEMMA CacheNext == OwnInv /\ StaleInv /\ CacheInv /\ [Next]_vars => CacheInv'
<1> SUFFICES ASSUME OwnInv, StaleInv, CacheInv, [Next]_vars PROVE CacheInv'
  OBVIOUS
<1>1. CASE SearchStep
  BY <1>1, CacheLooked
<1>2. CASE UNCHANGED <<cached, recency>>
  BY <1>2 DEF CacheInv
<1> QED
  BY <1>1, <1>2 DEF Next, Read, Embed, Look, Change, WorldStep, EntryDeleted,
     DateChanged, VectorsDropped, VectorsAdded, Tick, vars, searchVars

\* Whatever is asked and however often, the cache of results holds no more than
\* its limit, and remembers the use of just the keys it holds, each once: hits,
\* misses, results that are too old and evictions keep the ordered dictionary of
\* _ResultCache to that (services/hybrid.py).
THEOREM CacheBounded == Spec => []SearchType
<1> DEFINE Inv == OwnInv /\ StaleInv /\ CacheInv
<1>1. Init => Inv
  BY OwnInit, StaleInit, CacheInit
<1>2. Inv /\ [Next]_vars => Inv'
  BY OwnNext, StaleNext, CacheNext
<1>3. Inv => SearchType
  BY DEF OwnInv, Running, NoRun, CacheInv, SearchType
<1> HIDE DEF Inv
<1> QED
  BY <1>1, <1>2, <1>3, PTL DEF Spec
-----------------------------------------------------------------------------
(* All types together.                                                     *)

\* Uploads, calls, results and the cache have their types; no mark of an entry
\* is outside its text, and no call is tried more often than it may
\* (ingestion.py, RetryingTranscriptionProvider, _ResultCache).
THEOREM TextsTypes == Spec => []TypeOK
<1>1. ReadingType /\ SearchType => TypeOK
  BY DEF TypeOK
<1>2. Spec => []ReadingType
  BY ReadInvariant, ReadImplies, PTL
<1> QED
  BY <1>1, <1>2, CacheBounded, PTL

=============================================================================
