---------------------------- MODULE ChunkingProofs ----------------------------
(***************************************************************************)
(* Proofs about Chunking, as Texts composes it, for every value of the     *)
(* constants.                                                              *)
(***************************************************************************)
EXTENDS ReadingProofs

-----------------------------------------------------------------------------
(* Sequences of pieces.                                                    *)

AnyPiece == [text : AnyText, start : Nat, end : Nat]
\* The pieces that are where they say: from one word of t to another, with the
\* text between.
Pieces(t) == {p \in AnyPiece : Whole(t, p) /\ p.text = TextOf(t, p)}

LEMMA TokensNat == \A p : Tokens(p) \in Nat
BY DEF Tokens, CountTokens

LEMMA PieceFacts ==
    ASSUME NEW t \in AnyText, NEW ps \in Seq(Pieces(t))
    PROVE  /\ Len(ps) \in Nat /\ DOMAIN ps = 1 .. Len(ps)
           /\ \A k \in 1 .. Len(ps) :
                /\ ps[k] \in Pieces(t) /\ Whole(t, ps[k])
                /\ ps[k].text = TextOf(t, ps[k])
<1>1. Len(ps) \in Nat /\ DOMAIN ps = 1 .. Len(ps)
  BY LenProperties
<1>2. ASSUME NEW k \in 1 .. Len(ps)
      PROVE  /\ ps[k] \in Pieces(t) /\ Whole(t, ps[k])
             /\ ps[k].text = TextOf(t, ps[k])
  <2>1. ps[k] \in Pieces(t)
    BY ElementOfSeq
  <2> QED
    BY <2>1 DEF Pieces
<1> QED
  BY <1>1, <1>2

\* The tokens of the first pieces.
SumBy(f, ps) ==
    f = [i \in 0 .. Len(ps) |-> IF i = 0 THEN 0 ELSE f[i - 1] + Tokens(ps[i])]

LEMMA TokensChosen ==
    ASSUME NEW ps
    PROVE  TokensOf(ps) = (CHOOSE f : SumBy(f, ps))[Len(ps)]
BY DEF TokensOf, SumBy

LEMMA TokensSummed ==
    ASSUME NEW S, NEW ps \in Seq(S)
    PROVE  \E f \in [0 .. Len(ps) -> Nat] :
              /\ f[0] = 0 /\ TokensOf(ps) = f[Len(ps)]
              /\ \A i \in 1 .. Len(ps) : f[i] = f[i - 1] + Tokens(ps[i])
<1> DEFINE n == Len(ps)
           step == [x \in Nat \X (1 .. n) |-> x[1] + Tokens(ps[x[2]])]
           f == CHOOSE g : SumBy(g, ps)
<1>1. n \in Nat /\ \A i \in 1 .. n : Tokens(ps[i]) \in Nat
  BY LenProperties, TokensNat
<1>2. \A r \in Nat, i \in 1 .. n : step[<<r, i>>] = r + Tokens(ps[i])
  OBVIOUS
<1>3. step \in [Nat \X (1 .. n) -> Nat]
  BY <1>1
<1> HIDE DEF step, n
<1>4. PICK g \in [0 .. n -> Nat] : Recurs(g, n, 0, step)
  BY <1>1, <1>3, Recursion
<1>5. SumBy(g, ps)
  <2> DEFINE h == [i \in 0 .. n |-> IF i = 0 THEN 0 ELSE g[i - 1] + Tokens(ps[i])]
             e == [i \in 0 .. n |-> IF i = 0 THEN 0 ELSE step[<<g[i - 1], i>>]]
  <2>1. g = e
    BY <1>4 DEF Recurs
  <2>2. ASSUME NEW i \in 0 .. n PROVE e[i] = h[i]
    <3>1. CASE i = 0
      BY <3>1
    <3>2. CASE i # 0
      <4>1. i - 1 \in 0 .. n /\ i \in 1 .. n
        BY <1>1, <3>2
      <4>2. g[i - 1] \in Nat
        BY <1>4, <4>1
      <4> QED
        BY <1>2, <3>2, <4>1, <4>2
    <3> QED
      BY <3>1, <3>2
  <2>3. e = h
    BY <2>2
  <2> QED
    BY <2>1, <2>3 DEF SumBy, n
<1>6. SumBy(f, ps)
  BY <1>5
<1>7. TokensOf(ps) = f[n]
  BY TokensChosen DEF n
<1> HIDE DEF f
<1> DEFINE h == [i \in 0 .. n |-> IF i = 0 THEN 0 ELSE f[i - 1] + Tokens(ps[i])]
<1>8. f = h
  BY <1>6 DEF SumBy, n
<1>9. h[0] = 0 /\ \A i \in 1 .. n : h[i] = f[i - 1] + Tokens(ps[i])
  BY <1>1
<1>10. DOMAIN h = 0 .. n
  OBVIOUS
<1>11. h = [i \in 0 .. n |-> h[i]]
  OBVIOUS
<1> HIDE DEF h
<1>12. f[0] = 0 /\ \A i \in 1 .. n : f[i] = f[i - 1] + Tokens(ps[i])
  BY <1>8, <1>9
<1> DEFINE P == {i \in 0 .. n : f[i] \in Nat}
<1>13. 0 \in P
  BY <1>1, <1>12
<1>14. ASSUME NEW i \in 0 .. n, i < n, i \in P PROVE i + 1 \in P
  <2>1. ASSUME NEW j \in 1 .. n, j = i + 1 PROVE f[j] \in Nat
    <3>1. f[j] = f[j - 1] + Tokens(ps[j]) /\ j - 1 = i
      BY <1>12, <2>1
    <3>2. f[i] \in Nat /\ Tokens(ps[j]) \in Nat
      BY <1>1, <1>14
    <3> QED
      BY <3>1, <3>2
  <2>2. i + 1 \in 1 .. n /\ i + 1 \in 0 .. n
    BY <1>1, <1>14
  <2> QED
    BY <2>1, <2>2
<1>15. \A i \in 0 .. n : f[i] \in Nat
  <2> HIDE DEF P
  <2>1. \A i \in 0 .. n : i \in P
    BY <1>1, <1>13, <1>14, UpTo
  <2> QED
    BY <2>1 DEF P
<1>16. f \in [0 .. n -> Nat]
  BY <1>8, <1>11, <1>15
<1> QED
  BY <1>7, <1>12, <1>16 DEF n

LEMMA TokensAppended ==
    ASSUME NEW S, NEW ps \in Seq(S), NEW p \in S
    PROVE  /\ TokensOf(ps) \in Nat /\ Tokens(p) \in Nat
           /\ TokensOf(Append(ps, p)) = TokensOf(ps) + Tokens(p)
<1> DEFINE n == Len(ps)
           qs == Append(ps, p)
<1>1. n \in Nat
  BY LenProperties
<1>2. qs \in Seq(S) /\ Len(qs) = n + 1 /\ qs[n + 1] = p
      /\ \A i \in 1 .. n : qs[i] = ps[i]
  BY AppendProperties
<1> HIDE DEF qs
<1>3. PICK f \in [0 .. n -> Nat] :
           /\ f[0] = 0 /\ TokensOf(ps) = f[n]
           /\ \A i \in 1 .. n : f[i] = f[i - 1] + Tokens(ps[i])
  BY TokensSummed
<1>4. PICK g \in [0 .. Len(qs) -> Nat] :
           /\ g[0] = 0 /\ TokensOf(qs) = g[Len(qs)]
           /\ \A i \in 1 .. Len(qs) : g[i] = g[i - 1] + Tokens(qs[i])
  BY <1>2, TokensSummed
<1> HIDE DEF n
<1> DEFINE P == {i \in 0 .. n : f[i] = g[i]}
<1>5. 0 \in P
  BY <1>1, <1>3, <1>4
<1>6. ASSUME NEW i \in 0 .. n, i < n, i \in P PROVE i + 1 \in P
  <2>1. ASSUME NEW j \in 1 .. n, j = i + 1 PROVE f[j] = g[j]
    <3>1. j - 1 = i /\ j \in 1 .. n + 1
      BY <1>1, <2>1
    <3>2. f[j] = f[i] + Tokens(ps[j]) /\ g[j] = g[i] + Tokens(ps[j])
      BY <1>2, <1>3, <1>4, <3>1
    <3> QED
      BY <1>6, <3>2
  <2>2. i + 1 \in 1 .. n /\ i + 1 \in 0 .. n
    BY <1>1, <1>6
  <2> QED
    BY <2>1, <2>2
<1>7. f[n] = g[n]
  <2> HIDE DEF P
  <2>1. \A i \in 0 .. n : i \in P
    BY <1>1, <1>5, <1>6, UpTo
  <2>2. n \in P
    BY <1>1, <2>1
  <2> QED
    BY <2>2 DEF P
<1>8. TokensOf(qs) = g[n] + Tokens(p)
  <2>1. n + 1 \in 1 .. Len(qs) /\ (n + 1) - 1 = n
    BY <1>1, <1>2
  <2> DEFINE m == n + 1
  <2>2. m \in 1 .. Len(qs) /\ m - 1 = n /\ qs[m] = p /\ Len(qs) = m
    BY <1>2, <2>1
  <2> HIDE DEF m
  <2>3. g[m] = g[m - 1] + Tokens(qs[m])
    BY <1>4, <2>2
  <2> QED
    BY <1>4, <2>2, <2>3
<1>9. Tokens(p) \in Nat
  BY TokensNat
<1>10. f[n] \in Nat
  BY <1>1, <1>3
<1> QED
  BY <1>3, <1>7, <1>8, <1>9, <1>10 DEF qs

LEMMA NoTokens == TokensOf(<<>>) = 0
<1>1. <<>> \in Seq(Nat) /\ Len(<<>>) = 0
  BY EmptySeq
<1> QED
  BY <1>1, TokensSummed

-----------------------------------------------------------------------------
(* The text of a chunk.                                                    *)

Separators == {BlankLine, <<" ">>}

LEMMA ShortTexts ==
    ASSUME NEW S, NEW x \in S, NEW y \in S
    PROVE  /\ <<x>> \in Seq(S) /\ Len(<<x>>) = 1
           /\ <<x, y>> \in Seq(S) /\ Len(<<x, y>>) = 2
OBVIOUS

LEMMA SeparatorFacts ==
    ASSUME NEW sep \in Separators
    PROVE  /\ sep \in AnyText /\ Len(sep) \in Nat \ {0}
           /\ Letters(sep) = {} /\ Words(sep) = <<>> /\ WordsOf(sep) = <<>>
<1>1. " " \in Character /\ "/" \in Character
  BY DEF Character, Blank
<1> DEFINE l == BlankLine
           b == <<" ">>
<1>2. /\ l \in AnyText /\ Len(l) = 2 /\ l[1] \in Blank /\ l[2] \in Blank
      /\ b \in AnyText /\ Len(b) = 1 /\ b[1] \in Blank
  <2>1. l \in AnyText
    <3>1. <<"/", "/">> \in Seq(Character)
      BY <1>1, ShortTexts, Zenon
    <3> QED
      BY <3>1 DEF BlankLine, AnyText
  <2>2. b \in AnyText
    <3>1. <<" ">> \in Seq(Character)
      BY <1>1, ShortTexts, Zenon
    <3> QED
      BY <3>1 DEF AnyText
  <2>3. Len(l) = 2 /\ l[1] = "/" /\ l[2] = "/"
    BY DEF BlankLine
  <2>4. Len(b) = 1 /\ b[1] = " "
    OBVIOUS
  <2>5. "/" \in Blank /\ " " \in Blank
    BY DEF Blank
  <2> QED
    BY <2>1, <2>2, <2>3, <2>4, <2>5
<1>3. /\ sep \in AnyText /\ Len(sep) \in Nat \ {0}
      /\ \A k \in 0 .. Len(sep) - 1 : sep[k + 1] \in Blank
  <2> HIDE DEF l, b
  <2>1. CASE sep = l
    <3>1. \A k \in 0 .. 2 - 1 : k + 1 = 1 \/ k + 1 = 2
      OBVIOUS
    <3>2. \A k \in 0 .. 2 - 1 : l[k + 1] \in Blank
      BY <1>2, <3>1
    <3>3. 2 \in Nat \ {0}
      OBVIOUS
    <3> QED
      BY <1>2, <2>1, <3>2, <3>3
  <2>2. CASE sep = b
    <3>1. \A k \in 0 .. 1 - 1 : k + 1 = 1
      OBVIOUS
    <3>2. \A k \in 0 .. 1 - 1 : b[k + 1] \in Blank
      BY <1>2, <3>1
    <3>3. 1 \in Nat \ {0}
      OBVIOUS
    <3> QED
      BY <1>2, <2>2, <3>2, <3>3
  <2> QED
    BY <2>1, <2>2 DEF Separators, l, b
<1>4. Letters(sep) = {}
  BY <1>3, LettersOf
<1>5. Len(Words(sep)) = 0
  <2>1. Len(Words(sep)) \in Nat
        /\ \A i \in 1 .. Len(Words(sep)) : IsWord(sep, Words(sep)[i][1], Words(sep)[i][2])
    BY <1>3, WordOffsets
  <2>2. \A x, y : ~IsWord(sep, x, y)
    BY <1>4 DEF IsWord
  <2>3. \A i \in 1 .. Len(Words(sep)) : FALSE
    BY <2>1, <2>2
  <2>4. ~(1 \in 1 .. Len(Words(sep)))
    BY <2>3
  <2> QED
    BY <2>1, <2>4
<1>6. Words(sep) = <<>>
  <2>1. Words(sep) \in Seq(Nat \X Nat)
    BY <1>3, WordsListed DEF ListsWords
  <2> QED
    BY <1>5, <2>1, EmptySeq
<1>7. WordsOf(sep) = <<>>
  <2>1. WordsOf(sep) \in Seq(AnyText) /\ Len(WordsOf(sep)) = 0
    BY <1>3, <1>5, WordsOfFacts
  <2> QED
    BY <2>1, EmptySeq
<1> QED
  BY <1>3, <1>4, <1>6, <1>7

\* w is a word of one of the first pieces.
WordIn(t, ps, i, w) ==
    \E k \in 1 .. i : \E x \in Lo(t, ps[k]) .. Hi(t, ps[k]) : w = WordsOf(t)[x]

Texted(t, ps, sep) ==
    [i \in 1 .. Len(ps) |->
        IF i = 1 THEN TextOf(t, ps[i]) ELSE sep \o TextOf(t, ps[i])]

\* The words of the text of a piece, with or without a separator before it.
LEMMA PieceText ==
    ASSUME NEW t \in AnyText, NEW p, Whole(t, p), NEW sep \in Separators,
           NEW u, u = TextOf(t, p) \/ u = sep \o TextOf(t, p)
    PROVE  /\ u \in AnyText /\ WordsOf(u) \in Seq(AnyText)
           /\ u = sep \o TextOf(t, p) => 0 \notin Letters(u)
           /\ \A w : w \in ToSet(WordsOf(u)) <=>
                 \E x \in Lo(t, p) .. Hi(t, p) : w = WordsOf(t)[x]
<1> DEFINE v == TextOf(t, p)
           i == Lo(t, p)
           j == Hi(t, p)
<1>1. /\ v \in AnyText /\ Len(WordsOf(v)) = j - i + 1
      /\ \A k \in 1 .. j - i + 1 : WordsOf(v)[k] = WordsOf(t)[i + k - 1]
  BY WordsOfPiece
<1>2. i \in Nat /\ j \in Nat
  BY WholeFacts
<1>3. sep \in AnyText /\ Letters(sep) = {} /\ WordsOf(sep) = <<>> /\ Len(sep) \in Nat \ {0}
  BY SeparatorFacts
<1> HIDE DEF v, i, j
<1>4. Apart(sep, v)
  BY <1>3 DEF Apart
<1>5. WordsOf(v) \in Seq(AnyText) /\ DOMAIN WordsOf(v) = 1 .. j - i + 1
  BY <1>1, WordsOfFacts
<1>6. WordsOf(sep \o v) = WordsOf(v)
  <2>1. WordsOf(sep \o v) = WordsOf(sep) \o WordsOf(v)
    BY <1>1, <1>3, <1>4, WordTextsJoin
  <2> QED
    BY <1>3, <1>5, <2>1, ConcatEmptySeq
<1>7. sep \o v \in AnyText /\ 0 \notin Letters(sep \o v)
  <2>1. sep \o v \in AnyText
    BY <1>1, <1>3, JoinFacts
  <2>2. 0 \in Letters(sep \o v) => 0 \in Letters(sep) \/ 0 - Len(sep) \in Letters(v)
    <3>1. 0 \in Int
      OBVIOUS
    <3> QED
      BY <1>1, <1>3, <3>1, LettersJoin
  <2>3. 0 - Len(sep) \notin Letters(v)
    <3>1. 0 - Len(sep) \in Int /\ ~(0 <= 0 - Len(sep))
      BY <1>3
    <3> QED
      BY <1>1, <3>1, LettersOf
  <2> QED
    BY <1>3, <2>1, <2>2, <2>3
<1>8. u \in AnyText /\ WordsOf(u) = WordsOf(v) /\ (u = sep \o v => 0 \notin Letters(u))
  BY <1>1, <1>6, <1>7 DEF v
<1>9. ASSUME NEW w
      PROVE  w \in ToSet(WordsOf(v)) <=> \E x \in i .. j : w = WordsOf(t)[x]
  <2>1. w \in ToSet(WordsOf(v)) <=> \E k \in 1 .. j - i + 1 : w = WordsOf(v)[k]
    BY <1>5 DEF ToSet
  <2>2. ASSUME NEW k \in 1 .. j - i + 1, w = WordsOf(v)[k]
        PROVE  \E x \in i .. j : w = WordsOf(t)[x]
    <3>1. i + k - 1 \in i .. j
      BY <1>2
    <3> QED
      BY <1>1, <2>2, <3>1
  <2>3. ASSUME NEW x \in i .. j, w = WordsOf(t)[x]
        PROVE  \E k \in 1 .. j - i + 1 : w = WordsOf(v)[k]
    <3>1. x - i + 1 \in 1 .. j - i + 1 /\ i + (x - i + 1) - 1 = x
      BY <1>2
    <3>2. WordsOf(v)[x - i + 1] = WordsOf(t)[x]
      BY <1>1, <3>1
    <3> QED
      BY <2>3, <3>1, <3>2
  <2> QED
    BY <2>1, <2>2, <2>3
<1> QED
  BY <1>1, <1>5, <1>8, <1>9 DEF v, i, j

LEMMA RangeJoin ==
    ASSUME NEW S, NEW r \in Seq(S), NEW s \in Seq(S)
    PROVE  \A w : w \in ToSet(r \o s) <=> w \in ToSet(r) \/ w \in ToSet(s)
<1> DEFINE m == Len(r)
           n == Len(s)
           c == r \o s
<1>1. /\ m \in Nat /\ n \in Nat /\ DOMAIN r = 1 .. m /\ DOMAIN s = 1 .. n
  BY LenProperties
<1>2. /\ c \in Seq(S) /\ Len(c) = m + n
      /\ \A i \in 1 .. m + n : c[i] = IF i <= m THEN r[i] ELSE s[i - m]
  BY ConcatProperties
<1>3. DOMAIN c = 1 .. m + n
  BY <1>2, LenProperties
<1> HIDE DEF m, n, c
<1>4. ASSUME NEW i \in 1 .. m PROVE i \in 1 .. m + n /\ c[i] = r[i]
  BY <1>1, <1>2
<1>5. ASSUME NEW i \in 1 .. n PROVE i + m \in 1 .. m + n /\ c[i + m] = s[i]
  <2>1. i + m \in 1 .. m + n /\ ~(i + m <= m) /\ (i + m) - m = i
    BY <1>1
  <2> QED
    BY <1>2, <2>1
<1>6. ASSUME NEW i \in 1 .. m + n
      PROVE  (\E k \in 1 .. m : c[i] = r[k]) \/ (\E k \in 1 .. n : c[i] = s[k])
  <2>1. CASE i <= m
    BY <1>1, <1>2, <2>1
  <2>2. CASE ~(i <= m)
    <3>1. i - m \in 1 .. n
      BY <1>1, <2>2
    <3> QED
      BY <1>2, <2>2, <3>1
  <2> QED
    BY <2>1, <2>2
<1>7. /\ ToSet(r) = {r[i] : i \in 1 .. m} /\ ToSet(s) = {s[i] : i \in 1 .. n}
      /\ ToSet(c) = {c[i] : i \in 1 .. m + n}
  BY <1>1, <1>3 DEF ToSet
<1>8. ASSUME NEW w, w \in ToSet(c) PROVE w \in ToSet(r) \/ w \in ToSet(s)
  BY <1>6, <1>7, <1>8
<1>9. ASSUME NEW w, w \in ToSet(r) PROVE w \in ToSet(c)
  <2>1. PICK i \in 1 .. m : w = r[i]
    BY <1>7, <1>9
  <2>2. i \in 1 .. m + n /\ c[i] = w
    BY <1>4, <2>1
  <2> QED
    BY <1>7, <2>2
<1>10. ASSUME NEW w, w \in ToSet(s) PROVE w \in ToSet(c)
  <2>1. PICK i \in 1 .. n : w = s[i]
    BY <1>7, <1>10
  <2>2. i + m \in 1 .. m + n /\ c[i + m] = w
    BY <1>5, <2>1
  <2> QED
    BY <1>7, <2>2
<1> QED
  BY <1>8, <1>9, <1>10 DEF c

\* The text of a chunk holds the words of its pieces, and no others.
LEMMA SpanFacts ==
    ASSUME NEW t \in AnyText, NEW ps \in Seq(Pieces(t)), ps # <<>>,
           NEW sep \in Separators
    PROVE  /\ Span(ps, sep).text \in AnyText
           /\ \A w : w \in ToSet(WordsOf(Span(ps, sep).text)) <=>
                        WordIn(t, ps, Len(ps), w)
           /\ Span(ps, sep).start = ps[1].start
           /\ Span(ps, sep).end = ps[Len(ps)].end
<1> DEFINE n == Len(ps)
           ss == Texted(t, ps, sep)
<1>1. /\ n \in Nat \ {0} /\ DOMAIN ps = 1 .. n
      /\ \A k \in 1 .. n : Whole(t, ps[k]) /\ ps[k].text = TextOf(t, ps[k])
  BY PieceFacts, EmptySeq
<1>2. Span(ps, sep).text = FlattenSeq(ss)
  <2> DEFINE raw == [i \in 1 .. n |->
                        IF i = 1 THEN ps[i].text ELSE sep \o ps[i].text]
  <2>1. \A i \in 1 .. n : ps[i].text = TextOf(t, ps[i])
    BY <1>1
  <2>2. raw = ss
    BY <2>1 DEF Texted
  <2>3. Span(ps, sep).text = FlattenSeq(raw)
    BY <1>1 DEF Span, Together
  <2> QED
    BY <2>2, <2>3
<1>3. Span(ps, sep).start = ps[1].start /\ Span(ps, sep).end = ps[n].end
  BY DEF Span, Last
<1>4. \A i \in 1 .. n : ss[i] = IF i = 1 THEN TextOf(t, ps[i])
                                ELSE sep \o TextOf(t, ps[i])
  BY DEF Texted
<1>5. ss \in Seq(AnyText) /\ Len(ss) = n
  <2>1. \A i \in 1 .. n : ss[i] \in AnyText
    <3> TAKE i \in 1 .. n
    <3>1. Whole(t, ps[i]) /\ (ss[i] = TextOf(t, ps[i]) \/ ss[i] = sep \o TextOf(t, ps[i]))
      BY <1>1, <1>4
    <3> QED
      BY <3>1, PieceText
  <2>2. ss \in [1 .. n -> AnyText]
    BY <2>1 DEF Texted
  <2> QED
    BY <1>1, <2>2, FunctionSeq
<1> HIDE DEF ss, n
<1>6. PICK f : FlatBy(f, ss, Character) /\ FlattenSeq(ss) = f[n]
  BY <1>5, FlattenFacts DEF AnyText
<1>7. /\ f \in [0 .. n -> AnyText] /\ f[0] = <<>>
      /\ \A i \in 1 .. n : f[i] = f[i - 1] \o ss[i]
  BY <1>5, <1>6 DEF FlatBy, AnyText
<1> DEFINE P == {i \in 0 .. n :
                    \A w \in AnyText : w \in ToSet(WordsOf(f[i])) <=> WordIn(t, ps, i, w)}
<1>9. 0 \in P
  <2>1. <<>> \in AnyText /\ Letters(<<>>) = {}
    <3>1. <<>> \in AnyText /\ Len(<<>>) = 0
      BY EmptySeq DEF AnyText
    <3>2. \A k \in Int : k \in Letters(<<>>) => 0 <= k /\ k < 0
      BY <3>1, LettersOf
    <3>3. Letters(<<>>) \subseteq Int
      BY <3>1, LettersOf
    <3> QED
      BY <3>1, <3>2, <3>3
  <2>2. WordsOf(<<>>) = <<>>
    <3>1. WordsOf(<<>>) \in Seq(AnyText) /\ Len(WordsOf(<<>>)) = Len(Words(<<>>))
          /\ Len(Words(<<>>)) \in Nat
      BY <2>1, WordsOfFacts
    <3>2. \A i \in 1 .. Len(Words(<<>>)) : IsWord(<<>>, Words(<<>>)[i][1], Words(<<>>)[i][2])
      BY <2>1, WordOffsets
    <3>3. \A a, b : ~IsWord(<<>>, a, b)
      BY <2>1 DEF IsWord
    <3>4. ~(1 \in 1 .. Len(Words(<<>>)))
      BY <3>2, <3>3
    <3>5. Len(WordsOf(<<>>)) = 0
      BY <3>1, <3>4
    <3> QED
      BY <3>1, <3>5, EmptySeq
  <2>3. ToSet(WordsOf(f[0])) = {}
    BY <1>7, <2>2 DEF ToSet
  <2>4. \A w : ~WordIn(t, ps, 0, w)
    BY DEF WordIn
  <2>5. 0 \in 0 .. n
    BY <1>1
  <2> QED
    BY <2>3, <2>4, <2>5
<1>10. ASSUME NEW i \in 0 .. n, i < n, i \in P PROVE i + 1 \in P
  <2>1. ASSUME NEW j \in 1 .. n, j = i + 1 PROVE j \in P
    <3>1. j - 1 = i /\ j \in 0 .. n
      BY <1>1, <2>1
    <3>2. /\ Whole(t, ps[j])
          /\ ss[j] = TextOf(t, ps[j]) \/ ss[j] = sep \o TextOf(t, ps[j])
          /\ j # 1 => ss[j] = sep \o TextOf(t, ps[j])
      BY <1>1, <1>4
    <3>3. /\ ss[j] \in AnyText /\ WordsOf(ss[j]) \in Seq(AnyText)
          /\ ss[j] = sep \o TextOf(t, ps[j]) => 0 \notin Letters(ss[j])
          /\ \A w : w \in ToSet(WordsOf(ss[j])) <=>
                \E x \in Lo(t, ps[j]) .. Hi(t, ps[j]) : w = WordsOf(t)[x]
      <4> DEFINE p == ps[j]
                 u == ss[j]
      <4>1. Whole(t, p) /\ (u = TextOf(t, p) \/ u = sep \o TextOf(t, p))
        BY <3>2
      <4> HIDE DEF p, u
      <4>2. /\ u \in AnyText /\ WordsOf(u) \in Seq(AnyText)
            /\ u = sep \o TextOf(t, p) => 0 \notin Letters(u)
            /\ \A w : w \in ToSet(WordsOf(u)) <=>
                  \E x \in Lo(t, p) .. Hi(t, p) : w = WordsOf(t)[x]
        <5>1. u \in AnyText /\ WordsOf(u) \in Seq(AnyText)
          BY <4>1, PieceText
        <5>2. u = sep \o TextOf(t, p) => 0 \notin Letters(u)
          BY <4>1, PieceText
        <5>3. \A w : w \in ToSet(WordsOf(u)) <=>
                  \E x \in Lo(t, p) .. Hi(t, p) : w = WordsOf(t)[x]
          BY <4>1, PieceText
        <5> QED
          BY <5>1, <5>2, <5>3
      <4> QED
        BY <4>2 DEF p, u
    <3>4. f[j] = f[i] \o ss[j] /\ f[i] \in AnyText
      BY <1>7, <3>1
    <3>5. Apart(f[i], ss[j])
      <4>1. CASE i = 0
        <5>1. f[i] = <<>> /\ Len(f[i]) = 0
          BY <1>7, <4>1
        <5>2. -1 \notin Letters(f[i])
          BY <3>4, LettersOf
        <5> QED
          BY <5>1, <5>2 DEF Apart
      <4>2. CASE i # 0
        <5>1. j # 1
          BY <2>1, <4>2
        <5> QED
          BY <3>2, <3>3, <5>1 DEF Apart
      <4> QED
        BY <4>1, <4>2
    <3>6. WordsOf(f[j]) = WordsOf(f[i]) \o WordsOf(ss[j])
      BY <3>3, <3>4, <3>5, WordTextsJoin
    <3>7. WordsOf(f[i]) \in Seq(AnyText)
      BY <3>4, WordsOfFacts
    <3>8. \A w \in AnyText : w \in ToSet(WordsOf(f[i])) <=> WordIn(t, ps, i, w)
      BY <1>10
    <3>10. ASSUME NEW w \in AnyText
           PROVE  w \in ToSet(WordsOf(f[j])) <=> WordIn(t, ps, j, w)
      <4>1. w \in ToSet(WordsOf(f[j])) <=>
               w \in ToSet(WordsOf(f[i])) \/ w \in ToSet(WordsOf(ss[j]))
        BY <3>3, <3>6, <3>7, RangeJoin
      <4>2. WordIn(t, ps, j, w) <=>
               \/ WordIn(t, ps, i, w)
               \/ \E x \in Lo(t, ps[j]) .. Hi(t, ps[j]) : w = WordsOf(t)[x]
        <5>1. \A k : k \in 1 .. j <=> k \in 1 .. i \/ k = j
          BY <2>1
        <5> QED
          BY <5>1 DEF WordIn
      <4> QED
        BY <3>3, <3>8, <4>1, <4>2
    <3> QED
      BY <3>1, <3>10
  <2>2. i + 1 \in 1 .. n
    BY <1>1, <1>10
  <2> QED
    BY <2>1, <2>2
<1>11. n \in P
  <2> HIDE DEF P
  <2>1. n \in Nat /\ n \in 0 .. n
    BY <1>1
  <2>2. \A i \in 0 .. n : i \in P
    BY <1>9, <1>10, <2>1, UpTo
  <2> QED
    BY <2>1, <2>2
<1>12. f[n] \in AnyText /\ Span(ps, sep).text = f[n]
  BY <1>1, <1>2, <1>6, <1>7
<1>14. ASSUME NEW w
       PROVE  w \in ToSet(WordsOf(f[n])) <=> WordIn(t, ps, n, w)
  <2>1. w \in ToSet(WordsOf(f[n])) => w \in AnyText
    <3>1. WordsOf(f[n]) \in Seq(AnyText)
      BY <1>12, WordsOfFacts
    <3>2. DOMAIN WordsOf(f[n]) = 1 .. Len(WordsOf(f[n]))
      BY <3>1, LenProperties
    <3> QED
      BY <3>1, <3>2, ElementOfSeq DEF ToSet
  <2>2. WordIn(t, ps, n, w) => w \in AnyText
    <3> SUFFICES ASSUME NEW k \in 1 .. n,
                        NEW x \in Lo(t, ps[k]) .. Hi(t, ps[k]), w = WordsOf(t)[x]
                 PROVE  w \in AnyText
      BY DEF WordIn
    <3>1. /\ Lo(t, ps[k]) \in Nat /\ Hi(t, ps[k]) \in Nat /\ Len(Words(t)) \in Nat
          /\ 1 <= Lo(t, ps[k]) /\ Hi(t, ps[k]) <= Len(Words(t))
      BY <1>1, WholeFacts
    <3>2. x \in 1 .. Len(Words(t))
      BY <3>1
    <3>3. WordsOf(t) \in Seq(AnyText) /\ Len(WordsOf(t)) = Len(Words(t))
      BY WordsOfFacts
    <3> QED
      BY <3>2, <3>3, ElementOfSeq
  <2> QED
    BY <1>11, <2>1, <2>2
<1> QED
  BY <1>3, <1>12, <1>14 DEF n

-----------------------------------------------------------------------------
(* Chains: each piece begins where the one before does or later, at the    *)
(* latest with the word after it, and ends no earlier.                     *)

Abuts(t, p, q) ==
    /\ Lo(t, p) <= Lo(t, q) /\ Lo(t, q) <= Hi(t, p) + 1
    /\ Hi(t, p) <= Hi(t, q)
Chain(t, ps) ==
    /\ ps \in Seq(Pieces(t))
    /\ \A k, l \in 1 .. Len(ps) : l = k + 1 => Abuts(t, ps[k], ps[l])

LEMMA ChainFacts ==
    ASSUME NEW t \in AnyText, NEW ps, Chain(t, ps)
    PROVE  /\ Len(ps) \in Nat /\ DOMAIN ps = 1 .. Len(ps) /\ Len(Words(t)) \in Nat
           /\ \A k \in 1 .. Len(ps) :
                /\ ps[k] \in Pieces(t) /\ Whole(t, ps[k])
                /\ Lo(t, ps[k]) \in Nat /\ Hi(t, ps[k]) \in Nat
                /\ 1 <= Lo(t, ps[k]) /\ Lo(t, ps[k]) <= Hi(t, ps[k])
                /\ Hi(t, ps[k]) <= Len(Words(t))
           /\ \A k, l \in 1 .. Len(ps) : l = k + 1 => Abuts(t, ps[k], ps[l])
<1>1. ps \in Seq(Pieces(t))
  BY DEF Chain
<1>2. /\ Len(ps) \in Nat /\ DOMAIN ps = 1 .. Len(ps)
      /\ \A k \in 1 .. Len(ps) : ps[k] \in Pieces(t) /\ Whole(t, ps[k])
  BY <1>1, PieceFacts
<1>3. ASSUME NEW k \in 1 .. Len(ps)
      PROVE  /\ Lo(t, ps[k]) \in Nat /\ Hi(t, ps[k]) \in Nat
             /\ 1 <= Lo(t, ps[k]) /\ Lo(t, ps[k]) <= Hi(t, ps[k])
             /\ Hi(t, ps[k]) <= Len(Words(t))
  <2>1. Whole(t, ps[k])
    BY <1>2
  <2> QED
    BY <2>1, WholeFacts
<1>4. Len(Words(t)) \in Nat
  BY WordsInOrder
<1> QED
  BY <1>2, <1>3, <1>4 DEF Chain

LEMMA ChainOrder ==
    ASSUME NEW t \in AnyText, NEW ps, Chain(t, ps)
    PROVE  \A k, l \in 1 .. Len(ps) : k <= l =>
              Lo(t, ps[k]) <= Lo(t, ps[l]) /\ Hi(t, ps[k]) <= Hi(t, ps[l])
<1> DEFINE n == Len(ps)
           a(k) == Lo(t, ps[k])
           b(k) == Hi(t, ps[k])
<1>1. /\ n \in Nat
      /\ \A k \in 1 .. n : a(k) \in Nat /\ b(k) \in Nat
      /\ \A k, l \in 1 .. n : l = k + 1 => a(k) <= a(l) /\ b(k) <= b(l)
  BY ChainFacts DEF Abuts
<1> HIDE DEF n, a, b
<1> DEFINE P == {i \in 0 .. n : \A k, l \in 1 .. n :
                    k <= l /\ l <= k + i => a(k) <= a(l) /\ b(k) <= b(l)}
<1>2. 0 \in P
  <2>1. \A k, l \in 1 .. n : k <= l /\ l <= k + 0 => k = l
    BY <1>1
  <2>2. 0 \in 0 .. n
    BY <1>1
  <2>3. \A k \in 1 .. n : a(k) <= a(k) /\ b(k) <= b(k)
    BY <1>1
  <2> QED
    BY <2>1, <2>2, <2>3
<1>3. ASSUME NEW i \in 0 .. n, i < n, i \in P PROVE i + 1 \in P
  <2>1. ASSUME NEW k \in 1 .. n, NEW l \in 1 .. n, k <= l, l <= k + (i + 1)
        PROVE  a(k) <= a(l) /\ b(k) <= b(l)
    <3>1. CASE l <= k + i
      BY <1>3, <2>1, <3>1
    <3>2. CASE ~(l <= k + i)
      <4> DEFINE m == l - 1
      <4>1. m \in 1 .. n /\ l = m + 1 /\ k <= m /\ m <= k + i
        BY <1>1, <1>3, <2>1, <3>2
      <4> HIDE DEF m
      <4>2. a(k) <= a(m) /\ b(k) <= b(m)
        BY <1>3, <4>1
      <4>3. a(m) <= a(l) /\ b(m) <= b(l)
        BY <1>1, <4>1
      <4>4. a(k) \in Nat /\ a(m) \in Nat /\ a(l) \in Nat
            /\ b(k) \in Nat /\ b(m) \in Nat /\ b(l) \in Nat
        BY <1>1, <4>1
      <4> QED
        BY <4>2, <4>3, <4>4
    <3> QED
      BY <3>1, <3>2
  <2>2. i + 1 \in 0 .. n
    BY <1>1, <1>3
  <2> QED
    BY <2>1, <2>2
<1>4. n \in P
  <2> HIDE DEF P
  <2>1. \A i \in 0 .. n : i \in P
    BY <1>1, <1>2, <1>3, UpTo
  <2> QED
    BY <1>1, <2>1
<1>5. ASSUME NEW k \in 1 .. n, NEW l \in 1 .. n, k <= l
      PROVE  a(k) <= a(l) /\ b(k) <= b(l)
  <2>1. l <= k + n
    BY <1>1
  <2> QED
    BY <1>4, <1>5, <2>1
<1> QED
  BY <1>5 DEF n, a, b

\* A chain leaves no word out.
LEMMA ChainWords ==
    ASSUME NEW t \in AnyText, NEW ps, Chain(t, ps), ps # <<>>
    PROVE  /\ Len(ps) \in 1 .. Len(ps) /\ 1 \in 1 .. Len(ps)
           /\ \A x : (\E k \in 1 .. Len(ps) : x \in Lo(t, ps[k]) .. Hi(t, ps[k]))
                        <=> x \in Lo(t, ps[1]) .. Hi(t, ps[Len(ps)])
<1> DEFINE n == Len(ps)
           a(k) == Lo(t, ps[k])
           b(k) == Hi(t, ps[k])
<1>1. /\ n \in Nat
      /\ \A k \in 1 .. n : a(k) \in Nat /\ b(k) \in Nat /\ a(k) <= b(k)
      /\ \A k, l \in 1 .. n : l = k + 1 => a(l) <= b(k) + 1
  BY ChainFacts DEF Abuts
<1>2. n # 0
  BY EmptySeq DEF Chain
<1>3. \A k, l \in 1 .. n : k <= l => a(k) <= a(l) /\ b(k) <= b(l)
  BY ChainOrder
<1> HIDE DEF n, a, b
<1>4. n \in 1 .. n /\ 1 \in 1 .. n
  BY <1>1, <1>2
<1> DEFINE P == {i \in 0 .. n : i = 0 \/ \A x \in a(1) .. b(i) :
                    \E k \in 1 .. n : x \in a(k) .. b(k)}
<1>5. 0 \in P
  BY <1>1
<1>6. ASSUME NEW i \in 0 .. n, i < n, i \in P PROVE i + 1 \in P
  <2>1. ASSUME NEW j \in 1 .. n, j = i + 1, NEW x \in a(1) .. b(j)
        PROVE  \E k \in 1 .. n : x \in a(k) .. b(k)
    <3>1. CASE i = 0
      BY <2>1, <3>1
    <3>2. CASE i # 0
      <4>1. i \in 1 .. n
        BY <1>1, <3>2
      <4>2. a(1) \in Nat /\ b(i) \in Nat /\ a(j) \in Nat /\ b(j) \in Nat
            /\ a(j) <= b(i) + 1
        BY <1>1, <1>4, <2>1, <4>1
      <4>3. CASE x <= b(i)
        <5>1. x \in a(1) .. b(i)
          BY <2>1, <4>2, <4>3
        <5> QED
          BY <1>6, <3>2, <5>1
      <4>4. CASE ~(x <= b(i))
        <5>1. x \in a(j) .. b(j)
          BY <2>1, <4>2, <4>4
        <5> QED
          BY <5>1
      <4> QED
        BY <4>3, <4>4
    <3> QED
      BY <3>1, <3>2
  <2>2. i + 1 \in 1 .. n /\ i + 1 \in 0 .. n
    BY <1>1, <1>6
  <2> QED
    BY <2>1, <2>2
<1>7. \A x \in a(1) .. b(n) : \E k \in 1 .. n : x \in a(k) .. b(k)
  <2> HIDE DEF P
  <2>1. \A i \in 0 .. n : i \in P
    BY <1>1, <1>5, <1>6, UpTo
  <2>2. n \in P
    BY <1>1, <2>1
  <2> QED
    BY <1>2, <2>2 DEF P
<1>8. ASSUME NEW k \in 1 .. n, NEW x \in a(k) .. b(k) PROVE x \in a(1) .. b(n)
  <2>1. a(1) <= a(k) /\ b(k) <= b(n)
    <3>1. 1 <= k /\ k <= n
      BY <1>1
    <3> QED
      BY <1>3, <1>4, <3>1
  <2>2. a(1) \in Nat /\ a(k) \in Nat /\ b(k) \in Nat /\ b(n) \in Nat
    BY <1>1, <1>4
  <2> QED
    BY <2>1, <2>2
<1> QED
  BY <1>4, <1>7, <1>8 DEF n, a, b

LEMMA SliceFacts ==
    ASSUME NEW S, NEW s \in Seq(S), NEW a \in Nat, NEW b \in Nat,
           1 <= a, a <= b + 1, b <= Len(s)
    PROVE  /\ SubSeq(s, a, b) \in Seq(S) /\ Len(SubSeq(s, a, b)) = b - a + 1
           /\ \A k \in 1 .. b - a + 1 : SubSeq(s, a, b)[k] = s[a + k - 1]
<1>1. Len(s) \in Nat
  BY LenProperties
<1>2. \A i \in a .. b : s[i] \in S
  <2> TAKE i \in a .. b
  <2>1. i \in 1 .. Len(s)
    BY <1>1
  <2> QED
    BY <2>1, ElementOfSeq
<1>3. a \in Int /\ b \in Int
  OBVIOUS
<1>4. /\ SubSeq(s, a, b) \in Seq(S)
      /\ Len(SubSeq(s, a, b)) = IF a <= b THEN b - a + 1 ELSE 0
      /\ \A i \in 1 .. b - a + 1 : SubSeq(s, a, b)[i] = s[a + i - 1]
  BY <1>2, <1>3, SubSeqProperties
<1>5. (IF a <= b THEN b - a + 1 ELSE 0) = b - a + 1
  OBVIOUS
<1> QED
  BY <1>4, <1>5

LEMMA ChainPart ==
    ASSUME NEW t \in AnyText, NEW ps, Chain(t, ps), NEW a \in Nat, NEW b \in Nat,
           1 <= a, a <= b + 1, b <= Len(ps)
    PROVE  Chain(t, SubSeq(ps, a, b))
<1> DEFINE qs == SubSeq(ps, a, b)
           n == Len(ps)
           m == b - a + 1
<1>1. /\ n \in Nat /\ ps \in Seq(Pieces(t))
      /\ \A k, l \in 1 .. n : l = k + 1 => Abuts(t, ps[k], ps[l])
  BY ChainFacts DEF Chain
<1>2. /\ qs \in Seq(Pieces(t)) /\ Len(qs) = m
      /\ \A k \in 1 .. m : qs[k] = ps[a + k - 1]
  BY <1>1, SliceFacts
<1> HIDE DEF qs
<1>3. ASSUME NEW k \in 1 .. m, NEW l \in 1 .. m, l = k + 1
      PROVE  Abuts(t, qs[k], qs[l])
  <2>1. a + k - 1 \in 1 .. n /\ a + l - 1 \in 1 .. n /\ a + l - 1 = (a + k - 1) + 1
    BY <1>1, <1>3
  <2>2. Abuts(t, ps[a + k - 1], ps[a + l - 1])
    BY <1>1, <2>1
  <2> QED
    BY <1>2, <2>2
<1> QED
  BY <1>2, <1>3 DEF Chain, qs

-----------------------------------------------------------------------------
(* Chunks, from word to word.                                              *)

AnyChunk == [start : Nat, end : Nat, text : AnyText, pieces : Seq(AnyPiece)]

\* A chunk holds the words of its range.
Holds(t, c) ==
    /\ Whole(t, c)
    /\ \A w : w \in ToSet(WordsOf(c.text)) <=>
                \E x \in Lo(t, c) .. Hi(t, c) : w = WordsOf(t)[x]

LEMMA SpanTyped ==
    ASSUME NEW t \in AnyText, NEW ps \in Seq(Pieces(t)), ps # <<>>,
           NEW sep \in Separators
    PROVE  Span(ps, sep) \in AnyChunk
<1> DEFINE c == Span(ps, sep)
<1>1. /\ c.text \in AnyText /\ c.start = ps[1].start /\ c.end = ps[Len(ps)].end
  BY SpanFacts
<1>2. c = [start |-> c.start, end |-> c.end, text |-> c.text, pieces |-> c.pieces]
      /\ c.pieces = ps
  BY DEF Span
<1>3. 1 \in 1 .. Len(ps) /\ Len(ps) \in 1 .. Len(ps)
  BY EmptySeq
<1>4. ps[1].start \in Nat /\ ps[Len(ps)].end \in Nat
  BY <1>3, PieceFacts DEF Pieces, AnyPiece
<1> HIDE DEF c
<1>5. c.start \in Nat /\ c.end \in Nat /\ c.pieces \in Seq(AnyPiece)
  <2>1. ps \in Seq(AnyPiece)
    <3>1. Len(ps) \in Nat /\ ps = [i \in 1 .. Len(ps) |-> ps[i]]
      BY LenProperties
    <3>2. \A i \in 1 .. Len(ps) : ps[i] \in AnyPiece
      BY PieceFacts DEF Pieces
    <3> QED
      BY <3>1, <3>2
  <2> QED
    BY <1>1, <1>2, <1>4, <2>1
<1> QED
  BY <1>1, <1>2, <1>5 DEF AnyChunk, c

LEMMA ChainSpan ==
    ASSUME NEW t \in AnyText, NEW ps, Chain(t, ps), ps # <<>>, NEW sep \in Separators
    PROVE  /\ Span(ps, sep) \in AnyChunk /\ Holds(t, Span(ps, sep))
           /\ Lo(t, Span(ps, sep)) = Lo(t, ps[1])
           /\ Hi(t, Span(ps, sep)) = Hi(t, ps[Len(ps)])
<1> DEFINE c == Span(ps, sep)
           n == Len(ps)
           i == Lo(t, ps[1])
           j == Hi(t, ps[n])
<1>1. ps \in Seq(Pieces(t))
  BY DEF Chain
<1>2. /\ \A w : w \in ToSet(WordsOf(c.text)) <=> WordIn(t, ps, n, w)
      /\ c.start = ps[1].start /\ c.end = ps[n].end
  BY <1>1, SpanFacts
<1>3. c \in AnyChunk
  BY <1>1, SpanTyped
<1>4. /\ n \in 1 .. n /\ 1 \in 1 .. n
      /\ \A x : (\E k \in 1 .. n : x \in Lo(t, ps[k]) .. Hi(t, ps[k])) <=> x \in i .. j
  BY ChainWords
<1>5. /\ i \in Nat /\ j \in Nat /\ 1 <= i /\ j <= Len(Words(t))
      /\ i <= Hi(t, ps[1]) /\ Hi(t, ps[1]) \in Nat
      /\ Whole(t, ps[1]) /\ Whole(t, ps[n])
  BY <1>4, ChainFacts
<1>6. i <= j
  <2>1. i \in i .. j
    <3>1. i \in Lo(t, ps[1]) .. Hi(t, ps[1])
      BY <1>5
    <3> QED
      BY <1>4, <3>1
  <2> QED
    BY <1>5, <2>1
<1>7. ps[1].start = Words(t)[i][1] /\ ps[n].end = Words(t)[j][2]
  BY <1>5, WholeFacts
<1> HIDE DEF c, n, i, j
<1>8. Spans(t, c, i, j)
  BY <1>2, <1>5, <1>6, <1>7 DEF Spans
<1>9. Lo(t, c) = i /\ Hi(t, c) = j /\ Whole(t, c)
  BY <1>5, <1>8, SpansOnce DEF Whole
<1>10. ASSUME NEW w
       PROVE  w \in ToSet(WordsOf(c.text)) <=> \E x \in i .. j : w = WordsOf(t)[x]
  BY <1>2, <1>4 DEF WordIn
<1> QED
  BY <1>2, <1>3, <1>9, <1>10 DEF Holds, c, i, j, n

\* Chunks that hold the words from a to h and begin in order, from a up to l.
Tiled(t, cs, a, l, h) ==
    /\ cs \in Seq(AnyChunk)
    /\ \A n \in 1 .. Len(cs) : /\ Holds(t, cs[n])
                               /\ a <= Lo(t, cs[n]) /\ Lo(t, cs[n]) <= l
    /\ \A n, o \in 1 .. Len(cs) : n <= o => Lo(t, cs[n]) <= Lo(t, cs[o])
    /\ \A x \in a .. h : \E n \in 1 .. Len(cs) : x \in Lo(t, cs[n]) .. Hi(t, cs[n])

LEMMA TiledNone ==
    ASSUME NEW t, NEW a \in Nat, NEW l, NEW h \in Int, h < a
    PROVE  Tiled(t, <<>>, a, l, h)
<1>1. <<>> \in Seq(AnyChunk) /\ Len(<<>>) = 0
  BY EmptySeq
<1>2. \A n : n \notin 1 .. 0
  OBVIOUS
<1>3. \A x : x \notin a .. h
  OBVIOUS
<1> QED
  BY <1>1, <1>2, <1>3 DEF Tiled

LEMMA TiledOne ==
    ASSUME NEW t \in AnyText, NEW c \in AnyChunk, Holds(t, c)
    PROVE  Tiled(t, <<c>>, Lo(t, c), Lo(t, c), Hi(t, c))
<1> DEFINE cs == <<c>>
<1>1. cs \in Seq(AnyChunk) /\ Len(cs) = 1 /\ cs[1] = c
  OBVIOUS
<1>2. Lo(t, c) \in Nat
  BY WholeFacts DEF Holds
<1>3. \A n \in 1 .. Len(cs) : cs[n] = c
  BY <1>1
<1>4. 1 \in 1 .. Len(cs)
  BY <1>1
<1> HIDE DEF cs
<1>5. \A x \in Lo(t, c) .. Hi(t, c) : x \in Lo(t, cs[1]) .. Hi(t, cs[1])
  BY <1>1
<1>6. Lo(t, c) <= Lo(t, c)
  BY <1>2
<1> QED
  BY <1>1, <1>3, <1>4, <1>5, <1>6 DEF Tiled, cs

LEMMA TiledMore ==
    ASSUME NEW t \in AnyText, NEW cs, NEW a \in Nat, NEW l \in Int, NEW h \in Int,
           Tiled(t, cs, a, l, h),
           NEW l2 \in Int, NEW h2 \in Int, l <= l2, h2 <= h
    PROVE  Tiled(t, cs, a, l2, h2)
<1>1. ASSUME NEW n \in 1 .. Len(cs) PROVE Lo(t, cs[n]) <= l2
  <2>1. Whole(t, cs[n]) /\ Lo(t, cs[n]) <= l
    BY DEF Tiled, Holds
  <2>2. Lo(t, cs[n]) \in Nat
    BY <2>1, WholeFacts
  <2> QED
    BY <2>1, <2>2
<1>2. \A x \in a .. h2 : x \in a .. h
  OBVIOUS
<1> QED
  BY <1>1, <1>2 DEF Tiled

LEMMA TiledJoin ==
    ASSUME NEW t \in AnyText,
           NEW r, NEW a \in Nat, NEW l \in Int, NEW h \in Int, Tiled(t, r, a, l, h),
           NEW s, NEW b \in Nat, NEW k \in Int, NEW i \in Int, Tiled(t, s, b, k, i),
           a <= b, l <= b, b <= h + 1, l <= k
    PROVE  Tiled(t, r \o s, a, k, i)
<1> DEFINE p == Len(r)
           q == Len(s)
           c == r \o s
           L(x) == Lo(t, x)
           H(x) == Hi(t, x)
           Small(x) == Holds(t, x)
<1>1. r \in Seq(AnyChunk) /\ s \in Seq(AnyChunk) /\ p \in Nat /\ q \in Nat
  BY LenProperties DEF Tiled
<1>2. /\ c \in Seq(AnyChunk) /\ Len(c) = p + q
      /\ \A n \in 1 .. p + q : c[n] = IF n <= p THEN r[n] ELSE s[n - p]
  BY <1>1, ConcatProperties
<1>3. /\ \A n \in 1 .. p : Small(r[n]) /\ a <= L(r[n]) /\ L(r[n]) <= l
      /\ \A n, o \in 1 .. p : n <= o => L(r[n]) <= L(r[o])
      /\ \A x \in a .. h : \E n \in 1 .. p : x \in L(r[n]) .. H(r[n])
  BY DEF Tiled
<1>4. /\ \A n \in 1 .. q : Small(s[n]) /\ b <= L(s[n]) /\ L(s[n]) <= k
      /\ \A n, o \in 1 .. q : n <= o => L(s[n]) <= L(s[o])
      /\ \A x \in b .. i : \E n \in 1 .. q : x \in L(s[n]) .. H(s[n])
  BY DEF Tiled
<1>5. \A x : Small(x) => L(x) \in Nat
  BY WholeFacts DEF Holds
<1> HIDE DEF p, q, c, L, H, Small
<1>6. ASSUME NEW n \in 1 .. p + q
      PROVE  \/ n \in 1 .. p /\ c[n] = r[n]
             \/ n - p \in 1 .. q /\ c[n] = s[n - p] /\ p < n
  BY <1>1, <1>2
<1>7. /\ \A n \in 1 .. p : n \in 1 .. p + q /\ c[n] = r[n]
      /\ \A n \in 1 .. q : n + p \in 1 .. p + q /\ c[n + p] = s[n]
  <2>1. ASSUME NEW n \in 1 .. p PROVE n \in 1 .. p + q /\ c[n] = r[n]
    BY <1>1, <1>2
  <2>2. ASSUME NEW n \in 1 .. q PROVE n + p \in 1 .. p + q /\ c[n + p] = s[n]
    <3>1. n + p \in 1 .. p + q /\ ~(n + p <= p) /\ (n + p) - p = n
      BY <1>1
    <3> QED
      BY <1>2, <3>1
  <2> QED
    BY <2>1, <2>2
<1>8. ASSUME NEW n \in 1 .. p + q
      PROVE  Small(c[n]) /\ a <= L(c[n]) /\ L(c[n]) <= k
  <2>1. CASE n \in 1 .. p /\ c[n] = r[n]
    <3>1. Small(r[n]) /\ a <= L(r[n]) /\ L(r[n]) <= l /\ L(r[n]) \in Nat
      BY <1>3, <1>5, <2>1
    <3> QED
      BY <2>1, <3>1
  <2>2. CASE n - p \in 1 .. q /\ c[n] = s[n - p]
    <3>1. Small(c[n]) /\ b <= L(c[n]) /\ L(c[n]) <= k
      BY <1>4, <2>2
    <3>2. L(c[n]) \in Nat
      BY <1>5, <3>1
    <3> QED
      BY <3>1, <3>2
  <2> QED
    BY <1>6, <2>1, <2>2
<1>9. ASSUME NEW n \in 1 .. p + q, NEW o \in 1 .. p + q, n <= o
      PROVE  L(c[n]) <= L(c[o])
  <2>1. CASE o \in 1 .. p /\ c[o] = r[o]
    <3>1. n \in 1 .. p /\ c[n] = r[n]
      BY <1>1, <1>7, <1>9, <2>1
    <3> QED
      BY <1>3, <1>9, <2>1, <3>1
  <2>2. CASE o - p \in 1 .. q /\ c[o] = s[o - p] /\ p < o
    <3>1. CASE n \in 1 .. p /\ c[n] = r[n]
      <4>1. L(c[n]) <= l /\ b <= L(c[o]) /\ L(c[n]) \in Nat /\ L(c[o]) \in Nat
        <5>1. L(c[n]) <= l
          BY <1>3, <3>1
        <5>2. b <= L(c[o])
          BY <1>4, <2>2
        <5>3. Small(c[n]) /\ Small(c[o])
          BY <1>8
        <5> QED
          BY <1>5, <5>1, <5>2, <5>3
      <4> QED
        BY <4>1
    <3>2. CASE n - p \in 1 .. q /\ c[n] = s[n - p]
      <4>1. n - p <= o - p
        BY <1>1, <1>9
      <4>2. L(s[n - p]) <= L(s[o - p])
        BY <1>4, <2>2, <3>2, <4>1
      <4> QED
        BY <2>2, <3>2, <4>2
    <3> QED
      BY <1>6, <3>1, <3>2
  <2> QED
    BY <1>6, <2>1, <2>2
<1>10. ASSUME NEW x \in a .. i
       PROVE  \E n \in 1 .. p + q : x \in L(c[n]) .. H(c[n])
  <2>1. CASE x <= h
    <3>1. PICK n \in 1 .. p : x \in L(r[n]) .. H(r[n])
      <4>1. x \in a .. h
        BY <2>1
      <4> QED
        BY <1>3, <4>1
    <3> QED
      BY <1>7, <3>1
  <2>2. CASE ~(x <= h)
    <3>1. PICK n \in 1 .. q : x \in L(s[n]) .. H(s[n])
      <4>1. x \in b .. i
        BY <2>2
      <4> QED
        BY <1>4, <4>1
    <3>2. n + p \in 1 .. p + q /\ c[n + p] = s[n]
      BY <1>7
    <3>3. x \in L(c[n + p]) .. H(c[n + p])
      BY <3>1, <3>2
    <3> QED
      BY <3>2, <3>3
  <2> QED
    BY <2>1, <2>2
<1>11. /\ \A n \in 1 .. Len(c) : Small(c[n]) /\ a <= L(c[n]) /\ L(c[n]) <= k
       /\ \A n, o \in 1 .. Len(c) : n <= o => L(c[n]) <= L(c[o])
       /\ \A x \in a .. i : \E n \in 1 .. Len(c) : x \in L(c[n]) .. H(c[n])
  BY <1>2, <1>8, <1>9, <1>10
<1> QED
  BY <1>2, <1>11 DEF Tiled, c, L, H, Small

-----------------------------------------------------------------------------
(* Packing.                                                                *)

LEMMA CarriedFacts ==
    ASSUME NEW S, NEW ps \in Seq(S), NEW overlap \in Nat
    PROVE  \E o \in 1 .. Len(ps) + 1 :
              /\ Carried(ps, overlap) = SubSeq(ps, o, Len(ps))
              /\ TokensOf(SubSeq(ps, o, Len(ps))) <= overlap
<1> DEFINE n == Len(ps)
           F == {i \in 1 .. n + 1 : TokensOf(SubSeq(ps, i, n)) <= overlap}
<1>1. n \in Nat
  BY LenProperties
<1>2. SubSeq(ps, n + 1, n) = <<>>
  BY <1>1, SubSeqEmpty
<1>3. n + 1 \in F
  <2>1. TokensOf(SubSeq(ps, n + 1, n)) = 0
    BY <1>2, NoTokens
  <2>2. n + 1 \in 1 .. n + 1 /\ 0 <= overlap
    BY <1>1
  <2> QED
    BY <2>1, <2>2
<1>4. F \subseteq Nat
  BY <1>1
<1>5. Carried(ps, overlap) = SubSeq(ps, Min(F), n)
  BY DEF Carried
<1>6. \A i \in F : i \in 1 .. n + 1 /\ TokensOf(SubSeq(ps, i, n)) <= overlap
  OBVIOUS
<1> HIDE DEF F
<1>7. Min(F) \in F
  BY <1>3, <1>4, LeastOf
<1> QED
  BY <1>5, <1>6, <1>7

Chunker == [strategy : {"fixed", "semantic"}, max : Nat, min : Nat, overlap : Nat]

\* The pieces up to i are packed, the open ones from o on, and all words before
\* them are in chunks.
PackedTo(t, ps, packed, o, i, a) ==
    /\ packed \in [done : Seq(AnyChunk), open : Seq(Pieces(t))]
    /\ packed.open = SubSeq(ps, o, i)
    /\ Tiled(t, packed.done, a, Lo(t, ps[o]), Lo(t, ps[o]) - 1)

\* The open pieces become a chunk.
LEMMA FlushedTiled ==
    ASSUME NEW t \in AnyText, NEW ps, Chain(t, ps), NEW packed,
           NEW a \in Nat, NEW o \in 1 .. Len(ps), NEW i \in o .. Len(ps),
           PackedTo(t, ps, packed, o, i, a), a <= Lo(t, ps[o]),
           NEW sep \in Separators
    PROVE  /\ packed.open # <<>>
           /\ Tiled(t, Append(packed.done, Span(packed.open, sep)), a,
                    Lo(t, ps[o]), Hi(t, ps[i]))
<1> DEFINE qs == packed.open
           c == Span(qs, sep)
           d == packed.done
<1>1. /\ Len(ps) \in Nat
      /\ \A k \in 1 .. Len(ps) : Lo(t, ps[k]) \in Nat /\ Hi(t, ps[k]) \in Nat
      /\ ps \in Seq(Pieces(t))
  BY ChainFacts DEF Chain
<1>2. o \in Nat /\ i \in Nat /\ 1 <= o /\ o <= i /\ o <= i + 1 /\ i <= Len(ps)
      /\ i \in 1 .. Len(ps)
  BY <1>1
<1>3. qs = SubSeq(ps, o, i) /\ d \in Seq(AnyChunk)
      /\ Tiled(t, d, a, Lo(t, ps[o]), Lo(t, ps[o]) - 1)
  BY DEF PackedTo
<1>4. Chain(t, qs)
  BY <1>2, <1>3, ChainPart
<1>5. /\ Len(qs) = i - o + 1
      /\ \A k \in 1 .. i - o + 1 : qs[k] = ps[o + k - 1]
  BY <1>1, <1>2, <1>3, SliceFacts
<1>6. 1 \in 1 .. i - o + 1 /\ i - o + 1 \in 1 .. i - o + 1
      /\ o + 1 - 1 = o /\ o + (i - o + 1) - 1 = i /\ i - o + 1 # 0
  BY <1>2
<1>7. qs[1] = ps[o] /\ qs[Len(qs)] = ps[i]
  <2>1. qs[1] = ps[o + 1 - 1]
    BY <1>5, <1>6
  <2>2. qs[i - o + 1] = ps[o + (i - o + 1) - 1]
    BY <1>5, <1>6
  <2> QED
    BY <1>5, <1>6, <2>1, <2>2
<1> HIDE DEF qs, d
<1>8. qs # <<>>
  BY <1>5, <1>6, EmptySeq
<1>9. /\ c \in AnyChunk /\ Holds(t, c) /\ Lo(t, c) = Lo(t, ps[o])
      /\ Hi(t, c) = Hi(t, ps[i])
  BY <1>4, <1>7, <1>8, ChainSpan
<1> HIDE DEF c
<1>10. Tiled(t, <<c>>, Lo(t, ps[o]), Lo(t, ps[o]), Hi(t, ps[i]))
  BY <1>3, <1>9, TiledOne
<1>11. Append(d, c) = d \o <<c>>
  BY <1>3, <1>9, AppendIsConcat
<1>12. Tiled(t, d \o <<c>>, a, Lo(t, ps[o]), Hi(t, ps[i]))
  <2> DEFINE x == Lo(t, ps[o])
             y == Hi(t, ps[i])
  <2>1. x \in Nat /\ y \in Nat
    BY <1>1, <1>2
  <2>2. Tiled(t, d, a, x, x - 1) /\ Tiled(t, <<c>>, x, x, y) /\ a <= x
    BY <1>3, <1>10
  <2> HIDE DEF x, y
  <2>3. x \in Int /\ y \in Int /\ x - 1 \in Int /\ x <= (x - 1) + 1 /\ x <= x
    BY <2>1
  <2>4. Tiled(t, d \o <<c>>, a, x, y)
    BY <2>1, <2>2, <2>3, TiledJoin
  <2> QED
    BY <2>4 DEF x, y
<1> QED
  BY <1>8, <1>11, <1>12 DEF qs, c, d

\* The next piece is packed.
LEMMA PackKeeps ==
    ASSUME NEW t \in AnyText, NEW ps, Chain(t, ps), NEW packed,
           NEW a \in Nat, NEW o \in 1 .. Len(ps), NEW i \in o .. Len(ps),
           PackedTo(t, ps, packed, o, i - 1, a), a <= Lo(t, ps[o]),
           NEW sep \in Separators, NEW c \in Chunker
    PROVE  \E p \in o .. i : PackedTo(t, ps, Pack(c, sep, packed, ps[i]), p, i, a)
<1> DEFINE qs == packed.open
           d == packed.done
           n == Len(ps)
           new == Pack(c, sep, packed, ps[i])
<1>1. /\ n \in Nat /\ ps \in Seq(Pieces(t))
      /\ \A k \in 1 .. n : Lo(t, ps[k]) \in Nat /\ Hi(t, ps[k]) \in Nat
                           /\ ps[k] \in Pieces(t)
  BY ChainFacts DEF Chain
<1>2. o \in Nat /\ i \in Nat /\ 1 <= o /\ o <= i /\ i <= n /\ i \in 1 .. n
  BY <1>1
<1>3. /\ packed = [done |-> d, open |-> qs]
      /\ d \in Seq(AnyChunk) /\ qs \in Seq(Pieces(t))
      /\ qs = SubSeq(ps, o, i - 1)
      /\ Tiled(t, d, a, Lo(t, ps[o]), Lo(t, ps[o]) - 1)
  BY DEF PackedTo
<1>4. c.max \in Nat /\ c.overlap \in Nat
  BY DEF Chunker
<1> HIDE DEF n
<1>5. ASSUME NEW p \in o .. i, NEW rs \in Seq(Pieces(t)), rs = SubSeq(ps, p, i - 1)
      PROVE  /\ Append(rs, ps[i]) = SubSeq(ps, p, i)
             /\ Append(rs, ps[i]) \in Seq(Pieces(t))
  <2>1. p \in 1 .. Len(ps) /\ i \in p .. Len(ps) /\ ps[i] \in Pieces(t)
    BY <1>1, <1>2 DEF n
  <2>2. SubSeq(ps, p, i) = SubSeq(ps, p, i - 1) \o <<ps[i]>>
    BY <1>1, <2>1, SubSeqRecursiveSecond
  <2>3. Append(rs, ps[i]) = rs \o <<ps[i]>>
    BY <2>1, AppendIsConcat
  <2>4. Append(rs, ps[i]) \in Seq(Pieces(t))
    BY <2>1, AppendProperties
  <2> QED
    BY <1>5, <2>2, <2>3, <2>4
<1>6. CASE /\ TokensOf(qs) + Tokens(ps[i]) > c.max
           /\ qs # <<>>
  <2> DEFINE rs == Carried(qs, c.overlap)
             e == Append(d, Span(qs, sep))
  <2>1. new = [done |-> e, open |-> Append(rs, ps[i])]
    BY <1>6 DEF Pack
  <2>2. PICK q \in 1 .. Len(qs) + 1 :
            rs = SubSeq(qs, q, Len(qs))
    BY <1>3, <1>4, CarriedFacts
  <2>3. o <= i - 1
    <3>1. CASE o = i
      <4>1. SubSeq(ps, o, i - 1) = <<>>
        BY <1>2, <3>1, SubSeqEmpty
      <4> QED
        BY <1>3, <1>6, <4>1
    <3> QED
      BY <1>2, <3>1
  <2>4. i - 1 \in o .. Len(ps) /\ i - 1 \in Nat /\ i - 1 \in 1 .. n
    BY <1>2, <2>3 DEF n
  <2>5. Tiled(t, e, a, Lo(t, ps[o]), Hi(t, ps[i - 1]))
    BY <2>4, FlushedTiled
  <2>6. /\ Len(qs) = (i - 1) - o + 1
        /\ \A k \in 1 .. (i - 1) - o + 1 : qs[k] = ps[o + k - 1]
    <3> DEFINE b == i - 1
    <3>1. b \in Nat /\ o <= b + 1 /\ b <= Len(ps)
      BY <1>2, <2>4 DEF n
    <3>2. qs = SubSeq(ps, o, b)
      BY <1>3
    <3> HIDE DEF b
    <3>5. ps \in Seq(Pieces(t)) /\ o \in Nat /\ 1 <= o
      BY <1>1, <1>2
    <3>3. /\ Len(SubSeq(ps, o, b)) = b - o + 1
          /\ \A k \in 1 .. b - o + 1 : SubSeq(ps, o, b)[k] = ps[o + k - 1]
      BY SMTT(30), <3>1, <3>5, SliceFacts
    <3>4. Len(qs) = b - o + 1 /\ \A k \in 1 .. b - o + 1 : qs[k] = ps[o + k - 1]
      BY <3>2, <3>3
    <3> QED
      BY <3>4 DEF b
  <2> DEFINE p == o + q - 1
  <2>0. Len(qs) = (i - 1) - o + 1 /\ q \in Nat /\ 1 <= q /\ q <= Len(qs) + 1
    <3>1. Len(qs) = (i - 1) - o + 1
      BY <2>6
    <3> QED
      BY <1>2, <3>1
  <2>7. p \in o .. i /\ p \in 1 .. n /\ o <= p
    <3>1. n \in Nat
      BY <1>1
    <3> QED
      BY <1>2, <2>0, <3>1
  <2>8. rs = SubSeq(ps, p, i - 1)
    <3>1. CASE q = Len(qs) + 1
      <4>1. SubSeq(qs, q, Len(qs)) = <<>>
        BY <2>4, <1>2, <2>6, <3>1, SubSeqEmpty
      <4>2. p = i
        BY <1>2, <2>4, <2>6, <3>1
      <4>3. SubSeq(ps, p, i - 1) = <<>>
        BY <1>2, <4>2, SubSeqEmpty
      <4> QED
        BY <2>2, <4>1, <4>3
    <3>2. CASE q # Len(qs) + 1
      <4>1. /\ o \in 1 .. Len(ps) /\ i - 1 \in 1 .. Len(ps)
            /\ q \in 1 .. (i - 1) - o + 1 /\ Len(qs) \in 1 .. (i - 1) - o + 1
        BY <1>2, <2>0, <2>4, <3>2 DEF n
      <4>2. SubSeq(SubSeq(ps, o, i - 1), q, Len(qs)) =
               SubSeq(ps, o + q - 1, o + Len(qs) - 1)
        BY <1>1, <4>1, SubSeqOfSubSeq
      <4>3. o + Len(qs) - 1 = i - 1
        BY <1>2, <2>4, <2>6
      <4> QED
        BY <1>3, <2>2, <4>2, <4>3
    <3> QED
      BY <3>1, <3>2
  <2>9. rs \in Seq(Pieces(t))
    <3>1. p \in Nat /\ 1 <= p /\ p <= (i - 1) + 1 /\ i - 1 <= Len(ps)
      BY <1>2, <2>7 DEF n
    <3> QED
      BY SMTT(30), <1>1, <2>4, <2>8, <3>1, SliceFacts
  <2> HIDE DEF p, rs, e, qs, d, new
  <2>10. /\ Append(rs, ps[i]) = SubSeq(ps, p, i)
         /\ Append(rs, ps[i]) \in Seq(Pieces(t))
    BY <1>5, <2>7, <2>8, <2>9
  <2>12. Tiled(t, e, a, Lo(t, ps[p]), Lo(t, ps[p]) - 1)
    <3> DEFINE x == Lo(t, ps[o])
               y == Hi(t, ps[i - 1])
               z == Lo(t, ps[p])
    <3>1. x \in Nat /\ y \in Nat /\ z \in Nat
      BY <1>1, <1>2, <2>4, <2>7 DEF n
    <3>2. x <= z
      BY <2>7, ChainOrder DEF n
    <3>3. z <= y + 1
      <4>1. CASE p = i
        <5>1. Abuts(t, ps[i - 1], ps[i])
          <6>1. i - 1 \in 1 .. Len(ps) /\ i \in 1 .. Len(ps) /\ i = (i - 1) + 1
            BY <1>2, <2>4 DEF n
          <6> QED
            BY <6>1 DEF Chain
        <5> QED
          BY <4>1, <5>1 DEF Abuts
      <4>2. CASE p # i
        <5>1. p \in 1 .. Len(ps) /\ i - 1 \in 1 .. Len(ps) /\ p <= i - 1
          BY <1>2, <2>4, <2>7, <4>2 DEF n
        <5>2. Hi(t, ps[p]) <= y
          BY <5>1, ChainOrder
        <5>3. z <= Hi(t, ps[p]) /\ Hi(t, ps[p]) \in Nat
          BY <5>1, ChainFacts
        <5> QED
          BY <3>1, <5>2, <5>3
      <4> QED
        BY <4>1, <4>2
    <3>4. Tiled(t, e, a, x, y)
      BY <2>5
    <3> HIDE DEF x, y, z
    <3>5. x \in Int /\ y \in Int /\ z \in Int /\ z - 1 \in Int /\ z - 1 <= y
      BY <3>1, <3>3
    <3>6. Tiled(t, e, a, z, z - 1)
      BY <3>2, <3>4, <3>5, TiledMore
    <3> QED
      BY <3>6 DEF z
  <2>13. e \in Seq(AnyChunk)
    BY <2>5 DEF Tiled
  <2>14. PackedTo(t, ps, new, p, i, a)
    BY <2>1, <2>10, <2>12, <2>13 DEF PackedTo
  <2> QED
    BY <2>7, <2>14 DEF new
<1>7. CASE ~(/\ TokensOf(qs) + Tokens(ps[i]) > c.max
             /\ qs # <<>>)
  <2>1. new = [packed EXCEPT !.open = Append(qs, ps[i])]
    BY <1>7 DEF Pack
  <2> HIDE DEF qs, d, new
  <2>2. new = [done |-> d, open |-> Append(qs, ps[i])]
    BY <1>3, <2>1
  <2>3. /\ Append(qs, ps[i]) = SubSeq(ps, o, i)
        /\ Append(qs, ps[i]) \in Seq(Pieces(t))
    <3>1. o \in o .. i
      BY <1>2
    <3> QED
      BY <1>3, <1>5, <3>1
  <2>5. PackedTo(t, ps, new, o, i, a)
    BY <1>3, <2>2, <2>3 DEF PackedTo
  <2>6. o \in o .. i
    BY <1>2
  <2> QED
    BY <2>5, <2>6 DEF new
<1> QED
  BY <1>6, <1>7

States(t) == [done : Seq(AnyChunk), open : Seq(Pieces(t))]

LEMMA StateFacts ==
    ASSUME NEW t \in AnyText, NEW r \in States(t), NEW sep \in Separators
    PROVE  /\ r = [done |-> r.done, open |-> r.open]
           /\ r.done \in Seq(AnyChunk) /\ r.open \in Seq(Pieces(t))
           /\ Flushed(sep, r) \in Seq(AnyChunk)
           /\ Empty \in States(t)
<1>1. /\ r = [done |-> r.done, open |-> r.open]
      /\ r.done \in Seq(AnyChunk) /\ r.open \in Seq(Pieces(t))
  BY DEF States
<1>2. r.open # <<>> => Append(r.done, Span(r.open, sep)) \in Seq(AnyChunk)
  BY <1>1, SpanTyped, AppendProperties
<1>3. <<>> \in Seq(AnyChunk) /\ <<>> \in Seq(Pieces(t))
  BY EmptySeq
<1> QED
  BY <1>1, <1>2, <1>3 DEF Flushed, Empty, States

LEMMA PackTyped ==
    ASSUME NEW t \in AnyText, NEW r \in States(t), NEW sep \in Separators,
           NEW c \in Chunker, NEW p \in Pieces(t)
    PROVE  Pack(c, sep, r, p) \in States(t)
<1> DEFINE d == r.done
           qs == r.open
           e == Append(d, Span(qs, sep))
           rs == Carried(qs, c.overlap)
<1>1. r = [done |-> d, open |-> qs] /\ d \in Seq(AnyChunk) /\ qs \in Seq(Pieces(t))
  BY StateFacts
<1>2. Append(qs, p) \in Seq(Pieces(t))
  BY <1>1, AppendProperties
<1>3. rs \in Seq(Pieces(t))
  <2>1. c.overlap \in Nat
    BY DEF Chunker
  <2>2. PICK o \in 1 .. Len(qs) + 1 : rs = SubSeq(qs, o, Len(qs))
    BY <1>1, <2>1, CarriedFacts
  <2>3. Len(qs) \in Nat
    BY <1>1, LenProperties
  <2>4. o \in Nat /\ 1 <= o /\ o <= Len(qs) + 1 /\ Len(qs) <= Len(qs)
    BY <2>3
  <2> QED
    BY <1>1, <2>2, <2>3, <2>4, SliceFacts
<1>4. Append(rs, p) \in Seq(Pieces(t))
  BY <1>3, AppendProperties
<1>5. CASE /\ TokensOf(qs) + Tokens(p) > c.max
           /\ qs # <<>>
  <2>1. e \in Seq(AnyChunk)
    BY <1>1, <1>5, SpanTyped, AppendProperties
  <2>2. Pack(c, sep, r, p) = [done |-> e, open |-> Append(rs, p)]
    BY <1>5 DEF Pack
  <2> HIDE DEF e, rs
  <2> QED
    BY <1>4, <2>1, <2>2 DEF States
<1>6. CASE ~(/\ TokensOf(qs) + Tokens(p) > c.max
             /\ qs # <<>>)
  <2>1. Pack(c, sep, r, p) = [r EXCEPT !.open = Append(qs, p)]
    BY <1>6 DEF Pack
  <2> HIDE DEF d, qs
  <2>2. Pack(c, sep, r, p) = [done |-> d, open |-> Append(qs, p)]
    BY <1>1, <2>1
  <2> QED
    BY <1>1, <1>2, <2>2 DEF States
<1> QED
  BY <1>5, <1>6

\* The parts of Packed, by name.
PackBy(f, c, sep, ps) ==
    f = [i \in 0 .. Len(ps) |-> IF i = 0 THEN Empty
                                ELSE Pack(c, sep, f[i - 1], ps[i])]

LEMMA PackedChosen ==
    ASSUME NEW c, NEW sep, NEW ps
    PROVE  Packed(c, sep, ps) =
              Flushed(sep, (CHOOSE f : PackBy(f, c, sep, ps))[Len(ps)])
BY DEF Packed, PackBy

\* Whatever Pack keeps, holds throughout.
PackKeepsIn(V, S, c, sep) == \A r \in V, p \in S : Pack(c, sep, r, p) \in V

LEMMA PackWithin ==
    ASSUME NEW S, NEW ps \in Seq(S), NEW c, NEW sep, NEW V, Empty \in V,
           PackKeepsIn(V, S, c, sep), NEW f, f = CHOOSE g : PackBy(g, c, sep, ps)
    PROVE  /\ f[0] = Empty
           /\ \A i \in 1 .. Len(ps) : f[i] = Pack(c, sep, f[i - 1], ps[i])
           /\ \A i \in 0 .. Len(ps) : f[i] \in V
<1> DEFINE n == Len(ps)
           step == [x \in V \X (1 .. n) |-> Pack(c, sep, x[1], ps[x[2]])]
<1>1. n \in Nat /\ \A i \in 1 .. n : ps[i] \in S
  BY LenProperties, ElementOfSeq
<1>3. \A r \in V, i \in 1 .. n : Pack(c, sep, r, ps[i]) \in V
  BY <1>1 DEF PackKeepsIn
<1>4. \A r \in V, i \in 1 .. n : step[<<r, i>>] = Pack(c, sep, r, ps[i])
  OBVIOUS
<1>5. step \in [V \X (1 .. n) -> V]
  BY <1>3
<1> HIDE DEF step, n
<1>6. PICK g \in [0 .. n -> V] : Recurs(g, n, Empty, step)
  BY <1>1, <1>5, Recursion
<1>7. PackBy(g, c, sep, ps)
  <2> DEFINE h == [i \in 0 .. n |-> IF i = 0 THEN Empty
                                    ELSE Pack(c, sep, g[i - 1], ps[i])]
             e == [i \in 0 .. n |-> IF i = 0 THEN Empty ELSE step[<<g[i - 1], i>>]]
  <2>1. g = e
    BY <1>6 DEF Recurs
  <2>2. ASSUME NEW i \in 0 .. n PROVE e[i] = h[i]
    <3>1. CASE i = 0
      BY <3>1
    <3>2. CASE i # 0
      <4>1. i - 1 \in 0 .. n /\ i \in 1 .. n
        BY <1>1, <3>2
      <4>2. g[i - 1] \in V
        BY <1>6, <4>1
      <4> QED
        BY <1>4, <3>2, <4>1, <4>2
    <3> QED
      BY <3>1, <3>2
  <2>3. e = h
    BY <2>2
  <2> QED
    BY <2>1, <2>3 DEF PackBy, n
<1>8. PackBy(f, c, sep, ps)
  BY <1>7
<1> DEFINE h == [i \in 0 .. n |-> IF i = 0 THEN Empty
                                  ELSE Pack(c, sep, f[i - 1], ps[i])]
<1>9. f = h
  BY <1>8 DEF PackBy, n
<1>10. h[0] = Empty /\ \A i \in 1 .. n : h[i] = Pack(c, sep, f[i - 1], ps[i])
  BY <1>1
<1> HIDE DEF h
<1>11. f[0] = Empty /\ \A i \in 1 .. n : f[i] = Pack(c, sep, f[i - 1], ps[i])
  BY <1>9, <1>10
<1> DEFINE P == {i \in 0 .. n : f[i] \in V}
<1>12. 0 \in P
  BY <1>1, <1>11
<1>13. ASSUME NEW i \in 0 .. n, i < n, i \in P PROVE i + 1 \in P
  <2>1. ASSUME NEW j \in 1 .. n, j = i + 1 PROVE f[j] \in V
    <3>1. f[j] = Pack(c, sep, f[j - 1], ps[j]) /\ j - 1 = i
      BY <1>11, <2>1
    <3>2. f[i] \in V
      BY <1>13
    <3> QED
      BY <1>3, <3>1, <3>2
  <2>2. i + 1 \in 1 .. n /\ i + 1 \in 0 .. n
    BY <1>1, <1>13
  <2> QED
    BY <2>1, <2>2
<1>14. \A i \in 0 .. n : f[i] \in V
  <2> HIDE DEF P
  <2>1. \A i \in 0 .. n : i \in P
    BY <1>1, <1>12, <1>13, UpTo
  <2> QED
    BY <2>1 DEF P
<1> QED
  BY <1>11, <1>14 DEF n

LEMMA PackFunction ==
    ASSUME NEW t \in AnyText, NEW ps \in Seq(Pieces(t)), NEW sep \in Separators,
           NEW c \in Chunker, NEW f, f = CHOOSE g : PackBy(g, c, sep, ps)
    PROVE  /\ f[0] = Empty
           /\ \A i \in 1 .. Len(ps) : f[i] = Pack(c, sep, f[i - 1], ps[i])
           /\ \A i \in 0 .. Len(ps) : f[i] \in States(t)
<1>1. Empty \in States(t)
  <2>1. <<>> \in Seq(AnyChunk) /\ <<>> \in Seq(Pieces(t))
    BY EmptySeq
  <2> QED
    BY <2>1 DEF States, Empty
<1>2. PackKeepsIn(States(t), Pieces(t), c, sep)
  BY PackTyped DEF PackKeepsIn
<1> QED
  BY <1>1, <1>2, PackWithin

LEMMA PackedTiled ==
    ASSUME NEW t \in AnyText, NEW ps, Chain(t, ps), ps # <<>>,
           NEW sep \in Separators, NEW c \in Chunker
    PROVE  Tiled(t, Packed(c, sep, ps), Lo(t, ps[1]), Lo(t, ps[Len(ps)]),
                 Hi(t, ps[Len(ps)]))
<1> DEFINE n == Len(ps)
           f == CHOOSE g : PackBy(g, c, sep, ps)
           a == Lo(t, ps[1])
<1>1. ps \in Seq(Pieces(t)) /\ n \in 1 .. n /\ 1 \in 1 .. n /\ n \in Nat
  BY ChainWords, ChainFacts DEF Chain
<1>2. /\ f[0] = Empty
      /\ \A i \in 1 .. n : f[i] = Pack(c, sep, f[i - 1], ps[i])
      /\ \A i \in 0 .. n : f[i] \in States(t)
  BY <1>1, PackFunction
<1>3. Packed(c, sep, ps) = Flushed(sep, f[n])
  BY PackedChosen
<1>4. \A k \in 1 .. n : Lo(t, ps[k]) \in Nat /\ Hi(t, ps[k]) \in Nat /\ a <= Lo(t, ps[k])
  <2> TAKE k \in 1 .. n
  <2>1. 1 <= k
    BY <1>1
  <2>2. a <= Lo(t, ps[k])
    BY <1>1, <2>1, ChainOrder
  <2> QED
    BY <2>2, ChainFacts
<1>5. a \in Nat
  BY <1>1, <1>4
<1> HIDE DEF f, n, a
<1> DEFINE P == {i \in 0 .. n : i = 0 \/ \E o \in 1 .. i : PackedTo(t, ps, f[i], o, i, a)}
<1>6. 0 \in P
  BY <1>1
<1>7. ASSUME NEW i \in 0 .. n, i < n, i \in P PROVE i + 1 \in P
  <2>1. ASSUME NEW j \in 1 .. n, j = i + 1
        PROVE  \E o \in 1 .. j : PackedTo(t, ps, f[j], o, j, a)
    <3>1. j - 1 = i /\ f[j] = Pack(c, sep, f[j - 1], ps[j])
      BY <1>2, <2>1
    <3>2. PICK o \in 1 .. j : PackedTo(t, ps, f[j - 1], o, j - 1, a)
      <4>1. CASE i = 0
        <5>1. j = 1 /\ f[j - 1] = Empty /\ j - 1 = 0
          BY <1>2, <2>1, <4>1
        <5>2. SubSeq(ps, 1, 0) = <<>>
          BY SubSeqEmpty
        <5>3. /\ Empty.open = <<>> /\ Empty.done = <<>>
              /\ Empty \in [done : Seq(AnyChunk), open : Seq(Pieces(t))]
          <6>1. Empty \in States(t)
            BY <1>2, <1>1
          <6> QED
            BY <6>1 DEF Empty, States
        <5>4. Tiled(t, <<>>, a, a, a - 1)
          <6>1. a - 1 \in Int /\ a - 1 < a
            BY <1>5
          <6> QED
            BY <1>5, <6>1, TiledNone
        <5>6. PackedTo(t, ps, Empty, 1, 0, a)
          BY <5>2, <5>3, <5>4 DEF PackedTo, a
        <5> QED
          BY <5>1, <5>6
      <4>2. CASE i # 0
        <5>1. PICK o \in 1 .. i : PackedTo(t, ps, f[i], o, i, a)
          BY <1>7, <4>2
        <5>2. o \in 1 .. j
          BY <2>1
        <5> QED
          BY <3>1, <5>1, <5>2
      <4> QED
        BY <4>1, <4>2
    <3>3. o \in 1 .. Len(ps) /\ j \in o .. Len(ps) /\ o \in Nat
      BY <1>1 DEF n
    <3>4. a <= Lo(t, ps[o])
      BY <1>4, <3>3 DEF n
    <3>6. PICK p \in o .. j : PackedTo(t, ps, Pack(c, sep, f[j - 1], ps[j]), p, j, a)
      BY <1>5, <3>2, <3>3, <3>4, PackKeeps
    <3>7. p \in 1 .. j
      BY <3>3
    <3> QED
      BY <3>1, <3>6, <3>7
  <2>2. i + 1 \in 1 .. n /\ i + 1 \in 0 .. n
    BY <1>1, <1>7
  <2> QED
    BY <2>1, <2>2
<1>8. PICK o \in 1 .. n : PackedTo(t, ps, f[n], o, n, a)
  <2> HIDE DEF P
  <2>1. \A i \in 0 .. n : i \in P
    BY <1>1, <1>6, <1>7, UpTo
  <2>2. n \in P /\ n # 0
    BY <1>1, <2>1
  <2> QED
    BY <2>2 DEF P
<1>9. o \in 1 .. Len(ps) /\ n \in o .. Len(ps) /\ a <= Lo(t, ps[o])
  BY <1>1, <1>4 DEF n
<1>10. /\ f[n].open # <<>>
       /\ Tiled(t, Append(f[n].done, Span(f[n].open, sep)), a,
                Lo(t, ps[o]), Hi(t, ps[n]))
  BY <1>5, <1>8, <1>9, FlushedTiled
<1>11. Packed(c, sep, ps) = Append(f[n].done, Span(f[n].open, sep))
  BY <1>3, <1>10 DEF Flushed
<1>12. Lo(t, ps[o]) <= Lo(t, ps[n])
  BY <1>1, <1>9, ChainOrder DEF n
<1>13. Lo(t, ps[o]) \in Int /\ Lo(t, ps[n]) \in Int /\ Hi(t, ps[n]) \in Int
       /\ Hi(t, ps[n]) <= Hi(t, ps[n])
  BY <1>1, <1>4
<1>14. Tiled(t, Packed(c, sep, ps), a, Lo(t, ps[n]), Hi(t, ps[n]))
  BY <1>5, <1>10, <1>11, <1>12, <1>13, TiledMore
<1> QED
  BY <1>14 DEF a, n

-----------------------------------------------------------------------------
(* Sentences.                                                              *)

\* n things cut after the ones in last: where each group begins and ends.
Openings(n, last) == {i \in 1 .. n : i = 1 \/ i - 1 \in last}
Until(last, i) == Min({j \in last : j >= i})

Groups(n, last, s, N) ==
    /\ s \in [1 .. N -> 1 .. n]
    /\ N = 0 <=> n = 0
    /\ N >= 1 => s[1] = 1 /\ Until(last, s[N]) = n
    /\ \A k \in 1 .. N : /\ Until(last, s[k]) \in last
                         /\ Until(last, s[k]) \in 1 .. n
                         /\ s[k] <= Until(last, s[k])
                         /\ \A j \in last : j >= s[k] => Until(last, s[k]) <= j
    /\ \A k, l \in 1 .. N : l = k + 1 => s[l] = Until(last, s[k]) + 1

LEMMA CutUp ==
    ASSUME NEW n \in Nat, NEW last, last \subseteq 1 .. n, n >= 1 => n \in last,
           NEW s, s = Sorted(Openings(n, last))
    PROVE  \E N \in Nat : Groups(n, last, s, N)
<1> DEFINE F == Openings(n, last)
           N == Cardinality(F)
           c(i) == Until(last, i)
<1>1. F \subseteq 1 .. n /\ F \subseteq Int
  BY DEF Openings
<1>2. IsFiniteSet(F) /\ N \in Nat
  <2>1. IsFiniteSet(1 .. n) /\ F \in SUBSET (1 .. n)
    BY <1>1, FS_Interval
  <2>2. IsFiniteSet(F)
    BY <2>1, FS_Subset
  <2> QED
    BY <2>2, FS_CardinalityType
<1>3. Ascends(s, F, N)
  BY <1>1, <1>2, SortedAscends
<1>4. \A i \in 1 .. n : /\ c(i) \in last /\ c(i) \in 1 .. n /\ i <= c(i)
                        /\ \A j \in last : j >= i => c(i) <= j
  <2> TAKE i \in 1 .. n
  <2> DEFINE L == {j \in last : j >= i}
  <2>1. L \subseteq Nat /\ n \in L
    <3>1. n >= i /\ n >= 1
      OBVIOUS
    <3>2. \A j \in last : j \in 1 .. n
      OBVIOUS
    <3>3. \A j \in 1 .. n : j \in Nat
      OBVIOUS
    <3> QED
      BY <3>1, <3>2, <3>3
  <2>2. Min(L) \in L /\ \A y \in L : Min(L) <= y
    <3> HIDE DEF L
    <3> QED
      BY <2>1, LeastOf
  <2>3. c(i) = Min(L)
    BY DEF Until
  <2> HIDE DEF c
  <2> QED
    BY <2>2, <2>3
<1>5. \A i \in 1 .. n : i \in F <=> i = 1 \/ i - 1 \in last
  BY DEF Openings
<1> HIDE DEF F, N, c
<1>6. /\ s \in [1 .. N -> 1 .. n]
      /\ \A k \in 1 .. N : s[k] \in F
      /\ \A x \in F : \E i \in 1 .. N : s[i] = x
      /\ \A i, j \in 1 .. N : i < j => s[i] < s[j]
  BY <1>1, <1>3 DEF Ascends
<1>7. \A k \in 1 .. N : s[k] \in 1 .. n
  BY <1>6
<1>8. ASSUME N = 0 PROVE n = 0
  <2>1. CASE n # 0
    <3>1. 1 \in F
      BY <1>5, <2>1
    <3> QED
      BY <1>6, <1>8, <3>1
  <2> QED
    BY <2>1
<1>9. ASSUME n = 0 PROVE N = 0
  <2>1. CASE N # 0
    <3>1. 1 \in 1 .. N
      BY <1>2, <2>1
    <3> QED
      BY <1>7, <1>9, <3>1
  <2> QED
    BY <2>1
<1>10. ASSUME N >= 1 PROVE s[1] = 1
  <2>1. n >= 1 /\ 1 \in 1 .. N /\ N \in 1 .. N
    BY <1>2, <1>9, <1>10
  <2>2. 1 \in F
    BY <1>5, <2>1
  <2>3. PICK k \in 1 .. N : s[k] = 1
    BY <1>6, <2>2
  <2>4. s[1] \in 1 .. n
    BY <1>7, <2>1
  <2>5. 1 < k => s[1] < s[k]
    BY <1>6, <2>1
  <2> QED
    BY <2>3, <2>4, <2>5
<1>11. ASSUME NEW k \in 1 .. N PROVE c(s[k]) < n => \E l \in 1 .. N : s[l] = c(s[k]) + 1 /\ k < l
  <2>1. s[k] \in 1 .. n
    BY <1>7
  <2>2. /\ c(s[k]) \in last /\ c(s[k]) \in 1 .. n /\ s[k] <= c(s[k])
    BY <1>4, <2>1
  <2> SUFFICES ASSUME c(s[k]) < n PROVE \E l \in 1 .. N : s[l] = c(s[k]) + 1 /\ k < l
    OBVIOUS
  <2>3. \A i \in 1 .. n : i = c(s[k]) + 1 => i \in F
    <3> TAKE i \in 1 .. n
    <3>1. i = c(s[k]) + 1 => i - 1 = c(s[k])
      BY <2>2
    <3> QED
      BY <1>5, <2>2, <3>1
  <2>4. c(s[k]) + 1 \in F
    <3>1. c(s[k]) + 1 \in 1 .. n
      BY <2>2
    <3> QED
      BY <2>3, <3>1
  <2>5. PICK l \in 1 .. N : s[l] = c(s[k]) + 1
    BY <1>6, <2>4
  <2>6. s[k] < s[l] /\ s[l] \in 1 .. n
    BY <1>7, <2>1, <2>2, <2>5
  <2>7. l < k => s[l] < s[k]
    BY <1>6
  <2>8. l # k
    BY <2>1, <2>6
  <2> QED
    BY <2>1, <2>5, <2>6, <2>7, <2>8
<1>12. ASSUME N >= 1 PROVE c(s[N]) = n
  <2>1. N \in 1 .. N
    BY <1>2, <1>12
  <2>2. s[N] \in 1 .. n
    BY <1>7, <2>1
  <2>3. c(s[N]) \in 1 .. n
    BY <1>4, <2>2
  <2>4. ~(c(s[N]) < n)
    <3>1. \A l \in 1 .. N : ~(N < l)
      BY <1>2
    <3> QED
      BY <1>11, <2>1, <3>1
  <2> QED
    BY <2>3, <2>4
<1>13. ASSUME NEW k \in 1 .. N, NEW l \in 1 .. N, l = k + 1
       PROVE  s[l] = c(s[k]) + 1
  <2>1. s[k] \in 1 .. n /\ s[l] \in 1 .. n /\ s[k] < s[l]
    <3>1. k < l
      BY <1>13
    <3> QED
      BY <1>6, <1>7, <3>1
  <2>2. /\ c(s[k]) \in 1 .. n /\ s[k] <= c(s[k])
        /\ \A j \in last : j >= s[k] => c(s[k]) <= j
    BY <1>4, <2>1
  <2>3. s[l] - 1 \in last
    <3>1. s[l] \in F /\ s[l] # 1
      BY <1>6, <2>1
    <3> QED
      BY <1>5, <2>1, <3>1
  <2>4. c(s[k]) <= s[l] - 1
    <3>1. s[l] - 1 >= s[k]
      BY <2>1
    <3> QED
      BY <2>2, <2>3, <3>1
  <2>5. PICK m \in 1 .. N : s[m] = c(s[k]) + 1 /\ k < m
    <3>1. c(s[k]) < n
      BY <2>1, <2>2, <2>4
    <3> QED
      BY <1>11, <3>1
  <2>6. ~(l < m)
    <3>1. l < m => s[l] < s[m]
      BY <1>6
    <3>2. s[m] \in 1 .. n
      BY <1>7
    <3> QED
      BY <2>1, <2>2, <2>4, <2>5, <3>1, <3>2
  <2>7. m = l
    BY <1>13, <2>5, <2>6
  <2> QED
    BY <2>5, <2>7
<1>14. \A k \in 1 .. N : /\ c(s[k]) \in last /\ c(s[k]) \in 1 .. n /\ s[k] <= c(s[k])
                         /\ \A j \in last : j >= s[k] => c(s[k]) <= j
  BY <1>4, <1>7
<1> QED
  BY <1>2, <1>6, <1>8, <1>9, <1>10, <1>12, <1>13, <1>14 DEF c, Groups

\* Pieces that follow one another from word a to word b.
Follow(t, ps, a, b) ==
    /\ ps \in Seq(Pieces(t))
    /\ ps # <<>> => Lo(t, ps[1]) = a /\ Hi(t, ps[Len(ps)]) = b
    /\ \A k, l \in 1 .. Len(ps) : l = k + 1 => Lo(t, ps[l]) = Hi(t, ps[k]) + 1

LEMMA FollowChain ==
    ASSUME NEW t \in AnyText, NEW ps, NEW a, NEW b, Follow(t, ps, a, b)
    PROVE  Chain(t, ps)
<1>1. ps \in Seq(Pieces(t))
  BY DEF Follow
<1>2. \A k \in 1 .. Len(ps) : ps[k] \in Pieces(t) /\ Whole(t, ps[k])
  BY <1>1, PieceFacts
<1>3. \A k \in 1 .. Len(ps) : /\ Lo(t, ps[k]) \in Nat /\ Hi(t, ps[k]) \in Nat
                              /\ Lo(t, ps[k]) <= Hi(t, ps[k])
  BY <1>2, WholeFacts
<1>4. \A k, l \in 1 .. Len(ps) : l = k + 1 => Abuts(t, ps[k], ps[l])
  <2> TAKE k \in 1 .. Len(ps), l \in 1 .. Len(ps)
  <2> HAVE l = k + 1
  <2>1. Lo(t, ps[l]) = Hi(t, ps[k]) + 1
    BY DEF Follow
  <2>2. /\ Lo(t, ps[k]) \in Nat /\ Hi(t, ps[k]) \in Nat /\ Lo(t, ps[k]) <= Hi(t, ps[k])
        /\ Lo(t, ps[l]) \in Nat /\ Hi(t, ps[l]) \in Nat /\ Lo(t, ps[l]) <= Hi(t, ps[l])
    BY <1>3
  <2> QED
    BY <2>1, <2>2 DEF Abuts
<1> QED
  BY <1>1, <1>4 DEF Chain

\* The sentences where they lie in a text.
Ranges(t, start, end) ==
    LET all == Words(t)
        ws == Elements(all, {i \in DOMAIN all :
                                start <= all[i][1] /\ all[i][2] <= end})
        last == {i \in DOMAIN ws : i = Len(ws) \/ Ends(t, ws[i])}
        first == Sorted({i \in DOMAIN ws : i = 1 \/ i - 1 \in last})
    IN [n \in DOMAIN first |->
            Piece(t, ws[first[n]][1], ws[Until(last, first[n])][2])]

LEMMA RangesIn ==
    ASSUME NEW t \in AnyText, NEW a \in Nat, NEW b \in Nat, 1 <= a, a <= b + 1,
           b <= Len(Words(t)), NEW start, NEW end,
           \A i \in 1 .. Len(Words(t)) :
              start <= Words(t)[i][1] /\ Words(t)[i][2] <= end <=> a <= i /\ i <= b
    PROVE  /\ Follow(t, Ranges(t, start, end), a, b)
           /\ Ranges(t, start, end) = <<>> <=> b < a
<1> DEFINE all == Words(t)
           I == {i \in DOMAIN all : start <= all[i][1] /\ all[i][2] <= end}
           ws == Elements(all, I)
           n == b - a + 1
           last == {i \in DOMAIN ws : i = Len(ws) \/ Ends(t, ws[i])}
           first == Sorted({i \in DOMAIN ws : i = 1 \/ i - 1 \in last})
           ss == [k \in DOMAIN first |->
                     Piece(t, ws[first[k]][1], ws[Until(last, first[k])][2])]
<1>1. Ranges(t, start, end) = ss
  BY DEF Ranges
<1>2. /\ Len(all) \in Nat /\ DOMAIN all = 1 .. Len(all) /\ all \in Seq(Nat \X Nat)
  BY WordsListed DEF ListsWords
<1>3. I = a .. b /\ n \in Nat
  BY SMTT(30), <1>2
<1>4. ws \in Seq(Nat \X Nat) /\ Len(ws) = n /\ DOMAIN ws = 1 .. n
      /\ \A i \in 1 .. n : ws[i] = all[a + i - 1] /\ a + i - 1 \in 1 .. Len(all)
  <2> DEFINE up == [i \in 1 .. n |-> a + i - 1]
  <2>1. Ascends(up, a .. b, n)
    <3>1. up \in [1 .. n -> a .. b]
      BY <1>3
    <3>2. ASSUME NEW x \in a .. b PROVE \E i \in 1 .. n : up[i] = x
      <4>1. x - a + 1 \in 1 .. n /\ a + (x - a + 1) - 1 = x
        BY <1>3
      <4>2. up[x - a + 1] = a + (x - a + 1) - 1
        BY <4>1
      <4> QED
        BY <4>1, <4>2
    <3>3. \A i, j \in 1 .. n : i < j => up[i] < up[j]
      BY <1>3
    <3> QED
      BY <1>3, <3>1, <3>2, <3>3 DEF Ascends
  <2>2. Sorted(I) = up /\ Cardinality(I) = n
    <3>1. a .. b \subseteq Int
      OBVIOUS
    <3> HIDE DEF up, n
    <3>2. Sorted(a .. b) = up /\ Cardinality(a .. b) = n
      BY <2>1, <3>1, SortedIs
    <3> QED
      BY <1>3, <3>2
  <2>3. I \subseteq 1 .. Len(all)
    BY <1>2
  <2>5. \A i \in 1 .. n : Sorted(I)[i] = a + i - 1
    BY <2>2
  <2> HIDE DEF I, all, n, up
  <2>4. /\ ws \in Seq(Nat \X Nat) /\ Len(ws) = n /\ DOMAIN ws = 1 .. n
        /\ \A i \in 1 .. n : Sorted(I)[i] \in I /\ ws[i] = all[Sorted(I)[i]]
    <3>1. Cardinality(I) = n /\ all \in Seq(Nat \X Nat)
      BY <1>2, <2>2
    <3>2. /\ ws \in Seq(Nat \X Nat) /\ Len(ws) = Cardinality(I)
          /\ DOMAIN ws = 1 .. Cardinality(I)
          /\ \A i \in 1 .. Cardinality(I) : Sorted(I)[i] \in I /\ ws[i] = all[Sorted(I)[i]]
      <4>1. ws = Elements(all, I)
        OBVIOUS
      <4> HIDE DEF ws
      <4>2. /\ Elements(all, I) \in Seq(Nat \X Nat) /\ Len(Elements(all, I)) = Cardinality(I)
            /\ DOMAIN Elements(all, I) = 1 .. Cardinality(I)
        BY <3>1, <2>3, ElementsPicked
      <4>3. Ascends(Sorted(I), I, Cardinality(I))
        BY <3>1, <2>3, ElementsPicked
      <4>4. \A i \in 1 .. Cardinality(I) : Elements(all, I)[i] = all[Sorted(I)[i]]
        BY <3>1, <2>3, ElementsPicked
      <4>5. \A i \in 1 .. Cardinality(I) : Sorted(I)[i] \in I
        BY <4>3 DEF Ascends
      <4> QED
        BY <4>1, <4>2, <4>4, <4>5
    <3> HIDE DEF ws
    <3> QED
      BY <3>1, <3>2
  <2> HIDE DEF ws
  <2>6. \A i \in 1 .. n : a + i - 1 \in I
    BY <2>4, <2>5
  <2> QED
    BY <2>3, <2>4, <2>5, <2>6
<1>5. Len(Words(t)) = Len(all)
  OBVIOUS
<1> HIDE DEF I, ws
<1>6. last = {i \in 1 .. n : i = n \/ Ends(t, all[a + i - 1])}
  BY <1>4
<1>7. first = Sorted(Openings(n, last))
  BY <1>4 DEF Openings
<1> HIDE DEF last, first
<1>8. n >= 1 => n \in last
  <2> HAVE n >= 1
  <2> HIDE DEF n, all
  <2>1. n \in 1 .. n
    BY <1>3
  <2> QED
    BY <1>6, <2>1
<1>9. last \subseteq 1 .. n
  BY <1>6
<1> DEFINE c(i) == Until(last, i)
<1>23. \E N \in Nat : Groups(n, last, first, N)
  <2> HIDE DEF n
  <2>1. n \in Nat
    BY <1>3
  <2> QED
    BY <2>1, <1>7, <1>8, <1>9, CutUp
<1>24. PICK N \in Nat : Groups(n, last, first, N)
  BY <1>23
<1>10. /\ first \in [1 .. N -> 1 .. n]
       /\ N = 0 <=> n = 0
       /\ N >= 1 => first[1] = 1 /\ c(first[N]) = n
       /\ \A k \in 1 .. N : /\ c(first[k]) \in last
                            /\ c(first[k]) \in 1 .. n
                            /\ first[k] <= c(first[k])
                            /\ \A j \in last : j >= first[k] => c(first[k]) <= j
       /\ \A k, l \in 1 .. N : l = k + 1 => first[l] = c(first[k]) + 1
  <2> HIDE DEF n
  <2> QED
    BY <1>24 DEF Groups
<1> HIDE DEF c
<1>11. ss = [k \in 1 .. N |-> Piece(t, ws[first[k]][1], ws[c(first[k])][2])]
  BY <1>10 DEF c
<1>12. ASSUME NEW k \in 1 .. N
       PROVE  /\ Spans(t, ss[k], a + first[k] - 1, a + c(first[k]) - 1)
              /\ ss[k] \in AnyPiece /\ ss[k].text = TextOf(t, ss[k])
              /\ Lo(t, ss[k]) = a + first[k] - 1 /\ Hi(t, ss[k]) = a + c(first[k]) - 1
  <2> DEFINE x == first[k]
             y == c(first[k])
  <2>1. x \in 1 .. n /\ y \in 1 .. n /\ x <= y
    BY <1>10
  <2>2. ss[k] = Piece(t, ws[x][1], ws[y][2])
    BY <1>11
  <2> HIDE DEF ss, x, y
  <2>3. ws[x] = all[a + x - 1] /\ ws[y] = all[a + y - 1]
        /\ a + x - 1 \in 1 .. Len(all) /\ a + y - 1 \in 1 .. Len(all)
    BY <1>4, <2>1
  <2>4. /\ ss[k] = [text |-> Cut(t, all[a + x - 1][1], all[a + y - 1][2]),
                    start |-> all[a + x - 1][1], end |-> all[a + y - 1][2]]
        /\ ss[k].text = TextOf(t, ss[k])
    BY <2>2, <2>3 DEF Piece, TextOf
  <2>5. all[a + x - 1][1] \in Nat /\ all[a + y - 1][2] \in Nat
    BY <2>3, WordsInOrder
  <2>9. Len(all) \in Nat /\ x \in Int /\ y \in Int /\ x <= y
    BY <1>2, <2>1
  <2>10. a + x - 1 \in 1 .. Len(all) /\ a + y - 1 \in 1 .. Len(all)
    BY <2>3
  <2>6. /\ a + x - 1 \in Nat /\ a + y - 1 \in Nat /\ 1 <= a + x - 1
        /\ a + x - 1 <= a + y - 1 /\ a + y - 1 <= Len(all)
    <3> HIDE DEF all
    <3> QED
      BY <2>9, <2>10
  <2>7. Spans(t, ss[k], a + x - 1, a + y - 1)
    BY <2>4, <2>6 DEF Spans
  <2>8. ss[k] \in AnyPiece
    <3>1. Whole(t, ss[k])
      BY <2>7 DEF Whole, Spans
    <3>2. TextOf(t, ss[k]) \in AnyText
      BY <3>1, WordsOfPiece
    <3>3. Cut(t, all[a + x - 1][1], all[a + y - 1][2]) \in AnyText
      BY <2>4, <3>2
    <3> QED
      BY <2>4, <2>5, <3>3 DEF AnyPiece
  <2> QED
    BY <2>4, <2>7, <2>8, SpansOnce DEF x, y
<1>13. \A k \in 1 .. N : ss[k] \in Pieces(t)
  <2> TAKE k \in 1 .. N
  <2>1. Spans(t, ss[k], a + first[k] - 1, a + c(first[k]) - 1) /\ ss[k] \in AnyPiece
        /\ ss[k].text = TextOf(t, ss[k])
    BY <1>12
  <2> HIDE DEF ss
  <2>2. Whole(t, ss[k])
    BY <2>1 DEF Whole, Spans
  <2> QED
    BY <2>1, <2>2 DEF Pieces
<1>14. DOMAIN ss = 1 .. N
  BY <1>11
<1>15. ss \in [1 .. N -> Pieces(t)]
  BY <1>11, <1>13
<1> HIDE DEF ss
<1>16. ss \in Seq(Pieces(t)) /\ Len(ss) = N
  BY <1>15, FunctionSeq
<1>17. ss = <<>> <=> N = 0
  BY <1>16, EmptySeq
<1>18. ss # <<>> => Lo(t, ss[1]) = a /\ Hi(t, ss[Len(ss)]) = b
  <2> HAVE ss # <<>>
  <2>1. N >= 1 /\ 1 \in 1 .. N /\ N \in 1 .. N
    BY <1>17
  <2>2. first[1] = 1 /\ c(first[N]) = n
    BY <1>10, <2>1
  <2>3. Lo(t, ss[1]) = a + first[1] - 1 /\ Hi(t, ss[N]) = a + c(first[N]) - 1
    BY <1>12, <2>1
  <2> QED
    BY <1>16, <2>2, <2>3
<1>19. ASSUME NEW k \in 1 .. N, NEW l \in 1 .. N, l = k + 1
       PROVE  Lo(t, ss[l]) = Hi(t, ss[k]) + 1
  <2>1. first[l] = c(first[k]) + 1 /\ c(first[k]) \in 1 .. n
    BY <1>10, <1>19
  <2>2. Lo(t, ss[l]) = a + first[l] - 1 /\ Hi(t, ss[k]) = a + c(first[k]) - 1
    BY <1>12
  <2> QED
    BY <2>1, <2>2
<1>21. N = 0 <=> b < a
  BY <1>3, <1>10
<1>22. Follow(t, ss, a, b)
  BY <1>16, <1>18, <1>19 DEF Follow
<1> QED
  BY <1>1, <1>16, <1>17, <1>21, <1>22

\* No letter lies between a word and the next, nor before the first.
LEMMA NoLetterBetween ==
    ASSUME NEW t \in AnyText, NEW h \in Nat, h + 1 <= Len(Words(t)), NEW k \in Nat,
           h = 0 \/ Words(t)[h][2] <= k, k < Words(t)[h + 1][1]
    PROVE  k \notin Letters(t)
<1> SUFFICES ASSUME k \in Letters(t) PROVE FALSE
  OBVIOUS
<1> DEFINE n == Len(Words(t))
           a(i) == Words(t)[i][1]
           b(i) == Words(t)[i][2]
<1>1. n \in Nat
  BY WordsInOrder
<1>2. PICK i \in 1 .. n : a(i) <= k /\ k < b(i)
  <2>1. IsWord(t, WordFrom(t, k), WordTo(t, k)) /\ WordFrom(t, k) <= k /\ k < WordTo(t, k)
    BY WordAround
  <2>2. PICK i \in 1 .. n : a(i) = WordFrom(t, k) /\ b(i) = WordTo(t, k)
    BY <2>1, WordsListed DEF ListsWords
  <2> QED
    BY <2>1, <2>2
<1>3. /\ a(i) \in Nat /\ b(i) \in Nat /\ a(h + 1) \in Nat
      /\ a(i) < a(h + 1) <=> i < h + 1
  <2>1. h + 1 \in 1 .. n
    BY <1>1
  <2> QED
    BY <2>1, WordsInOrder
<1>4. i <= h /\ h \in 1 .. n
  <2> HIDE DEF a, b, n
  <2>1. a(i) < a(h + 1)
    <3>1. k < a(h + 1)
      BY DEF a
    <3> QED
      BY <1>2, <1>3, <3>1
  <2>2. h + 1 <= n
    BY DEF n
  <2> QED
    BY <1>1, <1>3, <2>1, <2>2
<1>5. b(h) \in Nat /\ b(h) <= k /\ (b(h) < b(i) <=> h < i)
  <2>1. h # 0
    BY <1>1, <1>4
  <2> QED
    BY <1>4, <2>1, WordsInOrder
<1> HIDE DEF a, b, n
<1> QED
  BY <1>1, <1>2, <1>3, <1>4, <1>5

\* A part of the text that begins with the next letter is found there.
LEMMA LocatedAt ==
    ASSUME NEW t \in AnyText, NEW x \in Letters(t), NEW y \in Nat, x < y,
           NEW end \in Nat, y <= end, end <= Len(t), NEW cursor \in Nat, cursor <= x,
           \A k \in Nat : cursor <= k /\ k < x => k \notin Letters(t)
    PROVE  Located(t, Cut(t, x, y), cursor, end) = Piece(t, x, y)
<1> DEFINE s == Cut(t, x, y)
           d == y - x
           found == {k \in cursor .. end - Len(s) : Cut(t, k, k + Len(s)) = s}
<1>1. Len(t) \in Nat /\ x \in Nat /\ t[x + 1] \notin Blank /\ y <= Len(t)
  BY LettersOf, TextFacts
<1>2. s \in AnyText /\ Len(s) = d /\ s[1] = t[x + 1] /\ d \in Nat /\ 1 <= d
  <2>1. x <= y /\ y <= Len(t) /\ 0 \in 0 .. y - x - 1 /\ 0 + 1 = 1 /\ x + 0 + 1 = x + 1
        /\ y - x \in Nat /\ 1 <= y - x
    BY <1>1
  <2>2. /\ s \in AnyText /\ Len(s) = y - x
        /\ \A k \in 0 .. y - x - 1 : s[k + 1] = t[x + k + 1]
    BY <1>1, <2>1, CutFacts
  <2>3. s[0 + 1] = t[x + 0 + 1]
    BY <2>1, <2>2
  <2> QED
    BY <2>1, <2>2, <2>3
<1>3. x \in found
  <2>1. x \in cursor .. end - d /\ x + d = y
    BY <1>1, <1>2
  <2> QED
    BY <1>2, <2>1
<1>4. ASSUME NEW k \in found PROVE k \in Nat /\ x <= k
  <2>1. k \in cursor .. end - d /\ Cut(t, k, k + d) = s
    BY <1>2
  <2> HIDE DEF s, d
  <2>2. k \in Nat /\ k + d \in Nat /\ k <= k + d /\ k + d <= Len(t) /\ cursor <= k
        /\ k < Len(t)
    BY <1>1, <1>2, <2>1
  <2>3. \A l \in 0 .. (k + d) - k - 1 : Cut(t, k, k + d)[l + 1] = t[k + l + 1]
    BY <2>2, CutFacts
  <2>4. 0 \in 0 .. (k + d) - k - 1 /\ 0 + 1 = 1 /\ k + 0 + 1 = k + 1
    BY <1>2, <2>2
  <2>5. s[1] = t[k + 1]
    BY <2>1, <2>3, <2>4
  <2>6. k \in Letters(t)
    <3>1. k \in Int /\ 0 <= k /\ t[k + 1] \notin Blank
      BY <1>1, <1>2, <2>2, <2>5
    <3> QED
      BY <2>2, <3>1, LettersOf
  <2>7. ~(k < x)
    BY <2>2, <2>6
  <2> QED
    BY <1>1, <2>2, <2>7
<1>5. Min(found) = x
  <2>1. found \subseteq Nat
    BY <1>4
  <2> HIDE DEF found
  <2>2. Min(found) \in found /\ \A k \in found : Min(found) <= k
    BY <1>3, <2>1, LeastOf
  <2>3. Min(found) <= x /\ x <= Min(found) /\ Min(found) \in Nat
    BY <1>3, <1>4, <2>2
  <2> QED
    BY <1>1, <2>3
<1>6. Located(t, s, cursor, end) = [text |-> s, start |-> x, end |-> x + Len(s)]
  <2>1. found # {}
    BY <1>3
  <2> QED
    BY <1>5, <2>1 DEF Located
<1>7. x + Len(s) = y
  BY <1>1, <1>2
<1> QED
  BY <1>6, <1>7 DEF Piece

\* The parts of Sentences, by name.
SentencesBy(f, t, start, end, ss) ==
    f = [n \in 0 .. Len(ss) |->
            IF n = 0 THEN Piece(t, start, start)
            ELSE Located(t, Returned(ss[n]), f[n - 1].end, end)]

LEMMA SentencesChosen ==
    ASSUME NEW t, NEW start, NEW end, NEW ss, ss = Segmented(t, start, end)
    PROVE  Sentences(t, start, end) =
              [n \in DOMAIN ss |-> (CHOOSE f : SentencesBy(f, t, start, end, ss))[n]]
BY DEF Sentences, Placed, SentencesBy

LEMMA SegmentedRanges ==
    ASSUME NEW t, NEW start, NEW end
    PROVE  Segmented(t, start, end) =
              [n \in DOMAIN Ranges(t, start, end) |-> Ranges(t, start, end)[n].text]
BY DEF Segmented, Ranges, Piece, Until

\* Sentences that pysbd returns as they are, are located where they lie.
LEMMA SentencesRight ==
    ASSUME NEW t \in AnyText, Unaltered(t), NEW a \in Nat, NEW b \in Nat,
           NEW start \in Nat, NEW end \in Nat, end <= Len(t),
           NEW rs, rs = Ranges(t, start, end), Follow(t, rs, a, b),
           rs # <<>> => /\ start <= Words(t)[a][1] /\ Words(t)[b][2] <= end
                        /\ \A k \in Nat : start <= k /\ k < Words(t)[a][1] =>
                              k \notin Letters(t)
    PROVE  Sentences(t, start, end) = rs
<1> DEFINE N == Len(rs)
           ss == Segmented(t, start, end)
           f == CHOOSE g : SentencesBy(g, t, start, end, ss)
           A(k) == Lo(t, rs[k])
           B(k) == Hi(t, rs[k])
<1>1. rs \in Seq(Pieces(t)) /\ N \in Nat /\ DOMAIN rs = 1 .. N /\ Len(t) \in Nat
  BY LenProperties, TextFacts DEF Follow
<1>2. ASSUME NEW n \in 1 .. N
      PROVE  /\ rs[n].start = Words(t)[A(n)][1] /\ rs[n].end = Words(t)[B(n)][2]
             /\ rs[n].start \in Nat /\ rs[n].end \in Nat /\ rs[n].start < rs[n].end
             /\ rs[n].end <= Len(t) /\ A(n) \in 1 .. Len(Words(t))
             /\ B(n) \in 1 .. Len(Words(t))
             /\ rs[n] = Piece(t, rs[n].start, rs[n].end)
             /\ rs[n].text = Cut(t, rs[n].start, rs[n].end)
  <2>1. rs[n] \in AnyPiece /\ Whole(t, rs[n]) /\ rs[n].text = TextOf(t, rs[n])
    BY <1>1, PieceFacts DEF Pieces
  <2>2. rs[n] = [text |-> rs[n].text, start |-> rs[n].start, end |-> rs[n].end]
    BY <2>1 DEF AnyPiece
  <2>3. rs[n] = Piece(t, rs[n].start, rs[n].end)
    BY <2>1, <2>2 DEF Piece, TextOf
  <2> QED
    BY <2>1, <2>3, WholeFacts DEF TextOf
<1>3. ASSUME NEW n \in 1 .. N PROVE Returned(rs[n].text) = rs[n].text
  <2>1. rs[n].start \in 0 .. Len(t) /\ rs[n].end \in 0 .. Len(t)
    BY <1>1, <1>2
  <2> QED
    BY <1>2, <2>1 DEF Unaltered, Returned
<1>4. ASSUME NEW n \in 1 .. N PROVE rs[n].end <= end /\ rs[n].start \in Letters(t)
  <2>1. Chain(t, rs) /\ rs # <<>> /\ N \in 1 .. N /\ n <= N
    BY <1>1, FollowChain, EmptySeq
  <2>2. B(N) = b
    BY <2>1 DEF Follow
  <2>3. B(n) <= b
    BY <2>1, <2>2, ChainOrder
  <2>4. Words(t)[b][2] <= end /\ b \in 1 .. Len(Words(t))
    BY <1>2, <2>1, <2>2
  <2>5. /\ Words(t)[b][2] \in Nat /\ Words(t)[B(n)][2] \in Nat
        /\ Words(t)[b][2] < Words(t)[B(n)][2] <=> b < B(n)
    BY <1>2, <2>4, WordsInOrder
  <2> DEFINE x == Words(t)[b][2]
             y == Words(t)[B(n)][2]
             q == B(n)
  <2>6. x \in Nat /\ y \in Nat /\ (x < y <=> b < q) /\ q <= b /\ q \in Nat /\ x <= end
    BY <1>2, <2>3, <2>4, <2>5
  <2>7. y <= end
    <3> HIDE DEF x, y, q
    <3> QED
      BY <2>6
  <2>8. rs[n].start \in Letters(t)
    <3>1. IsWord(t, Words(t)[A(n)][1], Words(t)[A(n)][2])
      BY <1>2, WordOffsets
    <3>2. Words(t)[A(n)][1] \in Letters(t)
      <4> DEFINE u == Words(t)[A(n)][1]
                 v == Words(t)[A(n)][2]
      <4>1. u \in Nat /\ v \in Nat /\ u < v /\ \A k \in u .. v - 1 : k \in Letters(t)
        BY <3>1 DEF IsWord
      <4> HIDE DEF u, v
      <4>2. u \in u .. v - 1
        BY <4>1
      <4>3. u \in Letters(t)
        BY <4>1, <4>2
      <4> QED
        BY <4>3 DEF u
    <3> QED
      BY <1>2, <3>2
  <2> QED
    BY <1>2, <2>7, <2>8
<1>5. ASSUME NEW n \in 1 .. N, NEW cursor,
             \/ n = 1 /\ cursor = start
             \/ \E m \in 1 .. N : n = m + 1 /\ cursor = rs[m].end
      PROVE  Located(t, Returned(rs[n].text), cursor, end) = rs[n]
  <2> DEFINE x == rs[n].start
             y == rs[n].end
  <2>1. x \in Letters(t) /\ y \in Nat /\ x < y /\ y <= end /\ x \in Nat
        /\ Returned(rs[n].text) = Cut(t, x, y) /\ rs[n] = Piece(t, x, y)
    BY <1>2, <1>3, <1>4
  <2>2. /\ cursor \in Nat /\ cursor <= x
        /\ \A k \in Nat : cursor <= k /\ k < x => k \notin Letters(t)
    <3>1. CASE n = 1 /\ cursor = start
      <4>1. rs # <<>> /\ A(1) = a
        BY <1>1, <3>1, EmptySeq DEF Follow
      <4>2. x = Words(t)[a][1]
        BY <1>2, <3>1, <4>1
      <4> QED
        BY <3>1, <4>1, <4>2
    <3>2. CASE \E m \in 1 .. N : n = m + 1 /\ cursor = rs[m].end
      <4>1. PICK m \in 1 .. N : n = m + 1 /\ cursor = rs[m].end
        BY <3>2
      <4>2. A(n) = B(m) + 1
        BY <4>1 DEF Follow
      <4> DEFINE h == B(m)
                 u == Words(t)[h][2]
                 v == Words(t)[h + 1][1]
      <4>3. h \in Nat /\ h + 1 <= Len(Words(t)) /\ h \in 1 .. Len(Words(t))
            /\ h + 1 \in 1 .. Len(Words(t)) /\ h < h + 1
        <5>1. B(m) \in 1 .. Len(Words(t)) /\ A(n) \in 1 .. Len(Words(t))
              /\ Len(Words(t)) \in Nat
          BY <1>2, WordsInOrder
        <5> HIDE DEF A, B
        <5> QED
          BY <4>2, <5>1
      <4>4. cursor = u /\ x = v /\ u \in Nat /\ v \in Nat
        BY <1>2, <4>1, <4>2
      <4>5. u < v
        BY <4>3, WordsInOrder
      <4> HIDE DEF h
      <4>6. ASSUME NEW k \in Nat, u <= k, k < v PROVE k \notin Letters(t)
        BY <4>3, <4>6, NoLetterBetween
      <4> HIDE DEF u, v, x
      <4> QED
        BY <4>4, <4>5, <4>6
    <3> QED
      BY <1>5, <3>1, <3>2
  <2> HIDE DEF x, y
  <2>3. Located(t, Cut(t, x, y), cursor, end) = Piece(t, x, y)
    BY <1>1, <2>1, <2>2, LocatedAt
  <2> QED
    BY <2>1, <2>3
<1>6. DOMAIN ss = 1 .. N /\ Len(ss) = N /\ \A n \in 1 .. N : ss[n] = rs[n].text
  <2>1. ss = [n \in 1 .. N |-> rs[n].text]
    BY <1>1, SegmentedRanges
  <2> HIDE DEF N, ss
  <2>2. Len(ss) = N
    <3>1. ss \in [1 .. N -> {rs[n].text : n \in 1 .. N}]
      BY <2>1
    <3> DEFINE T == {rs[n].text : n \in 1 .. N}
    <3>2. ss \in [1 .. N -> T]
      BY <3>1
    <3> HIDE DEF T
    <3> QED
      BY <1>1, <3>2, FunctionSeq
  <2> QED
    BY <2>1, <2>2
<1>7. Sentences(t, start, end) = [n \in 1 .. N |-> f[n]]
  BY <1>6, SentencesChosen
<1> HIDE DEF ss, N, f, A, B
<1> DEFINE g == [n \in 0 .. N |-> IF n = 0 THEN Piece(t, start, start) ELSE rs[n]]
<1>8. Piece(t, start, start).end = start
  BY DEF Piece
<1>9. SentencesBy(g, t, start, end, ss)
  <2> DEFINE e == [n \in 0 .. N |->
                      IF n = 0 THEN Piece(t, start, start)
                      ELSE Located(t, Returned(ss[n]), g[n - 1].end, end)]
  <2>1. ASSUME NEW n \in 0 .. N PROVE g[n] = e[n]
    <3>1. CASE n = 0
      BY <3>1
    <3>2. CASE n # 0
      <4>1. n \in 1 .. N /\ n - 1 \in 0 .. N
        BY <1>1, <3>2
      <4>2. g[n] = rs[n] /\ ss[n] = rs[n].text
        BY <1>6, <3>2, <4>1
      <4>3. \/ n = 1 /\ g[n - 1].end = start
            \/ \E m \in 1 .. N : n = m + 1 /\ g[n - 1].end = rs[m].end
        <5>1. CASE n = 1
          <6>1. n - 1 = 0
            BY <5>1
          <6> QED
            BY <1>8, <4>1, <5>1, <6>1
        <5>2. CASE n # 1
          <6> DEFINE m == n - 1
          <6>1. m \in 1 .. N /\ n = m + 1 /\ m # 0 /\ m \in 0 .. N
            BY <1>1, <4>1, <5>2
          <6>2. g[m] = rs[m]
            BY <6>1
          <6> QED
            BY <6>1, <6>2
        <5> QED
          BY <5>1, <5>2
      <4> HIDE DEF g
      <4>4. Located(t, Returned(rs[n].text), g[n - 1].end, end) = rs[n]
        BY <1>5, <4>1, <4>3
      <4>5. e[n] = Located(t, Returned(ss[n]), g[n - 1].end, end)
        BY <3>2
      <4> QED
        BY <4>2, <4>4, <4>5
    <3> QED
      BY <3>1, <3>2
  <2>2. g = [n \in 0 .. N |-> g[n]] /\ e = [n \in 0 .. N |-> e[n]]
    OBVIOUS
  <2> HIDE DEF g
  <2>3. g = e
    <3> HIDE DEF e
    <3> QED
      BY <2>1, <2>2
  <2> QED
    BY <1>6, <2>3 DEF SentencesBy
<1>10. SentencesBy(f, t, start, end, ss)
  BY <1>9 DEF f
<1> HIDE DEF g
<1> DEFINE h == [n \in 0 .. N |->
                    IF n = 0 THEN Piece(t, start, start)
                    ELSE Located(t, Returned(ss[n]), f[n - 1].end, end)]
<1>11. f = h
  BY <1>6, <1>10 DEF SentencesBy
<1>12. /\ h[0] = Piece(t, start, start)
       /\ \A n \in 1 .. N : h[n] = Located(t, Returned(ss[n]), f[n - 1].end, end)
  BY <1>1
<1> HIDE DEF h
<1>13. /\ f[0] = Piece(t, start, start)
       /\ \A n \in 1 .. N : f[n] = Located(t, Returned(ss[n]), f[n - 1].end, end)
  BY <1>11, <1>12
<1> DEFINE P == {n \in 0 .. N : n = 0 \/ f[n] = rs[n]}
<1>14. 0 \in P
  BY <1>1
<1>15. ASSUME NEW i \in 0 .. N, i < N, i \in P PROVE i + 1 \in P
  <2>1. ASSUME NEW n \in 1 .. N, n = i + 1 PROVE f[n] = rs[n]
    <3>1. n - 1 = i /\ f[n] = Located(t, Returned(ss[n]), f[n - 1].end, end)
          /\ ss[n] = rs[n].text
      BY <1>6, <1>13, <2>1
    <3>2. \/ n = 1 /\ f[i].end = start
          \/ \E m \in 1 .. N : n = m + 1 /\ f[i].end = rs[m].end
      <4>1. CASE i = 0
        BY <1>8, <1>13, <2>1, <4>1
      <4>2. CASE i # 0
        <5>1. i \in 1 .. N /\ f[i] = rs[i]
          BY <1>1, <1>15, <4>2
        <5> QED
          BY <2>1, <5>1
      <4> QED
        BY <4>1, <4>2
    <3>3. Located(t, Returned(rs[n].text), f[i].end, end) = rs[n]
      BY <1>5, <3>2
    <3> QED
      BY <3>1, <3>3
  <2>2. i + 1 \in 1 .. N /\ i + 1 \in 0 .. N
    BY <1>1, <1>15
  <2> QED
    BY <2>1, <2>2
<1>16. \A n \in 1 .. N : f[n] = rs[n]
  <2> HIDE DEF P
  <2>1. \A i \in 0 .. N : i \in P
    BY <1>1, <1>14, <1>15, UpTo
  <2>2. \A i \in 1 .. N : i \in 0 .. N /\ i # 0
    BY <1>1
  <2> QED
    BY <2>1, <2>2 DEF P
<1>17. rs = [n \in 1 .. N |-> rs[n]]
  BY <1>1
<1> QED
  BY <1>7, <1>16, <1>17

\* The sentences of the whole text, and those of a paragraph.
LEMMA SentencesOfText ==
    ASSUME NEW t \in AnyText, Unaltered(t), NEW ss, ss = Sentences(t, 0, Len(t))
    PROVE  Follow(t, ss, 1, Len(Words(t))) /\ (ss = <<>> <=> Len(Words(t)) = 0)
<1> DEFINE n == Len(Words(t))
           e == Len(t)
           rs == Ranges(t, 0, e)
<1>1. /\ n \in Nat /\ e \in Nat
      /\ \A i \in 1 .. n : /\ Words(t)[i][1] \in Nat /\ Words(t)[i][2] \in Nat
                           /\ Words(t)[i][2] <= e
  BY WordsInOrder, TextFacts
<1>2. \A i \in 1 .. n :
         0 <= Words(t)[i][1] /\ Words(t)[i][2] <= e <=> 1 <= i /\ i <= n
  <2> TAKE i \in 1 .. n
  <2> DEFINE a == Words(t)[i][1]
             b == Words(t)[i][2]
  <2>1. a \in Nat /\ b <= e /\ 1 <= i /\ i <= n
    BY <1>1
  <2> HIDE DEF a, b, n, e
  <2>2. 0 <= a /\ b <= e <=> 1 <= i /\ i <= n
    BY <2>1
  <2> QED
    BY <2>2 DEF a, b
<1>3. 1 \in Nat /\ 1 <= 1 /\ 1 <= n + 1 /\ n <= n /\ (n < 1 <=> n = 0)
  BY <1>1
<1> HIDE DEF e
<1>4. Follow(t, rs, 1, n) /\ (rs = <<>> <=> n < 1)
  BY <1>1, <1>2, <1>3, RangesIn
<1>5. rs # <<>> => /\ 0 <= Words(t)[1][1] /\ Words(t)[n][2] <= e
                   /\ \A k \in Nat : 0 <= k /\ k < Words(t)[1][1] => k \notin Letters(t)
  <2> HAVE rs # <<>>
  <2>1. 1 \in 1 .. n /\ n \in 1 .. n
    BY <1>1, <1>3, <1>4
  <2>2. 0 <= Words(t)[1][1] /\ Words(t)[n][2] <= e
    BY <1>1, <2>1
  <2>3. ASSUME NEW k \in Nat, k < Words(t)[1][1] PROVE k \notin Letters(t)
    <3>1. 0 \in Nat /\ 0 + 1 = 1 /\ 0 + 1 <= n /\ k < Words(t)[0 + 1][1]
      BY <2>1, <2>3
    <3> QED
      BY <3>1, NoLetterBetween
  <2> QED
    BY <2>2, <2>3
<1>6. 0 \in Nat /\ e <= Len(t)
  BY <1>1 DEF e
<1> HIDE DEF rs, n
<1>7. Sentences(t, 0, e) = rs
  BY <1>1, <1>3, <1>4, <1>5, <1>6, SentencesRight DEF rs
<1> QED
  BY <1>3, <1>4, <1>7 DEF n, e

LEMMA SentencesOfPiece ==
    ASSUME NEW t \in AnyText, Unaltered(t), NEW p, Whole(t, p),
           NEW ss, ss = Sentences(t, p.start, p.end)
    PROVE  Follow(t, ss, Lo(t, p), Hi(t, p)) /\ ss # <<>>
<1> DEFINE n == Len(Words(t))
           a == Lo(t, p)
           b == Hi(t, p)
<1>1. /\ n \in Nat /\ a \in Nat /\ b \in Nat /\ 1 <= a /\ a <= b /\ b <= n
      /\ p.start = Words(t)[a][1] /\ p.end = Words(t)[b][2]
      /\ p.start \in Nat /\ p.end \in Nat /\ p.end <= Len(t)
  BY WholeFacts
<1>2. a \in 1 .. n /\ b \in 1 .. n
  BY <1>1
<1> HIDE DEF a, b, n
<1>3. \A i \in 1 .. n : p.start <= Words(t)[i][1] /\ Words(t)[i][2] <= p.end
                           <=> a <= i /\ i <= b
  <2> TAKE i \in 1 .. n
  <2> DEFINE x == Words(t)[i][1]
             y == Words(t)[i][2]
             u == Words(t)[a][1]
             v == Words(t)[b][2]
  <2>1. x \in Nat /\ y \in Nat /\ u \in Nat /\ v \in Nat
    BY <1>2, WordsInOrder DEF n
  <2>2. (x < u <=> i < a) /\ (v < y <=> b < i)
    BY <1>2, WordsInOrder DEF n
  <2>3. p.start = u /\ p.end = v
    BY <1>1
  <2> HIDE DEF x, y, u, v
  <2>4. i \in Nat /\ a \in Nat /\ b \in Nat
    BY <1>1
  <2>5. u <= x /\ y <= v <=> a <= i /\ i <= b
    BY <2>1, <2>2, <2>4
  <2> QED
    BY <2>3, <2>5 DEF x, y
<1>4. a <= b + 1 /\ ~(b < a)
  BY <1>1
<1> DEFINE start == p.start
           end == p.end
           rs == Ranges(t, start, end)
<1>5. \A i \in 1 .. n : start <= Words(t)[i][1] /\ Words(t)[i][2] <= end
                           <=> a <= i /\ i <= b
  BY <1>3
<1>6. start = Words(t)[a][1] /\ end = Words(t)[b][2] /\ start \in Nat /\ end \in Nat
      /\ end <= Len(t)
  BY <1>1
<1>7. ss = Sentences(t, start, end)
  OBVIOUS
<1> HIDE DEF start, end
<1>8. Follow(t, rs, a, b) /\ (rs = <<>> <=> b < a)
  BY <1>1, <1>4, <1>5, RangesIn DEF n
<1>9. /\ start <= Words(t)[a][1] /\ Words(t)[b][2] <= end
      /\ \A k \in Nat : start <= k /\ k < Words(t)[a][1] => k \notin Letters(t)
  BY <1>6
<1> HIDE DEF rs
<1>10. Sentences(t, start, end) = rs
  BY <1>1, <1>6, <1>8, <1>9, SentencesRight DEF rs
<1> QED
  BY <1>4, <1>7, <1>8, <1>10 DEF a, b

LEMMA SplitTiled ==
    ASSUME NEW t \in AnyText, Unaltered(t), NEW p \in Pieces(t), NEW c \in Chunker
    PROVE  Tiled(t, SplitLong(t, c, p), Lo(t, p), Hi(t, p), Hi(t, p))
<1> DEFINE ss == Sentences(t, p.start, p.end)
           sep == <<" ">>
           n == Len(ss)
<1>1. Whole(t, p)
  BY DEF Pieces
<1>2. Follow(t, ss, Lo(t, p), Hi(t, p)) /\ ss # <<>>
  BY <1>1, SentencesOfPiece
<1>3. SplitLong(t, c, p) = Packed(c, sep, ss)
  BY DEF SplitLong
<1>4. sep \in Separators
  BY DEF Separators
<1> HIDE DEF ss, sep
<1>5. Chain(t, ss) /\ Lo(t, ss[1]) = Lo(t, p) /\ Hi(t, ss[n]) = Hi(t, p)
  BY <1>2, FollowChain DEF Follow
<1>10. Tiled(t, Packed(c, sep, ss), Lo(t, ss[1]), Lo(t, ss[n]), Hi(t, ss[n]))
  <2> HIDE DEF n
  <2> QED
    BY <1>2, <1>4, <1>5, PackedTiled DEF n
<1>11. /\ Lo(t, p) \in Nat /\ Hi(t, p) \in Int
       /\ Lo(t, ss[n]) \in Int /\ Lo(t, ss[n]) <= Hi(t, ss[n]) /\ Hi(t, ss[n]) \in Int
  <2>1. n \in 1 .. n
    BY <1>2, <1>5, ChainWords
  <2> QED
    BY <1>1, <1>5, <2>1, ChainFacts, WholeFacts
<1> DEFINE a == Lo(t, p)
           h == Hi(t, p)
           l == Lo(t, ss[n])
           cs == Packed(c, sep, ss)
<1>12. Tiled(t, cs, a, l, h) /\ l <= h /\ a \in Nat /\ h \in Int /\ l \in Int /\ h <= h
  BY <1>5, <1>10, <1>11
<1> HIDE DEF a, h, l, cs
<1>13. Tiled(t, cs, a, h, h)
  BY <1>12, TiledMore
<1> QED
  BY <1>3, <1>13 DEF a, h, cs

-----------------------------------------------------------------------------
(* Paragraphs.                                                             *)

BreaksUpTo(t, cut, k) ==
    IF /\ k < Len(t) /\ t[k] = "/" /\ t[k + 1] = "/"
       /\ k - 2 \notin cut
    THEN cut \cup {k - 1}
    ELSE cut
BreaksBy(f, t) ==
    f = [k \in 0 .. Len(t) |-> IF k = 0 THEN {} ELSE BreaksUpTo(t, f[k - 1], k)]

LEMMA BreaksChosen ==
    ASSUME NEW t
    PROVE  Breaks(t) = (CHOOSE f : BreaksBy(f, t))[Len(t)]
BY DEF Breaks, BreaksBy, BreaksUpTo

\* Breaks are pairs of line breaks, and they do not overlap.
LEMMA BreakFacts ==
    ASSUME NEW t \in AnyText
    PROVE  /\ Breaks(t) \subseteq Nat
           /\ \A x \in Breaks(t) : /\ x + 2 <= Len(t) /\ x + 1 \notin Breaks(t)
                                   /\ t[x + 1] = "/" /\ t[x + 2] = "/"
<1> DEFINE n == Len(t)
           V == SUBSET Nat
           step == [x \in V \X (1 .. n) |-> BreaksUpTo(t, x[1], x[2])]
           f == CHOOSE g : BreaksBy(g, t)
<1>1. n \in Nat
  BY TextFacts
<1>2. {} \in V
  OBVIOUS
<1>3. \A B \in V, i \in 1 .. n : BreaksUpTo(t, B, i) \in V
  <2> TAKE B \in V, i \in 1 .. n
  <2>1. i - 1 \in Nat
    BY <1>1
  <2>2. BreaksUpTo(t, B, i) = B \cup {i - 1} \/ BreaksUpTo(t, B, i) = B
    BY DEF BreaksUpTo
  <2> QED
    BY <2>1, <2>2
<1>4. \A B \in V, i \in 1 .. n : step[<<B, i>>] = BreaksUpTo(t, B, i)
  OBVIOUS
<1> HIDE DEF V
<1>5. step \in [V \X (1 .. n) -> V]
  BY <1>3
<1> HIDE DEF step, n, f
<1>6. PICK g \in [0 .. n -> V] : Recurs(g, n, {}, step)
  BY <1>1, <1>2, <1>5, Recursion
<1>7. BreaksBy(g, t)
  <2> DEFINE h == [i \in 0 .. n |-> IF i = 0 THEN {} ELSE BreaksUpTo(t, g[i - 1], i)]
             e == [i \in 0 .. n |-> IF i = 0 THEN {} ELSE step[<<g[i - 1], i>>]]
  <2>1. g = e
    BY <1>6 DEF Recurs
  <2>2. ASSUME NEW i \in 0 .. n PROVE e[i] = h[i]
    <3>1. CASE i = 0
      BY <3>1
    <3>2. CASE i # 0
      <4>1. i - 1 \in 0 .. n /\ i \in 1 .. n
        BY <1>1, <3>2
      <4>2. g[i - 1] \in V
        BY <1>6, <4>1
      <4> QED
        BY <1>4, <3>2, <4>1, <4>2
    <3> QED
      BY <3>1, <3>2
  <2>3. e = h
    BY <2>2
  <2> QED
    BY <2>1, <2>3 DEF BreaksBy, n
<1>8. BreaksBy(f, t)
  BY <1>7 DEF f
<1> DEFINE h == [i \in 0 .. n |-> IF i = 0 THEN {} ELSE BreaksUpTo(t, f[i - 1], i)]
<1>9. f = h
  BY <1>8 DEF BreaksBy, n
<1>10. h[0] = {} /\ \A i \in 1 .. n : h[i] = BreaksUpTo(t, f[i - 1], i)
  BY <1>1
<1> HIDE DEF h
<1>11. f[0] = {} /\ \A i \in 1 .. n : f[i] = BreaksUpTo(t, f[i - 1], i)
  BY <1>9, <1>10
<1> DEFINE Good(B, i) == /\ \A x \in B : /\ x \in Nat /\ x < i /\ x + 2 <= n
                                         /\ t[x + 1] = "/" /\ t[x + 2] = "/"
                         /\ \A x \in B : x + 1 \notin B
           P == {i \in 0 .. n : Good(f[i], i)}
<1>12. 0 \in P
  BY <1>1, <1>11
<1>13. ASSUME NEW i \in 0 .. n, i < n, i \in P PROVE i + 1 \in P
  <2> DEFINE B == f[i]
  <2>1. Good(B, i)
    BY <1>13
  <2>2. ASSUME NEW j \in 1 .. n, j = i + 1 PROVE Good(f[j], j)
    <3>1. f[j] = BreaksUpTo(t, B, j)
      <4>1. j - 1 = i
        BY <2>2
      <4> QED
        BY <1>11, <4>1
    <3> HIDE DEF B
    <3>2. CASE f[j] = B
      <4>1. \A x \in B : x < j
        BY <2>1, <2>2
      <4> QED
        BY <2>1, <3>2, <4>1
    <3>3. CASE f[j] # B
      <4>1. /\ f[j] = B \cup {j - 1}
            /\ j < n /\ t[j] = "/" /\ t[j + 1] = "/" /\ j - 2 \notin B
        BY <3>1, <3>3 DEF BreaksUpTo, n
      <4> DEFINE y == j - 1
      <4>2. /\ y \in Nat /\ y < j /\ y + 2 <= n /\ y + 1 = j /\ y + 2 = j + 1
            /\ y - 1 = j - 2 /\ y = i
        BY <1>1, <2>2, <4>1
      <4>3. f[j] = B \cup {y} /\ t[y + 1] = "/" /\ t[y + 2] = "/" /\ y - 1 \notin B
        BY <4>1, <4>2
      <4> HIDE DEF y
      <4>4. \A x \in f[j] : /\ x \in Nat /\ x < j /\ x + 2 <= n
                            /\ t[x + 1] = "/" /\ t[x + 2] = "/"
        <5> TAKE x \in f[j]
        <5>1. CASE x = y
          BY <4>2, <4>3, <5>1
        <5>2. CASE x \in B
          <6>1. x \in Nat /\ x < i /\ x + 2 <= n /\ t[x + 1] = "/" /\ t[x + 2] = "/"
            BY <2>1, <5>2
          <6>2. x < j
            BY <2>2, <6>1
          <6> QED
            BY <6>1, <6>2
        <5> QED
          BY <4>3, <5>1, <5>2
      <4>5. \A x \in f[j] : x + 1 \notin f[j]
        <5> TAKE x \in f[j]
        <5>1. CASE x = y
          <6>1. x + 1 # y /\ x + 1 \notin B
            <7>1. \A z \in B : z \in Nat /\ z < i
              BY <2>1
            <7> QED
              BY <4>2, <5>1, <7>1
          <6> QED
            BY <4>3, <6>1
        <5>2. CASE x \in B
          <6>1. x \in Nat /\ x + 1 \notin B
            BY <2>1, <5>2
          <6>2. x + 1 # y
            <7>1. x # y - 1
              BY <4>3, <5>2
            <7> QED
              BY <4>2, <6>1, <7>1
          <6> QED
            BY <4>3, <6>1, <6>2
        <5> QED
          BY <4>3, <5>1, <5>2
      <4> QED
        BY <4>4, <4>5
    <3> QED
      BY <3>2, <3>3
  <2>3. i + 1 \in 1 .. n /\ i + 1 \in 0 .. n
    BY <1>1, <1>13
  <2> HIDE DEF Good
  <2> QED
    BY <2>2, <2>3
<1>14. Good(f[n], n)
  <2> HIDE DEF P
  <2>1. \A i \in 0 .. n : i \in P
    BY <1>1, <1>12, <1>13, UpTo
  <2>2. n \in P
    BY <1>1, <2>1
  <2> HIDE DEF Good
  <2> QED
    BY <2>2 DEF P
<1>15. Breaks(t) = f[n]
  BY BreaksChosen DEF f, n
<1> QED
  BY <1>14, <1>15 DEF n

Starts(t) == {0} \cup {k + 2 : k \in Breaks(t)}
EndOf(t, s) == Min({k \in Breaks(t) : k >= s} \cup {Len(t)})
KeptOf(t, s) == Trimmed(t, s .. EndOf(t, s) - 1)

LEMMA BreakNoLetter ==
    ASSUME NEW t \in AnyText, NEW x \in Breaks(t)
    PROVE  x \notin Letters(t) /\ x + 1 \notin Letters(t)
<1>1. /\ x \in Nat /\ x + 2 <= Len(t) /\ t[x + 1] = "/" /\ t[x + 2] = "/"
      /\ Len(t) \in Nat
  BY BreakFacts, TextFacts
<1>2. "/" \in Blank
  BY DEF Blank
<1>3. x \notin Letters(t)
  BY <1>1, <1>2, LettersOf
<1> DEFINE y == x + 1
<1>4. y \in Int /\ y + 1 = x + 2
  BY <1>1
<1>5. t[y + 1] \in Blank
  BY <1>1, <1>2, <1>4
<1> HIDE DEF y
<1>6. y \notin Letters(t)
  BY <1>4, <1>5, LettersOf
<1> QED
  BY <1>3, <1>6 DEF y

LEMMA StartFacts ==
    ASSUME NEW t \in AnyText, NEW s \in Starts(t)
    PROVE  /\ s \in Nat /\ EndOf(t, s) \in Nat /\ EndOf(t, s) <= Len(t)
           /\ s - 1 \notin Letters(t) /\ EndOf(t, s) \notin Letters(t)
           /\ EndOf(t, s) = Len(t) \/ (EndOf(t, s) \in Breaks(t) /\ EndOf(t, s) >= s)
           /\ \A k \in Breaks(t) : k >= s => EndOf(t, s) <= k
<1> DEFINE B == Breaks(t)
           S == {k \in B : k >= s} \cup {Len(t)}
           e == EndOf(t, s)
<1>1. B \subseteq Nat /\ Len(t) \in Nat
  BY BreakFacts, TextFacts
<1>2. \A k \in B : k + 2 <= Len(t)
  BY BreakFacts
<1>3. \A k \in B : k \notin Letters(t) /\ k + 1 \notin Letters(t)
  BY BreakNoLetter
<1>4. e = Min(S)
  BY DEF EndOf
<1>5. s = 0 \/ \E k \in B : s = k + 2
  BY DEF Starts
<1> HIDE DEF B, e
<1>6. S \subseteq Nat /\ S # {}
  BY <1>1
<1>7. e \in S /\ \A y \in S : e <= y
  <2> HIDE DEF S
  <2> QED
    BY <1>4, <1>6, LeastOf
<1>8. e \in Nat /\ e <= Len(t) /\ \A k \in B : k >= s => e <= k
  BY <1>6, <1>7
<1>9. e = Len(t) \/ (e \in B /\ e >= s)
  BY <1>7
<1>10. e \notin Letters(t)
  <2>1. Len(t) \notin Letters(t)
    BY <1>1, LettersOf
  <2> QED
    BY <1>3, <1>9, <2>1
<1>11. s \in Nat /\ s - 1 \notin Letters(t)
  <2>1. CASE s = 0
    <3>1. -1 \notin Letters(t)
      BY LettersOf
    <3> QED
      BY <2>1, <3>1
  <2>2. CASE \E k \in B : s = k + 2
    <3>1. PICK k \in B : s = k + 2
      BY <2>2
    <3>2. k \in Nat /\ s - 1 = k + 1
      BY <1>1, <3>1
    <3> QED
      BY <1>3, <3>1, <3>2
  <2> QED
    BY <1>5, <2>1, <2>2
<1> QED
  BY <1>8, <1>9, <1>10, <1>11 DEF B, e

\* Two parts do not overlap, and every letter is in one.
LEMMA StartsApart ==
    ASSUME NEW t \in AnyText, NEW s \in Starts(t), NEW u \in Starts(t), s < u
    PROVE  EndOf(t, s) <= u
<1> DEFINE B == Breaks(t)
           e == EndOf(t, s)
<1>1. s \in Nat /\ e \in Nat /\ \A k \in B : k >= s => e <= k
  BY StartFacts
<1>2. B \subseteq Nat /\ \A k \in B : k + 1 \notin B
  BY BreakFacts
<1>3. s = 0 \/ \E k \in B : s = k + 2
  BY DEF Starts
<1>4. u = 0 \/ \E k \in B : u = k + 2
  BY DEF Starts
<1> HIDE DEF B, e
<1>5. PICK k \in B : u = k + 2
  BY <1>1, <1>4
<1>6. k \in Nat
  BY <1>2
<1>7. k >= s
  <2>1. CASE s = 0
    BY <1>6, <2>1
  <2>2. CASE \E j \in B : s = j + 2
    <3>1. PICK j \in B : s = j + 2
      BY <2>2
    <3>2. j \in Nat /\ j + 1 \notin B
      BY <1>2
    <3>3. k # j + 1
      BY <3>2
    <3> QED
      BY <1>5, <1>6, <3>1, <3>2, <3>3
  <2> QED
    BY <1>3, <2>1, <2>2
<1>8. e <= k
  BY <1>1, <1>7
<1> QED
  BY <1>1, <1>5, <1>6, <1>8 DEF e

LEMMA StartBefore ==
    ASSUME NEW t \in AnyText, NEW k \in Letters(t)
    PROVE  \E s \in Starts(t) : s <= k /\ k < EndOf(t, s)
<1> DEFINE S == {s \in Starts(t) : s <= k}
           s == Max(S)
           e == EndOf(t, s)
<1>1. k \in Nat /\ k < Len(t) /\ Len(t) \in Nat
  BY LettersOf
<1>2. \A x \in Starts(t) : x \in Nat
  BY StartFacts
<1>3. S \subseteq Nat /\ S # {} /\ \A x \in S : x <= k
  <2>1. 0 \in S
    BY <1>1 DEF Starts
  <2> QED
    BY <1>2, <2>1
<1>4. s \in S /\ \A x \in S : s >= x
  <2> HIDE DEF S
  <2> QED
    BY <1>1, <1>3, GreatestOf
<1>5. s \in Starts(t) /\ s <= k /\ s \in Nat
  BY <1>3, <1>4
<1>6. \A x \in Starts(t) : x <= k => s >= x
  BY <1>4
<1> HIDE DEF S, s
<1>7. /\ e \in Nat
      /\ e = Len(t) \/ (e \in Breaks(t) /\ e >= s)
  BY <1>5, StartFacts
<1> HIDE DEF e
<1>8. k < e
  <2> SUFFICES ASSUME e <= k PROVE FALSE
    BY <1>1, <1>7
  <2>1. e \in Breaks(t) /\ e >= s
    BY <1>1, <1>7
  <2>2. e + 2 \in Starts(t)
    BY <2>1 DEF Starts
  <2>3. ~(e + 2 <= k)
    BY <1>5, <1>6, <1>7, <2>1, <2>2
  <2>4. k = e \/ k = e + 1
    BY <1>1, <1>7, <2>3
  <2> QED
    BY <2>1, <2>4, BreakNoLetter
<1> QED
  BY <1>5, <1>8 DEF e

LEMMA KeptFacts ==
    ASSUME NEW t \in AnyText, NEW s \in Starts(t)
    PROVE  /\ KeptOf(t, s) = {} <=> ~\E k \in Letters(t) : s <= k /\ k < EndOf(t, s)
           /\ KeptOf(t, s) # {} =>
                /\ Min(KeptOf(t, s)) \in Letters(t) /\ Max(KeptOf(t, s)) \in Letters(t)
                /\ s <= Min(KeptOf(t, s)) /\ Min(KeptOf(t, s)) <= Max(KeptOf(t, s))
                /\ Max(KeptOf(t, s)) < EndOf(t, s)
                /\ \A k \in Letters(t) : s <= k /\ k < EndOf(t, s) =>
                      Min(KeptOf(t, s)) <= k /\ k <= Max(KeptOf(t, s))
                /\ Min(KeptOf(t, s)) - 1 \notin Letters(t)
                /\ Max(KeptOf(t, s)) + 1 \notin Letters(t)
<1> DEFINE e == EndOf(t, s)
           K == KeptOf(t, s)
           x == Min(K)
           y == Max(K)
<1>1. s \in Nat /\ e \in Nat /\ s - 1 \notin Letters(t) /\ e \notin Letters(t)
  BY StartFacts
<1>2. Letters(t) \subseteq Nat
  BY LettersOf
<1>3. K = {k \in s .. e - 1 : \E l, m \in (s .. e - 1) \cap Letters(t) : l <= k /\ k <= m}
  BY DEF KeptOf, Trimmed
<1> HIDE DEF e, K
<1>4. \A k \in Letters(t) : s <= k /\ k < e => k \in K
  <2> TAKE k \in Letters(t)
  <2> HAVE s <= k /\ k < e
  <2>1. k \in Nat
    BY <1>2
  <2>2. k \in s .. e - 1 /\ k <= k
    BY <1>1, <2>1
  <2> QED
    BY <1>3, <2>2
<1>5. \A k \in K : /\ k \in Nat /\ s <= k /\ k < e
                   /\ \E l, m \in K : l \in Letters(t) /\ m \in Letters(t)
                                      /\ l <= k /\ k <= m
  <2> TAKE k \in K
  <2>1. k \in s .. e - 1
    BY <1>3
  <2>2. k \in Nat /\ s <= k /\ k < e
    BY <1>1, <2>1
  <2>3. PICK l \in (s .. e - 1) \cap Letters(t), m \in (s .. e - 1) \cap Letters(t) :
                l <= k /\ k <= m
    BY <1>3
  <2>4. l \in Letters(t) /\ m \in Letters(t) /\ s <= l /\ l < e /\ s <= m /\ m < e
    BY <1>1, <2>3
  <2>5. l \in K /\ m \in K
    BY <1>4, <2>4
  <2> QED
    BY <2>2, <2>3, <2>4, <2>5
<1>6. K = {} <=> ~\E k \in Letters(t) : s <= k /\ k < e
  <2>1. ASSUME NEW k \in Letters(t), s <= k, k < e PROVE K # {}
    BY <1>4, <2>1
  <2>2. ASSUME K # {} PROVE \E k \in Letters(t) : s <= k /\ k < e
    <3>1. PICK z \in K : TRUE
      BY <2>2
    <3>2. PICK l \in K : l \in Letters(t)
      BY <1>5, <3>1
    <3> QED
      BY <1>5, <3>2
  <2> QED
    BY <2>1, <2>2
<1>7. ASSUME K # {}
      PROVE  /\ x \in Letters(t) /\ y \in Letters(t) /\ s <= x /\ x <= y /\ y < e
             /\ \A k \in Letters(t) : s <= k /\ k < e => x <= k /\ k <= y
             /\ x - 1 \notin Letters(t) /\ y + 1 \notin Letters(t)
  <2>1. K \subseteq Nat /\ \A k \in K : k <= e
    BY <1>1, <1>5
  <2>2. x \in K /\ \A k \in K : x <= k
    BY <1>7, <2>1, LeastOf
  <2>3. y \in K /\ \A k \in K : y >= k
    BY <1>1, <1>7, <2>1, GreatestOf
  <2> HIDE DEF x, y
  <2>4. x \in Nat /\ y \in Nat /\ s <= x /\ y < e /\ x <= y
    BY <1>5, <2>2, <2>3
  <2>5. x \in Letters(t)
    <3>1. PICK l \in K : l \in Letters(t) /\ l <= x
      BY <1>5, <2>2
    <3>2. l \in Nat /\ x <= l
      BY <1>5, <2>2
    <3>3. l = x
      BY <2>4, <3>1, <3>2
    <3> QED
      BY <3>1, <3>3
  <2>6. y \in Letters(t)
    <3>1. PICK m \in K : m \in Letters(t) /\ y <= m
      BY <1>5, <2>3
    <3>2. m \in Nat /\ y >= m
      BY <1>5, <2>3
    <3>3. m = y
      BY <2>4, <3>1, <3>2
    <3> QED
      BY <3>1, <3>3
  <2>7. \A k \in Letters(t) : s <= k /\ k < e => x <= k /\ k <= y
    <3> TAKE k \in Letters(t)
    <3> HAVE s <= k /\ k < e
    <3>1. k \in K /\ k \in Nat
      BY <1>4, <1>5
    <3> QED
      BY <2>2, <2>3, <2>4, <3>1
  <2>8. x - 1 \notin Letters(t)
    <3>1. CASE x = s
      BY <1>1, <3>1
    <3>2. CASE x # s
      <4> DEFINE k == x - 1
      <4>1. s <= k /\ k < e /\ ~(x <= k)
        BY <1>1, <2>4, <3>2
      <4> HIDE DEF k
      <4>2. k \notin Letters(t)
        BY <2>7, <4>1
      <4> QED
        BY <4>2 DEF k
    <3> QED
      BY <3>1, <3>2
  <2>9. y + 1 \notin Letters(t)
    <3>1. CASE y + 1 = e
      BY <1>1, <3>1
    <3>2. CASE y + 1 # e
      <4> DEFINE k == y + 1
      <4>1. s <= k /\ k < e /\ ~(k <= y)
        BY <1>1, <2>4, <3>2
      <4> HIDE DEF k
      <4>2. k \notin Letters(t)
        BY <2>7, <4>1
      <4> QED
        BY <4>2 DEF k
    <3> QED
      BY <3>1, <3>2
  <2> QED
    BY <2>4, <2>5, <2>6, <2>7, <2>8, <2>9
<1> QED
  BY <1>6, <1>7 DEF e, K

\* From a letter that begins a word to one that ends a word.
LEMMA PieceAt ==
    ASSUME NEW t \in AnyText, NEW x \in Letters(t), NEW y \in Letters(t), x <= y,
           x - 1 \notin Letters(t), y + 1 \notin Letters(t)
    PROVE  \E i, j \in Nat : Spans(t, Piece(t, x, y + 1), i, j)
<1> DEFINE n == Len(Words(t))
<1>1. x \in Nat /\ y \in Nat
  BY LettersOf
<1>2. \E i \in 1 .. n : Words(t)[i][1] = x
  <2> DEFINE a == WordFrom(t, x)
             b == WordTo(t, x)
  <2>1. IsWord(t, a, b) /\ a <= x /\ x < b
    BY WordAround
  <2> HIDE DEF a, b
  <2>2. a = x
    <3>1. CASE a # x
      <4> DEFINE z == x - 1
      <4>1. a \in Nat /\ b \in Nat
        BY <2>1 DEF IsWord
      <4>2. z \in a .. b - 1
        BY <1>1, <2>1, <3>1, <4>1
      <4> HIDE DEF z
      <4>3. z \in Letters(t)
        BY <2>1, <4>2 DEF IsWord
      <4> QED
        BY <4>3 DEF z
    <3> QED
      BY <3>1
  <2> QED
    BY <2>1, <2>2, WordsListed DEF ListsWords
<1>3. \E j \in 1 .. n : Words(t)[j][2] = y + 1
  <2> DEFINE a == WordFrom(t, y)
             b == WordTo(t, y)
  <2>1. IsWord(t, a, b) /\ a <= y /\ y < b
    BY WordAround
  <2> HIDE DEF a, b
  <2>2. b = y + 1
    <3>1. CASE b # y + 1
      <4> DEFINE z == y + 1
      <4>1. a \in Nat /\ b \in Nat
        BY <2>1 DEF IsWord
      <4>2. z \in a .. b - 1
        BY <1>1, <2>1, <3>1, <4>1
      <4> HIDE DEF z
      <4>3. z \in Letters(t)
        BY <2>1, <4>2 DEF IsWord
      <4> QED
        BY <4>3 DEF z
    <3> QED
      BY <3>1
  <2>3. PICK j \in 1 .. n : Words(t)[j][1] = a /\ Words(t)[j][2] = b
    BY <2>1, WordsListed DEF ListsWords
  <2> QED
    BY <2>2, <2>3
<1>4. PICK i \in 1 .. n : Words(t)[i][1] = x
  BY <1>2
<1>5. PICK j \in 1 .. n : Words(t)[j][2] = y + 1
  BY <1>3
<1>6. n \in Nat
  BY WordsInOrder
<1>7. i <= j
  <2>1. Words(t)[i][1] < Words(t)[j][2] <=> i <= j
    BY WordsInOrder
  <2>2. x < y + 1
    BY <1>1
  <2> QED
    BY <1>4, <1>5, <2>1, <2>2
<1>8. Piece(t, x, y + 1).start = x /\ Piece(t, x, y + 1).end = y + 1
  BY DEF Piece
<1>9. i \in Nat /\ j \in Nat /\ 1 <= i /\ j <= n
  BY <1>6
<1>10. Spans(t, Piece(t, x, y + 1), i, j)
  BY <1>4, <1>5, <1>7, <1>8, <1>9 DEF Spans
<1> QED
  BY <1>9, <1>10

\* Pieces that do not overlap and cover every word follow one another.
LEMMA CoverFollows ==
    ASSUME NEW t \in AnyText, NEW ps \in Seq(Pieces(t)), NEW n, n = Len(Words(t)),
           \A k, l \in 1 .. Len(ps) : k < l => Hi(t, ps[k]) < Lo(t, ps[l]),
           \A x \in 1 .. n : \E k \in 1 .. Len(ps) : Lo(t, ps[k]) <= x /\ x <= Hi(t, ps[k])
    PROVE  Follow(t, ps, 1, n) /\ (ps = <<>> <=> n = 0)
<1> DEFINE N == Len(ps)
           a(k) == Lo(t, ps[k])
           b(k) == Hi(t, ps[k])
<1>1. /\ N \in Nat /\ n \in Nat
      /\ \A k \in 1 .. N : /\ a(k) \in Nat /\ b(k) \in Nat /\ 1 <= a(k)
                           /\ a(k) <= b(k) /\ b(k) <= n
  <2>1. N \in Nat /\ \A k \in 1 .. N : Whole(t, ps[k])
    BY PieceFacts
  <2> QED
    BY <2>1, WholeFacts, WordsInOrder
<1>2. \A k, l \in 1 .. N : k < l => b(k) < a(l)
  OBVIOUS
<1>3. \A x \in 1 .. n : \E k \in 1 .. N : a(k) <= x /\ x <= b(k)
  OBVIOUS
<1>4. ps = <<>> <=> N = 0
  BY EmptySeq
<1> HIDE DEF N, a, b
<1>5. N = 0 <=> n = 0
  <2>1. CASE N # 0
    <3>1. 1 \in 1 .. N
      BY <1>1, <2>1
    <3> QED
      BY <1>1, <2>1, <3>1
  <2>2. CASE n # 0
    <3>1. 1 \in 1 .. n
      BY <1>1, <2>2
    <3>2. PICK k \in 1 .. N : a(k) <= 1
      BY <1>3, <3>1
    <3> QED
      BY <1>1, <2>2, <3>2
  <2> QED
    BY <2>1, <2>2
<1>6. ASSUME N # 0 PROVE a(1) = 1 /\ b(N) = n
  <2>1. 1 \in 1 .. N /\ N \in 1 .. N /\ 1 \in 1 .. n /\ n \in 1 .. n
    BY <1>1, <1>5, <1>6
  <2>2. PICK k \in 1 .. N : a(k) <= 1 /\ 1 <= b(k)
    BY <1>3, <2>1
  <2>3. PICK l \in 1 .. N : a(l) <= n /\ n <= b(l)
    BY <1>3, <2>1
  <2>4. a(k) \in Nat /\ a(1) \in Nat /\ b(1) \in Nat /\ 1 <= a(1) /\ a(1) <= b(1)
    BY <1>1, <2>1, <2>2
  <2>5. 1 < k => b(1) < a(k)
    BY <1>2, <2>1
  <2>6. k = 1
    BY <2>2, <2>4, <2>5
  <2>7. b(l) \in Nat /\ a(N) \in Nat /\ b(N) \in Nat /\ b(N) <= n /\ a(N) <= b(N)
    BY <1>1, <2>1, <2>3
  <2>8. l < N => b(l) < a(N)
    BY <1>2, <2>1
  <2>9. l = N
    BY <1>1, <2>3, <2>7, <2>8
  <2>10. a(1) <= 1 /\ n <= b(N)
    BY <2>2, <2>3, <2>6, <2>9
  <2> QED
    BY <1>1, <2>4, <2>7, <2>10
<1>7. ASSUME NEW k \in 1 .. N, NEW l \in 1 .. N, l = k + 1
      PROVE  a(l) = b(k) + 1
  <2>1. /\ a(k) \in Nat /\ b(k) \in Nat /\ a(l) \in Nat /\ b(l) \in Nat /\ 1 <= a(k)
        /\ a(k) <= b(k) /\ a(l) <= b(l) /\ b(l) <= n
    BY <1>1
  <2>2. b(k) < a(l)
    <3>1. k < l
      BY <1>7
    <3> QED
      BY <1>2, <3>1
  <2> DEFINE w == b(k) + 1
  <2>3. w \in 1 .. n /\ w \in Nat /\ b(k) < w /\ w <= a(l)
    BY <1>1, <2>1, <2>2
  <2>4. w = b(k) + 1
    OBVIOUS
  <2> HIDE DEF w
  <2>5. PICK m \in 1 .. N : a(m) <= w /\ w <= b(m)
    BY <1>3, <2>3
  <2>6. a(m) \in Nat /\ b(m) \in Nat /\ a(m) <= b(m)
    BY <1>1
  <2>7. ~(m <= k)
    <3>1. m < k => b(m) < a(k)
      BY <1>2
    <3>2. m # k
      BY <2>1, <2>3, <2>5
    <3> QED
      BY <2>1, <2>3, <2>5, <2>6, <3>1, <3>2
  <2>8. ~(l < m)
    <3>1. l < m => b(l) < a(m)
      BY <1>2
    <3> QED
      BY <2>1, <2>3, <2>5, <2>6, <3>1
  <2>9. m = l
    BY <1>7, <2>7, <2>8
  <2>10. a(l) <= w
    BY <2>5, <2>9
  <2> QED
    BY <2>1, <2>3, <2>4, <2>10
<1>8. ps # <<>> => a(1) = 1 /\ b(N) = n
  BY <1>4, <1>6
<1>9. Follow(t, ps, 1, n)
  BY <1>7, <1>8 DEF Follow, N, a, b
<1> QED
  BY <1>4, <1>5, <1>9

Filled(t) == {s \in Starts(t) : KeptOf(t, s) # {}}

LEMMA ParagraphsChosen ==
    ASSUME NEW t
    PROVE  Paragraphs(t) =
              [n \in DOMAIN Sorted(Filled(t)) |->
                  Piece(t, Min(KeptOf(t, Sorted(Filled(t))[n])),
                        Max(KeptOf(t, Sorted(Filled(t))[n])) + 1)]
BY DEF Paragraphs, Starts, EndOf, KeptOf, Filled

LEMMA ParagraphsFollow ==
    ASSUME NEW t \in AnyText
    PROVE  /\ Follow(t, Paragraphs(t), 1, Len(Words(t)))
           /\ Paragraphs(t) = <<>> <=> Len(Words(t)) = 0
<1> DEFINE F == Filled(t)
           ss == Sorted(F)
           N == Cardinality(F)
           ps == Paragraphs(t)
           x(s) == Min(KeptOf(t, s))
           y(s) == Max(KeptOf(t, s))
           e(s) == EndOf(t, s)
           n == Len(Words(t))
<1>1. \A s \in Starts(t) : s \in Nat /\ s <= Len(t) + 2
  <2> TAKE s \in Starts(t)
  <2>1. s = 0 \/ \E k \in Breaks(t) : s = k + 2
    BY DEF Starts
  <2>2. \A k \in Breaks(t) : k \in Nat /\ k + 2 <= Len(t)
    BY BreakFacts
  <2>3. Len(t) \in Nat
    BY TextFacts
  <2> QED
    BY <2>1, <2>2, <2>3
<1>2. F \subseteq Nat /\ F \subseteq Int /\ IsFiniteSet(F) /\ N \in Nat
  <2>1. F \in SUBSET (0 .. Len(t) + 2)
    BY <1>1, TextFacts DEF Filled
  <2>2. IsFiniteSet(0 .. Len(t) + 2)
    BY TextFacts, FS_Interval
  <2>3. IsFiniteSet(F)
    BY <2>1, <2>2, FS_Subset
  <2> QED
    BY <2>1, <2>3, FS_CardinalityType
<1>3. Ascends(ss, F, N)
  BY <1>2, SortedAscends
<1>4. /\ ss \in [1 .. N -> F]
      /\ \A s \in F : \E i \in 1 .. N : ss[i] = s
      /\ \A i, j \in 1 .. N : i < j => ss[i] < ss[j]
  BY <1>3 DEF Ascends
<1>5. ASSUME NEW s \in F
      PROVE  /\ s \in Starts(t) /\ s \in Nat /\ e(s) \in Nat
             /\ x(s) \in Letters(t) /\ y(s) \in Letters(t) /\ s <= x(s) /\ x(s) <= y(s)
             /\ y(s) < e(s) /\ x(s) \in Nat /\ y(s) \in Nat
             /\ \A k \in Letters(t) : s <= k /\ k < e(s) => x(s) <= k /\ k <= y(s)
             /\ x(s) - 1 \notin Letters(t) /\ y(s) + 1 \notin Letters(t)
  <2>1. s \in Starts(t) /\ KeptOf(t, s) # {}
    BY DEF Filled
  <2>2. x(s) \in Letters(t) /\ y(s) \in Letters(t)
    BY <2>1, KeptFacts
  <2> QED
    BY <2>1, <2>2, KeptFacts, StartFacts, LettersOf
<1>6. \A k \in Letters(t) : \E s \in F : s <= k /\ k < e(s)
  <2> TAKE k \in Letters(t)
  <2>1. PICK s \in Starts(t) : s <= k /\ k < e(s)
    BY StartBefore
  <2>2. KeptOf(t, s) # {}
    BY <2>1, KeptFacts
  <2> QED
    BY <2>1, <2>2 DEF Filled
<1>7. \A s, u \in F : s < u => e(s) <= u
  BY StartsApart DEF Filled
<1>8. ps = [i \in DOMAIN ss |-> Piece(t, x(ss[i]), y(ss[i]) + 1)]
  BY ParagraphsChosen
<1> HIDE DEF F, ss, N, ps, x, y, e, n
<1>9. ps = [i \in 1 .. N |-> Piece(t, x(ss[i]), y(ss[i]) + 1)]
  BY <1>4, <1>8
<1>10. \A i \in 1 .. N : ss[i] \in F
  BY <1>4
<1>11. ASSUME NEW i \in 1 .. N
       PROVE  /\ ps[i] \in Pieces(t) /\ Whole(t, ps[i])
              /\ ps[i].start = x(ss[i]) /\ ps[i].end = y(ss[i]) + 1
  <2> DEFINE s == ss[i]
  <2>1. s \in F
    BY <1>10
  <2>2. ps[i] = Piece(t, x(s), y(s) + 1)
    BY <1>9
  <2> HIDE DEF s
  <2>3. /\ x(s) \in Letters(t) /\ y(s) \in Letters(t) /\ x(s) <= y(s)
        /\ x(s) \in Nat /\ y(s) \in Nat
        /\ x(s) - 1 \notin Letters(t) /\ y(s) + 1 \notin Letters(t)
    BY <1>5, <2>1
  <2>4. \E k, l \in Nat : Spans(t, Piece(t, x(s), y(s) + 1), k, l)
    BY <2>3, PieceAt
  <2>5. Whole(t, ps[i])
    BY <2>2, <2>4 DEF Whole
  <2>6. /\ ps[i] = [text |-> Cut(t, x(s), y(s) + 1), start |-> x(s), end |-> y(s) + 1]
        /\ y(s) + 1 \in Nat
    BY <2>2, <2>3 DEF Piece
  <2>7. /\ ps[i].start = x(s) /\ ps[i].end = y(s) + 1
        /\ ps[i].text = Cut(t, x(s), y(s) + 1)
    BY <2>6
  <2>8. ps[i].text = TextOf(t, ps[i])
    BY <2>7 DEF TextOf
  <2>9. TextOf(t, ps[i]) \in AnyText
    BY <2>5, WordsOfPiece
  <2>10. Cut(t, x(s), y(s) + 1) \in AnyText
    BY <2>7, <2>8, <2>9
  <2>11. ps[i] \in AnyPiece
    BY <2>3, <2>6, <2>10 DEF AnyPiece
  <2> QED
    BY <2>5, <2>7, <2>8, <2>11 DEF Pieces, s
<1>12. ps \in Seq(Pieces(t)) /\ Len(ps) = N
  <2>1. ps \in [1 .. N -> Pieces(t)]
    BY <1>9, <1>11
  <2> QED
    BY <1>2, <2>1, FunctionSeq
<1> DEFINE a(i) == Lo(t, ps[i])
           b(i) == Hi(t, ps[i])
           A(w) == Words(t)[w][1]
           B(w) == Words(t)[w][2]
<1>13. \A i \in 1 .. N : /\ a(i) \in 1 .. n /\ b(i) \in 1 .. n
                         /\ A(a(i)) = x(ss[i]) /\ B(b(i)) = y(ss[i]) + 1
  <2> TAKE i \in 1 .. N
  <2>1. Whole(t, ps[i]) /\ ps[i].start = x(ss[i]) /\ ps[i].end = y(ss[i]) + 1
    BY <1>11
  <2>2. /\ a(i) \in Nat /\ b(i) \in Nat /\ 1 <= a(i) /\ a(i) <= b(i) /\ b(i) <= n /\ n \in Nat
        /\ ps[i].start = A(a(i)) /\ ps[i].end = B(b(i))
    BY <2>1, WholeFacts DEF n
  <2> HIDE DEF a, b, A, B
  <2>3. a(i) \in 1 .. n /\ b(i) \in 1 .. n
    BY <2>2
  <2> QED
    BY <2>1, <2>2, <2>3
<1>14. /\ \A w \in 1 .. n : A(w) \in Nat /\ B(w) \in Nat
       /\ \A v, w \in 1 .. n : /\ A(v) < A(w) <=> v < w
                               /\ A(v) < B(w) <=> v <= w
  BY WordsInOrder DEF n
<1>15. n \in Nat /\ \A w \in 1 .. n : A(w) \in Letters(t)
  <2>1. n \in Nat /\ \A w \in 1 .. n : IsWord(t, A(w), B(w))
    BY WordOffsets DEF n
  <2> HIDE DEF A, B
  <2>2. ASSUME NEW w \in 1 .. n PROVE A(w) \in Letters(t)
    <3>1. IsWord(t, A(w), B(w))
      BY <2>1
    <3>2. A(w) \in A(w) .. B(w) - 1
      BY <3>1 DEF IsWord
    <3> QED
      BY <3>1, <3>2 DEF IsWord
  <2> QED
    BY <2>1, <2>2
<1> HIDE DEF a, b, A, B
<1>16. ASSUME NEW k \in 1 .. N, NEW l \in 1 .. N, k < l PROVE b(k) < a(l)
  <2>1. ss[k] < ss[l] /\ ss[k] \in F /\ ss[l] \in F
    BY <1>4, <1>10, <1>16
  <2>2. e(ss[k]) <= ss[l]
    BY <1>7, <2>1
  <2>3. /\ y(ss[k]) < e(ss[k]) /\ ss[l] <= x(ss[l])
        /\ y(ss[k]) \in Nat /\ e(ss[k]) \in Nat /\ ss[l] \in Nat /\ x(ss[l]) \in Nat
    BY <1>5, <2>1
  <2>4. /\ a(l) \in 1 .. n /\ b(k) \in 1 .. n
        /\ A(a(l)) = x(ss[l]) /\ B(b(k)) = y(ss[k]) + 1
    BY <1>13
  <2>5. ~(A(a(l)) < B(b(k)))
    BY <2>2, <2>3, <2>4
  <2>6. A(a(l)) < B(b(k)) <=> a(l) <= b(k)
    BY <1>14, <2>4
  <2>7. ~(a(l) <= b(k))
    BY <2>5, <2>6
  <2> QED
    BY <1>15, <2>4, <2>7
<1>17. ASSUME NEW w \in 1 .. n PROVE \E k \in 1 .. N : a(k) <= w /\ w <= b(k)
  <2>1. A(w) \in Letters(t) /\ A(w) \in Nat
    BY <1>14, <1>15
  <2>2. PICK s \in F : s <= A(w) /\ A(w) < e(s)
    BY <1>6, <2>1
  <2>3. PICK k \in 1 .. N : ss[k] = s
    BY <1>4
  <2>4. x(s) <= A(w) /\ A(w) <= y(s) /\ x(s) \in Nat /\ y(s) \in Nat
    BY <1>5, <2>1, <2>2
  <2>5. a(k) \in 1 .. n /\ b(k) \in 1 .. n /\ A(a(k)) = x(s) /\ B(b(k)) = y(s) + 1
    BY <1>13, <2>3
  <2>6. A(w) < A(a(k)) <=> w < a(k)
    BY <1>14, <2>5
  <2>7. A(w) < B(b(k)) <=> w <= b(k)
    BY <1>14, <2>5
  <2>8. ~(A(w) < A(a(k))) /\ A(w) < B(b(k))
    BY <2>1, <2>4, <2>5
  <2>9. ~(w < a(k)) /\ w <= b(k)
    BY <2>6, <2>7, <2>8
  <2> QED
    BY <1>15, <2>5, <2>9
<1>18. \A k, l \in 1 .. Len(ps) : k < l => Hi(t, ps[k]) < Lo(t, ps[l])
  BY <1>12, <1>16 DEF a, b
<1>20. \A w \in 1 .. n : \E k \in 1 .. Len(ps) : Lo(t, ps[k]) <= w /\ w <= Hi(t, ps[k])
  BY <1>12, <1>17 DEF a, b
<1>19. Follow(t, ps, 1, n) /\ (ps = <<>> <=> n = 0)
  <2>1. n = Len(Words(t)) /\ ps \in Seq(Pieces(t))
    BY <1>12 DEF n
  <2> QED
    BY <1>18, <1>20, <2>1, CoverFollows
<1> QED
  BY <1>19 DEF ps, n

-----------------------------------------------------------------------------
(* The fixed chunker.                                                      *)

FixedBy(f, t, c, ps) ==
    f = [i \in 0 .. Len(ps) |-> IF i = 0 THEN Empty
                                ELSE PackParagraph(t, c, f[i - 1], ps[i])]

LEMMA FixedChosen ==
    ASSUME NEW t, NEW c
    PROVE  FixedChunks(t, c) =
              IF Paragraphs(t) = <<>> THEN <<>>
              ELSE IF CountTokens(t) <= c.max
                   THEN <<Span(Paragraphs(t), BlankLine)>>
              ELSE Flushed(BlankLine,
                           (CHOOSE f : FixedBy(f, t, c, Paragraphs(t)))
                               [Len(Paragraphs(t))])
BY DEF FixedChunks, FixedBy

LEMMA PackParagraphTyped ==
    ASSUME NEW t \in AnyText, Unaltered(t), NEW r \in States(t), NEW c \in Chunker,
           NEW p \in Pieces(t)
    PROVE  PackParagraph(t, c, r, p) \in States(t)
<1>1. BlankLine \in Separators
  BY DEF Separators
<1>2. Flushed(BlankLine, r) \in Seq(AnyChunk)
  BY <1>1, StateFacts
<1>3. SplitLong(t, c, p) \in Seq(AnyChunk)
  BY SplitTiled DEF Tiled
<1>4. Flushed(BlankLine, r) \o SplitLong(t, c, p) \in Seq(AnyChunk)
  BY <1>2, <1>3, ConcatProperties
<1>5. <<>> \in Seq(Pieces(t))
  BY EmptySeq
<1>6. Pack(c, BlankLine, r, p) \in States(t)
  BY <1>1, PackTyped
<1>7. [done |-> Flushed(BlankLine, r) \o SplitLong(t, c, p), open |-> <<>>] \in States(t)
  BY <1>4, <1>5 DEF States
<1> QED
  BY <1>6, <1>7 DEF PackParagraph

FixedKeepsIn(V, S, t, c) == \A r \in V, p \in S : PackParagraph(t, c, r, p) \in V

LEMMA FixedWithin ==
    ASSUME NEW S, NEW ps \in Seq(S), NEW t, NEW c, NEW V, Empty \in V,
           FixedKeepsIn(V, S, t, c), NEW f, f = CHOOSE g : FixedBy(g, t, c, ps)
    PROVE  /\ f[0] = Empty
           /\ \A i \in 1 .. Len(ps) : f[i] = PackParagraph(t, c, f[i - 1], ps[i])
           /\ \A i \in 0 .. Len(ps) : f[i] \in V
<1> DEFINE n == Len(ps)
           step == [x \in V \X (1 .. n) |-> PackParagraph(t, c, x[1], ps[x[2]])]
<1>1. n \in Nat /\ \A i \in 1 .. n : ps[i] \in S
  BY LenProperties, ElementOfSeq
<1>3. \A r \in V, i \in 1 .. n : PackParagraph(t, c, r, ps[i]) \in V
  BY <1>1 DEF FixedKeepsIn
<1>4. \A r \in V, i \in 1 .. n : step[<<r, i>>] = PackParagraph(t, c, r, ps[i])
  OBVIOUS
<1>5. step \in [V \X (1 .. n) -> V]
  BY <1>3
<1> HIDE DEF step, n
<1>6. PICK g \in [0 .. n -> V] : Recurs(g, n, Empty, step)
  BY <1>1, <1>5, Recursion
<1>7. FixedBy(g, t, c, ps)
  <2> DEFINE h == [i \in 0 .. n |-> IF i = 0 THEN Empty
                                    ELSE PackParagraph(t, c, g[i - 1], ps[i])]
             e == [i \in 0 .. n |-> IF i = 0 THEN Empty ELSE step[<<g[i - 1], i>>]]
  <2>1. g = e
    BY <1>6 DEF Recurs
  <2>2. ASSUME NEW i \in 0 .. n PROVE e[i] = h[i]
    <3>1. CASE i = 0
      BY <3>1
    <3>2. CASE i # 0
      <4>1. i - 1 \in 0 .. n /\ i \in 1 .. n
        BY <1>1, <3>2
      <4>2. g[i - 1] \in V
        BY <1>6, <4>1
      <4> QED
        BY <1>4, <3>2, <4>1, <4>2
    <3> QED
      BY <3>1, <3>2
  <2>3. e = h
    BY <2>2
  <2> QED
    BY <2>1, <2>3 DEF FixedBy, n
<1>8. FixedBy(f, t, c, ps)
  BY <1>7
<1> DEFINE h == [i \in 0 .. n |-> IF i = 0 THEN Empty
                                  ELSE PackParagraph(t, c, f[i - 1], ps[i])]
<1>9. f = h
  BY <1>8 DEF FixedBy, n
<1>10. h[0] = Empty /\ \A i \in 1 .. n : h[i] = PackParagraph(t, c, f[i - 1], ps[i])
  BY <1>1
<1> HIDE DEF h
<1>11. f[0] = Empty /\ \A i \in 1 .. n : f[i] = PackParagraph(t, c, f[i - 1], ps[i])
  BY <1>9, <1>10
<1> DEFINE P == {i \in 0 .. n : f[i] \in V}
<1>12. 0 \in P
  BY <1>1, <1>11
<1>13. ASSUME NEW i \in 0 .. n, i < n, i \in P PROVE i + 1 \in P
  <2>1. ASSUME NEW j \in 1 .. n, j = i + 1 PROVE f[j] \in V
    <3>1. f[j] = PackParagraph(t, c, f[j - 1], ps[j]) /\ j - 1 = i
      BY <1>11, <2>1
    <3>2. f[i] \in V
      BY <1>13
    <3> QED
      BY <1>3, <3>1, <3>2
  <2>2. i + 1 \in 1 .. n /\ i + 1 \in 0 .. n
    BY <1>1, <1>13
  <2> QED
    BY <2>1, <2>2
<1>14. \A i \in 0 .. n : f[i] \in V
  <2> HIDE DEF P
  <2>1. \A i \in 0 .. n : i \in P
    BY <1>1, <1>12, <1>13, UpTo
  <2> QED
    BY <2>1 DEF P
<1> QED
  BY <1>11, <1>14 DEF n

LEMMA FixedFunction ==
    ASSUME NEW t \in AnyText, Unaltered(t), NEW ps \in Seq(Pieces(t)),
           NEW c \in Chunker, NEW f, f = CHOOSE g : FixedBy(g, t, c, ps)
    PROVE  /\ f[0] = Empty
           /\ \A i \in 1 .. Len(ps) : f[i] = PackParagraph(t, c, f[i - 1], ps[i])
           /\ \A i \in 0 .. Len(ps) : f[i] \in States(t)
<1>1. Empty \in States(t)
  <2>1. <<>> \in Seq(AnyChunk) /\ <<>> \in Seq(Pieces(t))
    BY EmptySeq
  <2> QED
    BY <2>1 DEF States, Empty
<1>2. FixedKeepsIn(States(t), Pieces(t), t, c)
  BY PackParagraphTyped DEF FixedKeepsIn
<1> QED
  BY <1>1, <1>2, FixedWithin

\* After paragraph i: the chunk that is open holds the last ones, or all are in
\* the chunks that are done.
Filling(t, ps, r, i) ==
    /\ r \in States(t)
    /\ \/ \E o \in 1 .. i : PackedTo(t, ps, r, o, i, 1)
       \/ /\ r.open = <<>>
          /\ \E h \in Nat : /\ h = IF i = 0 THEN 0 ELSE Hi(t, ps[i])
                            /\ Tiled(t, r.done, 1, h + 1, h)

\* What is open is flushed: all up to paragraph i is in chunks.
LEMMA FillingFlushed ==
    ASSUME NEW t \in AnyText, NEW ps, NEW b, Follow(t, ps, 1, b),
           NEW i \in 0 .. Len(ps), NEW r, Filling(t, ps, r, i),
           NEW h, h = IF i = 0 THEN 0 ELSE Hi(t, ps[i]),
           NEW sep \in Separators
    PROVE  h \in Nat /\ Tiled(t, Flushed(sep, r), 1, h + 1, h)
<1>1. Chain(t, ps)
  BY FollowChain
<1>2. CASE \E o \in 1 .. i : PackedTo(t, ps, r, o, i, 1)
  <2>1. PICK o \in 1 .. i : PackedTo(t, ps, r, o, i, 1)
    BY <1>2
  <2>2. Len(ps) \in Nat
    BY <1>1, ChainFacts
  <2>3. o \in 1 .. Len(ps) /\ i \in o .. Len(ps) /\ i # 0 /\ i \in 1 .. Len(ps) /\ o <= i
    BY <2>1, <2>2
  <2>4. /\ Lo(t, ps[o]) \in Nat /\ 1 <= Lo(t, ps[o])
        /\ Lo(t, ps[i]) \in Nat /\ Hi(t, ps[i]) \in Nat /\ Lo(t, ps[i]) <= Hi(t, ps[i])
    BY <1>1, <2>3, ChainFacts
  <2>5. Lo(t, ps[o]) <= Lo(t, ps[i])
    BY <1>1, <2>3, ChainOrder
  <2>6. /\ r.open # <<>>
        /\ Tiled(t, Append(r.done, Span(r.open, sep)), 1,
                 Lo(t, ps[o]), Hi(t, ps[i]))
    BY <1>1, <2>1, <2>3, <2>4, FlushedTiled
  <2>7. Flushed(sep, r) = Append(r.done, Span(r.open, sep)) /\ h = Hi(t, ps[i])
    BY <2>3, <2>6 DEF Flushed
  <2> DEFINE cs == Append(r.done, Span(r.open, sep))
             l == Lo(t, ps[o])
             k == h + 1
  <2>8. Tiled(t, cs, 1, l, h) /\ l \in Int /\ h \in Int /\ k \in Int /\ l <= k /\ h <= h
    BY <2>4, <2>5, <2>6, <2>7
  <2>11. 1 \in Nat
    OBVIOUS
  <2> HIDE DEF cs, l, k
  <2>9. Tiled(t, cs, 1, k, h)
    BY <2>8, <2>11, TiledMore
  <2>10. h \in Nat
    BY <2>4, <2>7
  <2> QED
    BY <2>7, <2>9, <2>10 DEF cs, k
<1>3. CASE /\ r.open = <<>>
           /\ \E k \in Nat : /\ k = IF i = 0 THEN 0 ELSE Hi(t, ps[i])
                             /\ Tiled(t, r.done, 1, k + 1, k)
  <2>1. Flushed(sep, r) = r.done
    BY <1>3 DEF Flushed
  <2> QED
    BY <1>3, <2>1
<1> QED
  BY <1>2, <1>3 DEF Filling

LEMMA FillingKeeps ==
    ASSUME NEW t \in AnyText, Unaltered(t), NEW ps, NEW b, Follow(t, ps, 1, b),
           NEW c \in Chunker,
           NEW i \in 1 .. Len(ps), NEW r, Filling(t, ps, r, i - 1)
    PROVE  Filling(t, ps, PackParagraph(t, c, r, ps[i]), i)
<1> DEFINE p == ps[i]
           q == PackParagraph(t, c, r, p)
<1>1. Chain(t, ps) /\ r \in States(t)
  BY FollowChain DEF Filling
<1>2. /\ Len(ps) \in Nat /\ p \in Pieces(t)
      /\ Lo(t, p) \in Nat /\ Hi(t, p) \in Nat /\ 1 <= Lo(t, p) /\ Lo(t, p) <= Hi(t, p)
  BY <1>1, ChainFacts
<1>5. q \in States(t)
  BY <1>1, <1>2, PackParagraphTyped
<1>6. BlankLine \in Separators
  BY DEF Separators
<1> DEFINE j == i - 1
           h == IF j = 0 THEN 0 ELSE Hi(t, ps[j])
<1>7. j \in 0 .. Len(ps) /\ i = j + 1 /\ i # 0 /\ j \in Int
  BY <1>2
<1>8. h \in Nat /\ Tiled(t, Flushed(BlankLine, r), 1, h + 1, h)
  <2>1. Filling(t, ps, r, j)
    OBVIOUS
  <2> HIDE DEF j, h
  <2>2. h = IF j = 0 THEN 0 ELSE Hi(t, ps[j])
    BY DEF h
  <2> QED
    BY <1>6, <1>7, <2>1, <2>2, FillingFlushed
<1>9. Lo(t, p) = h + 1
  <2>1. CASE j = 0
    <3>1. i = 1
      BY <1>7, <2>1
    <3>2. ps # <<>>
      BY <1>2, <1>7, EmptySeq
    <3>3. Lo(t, ps[1]) = 1
      BY <3>2 DEF Follow
    <3>4. Lo(t, p) = 1
      BY <3>1, <3>3
    <3> QED
      BY <2>1, <3>4
  <2>2. CASE j # 0
    <3>1. j \in 1 .. Len(ps)
      BY <1>2, <1>7, <2>2
    <3> HIDE DEF j
    <3>2. Lo(t, p) = Hi(t, ps[j]) + 1
      BY <1>7, <3>1 DEF Follow
    <3> QED
      BY <2>2, <3>2
  <2> QED
    BY <2>1, <2>2
<1>10. CASE Tokens(p) > c.max
  <2> DEFINE u == Flushed(BlankLine, r)
             v == SplitLong(t, c, p)
             a == Lo(t, p)
             e == Hi(t, p)
  <2>1. q = [done |-> u \o v, open |-> <<>>]
    BY <1>10 DEF PackParagraph
  <2>2. Tiled(t, v, a, e, e)
    BY <1>2, SplitTiled
  <2> DEFINE k == h + 1
  <2>3. Tiled(t, u, 1, k, h)
    BY <1>8
  <2>4. /\ a \in Nat /\ e \in Int /\ k \in Int /\ h \in Int /\ 1 \in Nat
        /\ 1 <= a /\ k <= a /\ a <= h + 1 /\ k <= e /\ e <= e
    BY <1>2, <1>8, <1>9
  <2> HIDE DEF u, v, a, e, k, h
  <2>5. Tiled(t, u \o v, 1, e, e)
    BY <2>2, <2>3, <2>4, TiledJoin
  <2> DEFINE g == e + 1
  <2>6. g \in Int /\ e <= g
    BY <2>4
  <2> HIDE DEF g
  <2>7. Tiled(t, u \o v, 1, g, e)
    BY <2>4, <2>5, <2>6, TiledMore
  <2>8. q.done = u \o v /\ q.open = <<>>
    BY <2>1
  <2>9. e \in Nat /\ e = IF i = 0 THEN 0 ELSE Hi(t, ps[i])
    BY <1>2, <1>7 DEF e
  <2>10. Tiled(t, q.done, 1, e + 1, e)
    BY <2>7, <2>8 DEF g
  <2> QED
    BY <1>5, <2>8, <2>9, <2>10 DEF Filling
<1>11. CASE ~(Tokens(p) > c.max)
  <2>1. q = Pack(c, BlankLine, r, p)
    BY <1>11 DEF PackParagraph
  <2>2. \E o \in 1 .. i : PackedTo(t, ps, r, o, j, 1)
    <3>1. CASE \E o \in 1 .. j : PackedTo(t, ps, r, o, j, 1)
      <4>1. \A o \in 1 .. j : o \in 1 .. i
        BY <1>7
      <4> QED
        BY <3>1, <4>1
    <3>2. CASE /\ r.open = <<>>
               /\ \E k \in Nat : /\ k = h
                                 /\ Tiled(t, r.done, 1, k + 1, k)
      <4>1. Tiled(t, r.done, 1, h + 1, h)
        BY <3>2
      <4>2. h = Lo(t, p) - 1 /\ h + 1 = Lo(t, p)
        BY <1>2, <1>8, <1>9
      <4>3. Tiled(t, r.done, 1, Lo(t, p), Lo(t, p) - 1)
        BY <4>1, <4>2
      <4>4. SubSeq(ps, i, j) = <<>>
        <5>1. SubSeq(ps, i, j) \in Seq(Pieces(t)) /\ Len(SubSeq(ps, i, j)) = j - i + 1
          <6>1. i \in Nat /\ j \in Nat /\ 1 <= i /\ i <= j + 1 /\ j <= Len(ps)
                /\ ps \in Seq(Pieces(t))
            BY <1>1, <1>2, <1>7 DEF Chain
          <6> HIDE DEF j
          <6> QED
            BY <6>1, SliceFacts
        <5> QED
          BY <1>7, <5>1, EmptySeq
      <4> HIDE DEF j
      <4>6. PackedTo(t, ps, r, i, j, 1)
        BY <1>1, <3>2, <4>3, <4>4 DEF PackedTo, States
      <4>7. i \in 1 .. i
        BY <1>7
      <4> QED
        BY <4>6, <4>7
    <3>3. \/ \E o \in 1 .. j : PackedTo(t, ps, r, o, j, 1)
          \/ /\ r.open = <<>>
             /\ \E k \in Nat : /\ k = h
                               /\ Tiled(t, r.done, 1, k + 1, k)
      BY DEF Filling
    <3> QED
      BY <3>1, <3>2, <3>3
  <2>3. PICK o \in 1 .. i : PackedTo(t, ps, r, o, i - 1, 1)
    BY <2>2
  <2>4. o \in 1 .. Len(ps) /\ i \in o .. Len(ps)
    BY <1>2
  <2>5. 1 \in Nat /\ 1 <= Lo(t, ps[o])
    BY <1>1, <2>4, ChainFacts
  <2>7. \E x \in o .. i : PackedTo(t, ps, Pack(c, BlankLine, r, ps[i]), x, i, 1)
    BY <1>1, <1>6, <2>3, <2>4, <2>5, PackKeeps
  <2>8. PICK x \in o .. i : PackedTo(t, ps, q, x, i, 1)
    BY <2>1, <2>7
  <2>9. x \in 1 .. i
    BY <2>3, <2>8
  <2> QED
    BY <1>5, <2>8, <2>9 DEF Filling
<1> QED
  BY <1>10, <1>11

LEMMA FixedTiled ==
    ASSUME NEW t \in AnyText, Unaltered(t), NEW c \in Chunker
    PROVE  \E l \in Int : Tiled(t, FixedChunks(t, c), 1, l, Len(Words(t)))
<1> DEFINE ps == Paragraphs(t)
           n == Len(Words(t))
           N == Len(ps)
           f == CHOOSE g : FixedBy(g, t, c, ps)
<1>3. Follow(t, ps, 1, n) /\ (ps = <<>> <=> n = 0) /\ n \in Nat
  BY ParagraphsFollow, WordsInOrder
<1>4. FixedChunks(t, c) = IF ps = <<>> THEN <<>>
                          ELSE IF CountTokens(t) <= c.max THEN <<Span(ps, BlankLine)>>
                          ELSE Flushed(BlankLine, f[N])
  BY FixedChosen
<1>6. BlankLine \in Separators
  BY DEF Separators
<1> HIDE DEF ps, n, f
<1>7. Chain(t, ps) /\ ps \in Seq(Pieces(t))
  BY <1>3, FollowChain DEF Chain
<1>8. CASE ps = <<>>
  <2>1. n < 1 /\ 1 \in Nat /\ n \in Int /\ 1 \in Int
    BY <1>3, <1>8
  <2>2. Tiled(t, <<>>, 1, 1, n)
    BY <2>1, TiledNone
  <2>3. FixedChunks(t, c) = <<>>
    BY <1>4, <1>8
  <2> QED
    BY <2>1, <2>2, <2>3 DEF n
<1>9. CASE ps # <<>> /\ CountTokens(t) <= c.max
  <2> DEFINE s == Span(ps, BlankLine)
  <2>1. FixedChunks(t, c) = <<s>>
    BY <1>4, <1>9
  <2>2. /\ s \in AnyChunk /\ Holds(t, s)
        /\ Lo(t, s) = Lo(t, ps[1]) /\ Hi(t, s) = Hi(t, ps[N])
    BY <1>6, <1>7, <1>9, ChainSpan
  <2>3. Lo(t, ps[1]) = 1 /\ Hi(t, ps[N]) = n
    BY <1>3, <1>9 DEF Follow
  <2> HIDE DEF s
  <2>7. Tiled(t, <<s>>, Lo(t, s), Lo(t, s), Hi(t, s))
    BY <2>2, TiledOne
  <2>8. Tiled(t, <<s>>, 1, 1, n)
    BY <2>2, <2>3, <2>7
  <2> QED
    BY <2>1, <2>8 DEF n
<1>10. CASE ps # <<>> /\ ~(CountTokens(t) <= c.max)
  <2>1. FixedChunks(t, c) = Flushed(BlankLine, f[N])
    BY <1>4, <1>10
  <2>2. N \in Nat /\ N # 0
    BY <1>7, <1>10, EmptySeq, ChainFacts
  <2>3. /\ f[0] = Empty
        /\ \A i \in 1 .. N : f[i] = PackParagraph(t, c, f[i - 1], ps[i])
        /\ \A i \in 0 .. N : f[i] \in States(t)
    BY <1>7, FixedFunction DEF f
  <2> HIDE DEF N
  <2> DEFINE P == {i \in 0 .. N : Filling(t, ps, f[i], i)}
  <2>4. Filling(t, ps, f[0], 0)
    <3>1. Empty.open = <<>> /\ Empty.done = <<>>
      BY DEF Empty
    <3> DEFINE k == 0 + 1
    <3>2. 1 \in Nat /\ 0 \in Int /\ 0 < 1 /\ 0 \in Nat /\ 0 \in 0 .. N
      BY <2>2
    <3>3. Tiled(t, <<>>, 1, k, 0)
      <4> HIDE DEF k
      <4> QED
        BY <3>2, TiledNone
    <3> QED
      BY <2>3, <3>1, <3>2, <3>3 DEF Filling
  <2>5. 0 \in P
    BY <2>2, <2>4
  <2>6. ASSUME NEW i \in 0 .. N, i < N, i \in P PROVE i + 1 \in P
    <3>1. ASSUME NEW j \in 1 .. N, j = i + 1 PROVE Filling(t, ps, f[j], j)
      <4>1. j - 1 = i
        BY <3>1
      <4>2. Filling(t, ps, f[j - 1], j - 1)
        BY <2>6, <4>1
      <4>3. f[j] = PackParagraph(t, c, f[j - 1], ps[j])
        BY <2>3
      <4>4. j \in 1 .. Len(ps)
        BY DEF N
      <4> DEFINE r == f[j - 1]
      <4>5. Filling(t, ps, r, j - 1)
        BY <4>2
      <4> HIDE DEF r
      <4>6. Filling(t, ps, PackParagraph(t, c, r, ps[j]), j)
        BY <1>3, <4>4, <4>5, FillingKeeps
      <4> QED
        BY <4>3, <4>6 DEF r
    <3>2. i + 1 \in 1 .. N /\ i + 1 \in 0 .. N
      BY <2>2, <2>6
    <3> QED
      BY <3>1, <3>2
  <2>7. Filling(t, ps, f[N], N)
    <3> HIDE DEF P
    <3>1. \A i \in 0 .. N : i \in P
      BY <2>2, <2>5, <2>6, UpTo
    <3>2. N \in P
      BY <2>2, <3>1
    <3> QED
      BY <3>2 DEF P
  <2>8. Hi(t, ps[N]) = n
    BY <1>3, <1>10 DEF Follow, N
  <2> DEFINE h == n
  <2>9. h = (IF N = 0 THEN 0 ELSE Hi(t, ps[N])) /\ N \in 0 .. Len(ps)
    BY <2>2, <2>8 DEF N
  <2>10. Tiled(t, Flushed(BlankLine, f[N]), 1, h + 1, h)
    <3> DEFINE r == f[N]
    <3>1. Filling(t, ps, r, N)
      BY <2>7
    <3> HIDE DEF r, h
    <3>2. Tiled(t, Flushed(BlankLine, r), 1, h + 1, h)
      BY <1>3, <1>6, <2>9, <3>1, FillingFlushed
    <3> QED
      BY <3>2 DEF r
  <2>11. n + 1 \in Int
    BY <1>3
  <2> QED
    BY <2>1, <2>10, <2>11 DEF n
<1> QED
  BY <1>8, <1>9, <1>10

-----------------------------------------------------------------------------
(* The semantic chunker.                                                   *)

LEMMA ChainJoin ==
    ASSUME NEW t \in AnyText, NEW r, Chain(t, r), r # <<>>, NEW s, Chain(t, s), s # <<>>,
           Abuts(t, r[Len(r)], s[1])
    PROVE  /\ Chain(t, r \o s) /\ r \o s # <<>>
           /\ (r \o s)[1] = r[1] /\ (r \o s)[Len(r \o s)] = s[Len(s)]
           /\ \A k \in 1 .. Len(r \o s) : \/ \E j \in 1 .. Len(r) : (r \o s)[k] = r[j]
                                          \/ \E j \in 1 .. Len(s) : (r \o s)[k] = s[j]
<1> DEFINE m == Len(r)
           n == Len(s)
           u == r \o s
<1>1. r \in Seq(Pieces(t)) /\ s \in Seq(Pieces(t))
  BY DEF Chain
<1>2. /\ m \in Nat /\ n \in Nat /\ u \in Seq(Pieces(t)) /\ Len(u) = m + n
      /\ \A k \in 1 .. m : u[k] = r[k]
      /\ \A k \in 1 .. n : u[m + k] = s[k]
  BY <1>1, SeqJoin
<1>3. m # 0 /\ n # 0
  BY <1>1, EmptySeq
<1>4. /\ \A k, l \in 1 .. m : l = k + 1 => Abuts(t, r[k], r[l])
      /\ \A k, l \in 1 .. n : l = k + 1 => Abuts(t, s[k], s[l])
      /\ Abuts(t, r[m], s[1])
  BY DEF Chain
<1> HIDE DEF m, n, u
<1>5. ASSUME NEW k \in 1 .. m + n
      PROVE  \/ k \in 1 .. m
             \/ \E j \in 1 .. n : k = m + j
  <2>1. CASE ~(k \in 1 .. m)
    <3>1. k - m \in 1 .. n /\ k = m + (k - m)
      BY <1>2, <2>1
    <3> QED
      BY <3>1
  <2> QED
    BY <2>1
<1>6. ASSUME NEW k \in 1 .. m + n, NEW l \in 1 .. m + n, l = k + 1
      PROVE  Abuts(t, u[k], u[l])
  <2>1. CASE l \in 1 .. m
    <3>1. k \in 1 .. m
      BY <1>2, <1>6, <2>1
    <3> QED
      BY <1>2, <1>4, <1>6, <2>1, <3>1
  <2>2. CASE k = m
    <3>1. m \in 1 .. m /\ 1 \in 1 .. n /\ l = m + 1
      BY <1>2, <1>3, <1>6, <2>2
    <3>2. u[k] = r[m] /\ u[l] = s[1]
      BY <1>2, <2>2, <3>1
    <3> QED
      BY <1>4, <3>2
  <2>3. CASE k \notin 1 .. m
    <3>1. PICK j \in 1 .. n : k = m + j
      BY <1>5, <2>3
    <3> DEFINE i == j + 1
    <3>2. i \in 1 .. n /\ i = j + 1 /\ l = m + i
      BY <1>2, <1>6, <3>1
    <3> HIDE DEF i
    <3>3. u[k] = s[j] /\ u[l] = s[i]
      BY <1>2, <3>1, <3>2
    <3> QED
      BY <1>4, <3>2, <3>3
  <2>4. l \in 1 .. m \/ k = m \/ k \notin 1 .. m
    BY <1>2, <1>6
  <2> QED
    BY <2>1, <2>2, <2>3, <2>4
<1>7. Chain(t, u)
  BY <1>2, <1>6 DEF Chain
<1>8. u # <<>>
  BY <1>2, <1>3, EmptySeq
<1>9. u[1] = r[1] /\ u[m + n] = s[n]
  <2>1. 1 \in 1 .. m /\ n \in 1 .. n
    BY <1>2, <1>3
  <2> QED
    BY <1>2, <2>1
<1>10. ASSUME NEW k \in 1 .. m + n
       PROVE  (\E j \in 1 .. m : u[k] = r[j]) \/ (\E j \in 1 .. n : u[k] = s[j])
  BY <1>2, <1>5
<1> QED
  BY <1>2, <1>7, <1>8, <1>9, <1>10 DEF m, n, u

\* A segment: sentences.
Goes(t, s) == Chain(t, s) /\ s # <<>>
Tip(s) == s[Len(s)]
\* Segments one after the other.
Train(t, sg) ==
    /\ sg \in Seq(Seq(Pieces(t))) /\ sg # <<>>
    /\ \A k \in 1 .. Len(sg) : Goes(t, sg[k])
    /\ \A k, l \in 1 .. Len(sg) : l = k + 1 => Abuts(t, Tip(sg[k]), sg[l][1])

LEMMA GoesJoin ==
    ASSUME NEW t \in AnyText, NEW r, Goes(t, r), NEW s, Goes(t, s),
           Abuts(t, Tip(r), s[1]), NEW u, u = Coupled(r, s)
    PROVE  Goes(t, u) /\ u[1] = r[1] /\ Tip(u) = Tip(s)
<1>1. /\ Chain(t, r) /\ r # <<>> /\ Chain(t, s) /\ s # <<>>
      /\ Abuts(t, r[Len(r)], s[1])
  BY DEF Goes, Tip
<1>2. /\ Chain(t, r \o s) /\ r \o s # <<>>
      /\ (r \o s)[1] = r[1] /\ (r \o s)[Len(r \o s)] = s[Len(s)]
      /\ \A k \in 1 .. Len(r \o s) : \/ \E j \in 1 .. Len(r) : (r \o s)[k] = r[j]
                                     \/ \E j \in 1 .. Len(s) : (r \o s)[k] = s[j]
  BY <1>1, ChainJoin
<1>3. /\ Chain(t, u) /\ u # <<>> /\ u[1] = r[1] /\ u[Len(u)] = s[Len(s)]
      /\ \A k \in 1 .. Len(u) : \/ \E j \in 1 .. Len(r) : u[k] = r[j]
                                \/ \E j \in 1 .. Len(s) : u[k] = s[j]
  BY <1>2 DEF Coupled
<1> QED
  BY <1>3 DEF Goes, Tip

LEMMA TrainFacts ==
    ASSUME NEW t \in AnyText, NEW sg, Train(t, sg)
    PROVE  /\ Len(sg) \in Nat \ {0} /\ DOMAIN sg = 1 .. Len(sg)
           /\ 1 \in 1 .. Len(sg) /\ Len(sg) \in 1 .. Len(sg)
           /\ \A k \in 1 .. Len(sg) : sg[k] \in Seq(Pieces(t)) /\ Goes(t, sg[k])
           /\ \A k, l \in 1 .. Len(sg) : l = k + 1 => Abuts(t, Tip(sg[k]), sg[l][1])
<1> DEFINE n == Len(sg)
<1>1. /\ n \in Nat /\ DOMAIN sg = 1 .. n /\ n # 0
      /\ \A k \in 1 .. n : sg[k] \in Seq(Pieces(t))
  BY LenProperties, ElementOfSeq, EmptySeq DEF Train
<1> HIDE DEF n
<1>2. 1 \in 1 .. n /\ n \in 1 .. n /\ n \in Nat \ {0}
  BY <1>1
<1> QED
  BY <1>1, <1>2 DEF n, Train

LEMMA TrainOne ==
    ASSUME NEW t \in AnyText, NEW s, Goes(t, s)
    PROVE  /\ Train(t, Append(<<>>, s))
           /\ Append(<<>>, s)[1] = s /\ Tip(Append(<<>>, s)) = s
<1> DEFINE e == <<>>
           q == Append(e, s)
<1>1. s \in Seq(Pieces(t))
  BY DEF Goes, Chain
<1>2. e \in Seq(Seq(Pieces(t))) /\ Len(e) = 0
  BY EmptySeq
<1> HIDE DEF e
<1>3. q \in Seq(Seq(Pieces(t))) /\ q # <<>> /\ Len(q) = 0 + 1 /\ q[0 + 1] = s
  BY ZenonT(40), <1>1, <1>2, AppendProperties
<1> HIDE DEF q
<1>4. Len(q) = 1 /\ q[1] = s
  BY <1>3
<1>5. \A k \in 1 .. Len(q) : Goes(t, q[k])
  BY <1>4
<1>6. \A k, l \in 1 .. Len(q) : l # k + 1
  BY <1>4
<1>7. Train(t, q) /\ q[1] = s /\ Tip(q) = s
  BY <1>3, <1>4, <1>5, <1>6 DEF Train, Tip
<1> QED
  BY <1>7 DEF q, e

LEMMA TrainMore ==
    ASSUME NEW t \in AnyText, NEW r, Train(t, r), NEW s, Goes(t, s),
           Abuts(t, Tip(Tip(r)), s[1])
    PROVE  /\ Train(t, Append(r, s))
           /\ Append(r, s)[1][1] = r[1][1] /\ Tip(Append(r, s)) = s
<1> DEFINE n == Len(r)
           q == Append(r, s)
<1>1. /\ n \in Nat \ {0} /\ 1 \in 1 .. n /\ n \in 1 .. n
      /\ \A k \in 1 .. n : Goes(t, r[k])
      /\ \A k, l \in 1 .. n : l = k + 1 => Abuts(t, Tip(r[k]), r[l][1])
  BY TrainFacts
<1>2. r \in Seq(Seq(Pieces(t))) /\ s \in Seq(Pieces(t))
  BY DEF Train, Goes, Chain
<1>3. /\ q \in Seq(Seq(Pieces(t))) /\ q # <<>> /\ Len(q) = n + 1
      /\ \A k \in 1 .. n : q[k] = r[k]
      /\ q[n + 1] = s
  BY <1>2, AppendProperties
<1>4. Tip(r) = r[n]
  BY DEF Tip
<1> HIDE DEF n, q
<1>5. ASSUME NEW k \in 1 .. n + 1 PROVE Goes(t, q[k])
  <2>1. k \in 1 .. n \/ k = n + 1
    BY <1>1
  <2> QED
    BY <1>1, <1>3, <2>1
<1>6. ASSUME NEW k \in 1 .. n + 1, NEW l \in 1 .. n + 1, l = k + 1
      PROVE  Abuts(t, Tip(q[k]), q[l][1])
  <2>1. k \in 1 .. n /\ (l \in 1 .. n \/ (l = n + 1 /\ k = n))
    BY <1>1, <1>6
  <2>2. CASE l \in 1 .. n
    BY <1>1, <1>3, <1>6, <2>1, <2>2
  <2>3. CASE l = n + 1 /\ k = n
    BY <1>1, <1>3, <1>4, <2>3
  <2> QED
    BY <2>1, <2>2, <2>3
<1>7. Train(t, q)
  BY <1>3, <1>5, <1>6 DEF Train
<1>8. q[1] = r[1] /\ Tip(q) = s
  BY <1>1, <1>3 DEF Tip
<1> QED
  BY <1>7, <1>8 DEF q

\* A segment joins the last of a train; the first two segments are joined.
Lengthened(r, s) == Append(Front(r), Last(r) \o s)
Shortened(r) == <<r[1] \o r[2]>> \o SubSeq(r, 3, Len(r))

LEMMA TrainLonger ==
    ASSUME NEW t \in AnyText, NEW r, Train(t, r), NEW s, Goes(t, s),
           Abuts(t, Tip(Tip(r)), s[1]),
           NEW q, q = Lengthened(r, s)
    PROVE  Train(t, q) /\ q[1][1] = r[1][1] /\ Tip(Tip(q)) = Tip(s)
<1> DEFINE n == Len(r)
           u == Last(r) \o s
           f == Front(r)
<1>1. /\ n \in Nat \ {0} /\ 1 \in 1 .. n /\ n \in 1 .. n
      /\ \A k \in 1 .. n : Goes(t, r[k])
      /\ \A k, l \in 1 .. n : l = k + 1 => Abuts(t, Tip(r[k]), r[l][1])
  BY TrainFacts
<1>2. r \in Seq(Seq(Pieces(t)))
  BY DEF Train
<1>3. Last(r) = r[n] /\ Tip(r) = r[n]
  BY DEF Last, Tip
<1>4. Goes(t, u) /\ u[1] = r[n][1] /\ Tip(u) = Tip(s)
  <2>1. Goes(t, r[n]) /\ Abuts(t, Tip(r[n]), s[1]) /\ u = r[n] \o s
    BY <1>1, <1>3
  <2> HIDE DEF u, n, f
  <2>2. ASSUME NEW v, v = r[n] PROVE Goes(t, u) /\ u[1] = v[1] /\ Tip(u) = Tip(s)
    <3>1. Goes(t, v) /\ Abuts(t, Tip(v), s[1]) /\ u = Coupled(v, s)
      BY <2>1, <2>2 DEF Coupled
    <3> QED
      BY <3>1, GoesJoin
  <2> QED
    BY <2>2
<1>5. u \in Seq(Pieces(t))
  BY <1>4 DEF Goes, Chain
<1>6. /\ f \in Seq(Seq(Pieces(t))) /\ Len(f) = n - 1
      /\ \A k \in 1 .. n - 1 : f[k] = r[k]
  <2> DEFINE i == n - 1
  <2>1. /\ 1 \in Nat /\ i \in Nat /\ 1 <= 1 /\ 1 <= i + 1 /\ i <= Len(r)
        /\ i - 1 + 1 = n - 1 /\ i = n - 1
    BY <1>1
  <2>2. f = SubSeq(r, 1, i)
    BY DEF Front
  <2> HIDE DEF i, f, n
  <2>3. /\ SubSeq(r, 1, i) \in Seq(Seq(Pieces(t))) /\ Len(SubSeq(r, 1, i)) = i - 1 + 1
        /\ \A k \in 1 .. i - 1 + 1 : SubSeq(r, 1, i)[k] = r[1 + k - 1]
    BY <1>2, <2>1, SliceFacts
  <2>4. \A k \in 1 .. n - 1 : k \in 1 .. i - 1 + 1 /\ 1 + k - 1 = k
    BY <2>1
  <2> QED
    BY <2>1, <2>2, <2>3, <2>4
<1>7. q = Append(f, u)
  BY DEF Lengthened
<1> HIDE DEF n, u, f
<1>8. /\ q \in Seq(Seq(Pieces(t))) /\ q # <<>> /\ Len(q) = Len(f) + 1
      /\ \A k \in 1 .. Len(f) : q[k] = f[k]
      /\ q[Len(f) + 1] = u
  BY <1>5, <1>6, <1>7, AppendProperties
<1>9. /\ Len(q) = n
      /\ \A k \in 1 .. n - 1 : q[k] = r[k]
      /\ q[n] = u
  <2>1. Len(f) = n - 1 /\ (n - 1) + 1 = n
    BY <1>1, <1>6
  <2> QED
    BY <1>6, <1>8, <2>1
<1>10. \A k \in 1 .. n : Goes(t, q[k]) /\ q[k][1] = r[k][1]
  <2> TAKE k \in 1 .. n
  <2>1. k \in 1 .. n - 1 \/ k = n
    BY <1>1
  <2> QED
    BY <1>1, <1>4, <1>9, <2>1
<1>11. ASSUME NEW k \in 1 .. n, NEW l \in 1 .. n, l = k + 1
       PROVE  Abuts(t, Tip(q[k]), q[l][1])
  <2>1. k \in 1 .. n - 1
    BY <1>1, <1>11
  <2>2. q[k] = r[k] /\ q[l][1] = r[l][1]
    BY <1>9, <1>10, <2>1
  <2> QED
    BY <1>1, <1>11, <2>2
<1>12. Train(t, q)
  BY <1>8, <1>9, <1>10, <1>11 DEF Train
<1>13. q[1][1] = r[1][1] /\ Tip(Tip(q)) = Tip(s)
  <2>1. Tip(q) = u
    BY <1>9 DEF Tip
  <2> QED
    BY <1>1, <1>4, <1>10, <2>1
<1> QED
  BY <1>12, <1>13

LEMMA TrainFront ==
    ASSUME NEW t \in AnyText, NEW r, Train(t, r), Len(r) >= 2,
           NEW q, q = Shortened(r)
    PROVE  Train(t, q) /\ q[1][1] = r[1][1] /\ Tip(Tip(q)) = Tip(Tip(r))
<1> DEFINE n == Len(r)
           u == r[1] \o r[2]
           f == SubSeq(r, 3, n)
           o == <<u>>
<1>1. /\ n \in Nat \ {0} /\ 1 \in 1 .. n /\ n \in 1 .. n
      /\ \A k \in 1 .. n : Goes(t, r[k])
      /\ \A k, l \in 1 .. n : l = k + 1 => Abuts(t, Tip(r[k]), r[l][1])
  BY TrainFacts
<1>2. r \in Seq(Seq(Pieces(t))) /\ n >= 2
  BY DEF Train
<1>3. Goes(t, u) /\ u[1] = r[1][1] /\ Tip(u) = Tip(r[2])
  <2>1. /\ Goes(t, r[1]) /\ Goes(t, r[2]) /\ Abuts(t, Tip(r[1]), r[2][1])
        /\ u = r[1] \o r[2]
    <3>1. 2 \in 1 .. n /\ 2 = 1 + 1
      BY <1>1, <1>2
    <3> QED
      BY <1>1, <3>1
  <2> HIDE DEF n, u, f, o
  <2>2. ASSUME NEW v, v = r[1], NEW w, w = r[2]
        PROVE  Goes(t, u) /\ u[1] = v[1] /\ Tip(u) = Tip(w)
    <3>1. Goes(t, v) /\ Goes(t, w) /\ Abuts(t, Tip(v), w[1]) /\ u = Coupled(v, w)
      BY <2>1, <2>2 DEF Coupled
    <3> QED
      BY <3>1, GoesJoin
  <2> QED
    BY <2>2
<1>4. u \in Seq(Pieces(t))
  BY <1>3 DEF Goes, Chain
<1>5. /\ f \in Seq(Seq(Pieces(t))) /\ Len(f) = n - 2
      /\ \A k \in 1 .. n - 2 : f[k] = r[k + 2]
  <2>1. 3 \in Nat /\ n \in Nat /\ 1 <= 3 /\ 3 <= n + 1 /\ n <= n
    BY <1>1, <1>2
  <2> HIDE DEF n
  <2>2. n <= Len(r)
    BY <1>1 DEF n
  <2>3. /\ SubSeq(r, 3, n) \in Seq(Seq(Pieces(t))) /\ Len(SubSeq(r, 3, n)) = n - 3 + 1
        /\ \A k \in 1 .. n - 3 + 1 : SubSeq(r, 3, n)[k] = r[3 + k - 1]
    BY <1>2, <2>1, <2>2, SliceFacts
  <2>4. n - 3 + 1 = n - 2 /\ \A k \in 1 .. n - 2 : 3 + k - 1 = k + 2
    BY <2>1
  <2> QED
    BY <2>3, <2>4
<1>6. o \in Seq(Seq(Pieces(t))) /\ Len(o) = 1 /\ o[1] = u
  <2> HIDE DEF u
  <2> QED
    BY <1>4, ShortTexts
<1>7. q = o \o f
  BY DEF Shortened
<1> HIDE DEF n, u, f, o
<1>8. /\ q \in Seq(Seq(Pieces(t))) /\ Len(q) = Len(o) + Len(f)
      /\ \A k \in 1 .. Len(o) : q[k] = o[k]
      /\ \A k \in 1 .. Len(f) : q[Len(o) + k] = f[k]
  <2>1. o \in Seq(Seq(Pieces(t))) /\ f \in Seq(Seq(Pieces(t)))
    BY <1>5, <1>6
  <2>2. /\ o \o f \in Seq(Seq(Pieces(t))) /\ Len(o \o f) = Len(o) + Len(f)
        /\ \A k \in 1 .. Len(o) : (o \o f)[k] = o[k]
        /\ \A k \in 1 .. Len(f) : (o \o f)[Len(o) + k] = f[k]
    BY <2>1, SeqJoin
  <2> QED
    BY <1>7, <2>2
<1> DEFINE i == n - 1
<1>9. /\ Len(q) = i /\ q[1] = u /\ i \in Nat \ {0} /\ n = i + 1
      /\ \A k \in 1 .. i : k # 1 => q[k] = r[k + 1] /\ k + 1 \in 1 .. n
  <2>1. i \in Nat \ {0} /\ n = i + 1 /\ Len(q) = i
    BY <1>1, <1>2, <1>5, <1>6, <1>8
  <2>2. q[1] = u
    <3>1. 1 \in 1 .. Len(o)
      BY <1>6
    <3> QED
      BY <1>6, <1>8, <3>1
  <2>3. ASSUME NEW k \in 1 .. i, k # 1 PROVE q[k] = r[k + 1] /\ k + 1 \in 1 .. n
    <3> DEFINE j == k - 1
    <3>1. j \in 1 .. n - 2 /\ j \in 1 .. Len(f) /\ Len(o) + j = k /\ j + 2 = k + 1
          /\ k + 1 \in 1 .. n
      BY <1>1, <1>5, <1>6, <2>1, <2>3
    <3> HIDE DEF j
    <3> QED
      BY <1>5, <1>8, <3>1
  <2> QED
    BY <2>1, <2>2, <2>3
<1> HIDE DEF i
<1>10. ASSUME NEW k \in 1 .. i PROVE Goes(t, q[k])
  <2>1. CASE k = 1
    BY <1>3, <1>9, <2>1
  <2>2. CASE k # 1
    <3> DEFINE j == k + 1
    <3>1. q[k] = r[j] /\ j \in 1 .. n
      BY <1>9, <2>2
    <3> HIDE DEF j
    <3> QED
      BY <1>1, <3>1
  <2> QED
    BY <2>1, <2>2
<1>11. ASSUME NEW k \in 1 .. i, NEW l \in 1 .. i, l = k + 1
       PROVE  Abuts(t, Tip(q[k]), q[l][1])
  <2> DEFINE g == k + 1
             h == l + 1
  <2>1. l # 1 /\ h = g + 1 /\ g \in 1 .. n /\ h \in 1 .. n
    BY <1>9, <1>11
  <2>2. q[l] = r[h]
    BY <1>9, <2>1
  <2>3. Tip(q[k]) = Tip(r[g])
    <3>1. CASE k = 1
      <4>1. g = 2
        BY <3>1
      <4> QED
        BY <1>3, <1>9, <3>1, <4>1
    <3>2. CASE k # 1
      BY <1>9, <3>2
    <3> QED
      BY <3>1, <3>2
  <2> HIDE DEF g, h
  <2> QED
    BY <1>1, <2>1, <2>2, <2>3
<1>12. q # <<>>
  BY <1>8, <1>9, EmptySeq
<1>13. Train(t, q)
  BY <1>8, <1>9, <1>10, <1>11, <1>12 DEF Train
<1>14. Tip(Tip(q)) = Tip(Tip(r))
  <2>1. Tip(q) = q[i] /\ Tip(r) = r[n]
    BY <1>9 DEF Tip, n
  <2>2. CASE i = 1
    <3>1. n = 2
      BY <1>9, <2>2
    <3> QED
      BY <1>3, <1>9, <2>1, <2>2, <3>1
  <2>3. CASE i # 1
    <3>1. i \in 1 .. i
      BY <1>9
    <3> QED
      BY <1>9, <2>1, <2>3, <3>1
  <2> QED
    BY <2>2, <2>3
<1> QED
  BY <1>3, <1>9, <1>13, <1>14

FromOf(cuts, decisive, s) == IF s - 1 \in cuts \ decisive THEN s - 1 ELSE s
EndsAt(cuts, n, s) == Min({i \in cuts : i >= s} \cup {n})

LEMMA SegmentsChosen ==
    ASSUME NEW ss, NEW cuts, NEW decisive
    PROVE  Segments(ss, cuts, decisive) =
              [k \in DOMAIN Sorted({1} \cup {i + 1 : i \in cuts}) |->
                  SubSeq(ss,
                    FromOf(cuts, decisive, Sorted({1} \cup {i + 1 : i \in cuts})[k]),
                    EndsAt(cuts, Len(ss), Sorted({1} \cup {i + 1 : i \in cuts})[k]))]
BY DEF Segments, FromOf, EndsAt

LEMMA SegmentFacts ==
    ASSUME NEW t \in AnyText, NEW ss, Chain(t, ss),
           NEW a \in 1 .. Len(ss), NEW e \in a .. Len(ss)
    PROVE  /\ Goes(t, SubSeq(ss, a, e)) /\ SubSeq(ss, a, e) \in Seq(Pieces(t))
           /\ SubSeq(ss, a, e)[1] = ss[a] /\ Tip(SubSeq(ss, a, e)) = ss[e]
<1> DEFINE s == SubSeq(ss, a, e)
           n == e - a + 1
<1>1. Len(ss) \in Nat /\ ss \in Seq(Pieces(t))
  BY ChainFacts DEF Chain
<1>2. /\ a \in Nat /\ e \in Nat /\ 1 <= a /\ a <= e + 1 /\ e <= Len(ss) /\ a <= e
      /\ n \in Nat \ {0}
  BY <1>1
<1>3. Chain(t, s)
  BY <1>2, ChainPart
<1>4. /\ s \in Seq(Pieces(t)) /\ Len(s) = n
      /\ \A k \in 1 .. n : s[k] = ss[a + k - 1]
  BY <1>1, <1>2, SliceFacts
<1> HIDE DEF s
<1>5. s # <<>>
  BY <1>2, <1>4, EmptySeq
<1>6. \A k \in 1 .. n : a + k - 1 \in 1 .. Len(ss)
  BY <1>1, <1>2
<1>7. s[1] = ss[a] /\ s[n] = ss[e]
  <2>1. 1 \in 1 .. n /\ n \in 1 .. n /\ a + 1 - 1 = a /\ a + n - 1 = e
    BY <1>2
  <2> HIDE DEF n
  <2>2. s[1] = ss[a + 1 - 1] /\ s[n] = ss[a + n - 1]
    BY <1>4, <2>1
  <2> QED
    BY <2>1, <2>2
<1>9. Goes(t, s) /\ Tip(s) = ss[e]
  BY <1>3, <1>4, <1>5, <1>7 DEF Goes, Tip
<1> QED
  BY <1>4, <1>7, <1>9 DEF s

\* The segments are the runs of sentences from a[k] to e[k]: the first starts
\* with the first sentence, the last ends with the last, and each starts after
\* the one before it or with its last sentence.
CutInto(sg, ss, n, N, a, e) ==
    /\ N # 0 /\ a[1] = 1 /\ e[N] = n
    /\ sg = [k \in 1 .. N |-> SubSeq(ss, a[k], e[k])]
    /\ \A k \in 1 .. N : a[k] \in 1 .. n /\ e[k] \in a[k] .. n
    /\ \A k, l \in 1 .. N : l = k + 1 => a[l] = e[k] + 1 \/ a[l] = e[k]

LEMMA SegmentsCut ==
    ASSUME NEW ss, NEW n \in Nat, n = Len(ss), n # 0,
           NEW cuts \in SUBSET (1 .. n - 1), NEW decisive,
           NEW sg, sg = Segments(ss, cuts, decisive)
    PROVE  \E N \in Nat : \E a, e : CutInto(sg, ss, n, N, a, e)
<1> DEFINE S == {1} \cup {i + 1 : i \in cuts}
           o == Sorted(S)
           last == cuts \cup {n}
<1>2. n \in Nat /\ n # 0 /\ 1 \in 1 .. n /\ n \in 1 .. n
  OBVIOUS
<1>4. sg = [k \in DOMAIN o |-> SubSeq(ss, FromOf(cuts, decisive, o[k]), EndsAt(cuts, n, o[k]))]
  BY SegmentsChosen
<1>5. \A i \in cuts : i \in 1 .. n /\ i + 1 \in 1 .. n
  <2>1. cuts \subseteq 1 .. n - 1
    OBVIOUS
  <2> QED
    BY <1>2, <2>1
<1>6. last \subseteq 1 .. n /\ n \in last
  BY <1>2, <1>5
<1>7. S = Openings(n, last)
  <2>1. ASSUME NEW x \in S PROVE x \in Openings(n, last)
    <3>1. CASE x = 1
      BY <1>2, <3>1 DEF Openings
    <3>2. CASE x # 1
      <4>1. PICK i \in cuts : x = i + 1
        BY <2>1, <3>2
      <4>2. x \in 1 .. n /\ x - 1 = i
        BY <1>5, <4>1
      <4> QED
        BY <4>2 DEF Openings
    <3> QED
      BY <3>1, <3>2
  <2>2. ASSUME NEW x \in Openings(n, last) PROVE x \in S
    <3>1. x \in 1 .. n /\ (x = 1 \/ x - 1 \in last)
      BY DEF Openings
    <3>2. CASE x = 1
      BY <3>2
    <3>3. CASE x # 1
      <4>1. x - 1 \in cuts
        BY <1>2, <3>1, <3>3
      <4>2. x = (x - 1) + 1
        BY <3>1
      <4> QED
        BY <4>1, <4>2
    <3> QED
      BY <3>2, <3>3
  <2> QED
    BY <2>1, <2>2
<1> HIDE DEF S
<1>8. o = Sorted(Openings(n, last))
  BY <1>7
<1> HIDE DEF o
<1>9. PICK N \in Nat : Groups(n, last, o, N)
  <2>1. last \subseteq 1 .. n /\ (n >= 1 => n \in last)
    BY <1>6
  <2> HIDE DEF last
  <2> QED
    BY <1>2, <1>8, <2>1, CutUp
<1> DEFINE e(k) == Until(last, o[k])
           a(k) == FromOf(cuts, decisive, o[k])
<1>10. /\ o \in [1 .. N -> 1 .. n]
       /\ N # 0 /\ o[1] = 1 /\ e(N) = n
       /\ \A k \in 1 .. N : e(k) \in 1 .. n /\ o[k] <= e(k)
       /\ \A k, l \in 1 .. N : l = k + 1 => o[l] = e(k) + 1
  <2>1. N # 0 => N >= 1
    OBVIOUS
  <2>2. N = 0 <=> n = 0
    BY <1>9 DEF Groups
  <2> HIDE DEF last
  <2> QED
    BY <1>2, <1>9, <2>1, <2>2 DEF Groups
<1>11. ASSUME NEW k \in 1 .. N PROVE EndsAt(cuts, n, o[k]) = e(k)
  <2> DEFINE s == o[k]
  <2>1. s \in 1 .. n
    BY <1>10
  <2> HIDE DEF s
  <2>2. {i \in cuts : i >= s} \cup {n} = {j \in last : j >= s}
    BY <1>2, <2>1
  <2>3. EndsAt(cuts, n, s) = Min({i \in cuts : i >= s} \cup {n})
        /\ Until(last, s) = Min({j \in last : j >= s})
    BY DEF EndsAt, Until
  <2>4. EndsAt(cuts, n, s) = Until(last, s)
    BY <2>2, <2>3
  <2> QED
    BY <2>4 DEF s
<1>12. ASSUME NEW k \in 1 .. N
       PROVE  /\ a(k) \in 1 .. n /\ e(k) \in a(k) .. n
              /\ a(k) = o[k] \/ a(k) = o[k] - 1
  <2> DEFINE s == o[k]
  <2>1. s \in 1 .. n /\ e(k) \in 1 .. n /\ s <= e(k)
    BY <1>10
  <2>2. a(k) = (IF s - 1 \in cuts \ decisive THEN s - 1 ELSE s)
    BY DEF FromOf
  <2> HIDE DEF s, a, e
  <2>3. s - 1 \in cuts => s - 1 \in 1 .. n
    BY <1>5
  <2>4. (a(k) = s \/ a(k) = s - 1) /\ a(k) \in 1 .. n
    BY <2>1, <2>2, <2>3
  <2>5. e(k) \in a(k) .. n
    BY <1>2, <2>1, <2>4
  <2> QED
    BY <2>4, <2>5 DEF s
<1>13. a(1) = 1
  <2>1. 0 \notin cuts
    BY <1>5
  <2>2. o[1] = 1 /\ 1 - 1 = 0
    BY <1>10
  <2> HIDE DEF e
  <2> QED
    BY <2>1, <2>2 DEF FromOf
<1> HIDE DEF last, e, a
<1>14. /\ sg = [k \in 1 .. N |-> SubSeq(ss, a(k), e(k))]
  <2>1. DOMAIN o = 1 .. N
    BY <1>10
  <2>2. sg = [k \in 1 .. N |-> SubSeq(ss, FromOf(cuts, decisive, o[k]), EndsAt(cuts, n, o[k]))]
    BY <1>4, <2>1, Zenon
  <2>3. \A k \in 1 .. N : SubSeq(ss, FromOf(cuts, decisive, o[k]), EndsAt(cuts, n, o[k]))
                             = SubSeq(ss, a(k), e(k))
    BY <1>11 DEF a
  <2> QED
    BY <2>2, <2>3, Zenon
<1> DEFINE from == [k \in 1 .. N |-> a(k)]
           to == [k \in 1 .. N |-> e(k)]
<1>15. \A k \in 1 .. N : from[k] = a(k) /\ to[k] = e(k)
  OBVIOUS
<1>16. sg = [k \in 1 .. N |-> SubSeq(ss, from[k], to[k])]
  <2>1. \A k \in 1 .. N : SubSeq(ss, from[k], to[k]) = SubSeq(ss, a(k), e(k))
    BY <1>15
  <2> QED
    BY <1>14, <2>1, Zenon
<1>17. 1 \in 1 .. N /\ N \in 1 .. N
  BY <1>10
<1>18. from[1] = 1 /\ to[N] = n
  BY <1>10, <1>13, <1>15, <1>17 DEF e
<1>19. \A k \in 1 .. N : from[k] \in 1 .. n /\ to[k] \in from[k] .. n
  BY <1>12, <1>15
<1>20. ASSUME NEW k \in 1 .. N, NEW l \in 1 .. N, l = k + 1
       PROVE  from[l] = to[k] + 1 \/ from[l] = to[k]
  <2> DEFINE x == e(k)
             y == a(l)
             z == o[l]
  <2>1. x \in 1 .. n /\ z \in 1 .. n /\ z = x + 1 /\ (y = z \/ y = z - 1)
    BY <1>10, <1>12, <1>20 DEF e
  <2> HIDE DEF x, y, z
  <2>2. y = x + 1 \/ y = x
    BY <2>1
  <2> QED
    BY <1>15, <2>2 DEF x, y
<1> HIDE DEF from, to
<1>21. CutInto(sg, ss, n, N, from, to)
  BY <1>10, <1>16, <1>18, <1>19, <1>20 DEF CutInto
<1> QED
  BY <1>21

LEMMA SegmentsTrain ==
    ASSUME NEW t \in AnyText, NEW ss, Goes(t, ss),
           NEW cuts \in SUBSET (1 .. Len(ss) - 1), NEW decisive,
           NEW sg, sg = Segments(ss, cuts, decisive)
    PROVE  Train(t, sg) /\ sg[1][1] = ss[1] /\ Tip(Tip(sg)) = Tip(ss)
<1> DEFINE n == Len(ss)
<1>1. /\ Chain(t, ss) /\ ss \in Seq(Pieces(t)) /\ ss # <<>>
  BY DEF Goes, Chain
<1>2. n \in Nat /\ n # 0 /\ 1 \in 1 .. n /\ n \in 1 .. n
  BY <1>1, EmptySeq, ChainFacts
<1>3. /\ \A k \in 1 .. n : Lo(t, ss[k]) \in Nat /\ Hi(t, ss[k]) \in Nat
                           /\ Lo(t, ss[k]) <= Hi(t, ss[k])
      /\ \A k, l \in 1 .. n : l = k + 1 => Abuts(t, ss[k], ss[l])
  BY <1>1, ChainFacts
<1>4. PICK N \in Nat : \E a, e : CutInto(sg, ss, n, N, a, e)
  BY <1>2, SegmentsCut
<1>5. PICK a, e : CutInto(sg, ss, n, N, a, e)
  BY <1>4
<1> HIDE DEF n
<1>10. /\ N # 0 /\ a[1] = 1 /\ e[N] = n
       /\ \A k \in 1 .. N : a[k] \in 1 .. n /\ e[k] \in a[k] .. n
       /\ \A k, l \in 1 .. N : l = k + 1 => a[l] = e[k] + 1 \/ a[l] = e[k]
  BY <1>5 DEF CutInto
<1>14. sg = [k \in 1 .. N |-> SubSeq(ss, a[k], e[k])]
  BY <1>5 DEF CutInto
<1>15. ASSUME NEW k \in 1 .. N
       PROVE  /\ Goes(t, sg[k]) /\ sg[k] \in Seq(Pieces(t))
              /\ sg[k][1] = ss[a[k]] /\ Tip(sg[k]) = ss[e[k]]
  <2> DEFINE x == a[k]
             y == e[k]
             s == SubSeq(ss, x, y)
  <2>1. x \in 1 .. Len(ss) /\ y \in x .. Len(ss)
    BY <1>10 DEF n
  <2>2. sg[k] = s
    BY <1>14, Zenon
  <2> HIDE DEF x, y
  <2>3. Goes(t, s) /\ s \in Seq(Pieces(t)) /\ s[1] = ss[x] /\ Tip(s) = ss[y]
    BY <1>1, <2>1, SegmentFacts
  <2> HIDE DEF s
  <2> QED
    BY <2>2, <2>3 DEF x, y
<1>16. sg \in Seq(Seq(Pieces(t))) /\ Len(sg) = N
  <2>1. sg \in [1 .. N -> Seq(Pieces(t))]
    BY <1>14, <1>15, Zenon
  <2> QED
    BY <2>1, FunctionSeq
<1>17. sg # <<>>
  BY <1>10, <1>16, EmptySeq
<1>18. ASSUME NEW k \in 1 .. N, NEW l \in 1 .. N, l = k + 1
       PROVE  Abuts(t, Tip(sg[k]), sg[l][1])
  <2> DEFINE x == e[k]
             y == a[l]
  <2>1. x \in 1 .. n /\ y \in 1 .. n /\ (y = x + 1 \/ y = x)
    BY <1>2, <1>10, <1>18
  <2>2. Tip(sg[k]) = ss[x] /\ sg[l][1] = ss[y]
    BY <1>15
  <2> HIDE DEF x, y
  <2>4. CASE y = x + 1
    BY <1>3, <2>1, <2>2, <2>4
  <2>5. CASE y = x
    <3>1. Lo(t, ss[x]) \in Nat /\ Hi(t, ss[x]) \in Nat /\ Lo(t, ss[x]) <= Hi(t, ss[x])
      BY <1>3, <2>1
    <3>2. Abuts(t, ss[x], ss[x])
      BY <3>1 DEF Abuts
    <3> QED
      BY <2>2, <2>5, <3>2
  <2> QED
    BY <2>1, <2>4, <2>5
<1>19. Train(t, sg)
  BY <1>15, <1>16, <1>17, <1>18 DEF Train
<1>20. sg[1][1] = ss[1] /\ Tip(Tip(sg)) = Tip(ss)
  <2>1. 1 \in 1 .. N /\ N \in 1 .. N
    BY <1>10
  <2>2. sg[1][1] = ss[a[1]] /\ Tip(sg[N]) = ss[e[N]]
    BY <1>15, <2>1
  <2>3. Tip(sg) = sg[N] /\ Tip(ss) = ss[n]
    BY <1>16 DEF Tip, n
  <2> QED
    BY <1>10, <2>2, <2>3
<1> QED
  BY <1>19, <1>20

MergeStep(c, r, s) ==
    IF r # <<>> /\ SegTokens(s) < c.min
    THEN Lengthened(r, s)
    ELSE Append(r, s)
MergedBy(f, c, sg) ==
    f = [i \in 0 .. Len(sg) |-> IF i = 0 THEN <<>>
                                ELSE MergeStep(c, f[i - 1], sg[i])]
\* The first segment, if it is short, joins the second.
Unshort(c, r) ==
    IF Len(r) >= 2 /\ SegTokens(r[1]) < c.min
    THEN Shortened(r)
    ELSE r

Merging(c, sg) == CHOOSE f : MergedBy(f, c, sg)

LEMMA MergedChosen ==
    ASSUME NEW c, NEW sg
    PROVE  Merged(c, sg) = Unshort(c, Merging(c, sg)[Len(sg)])
BY DEF Merging, Merged, MergedBy, MergeStep, Unshort, Lengthened, Shortened

LEMMA MergeTyped ==
    ASSUME NEW c, NEW S, NEW r \in Seq(Seq(S)), NEW s \in Seq(S)
    PROVE  MergeStep(c, r, s) \in Seq(Seq(S))
<1>1. CASE r # <<>>
  <2> DEFINE n == Len(r)
             i == n - 1
  <2>1. n \in Nat \ {0} /\ \A k \in 1 .. n : r[k] \in Seq(S)
    BY <1>1, EmptySeq, ElementOfSeq
  <2>2. /\ 1 \in Nat /\ i \in Nat /\ 1 <= 1 /\ 1 <= i + 1 /\ i <= Len(r)
        /\ n \in 1 .. n
    BY <2>1
  <2>3. Front(r) = SubSeq(r, 1, i) /\ Last(r) = r[n]
    BY DEF Front, Last
  <2> HIDE DEF n, i
  <2>4. SubSeq(r, 1, i) \in Seq(Seq(S))
    BY <2>2, SliceFacts
  <2>5. r[n] \o s \in Seq(S)
    BY <2>1, <2>2, ConcatProperties
  <2> DEFINE f == Front(r)
             u == Last(r) \o s
  <2>6. f \in Seq(Seq(S)) /\ u \in Seq(S)
    BY <2>3, <2>4, <2>5
  <2>7. MergeStep(c, r, s) = Append(f, u) \/ MergeStep(c, r, s) = Append(r, s)
    BY DEF MergeStep, Lengthened
  <2> HIDE DEF f, u
  <2>8. Append(f, u) \in Seq(Seq(S)) /\ Append(r, s) \in Seq(Seq(S))
    BY <2>6, AppendProperties
  <2> QED
    BY <2>7, <2>8, Zenon
<1>2. CASE r = <<>>
  <2>1. MergeStep(c, r, s) = Append(r, s)
    BY <1>2 DEF MergeStep
  <2> QED
    BY <2>1, AppendProperties
<1> QED
  BY <1>1, <1>2

LEMMA MergedFunction ==
    ASSUME NEW c, NEW S, NEW sg \in Seq(Seq(S)),
           NEW f, f = Merging(c, sg)
    PROVE  /\ f[0] = <<>>
           /\ \A i \in 1 .. Len(sg) : f[i] = MergeStep(c, f[i - 1], sg[i])
           /\ \A i \in 0 .. Len(sg) : f[i] \in Seq(Seq(S))
<1> DEFINE n == Len(sg)
           V == Seq(Seq(S))
           step == [x \in V \X (1 .. n) |-> MergeStep(c, x[1], sg[x[2]])]
<1>1. n \in Nat /\ \A i \in 1 .. n : sg[i] \in Seq(S)
  BY LenProperties, ElementOfSeq
<1>2. <<>> \in V
  BY EmptySeq
<1>3. \A r \in V, i \in 1 .. n : MergeStep(c, r, sg[i]) \in V
  BY <1>1, MergeTyped
<1>4. \A r \in V, i \in 1 .. n : step[<<r, i>>] = MergeStep(c, r, sg[i])
  OBVIOUS
<1> HIDE DEF V
<1>5. step \in [V \X (1 .. n) -> V]
  BY <1>3
<1> HIDE DEF step, n
<1>6. PICK g \in [0 .. n -> V] : Recurs(g, n, <<>>, step)
  BY <1>1, <1>2, <1>5, Recursion
<1>7. MergedBy(g, c, sg)
  <2> DEFINE h == [i \in 0 .. n |-> IF i = 0 THEN <<>>
                                    ELSE MergeStep(c, g[i - 1], sg[i])]
             e == [i \in 0 .. n |-> IF i = 0 THEN <<>> ELSE step[<<g[i - 1], i>>]]
  <2>1. g = e
    BY <1>6 DEF Recurs
  <2>2. ASSUME NEW i \in 0 .. n PROVE e[i] = h[i]
    <3>1. CASE i = 0
      BY <3>1
    <3>2. CASE i # 0
      <4>1. i - 1 \in 0 .. n /\ i \in 1 .. n
        BY <1>1, <3>2
      <4>2. g[i - 1] \in V
        BY <1>6, <4>1
      <4> QED
        BY <1>4, <3>2, <4>1, <4>2
    <3> QED
      BY <3>1, <3>2
  <2>3. e = h
    BY <2>2
  <2> QED
    BY <2>1, <2>3 DEF MergedBy, n
<1>8. MergedBy(f, c, sg)
  BY <1>7 DEF Merging
<1> DEFINE h == [i \in 0 .. n |-> IF i = 0 THEN <<>>
                                  ELSE MergeStep(c, f[i - 1], sg[i])]
<1>9. f = h
  BY <1>8 DEF MergedBy, n
<1>10. h[0] = <<>> /\ \A i \in 1 .. n : h[i] = MergeStep(c, f[i - 1], sg[i])
  BY <1>1
<1> HIDE DEF h
<1>11. f[0] = <<>> /\ \A i \in 1 .. n : f[i] = MergeStep(c, f[i - 1], sg[i])
  BY <1>9, <1>10
<1> DEFINE P == {i \in 0 .. n : f[i] \in V}
<1>12. 0 \in P
  BY <1>1, <1>2, <1>11
<1>13. ASSUME NEW i \in 0 .. n, i < n, i \in P PROVE i + 1 \in P
  <2>1. ASSUME NEW j \in 1 .. n, j = i + 1 PROVE f[j] \in V
    <3>3. j - 1 = i
      BY <2>1
    <3>4. f[j] = MergeStep(c, f[j - 1], sg[j])
      BY <1>11
    <3>1. f[j] = MergeStep(c, f[i], sg[j])
      BY <3>3, <3>4, Zenon
    <3>2. f[i] \in V
      BY <1>13
    <3> QED
      BY <1>3, <3>1, <3>2
  <2>2. i + 1 \in 1 .. n /\ i + 1 \in 0 .. n
    BY <1>1, <1>13
  <2> QED
    BY <2>1, <2>2
<1>14. \A i \in 0 .. n : f[i] \in V
  <2> HIDE DEF P
  <2>1. \A i \in 0 .. n : i \in P
    BY <1>1, <1>12, <1>13, UpTo
  <2> QED
    BY <2>1 DEF P
<1> QED
  BY <1>11, <1>14 DEF n, V

\* A segment is merged into the train.
LEMMA MergeKeeps ==
    ASSUME NEW t \in AnyText, NEW c, NEW r, Train(t, r), NEW s, Goes(t, s),
           Abuts(t, Tip(Tip(r)), s[1]), NEW q, q = MergeStep(c, r, s)
    PROVE  Train(t, q) /\ q[1][1] = r[1][1] /\ Tip(Tip(q)) = Tip(s)
<1> DEFINE u == Lengthened(r, s)
           v == Append(r, s)
<1>1. Train(t, u) /\ u[1][1] = r[1][1] /\ Tip(Tip(u)) = Tip(s)
  BY TrainLonger
<1>2. Train(t, v) /\ v[1][1] = r[1][1] /\ Tip(v) = s
  BY TrainMore
<1>3. q = u \/ q = v
  BY DEF MergeStep
<1> HIDE DEF u, v
<1>4. CASE q = u
  BY <1>1, <1>4
<1>5. CASE q = v
  BY <1>2, <1>5
<1> QED
  BY <1>3, <1>4, <1>5

LEMMA MergedTrain ==
    ASSUME NEW t \in AnyText, NEW c, NEW sg, Train(t, sg),
           NEW q, q = Merged(c, sg)
    PROVE  Train(t, q) /\ q[1][1] = sg[1][1] /\ Tip(Tip(q)) = Tip(Tip(sg))
<1> DEFINE n == Len(sg)
           f == Merging(c, sg)
<1>1. /\ n \in Nat \ {0} /\ 1 \in 1 .. n /\ n \in 1 .. n
      /\ \A k \in 1 .. n : sg[k] \in Seq(Pieces(t)) /\ Goes(t, sg[k])
      /\ \A k, l \in 1 .. n : l = k + 1 => Abuts(t, Tip(sg[k]), sg[l][1])
  BY TrainFacts
<1>2. sg \in Seq(Seq(Pieces(t)))
  BY DEF Train
<1>3. /\ f[0] = <<>>
      /\ \A i \in 1 .. n : f[i] = MergeStep(c, f[i - 1], sg[i])
  <2>1. f = Merging(c, sg)
    OBVIOUS
  <2> HIDE DEF f
  <2>2. /\ f[0] = <<>>
        /\ \A i \in 1 .. Len(sg) : f[i] = MergeStep(c, f[i - 1], sg[i])
    BY <1>2, <2>1, MergedFunction
  <2> QED
    BY <2>2
<1>4. q = Unshort(c, f[n])
  BY MergedChosen
<1>5. Tip(sg) = sg[n]
  BY DEF Tip
<1> HIDE DEF n, f
<1> DEFINE Right(r, i) == /\ Train(t, r) /\ r[1][1] = sg[1][1]
                          /\ Tip(Tip(r)) = Tip(sg[i])
           P == {i \in 0 .. n : i = 0 \/ Right(f[i], i)}
<1>6. 0 \in P
  BY <1>1
<1>7. ASSUME NEW i \in 0 .. n, i < n, i \in P PROVE i + 1 \in P
  <2>1. ASSUME NEW j \in 1 .. n, j = i + 1 PROVE Right(f[j], j)
    <3>1. f[j] = MergeStep(c, f[i], sg[j])
      <4>1. j - 1 = i
        BY <2>1
      <4> QED
        BY <1>3, <4>1
    <3>2. CASE i = 0
      <4>1. j = 1
        BY <2>1, <3>2
      <4>2. f[i] = <<>>
        BY <1>3, <3>2
      <4>3. f[j] = Append(<<>>, sg[1])
        BY <3>1, <4>1, <4>2 DEF MergeStep
      <4> DEFINE s == sg[1]
                 u == Append(<<>>, s)
      <4>4. Goes(t, s)
        BY <1>1
      <4> HIDE DEF s
      <4>5. Train(t, u) /\ u[1] = s /\ Tip(u) = s
        BY <4>4, TrainOne
      <4>6. f[j] = u
        BY <4>3 DEF s
      <4> HIDE DEF u
      <4>7. Train(t, f[j]) /\ f[j][1] = sg[1] /\ Tip(f[j]) = sg[1]
        BY <4>5, <4>6 DEF s
      <4> QED
        BY <4>1, <4>7
    <3>3. CASE i # 0
      <4>1. i \in 1 .. n
        BY <1>1, <3>3
      <4>2. Right(f[i], i)
        BY <1>7, <3>3
      <4> DEFINE r == f[i]
                 s == sg[j]
                 w == f[j]
      <4>3. Abuts(t, Tip(Tip(r)), s[1]) /\ Goes(t, s) /\ Train(t, r)
        BY <1>1, <2>1, <4>1, <4>2
      <4>4. w = MergeStep(c, r, s)
        BY <3>1
      <4> HIDE DEF r, s, w
      <4>5. Train(t, w) /\ w[1][1] = r[1][1] /\ Tip(Tip(w)) = Tip(s)
        BY <4>3, <4>4, MergeKeeps
      <4>6. r[1][1] = sg[1][1]
        BY <4>2 DEF r
      <4> QED
        BY <4>5, <4>6 DEF w, s
    <3> QED
      BY <3>2, <3>3
  <2>2. i + 1 \in 1 .. n /\ i + 1 \in 0 .. n
    BY <1>1, <1>7
  <2> HIDE DEF Right
  <2> QED
    BY <2>1, <2>2
<1>8. Right(f[n], n)
  <2> HIDE DEF P
  <2>1. \A i \in 0 .. n : i \in P
    BY <1>1, <1>6, <1>7, UpTo
  <2>2. n \in P /\ n # 0
    BY <1>1, <2>1
  <2> HIDE DEF Right
  <2> QED
    BY <2>2 DEF P
<1> DEFINE r == f[n]
           u == Shortened(r)
<1>9. Train(t, r) /\ r[1][1] = sg[1][1] /\ Tip(Tip(r)) = Tip(Tip(sg))
  BY <1>5, <1>8
<1>10. q = r \/ (Len(r) >= 2 /\ q = u)
  BY <1>4 DEF Unshort
<1> HIDE DEF r
<1>11. CASE q = r
  BY <1>9, <1>11
<1>12. CASE Len(r) >= 2 /\ q = u
  <2>1. Train(t, q) /\ q[1][1] = r[1][1] /\ Tip(Tip(q)) = Tip(Tip(r))
    BY <1>9, <1>12, TrainFront
  <2> QED
    BY <1>9, <2>1
<1> QED
  BY <1>10, <1>11, <1>12

\* A segment as chunks: its words.
LEMMA SplitSegmentTiled ==
    ASSUME NEW t \in AnyText, NEW c \in Chunker,
           NEW s, Goes(t, s)
    PROVE  Tiled(t, SplitSegment(c, s), Lo(t, s[1]), Lo(t, Tip(s)), Hi(t, Tip(s)))
<1> DEFINE sep == <<" ">>
           d == [c EXCEPT !.overlap = 0]
           n == Len(s)
<1>1. Chain(t, s) /\ s # <<>>
  BY DEF Goes
<1>2. sep \in Separators
  BY DEF Separators
<1>3. d \in Chunker
  BY DEF Chunker
<1>4. SplitSegment(c, s) = IF SegTokens(s) <= c.max THEN <<Span(s, sep)>>
                              ELSE Packed(d, sep, s)
  BY DEF SplitSegment
<1>5. Tip(s) = s[n]
  BY DEF Tip
<1>6. n \in 1 .. n /\ 1 \in 1 .. n
  BY <1>1, ChainWords
<1>7. /\ Lo(t, s[1]) \in Nat /\ Lo(t, s[n]) \in Nat /\ Hi(t, s[n]) \in Nat
      /\ 1 <= n /\ Lo(t, s[1]) <= Lo(t, s[n])
  <2>1. /\ Lo(t, s[1]) \in Nat /\ Lo(t, s[n]) \in Nat /\ Hi(t, s[n]) \in Nat
    BY <1>1, <1>6, ChainFacts
  <2>2. 1 <= n
    BY <1>6
  <2>3. \A k, l \in 1 .. Len(s) : k <= l =>
           Lo(t, s[k]) <= Lo(t, s[l]) /\ Hi(t, s[k]) <= Hi(t, s[l])
    BY <1>1, ChainOrder
  <2> QED
    BY <1>6, <2>1, <2>2, <2>3
<1> HIDE DEF sep, d
<1>8. CASE SegTokens(s) <= c.max
  <2> DEFINE x == Span(s, sep)
             a == Lo(t, s[1])
             l == Lo(t, s[n])
             h == Hi(t, s[n])
             cs == <<x>>
  <2>1. x \in AnyChunk /\ Holds(t, x) /\ Lo(t, x) = a /\ Hi(t, x) = h
    BY <1>1, <1>2, ChainSpan
  <2>3. SplitSegment(c, s) = <<x>>
    BY <1>4, <1>8
  <2>4. /\ a \in Nat /\ l \in Int /\ h \in Int /\ a \in Int /\ a <= l /\ h <= h
    BY <1>7
  <2> HIDE DEF x, a, l, h
  <2>6. Tiled(t, <<x>>, Lo(t, x), Lo(t, x), Hi(t, x))
    BY <2>1, TiledOne
  <2>7. Tiled(t, cs, a, a, h)
    BY <2>1, <2>6
  <2> HIDE DEF cs
  <2>8. Tiled(t, cs, a, l, h)
    BY <2>4, <2>7, TiledMore
  <2> QED
    BY <1>5, <2>3, <2>8 DEF a, l, h, cs
<1>9. CASE ~(SegTokens(s) <= c.max)
  <2>3. Tiled(t, Packed(d, sep, s), Lo(t, s[1]), Lo(t, s[Len(s)]), Hi(t, s[Len(s)]))
    BY <1>1, <1>2, <1>3, PackedTiled
  <2>4. SplitSegment(c, s) = Packed(d, sep, s)
    BY <1>4, <1>9
  <2> QED
    BY <1>5, <2>3, <2>4
<1> QED
  BY <1>8, <1>9

SplitAll(c, sg) == [n \in DOMAIN sg |-> SplitSegment(c, sg[n])]

\* Their chunks are one after the other as well.
LEMMA FlatTiled ==
    ASSUME NEW t \in AnyText, NEW c \in Chunker,
           NEW sg, Train(t, sg)
    PROVE  Tiled(t, FlattenSeq(SplitAll(c, sg)), Lo(t, sg[1][1]),
                 Lo(t, Tip(Tip(sg))), Hi(t, Tip(Tip(sg))))
<1> DEFINE n == Len(sg)
           ss == SplitAll(c, sg)
           lo(k) == Lo(t, sg[k][1])
           hi(k) == Hi(t, Tip(sg[k]))
           at(k) == Lo(t, Tip(sg[k]))
<1>1. /\ n \in Nat \ {0} /\ DOMAIN sg = 1 .. n /\ 1 \in 1 .. n /\ n \in 1 .. n
      /\ \A k \in 1 .. n : Goes(t, sg[k])
      /\ \A k, l \in 1 .. n : l = k + 1 => Abuts(t, Tip(sg[k]), sg[l][1])
  BY TrainFacts
<1>2. Tip(sg) = sg[n]
  BY DEF Tip
<1>3. \A k \in 1 .. n : Tiled(t, SplitSegment(c, sg[k]), lo(k), at(k), hi(k))
  <2> TAKE k \in 1 .. n
  <2> DEFINE s == sg[k]
  <2>1. Goes(t, s)
    BY <1>1
  <2> HIDE DEF s
  <2>2. Tiled(t, SplitSegment(c, s), Lo(t, s[1]), Lo(t, Tip(s)), Hi(t, Tip(s)))
    BY <2>1, SplitSegmentTiled
  <2> QED
    BY <2>2 DEF s
<1>4. \A k \in 1 .. n : ss[k] = SplitSegment(c, sg[k])
  BY <1>1 DEF SplitAll
<1>5. \A k \in 1 .. n : /\ lo(k) \in Nat /\ at(k) \in Nat /\ hi(k) \in Nat
                        /\ lo(k) <= at(k) /\ at(k) <= hi(k)
  <2> TAKE k \in 1 .. n
  <2> DEFINE s == sg[k]
             z == Len(s)
  <2>1. Chain(t, s) /\ s # <<>> /\ Tip(s) = s[z]
    BY <1>1 DEF Goes, Tip
  <2> HIDE DEF s
  <2>2. z \in 1 .. z /\ 1 \in 1 .. z
    BY <2>1, ChainWords
  <2>3. /\ Lo(t, s[1]) \in Nat /\ Lo(t, s[z]) \in Nat /\ Hi(t, s[z]) \in Nat
        /\ Lo(t, s[z]) <= Hi(t, s[z])
    BY <2>1, <2>2, ChainFacts
  <2>4. 1 <= z
    BY <2>2
  <2>5. \A k1, l1 \in 1 .. Len(s) : k1 <= l1 =>
           Lo(t, s[k1]) <= Lo(t, s[l1]) /\ Hi(t, s[k1]) <= Hi(t, s[l1])
    BY <2>1, ChainOrder
  <2>6. Lo(t, s[1]) <= Lo(t, s[z])
    BY <2>2, <2>4, <2>5
  <2> QED
    BY <2>1, <2>3, <2>6 DEF s
<1>6. \A k, l \in 1 .. n : l = k + 1 => at(k) <= lo(l) /\ lo(l) <= hi(k) + 1
  BY <1>1 DEF Abuts
<1>7. ss \in Seq(Seq(AnyChunk)) /\ Len(ss) = n
  <2>1. ss \in [1 .. n -> Seq(AnyChunk)]
    <3>1. ss = [k \in 1 .. n |-> SplitSegment(c, sg[k])]
      BY <1>1, Zenon DEF SplitAll
    <3>2. \A k \in 1 .. n : SplitSegment(c, sg[k]) \in Seq(AnyChunk)
      BY <1>3 DEF Tiled
    <3> QED
      BY <3>1, <3>2, Zenon
  <2> QED
    BY <1>1, <2>1, FunctionSeq
<1> HIDE DEF ss, n
<1>8. PICK f : FlatBy(f, ss, AnyChunk) /\ FlattenSeq(ss) = f[Len(ss)]
  BY <1>7, FlattenFacts
<1>9. /\ f[0] = <<>> /\ \A i \in 0 .. n : f[i] \in Seq(AnyChunk)
      /\ \A i \in 1 .. n : f[i] = f[i - 1] \o ss[i]
  BY <1>7, <1>8 DEF FlatBy
<1> HIDE DEF lo, at, hi
<1> DEFINE Right(i) == Tiled(t, f[i], lo(1), at(i), hi(i)) /\ lo(1) <= at(i)
           P == {i \in 0 .. n : i = 0 \/ Right(i)}
<1>10. 0 \in P
  BY <1>1
<1>11. ASSUME NEW i \in 0 .. n, i < n, i \in P PROVE i + 1 \in P
  <2>1. ASSUME NEW j \in 1 .. n, j = i + 1 PROVE Right(j)
    <3>1. f[j] = f[i] \o ss[j]
      <4>1. j - 1 = i
        BY <2>1
      <4>2. f[j] = f[j - 1] \o ss[j]
        BY <1>9
      <4> QED
        BY <4>1, <4>2, Zenon
    <3> DEFINE r == f[i]
               s == ss[j]
               q == f[j]
    <3>2. Tiled(t, s, lo(j), at(j), hi(j))
      BY <1>3, <1>4
    <3>3. lo(j) \in Nat /\ at(j) \in Nat /\ hi(j) \in Nat /\ lo(j) <= at(j)
      BY <1>5
    <3>4. CASE i = 0
      <4>1. j = 1
        BY <2>1, <3>4
      <4>2. f[i] = <<>>
        BY <1>9, <3>4
      <4>3. s \in Seq(AnyChunk)
        BY <3>2 DEF Tiled
      <4> HIDE DEF s
      <4>4. <<>> \o s = s
        BY <4>3, ConcatEmptySeq
      <4>5. f[j] = s
        BY <3>1, <4>2, <4>4 DEF s
      <4> QED
        BY <3>2, <3>3, <4>1, <4>5
    <3>5. CASE i # 0
      <4>1. i \in 1 .. n
        BY <1>1, <3>5
      <4>2. Right(i)
        BY <1>11, <3>5
      <4>3. at(i) <= lo(j) /\ lo(j) <= hi(i) + 1
        BY <1>6, <2>1, <4>1
      <4>4. /\ lo(1) \in Nat /\ at(i) \in Nat /\ hi(i) \in Nat /\ lo(1) <= at(i)
        BY <1>1, <1>5, <4>1, <4>2
      <4>5. Tiled(t, r, lo(1), at(i), hi(i))
        BY <4>2
      <4> HIDE DEF r, s, q, Right
      <4>6. ASSUME NEW a, a = lo(1), NEW l, l = at(i), NEW h, h = hi(i),
                   NEW b, b = lo(j), NEW k, k = at(j), NEW o, o = hi(j)
            PROVE  Tiled(t, r \o s, a, k, o) /\ a <= k
        <5>1. /\ a \in Nat /\ l \in Int /\ h \in Int /\ b \in Nat /\ k \in Int /\ o \in Int
              /\ a <= l /\ l <= b /\ b <= h + 1 /\ b <= k
          BY <3>3, <4>3, <4>4, <4>6
        <5>2. a <= b /\ l <= k /\ a <= k
          BY <5>1
        <5>3. Tiled(t, r, a, l, h) /\ Tiled(t, s, b, k, o)
          BY <3>2, <4>5, <4>6
        <5> QED
          BY <5>1, <5>2, <5>3, TiledJoin
      <4>7. Tiled(t, r \o s, lo(1), at(j), hi(j)) /\ lo(1) <= at(j)
        BY <4>6
      <4>8. f[j] = r \o s
        BY <3>1 DEF r, s
      <4> QED
        BY <4>7, <4>8 DEF Right
    <3> QED
      BY <3>4, <3>5
  <2>2. i + 1 \in 1 .. n /\ i + 1 \in 0 .. n
    BY <1>1, <1>11
  <2> HIDE DEF Right
  <2> QED
    BY <2>1, <2>2
<1>12. Right(n)
  <2> HIDE DEF P
  <2>1. \A i \in 0 .. n : i \in P
    BY <1>1, <1>10, <1>11, UpTo
  <2>2. n \in P /\ n # 0
    BY <1>1, <2>1
  <2> HIDE DEF Right
  <2> QED
    BY <2>2 DEF P
<1>13. FlattenSeq(ss) = f[n]
  BY <1>7, <1>8
<1> QED
  BY <1>2, <1>12, <1>13 DEF lo, at, hi, ss

LEMMA SemanticTiled ==
    ASSUME NEW t \in AnyText, Unaltered(t), NEW c \in Chunker,
           NEW cuts, NEW decisive, NEW n, n = Len(Sentences(t, 0, Len(t))),
           cuts \subseteq 1 .. n - 1
    PROVE  \E l \in Int : Tiled(t, SemanticChunks(t, c, cuts, decisive), 1, l,
                                Len(Words(t)))
<1> DEFINE ss == Sentences(t, 0, Len(t))
           sep == <<" ">>
           W == Len(Words(t))
           sg == Segments(ss, cuts, decisive)
           mg == Merged(c, sg)
           cs == SemanticChunks(t, c, cuts, decisive)
<1>1. Follow(t, ss, 1, W) /\ (ss = <<>> <=> W = 0) /\ W \in Nat
  BY SentencesOfText, WordsInOrder
<1>2. cs = IF ss = <<>> THEN <<>>
           ELSE IF Len(ss) <= 2 THEN <<Span(ss, sep)>>
           ELSE FlattenSeq(SplitAll(c, mg))
  BY DEF SemanticChunks, SplitAll
<1>3. sep \in Separators
  BY DEF Separators
<1> HIDE DEF ss, sep, W, cs
<1>5. Chain(t, ss) /\ n = Len(ss) /\ n \in Nat
  BY <1>1, FollowChain, ChainFacts DEF ss
<1>6. CASE ss = <<>>
  <2>1. W < 1 /\ 1 \in Nat /\ W \in Int /\ 1 \in Int
    BY <1>1, <1>6
  <2>2. Tiled(t, <<>>, 1, 1, W)
    BY <2>1, TiledNone
  <2>3. cs = <<>>
    BY <1>2, <1>6
  <2> QED
    BY <2>1, <2>2, <2>3 DEF W, cs
<1>7. CASE ss # <<>> /\ n <= 2
  <2> DEFINE s == Span(ss, sep)
  <2>1. cs = <<s>>
    BY <1>2, <1>5, <1>7
  <2>2. /\ s \in AnyChunk /\ Holds(t, s)
        /\ Lo(t, s) = Lo(t, ss[1]) /\ Hi(t, s) = Hi(t, ss[Len(ss)])
    BY <1>3, <1>5, <1>7, ChainSpan
  <2>3. Lo(t, ss[1]) = 1 /\ Hi(t, ss[Len(ss)]) = W
    BY <1>1, <1>7 DEF Follow
  <2> HIDE DEF s
  <2>8. Tiled(t, <<s>>, Lo(t, s), Lo(t, s), Hi(t, s))
    BY <2>2, TiledOne
  <2>9. Tiled(t, <<s>>, 1, 1, W) /\ 1 \in Int
    BY <2>2, <2>3, <2>8
  <2> QED
    BY <2>1, <2>9 DEF W, cs
<1>8. CASE ss # <<>> /\ ~(n <= 2)
  <2>2. cuts \subseteq 1 .. Len(ss) - 1
    BY <1>5
  <2>11. sg = Segments(ss, cuts, decisive)
    OBVIOUS
  <2> HIDE DEF sg
  <2>3. Train(t, sg) /\ sg[1][1] = ss[1] /\ Tip(Tip(sg)) = Tip(ss)
    <3>1. Goes(t, ss)
      BY <1>5, <1>8 DEF Goes
    <3>2. cuts \in SUBSET (1 .. Len(ss) - 1)
      BY <2>2
    <3> QED
      BY <2>11, <3>1, <3>2, SegmentsTrain
  <2>4. Train(t, mg) /\ mg[1][1] = sg[1][1] /\ Tip(Tip(mg)) = Tip(Tip(sg))
    BY <2>3, MergedTrain
  <2> HIDE DEF mg
  <2>5. Tiled(t, FlattenSeq(SplitAll(c, mg)), Lo(t, mg[1][1]),
              Lo(t, Tip(Tip(mg))), Hi(t, Tip(Tip(mg))))
    BY <2>4, FlatTiled
  <2>6. cs = FlattenSeq(SplitAll(c, mg))
    BY <1>2, <1>5, <1>8
  <2>7. Tip(ss) = ss[n] /\ Lo(t, ss[1]) = 1 /\ Hi(t, ss[n]) = W
    BY <1>1, <1>5, <1>8 DEF Follow, Tip
  <2>8. mg[1][1] = ss[1] /\ Tip(Tip(mg)) = ss[n]
    BY <2>3, <2>4, <2>7
  <2> DEFINE l == Lo(t, ss[n])
  <2>9. Tiled(t, cs, 1, l, W)
    BY <2>5, <2>6, <2>7, <2>8
  <2>10. l \in Int
    <3>1. n \in 1 .. Len(ss)
      BY <1>5, <1>8
    <3>2. Lo(t, ss[n]) \in Nat
      BY <1>5, <3>1, ChainFacts
    <3> QED
      BY <3>2
  <2> QED
    BY <2>9, <2>10 DEF W, cs
<1> QED
  BY <1>6, <1>7, <1>8
-----------------------------------------------------------------------------
(* The chunks of the entry.                                                *)

\* A chunk that holds a run of words starts and ends with a letter, and its
\* words are those of the text within it.
LEMMA HoldsWithin ==
    ASSUME NEW t \in AnyText, NEW c, Holds(t, c)
    PROVE  /\ c.start \in Letters(t) /\ c.end - 1 \in Letters(t)
           /\ ToSet(WordsOf(c.text)) = WordsWithin(t, c.start, c.end)
<1> DEFINE W == Words(t)
           n == Len(W)
           a == Lo(t, c)
           b == Hi(t, c)
<1>1. /\ a \in Nat /\ b \in Nat /\ n \in Nat /\ 1 <= a /\ a <= b /\ b <= n
      /\ c.start = W[a][1] /\ c.end = W[b][2]
  BY WholeFacts DEF Holds
<1>2. a \in 1 .. n /\ b \in 1 .. n
  BY <1>1
<1>3. ListsWords(W, t)
  BY WordsListed
<1>4. /\ \A i \in 1 .. n : /\ W[i][1] \in Nat /\ W[i][2] \in Nat
      /\ \A i, j \in 1 .. n : /\ W[i][1] < W[j][1] <=> i < j
                              /\ W[i][2] < W[j][2] <=> i < j
  BY WordsInOrder
<1>5. \A i \in 1 .. n : WordsOf(t)[i] = Cut(t, W[i][1], W[i][2])
  BY WordsOfFacts
<1>6. \A i \in 1 .. n : WordAt(t, W[i]) = WordsOf(t)[i]
  BY <1>5 DEF WordAt
<1>7. DOMAIN W = 1 .. n
  BY <1>3 DEF ListsWords
<1>8. \A w : w \in ToSet(WordsOf(c.text)) <=> \E x \in a .. b : w = WordsOf(t)[x]
  BY DEF Holds
<1> HIDE DEF W, n, a, b
<1>9. \A i \in 1 .. n : c.start <= W[i][1] /\ W[i][2] <= c.end <=> i \in a .. b
  <2> TAKE i \in 1 .. n
  <2>1. c.start <= W[i][1] <=> ~(i < a)
    <3>1. /\ W[i][1] \in Nat /\ W[a][1] \in Nat
          /\ W[i][1] < W[a][1] <=> i < a
      BY <1>2, <1>4
    <3> DEFINE x == W[i][1]
    <3>2. x \in Nat /\ c.start \in Nat /\ (x < c.start <=> i < a)
      BY <1>1, <3>1
    <3> HIDE DEF x
    <3>3. c.start <= x <=> ~(x < c.start)
      BY <3>2
    <3> QED
      BY <3>2, <3>3 DEF x
  <2>2. W[i][2] <= c.end <=> ~(b < i)
    <3>1. /\ W[i][2] \in Nat /\ W[b][2] \in Nat
          /\ W[b][2] < W[i][2] <=> b < i
      BY <1>2, <1>4
    <3> DEFINE x == W[i][2]
    <3>2. x \in Nat /\ c.end \in Nat /\ (c.end < x <=> b < i)
      BY <1>1, <3>1
    <3> HIDE DEF x
    <3>3. x <= c.end <=> ~(c.end < x)
      BY <3>2
    <3> QED
      BY <3>2, <3>3 DEF x
  <2>3. i \in a .. b <=> ~(i < a) /\ ~(b < i)
    BY <1>1
  <2> QED
    BY <2>1, <2>2, <2>3
<1>10. c.start \in Letters(t) /\ c.end - 1 \in Letters(t)
  <2>1. IsWord(t, W[a][1], W[a][2]) /\ IsWord(t, W[b][1], W[b][2])
    BY <1>2, <1>3 DEF ListsWords, n
  <2>2. \A x, y : IsWord(t, x, y) => x \in Letters(t) /\ y - 1 \in Letters(t)
    <3> SUFFICES ASSUME NEW x, NEW y, IsWord(t, x, y)
                 PROVE  x \in Letters(t) /\ y - 1 \in Letters(t)
      OBVIOUS
    <3>1. x \in Nat /\ y \in Nat /\ x < y /\ \A k \in x .. y - 1 : k \in Letters(t)
      BY DEF IsWord
    <3>2. x \in x .. y - 1 /\ y - 1 \in x .. y - 1
      BY <3>1
    <3> QED
      BY <3>1, <3>2
  <2>3. W[a][1] \in Letters(t) /\ W[b][2] - 1 \in Letters(t)
    BY <2>1, <2>2
  <2> QED
    BY <1>1, <2>3
<1> DEFINE In == WordsWithin(t, c.start, c.end)
<1>11. ASSUME NEW w \in In PROVE w \in ToSet(WordsOf(c.text))
  <2>1. PICK v \in ToSet(W) : c.start <= v[1] /\ v[2] <= c.end /\ w = WordAt(t, v)
    BY <1>11 DEF WordsWithin, W
  <2>2. PICK i \in 1 .. n : v = W[i]
    BY <1>7 DEF ToSet
  <2>3. i \in a .. b /\ w = WordsOf(t)[i]
    BY <1>6, <1>9, <2>1, <2>2
  <2> QED
    BY <1>8, <2>3
<1>12. ASSUME NEW w \in ToSet(WordsOf(c.text)) PROVE w \in In
  <2>1. PICK x \in a .. b : w = WordsOf(t)[x]
    BY <1>8, <1>12
  <2>2. x \in 1 .. n
    BY <1>1
  <2>3. c.start <= W[x][1] /\ W[x][2] <= c.end /\ w = WordAt(t, W[x])
    BY <1>6, <1>9, <2>1, <2>2
  <2>4. W[x] \in ToSet(W)
    BY <1>7, <2>2 DEF ToSet
  <2> QED
    BY <2>3, <2>4 DEF WordsWithin, W
<1>13. ToSet(WordsOf(c.text)) = In
  <2> HIDE DEF In
  <2> QED
    BY <1>11, <1>12
<1> QED
  BY <1>10, <1>13

\* Chunks over all words of a text have all of its letters.
LEMMA TiledLetters ==
    ASSUME NEW t \in AnyText, NEW cs, NEW l, Tiled(t, cs, 1, l, Len(Words(t))),
           NEW k \in Letters(t)
    PROVE  \E n \in 1 .. Len(cs) : k \in Inside(cs[n])
<1> DEFINE W == Words(t)
           N == Len(W)
<1>1. PICK a, b : IsWord(t, a, b) /\ a <= k /\ k < b
  BY WordAround
<1>2. PICK i \in 1 .. N : W[i][1] = a /\ W[i][2] = b
  BY <1>1, WordsListed DEF ListsWords
<1>3. PICK n \in 1 .. Len(cs) : i \in Lo(t, cs[n]) .. Hi(t, cs[n])
  BY DEF Tiled
<1>4. Whole(t, cs[n])
  BY DEF Tiled, Holds
<1> DEFINE c == cs[n]
           x == Lo(t, c)
           y == Hi(t, c)
<1>5. /\ x \in Nat /\ y \in Nat /\ N \in Nat /\ 1 <= x /\ x <= y /\ y <= N
      /\ c.start = W[x][1] /\ c.end = W[y][2]
  BY <1>4, WholeFacts
<1>6. x \in 1 .. N /\ y \in 1 .. N /\ ~(i < x) /\ ~(y < i)
  BY <1>3, <1>5
<1>7. /\ \A j \in 1 .. N : /\ W[j][1] \in Nat /\ W[j][2] \in Nat
      /\ \A j, o \in 1 .. N : /\ W[j][1] < W[o][1] <=> j < o
                              /\ W[j][2] < W[o][2] <=> j < o
  BY WordsInOrder
<1> HIDE DEF W, N, x, y, c
<1>8. /\ ~(a < c.start) /\ ~(c.end < b)
      /\ a \in Nat /\ b \in Nat /\ c.start \in Nat /\ c.end \in Nat
  BY <1>2, <1>5, <1>6, <1>7
<1>9. k \in Int
  BY LettersOf
<1>10. k \in c.start .. c.end - 1
  BY <1>1, <1>8, <1>9
<1> QED
  BY <1>10 DEF Inside, c

ChunksOf(t, cs) == \E l \in Int : Tiled(t, cs, 1, l, Len(Words(t)))

\* The chunks there are, are those of the entry as it is stored.
ChunkInv ==
    chunks # <<>> =>
        /\ entry.state = "stored"
        /\ Unaltered(entry.final) => ChunksOf(entry.final, chunks)

LEMMA ChunkerTyped ==
    ASSUME request \in Uploads
    PROVE  chunker \in Chunker
BY ChunkingAssumption DEF chunker, Chunker

LEMMA ChunkInit == Init => ChunkInv
BY DEF Init, ChunkingInit, ChunkInv

LEMMA ChunkedRight ==
    ASSUME ReadInv, Chunked
    PROVE  ChunkInv'
<1> DEFINE t == entry.final
           c == chunker
           n == Len(Sentences(t, 0, Len(t)))
<1>1. /\ entry.state = "stored" /\ entry' = entry /\ request' = request
      /\ t \in AnyText /\ c \in Chunker
  BY ChunkerTyped DEF Chunked, readingVars, ReadInv, EntryInv
<1>2. chunker' = chunker
  BY <1>1 DEF chunker
<1> SUFFICES ASSUME Unaltered(t) PROVE ChunksOf(t, chunks')
  BY <1>1, <1>2 DEF ChunkInv
<1>3. \/ c.strategy = "fixed" /\ chunks' = FixedChunks(t, c)
      \/ c.strategy = "semantic" /\
            IF n <= 2 THEN chunks' = SemanticChunks(t, c, {}, {})
            ELSE \E cuts \in SUBSET (1 .. n - 1) : \E decisive \in SUBSET cuts :
                    chunks' = SemanticChunks(t, c, cuts, decisive)
  BY DEF Chunked
<1> HIDE DEF t, c
<1>4. CASE c.strategy = "fixed" /\ chunks' = FixedChunks(t, c)
  <2>1. \E l \in Int : Tiled(t, FixedChunks(t, c), 1, l, Len(Words(t)))
    BY <1>1, FixedTiled
  <2> QED
    BY <1>4, <2>1 DEF ChunksOf
<1>5. ASSUME c.strategy = "semantic", NEW cuts \in SUBSET (1 .. n - 1), NEW decisive,
             chunks' = SemanticChunks(t, c, cuts, decisive)
      PROVE  ChunksOf(t, chunks')
  <2>2. /\ n = Len(Sentences(t, 0, Len(t)))
        /\ cuts \subseteq 1 .. n - 1
    OBVIOUS
  <2> HIDE DEF n
  <2>3. \E l \in Int : Tiled(t, SemanticChunks(t, c, cuts, decisive), 1, l,
                             Len(Words(t)))
    BY <1>1, <2>2, SemanticTiled
  <2> QED
    BY <1>5, <2>3 DEF ChunksOf
<1>6. CASE c.strategy = "semantic" /\ n <= 2 /\ chunks' = SemanticChunks(t, c, {}, {})
  <2>1. {} \in SUBSET (1 .. n - 1)
    OBVIOUS
  <2> QED
    BY <1>5, <1>6, <2>1
<1>7. CASE c.strategy = "semantic" /\
             \E cuts \in SUBSET (1 .. n - 1) : \E decisive \in SUBSET cuts :
                chunks' = SemanticChunks(t, c, cuts, decisive)
  BY <1>5, <1>7
<1> QED
  BY <1>3, <1>4, <1>6, <1>7

LEMMA ChunkNext == ReadInv /\ ChunkInv /\ [Next]_vars => ChunkInv'
<1> SUFFICES ASSUME ReadInv, ChunkInv, [Next]_vars PROVE ChunkInv'
  OBVIOUS
<1>1. CASE Read
  <2>1. ReadingStep /\ chunks' = chunks
    BY <1>1 DEF Read
  <2>2. Reading /\ request' = request
    BY <2>1 DEF ReadingStep, ProviderStep, PageFails, PageRead, CallStarts, Answers,
       PrimaryFails, BackupFails, ShadowEnds, CallEnds, EntryStored, TextStored, Missing
  <2>3. chunks = <<>>
    BY <2>2 DEF ChunkInv, Reading
  <2> QED
    BY <2>1, <2>3 DEF ChunkInv
<1>2. CASE Embed
  BY <1>2, ChunkedRight DEF Embed
<1>3. CASE UNCHANGED <<readingVars, chunks>>
  <2>1. entry' = entry /\ request' = request /\ chunks' = chunks
    BY <1>3 DEF readingVars
  <2>2. chunker' = chunker
    BY <2>1 DEF chunker
  <2> QED
    BY <2>1, <2>2 DEF ChunkInv
<1> QED
  BY <1>1, <1>2, <1>3 DEF Next, Look, Change, vars

LEMMA ChunksFacts ==
    ASSUME ReadInv, ChunkInv, chunks # <<>>
    PROVE  /\ entry.final \in AnyText /\ chunker \in Chunker
           /\ Unaltered(entry.final) => ChunksOf(entry.final, chunks)
BY ChunkerTyped DEF ReadInv, EntryInv, ChunkInv

LEMMA NothingLostHolds ==
    ASSUME ReadInv, ChunkInv
    PROVE  NothingLost
<1> SUFFICES ASSUME chunks # <<>>, Unaltered(entry.final)
             PROVE  /\ Letters(entry.final) \subseteq
                          UNION {Inside(chunks[n]) : n \in DOMAIN chunks}
                    /\ \A n \in DOMAIN chunks :
                        /\ {chunks[n].start, chunks[n].end - 1} \subseteq Letters(entry.final)
                        /\ n > 1 => chunks[n - 1].start <= chunks[n].start
                        /\ ToSet(WordsOf(chunks[n].text)) =
                              WordsWithin(entry.final, chunks[n].start, chunks[n].end)
  BY DEF NothingLost
<1> DEFINE t == entry.final
           cs == chunks
           N == Len(cs)
           W == Words(t)
<1>1. t \in AnyText
  BY ChunksFacts
<1>2. PICK l : Tiled(t, cs, 1, l, Len(W))
  BY ChunksFacts DEF ChunksOf
<1> HIDE DEF t, cs, N, W
<1>3. /\ N \in Nat /\ DOMAIN cs = 1 .. N
      /\ \A n \in 1 .. N : Holds(t, cs[n]) /\ Whole(t, cs[n])
      /\ \A n, o \in 1 .. N : n <= o => Lo(t, cs[n]) <= Lo(t, cs[o])
  BY <1>2, LenProperties DEF Tiled, Holds, N
<1>4. \A k \in Letters(t) : \E n \in 1 .. N : k \in Inside(cs[n])
  BY <1>1, <1>2, TiledLetters DEF N, W
<1>5. Letters(t) \subseteq UNION {Inside(cs[n]) : n \in DOMAIN cs}
  BY <1>3, <1>4
<1>6. \A n \in 1 .. N : /\ cs[n].start \in Letters(t) /\ cs[n].end - 1 \in Letters(t)
                        /\ ToSet(WordsOf(cs[n].text)) = WordsWithin(t, cs[n].start, cs[n].end)
  BY <1>1, <1>3, HoldsWithin
<1>7. \A o, n \in 1 .. N : o <= n => cs[o].start <= cs[n].start
  <2> SUFFICES ASSUME NEW o \in 1 .. N, NEW n \in 1 .. N, o <= n
               PROVE  cs[o].start <= cs[n].start
    OBVIOUS
  <2> DEFINE x == Lo(t, cs[o])
             y == Lo(t, cs[n])
  <2>1. x <= y
    BY <1>3
  <2>2. /\ x \in Nat /\ y \in Nat /\ Len(W) \in Nat /\ 1 <= x /\ 1 <= y
        /\ cs[o].start = W[x][1] /\ cs[n].start = W[y][1]
    BY <1>1, <1>3, WholeFacts DEF W
  <2>3. x <= Len(W) /\ y <= Len(W)
    <3>1. \A p : Whole(t, p) => /\ Lo(t, p) \in Nat /\ Hi(t, p) \in Nat /\ Len(W) \in Nat
                                /\ Lo(t, p) <= Hi(t, p) /\ Hi(t, p) <= Len(W)
      BY <1>1, WholeFacts DEF W
    <3>2. \A p : Whole(t, p) => Lo(t, p) <= Len(W)
      BY <3>1
    <3> QED
      BY <1>3, <3>2
  <2>4. x \in 1 .. Len(W) /\ y \in 1 .. Len(W) /\ ~(y < x)
    BY <2>1, <2>2, <2>3
  <2>5. /\ W[x][1] \in Nat /\ W[y][1] \in Nat /\ (W[y][1] < W[x][1] <=> y < x)
    BY <1>1, <2>4, WordsInOrder DEF W
  <2> HIDE DEF x, y
  <2>6. cs[o].start \in Nat /\ cs[n].start \in Nat /\ ~(cs[n].start < cs[o].start)
    BY <2>2, <2>4, <2>5
  <2> QED
    BY <2>6
<1>8. \A n \in 1 .. N : n > 1 => cs[n - 1].start <= cs[n].start
  <2> SUFFICES ASSUME NEW n \in 1 .. N, n > 1 PROVE cs[n - 1].start <= cs[n].start
    OBVIOUS
  <2> DEFINE o == n - 1
  <2>1. o \in 1 .. N /\ o <= n
    BY <1>3
  <2> HIDE DEF o
  <2>2. cs[o].start <= cs[n].start
    BY <1>7, <2>1
  <2> QED
    BY <2>2 DEF o
<1> QED
  BY <1>3, <1>5, <1>6, <1>8 DEF t, cs

\* However a text is cut, at paragraphs, at sentences or where it changes its
\* subject, and whatever is merged, split and carried over: every letter is in a
\* chunk, no chunk starts before the one before it, and a chunk holds the words
\* of its range and no others (FixedTokenChunker, SemanticChunker).  It is said
\* of every text whose sentences pysbd returns as they are: where it changes
\* one, _split_sentences_with_offsets guesses a range.
THEOREM ChunksCover == Spec => []NothingLost
<1> DEFINE Inv == ReadInv /\ ChunkInv
<1>1. Init => Inv
  BY ReadInit, ChunkInit
<1>2. Inv /\ [Next]_vars => Inv'
  BY ReadNext, ChunkNext
<1>3. Inv => NothingLost
  BY NothingLostHolds
<1> HIDE DEF Inv
<1> QED
  BY <1>1, <1>2, <1>3, PTL DEF Spec

-----------------------------------------------------------------------------
(* What the chunks hold at most.                                           *)

LEMMA ImageFinite ==
    ASSUME NEW S, IsFiniteSet(S), NEW f, NEW T, T = {f[x] : x \in S}
    PROVE  IsFiniteSet(T)
<1> DEFINE g == [x \in S |-> f[x]]
<1>1. g \in [S -> T] /\ \A y \in T : \E x \in S : g[x] = y
  OBVIOUS
<1> HIDE DEF g
<1>2. g \in Surjection(S, T)
  BY <1>1 DEF Surjection
<1> QED
  BY <1>2, FS_Surjection

\* A sequence is one over what it lists, of which there is finitely much.
LEMMA Listed ==
    ASSUME NEW n \in Nat, NEW g, NEW s, s = [i \in 1 .. n |-> g[i]]
    PROVE  s \in Seq(ToSet(s)) /\ Len(s) = n /\ IsFiniteSet(ToSet(s))
<1> DEFINE T == ToSet(s)
<1>1. DOMAIN s = 1 .. n
  OBVIOUS
<1>2. T = {s[i] : i \in 1 .. n}
  BY <1>1 DEF ToSet
<1>3. s = [i \in 1 .. n |-> s[i]]
  OBVIOUS
<1> HIDE DEF T
<1>4. s \in [1 .. n -> T]
  BY <1>2, <1>3
<1>5. IsFiniteSet(1 .. n)
  BY FS_Interval
<1>6. IsFiniteSet(T)
  BY <1>2, <1>5, ImageFinite
<1> QED
  BY <1>4, <1>6, FunctionSeq DEF T

LEMMA GreatestOfFinite ==
    ASSUME NEW S, S \subseteq Nat, S # {}, IsFiniteSet(S)
    PROVE  Max(S) \in S /\ \A y \in S : Max(S) >= y
<1> DEFINE n == Cardinality(S)
           s == Sorted(S)
<1>1. S \subseteq Int
  OBVIOUS
<1>2. Ascends(s, S, n)
  BY <1>1, SortedAscends
<1>3. /\ n \in Nat /\ s \in [1 .. n -> S]
      /\ \A x \in S : \E i \in 1 .. n : s[i] = x
      /\ \A i, j \in 1 .. n : i < j => s[i] < s[j]
  BY <1>2 DEF Ascends
<1> HIDE DEF n, s
<1>4. PICK x \in S : TRUE
  OBVIOUS
<1>5. PICK i \in 1 .. n : s[i] = x
  BY <1>3
<1>6. n \in 1 .. n
  BY <1>3, <1>5
<1>7. s[n] \in S /\ s[n] \in Nat
  BY <1>3, <1>6
<1>8. \A y \in S : y <= s[n]
  <2> TAKE y \in S
  <2>1. PICK j \in 1 .. n : s[j] = y
    BY <1>3
  <2>2. j = n \/ j < n
    BY <1>3
  <2>3. y \in Nat
    OBVIOUS
  <2> QED
    BY <1>3, <1>6, <1>7, <2>1, <2>2, <2>3
<1> QED
  BY <1>7, <1>8, GreatestOf

\* There is a list of sentences, whatever pysbd returns.
LEMMA SentencesListed ==
    ASSUME NEW t \in AnyText, NEW start \in Nat, NEW end \in Nat,
           NEW ss, ss = Sentences(t, start, end)
    PROVE  ss \in Seq(ToSet(ss)) /\ Len(ss) \in Nat /\ IsFiniteSet(ToSet(ss))
<1> DEFINE all == Words(t)
           I == {i \in DOMAIN all : start <= all[i][1] /\ all[i][2] <= end}
           ws == Elements(all, I)
           last == {i \in DOMAIN ws : i = Len(ws) \/ Ends(t, ws[i])}
           J == {i \in DOMAIN ws : i = 1 \/ i - 1 \in last}
           first == Sorted(J)
           sg == Segmented(t, start, end)
           f == CHOOSE g : SentencesBy(g, t, start, end, sg)
           n == Cardinality(J)
           N == Cardinality(I)
<1>1. all \in Seq(Nat \X Nat) /\ DOMAIN all = 1 .. Len(all)
  BY WordsListed DEF ListsWords
<1>2. I \in SUBSET (1 .. Len(all))
  BY <1>1
<1>3. DOMAIN sg = DOMAIN first
  BY DEF Segmented
<1>4. ss = [k \in DOMAIN sg |-> f[k]]
  BY SentencesChosen
<1> HIDE DEF sg, f, I, all
<1>5. N \in Nat /\ DOMAIN ws = 1 .. N
  <2> HIDE DEF N
  <2>1. DOMAIN ws = 1 .. Cardinality(I) /\ Cardinality(I) \in Nat
    BY <1>1, <1>2, ElementsPicked
  <2> QED
    BY <2>1 DEF N
<1>6. J \subseteq 1 .. N
  BY <1>5
<1> HIDE DEF J, N, ws
<1>7. J \subseteq Int /\ IsFiniteSet(J)
  <2>1. IsFiniteSet(1 .. N)
    BY <1>5, FS_Interval
  <2>2. J \in SUBSET (1 .. N)
    BY <1>6
  <2>3. IsFiniteSet(J)
    BY <2>1, <2>2, FS_Subset
  <2> QED
    BY <1>5, <1>6, <2>3
<1>8. Ascends(first, J, n)
  BY <1>7, SortedAscends
<1>9. n \in Nat /\ DOMAIN first = 1 .. n
  BY <1>8 DEF Ascends
<1> HIDE DEF first, n
<1>10. ss = [k \in 1 .. n |-> f[k]]
  BY <1>3, <1>4, <1>9
<1> QED
  BY <1>9, <1>10, Listed

\* The sentences that a chunker does not split, and the longest of them, or the
\* budget if that is more.
UnsplitBy(t, c) ==
    IF c.strategy = "semantic" THEN ToSet(Sentences(t, 0, Len(t)))
    ELSE UNION {ToSet(Sentences(t, p.start, p.end)) : p \in ToSet(Paragraphs(t))}
Longest(t, c) == Max({c.max} \cup {Tokens(s) : s \in UnsplitBy(t, c)})
Bound(t, c) == Longest(t, c) + (IF c.strategy = "fixed" THEN c.overlap ELSE 0)

LEMMA ParagraphsListed ==
    ASSUME NEW t \in AnyText
    PROVE  /\ Paragraphs(t) \in Seq(ToSet(Paragraphs(t)))
           /\ IsFiniteSet(ToSet(Paragraphs(t)))
           /\ \A p \in ToSet(Paragraphs(t)) : p.start \in Nat /\ p.end \in Nat
<1> DEFINE ps == Paragraphs(t)
           n == Len(ps)
<1>1. ps \in Seq(Pieces(t))
  BY ParagraphsFollow DEF Follow
<1> HIDE DEF ps
<1>2. n \in Nat /\ DOMAIN ps = 1 .. n /\ \A k \in 1 .. n : ps[k] \in Pieces(t)
  BY <1>1, PieceFacts
<1>3. ps = [i \in 1 .. n |-> ps[i]]
  <2>1. ps = [i \in DOMAIN ps |-> ps[i]]
    BY <1>1, SeqDef
  <2> QED
    BY <1>2, <2>1
<1>4. ps \in Seq(ToSet(ps)) /\ IsFiniteSet(ToSet(ps))
  <2> HIDE DEF n
  <2> QED
    BY <1>2, <1>3, Listed
<1>5. \A p \in ToSet(ps) : p \in Pieces(t)
  BY <1>2 DEF ToSet
<1>6. \A p \in Pieces(t) : p.start \in Nat /\ p.end \in Nat
  BY DEF Pieces, AnyPiece
<1> QED
  BY <1>4, <1>5, <1>6 DEF ps

LEMMA UnsplitFinite ==
    ASSUME NEW t \in AnyText, NEW c \in Chunker
    PROVE  IsFiniteSet(UnsplitBy(t, c))
<1>1. CASE c.strategy = "semantic"
  <2>1. 0 \in Nat /\ Len(t) \in Nat
    BY TextFacts
  <2>2. IsFiniteSet(ToSet(Sentences(t, 0, Len(t))))
    BY <2>1, SentencesListed
  <2> QED
    BY <1>1, <2>2 DEF UnsplitBy
<1>2. CASE c.strategy # "semantic"
  <2> DEFINE P == ToSet(Paragraphs(t))
             f == [p \in P |-> ToSet(Sentences(t, p.start, p.end))]
             T == {ToSet(Sentences(t, p.start, p.end)) : p \in P}
  <2>1. T = {f[p] : p \in P}
    OBVIOUS
  <2>2. IsFiniteSet(P) /\ \A p \in P : p.start \in Nat /\ p.end \in Nat
    BY ParagraphsListed
  <2>3. \A s \in T : IsFiniteSet(s)
    BY <2>2, SentencesListed
  <2>4. UnsplitBy(t, c) = UNION T
    BY <1>2 DEF UnsplitBy
  <2> HIDE DEF T, f, P
  <2>5. IsFiniteSet(T)
    BY <2>1, <2>2, ImageFinite
  <2>6. IsFiniteSet(UNION T)
    BY <2>3, <2>5, FS_UNION
  <2> QED
    BY <2>4, <2>6
<1> QED
  BY <1>1, <1>2

LEMMA LongestFacts ==
    ASSUME NEW t \in AnyText, NEW c \in Chunker
    PROVE  /\ Longest(t, c) \in Nat /\ c.max <= Longest(t, c)
           /\ \A s \in UnsplitBy(t, c) : Tokens(s) <= Longest(t, c)
<1> DEFINE U == UnsplitBy(t, c)
           f == [s \in U |-> Tokens(s)]
           T == {Tokens(s) : s \in U}
           K == {c.max} \cup T
<1>1. IsFiniteSet(U)
  BY UnsplitFinite
<1>2. T = {f[s] : s \in U}
  OBVIOUS
<1>3. \A s \in U : Tokens(s) \in T
  OBVIOUS
<1>4. T \subseteq Nat
  BY TokensNat
<1>5. Longest(t, c) = Max(K)
  BY DEF Longest
<1> HIDE DEF U, f, T
<1>6. IsFiniteSet(T)
  BY <1>1, <1>2, ImageFinite
<1>7. c.max \in Nat
  BY DEF Chunker
<1>8. IsFiniteSet(K)
  <2>1. IsFiniteSet({c.max})
    BY FS_Singleton
  <2> QED
    BY <1>6, <2>1, FS_Union
<1>9. K \subseteq Nat /\ c.max \in K /\ \A s \in U : Tokens(s) \in K
  BY <1>3, <1>4, <1>7
<1> HIDE DEF K
<1>10. Max(K) \in K /\ \A y \in K : Max(K) >= y
  BY <1>8, <1>9, GreatestOfFinite
<1>11. Max(K) \in Nat
  BY <1>9, <1>10
<1> QED
  BY <1>5, <1>7, <1>9, <1>10, <1>11, TokensNat DEF U

\* Chunks of pieces of S that add up to m tokens at most, chunks that have m at
\* most, and what Pack works on.
AnySpan(S) == {Span(ps, sep) : ps \in Seq(S), sep \in Separators}
Short(S, m) == {x \in AnySpan(S) : TokensOf(x.pieces) <= m}
Small(S, m) == {x \in AnySpan(S) : CountTokens(x.text) <= m}
OpenPieces(S, m) == {ps \in Seq(S) : TokensOf(ps) <= m}
Packing(S, m) == [done : Seq(Short(S, m)), open : OpenPieces(S, m)]

\* No piece exceeds m with what is carried over.
Light(S, c, m) == \A p \in S : Tokens(p) + c.overlap <= m

LEMMA SpanShort ==
    ASSUME NEW S, NEW m, NEW ps \in OpenPieces(S, m), NEW sep \in Separators
    PROVE  Span(ps, sep) \in Short(S, m)
<1> DEFINE x == Span(ps, sep)
<1>1. ps \in Seq(S) /\ TokensOf(ps) <= m
  BY DEF OpenPieces
<1>2. x.pieces = ps
  BY DEF Span
<1>3. x \in AnySpan(S)
  BY <1>1 DEF AnySpan
<1> HIDE DEF x
<1>4. x \in Short(S, m)
  BY <1>1, <1>2, <1>3 DEF Short
<1> QED
  BY <1>4 DEF x

LEMMA NothingPacked ==
    ASSUME NEW S, NEW m \in Nat
    PROVE  Empty \in Packing(S, m)
<1>1. <<>> \in Seq(Short(S, m)) /\ <<>> \in Seq(S)
  BY EmptySeq
<1>2. TokensOf(<<>>) <= m
  BY NoTokens
<1> QED
  BY <1>1, <1>2 DEF Packing, OpenPieces, Empty

LEMMA FlushedShort ==
    ASSUME NEW S, NEW m, NEW r \in Packing(S, m), NEW sep \in Separators
    PROVE  Flushed(sep, r) \in Seq(Short(S, m))
<1>1. r.done \in Seq(Short(S, m)) /\ r.open \in OpenPieces(S, m)
  BY DEF Packing
<1> DEFINE x == Span(r.open, sep)
           T == Short(S, m)
<1>2. x \in T
  BY <1>1, SpanShort
<1>3. Flushed(sep, r) = r.done \/ Flushed(sep, r) = Append(r.done, x)
  BY DEF Flushed
<1> HIDE DEF x
<1>4. r.done \in Seq(T)
  BY <1>1
<1> HIDE DEF T
<1>5. Append(r.done, x) \in Seq(T)
  BY <1>2, <1>4, AppendProperties
<1>6. Flushed(sep, r) \in Seq(T)
  BY <1>3, <1>4, <1>5
<1> QED
  BY <1>6 DEF T

\* What is carried over is bounded by the overlap, and a piece is added to more
\* than that only within the budget.
LEMMA PackFits ==
    ASSUME NEW S, NEW m \in Nat, NEW c \in Chunker, c.max <= m, NEW sep \in Separators,
           NEW p \in S, Tokens(p) + c.overlap <= m, NEW r \in Packing(S, m)
    PROVE  Pack(c, sep, r, p) \in Packing(S, m)
<1> DEFINE d == r.done
           o == r.open
           k == Carried(o, c.overlap)
           x == Span(o, sep)
           T == Short(S, m)
<1>1. /\ r = [done |-> d, open |-> o] /\ d \in Seq(T)
      /\ o \in Seq(S) /\ o \in OpenPieces(S, m)
  BY DEF Packing, OpenPieces
<1>2. c.max \in Nat /\ c.overlap \in Nat
  BY DEF Chunker
<1>3. /\ TokensOf(o) \in Nat /\ Tokens(p) \in Nat
      /\ Append(o, p) \in Seq(S) /\ TokensOf(Append(o, p)) = TokensOf(o) + Tokens(p)
  BY <1>1, AppendProperties, TokensAppended
<1>4. CASE TokensOf(o) + Tokens(p) > c.max /\ o # <<>>
  <2>1. Pack(c, sep, r, p) = [done |-> Append(d, x), open |-> Append(k, p)]
    BY <1>4 DEF Pack
  <2>2. x \in T
    BY <1>1, SpanShort
  <2> HIDE DEF T, x, d, o
  <2>3. Append(d, x) \in Seq(T)
    BY <1>1, <2>2, AppendProperties
  <2>4. PICK i \in 1 .. Len(o) + 1 : k = SubSeq(o, i, Len(o)) /\ TokensOf(k) <= c.overlap
    BY <1>1, <1>2, CarriedFacts
  <2>5. k \in Seq(S)
    <3> DEFINE n == Len(o)
    <3>1. n \in Nat
      BY <1>1, LenProperties
    <3>2. i \in Nat /\ 1 <= i /\ i <= n + 1 /\ n <= Len(o) /\ n \in Nat
      BY <3>1
    <3>3. k = SubSeq(o, i, n)
      BY <2>4
    <3> HIDE DEF n, k
    <3> QED
      BY <1>1, <3>2, <3>3, SliceFacts
  <2> HIDE DEF k
  <2>6. /\ TokensOf(k) \in Nat /\ Append(k, p) \in Seq(S)
        /\ TokensOf(Append(k, p)) = TokensOf(k) + Tokens(p)
    BY <2>5, AppendProperties, TokensAppended
  <2>7. TokensOf(Append(k, p)) <= m
    BY <1>2, <1>3, <2>4, <2>6
  <2>8. Append(k, p) \in OpenPieces(S, m)
    BY <2>6, <2>7 DEF OpenPieces
  <2> DEFINE u == Append(d, x)
             v == Append(k, p)
  <2>9. /\ Pack(c, sep, r, p) = [done |-> u, open |-> v]
        /\ u \in Seq(Short(S, m)) /\ v \in OpenPieces(S, m)
    BY <2>1, <2>3, <2>8 DEF T
  <2> HIDE DEF u, v
  <2> QED
    BY <2>9 DEF Packing
<1>5. CASE ~(TokensOf(o) + Tokens(p) > c.max /\ o # <<>>)
  <2>1. Pack(c, sep, r, p) = [r EXCEPT !.open = Append(o, p)]
    BY <1>5 DEF Pack
  <2>2. Pack(c, sep, r, p) = [done |-> d, open |-> Append(o, p)]
    BY <1>1, <2>1
  <2>3. TokensOf(Append(o, p)) <= m
    <3>1. CASE o = <<>>
      <4>1. TokensOf(o) = 0
        BY <3>1, NoTokens
      <4> HIDE DEF o
      <4> QED
        BY <1>2, <1>3, <4>1
    <3>2. CASE ~(TokensOf(o) + Tokens(p) > c.max)
      <4> HIDE DEF o
      <4> QED
        BY <1>2, <1>3, <3>2
    <3> QED
      BY <1>5, <3>1, <3>2
  <2>4. Append(o, p) \in OpenPieces(S, m)
    BY <1>3, <2>3 DEF OpenPieces
  <2> DEFINE v == Append(o, p)
  <2>5. /\ Pack(c, sep, r, p) = [done |-> d, open |-> v]
        /\ d \in Seq(Short(S, m)) /\ v \in OpenPieces(S, m)
    BY <1>1, <2>2, <2>4
  <2> HIDE DEF d, o, v
  <2> QED
    BY <2>5 DEF Packing
<1> QED
  BY <1>4, <1>5

LEMMA PackedFits ==
    ASSUME NEW S, NEW m \in Nat, NEW c \in Chunker, c.max <= m, NEW sep \in Separators,
           NEW U, U \subseteq S, Light(U, c, m), NEW ps \in Seq(U)
    PROVE  Packed(c, sep, ps) \in Seq(Short(S, m))
<1> DEFINE f == CHOOSE g : PackBy(g, c, sep, ps)
           V == Packing(S, m)
           n == Len(ps)
<1>1. Packed(c, sep, ps) = Flushed(sep, f[n])
  BY PackedChosen
<1>2. f = CHOOSE g : PackBy(g, c, sep, ps)
  OBVIOUS
<1>3. PackKeepsIn(V, U, c, sep)
  <2>1. ASSUME NEW r \in V, NEW p \in U PROVE Pack(c, sep, r, p) \in V
    <3>1. Tokens(p) + c.overlap <= m /\ p \in S
      BY DEF Light
    <3>2. r \in Packing(S, m)
      OBVIOUS
    <3>3. Pack(c, sep, r, p) \in Packing(S, m)
      BY <3>1, <3>2, PackFits
    <3> QED
      BY <3>3
  <2> HIDE DEF V
  <2> QED
    BY <2>1 DEF PackKeepsIn
<1>4. Empty \in V
  BY NothingPacked
<1>5. n \in Nat /\ n \in 0 .. n
  BY LenProperties
<1> HIDE DEF f, V
<1>6. \A i \in 0 .. n : f[i] \in V
  BY <1>2, <1>3, <1>4, PackWithin
<1>7. f[n] \in V
  BY <1>5, <1>6
<1> HIDE DEF n
<1> DEFINE r == f[n]
<1>8. r \in Packing(S, m)
  BY <1>7 DEF V
<1> HIDE DEF r
<1>9. Flushed(sep, r) \in Seq(Short(S, m))
  BY <1>8, FlushedShort
<1> QED
  BY <1>1, <1>9 DEF r

\* The fixed chunker: of its paragraphs, and of the sentences of the long ones.
LEMMA ParagraphFits ==
    ASSUME NEW t, NEW S, NEW m \in Nat, NEW c \in Chunker, c.max + c.overlap <= m,
           NEW U, U \subseteq S, Light(U, c, m), NEW p \in S,
           Sentences(t, p.start, p.end) \in Seq(U), NEW r \in Packing(S, m)
    PROVE  PackParagraph(t, c, r, p) \in Packing(S, m)
<1> DEFINE T == Short(S, m)
           u == Flushed(BlankLine, r)
           v == SplitLong(t, c, p)
           ss == Sentences(t, p.start, p.end)
           sep == <<" ">>
<1>1. BlankLine \in Separators /\ sep \in Separators
  BY DEF Separators
<1>2. /\ c.max \in Nat /\ c.overlap \in Nat /\ c.max <= m
  BY DEF Chunker
<1>3. u \in Seq(T)
  BY <1>1, FlushedShort
<1>4. v = Packed(c, sep, ss) /\ ss \in Seq(U)
  BY DEF SplitLong
<1> HIDE DEF u, v, ss, sep
<1>5. v \in Seq(T)
  BY <1>1, <1>2, <1>4, PackedFits
<1> HIDE DEF T
<1>6. u \o v \in Seq(T)
  BY <1>3, <1>5, ConcatProperties
<1>7. CASE Tokens(p) > c.max
  <2> DEFINE w == u \o v
             e == <<>>
  <2>1. PackParagraph(t, c, r, p) = [done |-> w, open |-> e]
    BY <1>7 DEF PackParagraph, u, v
  <2>2. e \in Seq(S) /\ TokensOf(e) <= m
    BY EmptySeq, NoTokens
  <2>3. w \in Seq(Short(S, m)) /\ e \in OpenPieces(S, m)
    BY <1>6, <2>2 DEF T, OpenPieces
  <2> HIDE DEF w, e
  <2> QED
    BY <2>1, <2>3 DEF Packing
<1>8. CASE ~(Tokens(p) > c.max)
  <2>1. PackParagraph(t, c, r, p) = Pack(c, BlankLine, r, p)
    BY <1>8 DEF PackParagraph
  <2>2. Tokens(p) + c.overlap <= m
    BY <1>2, <1>8, TokensNat
  <2>3. Pack(c, BlankLine, r, p) \in Packing(S, m)
    BY <1>1, <1>2, <2>2, PackFits
  <2> QED
    BY <2>1, <2>3
<1> QED
  BY <1>7, <1>8

LEMMA FixedFits ==
    ASSUME NEW t \in AnyText, NEW c \in Chunker, c.strategy = "fixed",
           NEW cs, cs = FixedChunks(t, c)
    PROVE  \/ CountTokens(t) <= c.max /\ Len(cs) = 1
           \/ \E S : cs \in Seq(Short(S, Bound(t, c)))
<1> DEFINE ps == Paragraphs(t)
           P == ToSet(ps)
           U == UnsplitBy(t, c)
           S == P \cup U
           m == Bound(t, c)
           V == Packing(S, m)
           N == Len(ps)
           f == CHOOSE g : FixedBy(g, t, c, ps)
<1>1. cs = IF ps = <<>> THEN <<>>
           ELSE IF CountTokens(t) <= c.max THEN <<Span(ps, BlankLine)>>
           ELSE Flushed(BlankLine, f[N])
  BY FixedChosen
<1>2. /\ Longest(t, c) \in Nat /\ c.max <= Longest(t, c)
      /\ \A s \in U : Tokens(s) <= Longest(t, c)
      /\ c.max \in Nat /\ c.overlap \in Nat
  BY LongestFacts DEF Chunker
<1>3. m = Longest(t, c) + c.overlap
  BY DEF Bound
<1>4. U = UNION {ToSet(Sentences(t, p.start, p.end)) : p \in P}
  BY DEF UnsplitBy
<1>5. ps \in Seq(P) /\ \A p \in P : p.start \in Nat /\ p.end \in Nat
  BY ParagraphsListed
<1>6. f = CHOOSE g : FixedBy(g, t, c, ps)
  OBVIOUS
<1>7. BlankLine \in Separators
  BY DEF Separators
<1> HIDE DEF ps, P, U, m, f
<1>8. m \in Nat /\ c.max + c.overlap <= m
  BY <1>2, <1>3
<1>9. Light(U, c, m)
  <2>1. \A s \in U : Tokens(s) \in Nat
    BY TokensNat
  <2>2. \A s \in U : Tokens(s) + c.overlap <= m
    BY <1>2, <1>3, <2>1
  <2> QED
    BY <2>2 DEF Light
<1>10. ASSUME NEW p \in P PROVE Sentences(t, p.start, p.end) \in Seq(U)
  <2> DEFINE ss == Sentences(t, p.start, p.end)
             W == ToSet(ss)
  <2>1. p.start \in Nat /\ p.end \in Nat
    BY <1>5
  <2>2. ss \in Seq(W)
    BY <2>1, SentencesListed
  <2>3. W \subseteq U
    BY <1>4
  <2> HIDE DEF ss, W
  <2>4. Seq(W) \subseteq Seq(U)
    BY <2>3, SeqDef
  <2>5. ss \in Seq(U)
    BY <2>2, <2>4
  <2> QED
    BY <2>5 DEF ss
<1>11. CASE ps = <<>>
  <2>1. cs = <<>>
    BY <1>1, <1>11
  <2>2. cs \in Seq(Short(S, m))
    BY <2>1, EmptySeq
  <2> QED
    BY <2>2 DEF m
<1>12. CASE ps # <<>> /\ CountTokens(t) <= c.max
  <2> DEFINE x == Span(ps, BlankLine)
  <2>1. cs = <<x>>
    BY <1>1, <1>12
  <2> HIDE DEF x
  <2>2. Len(cs) = 1
    BY <2>1
  <2> QED
    BY <1>12, <2>2
<1>13. CASE ps # <<>> /\ ~(CountTokens(t) <= c.max)
  <2>1. cs = Flushed(BlankLine, f[N])
    BY <1>1, <1>13
  <2>2. Empty \in V
    BY <1>8, NothingPacked
  <2>3. U \subseteq S /\ P \subseteq S
    OBVIOUS
  <2> HIDE DEF S
  <2>4. FixedKeepsIn(V, P, t, c)
    <3>1. ASSUME NEW r \in V, NEW p \in P PROVE PackParagraph(t, c, r, p) \in V
      <4>1. p \in S /\ r \in Packing(S, m) /\ Sentences(t, p.start, p.end) \in Seq(U)
        BY <1>10, <2>3
      <4>2. PackParagraph(t, c, r, p) \in Packing(S, m)
        BY <1>8, <1>9, <2>3, <4>1, ParagraphFits
      <4> QED
        BY <4>2
    <3> HIDE DEF V
    <3> QED
      BY <3>1 DEF FixedKeepsIn
  <2> HIDE DEF V
  <2>5. \A i \in 0 .. Len(ps) : f[i] \in V
    BY <1>5, <1>6, <2>2, <2>4, FixedWithin
  <2>6. N \in Nat
    BY <1>5, LenProperties
  <2>7. f[N] \in V
    BY <2>5, <2>6
  <2> HIDE DEF N
  <2> DEFINE r == f[N]
  <2>8. r \in Packing(S, m)
    BY <2>7 DEF V
  <2> HIDE DEF r
  <2>9. Flushed(BlankLine, r) \in Seq(Short(S, m))
    BY <1>7, <2>8, FlushedShort
  <2>10. cs \in Seq(Short(S, m))
    BY <2>1, <2>9 DEF r
  <2> QED
    BY <2>10 DEF m
<1> QED
  BY <1>11, <1>12, <1>13

\* The semantic chunker: of its sentences.
LEMMA SegmentsListed ==
    ASSUME NEW S, NEW ss \in Seq(S), NEW n \in Nat, n = Len(ss), n # 0,
           NEW cuts \in SUBSET (1 .. n - 1), NEW decisive
    PROVE  Segments(ss, cuts, decisive) \in Seq(Seq(S))
<1> DEFINE sg == Segments(ss, cuts, decisive)
<1>1. PICK N \in Nat : \E a, e : CutInto(sg, ss, n, N, a, e)
  BY SegmentsCut
<1>2. PICK a, e : CutInto(sg, ss, n, N, a, e)
  BY <1>1
<1> HIDE DEF sg
<1>3. /\ sg = [k \in 1 .. N |-> SubSeq(ss, a[k], e[k])]
      /\ \A k \in 1 .. N : a[k] \in 1 .. n /\ e[k] \in a[k] .. n
  BY <1>2 DEF CutInto
<1>4. ASSUME NEW k \in 1 .. N PROVE SubSeq(ss, a[k], e[k]) \in Seq(S)
  <2> DEFINE x == a[k]
             y == e[k]
  <2>1. x \in 1 .. n /\ y \in x .. n
    BY <1>3
  <2> HIDE DEF x, y
  <2>2. x \in Nat /\ y \in Nat /\ 1 <= x /\ x <= y + 1 /\ y <= Len(ss)
    BY <2>1
  <2>3. SubSeq(ss, x, y) \in Seq(S)
    BY <2>2, SliceFacts
  <2> QED
    BY <2>3 DEF x, y
<1>5. sg \in [1 .. N -> Seq(S)]
  BY <1>3, <1>4, Zenon
<1>6. sg \in Seq(Seq(S))
  BY <1>5, FunctionSeq
<1> QED
  BY <1>6 DEF sg

LEMMA MergedListed ==
    ASSUME NEW c, NEW S, NEW sg \in Seq(Seq(S))
    PROVE  Merged(c, sg) \in Seq(Seq(S))
<1> DEFINE f == Merging(c, sg)
           n == Len(sg)
           r == f[n]
           u == Shortened(r)
<1>1. \A i \in 0 .. Len(sg) : f[i] \in Seq(Seq(S))
  <2>1. f = Merging(c, sg)
    OBVIOUS
  <2> HIDE DEF f
  <2> QED
    BY <2>1, MergedFunction
<1>2. Merged(c, sg) = Unshort(c, r)
  BY MergedChosen
<1>3. n \in 0 .. n
  BY LenProperties
<1>4. r \in Seq(Seq(S))
  BY <1>1, <1>3
<1>5. Merged(c, sg) = r \/ (Len(r) >= 2 /\ Merged(c, sg) = u)
  BY <1>2 DEF Unshort
<1> HIDE DEF r
<1>6. ASSUME Len(r) >= 2 PROVE u \in Seq(Seq(S))
  <2> DEFINE z == Len(r)
             x == r[1] \o r[2]
             y == SubSeq(r, 3, z)
             w == <<x>>
  <2>1. z \in Nat /\ z >= 2
    BY <1>4, <1>6, LenProperties
  <2>2. 1 \in 1 .. z /\ 2 \in 1 .. z
    BY <2>1
  <2>3. r[1] \in Seq(S) /\ r[2] \in Seq(S)
    BY <1>4, <2>2, ElementOfSeq
  <2>4. x \in Seq(S)
    BY <2>3, ConcatProperties
  <2>5. y \in Seq(Seq(S))
    <3>1. 3 \in Nat /\ z \in Nat /\ 1 <= 3 /\ 3 <= z + 1 /\ z <= Len(r)
      BY <2>1
    <3> HIDE DEF z
    <3> QED
      BY <1>4, <3>1, SliceFacts
  <2>6. u = w \o y
    BY DEF Shortened
  <2> HIDE DEF x, y
  <2>7. w \in Seq(Seq(S))
    BY <2>4, ShortTexts
  <2> HIDE DEF w
  <2>8. w \o y \in Seq(Seq(S))
    BY <2>5, <2>7, ConcatProperties
  <2> QED
    BY <2>6, <2>8
<1> HIDE DEF u
<1> QED
  BY <1>4, <1>5, <1>6

LEMMA SegmentFits ==
    ASSUME NEW S, NEW m \in Nat, NEW c \in Chunker, c.max <= m,
           \A p \in S : Tokens(p) <= m, NEW s \in Seq(S)
    PROVE  SplitSegment(c, s) \in Seq(Short(S, m) \cup Small(S, c.max))
<1> DEFINE sep == <<" ">>
           d == [c EXCEPT !.overlap = 0]
           x == Span(s, sep)
           T == Short(S, m)
           R == Small(S, c.max)
           Q == T \cup R
<1>1. sep \in Separators
  BY DEF Separators
<1>2. d \in Chunker /\ d.overlap = 0 /\ d.max = c.max
  BY DEF Chunker
<1>3. SplitSegment(c, s) = IF SegTokens(s) <= c.max THEN <<x>> ELSE Packed(d, sep, s)
  BY DEF SplitSegment
<1>4. x.text = Together(s, sep)
  BY DEF Span
<1>5. SegTokens(s) = CountTokens(Together(s, sep))
  BY DEF SegTokens
<1>6. x \in AnySpan(S)
  <2> HIDE DEF sep
  <2>1. s \in Seq(S) /\ sep \in Separators
    BY <1>1
  <2>2. Span(s, sep) \in AnySpan(S)
    BY <2>1 DEF AnySpan
  <2> QED
    BY <2>2
<1> HIDE DEF sep, d, x, T
<1>7. CASE SegTokens(s) <= c.max
  <2>1. x \in R
    BY <1>4, <1>5, <1>6, <1>7 DEF Small
  <2> HIDE DEF R
  <2>2. x \in Q
    BY <2>1
  <2> HIDE DEF Q
  <2>3. <<x>> \in Seq(Q)
    BY <2>2, ShortTexts
  <2> QED
    BY <1>3, <1>7, <2>3 DEF Q, T, R
<1> HIDE DEF R
<1>8. CASE ~(SegTokens(s) <= c.max)
  <2>1. Light(S, d, m)
    <3>1. \A p \in S : Tokens(p) \in Nat
      BY TokensNat
    <3>2. \A p \in S : Tokens(p) + d.overlap <= m
      BY <1>2, <3>1
    <3> QED
      BY <3>2 DEF Light
  <2>2. S \subseteq S /\ d.max <= m
    BY <1>2
  <2>3. Packed(d, sep, s) \in Seq(T)
    BY <1>1, <1>2, <2>1, <2>2, PackedFits DEF T
  <2>4. T \subseteq Q
    OBVIOUS
  <2> HIDE DEF Q
  <2>5. Seq(T) \subseteq Seq(Q)
    BY <2>4, SeqDef
  <2>6. Packed(d, sep, s) \in Seq(Q)
    BY <2>3, <2>5
  <2> QED
    BY <1>3, <1>8, <2>6 DEF Q, T, R
<1> QED
  BY <1>7, <1>8

LEMMA SemanticFits ==
    ASSUME NEW t \in AnyText, NEW c \in Chunker, c.strategy = "semantic",
           NEW n, n = Len(Sentences(t, 0, Len(t))), ~(n <= 2),
           NEW cuts \in SUBSET (1 .. n - 1), NEW decisive,
           NEW cs, cs = SemanticChunks(t, c, cuts, decisive)
    PROVE  \E S : cs \in Seq(Short(S, Bound(t, c)) \cup Small(S, c.max))
<1> DEFINE ss == Sentences(t, 0, Len(t))
           S == ToSet(ss)
           m == Bound(t, c)
           sg == Segments(ss, cuts, decisive)
           mg == Merged(c, sg)
           Q == Short(S, m) \cup Small(S, c.max)
           all == SplitAll(c, mg)
           N == Len(mg)
<1>1. 0 \in Nat /\ Len(t) \in Nat
  BY TextFacts
<1>2. ss \in Seq(S) /\ n \in Nat /\ n = Len(ss)
  BY <1>1, SentencesListed
<1>3. /\ Longest(t, c) \in Nat /\ c.max <= Longest(t, c)
      /\ \A s \in UnsplitBy(t, c) : Tokens(s) <= Longest(t, c)
  BY LongestFacts
<1>4. S = UnsplitBy(t, c) /\ m = Longest(t, c) + 0
  BY DEF UnsplitBy, Bound
<1>5. m \in Nat /\ c.max <= m /\ \A p \in S : Tokens(p) <= m
  BY <1>3, <1>4
<1>6. ss # <<>>
  BY <1>2, EmptySeq
<1>7. cs = FlattenSeq(all)
  BY <1>2, <1>6 DEF SemanticChunks, SplitAll
<1> HIDE DEF ss, S, m
<1>8. n # 0
  OBVIOUS
<1>9. sg \in Seq(Seq(S))
  BY <1>2, <1>8, SegmentsListed
<1> HIDE DEF sg
<1>10. mg \in Seq(Seq(S))
  BY <1>9, MergedListed
<1> HIDE DEF mg
<1>11. N \in Nat /\ DOMAIN mg = 1 .. N /\ \A k \in 1 .. N : mg[k] \in Seq(S)
  BY <1>10, LenProperties, ElementOfSeq
<1>12. \A k \in 1 .. N : SplitSegment(c, mg[k]) \in Seq(Q)
  <2> TAKE k \in 1 .. N
  <2> DEFINE s == mg[k]
  <2>1. s \in Seq(S)
    BY <1>11
  <2> HIDE DEF s
  <2>2. SplitSegment(c, s) \in Seq(Q)
    BY <1>5, <2>1, SegmentFits
  <2> QED
    BY <2>2 DEF s
<1> HIDE DEF Q, N
<1>13. all \in Seq(Seq(Q))
  <2>1. all = [k \in 1 .. N |-> SplitSegment(c, mg[k])]
    BY <1>11, Zenon DEF SplitAll
  <2>2. all \in [1 .. N -> Seq(Q)]
    BY <1>12, <2>1, Zenon
  <2> HIDE DEF all
  <2> QED
    BY <1>11, <2>2, FunctionSeq
<1> HIDE DEF all
<1>14. PICK f : FlatBy(f, all, Q) /\ FlattenSeq(all) = f[Len(all)]
  BY <1>13, FlattenFacts
<1>15. Len(all) \in 0 .. Len(all) /\ f \in [0 .. Len(all) -> Seq(Q)]
  BY <1>13, <1>14, LenProperties DEF FlatBy
<1>16. cs \in Seq(Q)
  BY <1>7, <1>14, <1>15
<1> QED
  BY <1>16 DEF Q, m

\* The budget of a text, a chunker and chunks.
WithinBudget(t, c, cs) ==
    \A n \in DOMAIN cs :
        \/ TokensOf(cs[n].pieces) <= Bound(t, c)
        \/ c.strategy = "fixed" /\ Len(cs) = 1 /\ CountTokens(t) <= c.max
        \/ /\ c.strategy = "semantic"
           /\ CountTokens(cs[n].text) <= c.max \/ Len(Sentences(t, 0, Len(t))) <= 2

LEMMA ShortWithin ==
    ASSUME NEW t, NEW c, NEW S, NEW cs \in Seq(Short(S, Bound(t, c)))
    PROVE  WithinBudget(t, c, cs)
<1> DEFINE m == Bound(t, c)
           T == Short(S, m)
<1>1. \A x \in T : TokensOf(x.pieces) <= m
  BY DEF Short
<1> HIDE DEF T, m
<1>2. \A n \in DOMAIN cs : cs[n] \in T
  <2>1. cs \in Seq(T)
    BY DEF T, m
  <2> QED
    BY <2>1, LenProperties, ElementOfSeq
<1> QED
  BY <1>1, <1>2 DEF WithinBudget, m

LEMMA FixedWithinBudget ==
    ASSUME NEW t \in AnyText, NEW c \in Chunker, c.strategy = "fixed",
           NEW cs, cs = FixedChunks(t, c)
    PROVE  WithinBudget(t, c, cs)
<1>1. CASE CountTokens(t) <= c.max /\ Len(cs) = 1
  BY <1>1 DEF WithinBudget
<1>2. CASE \E S : cs \in Seq(Short(S, Bound(t, c)))
  BY <1>2, ShortWithin
<1> QED
  BY <1>1, <1>2, FixedFits

LEMMA SemanticWithinBudget ==
    ASSUME NEW t \in AnyText, NEW c \in Chunker, c.strategy = "semantic",
           NEW n, n = Len(Sentences(t, 0, Len(t))), ~(n <= 2),
           NEW cuts \in SUBSET (1 .. n - 1), NEW decisive,
           NEW cs, cs = SemanticChunks(t, c, cuts, decisive)
    PROVE  WithinBudget(t, c, cs)
<1>1. PICK S : cs \in Seq(Short(S, Bound(t, c)) \cup Small(S, c.max))
  BY SemanticFits
<1> DEFINE m == Bound(t, c)
           Q == Short(S, m) \cup Small(S, c.max)
<1>2. \A x \in Q : TokensOf(x.pieces) <= m \/ CountTokens(x.text) <= c.max
  BY DEF Short, Small
<1>3. cs \in Seq(Q)
  BY <1>1
<1> HIDE DEF Q, m
<1>4. \A k \in DOMAIN cs : cs[k] \in Q
  BY <1>3, LenProperties, ElementOfSeq
<1> QED
  BY <1>2, <1>4 DEF WithinBudget, m

LEMMA ChunkedFits ==
    ASSUME ReadInv, Chunked
    PROVE  BudgetKept'
<1> DEFINE t == entry.final
           c == chunker
           n == Len(Sentences(t, 0, Len(t)))
           cs == chunks'
<1>1. /\ entry' = entry /\ request' = request
      /\ t \in AnyText /\ c \in Chunker
  BY ChunkerTyped DEF Chunked, readingVars, ReadInv, EntryInv
<1>2. chunker' = chunker
  BY <1>1 DEF chunker
<1> SUFFICES WithinBudget(t, c, cs)
  BY <1>1, <1>2 DEF BudgetKept, WithinBudget, Unsplit, UnsplitBy, Longest, Bound
<1>3. \/ c.strategy = "fixed" /\ cs = FixedChunks(t, c)
      \/ c.strategy = "semantic" /\
            IF n <= 2 THEN cs = SemanticChunks(t, c, {}, {})
            ELSE \E cuts \in SUBSET (1 .. n - 1) : \E decisive \in SUBSET cuts :
                    cs = SemanticChunks(t, c, cuts, decisive)
  BY DEF Chunked
<1> HIDE DEF t, c, cs
<1>4. CASE c.strategy = "fixed" /\ cs = FixedChunks(t, c)
  BY <1>1, <1>4, FixedWithinBudget
<1>5. CASE c.strategy = "semantic" /\ n <= 2
  BY <1>5 DEF WithinBudget
<1>6. ASSUME c.strategy = "semantic", ~(n <= 2), NEW cuts \in SUBSET (1 .. n - 1),
             NEW decisive, cs = SemanticChunks(t, c, cuts, decisive)
      PROVE  WithinBudget(t, c, cs)
  <2>1. n = Len(Sentences(t, 0, Len(t)))
    OBVIOUS
  <2> HIDE DEF n
  <2> QED
    BY <1>1, <1>6, <2>1, SemanticWithinBudget
<1> QED
  BY <1>3, <1>4, <1>5, <1>6

LEMMA NoneWithinBudget ==
    ASSUME chunks = <<>>
    PROVE  BudgetKept
<1>1. DOMAIN chunks = {}
  OBVIOUS
<1> QED
  BY <1>1 DEF BudgetKept

LEMMA BudgetNext == ReadInv /\ ChunkInv /\ BudgetKept /\ [Next]_vars => BudgetKept'
<1> SUFFICES ASSUME ReadInv, ChunkInv, BudgetKept, [Next]_vars PROVE BudgetKept'
  OBVIOUS
<1>1. CASE Read
  <2>1. ReadingStep /\ chunks' = chunks
    BY <1>1 DEF Read
  <2>2. Reading
    BY <2>1 DEF ReadingStep, ProviderStep, PageFails, PageRead, CallStarts, Answers,
       PrimaryFails, BackupFails, ShadowEnds, CallEnds, EntryStored, TextStored, Missing
  <2>3. chunks = <<>>
    BY <2>2 DEF ChunkInv, Reading
  <2>4. chunks' = <<>>
    BY <2>1, <2>3
  <2>5. DOMAIN chunks' = {}
    BY <2>4
  <2> QED
    BY <2>5 DEF BudgetKept
<1>2. CASE Embed
  BY <1>2, ChunkedFits DEF Embed
<1>3. CASE UNCHANGED <<readingVars, chunks>>
  <2>1. entry' = entry /\ request' = request /\ chunks' = chunks
    BY <1>3 DEF readingVars
  <2>2. chunker' = chunker
    BY <2>1 DEF chunker
  <2> QED
    BY <2>1, <2>2 DEF BudgetKept, Unsplit
<1> QED
  BY <1>1, <1>2, <1>3 DEF Next, Look, Change, vars

\* Whatever a tokeniser counts: a chunk of several pieces is a text, or a
\* segment, that is within the budget as it stands, or its pieces add up to the
\* budget, or the longest sentence of the text if that is longer, and the
\* overlap at most; what is carried over cannot pile up.  Their sum is what the
\* chunkers look at: the joined text of a chunk may have more tokens, with the
\* separators between the pieces (chunking_max_tokens, chunking_overlap_tokens).
THEOREM ChunksFit == Spec => []BudgetKept
<1> DEFINE Inv == ReadInv /\ ChunkInv /\ BudgetKept
<1>1. Init => Inv
  BY ReadInit, ChunkInit, NoneWithinBudget DEF Init, ChunkingInit
<1>2. Inv /\ [Next]_vars => Inv'
  BY ReadNext, ChunkNext, BudgetNext
<1>3. Inv => BudgetKept
  OBVIOUS
<1> HIDE DEF Inv
<1> QED
  BY <1>1, <1>2, <1>3, PTL DEF Spec
=============================================================================
