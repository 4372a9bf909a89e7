------------------------------ MODULE Chunking ------------------------------
(***************************************************************************)
(* How the text of an entry is cut into the chunks that are embedded and   *)
(* highlighted (services/chunking.py).  A piece is a paragraph or a        *)
(* sentence: its text, and half-open offsets in the text of the entry.  A  *)
(* chunk is a sequence of pieces, its text their texts with one separator  *)
(* between them.                                                           *)
(***************************************************************************)
EXTENDS Reading

CONSTANTS
    TokenCount(_),  \* the tokens that tiktoken finds in a text, one at least
    Altered,        \* what pysbd returns for the sentences it changes
    Chunkers        \* the configured chunker, for each chunking of an upload

ASSUME ChunkingAssumption ==
    /\ \A s \in DOMAIN Altered : Altered[s] = Stripped(Altered[s]) /\ Altered[s] # <<>>
    /\ \A u \in Uploads : Chunkers[u.chunking] \in
          [strategy : {"fixed", "semantic"}, max : Nat, min : Nat, overlap : Nat]

VARIABLE chunks   \* the chunks of the stored entry, <<>> before there are any

chunker == Chunkers[request.chunking]

-----------------------------------------------------------------------------
(* Pieces.                                                                 *)

Piece(text, start, end) ==
    [text |-> Cut(text, start, end), start |-> start, end |-> end]

\* A number, whatever the tokeniser: that of a text need not be the sum of those
\* of its parts.
CountTokens(text) == IF TokenCount(text) \in Nat THEN TokenCount(text) ELSE 0

\* Where text.split("\n\n") cuts, from the left: a break pair that does not
\* overlap the pair before.
Breaks(text) ==
    LET cut[k \in 0 .. Len(text)] ==
        IF k = 0 THEN {}
        ELSE IF /\ k < Len(text) /\ text[k] = "/" /\ text[k + 1] = "/"
                /\ k - 2 \notin cut[k - 1]
             THEN cut[k - 1] \cup {k - 1}
             ELSE cut[k - 1]
    IN cut[Len(text)]

\* _split_paragraphs_with_offsets: what lies between two cuts, without the
\* blanks around it.
Paragraphs(text) ==
    LET starts == {0} \cup {k + 2 : k \in Breaks(text)}
        end(s) == Min({k \in Breaks(text) : k >= s} \cup {Len(text)})
        kept(s) == Trimmed(text, s .. end(s) - 1)
        ss == Sorted({s \in starts : kept(s) # {}})
    IN [n \in DOMAIN ss |-> Piece(text, Min(kept(ss[n])), Max(kept(ss[n])) + 1)]

\* pysbd: a sentence ends with a word that has a full stop, or at a line break
\* before a word.
Ends(text, w) ==
    \/ text[w[2]] = "."
    \/ w[2] + 1 \in DOMAIN text /\ text[w[2] + 1] = "/"

\* The sentences of the part of a text from start to end.
Segmented(text, start, end) ==
    LET all == Words(text)
        ws == Elements(all, {i \in DOMAIN all :
                                start <= all[i][1] /\ all[i][2] <= end})
        last == {i \in DOMAIN ws : i = Len(ws) \/ Ends(text, ws[i])}
        first == Sorted({i \in DOMAIN ws : i = 1 \/ i - 1 \in last})
        closing(i) == Min({j \in last : j >= i})
    IN [n \in DOMAIN first |->
            Cut(text, ws[first[n]][1], ws[closing(first[n])][2])]

Returned(sentence) ==
    IF sentence \in DOMAIN Altered THEN Altered[sentence] ELSE sentence

\* Where a sentence is: where the text has it next, and at the cursor if it has
\* not, its length from there.
Located(text, sentence, cursor, end) ==
    LET found == {k \in cursor .. end - Len(sentence) :
                     Cut(text, k, k + Len(sentence)) = sentence}
        at == IF found = {} THEN cursor ELSE Min(found)
    IN [text |-> sentence, start |-> at, end |-> at + Len(sentence)]

\* Each sentence is looked for from where the one before ends.
Placed(text, sentences, start, end) ==
    LET piece[n \in 0 .. Len(sentences)] ==
            IF n = 0 THEN Piece(text, start, start)
            ELSE Located(text, Returned(sentences[n]), piece[n - 1].end, end)
    IN [n \in DOMAIN sentences |-> piece[n]]

\* _split_sentences_with_offsets
Sentences(text, start, end) ==
    Placed(text, Segmented(text, start, end), start, end)

Tokens(piece) == CountTokens(piece.text)

\* The sum that a chunk is packed by.
TokensOf(pieces) ==
    LET sum[i \in 0 .. Len(pieces)] ==
        IF i = 0 THEN 0 ELSE sum[i - 1] + Tokens(pieces[i])
    IN sum[Len(pieces)]

Together(pieces, separator) ==
    FlattenSeq([i \in DOMAIN pieces |->
                   IF i = 1 THEN pieces[i].text ELSE separator \o pieces[i].text])

\* _seg_tokens
SegTokens(segment) == CountTokens(Together(segment, <<" ">>))

\* _span_from_paragraphs and _span_from_sentences, and the pieces it is made of.
Span(pieces, separator) ==
    [start |-> Head(pieces).start, end |-> Last(pieces).end,
     text |-> Together(pieces, separator), pieces |-> pieces]

-----------------------------------------------------------------------------
(* FixedTokenChunker.                                                      *)

\* A variant: the piece that exceeds the overlap is carried as well.
CarriedOver(pieces, overlap) ==
    LET tail(i) == SubSeq(pieces, i, Len(pieces))
        fits == {i \in 1 .. Len(pieces) + 1 : TokensOf(tail(i)) <= overlap}
    IN tail(Max({1, Min(fits) - 1}))

\* The longest tail of the pieces within the overlap.
Carried(pieces, overlap) ==
    LET tail(i) == SubSeq(pieces, i, Len(pieces))
        fits == {i \in 1 .. Len(pieces) + 1 : TokensOf(tail(i)) <= overlap}
    IN tail(Min(fits))

\* Pieces are packed in order; when the next would overflow, the chunk is
\* flushed and its tail carried over.  open is the chunk being filled.
Pack(c, separator, packed, piece) ==
    IF /\ TokensOf(packed.open) + Tokens(piece) > c.max
       /\ packed.open # <<>>
    THEN [done |-> Append(packed.done, Span(packed.open, separator)),
          open |-> Append(Carried(packed.open, c.overlap), piece)]
    ELSE [packed EXCEPT !.open = Append(packed.open, piece)]

Empty == [done |-> <<>>, open |-> <<>>]

Flushed(separator, packed) ==
    IF packed.open = <<>> THEN packed.done
    ELSE Append(packed.done, Span(packed.open, separator))

\* The pieces packed, one after the other.
Packed(c, separator, pieces) ==
    LET packed[i \in 0 .. Len(pieces)] ==
        IF i = 0 THEN Empty
        ELSE Pack(c, separator, packed[i - 1], pieces[i])
    IN Flushed(separator, packed[Len(pieces)])

\* _split_long_paragraph
SplitLong(text, c, paragraph) ==
    Packed(c, <<" ">>, Sentences(text, paragraph.start, paragraph.end))

\* A variant: what is open is not flushed before a long paragraph.
PackParagraphAlone(text, c, packed, paragraph) ==
    IF Tokens(paragraph) > c.max
    THEN [done |-> packed.done \o SplitLong(text, c, paragraph), open |-> <<>>]
    ELSE Pack(c, BlankLine, packed, paragraph)

\* One round of FixedTokenChunker.chunk: a paragraph that is too long flushes
\* what is open and is split by sentences.
PackParagraph(text, c, packed, paragraph) ==
    IF Tokens(paragraph) > c.max
    THEN [done |-> Flushed(BlankLine, packed)
                       \o SplitLong(text, c, paragraph),
          open |-> <<>>]
    ELSE Pack(c, BlankLine, packed, paragraph)

FixedChunks(text, c) ==
    LET ps == Paragraphs(text)
        packed[i \in 0 .. Len(ps)] ==
            IF i = 0 THEN Empty
            ELSE PackParagraph(text, c, packed[i - 1], ps[i])
    IN IF ps = <<>> THEN <<>>
       ELSE IF CountTokens(text) <= c.max THEN <<Span(ps, BlankLine)>>
       ELSE Flushed(BlankLine, packed[Len(ps)])

-----------------------------------------------------------------------------
(* SemanticChunker.                                                        *)

\* _segment_with_adaptive_overlap: cuts are after the sentences in cuts; a cut
\* that is not decisive repeats the sentence before it.
Segments(sentences, cuts, decisive) ==
    LET starts == {1} \cup {i + 1 : i \in cuts}
        end(s) == Min({i \in cuts : i >= s} \cup {Len(sentences)})
        from(s) == IF s - 1 \in cuts \ decisive THEN s - 1 ELSE s
        order == Sorted(starts)
    IN [n \in DOMAIN order |->
            SubSeq(sentences, from(order[n]), end(order[n]))]

\* _merge_undersized: into the segment before; the first into the second.
Merged(c, segments) ==
    LET small(s) == SegTokens(s) < c.min
        merged[i \in 0 .. Len(segments)] ==
            IF i = 0 THEN <<>>
            ELSE IF merged[i - 1] # <<>> /\ small(segments[i])
            THEN Append(Front(merged[i - 1]), Last(merged[i - 1]) \o segments[i])
            ELSE Append(merged[i - 1], segments[i])
        backwards == merged[Len(segments)]
    IN IF Len(backwards) >= 2 /\ small(backwards[1])
       THEN <<backwards[1] \o backwards[2]>> \o SubSeq(backwards, 3, Len(backwards))
       ELSE backwards

\* _split_oversized: packed again, without overlap: no piece is without a token.
SplitSegment(c, segment) ==
    IF SegTokens(segment) <= c.max THEN <<Span(segment, <<" ">>)>>
    ELSE Packed([c EXCEPT !.overlap = 0], <<" ">>, segment)

\* SemanticChunker.chunk, where the similarities put the cuts.
SemanticChunks(text, c, cuts, decisive) ==
    LET ss == Sentences(text, 0, Len(text))
        segments == Merged(c, Segments(ss, cuts, decisive))
    IN IF ss = <<>> THEN <<>>
       ELSE IF Len(ss) <= 2 THEN <<Span(ss, <<" ">>)>>
       ELSE FlattenSeq([n \in DOMAIN segments |->
                            SplitSegment(c, segments[n])])

-----------------------------------------------------------------------------
(* The entry is chunked (_process_text).                                   *)

\* The percentiles put a cut at the lowest similarity at least, and make it
\* decisive.
Chunked ==
    /\ entry.state = "stored" /\ chunks = <<>> /\ ~IsBlank(entry.final)
    /\ \/ /\ chunker.strategy = "fixed"
          /\ chunks' = FixedChunks(entry.final, chunker)
       \/ /\ chunker.strategy = "semantic"
          /\ LET n == Len(Sentences(entry.final, 0, Len(entry.final))) IN
             IF n <= 2
             THEN chunks' = SemanticChunks(entry.final, chunker, {}, {})
             ELSE \E cuts \in SUBSET (1 .. n - 1) :
                    \E decisive \in SUBSET cuts :
                        /\ decisive # {}
                        /\ chunks' = SemanticChunks(entry.final, chunker,
                                                    cuts, decisive)
    /\ UNCHANGED readingVars

ChunkingInit == chunks = <<>>

-----------------------------------------------------------------------------
(* Properties.                                                             *)

Inside(chunk) == chunk.start .. chunk.end - 1

\* The words of a text between two offsets.
WordsWithin(text, start, end) ==
    {WordAt(text, w) : w \in {v \in ToSet(Words(text)) :
                                start <= v[1] /\ v[2] <= end}}

\* pysbd returns every part of the text as it is.
Unaltered(text) ==
    \A i, j \in 0 .. Len(text) : Cut(text, i, j) \notin DOMAIN Altered

\* Wherever the cuts fall and whatever is merged, split and carried over: every
\* letter of the text lies in the range of a chunk, a range starts and ends at
\* a letter, no range starts before the one before it, and a chunk holds the
\* words of its range and no others, so that a highlight shows what matched
\* (ChunkSpan.char_start, char_end).  It is meant of a text whose sentences
\* pysbd returns as they are: one that it changed is not located, and its range
\* and those of the sentences after it are a guess.
NothingLost ==
    chunks # <<>> /\ Unaltered(entry.final) =>
        /\ Letters(entry.final) \subseteq
               UNION {Inside(chunks[n]) : n \in DOMAIN chunks}
        /\ \A n \in DOMAIN chunks :
            /\ {chunks[n].start, chunks[n].end - 1} \subseteq Letters(entry.final)
            /\ n > 1 => chunks[n - 1].start <= chunks[n].start
            /\ ToSet(WordsOf(chunks[n].text)) =
                   WordsWithin(entry.final, chunks[n].start, chunks[n].end)

\* The sentences that cannot be cut any further: those of the whole text, and
\* those of its paragraphs.
Unsplit(text) ==
    IF chunker.strategy = "semantic" THEN ToSet(Sentences(text, 0, Len(text)))
    ELSE UNION {ToSet(Sentences(text, p.start, p.end)) : p \in ToSet(Paragraphs(text))}

\* The budget as the chunkers keep it (chunking_max_tokens,
\* chunking_overlap_tokens): a text, or a segment, of several pieces is left
\* whole when it is within the budget, and else the pieces of a chunk add up to
\* the budget at most, or the longest sentence if that is longer, and the
\* overlap: what is carried over is bounded however many pieces are short.  Only
\* a text of two sentences is not cut.  The separators between the pieces are
\* not counted, and what a tokeniser makes of the joined text is not measured.
BudgetKept ==
    LET longest == Max({chunker.max} \cup {Tokens(s) : s \in Unsplit(entry.final)})
        extra == IF chunker.strategy = "fixed" THEN chunker.overlap ELSE 0
    IN \A n \in DOMAIN chunks :
          \/ TokensOf(chunks[n].pieces) <= longest + extra
          \/ /\ chunker.strategy = "fixed" /\ Len(chunks) = 1
             /\ CountTokens(entry.final) <= chunker.max
          \/ /\ chunker.strategy = "semantic"
             /\ \/ CountTokens(chunks[n].text) <= chunker.max
                \/ Len(Sentences(entry.final, 0, Len(entry.final))) <= 2
=============================================================================
