------------------------------ MODULE Reading ------------------------------
(***************************************************************************)
(* From images and recordings to the text of an entry: what the models of  *)
(* providers/ocr.py and providers/transcription.py answer, the wrappers    *)
(* around them, and how services/ingestion.py joins the parts of an entry. *)
(* The letters a model is not sure of must stay marked all the way.        *)
(*                                                                         *)
(* A text is a sequence of characters.  Offsets count from 0, as in the    *)
(* code: offset k is element k + 1.  A list of half-open spans is the set  *)
(* of offsets it covers, so that sorting and merging spans is a union.     *)
(***************************************************************************)
EXTENDS Integers, SequencesExt

CONSTANTS
    Uploads,       \* [kind, wanted, reader, backup, shadow, replies, chunking]:
                   \* what is uploaded, of how many parts, and who reads it
    Replies,       \* what the models may answer, for each replies: a text with
                   \* marks, or a take [text, tokens, phrases]
    MaxAttempts,   \* transcription_retry_max_attempts
    Window         \* _DETECTION_WINDOW_CHARS

Blank == {" ", "/"}          \* "/" is a line break
Marks == {"<", ">"}          \* UNCERTAIN_OPEN and UNCERTAIN_CLOSE
Break == <<"/">>             \* between pages
BlankLine == <<"/", "/">>    \* between recordings, and between paragraphs

\* A prover does not see that a literal is a STRING: the blanks are named.
Character == STRING \cup Blank
AnyText == Seq(Character)

ASSUME ReadingAssumption ==
    /\ Uploads \subseteq
           [kind : {"image", "voice", "text"}, wanted : Nat \ {0},
            reader : {"anthropic", "gemini", "dual", "other"},
            backup : BOOLEAN, shadow : BOOLEAN, replies : DOMAIN Replies,
            chunking : STRING]
    /\ \A u \in Uploads : Replies[u.replies] \subseteq
           IF u.kind = "image" THEN AnyText
           ELSE [text : AnyText, tokens : Seq([size : Nat, low : BOOLEAN]),
                 phrases : SUBSET AnyText]
    /\ MaxAttempts \in Nat \ {0} /\ Window \in Nat

VARIABLES
    request,   \* the upload that is read
    call,      \* the call in progress: [tries, main, shadow]
    said,      \* what the models answered, for each part
    parts,     \* what the providers returned for it: [text, doubts]
    entry      \* the stored entry

readingVars == <<request, call, said, parts, entry>>

-----------------------------------------------------------------------------
(* Texts.                                                                  *)

Offsets(text) == 0 .. Len(text) - 1
Letters(text) == {k \in Offsets(text) : text[k + 1] \notin Blank}
IsBlank(text) == Letters(text) = {}
Sure(text) == [text |-> text, doubts |-> {}]

\* A set of numbers as a sequence, in ascending order.
Sorted(S) ==
    [i \in 1 .. Cardinality(S) |->
        CHOOSE x \in S : Cardinality({y \in S : y < x}) = i - 1]

\* The elements of a sequence at the positions of I, in order.
Elements(s, I) ==
    LET is == Sorted(I) IN [n \in DOMAIN is |-> s[is[n]]]

\* The offsets from the first letter of K to the last.
Trimmed(text, K) ==
    LET ls == K \cap Letters(text) IN
    {k \in K : \E l, m \in ls : l <= k /\ k <= m}

Stripped(text) ==
    LET kept == Trimmed(text, Offsets(text)) IN
    IF kept = {} THEN <<>> ELSE SubSeq(text, Min(kept) + 1, Max(kept) + 1)

\* How many blanks lstrip removes.
Leading(text) ==
    IF IsBlank(text) THEN Len(text) ELSE Min(Letters(text))

\* The word around the letter at offset k.
Around(text, k) ==
    {j \in Letters(text) : \A m \in Offsets(text) :
        (j <= m /\ m <= k) \/ (k <= m /\ m <= j) => m \in Letters(text)}

\* Words as <<start, end>>, in order: _tokenize_with_positions.
Words(text) ==
    LET ls == Letters(text)
        ks == Sorted({k \in ls : k - 1 \notin ls})
        end(k) == Min({m \in k + 1 .. Len(text) : m \notin ls})
    IN [n \in DOMAIN ks |-> <<ks[n], end(ks[n])>>]

Cut(text, start, end) == SubSeq(text, start + 1, end)
WordAt(text, w) == Cut(text, w[1], w[2])
WordsOf(text) ==
    LET ws == Words(text) IN [i \in DOMAIN ws |-> WordAt(text, ws[i])]

-----------------------------------------------------------------------------
(* Images: providers/ocr.py.                                               *)

Unmarked(raw) == {k \in DOMAIN raw : raw[k] \notin Marks}
Clean(raw) == Elements(raw, Unmarked(raw))

\* How much of the clean text precedes element k + 1 of the answer.
Kept(raw, k) == Cardinality(Unmarked(raw) \cap 1 .. k)

\* How many marks are open after k elements; a close without an open is
\* dropped.
Depths(raw) ==
    LET depth[k \in 0 .. Len(raw)] ==
        IF k = 0 THEN 0
        ELSE IF raw[k] = "<" THEN depth[k - 1] + 1
        ELSE IF raw[k] = ">" /\ depth[k - 1] > 0 THEN depth[k - 1] - 1
        ELSE depth[k - 1]
    IN depth

\* Outermost marks that are closed, as the elements that hold them.
Pairs(raw) ==
    LET depth == Depths(raw) IN
    {p \in (DOMAIN raw) \X (DOMAIN raw) :
        /\ p[1] < p[2] /\ depth[p[1] - 1] = 0 /\ depth[p[2]] = 0
        /\ \A k \in p[1] .. p[2] - 1 : depth[k] > 0}

MarkedOffsets(raw) ==
    UNION {Trimmed(Clean(raw), Kept(raw, p[1]) .. Kept(raw, p[2]) - 1) :
           p \in Pairs(raw)}

\* A single line break becomes a blank; the length stays.
Reflowed(text) ==
    LET alone(i) ==
        /\ text[i] = "/"
        /\ \A j \in {i - 1, i + 1} \cap DOMAIN text : text[j] # "/"
    IN [i \in DOMAIN text |-> IF alone(i) THEN " " ELSE text[i]]

\* What the provider returns for the model's answer.
PageResult(provider, raw) ==
    [text |-> IF provider = "gemini" THEN Reflowed(Clean(raw)) ELSE Clean(raw),
     doubts |-> MarkedOffsets(raw)]

\* difflib.SequenceMatcher: the longest run of equal words, the first of those,
\* and the same before and after it; as pairs of words.  A window <<a, b, c, d>>
\* is words a + 1 .. b of p and c + 1 .. d of s.
Alignment(p, s) ==
    LET runs(w) ==
            {r \in (w[1] .. w[2]) \X (w[3] .. w[4]) \X (1 .. Len(p)) :
                /\ r[1] + r[3] <= w[2] /\ r[2] + r[3] <= w[4]
                /\ \A k \in 1 .. r[3] : p[r[1] + k] = s[r[2] + k]}
        best(R) == CHOOSE r \in R : \A q \in R :
            \/ r[3] > q[3]
            \/ r[3] = q[3] /\ r[1] < q[1]
            \/ r[3] = q[3] /\ r[1] = q[1] /\ r[2] <= q[2]
        P == 0 .. Len(p)
        S == 0 .. Len(s)
        pairs[w \in P \X P \X S \X S] ==
            IF runs(w) = {} THEN {}
            ELSE LET r == best(runs(w)) IN
                 pairs[<<w[1], r[1], w[3], r[2]>>]
                    \cup {<<r[1] + k, r[2] + k>> : k \in 1 .. r[3]}
                    \cup pairs[<<r[1] + r[3], w[2], r[2] + r[3], w[4]>>]
    IN pairs[<<0, Len(p), 0, Len(s)>>]

\* A piece of the output appended to what there is.
Extended(out, text, doubts) ==
    [text |-> out.text \o text,
     doubts |-> out.doubts \cup {Len(out.text) + k : k \in doubts}]

\* A variant: where the primary doubts and the secondary does not, the reading
\* of the secondary is taken for sure.
DisagreementSettled(out, cursor, pri, sec, i1, i2, j1, j2) ==
    LET pw == Words(pri.text)
        sw == Words(sec.text)
        mine == Cut(pri.text, cursor, pw[i2][2])
    IN IF i1 >= i2 THEN out
       ELSE IF j1 < j2
            THEN Extended(Extended(out, Cut(pri.text, cursor, pw[i1 + 1][1]), {}),
                          Cut(sec.text, sw[j1 + 1][1], sw[j2][2]), {})
       ELSE Extended(out, mine, Offsets(mine))

\* Words i1 + 1 .. i2 of the primary and j1 + 1 .. j2 of the secondary
\* disagree, and cursor is how much of the primary is consumed.
Disagreement(out, cursor, pri, sec, i1, i2, j1, j2) ==
    LET pw == Words(pri.text)
        sw == Words(sec.text)
        start == pw[i1 + 1][1]
        end == pw[i2][2]
        read == j1 < j2
        secStart == sw[j1 + 1][1]
        secEnd == sw[j2][2]
        unsure == pri.doubts \cap start .. end - 1 # {}
        secUnsure == read /\ sec.doubts \cap secStart .. secEnd - 1 # {}
        spaced == Extended(out, Cut(pri.text, cursor, start), {})
        mine == Cut(pri.text, start, end)
        theirs == Cut(sec.text, secStart, secEnd)
    IN IF i1 >= i2 THEN out
       ELSE IF unsure /\ ~secUnsure /\ read
            THEN Extended(spaced, theirs, Offsets(theirs))
       ELSE IF unsure \/ secUnsure THEN Extended(spaced, mine, Offsets(mine))
       ELSE Extended(spaced, mine, {})

\* Both read word i of the primary, as word j of the secondary.
Agreement(out, cursor, pri, sec, i, j) ==
    LET p == Words(pri.text)[i]
        s == Words(sec.text)[j]
        carried == {k - cursor : k \in pri.doubts \cap cursor .. p[2] - 1}
        whole == IF sec.doubts \cap s[1] .. s[2] - 1 = {} THEN {}
                 ELSE p[1] - cursor .. p[2] - 1 - cursor
    IN Extended(out, Cut(pri.text, cursor, p[2]), carried \cup whole)

\* reconcile_ocr_results
Reconciled(pri, sec) ==
    LET pw == Words(pri.text)
        sw == Words(sec.text)
        both == Alignment(WordsOf(pri.text), WordsOf(sec.text))
        is == Sorted({m[1] : m \in both})
        ms == [n \in DOMAIN is |-> CHOOSE m \in both : m[1] = is[n]]
        at(n) == IF n = 0 THEN <<0, 0>> ELSE ms[n]
        consumed(i) == IF i = 0 THEN 0 ELSE pw[i][2]
        gap(out, i1, i2, j1, j2) ==
            Disagreement(out, consumed(i1), pri, sec, i1, i2, j1, j2)
        upTo[n \in 0 .. Len(ms)] ==
            IF n = 0 THEN Sure(<<>>)
            ELSE LET m == ms[n]
                     before == at(n - 1)
                     out == gap(upTo[n - 1], before[1], m[1] - 1,
                                before[2], m[2] - 1)
                 IN Agreement(out, consumed(m[1] - 1), pri, sec, m[1], m[2])
        last == at(Len(ms))
        body == gap(upTo[Len(ms)], last[1], Len(pw), last[2], Len(sw))
    IN IF pw = <<>> THEN pri
       ELSE Extended(body, Cut(pri.text, consumed(Len(pw)), Len(pri.text)), {})

-----------------------------------------------------------------------------
(* Recordings: providers/transcription.py.                                 *)

\* The end of each token; those past the end of the text are not read.
TokenEnds(tokens) ==
    LET end[k \in 0 .. Len(tokens)] ==
        IF k = 0 THEN 0 ELSE end[k - 1] + tokens[k].size
    IN end

\* _logprobs_to_uncertain_spans: the letters of tokens below the threshold,
\* and the words around them.
LowOffsets(text, tokens) ==
    LET end == TokenEnds(tokens)
        low == {k \in DOMAIN tokens : tokens[k].low /\ end[k] <= Len(text)}
        heard == UNION {Trimmed(text, end[k - 1] .. end[k] - 1) : k \in low}
    IN heard \cup UNION {Around(text, k) : k \in heard \cap Letters(text)}

\* _phrases_to_uncertain_spans: the first occurrence of each phrase.
PhraseOffsets(text, phrases) ==
    LET found(p) == {k \in 0 .. Len(text) - Len(p) :
                        Cut(text, k, k + Len(p)) = p}
    IN UNION {Min(found(p)) .. Min(found(p)) + Len(p) - 1 :
              p \in {q \in phrases : q # <<>> /\ found(q) # {}}}

\* OpenAITranscribeProvider or GeminiTranscribeProvider, for what the model
\* answers: one reports tokens, the other phrases.
TakeResult(take) ==
    [text |-> take.text,
     doubts |-> LowOffsets(take.text, take.tokens)
                    \cup PhraseOffsets(take.text, take.phrases)]

Idle == [tries |-> 0, main |-> "idle", shadow |-> "off", heard |-> <<>>]

-----------------------------------------------------------------------------
(* Entries: services/ingestion.py.                                         *)

\* A variant: the blanks that are stripped are not counted.
ShiftedByBase(part, base) == {base + k : k \in part.doubts}

\* _strip_and_shift_page_spans
Shifted(part, base) ==
    LET lead == Leading(part.text)
        size == Len(Stripped(part.text))
    IN {base + k - lead : k \in part.doubts \cap lead .. lead + size - 1}

\* The parts of an entry, stripped and joined; a single part is left alone.
Joined(ps, separator) ==
    LET join[i \in 0 .. Len(ps)] ==
        IF i = 0 THEN Sure(<<>>)
        ELSE LET gap == IF i = 1 THEN <<>> ELSE separator
                 before == join[i - 1].text \o gap
             IN [text |-> before \o Stripped(ps[i].text),
                 doubts |-> join[i - 1].doubts \cup Shifted(ps[i], Len(before))]
    IN IF Len(ps) = 1 THEN ps[1] ELSE join[Len(ps)]

\* The body below a heading of n characters; n = 0 if there is none, or if
\* what the model reports is not how the text begins.
Unheaded(text, n) ==
    LET begun == Cut(text, Leading(text), Len(text))
        rest == Cut(begun, n, Len(begun))
    IN IF n = 0 THEN text ELSE Cut(rest, Leading(rest), Len(rest))

\* AnthropicFormatter: the answer, unless it changes the words.
Formatted(text, answer) ==
    IF WordsOf(answer) = WordsOf(text) THEN answer ELSE text

\* What the formatting model may answer: paragraphs, or a shorter text.
Reformattings(text) ==
    {FlattenSeq([i \in DOMAIN text |->
                    IF text[i] = " " THEN BlankLine ELSE <<text[i]>>]),
     SubSeq(text, 1, Len(text) - 1)}

NoEntry == [state |-> "reading", text |-> <<>>, doubts |-> {}, final |-> <<>>]
Failed == [NoEntry EXCEPT !.state = "failed"]

\* create_entry and add_uncertain_spans
Stored(text, doubts, final) ==
    [state |-> "stored", text |-> text, doubts |-> doubts, final |-> final]

Reading == entry.state = "reading"
Answerable == Replies[request.replies]
Missing == Reading /\ Len(parts) < request.wanted

\* A part is read: text that is blank fails the whole upload.
Accepted(result) ==
    \/ IsBlank(result.text) /\ entry' = Failed /\ UNCHANGED parts
    \/ ~IsBlank(result.text) /\ parts' = Append(parts, result) /\ UNCHANGED entry

\* The image provider reads the next page; two of them are reconciled.
PageRead ==
    /\ Missing /\ request.kind = "image"
    /\ \E raw \in Answerable :
        \/ /\ request.reader # "dual"
           /\ said' = Append(said, <<raw>>)
           /\ \E result \in {PageResult(request.reader, raw)} : Accepted(result)
        \/ /\ request.reader = "dual"
           /\ \E other \in Answerable :
                /\ said' = Append(said, <<raw, other>>)
                /\ \E result \in {Reconciled(PageResult("anthropic", raw),
                                             PageResult("gemini", other))} :
                        Accepted(result)
    /\ UNCHANGED <<request, call>>

\* A provider raises; dual pass takes the exception of either.
PageFails ==
    /\ Missing /\ request.kind = "image"
    /\ entry' = Failed
    /\ UNCHANGED <<request, call, said, parts>>

\* The next recording is sent to the providers, to both in parallel if there
\* is a shadow.
CallStarts ==
    /\ Missing /\ request.kind = "voice" /\ call = Idle
    /\ call' = [Idle EXCEPT !.main = "primary",
                    !.shadow = IF request.shadow THEN "asking" ELSE "off"]
    /\ UNCHANGED <<request, said, parts, entry>>

Answers(who) ==
    /\ Reading /\ call.main = who
    /\ \E take \in Answerable :
        call' = [call EXCEPT !.main = "answered", !.heard = <<take>>]
    /\ UNCHANGED <<request, said, parts, entry>>

\* One more attempt, or the fallback when there have been enough.
Retried(c) ==
    IF c.tries + 1 < MaxAttempts
    THEN [c EXCEPT !.tries = c.tries + 1]
    ELSE [c EXCEPT !.tries = c.tries + 1, !.main = "backup"]

\* RetryingTranscriptionProvider: only a transient error is retried, and only
\* where a fallback is configured is there a wrapper at all.
PrimaryFails ==
    /\ Reading /\ call.main = "primary"
    /\ \/ request.backup /\ call' = Retried(call)
       \/ call' = [call EXCEPT !.main = "raised"]
    /\ UNCHANGED <<request, said, parts, entry>>

\* A variant: when the fallback fails, the primary is tried again.
BackupFailsOver ==
    /\ Reading /\ call.main = "backup"
    /\ call' = [call EXCEPT !.main = "primary", !.tries = 0]
    /\ UNCHANGED <<request, said, parts, entry>>

BackupFails ==
    /\ Reading /\ call.main = "backup"
    /\ call' = [call EXCEPT !.main = "raised"]
    /\ UNCHANGED <<request, said, parts, entry>>

\* The shadow answers or raises; either is only logged.
ShadowEnds ==
    /\ Reading /\ call.shadow = "asking"
    /\ call' = [call EXCEPT !.shadow = "ended"]
    /\ UNCHANGED <<request, said, parts, entry>>

\* The pool has waited for both; the result, or the exception, is the
\* primary's.
CallEnds ==
    /\ Reading /\ call.main \in {"answered", "raised"}
    /\ call.shadow # "asking"
    /\ call' = Idle
    /\ \/ /\ call.main = "answered"
          /\ said' = Append(said, call.heard)
          /\ \E result \in {TakeResult(call.heard[1])} : Accepted(result)
       \/ /\ call.main = "raised" /\ entry' = Failed
          /\ UNCHANGED <<said, parts>>
    /\ UNCHANGED request

\* All parts are read: they are joined, a heading is lifted off, a transcript
\* is formatted, and the entry is created.
EntryStored ==
    /\ Reading /\ request.kind # "text" /\ Len(parts) = request.wanted
    /\ \E whole \in {Joined(parts, IF request.kind = "image" THEN Break
                                    ELSE BlankLine)} :
       \E n \in 0 .. Min({Window, Len(whole.text) - Leading(whole.text)}) :
       \E body \in {Unheaded(whole.text, n)} :
            \/ entry' = Stored(whole.text, whole.doubts, body)
            \/ /\ request.kind = "voice" /\ body # <<>>
               /\ \E answer \in Reformattings(body) :
                    entry' = Stored(whole.text, whole.doubts,
                                    Formatted(body, answer))
    /\ UNCHANGED <<request, call, said, parts>>

\* ingest_text: text that is typed is stripped, and stored as it is.
TextStored ==
    /\ Reading /\ request.kind = "text"
    /\ \E take \in Answerable :
        entry' = IF IsBlank(take.text) THEN Failed
                 ELSE Stored(Stripped(take.text), {}, Stripped(take.text))
    /\ UNCHANGED <<request, call, said, parts>>

ReadingInit ==
    /\ request \in Uploads
    /\ call = Idle /\ said = <<>> /\ parts = <<>> /\ entry = NoEntry

ProviderStep ==
    \/ PageFails \/ PageRead
    \/ CallStarts \/ Answers("primary") \/ Answers("backup")
    \/ PrimaryFails \/ BackupFails \/ ShadowEnds \/ CallEnds

ReadingStep == ProviderStep \/ EntryStored \/ TextStored

-----------------------------------------------------------------------------
(* Properties.                                                             *)

ReadingType ==
    /\ request \in Uploads
    /\ call.tries \in 0 .. MaxAttempts
    /\ call.main \in {"idle", "primary", "backup", "answered", "raised"}
    /\ call.shadow \in {"off", "asking", "ended"}
    /\ Len(parts) <= Len(said) /\ Len(said) <= request.wanted
    /\ entry.state \in {"reading", "stored", "failed"}
    /\ entry.doubts \subseteq Offsets(entry.text)

\* The letters of a text, each with whether it is doubted.
Flagged(text, doubts) ==
    LET ks == Sorted(Letters(text)) IN
    [i \in DOMAIN ks |-> <<text[ks[i] + 1], ks[i] \in doubts>>]

\* A letter of an image model's answer is meant to be doubted if it stands
\* between an open mark and its close, and no open mark before it is left open.
Opened(raw, i, k) == Cardinality({m \in i .. k : raw[m] = "<"})
Closed(raw, i, k) == Cardinality({m \in i .. k : raw[m] = ">"})
Matched(raw, i, j) ==
    /\ raw[i] = "<" /\ raw[j] = ">" /\ Opened(raw, i, j) = Closed(raw, i, j)
    /\ \A m \in i .. j - 1 : Opened(raw, i, m) > Closed(raw, i, m)
MeantAt(raw, k) ==
    \E i \in 1 .. k, j \in k .. Len(raw) :
        /\ Matched(raw, i, j)
        /\ \A h \in 1 .. i - 1 :
            raw[h] = "<" => \E l \in h .. Len(raw) : Matched(raw, h, l)
MeantOnPage(raw) ==
    LET ks == Sorted({k \in DOMAIN raw : raw[k] \notin Blank \cup Marks})
    IN [i \in DOMAIN ks |-> <<raw[ks[i]], MeantAt(raw, ks[i])>>]

\* What was meant with part i.  How two answers about a page are reconciled is
\* the subject of DisputesMarked.
Meant(i) ==
    IF request.kind = "image" /\ request.reader # "dual"
    THEN MeantOnPage(said[i][1])
    ELSE Flagged(parts[i].text, parts[i].doubts)

\* However the parts of an entry were padded, marked, retried and joined, the
\* letters of its raw text are those the models answered, in order, and the
\* ones marked as doubtful are the ones the models doubted: no span of a page
\* points into another, or past a letter (ingestion.py, parse_uncertain_markers,
\* _strip_and_shift_page_spans).  The text that is shown and searched is the end
\* of it, letter for letter: only a heading is taken away (format_paragraphs,
\* AnthropicHeadingDetector.detect).
DoubtsTravel ==
    entry.state = "stored" =>
        /\ request.kind # "text" =>
            Flagged(entry.text, entry.doubts) =
                FlattenSeq([i \in DOMAIN said |-> Meant(i)])
        /\ IsSuffix(Flagged(entry.final, {}), Flagged(entry.text, {}))

\* The words of a text no letter of which is doubted.
SureWords(text, doubts) ==
    LET ws == Words(text) IN
    Elements(WordsOf(text),
             {n \in DOMAIN ws : doubts \cap ws[n][1] .. ws[n][2] - 1 = {}})

\* Two readings of a page are reconciled so that a word without a doubt is one
\* the primary read and did not doubt; where nobody doubted, the text is the
\* primary's; and a word both read the same is doubted if either doubted it
\* (reconcile_ocr_results: "only regions where at least one model is uncertain
\* become doubts").
DisputesMarked ==
    request.kind = "image" /\ request.reader = "dual" => \A i \in DOMAIN parts :
        LET pri == PageResult("anthropic", said[i][1])
            sec == PageResult("gemini", said[i][2])
            out == parts[i]
        IN /\ \E S \in SUBSET DOMAIN SureWords(pri.text, pri.doubts) :
                SureWords(out.text, out.doubts) =
                    Elements(SureWords(pri.text, pri.doubts), S)
           /\ pri.doubts \cup sec.doubts = {} => out = Sure(pri.text)
           /\ WordsOf(pri.text) = WordsOf(sec.text) =>
                /\ out.text = pri.text
                /\ \A n \in DOMAIN Words(pri.text) :
                    LET p == Words(pri.text)[n]
                        s == Words(sec.text)[n]
                    IN (out.doubts \cap p[1] .. p[2] - 1 # {}) <=>
                        \/ pri.doubts \cap p[1] .. p[2] - 1 # {}
                        \/ sec.doubts \cap s[1] .. s[2] - 1 # {}

\* Every upload is stored or fails: a call that keeps failing is not retried
\* for ever, and a shadow does not hold up the answer for good.
ReadingEnds == <>(entry.state # "reading")
=============================================================================
