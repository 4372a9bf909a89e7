------------------------------ MODULE MCTexts ------------------------------
(***************************************************************************)
(* Instances of Texts for TLC.                                             *)
(***************************************************************************)
EXTENDS Texts

\* All texts over an alphabet, up to a length.
Strings(alphabet, n) == UNION {[1 .. m -> alphabet] : m \in 0 .. n}

\* Pages of at most two words, with any of them marked.
Word == {<<"a">>, <<"b">>, <<"<", "a", ">">>, <<"<", "b", ">">>}
Scribbles == {u \o <<" ">> \o v : u, v \in Word} \cup Word \cup {<<" ">>}

Token(size, low) == [size |-> size, low |-> low]
Take(text, tokens, phrases) ==
    [text |-> text, tokens |-> tokens, phrases |-> phrases]

\* Tokens with blanks before and inside, and one past the end; phrases that
\* occur twice, once, never, and an empty one; and a blank take.
Takes ==
    {Take(<<" ", "a", " ", "b">>,
          <<Token(1, FALSE), Token(2, TRUE), Token(1, FALSE)>>, {}),
     Take(<<"a", "b", " ", "a">>,
          <<Token(1, TRUE), Token(2, FALSE), Token(2, TRUE)>>, {}),
     Take(<<"a", " ", "b", " ", "b", "/">>, <<>>, {<<"b">>, <<"c">>, <<>>}),
     Take(<<" ">>, <<>>, {})}

\* Four words, with each of three separators after each of them; and a long
\* paragraph between short ones.
Separators == {<<" ">>, <<".", " ">>, <<"/", "/">>}
Written ==
    {FlattenSeq([i \in 1 .. 4 |-> <<<<"a", "b", "c", "d">>[i]>> \o f[i]]) :
        f \in [1 .. 4 -> Separators]}
Long == <<"a", "/", "/", "b", ".", " ", "c", " ", "d", ".", " ", "e", " ", "f",
          " ", "g", ".", "/", "/", "/", "h", " ">>

\* pysbd returns one sentence with characters that the text has not, and only
\* the end of another, which the text has once more.
Changed == (<<"e", " ", "f", ".">> :> <<"e", "x", "f", ".">>) @@
           (<<"g", " ", "h", ".">> :> <<"h", ".">>)
Odd == <<"d", ".", " ", "e", " ", "f", ".", " ", "g", " ", "h", ".", " ", "h", ".",
         "/", "/", "a">>

AllReplies ==
    [pages |-> Strings({"a", " ", "<", ">"}, 4),
     lines |-> Strings({"a", "/", "<", ">"}, 3),
     scribbles |-> Scribbles,
     takes |-> Takes,
     texts |-> {Take(t, <<>>, {}) : t \in Written \cup {Long, Odd}},
     note |-> {Take(<<"a">>, <<>>, {})}, blank |-> {Take(<<" ">>, <<>>, {})}]

\* A token is a letter, a full stop, or a run of line breaks: a text of several
\* paragraphs has more tokens than they have.
Tokenised(t) ==
    Cardinality({i \in DOMAIN t : t[i] # " " /\ ~(i > 1 /\ <<t[i - 1], t[i]>> = <<"/", "/">>)})

AllChunkers ==
    [fixed |-> [strategy |-> "fixed", max |-> 2, min |-> 0, overlap |-> 1],
     wide |-> [strategy |-> "fixed", max |-> 3, min |-> 0, overlap |-> 2],
     semantic |-> [strategy |-> "semantic", max |-> 3, min |-> 2, overlap |-> 0]]

Image(wanted, reader, replies) ==
    [kind |-> "image", wanted |-> wanted, reader |-> reader, backup |-> FALSE,
     shadow |-> FALSE, replies |-> replies, chunking |-> "fixed"]
Voice(wanted, backup, shadow) ==
    [kind |-> "voice", wanted |-> wanted, reader |-> "other", backup |-> backup,
     shadow |-> shadow, replies |-> "takes", chunking |-> "fixed"]
Text(replies, chunking) ==
    [kind |-> "text", wanted |-> 1, reader |-> "other", backup |-> FALSE,
     shadow |-> FALSE, replies |-> replies, chunking |-> chunking]

AllUploads ==
    {Image(1, "anthropic", "pages"), Image(1, "gemini", "lines"),
     Image(2, "anthropic", "lines"), Image(1, "dual", "scribbles"),
     Voice(2, TRUE, TRUE), Voice(1, FALSE, FALSE), Voice(1, TRUE, FALSE),
     Text("texts", "fixed"), Text("texts", "wide"), Text("texts", "semantic"),
     Text("note", "fixed"), Text("blank", "fixed")}

\* Three entries of user 1, the last the one that is uploaded; one of user 2.
Entries == 1 .. 4
Owners == <<1, 1, 1, 2>>
Chunks == {<<1, 0>>, <<1, 1>>, <<2, 0>>, <<3, 0>>, <<4, 0>>}
Key(user, from) == [user |-> user, query |-> "q", from |-> from]
Asked == {Key(1, 1), Key(1, 2), Key(2, 1)}

\* Nothing is searched; rankings of many entries; a cache in use.
Bound(searches, changes, ticks, entries) ==
    [searches |-> searches, changes |-> changes, ticks |-> ticks,
     entries |-> entries]
Quiet == Bound(0, 0, 0, {})
Ranked4 == Bound(1, 1, 0, {1, 2, 4})
Cached3 == Bound(3, 1, 2, {1, 4})
Bounds == {Quiet, Ranked4, Cached3}

Shares ==
    {[upload |-> u, search |-> Quiet] : u \in AllUploads} \cup
    {[upload |-> Text("note", "fixed"), search |-> Ranked4],
     [upload |-> Text("blank", "fixed"), search |-> Cached3]}
=============================================================================
