----------------------------- MODULE MCEntities -----------------------------
(***************************************************************************)
(* Instances of Entities for TLC: names, similarities and answers.         *)
(***************************************************************************)
EXTENDS Entities

\* Two entries of one user, or one of each of two.
OneOwner == <<1, 1>>
TwoOwners == <<1, 2>>
One == {1}
Both == {1, 2}

\* "ann" and "Ann" are one name in two spellings; "me" is the author.
Names == {"ann", "Ann", "bob", "me"}
Folding == [n \in Names |-> IF n = "Ann" THEN "ann" ELSE n]
Same == {<<n, n>> : n \in Names} \cup {<<"ann", "Ann">>, <<"Ann", "ann">>}
Near == {<<"ann", "bob">>, <<"bob", "ann">>}

\* Two names in one spelling each.
Names2 == {"ann", "bob"}
Folding2 == [n \in Names2 |-> n]
Same2 == {<<n, n>> : n \in Names2}

\* A name whose first letter is not in ASCII, in two spellings that only Python
\* takes for one; and another name.
Accented == {"elodie", "Elodie", "bob"}
Folding3 == [n \in Accented |-> IF n = "Elodie" THEN "elodie" ELSE n]
Lowering3 == [n \in Accented |-> n]
Same3 == {<<n, n>> : n \in Accented}
NoPairs == {}

Of(n) == [name |-> n, aliases |-> {}]
Alias(n, f) == [name |-> n, aliases |-> {f}]
Says(people, edges) == [people |-> people, edges |-> edges]

\* The author alone; one person in another spelling, and what the author did
\* with her; two people, related.
Stories == {Says(<<Of("me")>>, <<>>),
            Says(<<Of("Ann")>>, <<<<"me", "ann">>>>),
            Says(<<Of("bob"), Of("ann")>>, <<<<"bob", "ann">>>>)}

\* The author, a person who also goes by the author's name, and both.
Meetings == {Says(<<Of("bob")>>, <<>>),
             Says(<<Alias("ann", "bob")>>, <<>>),
             Says(<<Of("ann"), Of("bob")>>, <<<<"ann", "bob">>>>)}

\* Somebody under another's alias, and the same name with a capital.
Spellings == {Says(<<Alias("elodie", "bob")>>, <<>>),
              Says(<<Of("Elodie"), Of("bob")>>, <<<<"elodie", "bob">>>>)}

JobsAndDeletes == {"one", "delete", "drop"}
MergesAndRenames == {"stale", "merge", "rename"}
EverySource == {"edit", "all", "tool", "resolve"}
=============================================================================
