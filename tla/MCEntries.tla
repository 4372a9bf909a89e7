------------------------------ MODULE MCEntries ------------------------------
(***************************************************************************)
(* Instances of Entries for TLC: the constants of each configuration.      *)
(***************************************************************************)
EXTENDS Entries

CONSTANTS f, g

\* Texts that grow and shrink: a re-embedding may have more chunks than the
\* last one, or fewer.
Sizes == <<1, 2, 1>>
Sizes2 == <<1, 2>>

\* Not the user that calls without a user_id are taken to be for.
Two == {2}

OneFile == {<<f>>}
TwoFiles == {<<f>>, <<g>>, <<f, g>>}

Jobs == {"upload", "edit", "delete", "extract_stale"}
EventLoop == {"text", "media", "edit", "delete", "tool", "extract", "backfill"}
TypeAndEdit == {"text", "edit"}
=============================================================================
