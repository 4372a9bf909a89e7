------------------------------- MODULE Texts -------------------------------
(***************************************************************************)
(* The way of a text through the system: an upload is read, joined and     *)
(* stored (Reading), cut into chunks (Chunking), and found by searches     *)
(* that run all the while (Search).                                        *)
(***************************************************************************)
EXTENDS Chunking, Search

CONSTANTS
    New,     \* the entry that the upload becomes, under a number not used before
    Loads    \* bounds: [upload, search], one of them

ASSUME TextsAssumption ==
    /\ New \in Entry
    /\ \A l \in Loads : /\ l.upload \in Uploads /\ l.search \in SearchLoads
                         /\ New \notin l.search.entries

vars == <<readingVars, chunks, searchVars>>

Init ==
    /\ ReadingInit /\ ChunkingInit /\ SearchInit
    /\ \E l \in Loads : request = l.upload /\ load = l.search

\* A stored entry has a row from then on, and no vectors yet.
Read ==
    /\ ReadingStep
    /\ rows' = IF entry'.state = "stored" THEN [rows EXCEPT ![New] = 1] ELSE rows
    /\ UNCHANGED <<chunks, vectors, cached, recency, run, answer, clock, since,
                   load>>

\* Its chunks are embedded and stored, if the entry has not been deleted.
Embed ==
    /\ rows[New] # Gone /\ Chunked
    /\ vectors' = [vectors EXCEPT ![New] =
                      [owner |-> Owner[New], date |-> rows[New]]]
    /\ UNCHANGED <<rows, cached, recency, run, answer, clock, since, load>>

Look == SearchStep /\ UNCHANGED <<readingVars, chunks>>

Change == WorldStep /\ UNCHANGED <<readingVars, chunks>>

Next == Read \/ Embed \/ Look \/ Change

\* A provider's client gives up on a call in the end, and the worker goes on.
Spec == Init /\ [][Next]_vars /\ WF_vars(Read)

-----------------------------------------------------------------------------
(* Properties.                                                             *)

\* Uploads, calls, results and the cache have their types; the cache holds no
\* more than it may, and just the keys whose use it remembers (_ResultCache).
TypeOK == ReadingType /\ SearchType
=============================================================================
