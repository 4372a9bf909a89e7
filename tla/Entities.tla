------------------------------ MODULE Entities ------------------------------
(***************************************************************************)
(* The entity graph of the journal: entities with their aliases and        *)
(* embeddings, the mentions and relationships that entries give evidence   *)
(* for, merge candidates and merge history                                 *)
(* (src/journal/entitystore/store.py), written by the extraction service   *)
(* (src/journal/services/entity_extraction.py) and edited over REST        *)
(* (src/journal/api.py).                                                   *)
(*                                                                         *)
(* The worker runs queued extractions, the event loop ("loop") the REST    *)
(* handlers and the synchronous MCP tool, all over one SQLite connection   *)
(* without a lock.  A step is one committed call of the store, or one      *)
(* statement of a merge, with the local work up to the next.  Since the    *)
(* connection is shared, any commit makes everything written so far        *)
(* durable: db is what the process sees, saved what a crash leaves.        *)
(*                                                                         *)
(* Entities are all of one type.  Descriptions, quotes and confidences are *)
(* left out, and an embedding is the name it was computed from.            *)
(***************************************************************************)
EXTENDS Integers, Sequences, FiniteSets

CONSTANTS
    Users,
    Owner,        \* the user of each entry; its domain is the entries
    Name,         \* canonical names
    Fold,         \* str.lower of each name
    Lower,        \* SQLite's LOWER of each name, which folds ASCII letters only
    AuthorName,   \* the author's display name
    Alike,        \* pairs of names whose similarity reaches the threshold
    Close,        \* pairs that only come near it
    Answers,      \* what the model may say of an entry
    Requests,     \* the operations clients ask for
    MaxEntities,  \* bound: ids of entities
    MaxRuns,      \* bound: extractions
    MaxQueue,     \* bound: queued jobs
    MaxFaults,    \* bound: provider calls that raise
    MaxCrashes    \* bound: crashes of the process

Entry == DOMAIN Owner
Folded == {Fold[n] : n \in Name}
Id == 1..MaxEntities
None == 0

Person == [name : Name, aliases : SUBSET Folded]
Answer == [people : Seq(Person), edges : Seq(Folded \X Folded)]

ASSUME OwnerAssumption == Owner \in [Entry -> Users] /\ None \notin Entry
\* The author's name as the answers spell it in relationships.
Author == Fold[AuthorName]

ASSUME NameAssumption ==
    /\ DOMAIN Fold = Name /\ DOMAIN Lower = Name /\ AuthorName \in Name
    /\ \A m, n \in Name : Lower[m] = Lower[n] => Fold[m] = Fold[n]
    /\ Alike \subseteq Name \X Name /\ Close \subseteq Name \X Name
ASSUME AnswersAssumption == Answers \subseteq Answer
ASSUME EntitiesRequests ==
    Requests \subseteq {"one", "stale", "all", "tool", "edit", "delete", "rename",
                        "drop", "merge", "resolve"}
ASSUME EntitiesBounds ==
    /\ MaxEntities \in Nat /\ MaxRuns \in Nat /\ MaxQueue \in Nat
    /\ MaxFaults \in Nat /\ MaxCrashes \in Nat

Thread == {"worker", "loop"}

\* A row of entities with its rows of entity_aliases; vec is the name its
\* embedding_json was made from, if it has one.
Entity == [user : Users, name : Name, aliases : SUBSET Folded,
           vec : {<<n>> : n \in Name} \cup {<<>>}]

Mention == [entity : Id, entry : Entry, run : 1..MaxRuns]
Edge == [subject : Id, object : Id, entry : Entry, run : 1..MaxRuns]
Candidate == [pair : SUBSET Id, run : 1..MaxRuns,
              status : {"pending", "accepted", "dismissed"}]

\* A row of entity_merge_history, with the survivor's name of the time, into,
\* which the table does not keep.
History == [survivor : Id, absorbed : Id, name : Name,
            aliases : SUBSET Folded, into : Name]

Tables(d) ==
    /\ d = [live |-> d.live, stale |-> d.stale, entities |-> d.entities,
            next |-> d.next, mentions |-> d.mentions, edges |-> d.edges,
            candidates |-> d.candidates, history |-> d.history]
    /\ d.live \subseteq Entry /\ d.stale \subseteq Entry
    /\ DOMAIN d.entities \subseteq Id
    /\ d.entities \in [DOMAIN d.entities -> Entity]
    /\ d.next \in 1..(MaxEntities + 1)
    /\ d.mentions \subseteq Mention /\ d.edges \subseteq Edge
    /\ d.candidates \subseteq Candidate /\ d.history \subseteq History

Job == {j \in [kind : {"one", "stale", "all"}, entry : Entry \cup {None},
               user : Users] : (j.kind = "one") = (j.entry # None)}

Steps == {"idle", "read", "model", "snapshot", "mentions", "edges", "person",
          "embed", "create", "vector", "candidate", "alias", "mention",
          "edge", "author", "prune", "mark"}

\* The local state of extract_from_entry and of the loop around it.  known is
\* the map resolved, author is author_entity_id.
Local == [at : Steps, kind : {"none", "one", "stale", "all"},
          todo : SUBSET Entry, entry : Entry \cup {None}, run : 0..MaxRuns,
          people : Seq(Person), edges : Seq(Folded \X Folded),
          prior : SUBSET Id, known : [Folded -> Id \cup {None}],
          entity : Id \cup {None}, near : Id \cup {None},
          author : Id \cup {None}]

\* A REST handler that takes more than one step: the delete of an entry, or a
\* merge.
Handler == [at : {"idle", "remove", "prune", "record", "mentions", "edges",
                  "aliases", "drop"},
            entry : Entry \cup {None}, prior : SUBSET Id,
            survivor : Id \cup {None}, absorbed : Seq(Id),
            aliases : SUBSET Folded]

VARIABLES
    db,      \* the tables, as the process sees them
    saved,   \* the tables as of the last commit
    run,     \* the extraction each thread is in
    api,     \* the REST handler the event loop is in
    jobs,    \* the queued extraction jobs
    runs,    \* extractions started
    broken,  \* an extraction or a handler has stopped half-way
    faults,  \* provider calls that have raised
    crashes  \* crashes so far

vars == <<db, saved, run, api, jobs, runs, broken, faults, crashes>>

-----------------------------------------------------------------------------
(* The tables.                                                             *)

Commit(d) == db' = d /\ saved' = d

\* A statement of a merge: seen by everyone, not yet durable.
Write(d) == db' = d /\ UNCHANGED saved

Read == UNCHANGED <<db, saved>>

Exists(x) == x \in DOMAIN db.entities
Mentioned(d, x) == \E m \in d.mentions : m.entity = x
MentionedBy(e) == {m.entity : m \in {n \in db.mentions : n.entry = e}}

\* Variants: a lookup that minds the case, and one for all users.
NamedExactly(u, l) ==
    {x \in DOMAIN db.entities :
        db.entities[x].user = u /\ db.entities[x].name = l}
NamedAnywhere(u, l) ==
    {x \in DOMAIN db.entities : Lower[db.entities[x].name] = l}

\* get_entity_by_name compares in SQLite, find_by_alias in Python.
Named(u, l) ==
    {x \in DOMAIN db.entities :
        db.entities[x].user = u /\ Lower[db.entities[x].name] = l}

Aliased(u, F) ==
    {x \in DOMAIN db.entities :
        db.entities[x].user = u /\ db.entities[x].aliases \cap F # {}}

\* ON DELETE CASCADE from entities: aliases, mentions, relationships,
\* candidates, and the history of a survivor.
EntitiesRemoved(d, X) ==
    [live |-> d.live, stale |-> d.stale, next |-> d.next,
     entities |-> [x \in DOMAIN d.entities \ X |-> d.entities[x]],
     mentions |-> {m \in d.mentions : m.entity \notin X},
     edges |-> {r \in d.edges : {r.subject, r.object} \cap X = {}},
     candidates |-> {c \in d.candidates : c.pair \cap X = {}},
     history |-> {h \in d.history : h.survivor \notin X}]

\* ON DELETE CASCADE from entries.
EntryRemoved(d, e) ==
    [live |-> d.live \ {e}, stale |-> d.stale \ {e}, next |-> d.next,
     entities |-> d.entities,
     mentions |-> {m \in d.mentions : m.entry # e},
     edges |-> {r \in d.edges : r.entry # e},
     candidates |-> d.candidates, history |-> d.history]

\* delete_orphaned_entities: those of the ids that nothing mentions.
Orphans(d, X) == {x \in X \cap DOMAIN d.entities : ~Mentioned(d, x)}

\* AUTOINCREMENT: an id is never used again.
EntityCreated(u, n) ==
    [live |-> db.live, stale |-> db.stale, next |-> db.next + 1,
     entities |-> [x \in DOMAIN db.entities \cup {db.next} |->
                      IF x = db.next
                      THEN [user |-> u, name |-> n, aliases |-> {}, vec |-> <<>>]
                      ELSE db.entities[x]],
     mentions |-> db.mentions, edges |-> db.edges,
     candidates |-> db.candidates, history |-> db.history]

\* UNIQUE(user_id, entity_type, canonical_name), which is case-sensitive.
Taken(u, n, X) ==
    \E x \in DOMAIN db.entities \ X :
        db.entities[x].user = u /\ db.entities[x].name = n

EmptyTables ==
    [live |-> Entry, stale |-> Entry, entities |-> <<>>, next |-> 1,
     mentions |-> {}, edges |-> {}, candidates |-> {}, history |-> {}]

-----------------------------------------------------------------------------
(* Threads and jobs.                                                       *)

NoRun == [at |-> "idle", kind |-> "none", todo |-> {}, entry |-> None,
          run |-> 0, people |-> <<>>, edges |-> <<>>, prior |-> {},
          known |-> [f \in Folded |-> None], entity |-> None, near |-> None,
          author |-> None]

NoHandler == [at |-> "idle", entry |-> None, prior |-> {}, survivor |-> None,
              absorbed |-> <<>>, aliases |-> {}]

At(t, step) == run[t].at = step
Becomes(t, local) == run' = [run EXCEPT ![t] = local]
Goto(t, step) == Becomes(t, [run[t] EXCEPT !.at = step])
User(t) == Owner[run[t].entry]

\* The loop of extract_batch: the next entry, whatever happened to this one.
Started(k, E) ==
    IF E = {} THEN NoRun ELSE [NoRun EXCEPT !.at = "read", !.kind = k, !.todo = E]
Onward(t) == Started(run[t].kind, run[t].todo)

Finish(t) == Becomes(t, Onward(t)) /\ UNCHANGED broken

\* The row of a job is written on the same connection.
Noted(t) == IF t = "worker" THEN Commit(db) ELSE Read

\* The call raises: a batch notes it and goes on, anything else fails.
Raise(t) ==
    /\ Becomes(t, Onward(t))
    /\ broken' = (broken \/ run[t].at \notin {"read", "model"})
    /\ Noted(t)

\* has_active_jobs_for_entry: only a job for a single entry names it.
ActiveFor(e) ==
    \/ \E i \in 1..Len(jobs) : jobs[i].entry = e
    \/ run["worker"].kind = "one" /\ run["worker"].at # "idle"
       /\ (run["worker"].todo = {e} \/ run["worker"].entry = e)

Init ==
    /\ db = EmptyTables /\ saved = EmptyTables
    /\ run = [t \in Thread |-> NoRun]
    /\ api = NoHandler
    /\ jobs = <<>>
    /\ runs = 0
    /\ broken = FALSE
    /\ faults = 0
    /\ crashes = 0

\* One handler or tool at a time on the event loop.
Requested(r) == r \in Requests /\ api.at = "idle" /\ At("loop", "idle")

ThreadsStay == UNCHANGED <<run, broken>>
LoopStays == UNCHANGED <<api, jobs, runs, faults, crashes>>

\* POST /api/entities/extract, and the jobs other handlers queue.
Submit(k, e, u) ==
    /\ Requested(k) /\ k \in {"one", "stale", "all"} /\ Len(jobs) < MaxQueue
    /\ (k = "one") = (e # None)
    /\ jobs' = Append(jobs, [kind |-> k, entry |-> e, user |-> u])
    /\ Commit(db) /\ ThreadsStay
    /\ UNCHANGED <<api, runs, faults, crashes>>

\* _resolve_batch_ids, once, before the loop.
BatchOf(k, u) ==
    {e \in db.live : Owner[e] = u /\ (k = "stale" => e \in db.stale)}

\* _run_entity_extraction.
StartJob ==
    LET j == Head(jobs)
    IN  /\ jobs # <<>> /\ At("worker", "idle")
        /\ jobs' = Tail(jobs)
        /\ Becomes("worker", Started(j.kind, IF j.kind = "one" THEN {j.entry}
                                             ELSE BatchOf(j.kind, j.user)))
        /\ Commit(db)
        /\ UNCHANGED <<broken, api, runs, faults, crashes>>

\* journal_extract_entities runs on the event loop.
CallTool(k, e, u) ==
    /\ Requested("tool") /\ k \in {"one", "stale"}
    /\ (k = "one") = (e # None)
    /\ Becomes("loop", Started(k, IF k = "one" THEN {e} ELSE BatchOf(k, u)))
    /\ Read
    /\ UNCHANGED <<broken, api, jobs, runs, faults, crashes>>

-----------------------------------------------------------------------------
(* extract_from_entry.                                                     *)

\* An entry that is gone is passed over in a batch and fails a single job.
\* Bound: MaxRuns.
ReadEntry(t) ==
    /\ At(t, "read")
    /\ \E e \in run[t].todo :
          \/ /\ e \in db.live
             /\ runs < MaxRuns /\ runs' = runs + 1
             /\ Becomes(t, [run[t] EXCEPT !.todo = @ \ {e}, !.entry = e,
                                          !.run = runs + 1, !.at = "model"])
             /\ Read
          \/ /\ e \notin db.live
             /\ Becomes(t, Started(run[t].kind, run[t].todo \ {e}))
             /\ UNCHANGED runs
             /\ Noted(t)
    /\ UNCHANGED <<broken, api, jobs, faults, crashes>>

\* The model answers.
Ask(t) ==
    /\ At(t, "model")
    /\ \E a \in Answers :
          Becomes(t, [run[t] EXCEPT !.people = a.people, !.edges = a.edges,
                                    !.at = "snapshot"])
    /\ Read /\ LoopStays
    /\ UNCHANGED broken

\* The entities the entry mentions now, to be pruned at the end.
SnapshotPrior(t) ==
    /\ At(t, "snapshot")
    /\ Becomes(t, [run[t] EXCEPT !.prior = MentionedBy(run[t].entry),
                                 !.at = "mentions"])
    /\ Read /\ LoopStays
    /\ UNCHANGED broken

\* Variant: the mentions of the run before stay.
KeepMentions(t) ==
    /\ At(t, "mentions")
    /\ Goto(t, "edges")
    /\ Read /\ LoopStays
    /\ UNCHANGED broken

DeleteMentions(t) ==
    /\ At(t, "mentions")
    /\ Commit([db EXCEPT !.mentions = {m \in @ : m.entry # run[t].entry}])
    /\ Goto(t, "edges")
    /\ LoopStays /\ UNCHANGED broken

DeleteEdges(t) ==
    /\ At(t, "edges")
    /\ Commit([db EXCEPT !.edges = {r \in @ : r.entry # run[t].entry}])
    /\ Goto(t, "person")
    /\ LoopStays /\ UNCHANGED broken

Person1(t) == Head(run[t].people)

\* Stages a and b of _resolve_entity.  No ORDER BY: any row that matches.
Matches(t) ==
    LET byName == Named(User(t), Lower[Person1(t).name])
        byAlias == Aliased(User(t), {Fold[Person1(t).name]})
    IN  IF byName # {} THEN byName
        ELSE IF byAlias # {} THEN byAlias
        ELSE Aliased(User(t), Person1(t).aliases)

Resolve(t) ==
    /\ At(t, "person") /\ run[t].people # <<>>
    /\ IF Matches(t) = {} THEN Goto(t, "embed")
       ELSE \E x \in Matches(t) :
               Becomes(t, [run[t] EXCEPT !.entity = x, !.at = "alias"])
    /\ Read /\ LoopStays
    /\ UNCHANGED broken

\* The user's entities whose embedding is related to the name.
Related(t, relation) ==
    {x \in DOMAIN db.entities :
        /\ db.entities[x].user = User(t)
        /\ \E n \in Name : /\ db.entities[x].vec = <<n>>
                           /\ <<Person1(t).name, n>> \in relation}

\* Stage c: the embedding arrives and is compared with what is stored then.
Embed(t) ==
    /\ At(t, "embed")
    /\ \/ \E x \in Related(t, Alike) :
             Becomes(t, [run[t] EXCEPT !.entity = x, !.at = "alias"])
       \/ /\ Related(t, Alike) = {}
          /\ \/ \E x \in Related(t, Close) :
                   Becomes(t, [run[t] EXCEPT !.near = x, !.at = "create"])
             \/ Related(t, Close) = {} /\ Goto(t, "create")
    /\ Read /\ LoopStays
    /\ UNCHANGED broken

\* Bound: MaxEntities.
CreateEntity(t) ==
    LET n == Person1(t).name
    IN  /\ At(t, "create")
        /\ IF Taken(User(t), n, {})
           THEN Raise(t)
           ELSE /\ db.next <= MaxEntities
                /\ Commit(EntityCreated(User(t), n))
                /\ Becomes(t, [run[t] EXCEPT !.entity = db.next, !.at = "vector"])
                /\ UNCHANGED broken
        /\ LoopStays

\* No row is updated when the entity is gone; a near miss asks for review.
SetEmbedding(t) ==
    LET x == run[t].entity
    IN  /\ At(t, "vector")
        /\ Commit(IF Exists(x)
                  THEN [db EXCEPT !.entities[x].vec = <<Person1(t).name>>] ELSE db)
        /\ Goto(t, IF run[t].near = None THEN "alias" ELSE "candidate")
        /\ LoopStays /\ UNCHANGED broken

\* contextlib.suppress: a foreign key error leaves nothing behind.
CreateCandidate(t) ==
    LET pair == {run[t].entity, run[t].near}
    IN  /\ At(t, "candidate")
        /\ IF /\ \A x \in pair : Exists(x)
              /\ ~\E c \in db.candidates : c.pair = pair /\ c.run = run[t].run
           THEN Commit([db EXCEPT !.candidates =
                           @ \cup {[pair |-> pair, run |-> run[t].run,
                                    status |-> "pending"]}])
           ELSE Read
        /\ Becomes(t, [run[t] EXCEPT !.near = None, !.at = "alias"])
        /\ LoopStays /\ UNCHANGED broken

\* The names of the person, remembered for the relationships.
KnownAs(t) ==
    [f \in Folded |->
        IF f = Fold[Person1(t).name] \/ f \in Person1(t).aliases
        THEN run[t].entity ELSE run[t].known[f]]

\* add_alias for each alias; a foreign key error when the entity is gone.
AddAliases(t) ==
    LET x == run[t].entity
        local == [run[t] EXCEPT
                     !.known = KnownAs(t), !.at = "mention",
                     !.author = IF Fold[Person1(t).name] = Author THEN x ELSE @]
    IN  /\ At(t, "alias")
        /\ IF Person1(t).aliases = {}
           THEN Becomes(t, local) /\ Read /\ UNCHANGED broken
           ELSE IF Exists(x)
           THEN /\ Commit([db EXCEPT !.entities[x].aliases = @ \cup Person1(t).aliases])
                /\ Becomes(t, local) /\ UNCHANGED broken
           ELSE Raise(t)
        /\ LoopStays

\* Variant: no foreign keys.
UncheckedMention(t) ==
    /\ At(t, "mention")
    /\ Commit([db EXCEPT !.mentions = @ \cup
                  {[entity |-> run[t].entity, entry |-> run[t].entry,
                    run |-> run[t].run]}])
    /\ Becomes(t, [run[t] EXCEPT !.people = Tail(@), !.entity = None,
                                 !.at = "person"])
    /\ LoopStays /\ UNCHANGED broken

\* The error is reported as a deleted entry, whichever of the two is gone.
CreateMention(t) ==
    LET x == run[t].entity
        e == run[t].entry
    IN  /\ At(t, "mention")
        /\ IF Exists(x) /\ e \in db.live
           THEN /\ Commit([db EXCEPT !.mentions = @ \cup
                              {[entity |-> x, entry |-> e, run |-> run[t].run]}])
                /\ Becomes(t, [run[t] EXCEPT !.people = Tail(@), !.entity = None,
                                             !.at = "person"])
                /\ UNCHANGED broken
           ELSE Raise(t)
        /\ LoopStays

EntitiesDone(t) ==
    /\ At(t, "person") /\ run[t].people = <<>>
    /\ Goto(t, "edge")
    /\ Read /\ LoopStays
    /\ UNCHANGED broken

NamesAuthor(t) == Author \in {Head(run[t].edges)[1], Head(run[t].edges)[2]}

\* _resolve_for_relationship: the author, if no person of the answer was the
\* author and no earlier relationship needed one.
FindAuthor(t) ==
    /\ At(t, "edge") /\ run[t].edges # <<>>
    /\ NamesAuthor(t) /\ run[t].author = None
    /\ IF Named(User(t), Lower[AuthorName]) = {} THEN Goto(t, "author")
       ELSE \E x \in Named(User(t), Lower[AuthorName]) :
               Becomes(t, [run[t] EXCEPT !.author = x])
    /\ Read /\ LoopStays
    /\ UNCHANGED broken

\* Bound: MaxEntities.
CreateAuthor(t) ==
    /\ At(t, "author")
    /\ IF Taken(User(t), AuthorName, {})
       THEN Raise(t)
       ELSE /\ db.next <= MaxEntities
            /\ Commit(EntityCreated(User(t), AuthorName))
            /\ Becomes(t, [run[t] EXCEPT !.author = db.next, !.at = "edge"])
            /\ UNCHANGED broken
    /\ LoopStays

EndOf(t, f) == IF f = Author THEN run[t].author ELSE run[t].known[f]

\* A relationship with an end the answer does not list is skipped.
CreateRelationship(t) ==
    LET r == Head(run[t].edges)
        s == EndOf(t, r[1])
        o == EndOf(t, r[2])
        local == [run[t] EXCEPT !.edges = Tail(@)]
    IN  /\ At(t, "edge") /\ run[t].edges # <<>>
        /\ NamesAuthor(t) => run[t].author # None
        /\ IF None \in {s, o}
           THEN Becomes(t, local) /\ Read /\ UNCHANGED broken
           ELSE IF Exists(s) /\ Exists(o) /\ run[t].entry \in db.live
           THEN /\ Commit([db EXCEPT !.edges = @ \cup
                              {[subject |-> s, object |-> o,
                                entry |-> run[t].entry, run |-> run[t].run]}])
                /\ Becomes(t, local) /\ UNCHANGED broken
           ELSE Raise(t)
        /\ LoopStays

EdgesDone(t) ==
    /\ At(t, "edge") /\ run[t].edges = <<>>
    /\ Goto(t, IF run[t].prior = {} THEN "mark" ELSE "prune")
    /\ Read /\ LoopStays
    /\ UNCHANGED broken

Prune(t) ==
    /\ At(t, "prune")
    /\ Commit(EntitiesRemoved(db, Orphans(db, run[t].prior)))
    /\ Goto(t, "mark")
    /\ LoopStays /\ UNCHANGED broken

\* mark_entry_extracted.
Mark(t) ==
    /\ At(t, "mark")
    /\ Commit([db EXCEPT !.stale = @ \ {run[t].entry}])
    /\ Finish(t)
    /\ LoopStays

\* A provider call raises.
ProviderFails(t) ==
    /\ run[t].at \in {"model", "embed"}
    /\ faults < MaxFaults /\ faults' = faults + 1
    /\ Raise(t)
    /\ UNCHANGED <<api, jobs, runs, crashes>>

Extract(t) ==
    \/ ReadEntry(t) \/ Ask(t) \/ SnapshotPrior(t) \/ DeleteMentions(t)
    \/ DeleteEdges(t) \/ Resolve(t) \/ Embed(t) \/ CreateEntity(t)
    \/ SetEmbedding(t) \/ CreateCandidate(t) \/ AddAliases(t)
    \/ CreateMention(t) \/ EntitiesDone(t) \/ FindAuthor(t) \/ CreateAuthor(t)
    \/ CreateRelationship(t) \/ EdgesDone(t) \/ Prune(t) \/ Mark(t)
    \/ ProviderFails(t)

-----------------------------------------------------------------------------
(* The REST handlers.                                                      *)

Handled(h) == api' = h
HandlersStay == UNCHANGED <<jobs, runs, faults, crashes>>

\* PATCH /api/entries/{id}: the trigger flags the entry, a job is queued.
EditEntry(e) ==
    /\ Requested("edit") /\ e \in db.live /\ Len(jobs) < MaxQueue
    /\ Commit([db EXCEPT !.stale = @ \cup {e}])
    /\ jobs' = Append(jobs, [kind |-> "one", entry |-> e, user |-> Owner[e]])
    /\ ThreadsStay
    /\ UNCHANGED <<api, runs, faults, crashes>>

\* DELETE /api/entries/{id}: refused while a job of its own is active.
DeleteEntry(e) ==
    /\ Requested("delete") /\ ~ActiveFor(e) /\ e \in db.live
    /\ Handled([NoHandler EXCEPT !.at = "remove", !.entry = e,
                                 !.prior = MentionedBy(e)])
    /\ Read /\ ThreadsStay /\ HandlersStay

\* Variant: the cascade is taken to clean up.
RemoveOnly ==
    /\ api.at = "remove"
    /\ Commit(EntryRemoved(db, api.entry))
    /\ Handled(NoHandler)
    /\ ThreadsStay /\ HandlersStay

RemoveEntry ==
    /\ api.at = "remove"
    /\ Commit(EntryRemoved(db, api.entry))
    /\ Handled(IF api.prior = {} THEN NoHandler ELSE [api EXCEPT !.at = "prune"])
    /\ ThreadsStay /\ HandlersStay

PruneEntry ==
    /\ api.at = "prune"
    /\ Commit(EntitiesRemoved(db, Orphans(db, api.prior)))
    /\ Handled(NoHandler)
    /\ ThreadsStay /\ HandlersStay

\* PATCH /api/entities/{id}.  A name that is taken is an error of SQLite's that
\* nobody catches.
RenameEntity(x, n) ==
    /\ Requested("rename") /\ Exists(x)
    /\ ~Taken(db.entities[x].user, n, {x})
    /\ Commit([db EXCEPT !.entities[x].name = n])
    /\ ThreadsStay /\ UNCHANGED api /\ HandlersStay

\* DELETE /api/entities/{id}.
DropEntity(x) ==
    /\ Requested("drop") /\ Exists(x)
    /\ Commit(EntitiesRemoved(db, {x}))
    /\ ThreadsStay /\ UNCHANGED api /\ HandlersStay

\* PATCH /api/entities/merge-candidates/{id}.
ResolveCandidate(c, status) ==
    /\ Requested("resolve") /\ c.status = "pending"
    /\ Commit([db EXCEPT !.candidates = (@ \ {c}) \cup {[c EXCEPT !.status = status]}])
    /\ ThreadsStay /\ UNCHANGED api /\ HandlersStay

\* POST /api/entities/merge: one user's entities, checked before anything is
\* written; the lists a client may send repeat ids or name the survivor.
MergeEntities(s, absorbed) ==
    /\ Requested("merge") /\ Exists(s)
    /\ \A x \in {absorbed[i] : i \in 1..Len(absorbed)} :
          Exists(x) /\ db.entities[x].user = db.entities[s].user
    /\ Handled([NoHandler EXCEPT !.at = "record", !.survivor = s,
                                 !.absorbed = absorbed])
    /\ Read /\ ThreadsStay /\ HandlersStay

Absorbed == Head(api.absorbed)

\* The handler answers with an error and leaves its transaction open.
GiveUp == Read /\ Handled(NoHandler)

HistoryRow ==
    [survivor |-> api.survivor, absorbed |-> Absorbed,
     name |-> db.entities[Absorbed].name,
     aliases |-> db.entities[Absorbed].aliases,
     into |-> db.entities[api.survivor].name]

\* Variants: the row is written before the checks, or the name is forgotten.
RecordFirst ==
    /\ api.at = "record" /\ api.absorbed # <<>>
    /\ IF Exists(Absorbed) /\ Exists(api.survivor)
       THEN /\ Write([db EXCEPT !.history = @ \cup {HistoryRow}])
            /\ Handled(IF Absorbed = api.survivor THEN NoHandler
                       ELSE [api EXCEPT !.at = "mentions"])
       ELSE GiveUp
    /\ ThreadsStay /\ HandlersStay
RecordNameless ==
    /\ api.at = "record" /\ api.absorbed # <<>>
    /\ IF Exists(Absorbed) /\ Absorbed # api.survivor /\ Exists(api.survivor)
       THEN /\ Write([db EXCEPT !.history = @ \cup {HistoryRow}])
            /\ Handled([api EXCEPT !.at = "mentions",
                                   !.aliases = db.entities[Absorbed].aliases])
       ELSE GiveUp
    /\ ThreadsStay /\ HandlersStay

\* The checks of one absorbed entity and its row of entity_merge_history.
MergeRecord ==
    /\ api.at = "record" /\ api.absorbed # <<>>
    /\ IF Exists(Absorbed) /\ Absorbed # api.survivor /\ Exists(api.survivor)
       THEN /\ Write([db EXCEPT !.history = @ \cup {HistoryRow}])
            /\ Handled([api EXCEPT
                   !.at = "mentions",
                   !.aliases = (db.entities[Absorbed].aliases
                                \cup {Fold[db.entities[Absorbed].name]})
                               \ {Fold[db.entities[api.survivor].name]}])
       ELSE GiveUp
    /\ ThreadsStay /\ HandlersStay

Moved(x) == IF x = Absorbed THEN api.survivor ELSE x

MergeMentions ==
    /\ api.at = "mentions"
    /\ IF Mentioned(db, Absorbed) /\ ~Exists(api.survivor) THEN GiveUp
       ELSE /\ Write([db EXCEPT !.mentions =
                         {[m EXCEPT !.entity = Moved(@)] : m \in @}])
            /\ Handled([api EXCEPT !.at = "edges"])
    /\ ThreadsStay /\ HandlersStay

\* Both sides: what comes between the two updates might as well come before
\* or after both.
MergeEdges ==
    /\ api.at = "edges"
    /\ IF /\ \E r \in db.edges : Absorbed \in {r.subject, r.object}
          /\ ~Exists(api.survivor)
       THEN GiveUp
       ELSE /\ Write([db EXCEPT !.edges =
                         {[r EXCEPT !.subject = Moved(@), !.object = Moved(@)] :
                             r \in @}])
            /\ Handled([api EXCEPT !.at = "aliases"])
    /\ ThreadsStay /\ HandlersStay

\* The aliases read with the absorbed entity and its name, except for the
\* survivor's own.
MergeAliases ==
    LET s == api.survivor
    IN  /\ api.at = "aliases"
        /\ IF api.aliases # {} /\ ~Exists(s) THEN GiveUp
           ELSE /\ Write(IF Exists(s)
                         THEN [db EXCEPT !.entities[s].aliases = @ \cup api.aliases]
                         ELSE db)
                /\ Handled([api EXCEPT !.at = "drop"])
        /\ ThreadsStay /\ HandlersStay

\* The cascade has removed the candidates by the time they are to be accepted.
MergeDrop ==
    /\ api.at = "drop"
    /\ Write(EntitiesRemoved(db, {Absorbed}))
    /\ Handled([api EXCEPT !.at = "record", !.absorbed = Tail(@), !.aliases = {}])
    /\ ThreadsStay /\ HandlersStay

MergeCommit ==
    /\ api.at = "record" /\ api.absorbed = <<>>
    /\ Commit(db)
    /\ Handled(NoHandler)
    /\ ThreadsStay /\ HandlersStay

\* The process dies: what was not committed is gone.
Crash ==
    /\ crashes < MaxCrashes /\ crashes' = crashes + 1
    /\ db' = saved /\ UNCHANGED saved
    /\ run' = [t \in Thread |-> NoRun]
    /\ broken' = (broken \/ api.at # "idle" \/ \E t \in Thread : ~At(t, "idle"))
    /\ api' = NoHandler
    /\ jobs' = <<>>
    /\ UNCHANGED <<runs, faults>>

\* The lists of absorbed ids a client sends.
MergeLists == {<<x>> : x \in Id} \cup {<<x, y>> : x, y \in Id}

Rest ==
    \/ \E k \in {"one", "stale", "all"}, e \in Entry \cup {None}, u \in Users :
          Submit(k, e, u) \/ CallTool(k, e, u)
    \/ \E e \in Entry : EditEntry(e) \/ DeleteEntry(e)
    \/ RemoveEntry \/ PruneEntry
    \/ \E x \in Id : DropEntity(x) \/ \E n \in Name : RenameEntity(x, n)
    \/ \E c \in db.candidates, status \in {"accepted", "dismissed"} :
          ResolveCandidate(c, status)
    \/ \E s \in Id, absorbed \in MergeLists : MergeEntities(s, absorbed)
    \/ MergeRecord \/ MergeMentions \/ MergeEdges \/ MergeAliases \/ MergeDrop
    \/ MergeCommit

Next == StartJob \/ (\E t \in Thread : Extract(t)) \/ Rest \/ Crash

Spec == Init /\ [][Next]_vars

-----------------------------------------------------------------------------
(* Properties.                                                             *)

\* The foreign keys of the schema, and the ids handed out so far.
Linked(d) ==
    /\ d.stale \subseteq d.live
    /\ \A x \in DOMAIN d.entities : x < d.next
    /\ \A m \in d.mentions : m.entity \in DOMAIN d.entities /\ m.entry \in d.live
    /\ \A r \in d.edges : {r.subject, r.object} \subseteq DOMAIN d.entities
                           /\ r.entry \in d.live
    /\ \A c \in d.candidates : c.pair \subseteq DOMAIN d.entities
    /\ \A h \in d.history : h.survivor \in DOMAIN d.entities

\* Every variable has its type, and every row refers to rows that exist, in
\* what the process sees and in what a crash would leave.
TypeOK ==
    /\ Tables(db) /\ Tables(saved)
    /\ Linked(db) /\ Linked(saved)
    /\ run \in [Thread -> Local]
    /\ api \in Handler
    /\ jobs \in Seq(Job) /\ Len(jobs) <= MaxQueue
    /\ runs \in 0..MaxRuns /\ broken \in BOOLEAN
    /\ faults \in 0..MaxFaults /\ crashes \in 0..MaxCrashes

\* A re-run replaces the results of the run before: at no time do an entry's
\* mentions, or its relationships, come from two extractions, whatever fails
\* and whatever is merged meanwhile.
OneRunPerEntry ==
    /\ \A m, n \in db.mentions : m.entry = n.entry => m.run = n.run
    /\ \A r, q \in db.edges : r.entry = q.entry => r.run = q.run

\* Users share no entities: what an entry mentions or relates belongs to its
\* owner, and nobody is asked to merge an entity of somebody else's.
OwnersKept ==
    /\ \A m \in db.mentions : db.entities[m.entity].user = Owner[m.entry]
    /\ \A r \in db.edges : \A x \in {r.subject, r.object} :
          db.entities[x].user = Owner[r.entry]
    /\ \A c \in db.candidates : \A x, y \in c.pair :
          db.entities[x].user = db.entities[y].user

\* Stage a keeps one entity for the spellings of a name that SQLite's LOWER
\* takes for one, though the look and the insert are two commits and the author's
\* row is made elsewhere: two runs of one worker never make twins.  Spellings
\* that differ in the case of a letter beyond ASCII are not taken for one.  It
\* is meant of names that extractions give: a rename only minds UNIQUE, and the
\* MCP tool may insert between the two commits.
NoTwins ==
    \A x, y \in DOMAIN db.entities :
        /\ db.entities[x].user = db.entities[y].user
        /\ Lower[db.entities[x].name] = Lower[db.entities[y].name]
        => x = y

Quiet == api.at = "idle" /\ \A t \in Thread : At(t, "idle")

\* An extraction, or the delete of an entry, leaves no entity behind that
\* nothing mentions, but for the author, whom relationships bring in: between
\* the clean-up of one and the matching of the other no entity slips through,
\* as long as none has stopped half-way.  It is meant of jobs for one entry,
\* whose deletes wait for them; a batch does not name its entries, and the
\* delete of the one it is at may leave an entity behind.
NoneLeftBehind ==
    Quiet /\ ~broken =>
        \A x \in DOMAIN db.entities :
            Mentioned(db, x) \/ Fold[db.entities[x].name] = Author

\* What the history says was absorbed is gone, also when the merge ended with
\* an error half-way.  Only a crash can part the two: another thread's commit
\* may have made the first half of a merge durable.
HistoryTrue ==
    api.at = "idle" /\ crashes = 0 =>
        \A h \in db.history : ~Exists(h.absorbed)

\* The name of an absorbed entity and all its aliases lead to the survivor from
\* then on, through renames, other merges and extractions, so that an extraction
\* that meets one does not bring the entity back.  Except for what was the
\* survivor's own name at the time, in any case: that becomes no alias, and is
\* found by stage a only, as long as the survivor keeps the name and in the
\* spellings that SQLite takes for one.
MergedNamesLead ==
    api.at = "idle" /\ crashes = 0 =>
        \A h \in db.history :
            (h.aliases \cup {Fold[h.name]}) \ {Fold[h.into]}
                \subseteq db.entities[h.survivor].aliases

=============================================================================
