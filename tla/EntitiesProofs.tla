--------------------------- MODULE EntitiesProofs ---------------------------
(***************************************************************************)
(* Proofs about Entities, for every value of its constants.                *)
(***************************************************************************)
EXTENDS Entities, SequenceTheorems, TLAPS

USE DEF Thread, Id, None

-----------------------------------------------------------------------------
(* Type correctness and the foreign keys.                                  *)

\* Tables a step may start from and must leave.
Sound(d) == Tables(d) /\ Linked(d)

\* Steps that read the head of the people still to be resolved.
PersonSteps == {"embed", "create", "vector", "candidate", "alias", "mention"}

\* What a thread holds fits the step it is at.
Fits(l) ==
    /\ l.at \notin {"idle", "read"} => l.entry \in Entry /\ l.run \in 1..MaxRuns
    /\ l.at \in PersonSteps => l.people # <<>>

MergeSteps == {"mentions", "edges", "aliases", "drop"}

Handles(h) ==
    /\ h.at \in {"remove", "prune"} => h.entry \in Entry
    /\ h.at \in MergeSteps => h.absorbed # <<>>
    /\ h.at \in MergeSteps \cup {"record"} => h.survivor \in Id

Typed ==
    /\ TypeOK
    /\ \A t \in Thread : Fits(run[t])
    /\ Handles(api)

LEMMA MentionsSet ==
    ASSUME NEW d, Sound(d), NEW M, M \subseteq Mention,
           \A m \in M : m.entity \in DOMAIN d.entities /\ m.entry \in d.live
    PROVE  Sound([d EXCEPT !.mentions = M])
BY DEF Sound, Tables, Linked

LEMMA EdgesSet ==
    ASSUME NEW d, Sound(d), NEW R, R \subseteq Edge,
           \A r \in R : {r.subject, r.object} \subseteq DOMAIN d.entities
                        /\ r.entry \in d.live
    PROVE  Sound([d EXCEPT !.edges = R])
BY DEF Sound, Tables, Linked

LEMMA CandidatesSet ==
    ASSUME NEW d, Sound(d), NEW C, C \subseteq Candidate,
           \A c \in C : c.pair \subseteq DOMAIN d.entities
    PROVE  Sound([d EXCEPT !.candidates = C])
BY DEF Sound, Tables, Linked

LEMMA HistorySet ==
    ASSUME NEW d, Sound(d), NEW H, H \subseteq History,
           \A h \in H : h.survivor \in DOMAIN d.entities
    PROVE  Sound([d EXCEPT !.history = H])
BY DEF Sound, Tables, Linked

LEMMA StaleSet ==
    ASSUME NEW d, Sound(d), NEW S, S \subseteq d.live
    PROVE  Sound([d EXCEPT !.stale = S])
BY DEF Sound, Tables, Linked

\* A row changes, the ids do not.
LEMMA EntitiesSet ==
    ASSUME NEW d, Sound(d), NEW E, DOMAIN E = DOMAIN d.entities,
           E \in [DOMAIN d.entities -> Entity]
    PROVE  Sound([d EXCEPT !.entities = E])
BY DEF Sound, Tables, Linked

\* The cascades leave no row that refers to a removed one.
LEMMA RemovalSound ==
    ASSUME NEW d, Sound(d), NEW X
    PROVE  Sound(EntitiesRemoved(d, X))
<1> DEFINE E == [x \in DOMAIN d.entities \ X |-> d.entities[x]]
           n == EntitiesRemoved(d, X)
<1>1. E \in [DOMAIN E -> Entity] /\ DOMAIN E = DOMAIN d.entities \ X
  BY DEF Sound, Tables
<1>2. /\ n.live = d.live /\ n.stale = d.stale /\ n.next = d.next
      /\ n.entities = E
      /\ n.mentions = {m \in d.mentions : m.entity \notin X}
      /\ n.edges = {r \in d.edges : {r.subject, r.object} \cap X = {}}
      /\ n.candidates = {c \in d.candidates : c.pair \cap X = {}}
      /\ n.history = {h \in d.history : h.survivor \notin X}
      /\ n = [live |-> n.live, stale |-> n.stale, entities |-> n.entities,
              next |-> n.next, mentions |-> n.mentions, edges |-> n.edges,
              candidates |-> n.candidates, history |-> n.history]
  <2>1. d = [live |-> d.live, stale |-> d.stale, entities |-> d.entities,
             next |-> d.next, mentions |-> d.mentions, edges |-> d.edges,
             candidates |-> d.candidates, history |-> d.history]
    BY DEF Sound, Tables
  <2> QED
    BY <2>1 DEF EntitiesRemoved
<1> HIDE DEF E, n
<1>3. Tables(n)
  BY <1>1, <1>2 DEF Sound, Tables
<1>4. Linked(n)
  <2>1. \A r \in n.edges : {r.subject, r.object} \subseteq DOMAIN n.entities
                           /\ r.entry \in n.live
    BY <1>1, <1>2 DEF Sound, Linked
  <2>2. \A c \in n.candidates : c.pair \subseteq DOMAIN n.entities
    BY <1>1, <1>2 DEF Sound, Linked
  <2> QED
    BY <1>1, <1>2, <2>1, <2>2 DEF Sound, Linked
<1> QED
  BY <1>3, <1>4 DEF Sound, n

LEMMA EntryRemovalSound ==
    ASSUME NEW d, Sound(d), NEW e
    PROVE  Sound(EntryRemoved(d, e))
BY DEF Sound, Tables, Linked, EntryRemoved

\* The id of a new entity is one that was never used.
LEMMA CreationSound ==
    ASSUME Sound(db), NEW u \in Users, NEW n \in Name, db.next <= MaxEntities
    PROVE  /\ Sound(EntityCreated(u, n))
           /\ db.next \in Id
           /\ EntityCreated(u, n).next = db.next + 1
           /\ DOMAIN EntityCreated(u, n).entities = DOMAIN db.entities \cup {db.next}
           /\ EntityCreated(u, n).entities[db.next].user = u
           /\ \A x \in DOMAIN db.entities :
                 EntityCreated(u, n).entities[x] = db.entities[x]
<1> DEFINE row == [user |-> u, name |-> n, aliases |-> {}, vec |-> <<>>]
           E == [x \in DOMAIN db.entities \cup {db.next} |->
                    IF x = db.next THEN row ELSE db.entities[x]]
           d == EntityCreated(u, n)
<1>1. d = [live |-> db.live, stale |-> db.stale, entities |-> E,
           next |-> db.next + 1, mentions |-> db.mentions, edges |-> db.edges,
           candidates |-> db.candidates, history |-> db.history]
  BY DEF Sound, Tables, EntityCreated
<1>2. row \in Entity
  BY DEF Entity
<1>3. db.next \in Id /\ db.next \in Nat /\ db.next + 1 \in 1..(MaxEntities + 1)
  BY EntitiesBounds DEF Sound, Tables
<1>4. /\ DOMAIN E = DOMAIN db.entities \cup {db.next}
      /\ E \in [DOMAIN E -> Entity]
      /\ E[db.next] = row
      /\ \A x \in DOMAIN db.entities : E[x] = db.entities[x]
  <2>1. \A x \in DOMAIN db.entities : x # db.next
    BY <1>3 DEF Sound, Tables, Linked
  <2> QED
    BY <1>2, <2>1 DEF Sound, Tables
<1>5. row.user = u
  OBVIOUS
<1> HIDE DEF E, row, d
<1>6. Tables(d)
  BY <1>1, <1>3, <1>4 DEF Sound, Tables
<1>7. Linked(d)
  BY <1>1, <1>3, <1>4 DEF Sound, Tables, Linked
<1> QED
  BY <1>1, <1>3, <1>4, <1>5, <1>6, <1>7 DEF Sound, d

-----------------------------------------------------------------------------
(* Threads and handlers.                                                   *)

LEMMA LocalTyped ==
    ASSUME Typed, NEW t \in Thread
    PROVE  /\ run[t] \in Local
           /\ run[t].at \in Steps
           /\ run[t].kind \in {"none", "one", "stale", "all"}
           /\ run[t].todo \in SUBSET Entry
           /\ run[t].entry \in Entry \cup {None}
           /\ run[t].run \in 0..MaxRuns
           /\ run[t].people \in Seq(Person)
           /\ run[t].edges \in Seq(Folded \X Folded)
           /\ run[t].prior \in SUBSET Id
           /\ run[t].known \in [Folded -> Id \cup {None}]
           /\ run[t].entity \in Id \cup {None}
           /\ run[t].near \in Id \cup {None}
           /\ run[t].author \in Id \cup {None}
           /\ Fits(run[t])
BY DEF Typed, TypeOK, Local

\* Local states after an assignment.
LEMMA AtLocal ==
    ASSUME NEW r \in Local, NEW s \in Steps
    PROVE  [r EXCEPT !.at = s] \in Local
BY DEF Local

LEMMA ReadLocal ==
    ASSUME NEW r \in Local, NEW E \in SUBSET Entry, NEW e \in Entry,
           NEW n \in 0..MaxRuns, NEW s \in Steps
    PROVE  [r EXCEPT !.todo = E, !.entry = e, !.run = n, !.at = s] \in Local
BY DEF Local

LEMMA AskLocal ==
    ASSUME NEW r \in Local, NEW p \in Seq(Person),
           NEW e \in Seq(Folded \X Folded), NEW s \in Steps
    PROVE  [r EXCEPT !.people = p, !.edges = e, !.at = s] \in Local
BY DEF Local

LEMMA PriorLocal ==
    ASSUME NEW r \in Local, NEW X \in SUBSET Id, NEW s \in Steps
    PROVE  [r EXCEPT !.prior = X, !.at = s] \in Local
BY DEF Local

LEMMA EntityLocal ==
    ASSUME NEW r \in Local, NEW x \in Id, NEW s \in Steps
    PROVE  [r EXCEPT !.entity = x, !.at = s] \in Local
BY DEF Local

LEMMA NearLocal ==
    ASSUME NEW r \in Local, NEW x \in Id \cup {None}, NEW s \in Steps
    PROVE  [r EXCEPT !.near = x, !.at = s] \in Local
BY DEF Local

LEMMA DoneLocal ==
    ASSUME NEW r \in Local, NEW p \in Seq(Person), NEW s \in Steps
    PROVE  [r EXCEPT !.people = p, !.entity = None, !.at = s] \in Local
BY DEF Local

LEMMA KnownLocal ==
    ASSUME NEW r \in Local, NEW f \in [Folded -> Id \cup {None}],
           NEW s \in Steps, NEW x \in Id \cup {None}
    PROVE  [r EXCEPT !.known = f, !.at = s, !.author = x] \in Local
BY DEF Local

LEMMA AuthorLocal ==
    ASSUME NEW r \in Local, NEW x \in Id, NEW s \in Steps
    PROVE  /\ [r EXCEPT !.author = x] \in Local
           /\ [r EXCEPT !.author = x, !.at = s] \in Local
BY DEF Local

LEMMA EdgesLocal ==
    ASSUME NEW r \in Local, NEW e \in Seq(Folded \X Folded)
    PROVE  [r EXCEPT !.edges = e] \in Local
BY DEF Local

LEMMA NoRunFits ==
    /\ NoRun \in Local /\ Fits(NoRun)
    /\ NoRun.at = "idle" /\ NoRun.entry = None /\ NoRun.entity = None
    /\ NoRun.near = None /\ NoRun.author = None
    /\ \A f \in Folded : NoRun.known[f] = None
BY EntitiesBounds, EmptySeq DEF NoRun, Local, Steps, Fits, PersonSteps

LEMMA StartedFits ==
    ASSUME NEW k \in {"none", "one", "stale", "all"}, NEW E \in SUBSET Entry
    PROVE  /\ Started(k, E) \in Local /\ Fits(Started(k, E))
           /\ Started(k, E).at \in {"idle", "read"}
           /\ Started(k, E).entity = None /\ Started(k, E).near = None
           /\ Started(k, E).author = None
           /\ \A f \in Folded : Started(k, E).known[f] = None
<1>1. /\ [NoRun EXCEPT !.at = "read", !.kind = k, !.todo = E] \in Local
      /\ Fits([NoRun EXCEPT !.at = "read", !.kind = k, !.todo = E])
  BY NoRunFits DEF Local, Steps, Fits, PersonSteps
<1> QED
  BY <1>1, NoRunFits DEF Started, Local

LEMMA OnwardFits ==
    ASSUME Typed, NEW t \in Thread
    PROVE  Onward(t) \in Local /\ Fits(Onward(t))
BY LocalTyped, StartedFits DEF Onward

\* A user of the entry at hand.
LEMMA UserTyped ==
    ASSUME Typed, NEW t \in Thread, run[t].at \notin {"idle", "read"}
    PROVE  /\ run[t].entry \in Entry /\ run[t].run \in 1..MaxRuns
           /\ User(t) \in Users
BY LocalTyped, OwnerAssumption DEF Fits, User

\* The person at hand.
LEMMA PersonTyped ==
    ASSUME Typed, NEW t \in Thread, run[t].people # <<>>
    PROVE  /\ Person1(t) \in Person
           /\ Person1(t).name \in Name
           /\ Person1(t).aliases \in SUBSET Folded
           /\ Fold[Person1(t).name] \in Folded
           /\ Tail(run[t].people) \in Seq(Person)
<1>1. run[t].people \in Seq(Person)
  BY LocalTyped
<1>2. Head(run[t].people) \in Person /\ Tail(run[t].people) \in Seq(Person)
  BY <1>1, HeadTailProperties
<1> QED
  BY <1>2 DEF Person1, Person, Folded

LEMMA TablesSound == ASSUME Typed PROVE Sound(db) /\ Sound(saved)
BY DEF Typed, TypeOK, Sound

\* A commit of sound tables, or a read, leaves sound tables.
LEMMA Kept ==
    ASSUME Typed, Read \/ \E d : Commit(d) /\ Sound(d)
    PROVE  Sound(db') /\ Sound(saved')
BY TablesSound DEF Read, Commit

LEMMA ThreadFit ==
    ASSUME Typed, NEW t \in Thread, NEW l \in Local, Fits(l), Becomes(t, l),
           Sound(db'), Sound(saved'), UNCHANGED <<api, crashes>>,
           jobs' \in Seq(Job), Len(jobs') <= MaxQueue,
           runs' \in 0..MaxRuns, broken' \in BOOLEAN, faults' \in 0..MaxFaults
    PROVE  Typed'
<1>1. run' \in [Thread -> Local] /\ \A u \in Thread : Fits(run'[u])
  BY DEF Typed, TypeOK, Becomes
<1>2. TypeOK'
  BY <1>1 DEF Typed, TypeOK, Sound
<1> QED
  BY <1>1, <1>2 DEF Typed

LEMMA ThreadGoes ==
    ASSUME Typed, NEW t \in Thread, NEW l \in Local, Fits(l), Becomes(t, l),
           Sound(db'), Sound(saved'), LoopStays, broken' \in BOOLEAN
    PROVE  Typed'
<1>1. /\ UNCHANGED <<api, crashes>> /\ jobs' \in Seq(Job) /\ Len(jobs') <= MaxQueue
      /\ runs' \in 0..MaxRuns /\ faults' \in 0..MaxFaults
  BY DEF Typed, TypeOK, LoopStays
<1> QED
  BY <1>1, ThreadFit

LEMMA NotedSound ==
    ASSUME Typed, NEW t, Noted(t)
    PROVE  Read \/ \E d : Commit(d) /\ Sound(d)
BY TablesSound DEF Noted

LEMMA RaiseTyped ==
    ASSUME Typed, NEW t \in Thread, Raise(t), LoopStays
    PROVE  Typed'
<1>1. Becomes(t, Onward(t)) /\ broken' \in BOOLEAN /\ Noted(t)
  BY DEF Raise, Typed, TypeOK
<1> QED
  BY <1>1, NotedSound, OnwardFits, Kept, ThreadGoes

LEMMA HandlerGoes ==
    ASSUME Typed, NEW h \in Handler, Handles(h), api' = h, ThreadsStay,
           Sound(db'), Sound(saved'), HandlersStay
    PROVE  Typed'
BY DEF Typed, TypeOK, Sound, ThreadsStay, HandlersStay

LEMMA InitTyped == Init => Typed
<1> SUFFICES ASSUME Init PROVE Typed
  OBVIOUS
<1>1. Sound(EmptyTables)
  BY EntitiesBounds DEF Sound, EmptyTables, Tables, Linked
<1>2. run \in [Thread -> Local] /\ \A t \in Thread : Fits(run[t])
  BY NoRunFits DEF Init
<1>3. api \in Handler /\ Handles(api)
  BY EmptySeq DEF Init, NoHandler, Handler, Handles, MergeSteps
<1>4. jobs \in Seq(Job) /\ Len(jobs) <= MaxQueue
  BY EntitiesBounds, EmptySeq DEF Init
<1>5. /\ runs \in 0..MaxRuns /\ broken \in BOOLEAN
      /\ faults \in 0..MaxFaults /\ crashes \in 0..MaxCrashes
  <2>1. broken \in BOOLEAN
    BY Zenon DEF Init
  <2> QED
    BY <2>1, EntitiesBounds DEF Init
<1>6. Tables(db) /\ Tables(saved) /\ Linked(db) /\ Linked(saved)
  BY <1>1 DEF Init, Sound
<1> HIDE DEF Init
<1>7. TypeOK
  BY <1>2, <1>3, <1>4, <1>5, <1>6 DEF TypeOK
<1> QED
  BY <1>2, <1>3, <1>7 DEF Typed

-----------------------------------------------------------------------------
(* Every step of an extraction keeps the types.                            *)

LEMMA ReadEntryTyped ==
    ASSUME Typed, NEW t \in Thread, ReadEntry(t) PROVE Typed'
<1>1. /\ Read \/ Noted(t)
      /\ UNCHANGED <<broken, api, jobs, faults, crashes>>
      /\ At(t, "read")
  BY DEF ReadEntry
<1>2. Sound(db') /\ Sound(saved')
  BY <1>1, NotedSound, Kept
<1>3. /\ UNCHANGED <<api, crashes>> /\ jobs' \in Seq(Job) /\ Len(jobs') <= MaxQueue
      /\ broken' \in BOOLEAN /\ faults' \in 0..MaxFaults
  BY <1>1 DEF Typed, TypeOK
<1>4. PICK e \in run[t].todo :
          \/ /\ runs < MaxRuns /\ runs' = runs + 1
             /\ Becomes(t, [run[t] EXCEPT !.todo = @ \ {e}, !.entry = e,
                                          !.run = runs + 1, !.at = "model"])
          \/ /\ Becomes(t, Started(run[t].kind, run[t].todo \ {e}))
             /\ UNCHANGED runs
  BY DEF ReadEntry
<1>5. e \in Entry
  BY LocalTyped
<1>6. CASE /\ runs < MaxRuns /\ runs' = runs + 1
           /\ Becomes(t, [run[t] EXCEPT !.todo = @ \ {e}, !.entry = e,
                                        !.run = runs + 1, !.at = "model"])
  <2> DEFINE l == [run[t] EXCEPT !.todo = run[t].todo \ {e}, !.entry = e,
                                 !.run = runs + 1, !.at = "model"]
  <2>1. runs + 1 \in 1..MaxRuns /\ runs' \in 0..MaxRuns
    BY <1>6, EntitiesBounds DEF Typed, TypeOK
  <2>2. l \in Local /\ Fits(l)
    <3>1. l \in Local
      <4>1. /\ run[t] \in Local /\ run[t].todo \ {e} \in SUBSET Entry
            /\ runs + 1 \in 0..MaxRuns /\ "model" \in Steps
        BY <2>1, LocalTyped DEF Steps
      <4> QED
        BY <4>1, <1>5, ReadLocal
    <3>2. l.at = "model" /\ l.entry = e /\ l.run = runs + 1
      BY LocalTyped DEF Local
    <3> HIDE DEF l
    <3> QED
      BY <2>1, <1>5, <3>1, <3>2 DEF Fits, PersonSteps
  <2>3. Becomes(t, l)
    BY <1>6
  <2> HIDE DEF l
  <2> QED
    BY <1>2, <1>3, <2>1, <2>2, <2>3, ThreadFit
<1>7. CASE Becomes(t, Started(run[t].kind, run[t].todo \ {e})) /\ UNCHANGED runs
  <2>1. /\ Started(run[t].kind, run[t].todo \ {e}) \in Local
        /\ Fits(Started(run[t].kind, run[t].todo \ {e}))
    BY LocalTyped, StartedFits
  <2>2. runs' \in 0..MaxRuns
    BY <1>7 DEF Typed, TypeOK
  <2> QED
    BY <1>2, <1>3, <1>7, <2>1, <2>2, ThreadFit
<1> QED
  BY <1>4, <1>6, <1>7

\* A step to another place that needs no person.
LEMMA GotoTyped ==
    ASSUME Typed, NEW t \in Thread, NEW s \in Steps \ PersonSteps,
           run[t].at \notin {"idle", "read"}, Goto(t, s),
           Read \/ (\E d : Commit(d) /\ Sound(d)), LoopStays, UNCHANGED broken
    PROVE  Typed'
<1> DEFINE l == [run[t] EXCEPT !.at = s]
<1>1. l \in Local /\ Fits(l)
  BY LocalTyped DEF Local, Fits
<1>2. Becomes(t, l) /\ broken' \in BOOLEAN
  BY DEF Goto, Typed, TypeOK
<1> HIDE DEF l
<1> QED
  BY <1>1, <1>2, Kept, ThreadGoes

LEMMA AskTyped == ASSUME Typed, NEW t \in Thread, Ask(t) PROVE Typed'
<1>1. PICK a \in Answers :
          Becomes(t, [run[t] EXCEPT !.people = a.people, !.edges = a.edges,
                                    !.at = "snapshot"])
  BY DEF Ask
<1> DEFINE l == [run[t] EXCEPT !.people = a.people, !.edges = a.edges,
                               !.at = "snapshot"]
<1>2. a.people \in Seq(Person) /\ a.edges \in Seq(Folded \X Folded)
  BY AnswersAssumption DEF Answer
<1>3. l \in Local /\ Fits(l)
  <2>1. l \in Local
    BY <1>2, AskLocal, LocalTyped DEF Steps
  <2>2. l.at = "snapshot" /\ l.entry = run[t].entry /\ l.run = run[t].run
    BY LocalTyped DEF Local
  <2>3. run[t].at = "model"
    BY DEF Ask, At
  <2> HIDE DEF l
  <2> QED
    BY <2>2, <2>1, <2>3, LocalTyped DEF Fits, PersonSteps
<1>4. Becomes(t, l) /\ broken' \in BOOLEAN /\ Read /\ LoopStays
  BY <1>1 DEF Ask, Typed, TypeOK
<1> HIDE DEF l
<1> QED
  BY <1>3, <1>4, Kept, ThreadGoes

LEMMA SnapshotTyped ==
    ASSUME Typed, NEW t \in Thread, SnapshotPrior(t) PROVE Typed'
<1> DEFINE l == [run[t] EXCEPT !.prior = MentionedBy(run[t].entry),
                               !.at = "mentions"]
<1>1. MentionedBy(run[t].entry) \subseteq Id
  BY TablesSound DEF MentionedBy, Sound, Tables, Mention
<1>2. l \in Local /\ Fits(l)
  <2>1. l \in Local
    BY <1>1, PriorLocal, LocalTyped DEF Steps
  <2>2. l.at = "mentions" /\ l.entry = run[t].entry /\ l.run = run[t].run
    BY LocalTyped DEF Local
  <2>3. run[t].at = "snapshot"
    BY DEF SnapshotPrior, At
  <2> HIDE DEF l
  <2> QED
    BY <2>1, <2>2, <2>3, LocalTyped DEF Fits, PersonSteps
<1>3. Becomes(t, l) /\ broken' \in BOOLEAN /\ Read /\ LoopStays
  BY DEF SnapshotPrior, Typed, TypeOK
<1> HIDE DEF l
<1> QED
  BY <1>2, <1>3, Kept, ThreadGoes

LEMMA DeleteMentionsTyped ==
    ASSUME Typed, NEW t \in Thread, DeleteMentions(t) PROVE Typed'
<1> DEFINE M == {m \in db.mentions : m.entry # run[t].entry}
<1>1. Sound([db EXCEPT !.mentions = M])
  <2>1. M \subseteq Mention /\ \A m \in M : m.entity \in DOMAIN db.entities
                                              /\ m.entry \in db.live
    BY TablesSound DEF Sound, Tables, Linked
  <2> HIDE DEF M
  <2> QED
    BY <2>1, TablesSound, MentionsSet
<1>2. Commit([db EXCEPT !.mentions = M]) /\ Goto(t, "edges")
  BY DEF DeleteMentions
<1>3. LoopStays /\ UNCHANGED broken /\ run[t].at \notin {"idle", "read"}
      /\ "edges" \in Steps \ PersonSteps
  BY DEF DeleteMentions, At, Steps, PersonSteps
<1> HIDE DEF M
<1> QED
  BY <1>1, <1>2, <1>3, GotoTyped

LEMMA DeleteEdgesTyped ==
    ASSUME Typed, NEW t \in Thread, DeleteEdges(t) PROVE Typed'
<1> DEFINE R == {r \in db.edges : r.entry # run[t].entry}
<1>1. Sound([db EXCEPT !.edges = R])
  <2>1. R \subseteq Edge
        /\ \A r \in R : {r.subject, r.object} \subseteq DOMAIN db.entities
                         /\ r.entry \in db.live
    BY TablesSound DEF Sound, Tables, Linked
  <2> HIDE DEF R
  <2> QED
    BY <2>1, TablesSound, EdgesSet
<1>2. Commit([db EXCEPT !.edges = R]) /\ Goto(t, "person")
  BY DEF DeleteEdges
<1>3. LoopStays /\ UNCHANGED broken /\ run[t].at \notin {"idle", "read"}
      /\ "person" \in Steps \ PersonSteps
  BY DEF DeleteEdges, At, Steps, PersonSteps
<1> HIDE DEF R
<1> QED
  BY <1>1, <1>2, <1>3, GotoTyped

\* What the lookups return are entities of the user's.
LEMMA LookupsExist ==
    ASSUME NEW u, NEW f, NEW F
    PROVE  /\ \A x \in Named(u, f) : Exists(x) /\ db.entities[x].user = u
           /\ \A x \in Aliased(u, F) : Exists(x) /\ db.entities[x].user = u
BY DEF Named, Aliased, Exists

LEMMA MatchesExist ==
    ASSUME NEW t \in Thread
    PROVE  \A x \in Matches(t) : Exists(x) /\ db.entities[x].user = User(t)
BY LookupsExist DEF Matches

LEMMA ExistingIds == ASSUME Typed, NEW x, Exists(x) PROVE x \in Id /\ x < db.next
BY TablesSound DEF Exists, Sound, Tables, Linked

\* A step within the work on one person.
LEMMA PersonFits ==
    ASSUME Typed, NEW t \in Thread, run[t].people # <<>>,
           run[t].at \in PersonSteps \cup {"person"}, NEW l,
           l.people = run[t].people, l.entry = run[t].entry, l.run = run[t].run
    PROVE  Fits(l)
BY LocalTyped DEF Fits, PersonSteps

LEMMA ResolveTyped == ASSUME Typed, NEW t \in Thread, Resolve(t) PROVE Typed'
<1>1. /\ run[t].people # <<>> /\ At(t, "person") /\ Read /\ LoopStays
      /\ UNCHANGED broken /\ broken' \in BOOLEAN
  BY DEF Resolve, Typed, TypeOK
<1>2. CASE Matches(t) = {}
  <2> DEFINE l == [run[t] EXCEPT !.at = "embed"]
  <2>1. l \in Local /\ Fits(l)
    <3>1. l \in Local
      BY <1>1, AtLocal, LocalTyped DEF Steps
    <3>2. /\ l.people = run[t].people /\ l.entry = run[t].entry
          /\ l.run = run[t].run
      BY LocalTyped DEF Local
    <3> HIDE DEF l
    <3> QED
      BY <1>1, <3>1, <3>2, PersonFits DEF At, PersonSteps
  <2>2. Becomes(t, l)
    BY <1>2 DEF Resolve, Goto
  <2> HIDE DEF l
  <2> QED
    BY <1>1, <2>1, <2>2, Kept, ThreadGoes
<1>3. CASE Matches(t) # {}
  <2>1. PICK x \in Matches(t) :
            Becomes(t, [run[t] EXCEPT !.entity = x, !.at = "alias"])
    BY <1>3 DEF Resolve
  <2> DEFINE l == [run[t] EXCEPT !.entity = x, !.at = "alias"]
  <2>2. x \in Id
    BY MatchesExist, ExistingIds
  <2>3. l \in Local /\ Fits(l)
    <3>1. l \in Local
      BY <1>1, <2>2, EntityLocal, LocalTyped DEF Steps
    <3>2. /\ l.people = run[t].people /\ l.entry = run[t].entry
          /\ l.run = run[t].run
      BY LocalTyped DEF Local
    <3> HIDE DEF l
    <3> QED
      BY <1>1, <3>1, <3>2, PersonFits DEF At, PersonSteps
  <2>4. Becomes(t, l)
    BY <2>1
  <2> HIDE DEF l
  <2> QED
    BY <1>1, <2>3, <2>4, Kept, ThreadGoes
<1> QED
  BY <1>2, <1>3

LEMMA EmbedTyped == ASSUME Typed, NEW t \in Thread, Embed(t) PROVE Typed'
<1>1. /\ run[t].people # <<>> /\ At(t, "embed") /\ Read /\ LoopStays
      /\ UNCHANGED broken /\ broken' \in BOOLEAN
  BY LocalTyped DEF Embed, At, Fits, PersonSteps, Typed, TypeOK
<1>2. \A c : \A x \in Related(t, c) : x \in Id
  BY ExistingIds DEF Related, Exists
<1>3. CASE \E x \in Related(t, Alike) :
              Becomes(t, [run[t] EXCEPT !.entity = x, !.at = "alias"])
  <2>1. PICK x \in Related(t, Alike) :
              Becomes(t, [run[t] EXCEPT !.entity = x, !.at = "alias"])
    BY <1>3
  <2> DEFINE l == [run[t] EXCEPT !.entity = x, !.at = "alias"]
  <2>2. l \in Local /\ Fits(l)
    <3>1. l \in Local
      BY <1>1, <1>2, EntityLocal, LocalTyped DEF Steps
    <3>2. /\ l.people = run[t].people /\ l.entry = run[t].entry
          /\ l.run = run[t].run
      BY LocalTyped DEF Local
    <3> HIDE DEF l
    <3> QED
      BY <1>1, <3>1, <3>2, PersonFits DEF At, PersonSteps
  <2>3. Becomes(t, l)
    BY <2>1
  <2> HIDE DEF l
  <2> QED
    BY <1>1, <2>2, <2>3, Kept, ThreadGoes
<1>4. CASE \E x \in Related(t, Close) :
              Becomes(t, [run[t] EXCEPT !.near = x, !.at = "create"])
  <2>1. PICK x \in Related(t, Close) :
              Becomes(t, [run[t] EXCEPT !.near = x, !.at = "create"])
    BY <1>4
  <2> DEFINE l == [run[t] EXCEPT !.near = x, !.at = "create"]
  <2>2. l \in Local /\ Fits(l)
    <3>1. l \in Local
      BY <1>1, <1>2, NearLocal, LocalTyped DEF Steps
    <3>2. /\ l.people = run[t].people /\ l.entry = run[t].entry
          /\ l.run = run[t].run
      BY LocalTyped DEF Local
    <3> HIDE DEF l
    <3> QED
      BY <1>1, <3>1, <3>2, PersonFits DEF At, PersonSteps
  <2>3. Becomes(t, l)
    BY <2>1
  <2> HIDE DEF l
  <2> QED
    BY <1>1, <2>2, <2>3, Kept, ThreadGoes
<1>5. CASE Goto(t, "create")
  <2> DEFINE l == [run[t] EXCEPT !.at = "create"]
  <2>1. l \in Local /\ Fits(l)
    <3>1. l \in Local
      BY <1>1, AtLocal, LocalTyped DEF Steps
    <3>2. /\ l.people = run[t].people /\ l.entry = run[t].entry
          /\ l.run = run[t].run
      BY LocalTyped DEF Local
    <3> HIDE DEF l
    <3> QED
      BY <1>1, <3>1, <3>2, PersonFits DEF At, PersonSteps
  <2>2. Becomes(t, l)
    BY <1>5 DEF Goto
  <2> HIDE DEF l
  <2> QED
    BY <1>1, <2>1, <2>2, Kept, ThreadGoes
<1> QED
  BY <1>3, <1>4, <1>5 DEF Embed

LEMMA PersonGoes ==
    ASSUME Typed, NEW t \in Thread, run[t].people # <<>>,
           run[t].at \in PersonSteps \cup {"person"}, NEW l \in Local,
           l.people = run[t].people, l.entry = run[t].entry, l.run = run[t].run,
           Becomes(t, l), Read \/ (\E d : Commit(d) /\ Sound(d)), LoopStays,
           UNCHANGED broken
    PROVE  Typed'
<1>1. Fits(l) /\ broken' \in BOOLEAN
  BY PersonFits DEF Typed, TypeOK
<1> QED
  BY <1>1, Kept, ThreadGoes

LEMMA CreateEntityTyped ==
    ASSUME Typed, NEW t \in Thread, CreateEntity(t) PROVE Typed'
<1> DEFINE n == Person1(t).name
           l == [run[t] EXCEPT !.entity = db.next, !.at = "vector"]
<1>1. /\ run[t].people # <<>> /\ run[t].at = "create"
      /\ "create" \in PersonSteps /\ "vector" \in Steps
  BY LocalTyped DEF CreateEntity, At, Fits, PersonSteps, Steps
<1>2. n \in Name /\ User(t) \in Users
  BY <1>1, PersonTyped, UserTyped
<1>3. CASE Taken(User(t), n, {})
  BY <1>3, RaiseTyped DEF CreateEntity
<1>4. CASE ~Taken(User(t), n, {})
  <2>1. /\ db.next <= MaxEntities /\ Commit(EntityCreated(User(t), n))
        /\ Becomes(t, l) /\ UNCHANGED broken /\ LoopStays
    BY <1>4 DEF CreateEntity
  <2>2. Sound(EntityCreated(User(t), n)) /\ db.next \in Id
    BY <1>2, <2>1, CreationSound, TablesSound
  <2>3. l \in Local
    BY <1>1, <2>2, EntityLocal, LocalTyped
  <2>4. /\ l.people = run[t].people /\ l.entry = run[t].entry
        /\ l.run = run[t].run
    BY LocalTyped DEF Local
  <2> HIDE DEF l, n
  <2> QED
    BY <1>1, <2>1, <2>2, <2>3, <2>4, PersonGoes
<1> QED
  BY <1>3, <1>4

\* A row gets another vector, other aliases, or another name.
LEMMA VectorSet ==
    ASSUME Typed, NEW x, Exists(x), NEW n \in Name
    PROVE  Sound([db EXCEPT !.entities[x].vec = <<n>>])
<1> DEFINE E == [db.entities EXCEPT ![x].vec = <<n>>]
<1>1. DOMAIN E = DOMAIN db.entities /\ E \in [DOMAIN db.entities -> Entity]
  BY TablesSound DEF Exists, Sound, Tables, Entity
<1>2. [db EXCEPT !.entities[x].vec = <<n>>] = [db EXCEPT !.entities = E]
  BY TablesSound DEF Exists, Sound, Tables
<1> HIDE DEF E
<1> QED
  BY <1>1, <1>2, TablesSound, EntitiesSet

LEMMA AliasesSet ==
    ASSUME Typed, NEW x, Exists(x), NEW A \in SUBSET Folded
    PROVE  Sound([db EXCEPT !.entities[x].aliases = db.entities[x].aliases \cup A])
<1> DEFINE E == [db.entities EXCEPT ![x].aliases = db.entities[x].aliases \cup A]
<1>1. DOMAIN E = DOMAIN db.entities /\ E \in [DOMAIN db.entities -> Entity]
  BY TablesSound DEF Exists, Sound, Tables, Entity
<1>2. [db EXCEPT !.entities[x].aliases = db.entities[x].aliases \cup A]
         = [db EXCEPT !.entities = E]
  BY TablesSound DEF Exists, Sound, Tables
<1> HIDE DEF E
<1> QED
  BY <1>1, <1>2, TablesSound, EntitiesSet

LEMMA NameSet ==
    ASSUME Typed, NEW x, Exists(x), NEW n \in Name
    PROVE  Sound([db EXCEPT !.entities[x].name = n])
<1> DEFINE E == [db.entities EXCEPT ![x].name = n]
<1>1. DOMAIN E = DOMAIN db.entities /\ E \in [DOMAIN db.entities -> Entity]
  BY TablesSound DEF Exists, Sound, Tables, Entity
<1>2. [db EXCEPT !.entities[x].name = n] = [db EXCEPT !.entities = E]
  BY TablesSound DEF Exists, Sound, Tables
<1> HIDE DEF E
<1> QED
  BY <1>1, <1>2, TablesSound, EntitiesSet

LEMMA SetEmbeddingTyped ==
    ASSUME Typed, NEW t \in Thread, SetEmbedding(t) PROVE Typed'
<1> DEFINE s == IF run[t].near = None THEN "alias" ELSE "candidate"
           l == [run[t] EXCEPT !.at = s]
           d == IF Exists(run[t].entity)
                THEN [db EXCEPT !.entities[run[t].entity].vec = <<Person1(t).name>>]
                ELSE db
<1>1. /\ run[t].people # <<>> /\ run[t].at = "vector"
      /\ "vector" \in PersonSteps /\ s \in Steps
  BY LocalTyped DEF SetEmbedding, At, Fits, PersonSteps, Steps
<1>2. Sound(d)
  BY <1>1, PersonTyped, VectorSet, TablesSound
<1>3. l \in Local
  BY <1>1, AtLocal, LocalTyped
<1>4. l.people = run[t].people /\ l.entry = run[t].entry /\ l.run = run[t].run
  BY LocalTyped DEF Local
<1>5. Becomes(t, l) /\ Commit(d) /\ LoopStays /\ UNCHANGED broken
  BY DEF SetEmbedding, Goto
<1> HIDE DEF l, d
<1> QED
  BY <1>1, <1>2, <1>3, <1>4, <1>5, PersonGoes

LEMMA CreateCandidateTyped ==
    ASSUME Typed, NEW t \in Thread, CreateCandidate(t) PROVE Typed'
<1> DEFINE pair == {run[t].entity, run[t].near}
           c == [pair |-> pair, run |-> run[t].run, status |-> "pending"]
           C == db.candidates \cup {c}
           l == [run[t] EXCEPT !.near = None, !.at = "alias"]
<1>1. /\ run[t].people # <<>> /\ run[t].at = "candidate"
      /\ "candidate" \in PersonSteps /\ "alias" \in Steps
  BY LocalTyped DEF CreateCandidate, At, Fits, PersonSteps, Steps
<1>2. l \in Local
  BY <1>1, NearLocal, LocalTyped
<1>3. l.people = run[t].people /\ l.entry = run[t].entry /\ l.run = run[t].run
  BY LocalTyped DEF Local
<1>4. Becomes(t, l) /\ LoopStays /\ UNCHANGED broken
  BY DEF CreateCandidate
<1>5. Read \/ (\E d : Commit(d) /\ Sound(d))
  <2>1. CASE /\ \A x \in pair : Exists(x)
             /\ Commit([db EXCEPT !.candidates = C])
    <3>1. pair \in SUBSET Id /\ pair \subseteq DOMAIN db.entities
      BY <2>1, ExistingIds DEF Exists
    <3>2. c \in Candidate
      BY <3>1, <1>1, UserTyped DEF Candidate
    <3>3. c.pair = pair
      OBVIOUS
    <3> HIDE DEF c, pair
    <3>4. C \subseteq Candidate /\ \A k \in C : k.pair \subseteq DOMAIN db.entities
      BY <3>1, <3>2, <3>3, TablesSound DEF Sound, Tables, Linked
    <3> HIDE DEF C
    <3> QED
      BY <2>1, <3>4, TablesSound, CandidatesSet
  <2>2. CASE Read
    BY <2>2
  <2> QED
    BY <2>1, <2>2 DEF CreateCandidate
<1> HIDE DEF l
<1> QED
  BY <1>1, <1>2, <1>3, <1>4, <1>5, PersonGoes

LEMMA AddAliasesTyped ==
    ASSUME Typed, NEW t \in Thread, AddAliases(t) PROVE Typed'
<1> DEFINE x == run[t].entity
           a == IF Fold[Person1(t).name] = Author THEN x ELSE run[t].author
           l == [run[t] EXCEPT !.known = KnownAs(t), !.at = "mention", !.author = a]
           d == [db EXCEPT !.entities[x].aliases =
                    db.entities[x].aliases \cup Person1(t).aliases]
<1>1. /\ run[t].people # <<>> /\ run[t].at = "alias"
      /\ "alias" \in PersonSteps /\ "mention" \in Steps
  BY LocalTyped DEF AddAliases, At, Fits, PersonSteps, Steps
<1>2. KnownAs(t) \in [Folded -> Id \cup {None}] /\ a \in Id \cup {None}
  BY LocalTyped DEF KnownAs
<1>3. l \in Local
  BY <1>1, <1>2, KnownLocal, LocalTyped
<1>4. l.people = run[t].people /\ l.entry = run[t].entry /\ l.run = run[t].run
  BY LocalTyped DEF Local
<1>5. \/ Becomes(t, l) /\ Read /\ UNCHANGED broken
      \/ Exists(x) /\ Commit(d) /\ Becomes(t, l) /\ UNCHANGED broken
      \/ Raise(t)
  BY DEF AddAliases
<1>6. Exists(x) => Sound(d)
  BY <1>1, PersonTyped, AliasesSet
<1>7. LoopStays
  BY DEF AddAliases
<1> HIDE DEF x, l, d
<1>8. CASE Raise(t)
  BY <1>7, <1>8, RaiseTyped
<1>9. CASE Becomes(t, l) /\ UNCHANGED broken /\ (Read \/ (Commit(d) /\ Sound(d)))
  BY <1>1, <1>3, <1>4, <1>7, <1>9, PersonGoes
<1> QED
  BY <1>5, <1>6, <1>8, <1>9

\* A step to a place that needs no person.
LEMMA BodyGoes ==
    ASSUME Typed, NEW t \in Thread, run[t].at \notin {"idle", "read"},
           NEW l \in Local, l.at \notin PersonSteps,
           l.entry = run[t].entry, l.run = run[t].run,
           Becomes(t, l), Read \/ (\E d : Commit(d) /\ Sound(d)), LoopStays,
           UNCHANGED broken
    PROVE  Typed'
<1>1. Fits(l) /\ broken' \in BOOLEAN
  BY LocalTyped DEF Fits, Typed, TypeOK
<1> QED
  BY <1>1, Kept, ThreadGoes

LEMMA MentionAdded ==
    ASSUME Typed, NEW x, NEW e, Exists(x), e \in db.live, NEW r \in 1..MaxRuns
    PROVE  Sound([db EXCEPT !.mentions = db.mentions \cup
                     {[entity |-> x, entry |-> e, run |-> r]}])
<1> DEFINE m == [entity |-> x, entry |-> e, run |-> r]
           M == db.mentions \cup {m}
<1>1. m \in Mention /\ m.entity = x /\ m.entry = e
  BY ExistingIds, TablesSound DEF Mention, Sound, Tables
<1> HIDE DEF m
<1>2. M \subseteq Mention /\ \A n \in M : n.entity \in DOMAIN db.entities
                                            /\ n.entry \in db.live
  BY <1>1, TablesSound DEF Exists, Sound, Tables, Linked
<1>3. Sound([db EXCEPT !.mentions = M])
  <2> HIDE DEF M
  <2> QED
    BY <1>2, TablesSound, MentionsSet
<1> QED
  BY <1>3 DEF m

LEMMA EdgeAdded ==
    ASSUME Typed, NEW x, NEW y, NEW e, Exists(x), Exists(y), e \in db.live,
           NEW r \in 1..MaxRuns
    PROVE  Sound([db EXCEPT !.edges = db.edges \cup
                     {[subject |-> x, object |-> y, entry |-> e, run |-> r]}])
<1> DEFINE m == [subject |-> x, object |-> y, entry |-> e, run |-> r]
           M == db.edges \cup {m}
<1>1. m \in Edge /\ m.subject = x /\ m.object = y /\ m.entry = e
  BY ExistingIds, TablesSound DEF Edge, Sound, Tables
<1> HIDE DEF m
<1>2. M \subseteq Edge
      /\ \A n \in M : {n.subject, n.object} \subseteq DOMAIN db.entities
                       /\ n.entry \in db.live
  BY <1>1, TablesSound DEF Exists, Sound, Tables, Linked
<1>3. Sound([db EXCEPT !.edges = M])
  <2> HIDE DEF M
  <2> QED
    BY <1>2, TablesSound, EdgesSet
<1> QED
  BY <1>3 DEF m

LEMMA CreateMentionTyped ==
    ASSUME Typed, NEW t \in Thread, CreateMention(t) PROVE Typed'
<1> DEFINE x == run[t].entity
           e == run[t].entry
           p == Tail(run[t].people)
           l == [run[t] EXCEPT !.people = p, !.entity = None, !.at = "person"]
           d == [db EXCEPT !.mentions = db.mentions \cup
                    {[entity |-> x, entry |-> e, run |-> run[t].run]}]
<1>1. /\ run[t].people # <<>> /\ run[t].at = "mention"
      /\ "mention" \in PersonSteps /\ "person" \in Steps \ PersonSteps
  BY LocalTyped DEF CreateMention, At, Fits, PersonSteps, Steps
<1>2. p \in Seq(Person)
  BY <1>1, PersonTyped
<1>3. l \in Local
  <2> HIDE DEF p
  <2> QED
    BY <1>1, <1>2, DoneLocal, LocalTyped
<1>4. l.at = "person" /\ l.entry = run[t].entry /\ l.run = run[t].run
  BY LocalTyped DEF Local
<1>5. \/ /\ Exists(x) /\ e \in db.live /\ Commit(d) /\ Becomes(t, l)
         /\ UNCHANGED broken
      \/ Raise(t)
  BY DEF CreateMention
<1>6. Exists(x) /\ e \in db.live => Sound(d)
  BY <1>1, UserTyped, MentionAdded
<1>7. LoopStays
  BY DEF CreateMention
<1> HIDE DEF x, e, p, l, d
<1>8. CASE Raise(t)
  BY <1>7, <1>8, RaiseTyped
<1>9. CASE Becomes(t, l) /\ UNCHANGED broken /\ Commit(d) /\ Sound(d)
  BY <1>1, <1>3, <1>4, <1>7, <1>9, BodyGoes
<1> QED
  BY <1>5, <1>6, <1>8, <1>9

LEMMA EntitiesDoneTyped ==
    ASSUME Typed, NEW t \in Thread, EntitiesDone(t) PROVE Typed'
<1>1. run[t].at = "person" /\ "edge" \in Steps \ PersonSteps
  BY DEF EntitiesDone, At, Steps, PersonSteps
<1> QED
  BY <1>1, GotoTyped DEF EntitiesDone

LEMMA FindAuthorTyped ==
    ASSUME Typed, NEW t \in Thread, FindAuthor(t) PROVE Typed'
<1>1. /\ run[t].at = "edge" /\ {"author", "edge"} \subseteq Steps \ PersonSteps
      /\ Read /\ LoopStays /\ UNCHANGED broken
  BY DEF FindAuthor, At, Steps, PersonSteps
<1>2. CASE Named(User(t), Lower[AuthorName]) = {}
  BY <1>1, <1>2, GotoTyped DEF FindAuthor
<1>3. CASE Named(User(t), Lower[AuthorName]) # {}
  <2>1. PICK x \in Named(User(t), Lower[AuthorName]) :
            Becomes(t, [run[t] EXCEPT !.author = x])
    BY <1>3 DEF FindAuthor
  <2> DEFINE l == [run[t] EXCEPT !.author = x]
  <2>2. x \in Id
    BY LookupsExist, ExistingIds
  <2>3. l \in Local
    BY <1>1, <2>2, AuthorLocal, LocalTyped
  <2>4. l.at = run[t].at /\ l.entry = run[t].entry /\ l.run = run[t].run
    BY LocalTyped DEF Local
  <2>5. Becomes(t, l)
    BY <2>1
  <2> HIDE DEF l
  <2> QED
    BY <1>1, <2>3, <2>4, <2>5, BodyGoes
<1> QED
  BY <1>2, <1>3

LEMMA AuthorNamed == AuthorName \in Name
BY NameAssumption

LEMMA CreateAuthorTyped ==
    ASSUME Typed, NEW t \in Thread, CreateAuthor(t) PROVE Typed'
<1> DEFINE l == [run[t] EXCEPT !.author = db.next, !.at = "edge"]
<1>1. /\ run[t].at = "author" /\ "edge" \in Steps \ PersonSteps /\ LoopStays
  BY DEF CreateAuthor, At, Steps, PersonSteps
<1>2. AuthorName \in Name /\ User(t) \in Users
  BY <1>1, AuthorNamed, UserTyped
<1>3. CASE Taken(User(t), AuthorName, {})
  BY <1>1, <1>3, RaiseTyped DEF CreateAuthor
<1>4. CASE ~Taken(User(t), AuthorName, {})
  <2>1. /\ db.next <= MaxEntities /\ Commit(EntityCreated(User(t), AuthorName))
        /\ Becomes(t, l) /\ UNCHANGED broken
    BY <1>4 DEF CreateAuthor
  <2>2. Sound(EntityCreated(User(t), AuthorName)) /\ db.next \in Id
    BY <1>2, <2>1, CreationSound, TablesSound
  <2>3. l \in Local
    BY <1>1, <2>2, AuthorLocal, LocalTyped
  <2>4. l.at = "edge" /\ l.entry = run[t].entry /\ l.run = run[t].run
    BY LocalTyped DEF Local
  <2> HIDE DEF l
  <2> QED
    BY <1>1, <2>1, <2>2, <2>3, <2>4, BodyGoes
<1> QED
  BY <1>3, <1>4

LEMMA CreateRelationshipTyped ==
    ASSUME Typed, NEW t \in Thread, CreateRelationship(t) PROVE Typed'
<1> DEFINE r == Head(run[t].edges)
           x == EndOf(t, r[1])
           y == EndOf(t, r[2])
           e == Tail(run[t].edges)
           l == [run[t] EXCEPT !.edges = e]
           d == [db EXCEPT !.edges = db.edges \cup
                    {[subject |-> x, object |-> y, entry |-> run[t].entry,
                      run |-> run[t].run]}]
<1>1. run[t].at = "edge" /\ "edge" \notin PersonSteps /\ run[t].edges # <<>>
  BY DEF CreateRelationship, At, PersonSteps
<1>2. e \in Seq(Folded \X Folded)
  BY <1>1, LocalTyped, HeadTailProperties
<1>3. l \in Local
  <2> HIDE DEF e
  <2> QED
    BY <1>2, EdgesLocal, LocalTyped
<1>4. l.at = run[t].at /\ l.entry = run[t].entry /\ l.run = run[t].run
  BY LocalTyped DEF Local
<1>5. \/ Becomes(t, l) /\ Read /\ UNCHANGED broken
      \/ /\ Exists(x) /\ Exists(y) /\ run[t].entry \in db.live /\ Commit(d)
         /\ Becomes(t, l) /\ UNCHANGED broken
      \/ Raise(t)
  BY DEF CreateRelationship
<1>6. Exists(x) /\ Exists(y) /\ run[t].entry \in db.live => Sound(d)
  <2> HIDE DEF x, y
  <2> QED
    BY <1>1, UserTyped, EdgeAdded
<1>7. LoopStays
  BY DEF CreateRelationship
<1> HIDE DEF r, x, y, e, l, d
<1>8. CASE Raise(t)
  BY <1>7, <1>8, RaiseTyped
<1>9. CASE Becomes(t, l) /\ UNCHANGED broken /\ (Read \/ (Commit(d) /\ Sound(d)))
  BY <1>1, <1>3, <1>4, <1>7, <1>9, BodyGoes
<1> QED
  BY <1>5, <1>6, <1>8, <1>9

LEMMA EdgesDoneTyped ==
    ASSUME Typed, NEW t \in Thread, EdgesDone(t) PROVE Typed'
<1>1. run[t].at = "edge" /\ {"mark", "prune"} \subseteq Steps \ PersonSteps
  BY DEF EdgesDone, At, Steps, PersonSteps
<1> QED
  BY <1>1, GotoTyped DEF EdgesDone

LEMMA PruneTyped == ASSUME Typed, NEW t \in Thread, Prune(t) PROVE Typed'
<1>1. run[t].at = "prune" /\ "mark" \in Steps \ PersonSteps
  BY DEF Prune, At, Steps, PersonSteps
<1>2. Sound(EntitiesRemoved(db, Orphans(db, run[t].prior)))
  BY TablesSound, RemovalSound
<1> QED
  BY <1>1, <1>2, GotoTyped DEF Prune

LEMMA MarkTyped == ASSUME Typed, NEW t \in Thread, Mark(t) PROVE Typed'
<1> DEFINE S == db.stale \ {run[t].entry}
<1>1. S \subseteq db.live
  BY TablesSound DEF Sound, Linked
<1>2. Commit([db EXCEPT !.stale = S]) /\ Becomes(t, Onward(t)) /\ LoopStays
      /\ UNCHANGED broken
  BY DEF Mark, Finish
<1> HIDE DEF S
<1>3. Sound([db EXCEPT !.stale = S])
  BY <1>1, TablesSound, StaleSet
<1>4. broken' \in BOOLEAN
  BY <1>2 DEF Typed, TypeOK
<1> QED
  BY <1>2, <1>3, <1>4, Kept, OnwardFits, ThreadGoes

LEMMA ProviderFailsTyped ==
    ASSUME Typed, NEW t \in Thread, ProviderFails(t) PROVE Typed'
<1>1. Becomes(t, Onward(t)) /\ broken' \in BOOLEAN /\ Noted(t)
  BY DEF ProviderFails, Raise, Typed, TypeOK
<1>2. faults' \in 0..MaxFaults
  BY EntitiesBounds DEF ProviderFails, Typed, TypeOK
<1>3. /\ UNCHANGED <<api, crashes>> /\ jobs' \in Seq(Job) /\ Len(jobs') <= MaxQueue
      /\ runs' \in 0..MaxRuns
  BY DEF ProviderFails, Typed, TypeOK
<1> QED
  BY <1>1, <1>2, <1>3, NotedSound, Kept, OnwardFits, ThreadFit

LEMMA ExtractTyped == ASSUME Typed, NEW t \in Thread, Extract(t) PROVE Typed'
BY ReadEntryTyped, AskTyped, SnapshotTyped, DeleteMentionsTyped,
   DeleteEdgesTyped, ResolveTyped, EmbedTyped, CreateEntityTyped,
   SetEmbeddingTyped, CreateCandidateTyped, AddAliasesTyped,
   CreateMentionTyped, EntitiesDoneTyped, FindAuthorTyped, CreateAuthorTyped,
   CreateRelationshipTyped, EdgesDoneTyped, PruneTyped, MarkTyped,
   ProviderFailsTyped DEF Extract

-----------------------------------------------------------------------------
(* Every step of the clients keeps the types.                              *)

\* A step that leaves the threads and the tables' shape alone.
LEMMA QueueGoes ==
    ASSUME Typed, Read \/ (\E d : Commit(d) /\ Sound(d)), ThreadsStay,
           NEW j \in Job, Len(jobs) < MaxQueue, jobs' = Append(jobs, j),
           UNCHANGED <<api, runs, faults, crashes>>
    PROVE  Typed'
<1>1. Sound(db') /\ Sound(saved')
  BY Kept
<1>2. jobs' \in Seq(Job) /\ Len(jobs') <= MaxQueue
  BY AppendProperties, EntitiesBounds DEF Typed, TypeOK
<1> QED
  BY <1>1, <1>2 DEF Typed, TypeOK, Sound, ThreadsStay

LEMMA SubmitTyped ==
    ASSUME Typed, NEW k, NEW e \in Entry \cup {None}, NEW u \in Users,
           Submit(k, e, u)
    PROVE  Typed'
<1>1. [kind |-> k, entry |-> e, user |-> u] \in Job
  BY DEF Submit, Job
<1> QED
  BY <1>1, TablesSound, QueueGoes DEF Submit

LEMMA EditEntryTyped ==
    ASSUME Typed, NEW e \in Entry, EditEntry(e) PROVE Typed'
<1> DEFINE S == db.stale \cup {e}
           j == [kind |-> "one", entry |-> e, user |-> Owner[e]]
<1>1. j \in Job
  BY OwnerAssumption DEF Job
<1>2. S \subseteq db.live
  BY TablesSound DEF EditEntry, Sound, Linked
<1>3. /\ Commit([db EXCEPT !.stale = S]) /\ jobs' = Append(jobs, j)
      /\ Len(jobs) < MaxQueue /\ ThreadsStay
      /\ UNCHANGED <<api, runs, faults, crashes>>
  BY DEF EditEntry
<1> HIDE DEF S, j
<1>4. Sound([db EXCEPT !.stale = S])
  BY <1>2, TablesSound, StaleSet
<1> QED
  BY <1>1, <1>3, <1>4, QueueGoes

LEMMA BatchTyped == \A k, u : BatchOf(k, u) \subseteq db.live
BY DEF BatchOf

\* A thread begins a job or a call.
LEMMA StartGoes ==
    ASSUME Typed, NEW t \in Thread, NEW k \in {"one", "stale", "all"},
           NEW E \in SUBSET Entry, Becomes(t, Started(k, E)), Read \/ Commit(db),
           UNCHANGED <<broken, api, runs, faults, crashes>>,
           jobs' \in Seq(Job), Len(jobs') <= MaxQueue
    PROVE  Typed'
<1>1. Sound(db') /\ Sound(saved')
  BY TablesSound, Kept
<1>2. Started(k, E) \in Local /\ Fits(Started(k, E))
  BY StartedFits
<1>3. /\ runs' \in 0..MaxRuns /\ broken' \in BOOLEAN /\ faults' \in 0..MaxFaults
      /\ UNCHANGED <<api, crashes>>
  BY DEF Typed, TypeOK
<1> QED
  BY <1>1, <1>2, <1>3, ThreadFit

LEMMA StartJobTyped == ASSUME Typed, StartJob PROVE Typed'
<1> DEFINE j == Head(jobs)
           E == IF j.kind = "one" THEN {j.entry} ELSE BatchOf(j.kind, j.user)
<1>1. jobs \in Seq(Job) /\ jobs # <<>> /\ Len(jobs) <= MaxQueue
  BY DEF StartJob, Typed, TypeOK
<1>2. j \in Job /\ Tail(jobs) \in Seq(Job) /\ Len(Tail(jobs)) <= MaxQueue
  BY <1>1, HeadTailProperties, EntitiesBounds
<1>3. db.live \subseteq Entry
  BY TablesSound DEF Sound, Tables
<1>4. j.kind \in {"one", "stale", "all"} /\ E \in SUBSET Entry
  BY <1>2, <1>3, BatchTyped DEF Job
<1>5. /\ Becomes("worker", Started(j.kind, E)) /\ jobs' = Tail(jobs) /\ Commit(db)
      /\ UNCHANGED <<broken, api, runs, faults, crashes>>
  BY DEF StartJob
<1> HIDE DEF j, E
<1> QED
  BY <1>2, <1>4, <1>5, StartGoes

LEMMA CallToolTyped ==
    ASSUME Typed, NEW k, NEW e \in Entry \cup {None}, NEW u \in Users,
           CallTool(k, e, u)
    PROVE  Typed'
<1> DEFINE E == IF k = "one" THEN {e} ELSE BatchOf(k, u)
<1>1. db.live \subseteq Entry
  BY TablesSound DEF Sound, Tables
<1>2. k \in {"one", "stale", "all"} /\ E \in SUBSET Entry
  BY <1>1, BatchTyped DEF CallTool
<1>3. /\ Becomes("loop", Started(k, E)) /\ Read
      /\ UNCHANGED <<broken, api, jobs, runs, faults, crashes>>
  BY DEF CallTool
<1>4. jobs' \in Seq(Job) /\ Len(jobs') <= MaxQueue
  BY <1>3 DEF Typed, TypeOK
<1> HIDE DEF E
<1> QED
  BY <1>2, <1>3, <1>4, StartGoes

LEMMA NoHandlerFits == NoHandler \in Handler /\ Handles(NoHandler)
BY EmptySeq DEF NoHandler, Handler, Handles, MergeSteps

LEMMA HandlerTyped ==
    ASSUME Typed
    PROVE  /\ api \in Handler /\ Handles(api) /\ api.aliases \in SUBSET Folded
           /\ api.absorbed \in Seq(Id)
BY DEF Typed, TypeOK, Handler

\* A handler commits, reads or writes, and goes on.
LEMMA HandlerStep ==
    ASSUME Typed, NEW h \in Handler, Handles(h), Handled(h), ThreadsStay,
           Read \/ (\E d : (Commit(d) \/ Write(d)) /\ Sound(d)), HandlersStay
    PROVE  Typed'
<1>1. Sound(db') /\ Sound(saved')
  BY TablesSound DEF Read, Commit, Write
<1> QED
  BY <1>1, HandlerGoes DEF Handled

LEMMA DeleteEntryTyped ==
    ASSUME Typed, NEW e \in Entry, DeleteEntry(e) PROVE Typed'
<1> DEFINE X == MentionedBy(e)
           h == [NoHandler EXCEPT !.at = "remove", !.entry = e, !.prior = X]
<1>1. X \subseteq Id
  BY TablesSound DEF MentionedBy, Sound, Tables, Mention
<1>2. Handled(h) /\ Read /\ ThreadsStay /\ HandlersStay
  BY DEF DeleteEntry
<1> HIDE DEF X
<1>3. h \in Handler /\ Handles(h)
  BY <1>1, EmptySeq DEF NoHandler, Handler, Handles, MergeSteps
<1> HIDE DEF h
<1> QED
  BY <1>2, <1>3, HandlerStep

LEMMA RemoveEntryTyped == ASSUME Typed, RemoveEntry PROVE Typed'
<1> DEFINE h == [api EXCEPT !.at = "prune"]
<1>1. /\ Commit(EntryRemoved(db, api.entry)) /\ ThreadsStay /\ HandlersStay
      /\ Handled(NoHandler) \/ Handled(h)
      /\ api.at = "remove"
  BY DEF RemoveEntry
<1>2. Sound(EntryRemoved(db, api.entry))
  BY TablesSound, EntryRemovalSound
<1>3. h \in Handler /\ Handles(h)
  BY <1>1, HandlerTyped DEF Handler, Handles, MergeSteps
<1> HIDE DEF h
<1> QED
  BY <1>1, <1>2, <1>3, NoHandlerFits, HandlerStep

LEMMA PruneEntryTyped == ASSUME Typed, PruneEntry PROVE Typed'
<1>1. Sound(EntitiesRemoved(db, Orphans(db, api.prior)))
  BY TablesSound, RemovalSound
<1> QED
  BY <1>1, NoHandlerFits, HandlerStep DEF PruneEntry

LEMMA IdleStep ==
    ASSUME Typed, NEW d, Sound(d), Commit(d), ThreadsStay, UNCHANGED api,
           HandlersStay
    PROVE  Typed'
BY HandlerTyped, HandlerStep DEF Handled

LEMMA RenameEntityTyped ==
    ASSUME Typed, NEW x, NEW n \in Name, RenameEntity(x, n) PROVE Typed'
BY NameSet, IdleStep DEF RenameEntity

LEMMA DropEntityTyped ==
    ASSUME Typed, NEW x, DropEntity(x) PROVE Typed'
BY TablesSound, RemovalSound, IdleStep DEF DropEntity

LEMMA ResolveCandidateTyped ==
    ASSUME Typed, NEW c \in db.candidates, NEW s \in {"accepted", "dismissed"},
           ResolveCandidate(c, s)
    PROVE  Typed'
<1> DEFINE k == [c EXCEPT !.status = s]
           C == (db.candidates \ {c}) \cup {k}
<1>1. c \in Candidate /\ c.pair \subseteq DOMAIN db.entities
  BY TablesSound DEF Sound, Tables, Linked
<1>2. k \in Candidate /\ k.pair = c.pair
  BY <1>1 DEF Candidate
<1>3. /\ Commit([db EXCEPT !.candidates = C]) /\ ThreadsStay /\ UNCHANGED api
      /\ HandlersStay
  BY DEF ResolveCandidate
<1> HIDE DEF k
<1>4. C \subseteq Candidate /\ \A o \in C : o.pair \subseteq DOMAIN db.entities
  BY <1>1, <1>2, TablesSound DEF Sound, Tables, Linked
<1> HIDE DEF C
<1>5. Sound([db EXCEPT !.candidates = C])
  BY <1>4, TablesSound, CandidatesSet
<1> QED
  BY <1>3, <1>5, IdleStep

LEMMA MergeEntitiesTyped ==
    ASSUME Typed, NEW x \in Id, NEW L \in MergeLists, MergeEntities(x, L)
    PROVE  Typed'
<1> DEFINE h == [NoHandler EXCEPT !.at = "record", !.survivor = x, !.absorbed = L]
<1>1. L \in Seq(Id)
  <2>1. CASE \E y \in Id : L = <<y>>
    BY <2>1
  <2>2. CASE \E y, z \in Id : L = <<y, z>>
    BY <2>2
  <2> QED
    BY <2>1, <2>2 DEF MergeLists
<1>2. h \in Handler /\ Handles(h)
  BY <1>1 DEF NoHandler, Handler, Handles, MergeSteps
<1>3. Handled(h) /\ Read /\ ThreadsStay /\ HandlersStay
  BY DEF MergeEntities
<1> HIDE DEF h
<1> QED
  BY <1>2, <1>3, HandlerStep

\* A merge that gives up.
LEMMA GiveUpTyped ==
    ASSUME Typed, GiveUp, ThreadsStay, HandlersStay PROVE Typed'
BY NoHandlerFits, HandlerStep DEF GiveUp

LEMMA AbsorbedTyped ==
    ASSUME Typed, api.at \in MergeSteps \/ (api.at = "record" /\ api.absorbed # <<>>)
    PROVE  /\ Absorbed \in Id /\ Tail(api.absorbed) \in Seq(Id)
           /\ api.survivor \in Id /\ api.absorbed # <<>>
BY HandlerTyped, HeadTailProperties DEF Absorbed, Handles, MergeSteps

LEMMA MergeRecordTyped == ASSUME Typed, MergeRecord PROVE Typed'
<1> DEFINE n == db.entities[Absorbed].name
           A == (db.entities[Absorbed].aliases \cup {Fold[n]})
                   \ {Fold[db.entities[api.survivor].name]}
           r == HistoryRow
           H == db.history \cup {r}
           h == [api EXCEPT !.at = "mentions", !.aliases = A]
<1>1. ThreadsStay /\ HandlersStay /\ api.at = "record" /\ api.absorbed # <<>>
  BY DEF MergeRecord
<1>2. Absorbed \in Id /\ api.survivor \in Id
  BY <1>1, AbsorbedTyped
<1>3. CASE ~(Exists(Absorbed) /\ Absorbed # api.survivor /\ Exists(api.survivor))
  BY <1>1, <1>3, GiveUpTyped DEF MergeRecord
<1>4. CASE Exists(Absorbed) /\ Absorbed # api.survivor /\ Exists(api.survivor)
  <2>1. Write([db EXCEPT !.history = H]) /\ Handled(h)
    BY <1>4 DEF MergeRecord
  <2>2. n \in Name /\ db.entities[Absorbed].aliases \in SUBSET Folded
    BY <1>4, TablesSound DEF Exists, Sound, Tables, Entity
  <2>3. A \in SUBSET Folded
    BY <2>2 DEF Folded
  <2>4. r \in History /\ r.survivor = api.survivor
    <3>1. db.entities[api.survivor].name \in Name
      BY <1>4, TablesSound DEF Exists, Sound, Tables, Entity
    <3> QED
      BY <1>2, <2>2, <3>1 DEF HistoryRow, History
  <2> HIDE DEF r, n, A
  <2>5. H \subseteq History /\ \A o \in H : o.survivor \in DOMAIN db.entities
    BY <1>4, <2>4, TablesSound DEF Exists, Sound, Tables, Linked
  <2> HIDE DEF H
  <2>6. Sound([db EXCEPT !.history = H])
    BY <2>5, TablesSound, HistorySet
  <2>7. h \in Handler /\ Handles(h)
    BY <1>1, <1>2, <2>3, HandlerTyped DEF Handler, Handles, MergeSteps
  <2> HIDE DEF h
  <2> QED
    BY <1>1, <2>1, <2>6, <2>7, HandlerStep
<1> QED
  BY <1>3, <1>4

\* A merge goes on to its next statement.
LEMMA MergeOn ==
    ASSUME Typed, api.at \in MergeSteps, NEW s \in MergeSteps,
           Handled([api EXCEPT !.at = s]), NEW d, Sound(d), Write(d),
           ThreadsStay, HandlersStay
    PROVE  Typed'
<1> DEFINE h == [api EXCEPT !.at = s]
<1>1. h \in Handler /\ Handles(h)
  BY HandlerTyped, AbsorbedTyped DEF Handler, Handles, MergeSteps
<1>2. Handled(h)
  OBVIOUS
<1> HIDE DEF h
<1> QED
  BY <1>1, <1>2, HandlerStep

LEMMA MergeMentionsTyped == ASSUME Typed, MergeMentions PROVE Typed'
<1> DEFINE M == {[m EXCEPT !.entity = Moved(m.entity)] : m \in db.mentions}
<1>1. /\ ThreadsStay /\ HandlersStay
      /\ api.at \in MergeSteps /\ "edges" \in MergeSteps
  BY DEF MergeMentions, MergeSteps
<1>2. CASE Mentioned(db, Absorbed) /\ ~Exists(api.survivor)
  BY <1>1, <1>2, GiveUpTyped DEF MergeMentions
<1>3. CASE ~(Mentioned(db, Absorbed) /\ ~Exists(api.survivor))
  <2>1. Write([db EXCEPT !.mentions = M]) /\ Handled([api EXCEPT !.at = "edges"])
    BY <1>3 DEF MergeMentions
  <2>2. \A m \in db.mentions : Exists(Moved(m.entity))
    BY <1>3, TablesSound DEF Mentioned, Moved, Exists, Sound, Linked
  <2>3. \A m \in db.mentions :
           LET k == [m EXCEPT !.entity = Moved(m.entity)]
           IN  k \in Mention /\ k.entity \in DOMAIN db.entities /\ k.entry \in db.live
    BY <2>2, ExistingIds, TablesSound DEF Exists, Sound, Tables, Linked, Mention
  <2>4. M \subseteq Mention /\ \A m \in M : m.entity \in DOMAIN db.entities
                                              /\ m.entry \in db.live
    BY <2>3
  <2> HIDE DEF M
  <2>5. Sound([db EXCEPT !.mentions = M])
    BY <2>4, TablesSound, MentionsSet
  <2> QED
    BY <1>1, <2>1, <2>5, MergeOn
<1> QED
  BY <1>2, <1>3

LEMMA MergeEdgesTyped == ASSUME Typed, MergeEdges PROVE Typed'
<1> DEFINE R == {[r EXCEPT !.subject = Moved(r.subject), !.object = Moved(r.object)] :
                    r \in db.edges}
           stop == /\ \E r \in db.edges : Absorbed \in {r.subject, r.object}
                   /\ ~Exists(api.survivor)
<1>1. /\ ThreadsStay /\ HandlersStay
      /\ api.at \in MergeSteps /\ "aliases" \in MergeSteps
  BY DEF MergeEdges, MergeSteps
<1>2. CASE stop
  BY <1>1, <1>2, GiveUpTyped DEF MergeEdges
<1>3. CASE ~stop
  <2>1. Write([db EXCEPT !.edges = R]) /\ Handled([api EXCEPT !.at = "aliases"])
    BY <1>3 DEF MergeEdges
  <2>2. \A r \in db.edges : Exists(Moved(r.subject)) /\ Exists(Moved(r.object))
    BY <1>3, TablesSound DEF Moved, Exists, Sound, Linked
  <2>3. \A r \in db.edges :
           LET k == [r EXCEPT !.subject = Moved(r.subject), !.object = Moved(r.object)]
           IN  /\ k \in Edge /\ k.entry \in db.live
               /\ k.subject \in DOMAIN db.entities /\ k.object \in DOMAIN db.entities
    BY <2>2, ExistingIds, TablesSound DEF Exists, Sound, Tables, Linked, Edge
  <2>4. R \subseteq Edge
        /\ \A r \in R : {r.subject, r.object} \subseteq DOMAIN db.entities
                         /\ r.entry \in db.live
    BY <2>3
  <2> HIDE DEF R
  <2>5. Sound([db EXCEPT !.edges = R])
    BY <2>4, TablesSound, EdgesSet
  <2> QED
    BY <1>1, <2>1, <2>5, MergeOn
<1> QED
  BY <1>2, <1>3

LEMMA MergeAliasesTyped == ASSUME Typed, MergeAliases PROVE Typed'
<1> DEFINE x == api.survivor
           d == IF Exists(x)
                THEN [db EXCEPT !.entities[x].aliases =
                         db.entities[x].aliases \cup api.aliases]
                ELSE db
<1>1. /\ ThreadsStay /\ HandlersStay
      /\ api.at \in MergeSteps /\ "drop" \in MergeSteps
  BY DEF MergeAliases, MergeSteps
<1>2. \/ GiveUp
      \/ Write(d) /\ Handled([api EXCEPT !.at = "drop"])
  BY DEF MergeAliases
<1>3. Sound(d)
  BY HandlerTyped, AliasesSet, TablesSound
<1> HIDE DEF d
<1> QED
  BY <1>1, <1>2, <1>3, GiveUpTyped, MergeOn

LEMMA MergeDropTyped == ASSUME Typed, MergeDrop PROVE Typed'
<1> DEFINE h == [api EXCEPT !.at = "record", !.absorbed = Tail(api.absorbed),
                            !.aliases = {}]
<1>1. /\ ThreadsStay /\ HandlersStay /\ api.at \in MergeSteps /\ Handled(h)
      /\ Write(EntitiesRemoved(db, {Absorbed}))
  BY DEF MergeDrop, MergeSteps
<1>2. h \in Handler /\ Handles(h)
  <2>1. Tail(api.absorbed) \in Seq(Id) /\ api.survivor \in Id
    BY <1>1, AbsorbedTyped
  <2> QED
    BY <2>1, HandlerTyped DEF Handler, Handles, MergeSteps
<1>3. Sound(EntitiesRemoved(db, {Absorbed}))
  BY TablesSound, RemovalSound
<1> HIDE DEF h
<1> QED
  BY <1>1, <1>2, <1>3, HandlerStep

LEMMA MergeCommitTyped == ASSUME Typed, MergeCommit PROVE Typed'
BY TablesSound, NoHandlerFits, HandlerStep DEF MergeCommit

LEMMA CrashTyped == ASSUME Typed, Crash PROVE Typed'
<1>1. Sound(db') /\ Sound(saved')
  BY TablesSound DEF Crash
<1>2. run' \in [Thread -> Local] /\ \A t \in Thread : Fits(run'[t])
  BY NoRunFits DEF Crash
<1>3. api' \in Handler /\ Handles(api')
  BY NoHandlerFits DEF Crash
<1>4. jobs' \in Seq(Job) /\ Len(jobs') <= MaxQueue
  BY EmptySeq, EntitiesBounds DEF Crash
<1>5. broken' \in BOOLEAN
  BY DEF Crash, Typed, TypeOK
<1>6. runs' \in 0..MaxRuns /\ faults' \in 0..MaxFaults /\ crashes' \in 0..MaxCrashes
  BY EntitiesBounds DEF Crash, Typed, TypeOK
<1>7. TypeOK'
  BY <1>1, <1>2, <1>3, <1>4, <1>5, <1>6 DEF TypeOK, Sound
<1> QED
  BY <1>2, <1>3, <1>7 DEF Typed

LEMMA NextTyped == ASSUME Typed, [Next]_vars PROVE Typed'
<1>1. CASE UNCHANGED vars
  BY <1>1 DEF vars, Typed, TypeOK
<1>2. CASE Rest
  BY <1>2, SubmitTyped, CallToolTyped, EditEntryTyped, DeleteEntryTyped,
     RemoveEntryTyped, PruneEntryTyped, DropEntityTyped, RenameEntityTyped,
     ResolveCandidateTyped, MergeEntitiesTyped, MergeRecordTyped,
     MergeMentionsTyped, MergeEdgesTyped, MergeAliasesTyped, MergeDropTyped,
     MergeCommitTyped DEF Rest
<1> QED
  BY <1>1, <1>2, StartJobTyped, ExtractTyped, CrashTyped DEF Next

\* Every variable keeps its type and every row refers to rows that exist, in
\* what the process sees and in what a crash would leave, through whatever
\* interleaving of extractions, deletes and half-done merges.
THEOREM EntitiesTyped == Spec => []TypeOK
<1>1. Typed => TypeOK
  BY DEF Typed
<1> QED
  BY <1>1, InitTyped, NextTyped, PTL DEF Spec

-----------------------------------------------------------------------------
(* One extraction's results for each entry, as long as the worker is the   *)
(* only one to extract.                                                    *)

OneRun(d) ==
    /\ \A m, n \in d.mentions : m.entry = n.entry => m.run = n.run
    /\ \A r, q \in d.edges : r.entry = q.entry => r.run = q.run

Worker == run["worker"]
PastMentions == Steps \ {"idle", "read", "model", "snapshot", "mentions"}
PastEdges == PastMentions \ {"edges"}

\* Once the worker has removed the results of the run before, those of its
\* entry are its own.
Alone ==
    /\ At("loop", "idle")
    /\ OneRun(db) /\ OneRun(saved)
    /\ Worker.at \in PastMentions =>
          \A m \in db.mentions : m.entry = Worker.entry => m.run = Worker.run
    /\ Worker.at \in PastEdges =>
          \A r \in db.edges : r.entry = Worker.entry => r.run = Worker.run

\* Each row tells of the same entry and run as some row now.
Fewer(d) ==
    /\ \A m \in d.mentions : \E n \in db.mentions :
          n.entry = m.entry /\ n.run = m.run
    /\ \A r \in d.edges : \E q \in db.edges :
          q.entry = r.entry /\ q.run = r.run

\* A local state of which Alone asks no more than of the present one.
Keeps(l) ==
    \/ l.at \notin PastMentions
    \/ /\ l.entry = Worker.entry /\ l.run = Worker.run
       /\ Worker.at \in PastMentions
       /\ l.at \in PastEdges => Worker.at \in PastEdges

LEMMA DbRecord ==
    ASSUME Typed
    PROVE  db = [live |-> db.live, stale |-> db.stale, entities |-> db.entities,
                 next |-> db.next, mentions |-> db.mentions, edges |-> db.edges,
                 candidates |-> db.candidates, history |-> db.history]
BY TablesSound DEF Sound, Tables

LEMMA FewerRows ==
    ASSUME Typed
    PROVE  /\ Fewer(db)
           /\ \A M : M \subseteq db.mentions => Fewer([db EXCEPT !.mentions = M])
           /\ \A R : R \subseteq db.edges => Fewer([db EXCEPT !.edges = R])
           /\ \A S : Fewer([db EXCEPT !.stale = S])
           /\ \A C : Fewer([db EXCEPT !.candidates = C])
           /\ \A H : Fewer([db EXCEPT !.history = H])
           /\ \A E : Fewer([db EXCEPT !.entities = E])
<1>1. Fewer(db)
  BY DEF Fewer
<1>2. ASSUME NEW M, M \subseteq db.mentions PROVE Fewer([db EXCEPT !.mentions = M])
  BY <1>2, DbRecord DEF Fewer
<1>3. ASSUME NEW R, R \subseteq db.edges PROVE Fewer([db EXCEPT !.edges = R])
  BY <1>3, DbRecord DEF Fewer
<1>4. \A S : Fewer([db EXCEPT !.stale = S])
  BY DbRecord DEF Fewer
<1>5. \A C : Fewer([db EXCEPT !.candidates = C])
  BY DbRecord DEF Fewer
<1>6. \A H : Fewer([db EXCEPT !.history = H])
  BY DbRecord DEF Fewer
<1>7. \A E : Fewer([db EXCEPT !.entities = E])
  BY DbRecord DEF Fewer
<1> QED
  BY <1>1, <1>2, <1>3, <1>4, <1>5, <1>6, <1>7

LEMMA FewerRemoved ==
    /\ \A X : Fewer(EntitiesRemoved(db, X))
    /\ \A e : Fewer(EntryRemoved(db, e))
    /\ \A u, n : Fewer(EntityCreated(u, n))
BY DEF Fewer, EntitiesRemoved, EntryRemoved, EntityCreated

\* The tables shrink or stay.
Shrinks == Read \/ \E d : (Commit(d) \/ Write(d)) /\ Fewer(d)

LEMMA AloneKept ==
    ASSUME Typed, Alone, Shrinks, run'["loop"].at = "idle", Keeps(run'["worker"])
    PROVE  Alone'
<1>1. Fewer(db') /\ saved' \in {saved, db'}
  BY FewerRows DEF Shrinks, Read, Commit, Write
<1>2. OneRun(db') /\ OneRun(saved')
  BY <1>1 DEF Alone, OneRun, Fewer
<1>3. ASSUME run'["worker"].at \in PastMentions
      PROVE  \A m \in db'.mentions :
                m.entry = run'["worker"].entry => m.run = run'["worker"].run
  BY <1>1, <1>3 DEF Alone, Fewer, Keeps, Worker
<1>4. ASSUME run'["worker"].at \in PastEdges
      PROVE  \A r \in db'.edges :
                r.entry = run'["worker"].entry => r.run = run'["worker"].run
  BY <1>1, <1>4 DEF Alone, Fewer, Keeps, Worker, PastEdges
<1> QED
  BY <1>2, <1>3, <1>4 DEF Alone, Worker, At, OneRun

LEMMA WorkerGoes ==
    ASSUME Typed, Alone, Shrinks, NEW l, Becomes("worker", l), Keeps(l)
    PROVE  Alone'
<1>1. run'["worker"] = l /\ run'["loop"].at = "idle"
  BY DEF Becomes, Alone, At, Typed, TypeOK
<1> QED
  BY <1>1, AloneKept

LEMMA NoneGoes ==
    ASSUME Typed, Alone, Shrinks, UNCHANGED run PROVE Alone'
<1>1. Keeps(run'["worker"]) /\ run'["loop"].at = "idle"
  BY DEF Alone, At, Keeps, Worker
<1> QED
  BY <1>1, AloneKept

LEMMA OnwardKeeps == ASSUME Typed PROVE Keeps(Onward("worker"))
BY LocalTyped, StartedFits DEF Onward, Keeps, PastMentions

LEMMA RaiseAlone ==
    ASSUME Typed, Alone, Raise("worker") PROVE Alone'
<1>1. Shrinks
  BY FewerRows DEF Raise, Noted, Shrinks
<1> QED
  BY <1>1, OnwardKeeps, WorkerGoes DEF Raise

\* A step after both deletes.
LEMMA BodyKeeps ==
    ASSUME Typed, NEW l, l.entry = Worker.entry, l.run = Worker.run,
           Worker.at \in PastEdges
    PROVE  Keeps(l)
BY DEF Keeps, PastEdges

\* What the assignments of an extraction leave alone.
LEMMA Assigned ==
    ASSUME NEW r \in Local
    PROVE  /\ \A a : /\ [r EXCEPT !.at = a].entry = r.entry
                     /\ [r EXCEPT !.at = a].run = r.run
                     /\ [r EXCEPT !.at = a].at = a
           /\ \A x, a : /\ [r EXCEPT !.entity = x, !.at = a].entry = r.entry
                        /\ [r EXCEPT !.entity = x, !.at = a].run = r.run
           /\ \A x, a : /\ [r EXCEPT !.near = x, !.at = a].entry = r.entry
                        /\ [r EXCEPT !.near = x, !.at = a].run = r.run
           /\ \A k, a, x :
                 /\ [r EXCEPT !.known = k, !.at = a, !.author = x].entry = r.entry
                 /\ [r EXCEPT !.known = k, !.at = a, !.author = x].run = r.run
           /\ \A p, x, a :
                 /\ [r EXCEPT !.people = p, !.entity = x, !.at = a].entry = r.entry
                 /\ [r EXCEPT !.people = p, !.entity = x, !.at = a].run = r.run
           /\ \A x : /\ [r EXCEPT !.author = x].entry = r.entry
                     /\ [r EXCEPT !.author = x].run = r.run
           /\ \A x, a : /\ [r EXCEPT !.author = x, !.at = a].entry = r.entry
                        /\ [r EXCEPT !.author = x, !.at = a].run = r.run
           /\ \A e : /\ [r EXCEPT !.edges = e].entry = r.entry
                     /\ [r EXCEPT !.edges = e].run = r.run
BY DEF Local

LEMMA AloneReads ==
    ASSUME Typed, Alone, NEW w, w = "worker",
           ReadEntry(w) \/ Ask(w) \/ SnapshotPrior(w)
    PROVE  Alone'
<1>1. Shrinks
  BY FewerRows DEF Shrinks, Noted, ReadEntry, Ask, SnapshotPrior
<1>2. \E l : Becomes(w, l) /\ l.at \notin PastMentions
  <2>1. CASE ReadEntry(w)
    <3>1. PICK e \in run[w].todo :
             \/ Becomes(w, [run[w] EXCEPT !.todo = @ \ {e}, !.entry = e,
                                          !.run = runs + 1, !.at = "model"])
             \/ Becomes(w, Started(run[w].kind, run[w].todo \ {e}))
      BY <2>1 DEF ReadEntry
    <3>2. [run[w] EXCEPT !.todo = run[w].todo \ {e}, !.entry = e,
                         !.run = runs + 1, !.at = "model"].at = "model"
      BY LocalTyped DEF Local
    <3>3. Started(run[w].kind, run[w].todo \ {e}).at \in {"idle", "read"}
      BY LocalTyped, StartedFits
    <3> QED
      BY <3>1, <3>2, <3>3 DEF PastMentions
  <2>2. CASE Ask(w)
    <3>1. PICK a \in Answers :
             Becomes(w, [run[w] EXCEPT !.people = a.people, !.edges = a.edges,
                                       !.at = "snapshot"])
      BY <2>2 DEF Ask
    <3>2. [run[w] EXCEPT !.people = a.people, !.edges = a.edges,
                         !.at = "snapshot"].at = "snapshot"
      BY LocalTyped DEF Local
    <3> QED
      BY <3>1, <3>2 DEF PastMentions
  <2>3. CASE SnapshotPrior(w)
    <3>1. [run[w] EXCEPT !.prior = MentionedBy(run[w].entry),
                         !.at = "mentions"].at = "mentions"
      BY LocalTyped DEF Local
    <3> QED
      BY <2>3, <3>1 DEF SnapshotPrior, PastMentions
  <2> QED
    BY <2>1, <2>2, <2>3
<1> QED
  BY <1>1, <1>2, WorkerGoes DEF Keeps

\* A step after both deletes, to a local state of the same extraction.
LEMMA BodyAlone ==
    ASSUME Typed, Alone, Shrinks, NEW l, Becomes("worker", l),
           l.entry = Worker.entry, l.run = Worker.run, Worker.at \in PastEdges
    PROVE  Alone'
BY BodyKeeps, WorkerGoes

LEMMA GotoAlone ==
    ASSUME Typed, Alone, Shrinks, NEW a, Goto("worker", a), Worker.at \in PastEdges
    PROVE  Alone'
BY LocalTyped, Assigned, BodyKeeps, WorkerGoes DEF Goto, Worker

LEMMA AloneLookups ==
    ASSUME Typed, Alone, NEW w, w = "worker",
           Resolve(w) \/ Embed(w) \/ EntitiesDone(w) \/ FindAuthor(w) \/ EdgesDone(w)
    PROVE  Alone'
<1>1. Shrinks /\ Worker.at \in PastEdges
  BY DEF Shrinks, Resolve, Embed, EntitiesDone, FindAuthor, EdgesDone, At, Worker,
         PastEdges, PastMentions, Steps
<1>2. \/ \E a : Goto(w, a)
      \/ \E x : Becomes(w, [run[w] EXCEPT !.entity = x, !.at = "alias"])
      \/ \E x : Becomes(w, [run[w] EXCEPT !.near = x, !.at = "create"])
      \/ \E x : Becomes(w, [run[w] EXCEPT !.author = x])
  BY DEF Resolve, Embed, EntitiesDone, FindAuthor, EdgesDone
<1>3. CASE \E a : Goto(w, a)
  BY <1>1, <1>3, GotoAlone
<1>4. CASE \E x : Becomes(w, [run[w] EXCEPT !.entity = x, !.at = "alias"])
  <2>1. PICK x : Becomes(w, [run[w] EXCEPT !.entity = x, !.at = "alias"])
    BY <1>4
  <2> DEFINE l == [run[w] EXCEPT !.entity = x, !.at = "alias"]
  <2>2. l.entry = Worker.entry /\ l.run = Worker.run
    BY LocalTyped, Assigned DEF Worker
  <2>3. Becomes("worker", l)
    BY <2>1
  <2> HIDE DEF l
  <2> QED
    BY <1>1, <2>2, <2>3, BodyAlone
<1>5. CASE \E x : Becomes(w, [run[w] EXCEPT !.near = x, !.at = "create"])
  <2>1. PICK x : Becomes(w, [run[w] EXCEPT !.near = x, !.at = "create"])
    BY <1>5
  <2> DEFINE l == [run[w] EXCEPT !.near = x, !.at = "create"]
  <2>2. l.entry = Worker.entry /\ l.run = Worker.run
    BY LocalTyped, Assigned DEF Worker
  <2>3. Becomes("worker", l)
    BY <2>1
  <2> HIDE DEF l
  <2> QED
    BY <1>1, <2>2, <2>3, BodyAlone
<1>6. CASE \E x : Becomes(w, [run[w] EXCEPT !.author = x])
  <2>1. PICK x : Becomes(w, [run[w] EXCEPT !.author = x])
    BY <1>6
  <2> DEFINE l == [run[w] EXCEPT !.author = x]
  <2>2. l.entry = Worker.entry /\ l.run = Worker.run
    BY LocalTyped, Assigned DEF Worker
  <2>3. Becomes("worker", l)
    BY <2>1
  <2> HIDE DEF l
  <2> QED
    BY <1>1, <2>2, <2>3, BodyAlone
<1> QED
  BY <1>2, <1>3, <1>4, <1>5, <1>6

LEMMA AloneRows ==
    ASSUME Typed, Alone, NEW w, w = "worker",
           \/ CreateEntity(w) \/ SetEmbedding(w) \/ CreateCandidate(w)
           \/ AddAliases(w) \/ CreateAuthor(w) \/ Prune(w) \/ Mark(w)
    PROVE  Alone'
<1>1. Worker.at \in PastEdges
  BY DEF CreateEntity, SetEmbedding, CreateCandidate, AddAliases, CreateAuthor,
         Prune, Mark, At, Worker, PastEdges, PastMentions, Steps
<1>2. CASE CreateEntity(w)
  <2>1. \/ Raise(w)
        \/ /\ Commit(EntityCreated(User(w), Person1(w).name))
           /\ Becomes(w, [run[w] EXCEPT !.entity = db.next, !.at = "vector"])
    BY <1>2 DEF CreateEntity
  <2>2. Raise(w) \/ Shrinks
    BY <2>1, FewerRemoved DEF Shrinks
  <2> DEFINE l == [run[w] EXCEPT !.entity = db.next, !.at = "vector"]
  <2>3. l.entry = Worker.entry /\ l.run = Worker.run
    BY LocalTyped, Assigned DEF Worker
  <2>4. Raise("worker") \/ Becomes("worker", l)
    BY <2>1
  <2> HIDE DEF l
  <2> QED
    BY <1>1, <2>2, <2>3, <2>4, RaiseAlone, BodyAlone
<1>3. CASE CreateAuthor(w)
  <2>1. \/ Raise(w)
        \/ /\ Commit(EntityCreated(User(w), AuthorName))
           /\ Becomes(w, [run[w] EXCEPT !.author = db.next, !.at = "edge"])
    BY <1>3 DEF CreateAuthor
  <2>2. Raise(w) \/ Shrinks
    BY <2>1, FewerRemoved DEF Shrinks
  <2> DEFINE l == [run[w] EXCEPT !.author = db.next, !.at = "edge"]
  <2>3. l.entry = Worker.entry /\ l.run = Worker.run
    BY LocalTyped, Assigned DEF Worker
  <2>4. Raise("worker") \/ Becomes("worker", l)
    BY <2>1
  <2> HIDE DEF l
  <2> QED
    BY <1>1, <2>2, <2>3, <2>4, RaiseAlone, BodyAlone
<1>4. CASE SetEmbedding(w)
  <2>1. Shrinks
    <3>1. CASE Exists(run[w].entity)
      <4> DEFINE E == [db.entities EXCEPT ![run[w].entity].vec = <<Person1(w).name>>]
      <4>1. Commit([db EXCEPT !.entities = E])
        BY <1>4, <3>1, DbRecord DEF SetEmbedding
      <4> QED
        BY <4>1, FewerRows DEF Shrinks
    <3>2. CASE ~Exists(run[w].entity)
      BY <1>4, <3>2, FewerRows DEF SetEmbedding, Shrinks
    <3> QED
      BY <3>1, <3>2
  <2> QED
    BY <1>1, <1>4, <2>1, GotoAlone DEF SetEmbedding
<1>5. CASE CreateCandidate(w)
  <2>1. Shrinks
    BY <1>5, FewerRows DEF CreateCandidate, Shrinks
  <2>2. Becomes(w, [run[w] EXCEPT !.near = None, !.at = "alias"])
    BY <1>5 DEF CreateCandidate
  <2> DEFINE l == [run[w] EXCEPT !.near = None, !.at = "alias"]
  <2>3. l.entry = Worker.entry /\ l.run = Worker.run
    BY LocalTyped, Assigned DEF Worker
  <2>4. Becomes("worker", l)
    BY <2>2
  <2> HIDE DEF l
  <2> QED
    BY <1>1, <2>1, <2>3, <2>4, BodyAlone
<1>6. CASE AddAliases(w)
  <2> DEFINE x == run[w].entity
             a == IF Fold[Person1(w).name] = Author THEN x ELSE run[w].author
             l == [run[w] EXCEPT !.known = KnownAs(w), !.at = "mention", !.author = a]
             E == [db.entities EXCEPT ![x].aliases =
                      db.entities[x].aliases \cup Person1(w).aliases]
  <2>1. \/ Becomes(w, l) /\ Read
        \/ Becomes(w, l) /\ Commit([db EXCEPT !.entities[x].aliases =
                                db.entities[x].aliases \cup Person1(w).aliases])
        \/ Raise(w)
    BY <1>6 DEF AddAliases
  <2>2. [db EXCEPT !.entities[x].aliases =
            db.entities[x].aliases \cup Person1(w).aliases] = [db EXCEPT !.entities = E]
    BY DbRecord
  <2>3. Raise(w) \/ Shrinks
    BY <2>1, <2>2, FewerRows DEF Shrinks
  <2>4. l.entry = Worker.entry /\ l.run = Worker.run
    BY LocalTyped, Assigned DEF Worker
  <2> HIDE DEF l
  <2> QED
    BY <1>1, <2>1, <2>3, <2>4, RaiseAlone, BodyAlone
<1>7. CASE Prune(w)
  BY <1>1, <1>7, FewerRemoved, GotoAlone DEF Prune, Shrinks
<1>8. CASE Mark(w)
  BY <1>8, FewerRows, OnwardKeeps, WorkerGoes DEF Mark, Finish, Shrinks
<1> QED
  BY <1>2, <1>3, <1>4, <1>5, <1>6, <1>7, <1>8

\* A commit that the worker's own entry may gain or lose rows by.
LEMMA OwnCommit ==
    ASSUME Typed, Alone, NEW d, Commit(d), NEW l, Becomes("worker", l),
           l.entry = Worker.entry, l.run = Worker.run, OneRun(d),
           l.at \in PastMentions =>
               \A m \in d.mentions : m.entry = l.entry => m.run = l.run,
           l.at \in PastEdges =>
               \A r \in d.edges : r.entry = l.entry => r.run = l.run
    PROVE  Alone'
<1>1. run'["worker"] = l /\ run'["loop"].at = "idle"
  BY DEF Becomes, Alone, At, Typed, TypeOK
<1>2. db' = d /\ saved' = d
  BY DEF Commit
<1> QED
  BY <1>1, <1>2 DEF Alone, At, Worker, OneRun

LEMMA AloneDeleteMentions ==
    ASSUME Typed, Alone, DeleteMentions("worker") PROVE Alone'
<1> DEFINE M == {m \in db.mentions : m.entry # Worker.entry}
           d == [db EXCEPT !.mentions = M]
           l == [run["worker"] EXCEPT !.at = "edges"]
<1>1. Commit(d) /\ Becomes("worker", l)
  BY DEF DeleteMentions, Goto, Worker
<1>2. d.mentions = M /\ d.edges = db.edges
  BY DbRecord
<1>3. l.at = "edges" /\ l.entry = Worker.entry /\ l.run = Worker.run
  BY LocalTyped, Assigned DEF Worker
<1>4. l.at \notin PastEdges
  BY <1>3 DEF PastEdges
<1>5. OneRun(d) /\ \A m \in d.mentions : m.entry # l.entry
  BY <1>2, <1>3 DEF Alone, OneRun
<1> HIDE DEF d, l
<1> QED
  BY <1>1, <1>3, <1>4, <1>5, OwnCommit

LEMMA AloneDeleteEdges ==
    ASSUME Typed, Alone, DeleteEdges("worker") PROVE Alone'
<1> DEFINE R == {r \in db.edges : r.entry # Worker.entry}
           d == [db EXCEPT !.edges = R]
           l == [run["worker"] EXCEPT !.at = "person"]
<1>1. Commit(d) /\ Becomes("worker", l)
  BY DEF DeleteEdges, Goto, Worker
<1>2. d.edges = R /\ d.mentions = db.mentions
  BY DbRecord
<1>3. l.entry = Worker.entry /\ l.run = Worker.run
  BY LocalTyped, Assigned DEF Worker
<1>4. Worker.at \in PastMentions
  BY DEF DeleteEdges, At, Worker, PastMentions, Steps
<1>5. OneRun(d) /\ \A r \in d.edges : r.entry # l.entry
  BY <1>2, <1>3 DEF Alone, OneRun
<1>6. \A m \in d.mentions : m.entry = l.entry => m.run = l.run
  BY <1>2, <1>3, <1>4 DEF Alone
<1> HIDE DEF d, l
<1> QED
  BY <1>1, <1>3, <1>5, <1>6, OwnCommit

LEMMA AloneCreateMention ==
    ASSUME Typed, Alone, CreateMention("worker") PROVE Alone'
<1> DEFINE m == [entity |-> Worker.entity, entry |-> Worker.entry, run |-> Worker.run]
           M == db.mentions \cup {m}
           d == [db EXCEPT !.mentions = M]
           l == [run["worker"] EXCEPT !.people = Tail(Worker.people),
                                      !.entity = None, !.at = "person"]
<1>1. Worker.at \in PastEdges /\ Worker.at \in PastMentions
  BY DEF CreateMention, At, Worker, PastEdges, PastMentions, Steps
<1>2. \/ Commit(d) /\ Becomes("worker", l)
      \/ Raise("worker")
  BY DEF CreateMention, Worker
<1>3. d.mentions = M /\ d.edges = db.edges
  BY DbRecord
<1>4. l.entry = Worker.entry /\ l.run = Worker.run
  BY LocalTyped, Assigned DEF Worker
<1>5. m.entry = Worker.entry /\ m.run = Worker.run
  OBVIOUS
<1> HIDE DEF m
<1>6. /\ OneRun(d)
      /\ \A n \in d.mentions : n.entry = l.entry => n.run = l.run
      /\ \A r \in d.edges : r.entry = l.entry => r.run = l.run
  BY <1>1, <1>3, <1>4, <1>5 DEF Alone, OneRun
<1> HIDE DEF d, l
<1>7. CASE Commit(d) /\ Becomes("worker", l)
  BY <1>4, <1>6, <1>7, OwnCommit
<1>8. CASE Raise("worker")
  BY <1>8, RaiseAlone
<1> QED
  BY <1>2, <1>7, <1>8

LEMMA AloneCreateRelationship ==
    ASSUME Typed, Alone, CreateRelationship("worker") PROVE Alone'
<1> DEFINE q == Head(Worker.edges)
           x == EndOf("worker", q[1])
           y == EndOf("worker", q[2])
           m == [subject |-> x, object |-> y, entry |-> Worker.entry,
                 run |-> Worker.run]
           M == db.edges \cup {m}
           d == [db EXCEPT !.edges = M]
           l == [run["worker"] EXCEPT !.edges = Tail(Worker.edges)]
<1>1. Worker.at \in PastEdges /\ Worker.at \in PastMentions
  BY DEF CreateRelationship, At, Worker, PastEdges, PastMentions, Steps
<1>2. \/ Commit(d) /\ Becomes("worker", l)
      \/ Read /\ Becomes("worker", l)
      \/ Raise("worker")
  BY DEF CreateRelationship, Worker
<1>3. d.edges = M /\ d.mentions = db.mentions
  BY DbRecord
<1>4. l.entry = Worker.entry /\ l.run = Worker.run
  BY LocalTyped, Assigned DEF Worker
<1>5. m.entry = Worker.entry /\ m.run = Worker.run
  OBVIOUS
<1> HIDE DEF m
<1>6. /\ OneRun(d)
      /\ \A n \in d.mentions : n.entry = l.entry => n.run = l.run
      /\ \A r \in d.edges : r.entry = l.entry => r.run = l.run
  BY <1>1, <1>3, <1>4, <1>5 DEF Alone, OneRun
<1> HIDE DEF d, l
<1>7. CASE Commit(d) /\ Becomes("worker", l)
  BY <1>4, <1>6, <1>7, OwnCommit
<1>8. CASE Read /\ Becomes("worker", l)
  BY <1>1, <1>4, <1>8, BodyAlone DEF Shrinks
<1>9. CASE Raise("worker")
  BY <1>9, RaiseAlone
<1> QED
  BY <1>2, <1>7, <1>8, <1>9

LEMMA AloneExtracts ==
    ASSUME Typed, Alone, NEW t \in Thread, Extract(t) PROVE Alone'
<1>1. t = "worker"
  BY DEF Alone, At, Extract, ReadEntry, Ask, SnapshotPrior, DeleteMentions,
         DeleteEdges, Resolve, Embed, CreateEntity, SetEmbedding, CreateCandidate,
         AddAliases, CreateMention, EntitiesDone, FindAuthor, CreateAuthor,
         CreateRelationship, EdgesDone, Prune, Mark, ProviderFails
<1>2. CASE ProviderFails(t)
  BY <1>1, <1>2, RaiseAlone DEF ProviderFails
<1> QED
  BY <1>1, <1>2, AloneReads, AloneDeleteMentions, AloneDeleteEdges, AloneLookups,
     AloneRows, AloneCreateMention, AloneCreateRelationship DEF Extract

\* No merge brings rows of another run to an entry.
LEMMA MovedFewer ==
    ASSUME Typed
    PROVE  /\ Fewer([db EXCEPT !.mentions =
                        {[m EXCEPT !.entity = Moved(m.entity)] : m \in db.mentions}])
           /\ Fewer([db EXCEPT !.edges =
                        {[r EXCEPT !.subject = Moved(r.subject),
                                   !.object = Moved(r.object)] : r \in db.edges}])
<1>1. /\ \A m \in db.mentions : LET k == [m EXCEPT !.entity = Moved(m.entity)]
                                IN  k.entry = m.entry /\ k.run = m.run
      /\ \A r \in db.edges : LET k == [r EXCEPT !.subject = Moved(r.subject),
                                               !.object = Moved(r.object)]
                             IN  k.entry = r.entry /\ k.run = r.run
  BY TablesSound DEF Sound, Tables, Mention, Edge
<1> DEFINE M == {[m EXCEPT !.entity = Moved(m.entity)] : m \in db.mentions}
           R == {[r EXCEPT !.subject = Moved(r.subject),
                           !.object = Moved(r.object)] : r \in db.edges}
<1>2. /\ \A k \in M : \E m \in db.mentions : m.entry = k.entry /\ m.run = k.run
      /\ \A k \in R : \E r \in db.edges : r.entry = k.entry /\ r.run = k.run
  BY ZenonT(40), <1>1
<1> HIDE DEF M, R
<1>3. Fewer([db EXCEPT !.mentions = M]) /\ Fewer([db EXCEPT !.edges = R])
  BY <1>2, DbRecord DEF Fewer
<1> QED
  BY <1>3 DEF M, R

LEMMA AloneRest ==
    ASSUME Typed, Alone, Rest, "tool" \notin Requests PROVE Alone'
<1>1. UNCHANGED run
  BY DEF Rest, Submit, CallTool, Requested, EditEntry, DeleteEntry, RemoveEntry,
         PruneEntry, DropEntity, RenameEntity, ResolveCandidate, MergeEntities,
         MergeRecord, MergeMentions, MergeEdges, MergeAliases, MergeDrop,
         MergeCommit, ThreadsStay
<1>2. Shrinks
  <2>1. CASE \/ \E k, e, u : Submit(k, e, u)
             \/ \E e : DeleteEntry(e)
             \/ \E x, L : MergeEntities(x, L)
    BY <2>1, FewerRows DEF Submit, DeleteEntry, MergeEntities, Shrinks
  <2>2. CASE \/ \E e : EditEntry(e)
             \/ \E c, a : ResolveCandidate(c, a)
             \/ MergeRecord \/ MergeCommit
    BY <2>2, FewerRows DEF EditEntry, ResolveCandidate, MergeRecord, MergeCommit,
                           GiveUp, Shrinks
  <2>3. CASE RemoveEntry \/ PruneEntry \/ MergeDrop \/ \E x : DropEntity(x)
    BY <2>3, FewerRemoved DEF RemoveEntry, PruneEntry, MergeDrop, DropEntity, Shrinks
  <2>4. CASE MergeMentions \/ MergeEdges
    BY <2>4, MovedFewer DEF MergeMentions, MergeEdges, GiveUp, Shrinks
  <2>5. CASE MergeAliases
    <3> DEFINE x == api.survivor
               E == [db.entities EXCEPT ![x].aliases =
                        db.entities[x].aliases \cup api.aliases]
    <3>1. [db EXCEPT !.entities[x].aliases = db.entities[x].aliases \cup api.aliases]
             = [db EXCEPT !.entities = E]
      BY DbRecord
    <3>2. Read \/ Write(db) \/ Write([db EXCEPT !.entities = E])
      BY <2>5, <3>1 DEF MergeAliases, GiveUp
    <3> HIDE DEF E
    <3> QED
      BY <3>2, FewerRows DEF Shrinks
  <2>6. CASE \E x, n : RenameEntity(x, n)
    <3>1. PICK x, n : RenameEntity(x, n)
      BY <2>6
    <3> DEFINE E == [db.entities EXCEPT ![x].name = n]
    <3>2. Commit([db EXCEPT !.entities = E])
      BY <3>1, DbRecord DEF RenameEntity
    <3> HIDE DEF E
    <3> QED
      BY <3>2, FewerRows DEF Shrinks
  <2> QED
    BY <2>1, <2>2, <2>3, <2>4, <2>5, <2>6 DEF Rest, CallTool, Requested
<1> QED
  BY <1>1, <1>2, NoneGoes

LEMMA AloneNext ==
    ASSUME Typed, Alone, [Next]_vars, "tool" \notin Requests PROVE Alone'
<1>1. CASE UNCHANGED vars
  BY <1>1, NoneGoes DEF vars, Shrinks, Read
<1>2. CASE StartJob
  <2>1. PICK k \in {"one", "stale", "all"}, E \in SUBSET Entry :
           Becomes("worker", Started(k, E)) /\ Commit(db)
    <3>1. Head(jobs) \in Job
      BY <1>2, HeadTailProperties DEF StartJob, Typed, TypeOK
    <3>2. db.live \subseteq Entry
      BY TablesSound DEF Sound, Tables
    <3> QED
      BY <1>2, <3>1, <3>2, BatchTyped DEF StartJob, Job
  <2>2. Keeps(Started(k, E))
    BY StartedFits DEF Keeps, PastMentions
  <2> QED
    BY <2>1, <2>2, FewerRows, WorkerGoes DEF Shrinks
<1>3. CASE Crash
  <2>1. /\ db' = saved /\ saved' = saved
        /\ run'["worker"] = NoRun /\ run'["loop"] = NoRun
    BY <1>3 DEF Crash
  <2> QED
    BY <2>1, NoRunFits DEF Alone, At, Worker, PastMentions, PastEdges
<1> QED
  BY <1>1, <1>2, <1>3, AloneExtracts, AloneRest DEF Next

LEMMA AloneInit == Init => Alone
BY NoRunFits DEF Init, EmptyTables, Alone, At, OneRun, Worker, PastMentions, PastEdges

\* Unless clients call the MCP tool, an entry's mentions and relationships are
\* those of one extraction, through failures, crashes, merges and deletes.
THEOREM EntitiesOneRun == Spec => []("tool" \notin Requests => OneRunPerEntry)
<1> DEFINE Inv == Typed /\ ("tool" \notin Requests => Alone)
<1>1. Init => Inv
  BY InitTyped, AloneInit
<1>2. Inv /\ [Next]_vars => Inv'
  BY NextTyped, AloneNext
<1>3. Inv => ("tool" \notin Requests => OneRunPerEntry)
  BY DEF Alone, OneRun, OneRunPerEntry
<1> HIDE DEF Inv
<1> QED
  BY <1>1, <1>2, <1>3, PTL DEF Spec


-----------------------------------------------------------------------------
(* What becomes of the entities: a row keeps its id, its user and its name  *)
(* as long as it lives, gains aliases, and never comes back.               *)

Carries(d) ==
    /\ d.next \in {db.next, db.next + 1}
    /\ db.next \in DOMAIN d.entities => d.next = db.next + 1
    /\ \A x \in DOMAIN d.entities : x # db.next =>
          /\ x \in DOMAIN db.entities
          /\ d.entities[x].user = db.entities[x].user
          /\ d.entities[x].name = db.entities[x].name
          /\ db.entities[x].aliases \subseteq d.entities[x].aliases

\* No row of the history is added.
Spares(d) == Carries(d) /\ d.history \subseteq db.history

LEMMA Numbered ==
    ASSUME Typed
    PROVE  /\ db.next \in Nat /\ saved.next \in Nat
           /\ \A x \in DOMAIN db.entities : x \in Id /\ x \in Nat /\ x < db.next
           /\ \A x \in DOMAIN saved.entities : x \in Id /\ x \in Nat /\ x < saved.next
           /\ \A x \in DOMAIN db.entities : db.entities[x] \in Entity
BY TablesSound, EntitiesBounds DEF Sound, Tables, Linked

LEMMA SparesColumns ==
    ASSUME Typed
    PROVE  /\ Spares(db)
           /\ \A M : Spares([db EXCEPT !.mentions = M])
           /\ \A R : Spares([db EXCEPT !.edges = R])
           /\ \A S : Spares([db EXCEPT !.stale = S])
           /\ \A C : Spares([db EXCEPT !.candidates = C])
           /\ \A H : Carries([db EXCEPT !.history = H])
<1> DEFINE Steady(d) == d.entities = db.entities /\ d.next = db.next
<1>1. ASSUME NEW d, Steady(d) PROVE Carries(d)
  BY <1>1, Numbered DEF Carries
<1>2. /\ \A M : Steady([db EXCEPT !.mentions = M])
      /\ \A R : Steady([db EXCEPT !.edges = R])
      /\ \A S : Steady([db EXCEPT !.stale = S])
      /\ \A C : Steady([db EXCEPT !.candidates = C])
      /\ \A H : Steady([db EXCEPT !.history = H])
  BY DbRecord
<1>3. /\ \A M : [db EXCEPT !.mentions = M].history = db.history
      /\ \A R : [db EXCEPT !.edges = R].history = db.history
      /\ \A S : [db EXCEPT !.stale = S].history = db.history
      /\ \A C : [db EXCEPT !.candidates = C].history = db.history
  BY DbRecord
<1>4. Steady(db)
  OBVIOUS
<1> HIDE DEF Steady
<1> QED
  BY <1>1, <1>2, <1>3, <1>4 DEF Spares

LEMMA SparesRow ==
    ASSUME Typed, NEW x \in DOMAIN db.entities, NEW E,
           DOMAIN E = DOMAIN db.entities,
           \A y \in DOMAIN db.entities : y # x => E[y] = db.entities[y],
           E[x].user = db.entities[x].user, E[x].name = db.entities[x].name,
           db.entities[x].aliases \subseteq E[x].aliases
    PROVE  Spares([db EXCEPT !.entities = E])
<1> DEFINE d == [db EXCEPT !.entities = E]
<1>1. d.entities = E /\ d.next = db.next /\ d.history = db.history
  BY DbRecord
<1> HIDE DEF d
<1>2. Carries(d)
  BY <1>1, Numbered DEF Carries
<1> QED
  BY <1>1, <1>2 DEF Spares, d

LEMMA SparesVector ==
    ASSUME Typed, NEW x \in DOMAIN db.entities, NEW v
    PROVE  Spares([db EXCEPT !.entities[x].vec = v])
<1> DEFINE E == [db.entities EXCEPT ![x].vec = v]
<1>1. [db EXCEPT !.entities[x].vec = v] = [db EXCEPT !.entities = E]
  BY DbRecord
<1>2. db.entities \in [DOMAIN db.entities -> Entity]
  BY TablesSound DEF Sound, Tables
<1>3. DOMAIN E = DOMAIN db.entities /\ \A y \in DOMAIN db.entities : y # x => E[y] = db.entities[y]
  BY <1>2
<1>4. E[x] = [db.entities[x] EXCEPT !.vec = v]
  BY <1>2
<1>5. db.entities[x] \in Entity
  BY <1>2
<1>6. /\ E[x].user = db.entities[x].user /\ E[x].name = db.entities[x].name
      /\ E[x].aliases = db.entities[x].aliases
  BY <1>4, <1>5 DEF Entity
<1> HIDE DEF E
<1> QED
  BY <1>1, <1>3, <1>6, SparesRow

LEMMA SparesAliases ==
    ASSUME Typed, NEW x \in DOMAIN db.entities, NEW A
    PROVE  Spares([db EXCEPT !.entities[x].aliases = @ \cup A])
<1> DEFINE B == db.entities[x].aliases \cup A
           E == [db.entities EXCEPT ![x].aliases = B]
<1>1. [db EXCEPT !.entities[x].aliases = @ \cup A] = [db EXCEPT !.entities = E]
  BY DbRecord
<1>2. db.entities \in [DOMAIN db.entities -> Entity]
  BY TablesSound DEF Sound, Tables
<1>3. DOMAIN E = DOMAIN db.entities /\ \A y \in DOMAIN db.entities : y # x => E[y] = db.entities[y]
  BY <1>2
<1>4. E[x] = [db.entities[x] EXCEPT !.aliases = B]
  BY <1>2
<1>5. db.entities[x] \in Entity /\ db.entities[x].aliases \subseteq B
  BY <1>2
<1> HIDE DEF B
<1>6. /\ E[x].user = db.entities[x].user /\ E[x].name = db.entities[x].name
      /\ E[x].aliases = B
  BY <1>4, <1>5 DEF Entity
<1> HIDE DEF E
<1> QED
  BY <1>1, <1>3, <1>5, <1>6, SparesRow

LEMMA SparesRemoved ==
    ASSUME Typed
    PROVE  /\ \A X : Spares(EntitiesRemoved(db, X))
           /\ \A e : Spares(EntryRemoved(db, e))
           /\ \A u, n : Spares(EntityCreated(u, n))
<1>1. ASSUME NEW X PROVE Spares(EntitiesRemoved(db, X))
  BY Numbered DEF Spares, Carries, EntitiesRemoved
<1>2. ASSUME NEW e PROVE Spares(EntryRemoved(db, e))
  BY Numbered DEF Spares, Carries, EntryRemoved
<1>3. ASSUME NEW u, NEW n PROVE Spares(EntityCreated(u, n))
  BY Numbered DEF Spares, Carries, EntityCreated
<1> QED
  BY <1>1, <1>2, <1>3

\* What a crash leaves is what it left before, or what is there now.
Settles == saved' \in {saved, db'}

LEMMA SettledBy ==
    ASSUME Read \/ \E d : Commit(d) \/ Write(d)
    PROVE  Settles
BY DEF Settles, Read, Commit, Write

LEMMA RaiseReads ==
    ASSUME NEW t, Raise(t) \/ Noted(t)
    PROVE  db' = db /\ Settles
BY DEF Raise, Noted, Commit, Read, Settles

LEMMA ExtractSpares ==
    ASSUME Typed, NEW t \in Thread, Extract(t)
    PROVE  Spares(db') /\ Settles
<1>1. CASE ReadEntry(t) \/ Ask(t) \/ SnapshotPrior(t) \/ Resolve(t) \/ Embed(t)
           \/ EntitiesDone(t) \/ FindAuthor(t) \/ EdgesDone(t) \/ ProviderFails(t)
  <2>1. db' = db /\ Settles
    BY <1>1, RaiseReads DEF ReadEntry, Ask, SnapshotPrior, Resolve, Embed, EntitiesDone,
       FindAuthor, EdgesDone, ProviderFails, Read, Settles
  <2> QED
    BY <2>1, SparesColumns
<1>2. CASE DeleteMentions(t) \/ DeleteEdges(t) \/ Mark(t)
  <2>1. \/ \E M : Commit([db EXCEPT !.mentions = M])
        \/ \E R : Commit([db EXCEPT !.edges = R])
        \/ \E S : Commit([db EXCEPT !.stale = S])
    BY <1>2 DEF DeleteMentions, DeleteEdges, Mark
  <2> QED
    BY <2>1, SparesColumns DEF Commit, Settles
<1>3. CASE CreateMention(t) \/ CreateRelationship(t) \/ CreateCandidate(t)
  <2>1. \/ \E M : Commit([db EXCEPT !.mentions = M])
        \/ \E R : Commit([db EXCEPT !.edges = R])
        \/ \E C : Commit([db EXCEPT !.candidates = C])
        \/ db' = db /\ Settles
    BY <1>3, RaiseReads DEF CreateMention, CreateRelationship, CreateCandidate, Read, Settles
  <2> QED
    BY <2>1, SparesColumns DEF Commit, Settles
<1>4. CASE CreateEntity(t) \/ CreateAuthor(t)
  <2>1. \/ db' = db /\ Settles
        \/ \E u, n : Commit(EntityCreated(u, n))
    BY <1>4, RaiseReads DEF CreateEntity, CreateAuthor
  <2> QED
    BY <2>1, SparesColumns, SparesRemoved DEF Commit, Settles
<1>5. CASE SetEmbedding(t)
  <2>1. \/ Commit(db)
        \/ /\ run[t].entity \in DOMAIN db.entities
           /\ Commit([db EXCEPT !.entities[run[t].entity].vec = <<Person1(t).name>>])
    BY <1>5 DEF SetEmbedding, Exists
  <2>2. Spares(db') /\ (saved' = db')
    BY <2>1, SparesColumns, SparesVector DEF Commit
  <2> QED
    BY <2>2 DEF Settles
<1>6. CASE AddAliases(t)
  <2>1. \/ db' = db /\ Settles
        \/ /\ run[t].entity \in DOMAIN db.entities
           /\ Commit([db EXCEPT !.entities[run[t].entity].aliases = @ \cup Person1(t).aliases])
    BY <1>6, RaiseReads DEF AddAliases, Exists, Read, Settles
  <2>2. Spares(db') /\ Settles
    BY <2>1, SparesColumns, SparesAliases DEF Commit, Settles
  <2> QED
    BY <2>2
<1>7. CASE Prune(t)
  BY <1>7, SparesRemoved DEF Prune, Commit, Settles
<1> QED
  BY <1>1, <1>2, <1>3, <1>4, <1>5, <1>6, <1>7 DEF Extract

\* The rename is the one step that changes a name, and the first statement of
\* a merge the one that adds to the history.
Renames == \E x \in Id, n \in Name : RenameEntity(x, n)

LEMMA RestSpares ==
    ASSUME Typed, Rest
    PROVE  Settles /\ (Renames \/ Carries(db')) /\ (Renames \/ MergeRecord \/ Spares(db'))
<1>1. CASE \/ \E k, e, u : Submit(k, e, u) \/ CallTool(k, e, u)
           \/ \E e : DeleteEntry(e)
           \/ \E x, L : MergeEntities(x, L)
           \/ MergeCommit
  <2>1. db' = db /\ Settles
    BY <1>1 DEF Submit, CallTool, DeleteEntry, MergeEntities, MergeCommit, Commit, Read, Settles
  <2> QED
    BY <2>1, SparesColumns DEF Spares
<1>2. CASE (\E e : EditEntry(e)) \/ \E c, a : ResolveCandidate(c, a)
  <2>1. \/ \E S : Commit([db EXCEPT !.stale = S])
        \/ \E C : Commit([db EXCEPT !.candidates = C])
    BY <1>2 DEF EditEntry, ResolveCandidate
  <2> QED
    BY <2>1, SparesColumns DEF Commit, Settles, Spares
<1>3. CASE RemoveEntry \/ PruneEntry \/ MergeDrop \/ \E x : DropEntity(x)
  <2>1. \/ \E X : Commit(EntitiesRemoved(db, X)) \/ Write(EntitiesRemoved(db, X))
        \/ \E e : Commit(EntryRemoved(db, e))
    BY <1>3 DEF RemoveEntry, PruneEntry, MergeDrop, DropEntity
  <2>2. Settles
    BY <2>1, SettledBy
  <2>3. (\E X : db' = EntitiesRemoved(db, X)) \/ \E e : db' = EntryRemoved(db, e)
    BY <2>1 DEF Commit, Write
  <2>4. Spares(db')
    BY <2>3, SparesRemoved
  <2> QED
    BY <2>2, <2>4 DEF Spares
<1>4. CASE MergeMentions \/ MergeEdges
  <2>1. \/ Read
        \/ \E M : Write([db EXCEPT !.mentions = M])
        \/ \E R : Write([db EXCEPT !.edges = R])
    BY <1>4 DEF MergeMentions, MergeEdges, GiveUp
  <2> QED
    BY <2>1, SparesColumns DEF Read, Write, Settles, Spares
<1>5. CASE MergeAliases
  <2>1. \/ Read
        \/ Write(db)
        \/ /\ api.survivor \in DOMAIN db.entities
           /\ Write([db EXCEPT !.entities[api.survivor].aliases = @ \cup api.aliases])
    BY <1>5 DEF MergeAliases, GiveUp, Exists
  <2>2. Settles
    BY <2>1, SettledBy
  <2>3. \/ db' = db
        \/ /\ api.survivor \in DOMAIN db.entities
           /\ db' = [db EXCEPT !.entities[api.survivor].aliases = @ \cup api.aliases]
    BY <2>1 DEF Read, Write
  <2>4. Spares(db')
    BY <2>3, SparesColumns, SparesAliases
  <2> QED
    BY <2>2, <2>4 DEF Spares
<1>6. CASE MergeRecord
  <2>1. Read \/ \E H : Write([db EXCEPT !.history = H])
    BY <1>6 DEF MergeRecord, GiveUp
  <2> QED
    BY <1>6, <2>1, SparesColumns DEF Read, Write, Settles, Spares
<1>7. CASE Renames
  <2>1. \E d : Commit(d)
    BY <1>7 DEF Renames, RenameEntity
  <2> QED
    BY <1>7, <2>1, SettledBy
<1> QED
  BY <1>1, <1>2, <1>3, <1>4, <1>5, <1>6, <1>7 DEF Rest, Renames

LEMMA StartSpares ==
    ASSUME Typed, StartJob
    PROVE  Spares(db') /\ Settles
BY SparesColumns DEF StartJob, Commit, Settles

-----------------------------------------------------------------------------
(* The history of merges.                                                  *)

\* The row of the merge in progress.
InMerge(h) ==
    api.at \in MergeSteps /\ h.absorbed = Absorbed /\ h.survivor = api.survivor

\* What the history says was absorbed is gone, but for the entity a merge has
\* recorded and not yet removed; and its id is not used again.
Told ==
    crashes = 0 =>
        \A h \in db.history :
            h.absorbed < db.next /\ (Exists(h.absorbed) => InMerge(h))

LEMMA HistoryTyped ==
    ASSUME Typed, NEW h \in db.history
    PROVE  /\ h \in History /\ h.absorbed \in Nat /\ h.absorbed # 0
           /\ h.survivor \in DOMAIN db.entities
BY TablesSound DEF Sound, Tables, Linked, History

\* Nothing but the name of one row changes.
LEMMA Renamed ==
    ASSUME Typed, NEW x, NEW n, RenameEntity(x, n)
    PROVE  /\ x \in DOMAIN db.entities /\ ~Taken(db.entities[x].user, n, {x})
           /\ db'.history = db.history /\ db'.next = db.next
           /\ db'.mentions = db.mentions /\ db'.edges = db.edges
           /\ db'.candidates = db.candidates
           /\ DOMAIN db'.entities = DOMAIN db.entities
           /\ \A y \in DOMAIN db.entities :
                 /\ db'.entities[y].user = db.entities[y].user
                 /\ db'.entities[y].aliases = db.entities[y].aliases
                 /\ db'.entities[y].name = IF y = x THEN n ELSE db.entities[y].name
           /\ saved' = db' /\ UNCHANGED <<run, api, crashes, broken, jobs>>
           /\ "rename" \in Requests /\ api.at = "idle"
<1> DEFINE E == [db.entities EXCEPT ![x].name = n]
<1>1. x \in DOMAIN db.entities /\ db' = [db EXCEPT !.entities = E] /\ saved' = db'
  BY DbRecord DEF RenameEntity, Exists, Commit
<1>2. db.entities \in [DOMAIN db.entities -> Entity]
  BY TablesSound DEF Sound, Tables
<1>3. DOMAIN E = DOMAIN db.entities /\ \A y \in DOMAIN db.entities : y # x => E[y] = db.entities[y]
  BY <1>2
<1>4. E[x] = [db.entities[x] EXCEPT !.name = n] /\ db.entities[x] \in Entity
  BY <1>1, <1>2
<1>5. /\ E[x].user = db.entities[x].user /\ E[x].name = n
      /\ E[x].aliases = db.entities[x].aliases
  BY <1>4 DEF Entity
<1> HIDE DEF E
<1>6. /\ db'.entities = E /\ db'.history = db.history /\ db'.next = db.next
      /\ db'.mentions = db.mentions /\ db'.edges = db.edges
      /\ db'.candidates = db.candidates
  BY <1>1, DbRecord
<1>7. /\ UNCHANGED <<run, api, crashes, broken, jobs>> /\ "rename" \in Requests /\ api.at = "idle"
      /\ ~Taken(db.entities[x].user, n, {x})
  BY DEF RenameEntity, ThreadsStay, HandlersStay, Requested
<1> QED
  BY <1>1, <1>3, <1>5, <1>6, <1>7

\* What the handlers do to the merge in progress.
LEMMA RestApi ==
    ASSUME Typed, Rest
    PROVE  /\ UNCHANGED crashes
           /\ \/ api.at \notin MergeSteps /\ api'.at \notin MergeSteps /\ ~MergeRecord
              \/ MergeRecord \/ MergeMentions \/ MergeEdges \/ MergeAliases \/ MergeDrop
<1>1. CASE \/ \E k, e, u : Submit(k, e, u) \/ CallTool(k, e, u)
           \/ \E e : EditEntry(e)
           \/ \E x : DropEntity(x) \/ \E n : RenameEntity(x, n)
           \/ \E c, a : ResolveCandidate(c, a)
  BY <1>1 DEF Submit, CallTool, EditEntry, DropEntity, RenameEntity, ResolveCandidate,
              Requested, HandlersStay, MergeSteps, MergeRecord
<1>2. CASE (\E e : DeleteEntry(e)) \/ RemoveEntry \/ PruneEntry
           \/ (\E s, L : MergeEntities(s, L)) \/ MergeCommit
  <2>1. NoHandler.at = "idle" /\ \A e, X : [NoHandler EXCEPT !.at = "remove", !.entry = e,
                                                            !.prior = X].at = "remove"
    BY DEF NoHandler
  <2>2. \A s, L : [NoHandler EXCEPT !.at = "record", !.survivor = s,
                                    !.absorbed = L].at = "record"
    BY DEF NoHandler
  <2>3. [api EXCEPT !.at = "prune"].at = "prune"
    BY HandlerTyped DEF Handler
  <2>4. UNCHANGED crashes /\ api.at \in {"idle", "remove", "prune", "record"} /\ ~MergeRecord
    BY <1>2 DEF DeleteEntry, RemoveEntry, PruneEntry, MergeEntities, MergeCommit,
       HandlersStay, Requested, MergeRecord
  <2>5. api'.at \in {"idle", "remove", "prune", "record"}
    <3>1. CASE \E e : DeleteEntry(e)
      BY <2>1, <3>1 DEF DeleteEntry, Handled
    <3>2. CASE RemoveEntry
      <4>1. api' = NoHandler \/ api' = [api EXCEPT !.at = "prune"]
        BY <3>2 DEF RemoveEntry, Handled
      <4> QED
        BY <2>1, <2>3, <4>1
    <3>3. CASE PruneEntry \/ MergeCommit
      BY <2>1, <3>3 DEF PruneEntry, MergeCommit, Handled
    <3>4. CASE \E s, L : MergeEntities(s, L)
      BY <2>2, <3>4 DEF MergeEntities, Handled
    <3> QED
      BY <1>2, <3>1, <3>2, <3>3, <3>4
  <2> QED
    BY <2>4, <2>5 DEF MergeSteps
<1>3. CASE MergeRecord \/ MergeMentions \/ MergeEdges \/ MergeAliases \/ MergeDrop
  BY <1>3 DEF MergeRecord, MergeMentions, MergeEdges, MergeAliases, MergeDrop, HandlersStay
<1> QED
  BY <1>1, <1>2, <1>3 DEF Rest

\* Without a merge in progress.
LEMMA ToldIdle ==
    ASSUME Typed, Told, UNCHANGED crashes, api.at \notin MergeSteps,
           Spares(db') \/ Renames
    PROVE  Told'
<1> SUFFICES ASSUME crashes = 0, NEW h \in db'.history
             PROVE  h.absorbed < db'.next /\ h.absorbed \notin DOMAIN db'.entities
  BY DEF Told, Exists
<1>1. CASE Spares(db')
  <2>1. h \in db.history
    BY <1>1 DEF Spares
  <2>2. h.absorbed < db.next /\ h.absorbed \notin DOMAIN db.entities /\ h.absorbed \in Nat
    BY <2>1, HistoryTyped DEF Told, InMerge, Exists
  <2> QED
    BY <1>1, <2>2, Numbered DEF Spares, Carries
<1>2. CASE Renames
  <2>1. PICK x, n : RenameEntity(x, n)
    BY <1>2 DEF Renames
  <2> QED
    BY <2>1, Renamed, HistoryTyped DEF Told, InMerge, Exists
<1> QED
  BY <1>1, <1>2

\* A statement of a merge, that goes on with the next.
LEMMA ToldOn ==
    ASSUME Typed, Told, UNCHANGED crashes, Spares(db'),
           \A h \in db'.history : InMerge(h) /\ h.absorbed \in DOMAIN db'.entities => InMerge(h)'
    PROVE  Told'
<1> SUFFICES ASSUME crashes = 0, NEW h \in db'.history
             PROVE  h.absorbed < db'.next /\ (h.absorbed \in DOMAIN db'.entities => InMerge(h)')
  BY DEF Told, Exists
<1>1. h \in db.history
  BY DEF Spares
<1>2. h.absorbed < db.next /\ h.absorbed \in Nat /\ (h.absorbed \in DOMAIN db.entities => InMerge(h))
  BY <1>1, HistoryTyped DEF Told, Exists
<1> QED
  BY <1>2, Numbered DEF Spares, Carries

\* A merge gives up when its survivor is gone, and then its row is gone too.
LEMMA ToldGivenUp ==
    ASSUME Typed, Told, UNCHANGED crashes, Spares(db'), ~Exists(api.survivor)
    PROVE  Told'
<1>1. \A h \in db.history : ~InMerge(h)
  BY HistoryTyped DEF InMerge, Exists
<1> QED
  BY <1>1, ToldOn DEF Spares

LEMMA SameMerge ==
    ASSUME Typed, api.at \in MergeSteps, NEW s \in MergeSteps, api' = [api EXCEPT !.at = s],
           NEW h, InMerge(h)
    PROVE  InMerge(h)' /\ api'.at = s
<1>1. api'.at = s /\ api'.absorbed = api.absorbed /\ api'.survivor = api.survivor
  BY HandlerTyped DEF Handler
<1> QED
  BY <1>1 DEF InMerge, Absorbed

LEMMA ToldMerge ==
    ASSUME Typed, Told, MergeMentions \/ MergeEdges \/ MergeAliases
    PROVE  Told'
<1>1. UNCHANGED crashes /\ api.at \in MergeSteps /\ Rest
  BY DEF MergeMentions, MergeEdges, MergeAliases, HandlersStay, MergeSteps, Rest
<1>2. Spares(db')
  <2>1. ~Renames /\ ~MergeRecord
    BY DEF MergeMentions, MergeEdges, MergeAliases, Renames, RenameEntity, Requested, MergeRecord
  <2> QED
    BY <1>1, <2>1, RestSpares
<1>3. \/ ~Exists(api.survivor)
      \/ \E s \in MergeSteps : api' = [api EXCEPT !.at = s]
  BY DEF MergeMentions, MergeEdges, MergeAliases, GiveUp, Handled, MergeSteps
<1>4. CASE ~Exists(api.survivor)
  BY <1>1, <1>2, <1>4, ToldGivenUp
<1>5. CASE \E s \in MergeSteps : api' = [api EXCEPT !.at = s]
  BY <1>1, <1>2, <1>5, SameMerge, ToldOn
<1> QED
  BY <1>3, <1>4, <1>5

LEMMA ToldDrop ==
    ASSUME Typed, Told, MergeDrop
    PROVE  Told'
<1>1. UNCHANGED crashes /\ db' = EntitiesRemoved(db, {Absorbed})
  BY DEF MergeDrop, HandlersStay, Write
<1>2. Absorbed \notin DOMAIN db'.entities
  BY <1>1 DEF EntitiesRemoved
<1>3. \A h \in db'.history : ~(InMerge(h) /\ h.absorbed \in DOMAIN db'.entities)
  BY <1>2 DEF InMerge
<1>4. Spares(db')
  BY <1>1, SparesRemoved
<1> QED
  BY <1>1, <1>3, <1>4, ToldOn

LEMMA ToldRecord ==
    ASSUME Typed, Told, MergeRecord
    PROVE  Told'
<1>0. UNCHANGED crashes /\ api.at = "record" /\ api.absorbed # <<>>
  BY DEF MergeRecord, HandlersStay
<1>1. api.at \notin MergeSteps
  BY <1>0 DEF MergeSteps
<1>2. CASE Read
  BY <1>0, <1>1, <1>2, SparesColumns, ToldIdle DEF Read
<1>3. CASE ~Read
  <2>r. PICK r : r = HistoryRow
    OBVIOUS
  <2> DEFINE A == (db.entities[Absorbed].aliases \cup {Fold[db.entities[Absorbed].name]})
                      \ {Fold[db.entities[api.survivor].name]}
  <2>1. /\ Exists(Absorbed) /\ db' = [db EXCEPT !.history = db.history \cup {r}]
        /\ api' = [api EXCEPT !.at = "mentions", !.aliases = A]
    BY <1>3, <2>r DEF MergeRecord, GiveUp, Write, Handled
  <2>2. r.absorbed = Absorbed /\ r.survivor = api.survivor
    BY <2>r DEF HistoryRow
  <2> HIDE DEF A
  <2>3. /\ db'.history = db.history \cup {r} /\ db'.next = db.next
        /\ db'.entities = db.entities
    BY <2>1, DbRecord
  <2>4. api'.at = "mentions" /\ api'.absorbed = api.absorbed /\ api'.survivor = api.survivor
    BY <2>1, HandlerTyped DEF Handler
  <2>5. InMerge(r)'
    BY <2>2, <2>4 DEF InMerge, Absorbed, MergeSteps
  <2>6. r.absorbed < db'.next
    BY <2>1, <2>2, <2>3, Numbered DEF Exists
  <2>7. ASSUME crashes = 0, NEW h \in db'.history
        PROVE  h.absorbed < db'.next /\ (h.absorbed \in DOMAIN db'.entities => InMerge(h)')
    <3>1. CASE h = r
      BY <2>5, <2>6, <3>1
    <3>2. CASE h \in db.history
      BY <1>1, <2>3, <2>7, <3>2 DEF Told, Exists, InMerge
    <3> QED
      BY <2>3, <3>1, <3>2
  <2> QED
    BY <1>0, <2>7 DEF Told, Exists
<1> QED
  BY <1>2, <1>3

LEMMA ToldNext ==
    ASSUME Typed, Told, [Next]_vars
    PROVE  Told'
<1>1. CASE UNCHANGED vars
  BY <1>1 DEF vars, Told, InMerge, Exists, Absorbed
<1>2. CASE StartJob
  <2>1. UNCHANGED <<api, crashes>> /\ Spares(db')
    BY <1>2, StartSpares DEF StartJob
  <2> QED
    BY <2>1, ToldOn DEF InMerge, Absorbed
<1>3. ASSUME NEW t \in Thread, Extract(t)
      PROVE  Told'
  <2>1. UNCHANGED <<api, crashes>>
    BY <1>3 DEF Extract, ReadEntry, Ask, SnapshotPrior, DeleteMentions,
       DeleteEdges, Resolve, Embed, CreateEntity, SetEmbedding, CreateCandidate,
       AddAliases, CreateMention, EntitiesDone, FindAuthor, CreateAuthor,
       CreateRelationship, EdgesDone, Prune, Mark, ProviderFails, LoopStays
  <2> QED
    BY <1>3, <2>1, ExtractSpares, ToldOn DEF InMerge, Absorbed
<1>4. CASE Rest
  <2>1. CASE api.at \notin MergeSteps /\ ~MergeRecord
    BY <1>4, <2>1, RestApi, RestSpares, ToldIdle
  <2>2. CASE MergeRecord \/ MergeMentions \/ MergeEdges \/ MergeAliases \/ MergeDrop
    BY <2>2, ToldRecord, ToldMerge, ToldDrop
  <2> QED
    BY <1>4, <2>1, <2>2, RestApi
<1>5. CASE Crash
  <2>1. crashes' # 0
    BY <1>5 DEF Crash, Typed, TypeOK
  <2> QED
    BY <2>1 DEF Told
<1> QED
  BY <1>1, <1>2, <1>3, <1>4, <1>5 DEF Next

\* What the history says was absorbed is gone, whatever extractions, deletes,
\* renames and half-done merges do meanwhile: a merge records before it removes,
\* and the row of a merge that gives up goes with its survivor
\* (merge_entities of store.py).
THEOREM EntitiesHistory == Spec => []HistoryTrue
<1>1. Init => Told
  BY DEF Init, EmptyTables, Told
<1>2. Told => HistoryTrue
  BY DEF Told, HistoryTrue, InMerge, MergeSteps
<1> QED
  BY <1>1, <1>2, InitTyped, NextTyped, ToldNext, PTL DEF Spec

-----------------------------------------------------------------------------
(* Whose the entities are.                                                 *)

\* An entity of the user's, or one that is gone for good.
Belongs(d, x, u) == x < d.next /\ (x \in DOMAIN d.entities => d.entities[x].user = u)

Owns(d) ==
    /\ \A m \in d.mentions : d.entities[m.entity].user = Owner[m.entry]
    /\ \A r \in d.edges : \A x \in {r.subject, r.object} :
          d.entities[x].user = Owner[r.entry]
    /\ \A c \in d.candidates : \A x, y \in c.pair :
          d.entities[x].user = d.entities[y].user

\* The ids an extraction may yet write.
Holds(l) == {l.entity, l.near, l.author} \cup {l.known[f] : f \in Folded}
Mine(d, l) == \A x \in Holds(l) : Belongs(d, x, Owner[l.entry])
Blank(l) == l.at \in {"idle", "read"} => Holds(l) = {None}

\* A merge goes through entities of one user.
Merging(h) == {h.survivor} \cup {h.absorbed[i] : i \in 1..Len(h.absorbed)}
OneUser(d, h) == \E u \in Users \cup {None} : \A x \in Merging(h) : Belongs(d, x, u)

Owned ==
    /\ Owns(db) /\ Owns(saved)
    /\ \A t \in Thread : Mine(db, run[t]) /\ Blank(run[t])
    /\ OneUser(db, api)

UsersStay(d) ==
    /\ d.next >= db.next /\ d.next \in Nat
    /\ \A x \in DOMAIN d.entities : x < db.next =>
          x \in DOMAIN db.entities /\ d.entities[x].user = db.entities[x].user

LEMMA CarriesUsers ==
    ASSUME Typed, NEW d, Carries(d)
    PROVE  UsersStay(d)
BY Numbered DEF Carries, UsersStay

LEMMA StillBelongs ==
    ASSUME Typed, NEW d, UsersStay(d), NEW x \in Nat, NEW u, Belongs(db, x, u)
    PROVE  Belongs(d, x, u)
BY Numbered DEF UsersStay, Belongs

LEMMA OwnsFewer ==
    ASSUME Typed, Typed', Owns(db), UsersStay(db'),
           db'.mentions \subseteq db.mentions, db'.edges \subseteq db.edges,
           \A c \in db'.candidates : \E b \in db.candidates : b.pair = c.pair
    PROVE  Owns(db')
<1>1. Linked(db) /\ Linked(db')
  BY DEF Typed, TypeOK
<1>2. \A x \in DOMAIN db.entities : x \in DOMAIN db'.entities =>
          db'.entities[x].user = db.entities[x].user
  BY Numbered DEF UsersStay
<1>3. \A m \in db'.mentions : db'.entities[m.entity].user = Owner[m.entry]
  BY <1>1, <1>2 DEF Owns, Linked
<1>4. \A r \in db'.edges : \A x \in {r.subject, r.object} :
          db'.entities[x].user = Owner[r.entry]
  BY <1>1, <1>2 DEF Owns, Linked
<1>5. \A c \in db'.candidates : \A x, y \in c.pair :
          db'.entities[x].user = db'.entities[y].user
  BY <1>1, <1>2 DEF Owns, Linked
<1> QED
  BY <1>3, <1>4, <1>5 DEF Owns

LEMMA HoldsTyped ==
    ASSUME NEW l \in Local
    PROVE  /\ \A x \in Holds(l) : x \in Nat
           /\ l.entity \in Holds(l) /\ l.near \in Holds(l) /\ l.author \in Holds(l)
           /\ \A f \in Folded : l.known[f] \in Holds(l)
BY EntitiesBounds DEF Holds, Local

\* What the assignments of an extraction add to it.
LEMMA Held ==
    ASSUME NEW r \in Local
    PROVE  /\ \A a : Holds([r EXCEPT !.at = a]) = Holds(r)
           /\ \A E, e, n, a : Holds([r EXCEPT !.todo = E, !.entry = e, !.run = n, !.at = a])
                                 = Holds(r)
           /\ \A p, q, a : Holds([r EXCEPT !.people = p, !.edges = q, !.at = a]) = Holds(r)
           /\ \A X, a : Holds([r EXCEPT !.prior = X, !.at = a]) = Holds(r)
           /\ \A q : Holds([r EXCEPT !.edges = q]) = Holds(r)
           /\ \A x, a : Holds([r EXCEPT !.entity = x, !.at = a]) \subseteq Holds(r) \cup {x}
           /\ \A x, a : Holds([r EXCEPT !.near = x, !.at = a]) \subseteq Holds(r) \cup {x}
           /\ \A p, x, a : Holds([r EXCEPT !.people = p, !.entity = x, !.at = a])
                              \subseteq Holds(r) \cup {x}
           /\ \A x : Holds([r EXCEPT !.author = x]) \subseteq Holds(r) \cup {x}
           /\ \A x, a : Holds([r EXCEPT !.author = x, !.at = a]) \subseteq Holds(r) \cup {x}
BY DEF Holds, Local

LEMMA HeldKnown ==
    ASSUME NEW r \in Local, NEW k, \A f \in Folded : k[f] \in Holds(r), NEW x \in Holds(r), NEW a
    PROVE  Holds([r EXCEPT !.known = k, !.at = a, !.author = x]) \subseteq Holds(r)
BY DEF Holds, Local

LEMMA NoneHeld ==
    /\ Holds(NoRun) = {None}
    /\ \A k, E : Holds(Started(k, E)) = {None}
<1>1. Holds(NoRun) = {None}
  BY NoRunFits, NameAssumption DEF Holds
<1>2. \A k, E : Holds([NoRun EXCEPT !.at = "read", !.kind = k, !.todo = E]) = Holds(NoRun)
  BY NoRunFits DEF Local, Holds
<1> QED
  BY <1>1, <1>2 DEF Started

LEMMA NobodyMine ==
    ASSUME NEW d, Sound(d), NEW l, Holds(l) = {None}
    PROVE  Mine(d, l)
BY DEF Mine, Belongs, Sound, Tables

LEMMA MineGains ==
    ASSUME Typed, NEW t \in Thread, Mine(db, run[t]), NEW d, UsersStay(d),
           NEW l, l.entry = run[t].entry,
           \A x \in Holds(l) : x \in Holds(run[t]) \/ Belongs(d, x, User(t))
    PROVE  Mine(d, l)
<1>1. \A x \in Holds(run[t]) : x \in Nat
  BY LocalTyped, HoldsTyped
<1> QED
  BY <1>1, StillBelongs DEF Mine, User

LEMMA HandlerIds ==
    ASSUME Typed, NEW x \in Merging(api)
    PROVE  x \in Nat
<1>1. api.survivor \in Nat /\ api.absorbed \in Seq(Id)
  BY HandlerTyped, EntitiesBounds DEF Handler
<1> QED
  BY <1>1, EntitiesBounds DEF Merging

LEMMA OthersOwned ==
    ASSUME Typed, Owned, NEW d, UsersStay(d)
    PROVE  OneUser(d, api) /\ \A t \in Thread : Mine(d, run[t])
<1>1. \A t \in Thread : \A x \in Holds(run[t]) : x \in Nat
  BY LocalTyped, HoldsTyped
<1>2. \A t \in Thread : Mine(d, run[t])
  BY <1>1, StillBelongs DEF Owned, Mine
<1>3. PICK u \in Users \cup {None} : \A x \in Merging(api) : Belongs(db, x, u)
  BY DEF Owned, OneUser
<1>4. OneUser(d, api)
  BY <1>3, HandlerIds, StillBelongs DEF OneUser
<1> QED
  BY <1>2, <1>4

LEMMA OwnedThread ==
    ASSUME Typed, Owned, NEW t \in Thread, NEW l, Becomes(t, l),
           UsersStay(db'), Owns(db'), Settles, UNCHANGED api, Mine(db', l), Blank(l)
    PROVE  Owned'
<1>1. /\ OneUser(db', api) /\ \A s \in Thread : Mine(db', run[s])
  BY OthersOwned
<1>2. run' = [run EXCEPT ![t] = l] /\ run \in [Thread -> Local]
  BY DEF Becomes, Typed, TypeOK
<1>3. \A s \in Thread : Mine(db', run'[s]) /\ Blank(run'[s])
  BY <1>1, <1>2 DEF Owned
<1>4. Owns(saved')
  BY DEF Settles, Owned
<1> QED
  BY <1>1, <1>3, <1>4 DEF Owned

\* Where an extraction has got to, its ids are the ones it held, or ones of
\* the user's.
Gains(t) ==
    \E l : /\ Becomes(t, l) /\ l.entry = run[t].entry /\ l.at \notin {"idle", "read"}
           /\ \A x \in Holds(l) : x \in Holds(run[t]) \/ Belongs(db', x, User(t))

LEMMA OwnedGains ==
    ASSUME Typed, Owned, NEW t \in Thread, Gains(t),
           UsersStay(db'), Owns(db'), Settles, UNCHANGED api
    PROVE  Owned'
<1>1. PICK l : /\ Becomes(t, l) /\ l.entry = run[t].entry /\ l.at \notin {"idle", "read"}
               /\ \A x \in Holds(l) : x \in Holds(run[t]) \/ Belongs(db', x, User(t))
  BY DEF Gains
<1>2. Blank(l) /\ Mine(db, run[t])
  BY <1>1 DEF Blank, Owned
<1>3. ASSUME NEW d, UsersStay(d),
             \A x \in Holds(l) : x \in Holds(run[t]) \/ Belongs(d, x, User(t))
      PROVE  Mine(d, l)
  BY <1>1, <1>2, <1>3, MineGains
<1>4. Mine(db', l)
  BY <1>1, <1>3
<1> QED
  BY <1>1, <1>2, <1>4, OwnedThread

Drops(t) == \E l : Becomes(t, l) /\ Holds(l) = {None}

LEMMA OwnedDrops ==
    ASSUME Typed, Typed', Owned, NEW t \in Thread, Drops(t),
           UsersStay(db'), Owns(db'), Settles, UNCHANGED api
    PROVE  Owned'
<1>1. PICK l : Becomes(t, l) /\ Holds(l) = {None}
  BY DEF Drops
<1>2. Sound(db')
  BY DEF Typed, TypeOK, Sound
<1>3. Mine(db', l) /\ Blank(l)
  BY <1>1, <1>2, NobodyMine DEF Blank
<1> QED
  BY <1>1, <1>3, OwnedThread

LEMMA OnwardDrops ==
    ASSUME Typed, NEW t \in Thread, Becomes(t, Onward(t))
    PROVE  Drops(t)
BY LocalTyped, NoneHeld DEF Onward, Drops

LEMMA RaiseDrops ==
    ASSUME Typed, NEW t \in Thread, Raise(t) \/ Finish(t)
    PROVE  Drops(t)
BY OnwardDrops DEF Raise, Finish

LEMMA GotoGains ==
    ASSUME Typed, NEW t \in Thread, NEW a, a \notin {"idle", "read"}, Goto(t, a)
    PROVE  Gains(t)
<1> DEFINE l == [run[t] EXCEPT !.at = a]
<1>1. run[t] \in Local
  BY LocalTyped
<1>2. l.entry = run[t].entry /\ l.at = a /\ Holds(l) = Holds(run[t])
  BY <1>1 DEF Local, Holds
<1>3. Becomes(t, l)
  BY DEF Goto
<1> HIDE DEF l
<1> QED
  BY <1>2, <1>3 DEF Gains

LEMMA Gained ==
    ASSUME NEW t \in Thread, NEW l, Becomes(t, l), l.entry = run[t].entry,
           l.at \notin {"idle", "read"}, NEW x, Holds(l) \subseteq Holds(run[t]) \cup {x},
           x \in Holds(run[t]) \/ Belongs(db', x, User(t))
    PROVE  Gains(t)
BY DEF Gains

\* An entity of the user's that is there stays the user's.
LEMMA FoundBelongs ==
    ASSUME Typed, NEW t \in Thread, NEW x, Exists(x), db.entities[x].user = User(t),
           UNCHANGED db
    PROVE  Belongs(db', x, User(t))
BY ExistingIds DEF Belongs, Exists

LEMMA ReadsGain ==
    ASSUME Typed, Owned, NEW t \in Thread, ReadEntry(t) \/ Ask(t) \/ SnapshotPrior(t)
    PROVE  Gains(t) \/ Drops(t)
<1>1. CASE ReadEntry(t)
  <2>1. PICK e \in run[t].todo :
           \/ Becomes(t, [run[t] EXCEPT !.todo = run[t].todo \ {e}, !.entry = e,
                                        !.run = runs + 1, !.at = "model"])
           \/ Becomes(t, Started(run[t].kind, run[t].todo \ {e}))
    BY <1>1 DEF ReadEntry
  <2>2. Holds(run[t]) = {None} /\ run[t] \in Local
    BY <1>1, LocalTyped DEF ReadEntry, At, Owned, Blank
  <2>3. Holds([run[t] EXCEPT !.todo = run[t].todo \ {e}, !.entry = e,
                             !.run = runs + 1, !.at = "model"]) = {None}
    BY <2>2 DEF Holds, Local
  <2>4. Holds(Started(run[t].kind, run[t].todo \ {e})) = {None}
    BY NoneHeld
  <2> QED
    BY <2>1, <2>3, <2>4 DEF Drops
<1>2. CASE Ask(t)
  <2>1. PICK a \in Answers :
           Becomes(t, [run[t] EXCEPT !.people = a.people, !.edges = a.edges,
                                     !.at = "snapshot"])
    BY <1>2 DEF Ask
  <2> DEFINE l == [run[t] EXCEPT !.people = a.people, !.edges = a.edges,
                                 !.at = "snapshot"]
  <2>2. l.entry = run[t].entry /\ l.at = "snapshot"
    BY LocalTyped DEF Local
  <2>3. Holds(l) = Holds(run[t])
    BY LocalTyped DEF Holds, Local
  <2>4. Becomes(t, l)
    BY <2>1
  <2> HIDE DEF l
  <2> QED
    BY <2>2, <2>3, <2>4 DEF Gains
<1>3. CASE SnapshotPrior(t)
  <2> DEFINE l == [run[t] EXCEPT !.prior = MentionedBy(run[t].entry), !.at = "mentions"]
  <2>1. l.entry = run[t].entry /\ l.at = "mentions"
    BY LocalTyped DEF Local
  <2>2. Holds(l) = Holds(run[t])
    BY LocalTyped DEF Holds, Local
  <2>3. Becomes(t, l)
    BY <1>3 DEF SnapshotPrior
  <2> HIDE DEF l
  <2> QED
    BY <2>1, <2>2, <2>3 DEF Gains
<1> QED
  BY <1>1, <1>2, <1>3

LEMMA FindsGain ==
    ASSUME Typed, NEW t \in Thread, NEW x, Exists(x), db.entities[x].user = User(t),
           UNCHANGED db, run[t].at \notin {"idle", "read"},
           \/ Becomes(t, [run[t] EXCEPT !.entity = x, !.at = "alias"])
           \/ Becomes(t, [run[t] EXCEPT !.near = x, !.at = "create"])
           \/ Becomes(t, [run[t] EXCEPT !.author = x])
    PROVE  Gains(t)
<1> DEFINE k == [run[t] EXCEPT !.entity = x, !.at = "alias"]
           l == [run[t] EXCEPT !.near = x, !.at = "create"]
           m == [run[t] EXCEPT !.author = x]
<1>1. /\ k.entry = run[t].entry /\ l.entry = run[t].entry /\ m.entry = run[t].entry
      /\ k.at = "alias" /\ l.at = "create" /\ m.at = run[t].at
  BY LocalTyped DEF Local
<1>2. /\ Holds(k) \subseteq Holds(run[t]) \cup {x}
      /\ Holds(l) \subseteq Holds(run[t]) \cup {x}
      /\ Holds(m) \subseteq Holds(run[t]) \cup {x}
  BY LocalTyped, Held
<1>3. Becomes(t, k) \/ Becomes(t, l) \/ Becomes(t, m)
  OBVIOUS
<1>4. Belongs(db', x, User(t))
  BY FoundBelongs
<1> HIDE DEF k, l, m
<1> QED
  BY <1>1, <1>2, <1>3, <1>4, Gained

LEMMA LookupsGain ==
    ASSUME Typed, NEW t \in Thread,
           Resolve(t) \/ Embed(t) \/ EntitiesDone(t) \/ FindAuthor(t) \/ EdgesDone(t)
    PROVE  Gains(t)
<1>1. UNCHANGED db /\ run[t].at \notin {"idle", "read"}
  BY DEF Resolve, Embed, EntitiesDone, FindAuthor, EdgesDone, Read, At
<1>2. CASE \E a : a \notin {"idle", "read"} /\ Goto(t, a)
  BY <1>2, GotoGains
<1>3. CASE Resolve(t)
  <2>1. \/ Goto(t, "embed")
        \/ \E x \in Matches(t) : Becomes(t, [run[t] EXCEPT !.entity = x, !.at = "alias"])
    BY <1>3 DEF Resolve
  <2> QED
    BY <1>1, <1>2, <2>1, MatchesExist, FindsGain
<1>4. CASE Embed(t)
  <2>1. \/ Goto(t, "create")
        \/ \E x \in Related(t, Alike) :
              Becomes(t, [run[t] EXCEPT !.entity = x, !.at = "alias"])
        \/ \E x \in Related(t, Close) :
              Becomes(t, [run[t] EXCEPT !.near = x, !.at = "create"])
    BY <1>4 DEF Embed
  <2>2. \A relation : \A x \in Related(t, relation) :
           Exists(x) /\ db.entities[x].user = User(t)
    BY DEF Related, Exists
  <2> QED
    BY <1>1, <1>2, <2>1, <2>2, FindsGain
<1>5. CASE FindAuthor(t)
  <2>1. \/ Goto(t, "author")
        \/ \E x \in Named(User(t), Lower[AuthorName]) : Becomes(t, [run[t] EXCEPT !.author = x])
    BY <1>5 DEF FindAuthor
  <2> QED
    BY <1>1, <1>2, <2>1, LookupsExist, FindsGain
<1>6. CASE EntitiesDone(t) \/ EdgesDone(t)
  BY <1>2, <1>6 DEF EntitiesDone, EdgesDone
<1> QED
  BY <1>3, <1>4, <1>5, <1>6

\* The new row is the user's.
LEMMA CreatedBelongs ==
    ASSUME Typed, NEW u, NEW n
    PROVE  Belongs(EntityCreated(u, n), db.next, u)
BY Numbered DEF Belongs, EntityCreated

LEMMA CreatesGain ==
    ASSUME Typed, NEW t \in Thread, CreateEntity(t) \/ CreateAuthor(t)
    PROVE  Gains(t) \/ Drops(t)
<1> DEFINE k == [run[t] EXCEPT !.entity = db.next, !.at = "vector"]
           l == [run[t] EXCEPT !.author = db.next, !.at = "edge"]
<1>1. /\ k.entry = run[t].entry /\ l.entry = run[t].entry
      /\ k.at = "vector" /\ l.at = "edge"
  BY LocalTyped DEF Local
<1>2. /\ Holds(k) \subseteq Holds(run[t]) \cup {db.next}
      /\ Holds(l) \subseteq Holds(run[t]) \cup {db.next}
  BY LocalTyped, Held
<1>3. \/ Raise(t)
      \/ /\ \E n : Commit(EntityCreated(User(t), n))
         /\ Becomes(t, k) \/ Becomes(t, l)
  BY DEF CreateEntity, CreateAuthor
<1>4. (\E n : Commit(EntityCreated(User(t), n))) => Belongs(db', db.next, User(t))
  BY CreatedBelongs DEF Commit
<1> HIDE DEF k, l
<1> QED
  BY <1>1, <1>2, <1>3, <1>4, Gained, RaiseDrops

LEMMA NobodysBelongs ==
    ASSUME Typed, NEW d, UsersStay(d), NEW u
    PROVE  Belongs(d, None, u)
<1>1. db.next \in Nat /\ db.next >= 1 /\ 0 \notin DOMAIN db.entities
  BY TablesSound, EntitiesBounds DEF Sound, Tables
<1> QED
  BY <1>1 DEF Belongs, UsersStay

LEMMA PersonsGain ==
    ASSUME Typed, NEW t \in Thread, Belongs(db', None, User(t)),
           CreateCandidate(t) \/ AddAliases(t) \/ CreateMention(t) \/ CreateRelationship(t)
    PROVE  Gains(t) \/ Drops(t)
<1>r. run[t] \in Local
  BY LocalTyped
<1>1. CASE CreateCandidate(t)
  <2> DEFINE l == [run[t] EXCEPT !.near = None, !.at = "alias"]
  <2>1. l.entry = run[t].entry /\ l.at = "alias"
    BY <1>r DEF Local
  <2>2. Holds(l) \subseteq Holds(run[t]) \cup {None}
    BY <1>r, Held
  <2>3. Becomes(t, l)
    BY <1>1 DEF CreateCandidate
  <2> HIDE DEF l
  <2> QED
    BY <2>1, <2>2, <2>3, Gained
<1>2. CASE AddAliases(t)
  <2> DEFINE a == IF Fold[Person1(t).name] = Author THEN run[t].entity ELSE run[t].author
             l == [run[t] EXCEPT !.known = KnownAs(t), !.at = "mention", !.author = a]
  <2>1. l.entry = run[t].entry /\ l.at = "mention"
    BY <1>r DEF Local
  <2>2. Holds(l) \subseteq Holds(run[t])
    <3>1. a \in Holds(run[t])
      BY <1>r, HoldsTyped
    <3>2. \A f \in Folded : KnownAs(t)[f] \in Holds(run[t])
      BY <1>r, HoldsTyped DEF KnownAs
    <3> HIDE DEF a
    <3> QED
      BY <1>r, <3>1, <3>2, HeldKnown
  <2>3. Becomes(t, l) \/ Raise(t)
    BY <1>2 DEF AddAliases
  <2> HIDE DEF l
  <2> QED
    BY <2>1, <2>2, <2>3, RaiseDrops DEF Gains
<1>3. CASE CreateMention(t)
  <2> DEFINE l == [run[t] EXCEPT !.people = Tail(run[t].people), !.entity = None,
                                 !.at = "person"]
  <2>1. l.entry = run[t].entry /\ l.at = "person"
    BY <1>r DEF Local
  <2>2. Holds(l) \subseteq Holds(run[t]) \cup {None}
    BY <1>r DEF Holds, Local
  <2>3. Becomes(t, l) \/ Raise(t)
    BY <1>3 DEF CreateMention
  <2> HIDE DEF l
  <2> QED
    BY <2>1, <2>2, <2>3, Gained, RaiseDrops
<1>4. CASE CreateRelationship(t)
  <2> DEFINE l == [run[t] EXCEPT !.edges = Tail(run[t].edges)]
  <2>1. l.entry = run[t].entry /\ l.at = "edge"
    BY <1>r, <1>4 DEF Local, CreateRelationship, At
  <2>2. Holds(l) = Holds(run[t])
    BY <1>r, Held
  <2>3. Becomes(t, l) \/ Raise(t)
    BY <1>4 DEF CreateRelationship
  <2> HIDE DEF l
  <2> QED
    BY <2>1, <2>2, <2>3, RaiseDrops DEF Gains
<1> QED
  BY <1>1, <1>2, <1>3, <1>4

LEMMA ExtractGains ==
    ASSUME Typed, Owned, NEW t \in Thread, Extract(t), Belongs(db', None, User(t))
    PROVE  Gains(t) \/ Drops(t)
<1>1. CASE ReadEntry(t) \/ Ask(t) \/ SnapshotPrior(t)
  BY <1>1, ReadsGain
<1>2. CASE DeleteMentions(t) \/ DeleteEdges(t) \/ SetEmbedding(t) \/ Prune(t)
  <2>1. \E a : a \notin {"idle", "read"} /\ Goto(t, a)
    BY <1>2 DEF DeleteMentions, DeleteEdges, SetEmbedding, Prune
  <2> QED
    BY <2>1, GotoGains
<1>3. CASE Resolve(t) \/ Embed(t) \/ EntitiesDone(t) \/ FindAuthor(t) \/ EdgesDone(t)
  BY <1>3, LookupsGain
<1>4. CASE CreateEntity(t) \/ CreateAuthor(t)
  BY <1>4, CreatesGain
<1>5. CASE CreateCandidate(t) \/ AddAliases(t) \/ CreateMention(t) \/ CreateRelationship(t)
  BY <1>5, PersonsGain
<1>6. CASE Mark(t) \/ ProviderFails(t)
  BY <1>6, RaiseDrops DEF Mark, ProviderFails
<1> QED
  BY <1>1, <1>2, <1>3, <1>4, <1>5, <1>6 DEF Extract

\* No row is added that says whose an entity is.
Fades(d) ==
    /\ d.mentions \subseteq db.mentions /\ d.edges \subseteq db.edges
    /\ \A c \in d.candidates : \E b \in db.candidates : b.pair = c.pair

LEMMA FadesRows ==
    ASSUME Typed
    PROVE  /\ Fades(db)
           /\ \A M : M \subseteq db.mentions => Fades([db EXCEPT !.mentions = M])
           /\ \A R : R \subseteq db.edges => Fades([db EXCEPT !.edges = R])
           /\ \A S : Fades([db EXCEPT !.stale = S])
           /\ \A H : Fades([db EXCEPT !.history = H])
           /\ \A E : Fades([db EXCEPT !.entities = E])
<1>1. Fades(db)
  BY DEF Fades
<1>2. ASSUME NEW M, M \subseteq db.mentions PROVE Fades([db EXCEPT !.mentions = M])
  BY <1>2, DbRecord DEF Fades
<1>3. ASSUME NEW R, R \subseteq db.edges PROVE Fades([db EXCEPT !.edges = R])
  BY <1>3, DbRecord DEF Fades
<1>4. \A S : Fades([db EXCEPT !.stale = S])
  BY DbRecord DEF Fades
<1>5. \A H : Fades([db EXCEPT !.history = H])
  BY DbRecord DEF Fades
<1>6. \A E : Fades([db EXCEPT !.entities = E])
  BY DbRecord DEF Fades
<1> QED
  BY <1>1, <1>2, <1>3, <1>4, <1>5, <1>6

LEMMA FadesRemoved ==
    /\ \A X : Fades(EntitiesRemoved(db, X))
    /\ \A e : Fades(EntryRemoved(db, e))
    /\ \A u, n : Fades(EntityCreated(u, n))
BY DEF Fades, EntitiesRemoved, EntryRemoved, EntityCreated

LEMMA FadesOwns ==
    ASSUME Typed, Typed', Owned, UsersStay(db'), Fades(db')
    PROVE  Owns(db')
BY OwnsFewer DEF Fades, Owned

LEMMA MentionOwned ==
    ASSUME Typed, Owned, NEW t \in Thread, Exists(run[t].entity)
    PROVE  Owns([db EXCEPT !.mentions = db.mentions \cup
                    {[entity |-> run[t].entity, entry |-> run[t].entry, run |-> run[t].run]}])
<1>1. PICK m : m = [entity |-> run[t].entity, entry |-> run[t].entry, run |-> run[t].run]
  OBVIOUS
<1> DEFINE d == [db EXCEPT !.mentions = db.mentions \cup {m}]
<1>2. /\ d.mentions = db.mentions \cup {m} /\ d.edges = db.edges
      /\ d.candidates = db.candidates /\ d.entities = db.entities
  BY DbRecord
<1>3. Belongs(db, run[t].entity, Owner[run[t].entry])
  BY LocalTyped, HoldsTyped DEF Owned, Mine
<1>4. db.entities[m.entity].user = Owner[m.entry]
  BY <1>1, <1>3 DEF Belongs, Exists
<1>5. [db EXCEPT !.mentions = db.mentions \cup
          {[entity |-> run[t].entity, entry |-> run[t].entry, run |-> run[t].run]}] = d
  BY <1>1
<1> HIDE DEF d
<1>6. Owns(d)
  BY <1>2, <1>4 DEF Owned, Owns
<1> QED
  BY <1>5, <1>6

LEMMA EdgeOwned ==
    ASSUME Typed, Owned, NEW t \in Thread, NEW s \in Holds(run[t]), NEW o \in Holds(run[t]),
           Exists(s), Exists(o)
    PROVE  Owns([db EXCEPT !.edges = db.edges \cup
                    {[subject |-> s, object |-> o, entry |-> run[t].entry, run |-> run[t].run]}])
<1>1. PICK r : r = [subject |-> s, object |-> o, entry |-> run[t].entry, run |-> run[t].run]
  OBVIOUS
<1> DEFINE d == [db EXCEPT !.edges = db.edges \cup {r}]
<1>2. /\ d.edges = db.edges \cup {r} /\ d.mentions = db.mentions
      /\ d.candidates = db.candidates /\ d.entities = db.entities
  BY DbRecord
<1>3. \A x \in {s, o} : Belongs(db, x, Owner[run[t].entry])
  BY DEF Owned, Mine
<1>4. r.subject = s /\ r.object = o /\ r.entry = run[t].entry
  BY <1>1
<1>5. \A x \in {r.subject, r.object} : db.entities[x].user = Owner[r.entry]
  BY <1>3, <1>4 DEF Belongs, Exists
<1>6. [db EXCEPT !.edges = db.edges \cup
          {[subject |-> s, object |-> o, entry |-> run[t].entry, run |-> run[t].run]}] = d
  BY <1>1
<1> HIDE DEF d
<1>7. Owns(d)
  <2>1. \A q \in d.edges : \A x \in {q.subject, q.object} :
           db.entities[x].user = Owner[q.entry]
    BY <1>2, <1>5 DEF Owned, Owns
  <2> QED
    BY <1>2, <2>1 DEF Owned, Owns
<1> QED
  BY <1>6, <1>7

LEMMA CandidateOwned ==
    ASSUME Typed, Owned, NEW t \in Thread, NEW n,
           Exists(run[t].entity), Exists(run[t].near)
    PROVE  Owns([db EXCEPT !.candidates = db.candidates \cup
                    {[pair |-> {run[t].entity, run[t].near}, run |-> n, status |-> "pending"]}])
<1>1. PICK c : c = [pair |-> {run[t].entity, run[t].near}, run |-> n, status |-> "pending"]
  OBVIOUS
<1> DEFINE d == [db EXCEPT !.candidates = db.candidates \cup {c}]
<1>2. /\ d.candidates = db.candidates \cup {c} /\ d.mentions = db.mentions
      /\ d.edges = db.edges /\ d.entities = db.entities
  BY DbRecord
<1>3. \A x \in {run[t].entity, run[t].near} : Belongs(db, x, Owner[run[t].entry])
  BY LocalTyped, HoldsTyped DEF Owned, Mine
<1>4. c.pair = {run[t].entity, run[t].near}
  BY <1>1
<1>5. \A x, y \in c.pair : db.entities[x].user = db.entities[y].user
  BY <1>3, <1>4 DEF Belongs, Exists
<1>6. [db EXCEPT !.candidates = db.candidates \cup
          {[pair |-> {run[t].entity, run[t].near}, run |-> n, status |-> "pending"]}] = d
  BY <1>1
<1> HIDE DEF d
<1>7. Owns(d)
  BY <1>2, <1>5 DEF Owned, Owns
<1> QED
  BY <1>6, <1>7

LEMMA ExtractOwns ==
    ASSUME Typed, Typed', Owned, NEW t \in Thread, Extract(t), UsersStay(db')
    PROVE  Owns(db')
<1>0. CASE db' = db
  BY <1>0, FadesRows, FadesOwns
<1>1. CASE ReadEntry(t) \/ Ask(t) \/ SnapshotPrior(t) \/ Resolve(t) \/ Embed(t)
           \/ EntitiesDone(t) \/ FindAuthor(t) \/ EdgesDone(t) \/ ProviderFails(t)
  <2>1. db' = db
    BY <1>1, RaiseReads DEF ReadEntry, Ask, SnapshotPrior, Resolve, Embed, EntitiesDone,
       FindAuthor, EdgesDone, ProviderFails, Read
  <2> QED
    BY <1>0, <2>1
<1>2. CASE DeleteMentions(t) \/ DeleteEdges(t) \/ Mark(t) \/ SetEmbedding(t)
           \/ AddAliases(t) \/ CreateEntity(t) \/ CreateAuthor(t) \/ Prune(t)
  <2>1. \/ \E M : M \subseteq db.mentions /\ Commit([db EXCEPT !.mentions = M])
        \/ \E R : R \subseteq db.edges /\ Commit([db EXCEPT !.edges = R])
        \/ \E S : Commit([db EXCEPT !.stale = S])
        \/ \E x, v : Commit([db EXCEPT !.entities[x].vec = v])
        \/ \E x, A : Commit([db EXCEPT !.entities[x].aliases = @ \cup A])
        \/ \E u, n : Commit(EntityCreated(u, n))
        \/ \E X : Commit(EntitiesRemoved(db, X))
        \/ Commit(db) \/ Read \/ Raise(t)
    BY <1>2 DEF DeleteMentions, DeleteEdges, Mark, SetEmbedding, AddAliases,
       CreateEntity, CreateAuthor, Prune
  <2>2. /\ \A x, v : [db EXCEPT !.entities[x].vec = v]
                        = [db EXCEPT !.entities = [db.entities EXCEPT ![x].vec = v]]
        /\ \A x, A : [db EXCEPT !.entities[x].aliases = @ \cup A]
                        = [db EXCEPT !.entities =
                              [db.entities EXCEPT ![x].aliases = db.entities[x].aliases \cup A]]
    BY DbRecord
  <2>3. \/ \E M : M \subseteq db.mentions /\ db' = [db EXCEPT !.mentions = M]
        \/ \E R : R \subseteq db.edges /\ db' = [db EXCEPT !.edges = R]
        \/ \E S : db' = [db EXCEPT !.stale = S]
        \/ \E E : db' = [db EXCEPT !.entities = E]
        \/ \E u, n : db' = EntityCreated(u, n)
        \/ \E X : db' = EntitiesRemoved(db, X)
        \/ db' = db
    BY <2>1, <2>2, RaiseReads DEF Commit, Read
  <2>4. Fades(db')
    BY <2>3, FadesRows, FadesRemoved
  <2> QED
    BY <2>4, FadesOwns
<1>3. CASE CreateMention(t)
  <2>1. \/ Raise(t)
        \/ /\ Exists(run[t].entity)
           /\ Commit([db EXCEPT !.mentions = db.mentions \cup
                  {[entity |-> run[t].entity, entry |-> run[t].entry, run |-> run[t].run]}])
    BY <1>3 DEF CreateMention
  <2> QED
    BY <1>0, <2>1, RaiseReads, MentionOwned DEF Commit
<1>4. CASE CreateRelationship(t)
  <2> DEFINE r == Head(run[t].edges)
             s == EndOf(t, r[1])
             o == EndOf(t, r[2])
  <2>1. \/ Raise(t) \/ Read
        \/ /\ Exists(s) /\ Exists(o)
           /\ Commit([db EXCEPT !.edges = db.edges \cup
                  {[subject |-> s, object |-> o, entry |-> run[t].entry, run |-> run[t].run]}])
    BY <1>4 DEF CreateRelationship
  <2>2. run[t].edges \in Seq(Folded \X Folded) /\ run[t].edges # <<>>
    BY <1>4, LocalTyped DEF CreateRelationship
  <2>3. r \in Folded \X Folded
    BY <2>2, HeadTailProperties
  <2>4. r[1] \in Folded /\ r[2] \in Folded
    BY <2>3
  <2>5. s \in Holds(run[t]) /\ o \in Holds(run[t])
    <3>1. /\ run[t].author \in Holds(run[t])
          /\ \A f \in Folded : run[t].known[f] \in Holds(run[t])
      BY LocalTyped, HoldsTyped
    <3> QED
      BY <2>4, <3>1 DEF EndOf
  <2> HIDE DEF s, o, r
  <2>6. CASE Raise(t) \/ Read
    BY <1>0, <2>6, RaiseReads DEF Read
  <2>7. CASE /\ Exists(s) /\ Exists(o)
             /\ Commit([db EXCEPT !.edges = db.edges \cup
                    {[subject |-> s, object |-> o, entry |-> run[t].entry, run |-> run[t].run]}])
    <3>1. Owns([db EXCEPT !.edges = db.edges \cup
                    {[subject |-> s, object |-> o, entry |-> run[t].entry, run |-> run[t].run]}])
      BY <2>5, <2>7, EdgeOwned
    <3> QED
      BY <2>7, <3>1 DEF Commit
  <2> QED
    BY <2>1, <2>6, <2>7
<1>5. CASE CreateCandidate(t)
  <2>1. \/ Read
        \/ /\ Exists(run[t].entity) /\ Exists(run[t].near)
           /\ Commit([db EXCEPT !.candidates = db.candidates \cup
                  {[pair |-> {run[t].entity, run[t].near}, run |-> run[t].run,
                    status |-> "pending"]}])
    BY <1>5 DEF CreateCandidate
  <2> QED
    BY ZenonT(40), <1>0, <2>1, CandidateOwned DEF Commit, Read
<1> QED
  BY <1>1, <1>2, <1>3, <1>4, <1>5 DEF Extract

LEMMA ExtractApi ==
    ASSUME NEW t \in Thread, Extract(t)
    PROVE  UNCHANGED <<api, crashes>>
BY DEF Extract, ReadEntry, Ask, SnapshotPrior, DeleteMentions, DeleteEdges, Resolve,
       Embed, CreateEntity, SetEmbedding, CreateCandidate, AddAliases, CreateMention,
       EntitiesDone, FindAuthor, CreateAuthor, CreateRelationship, EdgesDone, Prune,
       Mark, ProviderFails, LoopStays

LEMMA OwnedExtract ==
    ASSUME Typed, Typed', Owned, NEW t \in Thread, Extract(t)
    PROVE  Owned'
<1>1. Spares(db') /\ Settles /\ UNCHANGED api
  BY ExtractSpares, ExtractApi
<1>2. UsersStay(db')
  BY <1>1, CarriesUsers DEF Spares
<1>3. Belongs(db', None, User(t))
  BY <1>2, NobodysBelongs
<1>4. Owns(db')
  BY <1>2, ExtractOwns
<1>5. Gains(t) \/ Drops(t)
  BY <1>3, ExtractGains
<1> QED
  BY <1>1, <1>2, <1>4, <1>5, OwnedGains, OwnedDrops

LEMMA RestUsers ==
    ASSUME Typed, Rest
    PROVE  UsersStay(db') /\ Settles
<1>1. CASE Renames
  <2>1. PICK x, n : RenameEntity(x, n)
    BY <1>1 DEF Renames
  <2>0. /\ db'.next = db.next /\ DOMAIN db'.entities = DOMAIN db.entities
        /\ \A y \in DOMAIN db.entities : db'.entities[y].user = db.entities[y].user
    BY <2>1, Renamed
  <2>2. UsersStay(db')
    BY <2>0, Numbered DEF UsersStay
  <2> QED
    BY <2>2, RestSpares
<1>2. CASE ~Renames
  BY <1>2, RestSpares, CarriesUsers
<1> QED
  BY <1>1, <1>2

LEMMA CandidateFades ==
    ASSUME Typed, NEW c \in db.candidates, NEW status
    PROVE  Fades([db EXCEPT !.candidates =
                     (db.candidates \ {c}) \cup {[c EXCEPT !.status = status]}])
<1>1. [c EXCEPT !.status = status].pair = c.pair
  BY TablesSound DEF Sound, Tables, Candidate
<1> DEFINE C == (db.candidates \ {c}) \cup {[c EXCEPT !.status = status]}
<1>2. \A k \in C : \E b \in db.candidates : b.pair = k.pair
  BY <1>1
<1> HIDE DEF C
<1>3. Fades([db EXCEPT !.candidates = C])
  BY <1>2, DbRecord DEF Fades
<1> QED
  BY <1>3 DEF C

\* What a merge moves goes to an entity of the same user.
LEMMA MovedUser ==
    ASSUME Typed, Owned, api.at \in MergeSteps, NEW x \in DOMAIN db.entities,
           x = Absorbed => Exists(api.survivor)
    PROVE  db.entities[Moved(x)].user = db.entities[x].user
<1>1. CASE x # Absorbed
  BY <1>1 DEF Moved
<1>2. CASE x = Absorbed
  <2>1. api.absorbed \in Seq(Id) /\ api.absorbed # <<>>
    BY HandlerTyped DEF Handler, Handles, MergeSteps
  <2>2. Absorbed = api.absorbed[1] /\ 1 \in 1..Len(api.absorbed)
    BY <2>1, EmptySeq DEF Absorbed
  <2>3. Absorbed \in Merging(api) /\ api.survivor \in Merging(api)
    BY <2>2 DEF Merging
  <2>4. PICK u \in Users \cup {None} : \A y \in Merging(api) : Belongs(db, y, u)
    BY DEF Owned, OneUser
  <2> QED
    BY <1>2, <2>3, <2>4 DEF Belongs, Exists, Moved
<1> QED
  BY <1>1, <1>2

LEMMA MentionsOwned ==
    ASSUME Typed, Owned, MergeMentions
    PROVE  Owns(db')
<1>1. CASE Read
  BY <1>1 DEF Read, Owned
<1>2. CASE ~Read
  <2> DEFINE M == {[m EXCEPT !.entity = Moved(m.entity)] : m \in db.mentions}
  <2>1. /\ db' = [db EXCEPT !.mentions = M] /\ api.at \in MergeSteps
        /\ Mentioned(db, Absorbed) => Exists(api.survivor)
    BY <1>2 DEF MergeMentions, GiveUp, Write, MergeSteps
  <2>2. ASSUME NEW k \in M PROVE db.entities[k.entity].user = Owner[k.entry]
    <3>1. PICK m \in db.mentions : k = [m EXCEPT !.entity = Moved(m.entity)]
      BY <2>2
    <3>2. k.entity = Moved(m.entity) /\ k.entry = m.entry
      BY <3>1, TablesSound DEF Sound, Tables, Mention
    <3>3. m.entity \in DOMAIN db.entities
      BY TablesSound DEF Sound, Linked
    <3>4. db.entities[m.entity].user = Owner[m.entry]
      BY DEF Owned, Owns
    <3> QED
      BY <2>1, <3>2, <3>3, <3>4, MovedUser DEF Mentioned
  <2> HIDE DEF M
  <2>3. /\ db'.mentions = M /\ db'.edges = db.edges
        /\ db'.candidates = db.candidates /\ db'.entities = db.entities
    BY <2>1, DbRecord
  <2> QED
    BY <2>2, <2>3 DEF Owned, Owns
<1> QED
  BY <1>1, <1>2

LEMMA EdgesOwned ==
    ASSUME Typed, Owned, MergeEdges
    PROVE  Owns(db')
<1>1. CASE Read
  BY <1>1 DEF Read, Owned
<1>2. CASE ~Read
  <2> DEFINE R == {[r EXCEPT !.subject = Moved(r.subject), !.object = Moved(r.object)] :
                      r \in db.edges}
  <2>1. /\ db' = [db EXCEPT !.edges = R] /\ api.at \in MergeSteps
        /\ (\E r \in db.edges : Absorbed \in {r.subject, r.object}) => Exists(api.survivor)
    BY <1>2 DEF MergeEdges, GiveUp, Write, MergeSteps
  <2>2. ASSUME NEW k \in R
        PROVE  \A x \in {k.subject, k.object} : db.entities[x].user = Owner[k.entry]
    <3>1. PICK r \in db.edges :
             k = [r EXCEPT !.subject = Moved(r.subject), !.object = Moved(r.object)]
      BY <2>2
    <3>2. k.subject = Moved(r.subject) /\ k.object = Moved(r.object) /\ k.entry = r.entry
      BY <3>1, TablesSound DEF Sound, Tables, Edge
    <3>3. r.subject \in DOMAIN db.entities /\ r.object \in DOMAIN db.entities
      BY TablesSound DEF Sound, Linked
    <3>4. /\ db.entities[r.subject].user = Owner[r.entry]
          /\ db.entities[r.object].user = Owner[r.entry]
      BY DEF Owned, Owns
    <3> QED
      BY <2>1, <3>2, <3>3, <3>4, MovedUser
  <2> HIDE DEF R
  <2>3. /\ db'.edges = R /\ db'.mentions = db.mentions
        /\ db'.candidates = db.candidates /\ db'.entities = db.entities
    BY <2>1, DbRecord
  <2> QED
    BY <2>2, <2>3 DEF Owned, Owns
<1> QED
  BY <1>1, <1>2

LEMMA RestOwns ==
    ASSUME Typed, Typed', Owned, Rest
    PROVE  Owns(db')
<1>0. UsersStay(db')
  BY RestUsers
<1>1. CASE \/ \E k, e, u : Submit(k, e, u) \/ CallTool(k, e, u)
           \/ \E e : DeleteEntry(e)
           \/ \E x, L : MergeEntities(x, L)
           \/ MergeCommit
  <2>1. db' = db
    BY <1>1 DEF Submit, CallTool, DeleteEntry, MergeEntities, MergeCommit, Commit, Read
  <2> QED
    BY <2>1 DEF Owned
<1>2. CASE (\E e : EditEntry(e)) \/ RemoveEntry \/ PruneEntry \/ MergeDrop
           \/ (\E x : DropEntity(x)) \/ MergeRecord
  <2>1. \/ \E S : db' = [db EXCEPT !.stale = S]
        \/ \E X : db' = EntitiesRemoved(db, X)
        \/ \E e : db' = EntryRemoved(db, e)
        \/ \E H : db' = [db EXCEPT !.history = H]
        \/ db' = db
    BY <1>2 DEF EditEntry, RemoveEntry, PruneEntry, MergeDrop, DropEntity, MergeRecord,
       GiveUp, Commit, Write, Read
  <2> QED
    BY <1>0, <2>1, FadesRows, FadesRemoved, FadesOwns
<1>3. CASE \E c \in db.candidates : \E a : ResolveCandidate(c, a)
  <2>1. PICK c \in db.candidates : \E a :
           db' = [db EXCEPT !.candidates = (db.candidates \ {c}) \cup {[c EXCEPT !.status = a]}]
    BY <1>3 DEF ResolveCandidate, Commit
  <2> QED
    BY <1>0, <2>1, CandidateFades, FadesOwns
<1>4. CASE MergeAliases
  <2>1. \/ db' = db
        \/ db' = [db EXCEPT !.entities =
                     [db.entities EXCEPT ![api.survivor].aliases =
                         db.entities[api.survivor].aliases \cup api.aliases]]
    BY <1>4, DbRecord DEF MergeAliases, GiveUp, Read, Write
  <2>2. db' = db \/ \E E : db' = [db EXCEPT !.entities = E]
    BY <2>1
  <2> QED
    BY <1>0, <2>2, FadesRows, FadesOwns
<1>5. CASE Renames
  <2>1. PICK x, n : RenameEntity(x, n)
    BY <1>5 DEF Renames
  <2>2. Fades(db')
    BY <2>1, Renamed DEF Fades
  <2> QED
    BY <1>0, <2>2, FadesOwns
<1>6. CASE MergeMentions \/ MergeEdges
  BY <1>6, MentionsOwned, EdgesOwned
<1> QED
  BY <1>1, <1>2, <1>3, <1>4, <1>5, <1>6 DEF Rest, Renames

LEMMA FewerMerging ==
    ASSUME Typed, Owned, NEW d, UsersStay(d), NEW h, Merging(h) \subseteq Merging(api) \cup {None}
    PROVE  OneUser(d, h)
<1>1. PICK u \in Users \cup {None} : \A x \in Merging(api) : Belongs(d, x, u)
  BY OthersOwned DEF OneUser
<1>2. Belongs(d, None, u)
  BY NobodysBelongs
<1> QED
  BY <1>1, <1>2 DEF OneUser

LEMMA MergeAsked ==
    ASSUME Typed, NEW s, NEW L \in MergeLists, MergeEntities(s, L)
    PROVE  OneUser(db', api')
<1> DEFINE h == [NoHandler EXCEPT !.at = "record", !.survivor = s, !.absorbed = L]
<1>1. /\ api' = h /\ db' = db /\ Exists(s)
      /\ \A i \in 1..Len(L) : Exists(L[i]) /\ db.entities[L[i]].user = db.entities[s].user
  BY DEF MergeEntities, Handled, Read
<1>2. h.survivor = s /\ h.absorbed = L
  BY DEF NoHandler
<1> HIDE DEF h
<1>3. \A x \in Merging(h) : Exists(x) /\ db.entities[x].user = db.entities[s].user
  BY <1>1, <1>2 DEF Merging
<1>4. db.entities[s].user \in Users
  BY <1>1, Numbered DEF Exists, Entity
<1>5. OneUser(db, h)
  BY <1>3, <1>4, ExistingIds DEF OneUser, Belongs, Exists
<1> QED
  BY <1>1, <1>5

LEMMA RestMerging ==
    ASSUME Typed, Owned, Rest
    PROVE  OneUser(db', api')
<1>0. UsersStay(db')
  BY RestUsers
<1>h. api \in Handler
  BY HandlerTyped
<1>1. CASE api' = api
  BY <1>0, <1>1, OthersOwned
<1>2. CASE api' = NoHandler
  <2>1. Merging(NoHandler) = {None}
    BY EmptySeq DEF Merging, NoHandler
  <2> QED
    BY <1>0, <1>2, <2>1, FewerMerging
<1>3. CASE \E e : DeleteEntry(e)
  <2>1. PICK e : DeleteEntry(e)
    BY <1>3
  <2> DEFINE h == [NoHandler EXCEPT !.at = "remove", !.entry = e, !.prior = MentionedBy(e)]
  <2>2. api' = h
    BY <2>1 DEF DeleteEntry, Handled
  <2>3. h.survivor = None /\ h.absorbed = <<>>
    BY DEF NoHandler
  <2> HIDE DEF h
  <2>4. Merging(h) = {None}
    BY <2>3, EmptySeq DEF Merging
  <2> QED
    BY <1>0, <2>2, <2>4, FewerMerging
<1>4. CASE \E s : \E L \in MergeLists : MergeEntities(s, L)
  BY <1>4, MergeAsked
<1>5. CASE \E a : api' = [api EXCEPT !.at = a]
  <2>1. PICK a : api' = [api EXCEPT !.at = a]
    BY <1>5
  <2>2. Merging([api EXCEPT !.at = a]) = Merging(api)
    BY <1>h DEF Handler, Merging
  <2> QED
    BY <1>0, <2>1, <2>2, FewerMerging
<1>6. CASE \E a, A : api' = [api EXCEPT !.at = a, !.aliases = A]
  <2>1. PICK a, A : api' = [api EXCEPT !.at = a, !.aliases = A]
    BY <1>6
  <2>2. Merging([api EXCEPT !.at = a, !.aliases = A]) = Merging(api)
    BY <1>h DEF Handler, Merging
  <2> QED
    BY <1>0, <2>1, <2>2, FewerMerging
<1>7. CASE MergeDrop
  <2> DEFINE h == [api EXCEPT !.at = "record", !.absorbed = Tail(api.absorbed), !.aliases = {}]
  <2>1. api' = h
    BY <1>7 DEF MergeDrop, Handled
  <2>2. h.survivor = api.survivor /\ h.absorbed = Tail(api.absorbed)
    BY <1>h DEF Handler
  <2>3. api.absorbed \in Seq(Id) /\ api.absorbed # <<>>
    BY <1>7, HandlerTyped DEF Handler, Handles, MergeSteps, MergeDrop
  <2> HIDE DEF h
  <2>4. \A i \in 1..Len(h.absorbed) : i + 1 \in 1..Len(api.absorbed)
                                      /\ h.absorbed[i] = api.absorbed[i + 1]
    BY <2>2, <2>3, HeadTailProperties, LenProperties
  <2>5. Merging(h) \subseteq Merging(api)
    BY <2>2, <2>4 DEF Merging
  <2> QED
    BY <1>0, <2>1, <2>5, FewerMerging
<1>8. CASE \/ \E k, e, u : Submit(k, e, u) \/ CallTool(k, e, u)
           \/ \E e : EditEntry(e)
           \/ \E x : DropEntity(x) \/ \E n : RenameEntity(x, n)
           \/ \E c, a : ResolveCandidate(c, a)
  <2>1. api' = api
    BY <1>8 DEF Submit, CallTool, EditEntry, DropEntity, RenameEntity, ResolveCandidate
  <2> QED
    BY <1>1, <2>1
<1>9. CASE RemoveEntry \/ PruneEntry \/ MergeCommit
  <2>1. api' = NoHandler \/ api' = [api EXCEPT !.at = "prune"]
    BY <1>9 DEF RemoveEntry, PruneEntry, MergeCommit, Handled
  <2> QED
    BY <1>2, <1>5, <2>1
<1>10. CASE MergeRecord \/ MergeMentions \/ MergeEdges \/ MergeAliases
  <2>1. \/ api' = NoHandler
        \/ \E a : api' = [api EXCEPT !.at = a]
        \/ \E a, A : api' = [api EXCEPT !.at = a, !.aliases = A]
    BY <1>10 DEF MergeRecord, MergeMentions, MergeEdges, MergeAliases, GiveUp, Handled
  <2> QED
    BY <1>2, <1>5, <1>6, <2>1
<1> QED
  BY <1>3, <1>4, <1>7, <1>8, <1>9, <1>10 DEF Rest

\* The handlers leave the threads alone; the tool starts one from nothing.
LEMMA RestRun ==
    ASSUME Typed, Rest
    PROVE  UNCHANGED run \/ Drops("loop")
<1>1. CASE \E k, e, u : CallTool(k, e, u)
  <2>1. PICK k, e, u : CallTool(k, e, u)
    BY <1>1
  <2> DEFINE E == IF k = "one" THEN {e} ELSE BatchOf(k, u)
  <2>2. Becomes("loop", Started(k, E)) /\ k \in {"none", "one", "stale", "all"}
    BY <2>1 DEF CallTool
  <2>3. Holds(Started(k, E)) = {None}
    BY NoneHeld
  <2> QED
    BY <2>2, <2>3 DEF Drops
<1>2. CASE ~\E k, e, u : CallTool(k, e, u)
  BY <1>2 DEF Rest, Submit, EditEntry, DeleteEntry, RemoveEntry, PruneEntry, DropEntity,
     RenameEntity, ResolveCandidate, MergeEntities, MergeRecord, MergeMentions, MergeEdges,
     MergeAliases, MergeDrop, MergeCommit, ThreadsStay
<1> QED
  BY <1>1, <1>2

\* Nobody's thread is at work.
LEMMA AllBlank ==
    ASSUME Sound(db'), run' = [t \in Thread |-> NoRun]
    PROVE  \A t \in Thread : Mine(db', run'[t]) /\ Blank(run'[t])
<1>1. \A d : Sound(d) => Mine(d, NoRun)
  BY NoneHeld, NobodyMine
<1>2. Blank(NoRun)
  BY NoneHeld DEF Blank
<1> QED
  BY <1>1, <1>2

LEMMA NobodyMerging ==
    ASSUME Sound(db')
    PROVE  OneUser(db', NoHandler)
<1>1. Merging(NoHandler) = {None}
  BY EmptySeq DEF Merging, NoHandler
<1>2. Belongs(db', None, None)
  BY DEF Belongs, Sound, Tables
<1> QED
  BY <1>1, <1>2 DEF OneUser

LEMMA OwnedInit ==
    ASSUME Init
    PROVE  Owned
<1>1. Owns(EmptyTables)
  BY DEF Owns, EmptyTables
<1>2. Merging(NoHandler) = {None} /\ Holds(NoRun) = {None}
  BY EmptySeq, NoneHeld DEF Merging, NoHandler
<1>3. \A v : Belongs(EmptyTables, None, v)
  BY DEF Belongs, EmptyTables
<1>4. OneUser(EmptyTables, NoHandler) /\ Mine(EmptyTables, NoRun) /\ Blank(NoRun)
  BY <1>2, <1>3 DEF OneUser, Mine, Blank
<1> QED
  BY <1>1, <1>4 DEF Init, Owned

LEMMA OwnedNext ==
    ASSUME Typed, Typed', Owned, [Next]_vars
    PROVE  Owned'
<1>1. CASE UNCHANGED vars
  BY <1>1 DEF vars, Owned
<1>2. CASE StartJob
  <2>1. UNCHANGED api /\ Spares(db') /\ Settles /\ db' = db
    BY <1>2, StartSpares DEF StartJob, Commit
  <2>2. UsersStay(db') /\ Owns(db')
    BY <2>1, CarriesUsers DEF Spares, Owned
  <2>3. Drops("worker")
    <3>1. PICK k, E : Becomes("worker", Started(k, E))
      BY <1>2 DEF StartJob
    <3>2. Holds(Started(k, E)) = {None}
      BY NoneHeld
    <3> QED
      BY <3>1, <3>2 DEF Drops
  <2> QED
    BY <2>1, <2>2, <2>3, OwnedDrops
<1>3. ASSUME NEW t \in Thread, Extract(t)
      PROVE  Owned'
  BY <1>3, OwnedExtract
<1>4. CASE Rest
  <2>1. UsersStay(db') /\ Settles /\ Owns(db') /\ OneUser(db', api')
    BY <1>4, RestUsers, RestOwns, RestMerging
  <2>2. Owns(saved')
    BY <2>1 DEF Settles, Owned
  <2>3. \A t \in Thread : Mine(db', run[t])
    BY <2>1, OthersOwned
  <2>4. \A t \in Thread : Mine(db', run'[t]) /\ Blank(run'[t])
    <3>1. CASE UNCHANGED run
      BY <2>3, <3>1 DEF Owned
    <3>2. CASE Drops("loop")
      <4>1. PICK l : Becomes("loop", l) /\ Holds(l) = {None}
        BY <3>2 DEF Drops
      <4>2. Sound(db')
        BY DEF Typed, TypeOK, Sound
      <4>3. Mine(db', l) /\ Blank(l)
        BY <4>1, <4>2, NobodyMine DEF Blank
      <4>4. run' = [run EXCEPT !["loop"] = l] /\ run \in [Thread -> Local]
        BY <4>1 DEF Becomes, Typed, TypeOK
      <4> QED
        BY <2>3, <4>3, <4>4 DEF Owned
    <3> QED
      BY <1>4, <3>1, <3>2, RestRun
  <2> QED
    BY <2>1, <2>2, <2>4 DEF Owned
<1>5. CASE Crash
  <2>1. /\ db' = saved /\ saved' = saved /\ api' = NoHandler
        /\ run' = [t \in Thread |-> NoRun]
    BY <1>5 DEF Crash
  <2>2. Sound(db')
    BY DEF Typed, TypeOK, Sound
  <2> QED
    BY <2>1, <2>2, AllBlank, NobodyMerging DEF Owned
<1> QED
  BY <1>1, <1>2, <1>3, <1>4, <1>5 DEF Next

\* Users share no entities: every lookup of an extraction is for the owner of
\* its entry, a merge is checked once and then goes through ids that nobody
\* uses again, so no row ever relates what belongs to two users (_resolve_entity
\* of entity_extraction.py, merge_entities of api.py and of store.py).
THEOREM EntitiesOwned == Spec => []OwnersKept
<1>1. Owned => OwnersKept
  BY DEF Owned, Owns, OwnersKept
<1> QED
  BY <1>1, InitTyped, NextTyped, OwnedInit, OwnedNext, PTL DEF Spec

-----------------------------------------------------------------------------
(* One entity for each name of a user's.                                   *)

Distinct(d) ==
    \A x, y \in DOMAIN d.entities :
        d.entities[x].user = d.entities[y].user
          /\ Lower[d.entities[x].name] = Lower[d.entities[y].name] => x = y

\* The one worker has just seen that nobody has the name it is about to give.
TwinFree ==
    /\ At("loop", "idle")
    /\ Distinct(db) /\ Distinct(saved)
    /\ Worker.at \in {"embed", "create"} =>
          Named(User("worker"), Lower[Person1("worker").name]) = {}
    /\ Worker.at = "author" => Named(User("worker"), Lower[AuthorName]) = {}

LEMMA ExtractAt ==
    ASSUME NEW t \in Thread, Extract(t)
    PROVE  ~At(t, "idle")
BY DEF At, Extract, ReadEntry, Ask, SnapshotPrior, DeleteMentions, DeleteEdges, Resolve,
       Embed, CreateEntity, SetEmbedding, CreateCandidate, AddAliases, CreateMention,
       EntitiesDone, FindAuthor, CreateAuthor, CreateRelationship, EdgesDone, Prune,
       Mark, ProviderFails

LEMMA Became ==
    ASSUME Typed, NEW t \in Thread, NEW l, Becomes(t, l)
    PROVE  run'[t] = l /\ \A s \in Thread : s # t => run'[s] = run[s]
BY DEF Becomes, Typed, TypeOK

\* Only these two give out an id.
LEMMA ExtractNext ==
    ASSUME Typed, NEW t \in Thread, Extract(t)
    PROVE  CreateEntity(t) \/ CreateAuthor(t) \/ db'.next = db.next
<1> DEFINE Same(d) == d.next = db.next
<1>1. /\ Same(db)
      /\ \A M : Same([db EXCEPT !.mentions = M])
      /\ \A R : Same([db EXCEPT !.edges = R])
      /\ \A S : Same([db EXCEPT !.stale = S])
      /\ \A C : Same([db EXCEPT !.candidates = C])
      /\ \A x, v : Same([db EXCEPT !.entities[x].vec = v])
      /\ \A x, A : Same([db EXCEPT !.entities[x].aliases = @ \cup A])
      /\ \A X : Same(EntitiesRemoved(db, X))
  BY DbRecord DEF EntitiesRemoved
<1> HIDE DEF Same
<1>2. CreateEntity(t) \/ CreateAuthor(t) \/ Same(db')
  <2>1. CASE ReadEntry(t) \/ Ask(t) \/ SnapshotPrior(t) \/ Resolve(t) \/ Embed(t)
             \/ EntitiesDone(t) \/ FindAuthor(t) \/ EdgesDone(t) \/ ProviderFails(t)
    BY <1>1, <2>1, RaiseReads DEF ReadEntry, Ask, SnapshotPrior, Resolve, Embed,
       EntitiesDone, FindAuthor, EdgesDone, ProviderFails, Read
  <2>2. CASE DeleteMentions(t) \/ DeleteEdges(t) \/ Mark(t) \/ Prune(t)
    BY <1>1, <2>2 DEF DeleteMentions, DeleteEdges, Mark, Prune, Commit
  <2>3. CASE CreateMention(t) \/ CreateRelationship(t) \/ CreateCandidate(t)
    BY <1>1, <2>3, RaiseReads DEF CreateMention, CreateRelationship, CreateCandidate,
       Commit, Read
  <2>4. CASE SetEmbedding(t) \/ AddAliases(t)
    BY <1>1, <2>4, RaiseReads DEF SetEmbedding, AddAliases, Commit, Read
  <2> QED
    BY <2>1, <2>2, <2>3, <2>4 DEF Extract
<1> QED
  BY <1>2 DEF Same

LEMMA RestNext ==
    ASSUME Typed, Rest
    PROVE  db'.next = db.next
<1> DEFINE Same(d) == d.next = db.next
<1>1. /\ Same(db)
      /\ \A M : Same([db EXCEPT !.mentions = M])
      /\ \A R : Same([db EXCEPT !.edges = R])
      /\ \A S : Same([db EXCEPT !.stale = S])
      /\ \A C : Same([db EXCEPT !.candidates = C])
      /\ \A H : Same([db EXCEPT !.history = H])
      /\ \A x, n : Same([db EXCEPT !.entities[x].name = n])
      /\ \A x, A : Same([db EXCEPT !.entities[x].aliases = @ \cup A])
      /\ \A X : Same(EntitiesRemoved(db, X))
      /\ \A e : Same(EntryRemoved(db, e))
  BY DbRecord DEF EntitiesRemoved, EntryRemoved
<1> HIDE DEF Same
<1>2. Same(db')
  <2>1. CASE \/ \E k, e, u : Submit(k, e, u) \/ CallTool(k, e, u)
             \/ \E e : DeleteEntry(e)
             \/ \E x, L : MergeEntities(x, L)
             \/ MergeCommit
    BY <1>1, <2>1 DEF Submit, CallTool, DeleteEntry, MergeEntities, MergeCommit, Commit, Read
  <2>2. CASE (\E e : EditEntry(e)) \/ (\E c, a : ResolveCandidate(c, a))
             \/ \E x, n : RenameEntity(x, n)
    <3>1. \/ \E S : db' = [db EXCEPT !.stale = S]
          \/ \E C : db' = [db EXCEPT !.candidates = C]
          \/ \E x, n : db' = [db EXCEPT !.entities[x].name = n]
      BY <2>2 DEF EditEntry, ResolveCandidate, RenameEntity, Commit
    <3> QED
      BY <1>1, <3>1
  <2>3. CASE RemoveEntry \/ PruneEntry \/ MergeDrop \/ \E x : DropEntity(x)
    BY <1>1, <2>3 DEF RemoveEntry, PruneEntry, MergeDrop, DropEntity, Commit, Write
  <2>4. CASE MergeRecord \/ MergeMentions \/ MergeEdges \/ MergeAliases
    <3>1. \/ db' = db
          \/ \E M : db' = [db EXCEPT !.mentions = M]
          \/ \E R : db' = [db EXCEPT !.edges = R]
          \/ \E H : db' = [db EXCEPT !.history = H]
          \/ \E x, A : db' = [db EXCEPT !.entities[x].aliases = @ \cup A]
      BY <2>4 DEF MergeRecord, MergeMentions, MergeEdges, MergeAliases, GiveUp, Write, Read
    <3> QED
      BY <1>1, <3>1
  <2> QED
    BY <2>1, <2>2, <2>3, <2>4 DEF Rest
<1> QED
  BY <1>2 DEF Same

\* Without a new row or a new name nobody comes to share a name.
LEMMA NamesStay ==
    ASSUME Typed, Typed', Carries(db'), db'.next = db.next
    PROVE  /\ Distinct(db) => Distinct(db')
           /\ \A u, f : Named(u, f) = {} => Named(u, f)' = {}
<1>1. \A x \in DOMAIN db'.entities : x # db.next
  <2>1. Linked(db')
    BY DEF Typed, TypeOK
  <2> QED
    BY <2>1, Numbered DEF Linked
<1>2. \A x \in DOMAIN db'.entities :
         /\ x \in DOMAIN db.entities
         /\ db'.entities[x].user = db.entities[x].user
         /\ db'.entities[x].name = db.entities[x].name
  BY <1>1 DEF Carries
<1>3. Distinct(db) => Distinct(db')
  BY <1>2 DEF Distinct
<1>4. ASSUME NEW u, NEW f, Named(u, f) = {} PROVE Named(u, f)' = {}
  BY <1>2, <1>4 DEF Named
<1> QED
  BY <1>3, <1>4

LEMMA NamesNew ==
    ASSUME Typed, Distinct(db), NEW u, NEW n, Named(u, Lower[n]) = {}
    PROVE  Distinct(EntityCreated(u, n))
<1> DEFINE d == EntityCreated(u, n)
<1>1. /\ DOMAIN d.entities = DOMAIN db.entities \cup {db.next}
      /\ d.entities[db.next].user = u /\ d.entities[db.next].name = n
      /\ \A x \in DOMAIN db.entities : d.entities[x] = db.entities[x]
  BY Numbered DEF EntityCreated
<1> HIDE DEF d
<1>2. \A x \in DOMAIN db.entities :
         ~(db.entities[x].user = u /\ Lower[db.entities[x].name] = Lower[n])
  BY DEF Named
<1>3. Distinct(d)
  BY <1>1, <1>2 DEF Distinct
<1> QED
  BY <1>3 DEF d

Naming == {"embed", "create", "author"}

LEMMA Resumes ==
    ASSUME Typed, NEW t \in Thread,
           Raise(t) \/ Finish(t) \/ \E e : Becomes(t, Started(run[t].kind, run[t].todo \ {e}))
    PROVE  run'[t].at \in {"idle", "read"}
<1>1. Onward(t).at \in {"idle", "read"}
  BY LocalTyped, StartedFits DEF Onward
<1>2. \A e : Started(run[t].kind, run[t].todo \ {e}).at \in {"idle", "read"}
  <2>1. run[t].kind \in {"none", "one", "stale", "all"} /\ \A e : run[t].todo \ {e} \in SUBSET Entry
    BY LocalTyped DEF Local
  <2> QED
    BY <2>1, StartedFits
<1> QED
  BY <1>1, <1>2, Became DEF Raise, Finish

\* A step that comes to a place named, comes there by a lookup.
LEMMA Arrived ==
    ASSUME Typed, NEW t \in Thread, Extract(t), run'[t].at \in Naming
    PROVE  /\ db' = db /\ saved' = saved
           /\ \/ Goto(t, "embed") /\ Matches(t) = {}
              \/ Embed(t) /\ (Goto(t, "create")
                              \/ \E x : Becomes(t, [run[t] EXCEPT !.near = x, !.at = "create"]))
              \/ Goto(t, "author") /\ Named(User(t), Lower[AuthorName]) = {}
<1>r. run[t] \in Local
  BY LocalTyped
<1>0. ~(run'[t].at \in {"idle", "read"}) /\ ~Raise(t) /\ ~Finish(t)
  BY Resumes DEF Naming
<1>1. \A a : Goto(t, a) => a \in Naming
  <2>1. ASSUME NEW a, Goto(t, a) PROVE run'[t].at = a
    <3> DEFINE l == [run[t] EXCEPT !.at = a]
    <3>1. Becomes(t, l) /\ l.at = a
      BY <1>r, <2>1 DEF Goto, Local
    <3> HIDE DEF l
    <3> QED
      BY <3>1, Became
  <2> QED
    BY <2>1
<1>2. ~ReadEntry(t)
  <2>1. ASSUME ReadEntry(t) PROVE FALSE
    <3>1. PICK e \in run[t].todo :
             \/ Becomes(t, [run[t] EXCEPT !.todo = run[t].todo \ {e}, !.entry = e,
                                          !.run = runs + 1, !.at = "model"])
             \/ Becomes(t, Started(run[t].kind, run[t].todo \ {e}))
      BY <2>1 DEF ReadEntry
    <3>2. [run[t] EXCEPT !.todo = run[t].todo \ {e}, !.entry = e,
                         !.run = runs + 1, !.at = "model"].at = "model"
      BY <1>r DEF Local
    <3> QED
      BY <1>0, <3>1, <3>2, Resumes, Became DEF Naming
  <2> QED
    BY <2>1
<1>3. ~Ask(t)
  <2>1. ASSUME Ask(t) PROVE FALSE
    <3>1. PICK p, q : Becomes(t, [run[t] EXCEPT !.people = p, !.edges = q, !.at = "snapshot"])
      BY <2>1 DEF Ask
    <3>2. [run[t] EXCEPT !.people = p, !.edges = q, !.at = "snapshot"].at = "snapshot"
      BY <1>r DEF Local
    <3> QED
      BY <3>1, <3>2, Became DEF Naming
  <2> QED
    BY <2>1
<1>4. ~SnapshotPrior(t)
  <2>1. ASSUME SnapshotPrior(t) PROVE FALSE
    <3>1. PICK X : Becomes(t, [run[t] EXCEPT !.prior = X, !.at = "mentions"])
      BY <2>1 DEF SnapshotPrior
    <3> DEFINE l == [run[t] EXCEPT !.prior = X, !.at = "mentions"]
    <3>2. l.at = "mentions" /\ Becomes(t, l)
      BY <1>r, <3>1 DEF Local
    <3> HIDE DEF l
    <3> QED
      BY <3>2, Became DEF Naming
  <2> QED
    BY <2>1
<1>5. ~(DeleteMentions(t) \/ DeleteEdges(t) \/ SetEmbedding(t) \/ EntitiesDone(t)
        \/ EdgesDone(t) \/ Prune(t))
  BY <1>1 DEF DeleteMentions, DeleteEdges, SetEmbedding, EntitiesDone, EdgesDone, Prune, Naming
<1>6. ~(Mark(t) \/ ProviderFails(t))
  BY <1>0 DEF Mark, ProviderFails
<1>7. ~(CreateEntity(t) \/ CreateAuthor(t))
  <2>1. ASSUME CreateEntity(t) PROVE FALSE
    <3>1. PICK x : Becomes(t, [run[t] EXCEPT !.entity = x, !.at = "vector"])
      BY <1>0, <2>1 DEF CreateEntity
    <3> DEFINE l == [run[t] EXCEPT !.entity = x, !.at = "vector"]
    <3>2. l.at = "vector" /\ Becomes(t, l)
      BY <1>r, <3>1 DEF Local
    <3> HIDE DEF l
    <3> QED
      BY <3>2, Became DEF Naming
  <2>2. ASSUME CreateAuthor(t) PROVE FALSE
    <3>1. PICK x : Becomes(t, [run[t] EXCEPT !.author = x, !.at = "edge"])
      BY <1>0, <2>2 DEF CreateAuthor
    <3> DEFINE l == [run[t] EXCEPT !.author = x, !.at = "edge"]
    <3>2. l.at = "edge" /\ Becomes(t, l)
      BY <1>r, <3>1 DEF Local
    <3> HIDE DEF l
    <3> QED
      BY <3>2, Became DEF Naming
  <2> QED
    BY <2>1, <2>2
<1>8. ~(CreateCandidate(t) \/ AddAliases(t) \/ CreateMention(t) \/ CreateRelationship(t))
  <2>1. ASSUME CreateCandidate(t) PROVE FALSE
    <3>1. PICK x : Becomes(t, [run[t] EXCEPT !.near = x, !.at = "alias"])
      BY <2>1 DEF CreateCandidate
    <3> DEFINE l == [run[t] EXCEPT !.near = x, !.at = "alias"]
    <3>2. l.at = "alias" /\ Becomes(t, l)
      BY <1>r, <3>1 DEF Local
    <3> HIDE DEF l
    <3> QED
      BY <3>2, Became DEF Naming
  <2>2. ASSUME AddAliases(t) PROVE FALSE
    <3>1. PICK k, x : Becomes(t, [run[t] EXCEPT !.known = k, !.at = "mention", !.author = x])
      BY <1>0, <2>2 DEF AddAliases
    <3> DEFINE l == [run[t] EXCEPT !.known = k, !.at = "mention", !.author = x]
    <3>2. l.at = "mention" /\ Becomes(t, l)
      BY <1>r, <3>1 DEF Local
    <3> HIDE DEF l
    <3> QED
      BY <3>2, Became DEF Naming
  <2>3. ASSUME CreateMention(t) PROVE FALSE
    <3>1. PICK p, x : Becomes(t, [run[t] EXCEPT !.people = p, !.entity = x, !.at = "person"])
      BY <1>0, <2>3 DEF CreateMention
    <3> DEFINE l == [run[t] EXCEPT !.people = p, !.entity = x, !.at = "person"]
    <3>2. l.at = "person" /\ Becomes(t, l)
      BY <1>r, <3>1 DEF Local
    <3> HIDE DEF l
    <3> QED
      BY <3>2, Became DEF Naming
  <2>4. ASSUME CreateRelationship(t) PROVE FALSE
    <3>1. PICK q : Becomes(t, [run[t] EXCEPT !.edges = q])
      BY <1>0, <2>4 DEF CreateRelationship
    <3> DEFINE l == [run[t] EXCEPT !.edges = q]
    <3>2. l.at = run[t].at /\ Becomes(t, l)
      BY <1>r, <3>1, <2>4 DEF Local, At, CreateRelationship
    <3> HIDE DEF l
    <3> QED
      BY <3>2, <2>4, Became DEF Naming, At, CreateRelationship
  <2> QED
    BY <2>1, <2>2, <2>3, <2>4
<1>9. \A x : ~Becomes(t, [run[t] EXCEPT !.entity = x, !.at = "alias"])
  <2>1. ASSUME NEW x, Becomes(t, [run[t] EXCEPT !.entity = x, !.at = "alias"]) PROVE FALSE
    <3> DEFINE l == [run[t] EXCEPT !.entity = x, !.at = "alias"]
    <3>1. Becomes(t, l) /\ l.at = "alias"
      BY <1>r, <2>1 DEF Local
    <3> HIDE DEF l
    <3> QED
      BY <3>1, Became DEF Naming
  <2> QED
    BY <2>1
<1>10. CASE Resolve(t)
  BY <1>9, <1>10 DEF Resolve, Read
<1>11. CASE Embed(t)
  BY <1>9, <1>11 DEF Embed, Read
<1>12. CASE FindAuthor(t)
  <2>1. \A x : ~(At(t, "edge") /\ Becomes(t, [run[t] EXCEPT !.author = x]))
    <3>1. ASSUME NEW x, At(t, "edge"), Becomes(t, [run[t] EXCEPT !.author = x]) PROVE FALSE
      <4> DEFINE l == [run[t] EXCEPT !.author = x]
      <4>1. Becomes(t, l) /\ l.at = "edge"
        BY <1>r, <3>1 DEF Local, At
      <4> HIDE DEF l
      <4> QED
        BY <4>1, Became DEF Naming
    <3> QED
      BY <3>1
  <2> QED
    BY <1>12, <2>1 DEF FindAuthor, Read
<1> QED
  BY <1>2, <1>3, <1>4, <1>5, <1>6, <1>7, <1>8, <1>10, <1>11, <1>12 DEF Extract

LEMMA Matched ==
    ASSUME NEW t \in Thread, Matches(t) = {}
    PROVE  Named(User(t), Lower[Person1(t).name]) = {}
BY DEF Matches

LEMMA NamedNext ==
    ASSUME Typed, TwinFree, Extract("worker"), run'["worker"].at \in Naming
    PROVE  TwinFree'
<1>0. /\ db' = db /\ saved' = saved /\ run["worker"] \in Local
  BY Arrived, LocalTyped
<1>1. \E a : Goto("worker", a)
             \/ \E x : Becomes("worker", [run["worker"] EXCEPT !.near = x, !.at = a])
  BY Arrived
<1>2. /\ run'["worker"].entry = run["worker"].entry
      /\ run'["worker"].people = run["worker"].people
      /\ run'["loop"] = run["loop"]
  <2>1. PICK a : Goto("worker", a)
                 \/ \E x : Becomes("worker", [run["worker"] EXCEPT !.near = x, !.at = a])
    BY <1>1
  <2>2. CASE Goto("worker", a)
    <3> DEFINE l == [run["worker"] EXCEPT !.at = a]
    <3>1. /\ Becomes("worker", l)
          /\ l.entry = run["worker"].entry /\ l.people = run["worker"].people
      BY <1>0, <2>2 DEF Goto, Local
    <3> HIDE DEF l
    <3> QED
      BY <3>1, Became
  <2>3. CASE \E x : Becomes("worker", [run["worker"] EXCEPT !.near = x, !.at = a])
    <3>1. PICK x : Becomes("worker", [run["worker"] EXCEPT !.near = x, !.at = a])
      BY <2>3
    <3> DEFINE l == [run["worker"] EXCEPT !.near = x, !.at = a]
    <3>2. /\ Becomes("worker", l)
          /\ l.entry = run["worker"].entry /\ l.people = run["worker"].people
      BY <1>0, <3>1 DEF Local
    <3> HIDE DEF l
    <3> QED
      BY <3>2, Became
  <2> QED
    BY <2>1, <2>2, <2>3
<1>3. \A a : Goto("worker", a) => run'["worker"].at = a
  <2>1. ASSUME NEW a, Goto("worker", a) PROVE run'["worker"].at = a
    <3> DEFINE l == [run["worker"] EXCEPT !.at = a]
    <3>1. Becomes("worker", l) /\ l.at = a
      BY <1>0, <2>1 DEF Goto, Local
    <3> HIDE DEF l
    <3> QED
      BY <3>1, Became
  <2> QED
    BY <2>1
<1>4. \A x : Becomes("worker", [run["worker"] EXCEPT !.near = x, !.at = "create"])
                => run'["worker"].at = "create"
  <2>1. ASSUME NEW x, Becomes("worker", [run["worker"] EXCEPT !.near = x, !.at = "create"])
        PROVE  run'["worker"].at = "create"
    <3> DEFINE l == [run["worker"] EXCEPT !.near = x, !.at = "create"]
    <3>1. Becomes("worker", l) /\ l.at = "create"
      BY <1>0, <2>1 DEF Local
    <3> HIDE DEF l
    <3> QED
      BY <3>1, Became
  <2> QED
    BY <2>1
<1>5. run'["worker"].at \in {"embed", "create"} =>
          Named(User("worker"), Lower[Person1("worker").name]) = {}
  <2>1. CASE Goto("worker", "embed") /\ Matches("worker") = {}
    BY <2>1, Matched
  <2>2. CASE Embed("worker")
    BY <2>2 DEF Embed, At, TwinFree, Worker
  <2>3. CASE Goto("worker", "author")
    BY <1>3, <2>3
  <2> QED
    BY <2>1, <2>2, <2>3, Arrived
<1>6. run'["worker"].at = "author" => Named(User("worker"), Lower[AuthorName]) = {}
  BY <1>3, <1>4, Arrived
<1>7. User("worker")' = User("worker") /\ Person1("worker")' = Person1("worker")
  BY <1>2 DEF User, Person1
<1>8. \A u, f : Named(u, f)' = Named(u, f)
  BY <1>0 DEF Named
<1>9. /\ Worker'.at \in {"embed", "create"} =>
            Named(User("worker"), Lower[Person1("worker").name])' = {}
      /\ Worker'.at = "author" => Named(User("worker"), Lower[AuthorName])' = {}
  BY <1>0, <1>5, <1>6, <1>7 DEF Named, Worker
<1> QED
  BY <1>0, <1>2, <1>9 DEF TwinFree, At, Distinct

LEMMA ExtractBecomes ==
    ASSUME NEW t \in Thread, Extract(t)
    PROVE  \E l : Becomes(t, l)
<1>0. ASSUME Raise(t) \/ Finish(t) \/ \E a : Goto(t, a) PROVE \E l : Becomes(t, l)
  BY <1>0 DEF Raise, Finish, Goto
<1>1. CASE ReadEntry(t) \/ Ask(t) \/ SnapshotPrior(t) \/ DeleteMentions(t) \/ DeleteEdges(t)
           \/ Prune(t) \/ Mark(t) \/ ProviderFails(t) \/ SetEmbedding(t)
  BY <1>0, <1>1 DEF ReadEntry, Ask, SnapshotPrior, DeleteMentions, DeleteEdges, Prune, Mark,
     ProviderFails, SetEmbedding
<1>2. CASE Resolve(t) \/ Embed(t) \/ EntitiesDone(t) \/ FindAuthor(t) \/ EdgesDone(t)
  BY <1>0, <1>2 DEF Resolve, Embed, EntitiesDone, FindAuthor, EdgesDone
<1>3. CASE CreateEntity(t) \/ CreateAuthor(t) \/ CreateCandidate(t)
           \/ AddAliases(t) \/ CreateMention(t) \/ CreateRelationship(t)
  BY <1>0, <1>3 DEF CreateEntity, CreateAuthor, CreateCandidate, AddAliases, CreateMention,
     CreateRelationship
<1> QED
  BY <1>1, <1>2, <1>3 DEF Extract

\* A row is created for a name nobody has.
LEMMA CreatesNew ==
    ASSUME Typed, TwinFree, CreateEntity("worker") \/ CreateAuthor("worker")
    PROVE  Distinct(db')
<1>1. CASE db' = db
  BY <1>1 DEF TwinFree
<1>2. CASE CreateEntity("worker")
  <2>1. \/ db' = db
        \/ db' = EntityCreated(User("worker"), Person1("worker").name)
    BY <1>2, RaiseReads DEF CreateEntity, Commit
  <2>2. Named(User("worker"), Lower[Person1("worker").name]) = {}
    BY <1>2 DEF CreateEntity, At, TwinFree, Worker
  <2> QED
    BY <1>1, <2>1, <2>2, NamesNew DEF TwinFree
<1>3. CASE CreateAuthor("worker")
  <2>1. \/ db' = db
        \/ db' = EntityCreated(User("worker"), AuthorName)
    BY <1>3, RaiseReads DEF CreateAuthor, Commit
  <2>2. Named(User("worker"), Lower[AuthorName]) = {}
    BY <1>3 DEF CreateAuthor, At, TwinFree, Worker
  <2> QED
    BY <1>1, <2>1, <2>2, NamesNew DEF TwinFree
<1> QED
  BY <1>2, <1>3

LEMMA TwinNext ==
    ASSUME Typed, Typed', TwinFree, [Next]_vars, Requests \cap {"tool", "rename"} = {}
    PROVE  TwinFree'
<1>1. CASE UNCHANGED vars
  <2>1. UNCHANGED <<db, saved, run>>
    BY <1>1 DEF vars
  <2> QED
    BY <2>1 DEF TwinFree, At, Worker, Distinct, Named, User, Person1
<1>2. CASE StartJob
  <2>1. db' = db /\ saved' = db /\ \E k, E : Becomes("worker", Started(k, E))
    BY <1>2 DEF StartJob, Commit
  <2>2. \A k, E : Started(k, E).at \in {"idle", "read"}
    <3>1. \A k, E : [NoRun EXCEPT !.at = "read", !.kind = k, !.todo = E].at = "read"
      BY NoRunFits DEF Local
    <3> QED
      BY <3>1, NoRunFits DEF Started
  <2>3. run'["worker"].at \in {"idle", "read"} /\ run'["loop"] = run["loop"]
    BY <2>1, <2>2, Became
  <2> QED
    BY <2>1, <2>3 DEF TwinFree, At, Worker, Distinct
<1>3. ASSUME NEW t \in Thread, Extract(t)
      PROVE  TwinFree'
  <2>1. t = "worker"
    BY <1>3, ExtractAt DEF TwinFree
  <2>2. CASE run'["worker"].at \in Naming
    BY <1>3, <2>1, <2>2, NamedNext
  <2>3. CASE run'["worker"].at \notin Naming
    <3>1. run'["loop"] = run["loop"]
      BY <1>3, <2>1, ExtractBecomes, Became
    <3>2. Spares(db') /\ Settles
      BY <1>3, ExtractSpares
    <3>3. Distinct(db')
      BY <1>3, <2>1, <3>2, ExtractNext, NamesStay, CreatesNew DEF Spares, TwinFree
    <3>4. Distinct(saved')
      BY <3>2, <3>3 DEF Settles, TwinFree
    <3> QED
      BY <2>3, <3>1, <3>3, <3>4 DEF TwinFree, At, Worker, Distinct, Naming
  <2> QED
    BY <2>2, <2>3
<1>4. CASE Rest
  <2>1. ~Renames /\ ~\E k, e, u : CallTool(k, e, u)
    BY DEF Renames, RenameEntity, CallTool, Requested
  <2>2. UNCHANGED run
    BY <1>4, <2>1 DEF Rest, Submit, EditEntry, DeleteEntry, RemoveEntry, PruneEntry, DropEntity,
       RenameEntity, ResolveCandidate, MergeEntities, MergeRecord, MergeMentions, MergeEdges,
       MergeAliases, MergeDrop, MergeCommit, ThreadsStay
  <2>3. Carries(db') /\ Settles /\ db'.next = db.next
    BY <1>4, <2>1, RestSpares, RestNext
  <2>4. Distinct(db') /\ Distinct(saved')
    BY <2>3, NamesStay DEF Settles, TwinFree
  <2>5. PICK u, f : u = User("worker") /\ f = Lower[Person1("worker").name]
    OBVIOUS
  <2>6. u = User("worker")' /\ f = Lower[Person1("worker")'.name]
    BY <2>2, <2>5 DEF User, Person1
  <2>7. /\ Named(u, f) = {} => Named(u, f)' = {}
        /\ Named(u, Lower[AuthorName]) = {} => Named(u, Lower[AuthorName])' = {}
    BY <2>3, NamesStay
  <2>8. /\ Worker'.at \in {"embed", "create"} =>
              Named(User("worker"), Lower[Person1("worker").name])' = {}
        /\ Worker'.at = "author" => Named(User("worker"), Lower[AuthorName])' = {}
    BY <2>2, <2>5, <2>6, <2>7 DEF TwinFree, Worker, Named
  <2> QED
    BY <2>2, <2>4, <2>8 DEF TwinFree, At, Distinct
<1>5. CASE Crash
  <2>1. /\ db' = saved /\ saved' = saved
        /\ run'["worker"] = NoRun /\ run'["loop"] = NoRun
    BY <1>5 DEF Crash
  <2> QED
    BY <2>1, NoRunFits DEF TwinFree, At, Worker, Distinct
<1> QED
  BY <1>1, <1>2, <1>3, <1>4, <1>5 DEF Next

\* The worker looks for a name and creates the entity in two steps, and neither
\* the handlers nor a merge can give that name to anybody meanwhile: two runs of
\* one worker and the author's row never make two entities of spellings that
\* SQLite's LOWER takes for one name (_resolve_entity and
\* _resolve_for_relationship of entity_extraction.py, get_entity_by_name of
\* store.py).  Spellings that differ in the case of a letter beyond ASCII are two
\* names to it.  Renames and the tool on the event loop can make twins, and are
\* left out.
THEOREM EntitiesNoTwins ==
    Spec => [](Requests \cap {"tool", "rename"} = {} => NoTwins)
<1> DEFINE Inv == Typed /\ (Requests \cap {"tool", "rename"} = {} => TwinFree)
<1>1. Init => Inv
  <2>1. Init => TwinFree
    BY NoRunFits DEF Init, TwinFree, At, Distinct, EmptyTables, Worker
  <2> QED
    BY <2>1, InitTyped
<1>2. Inv /\ [Next]_vars => Inv'
  BY NextTyped, TwinNext
<1>3. Inv => (Requests \cap {"tool", "rename"} = {} => NoTwins)
  BY DEF TwinFree, Distinct, NoTwins
<1> HIDE DEF Inv
<1> QED
  BY <1>1, <1>2, <1>3, PTL DEF Spec

-----------------------------------------------------------------------------
(* The names of absorbed entities.                                         *)

\* What the merge of this row makes aliases of the survivor.
Names(h) == (h.aliases \cup {Fold[h.name]}) \ {Fold[h.into]}

LeadsFor(h) == Names(h) \subseteq db.entities[h.survivor].aliases

\* The row whose aliases a merge is about to write.
Carried(h) ==
    /\ InMerge(h) /\ api.at \in {"mentions", "edges", "aliases"}
    /\ Names(h) \subseteq api.aliases

Leading == crashes = 0 => \A h \in db.history : LeadsFor(h) \/ Carried(h)

\* A survivor that is still there keeps its aliases.
LEMMA StillLeads ==
    ASSUME Typed, Typed', Carries(db') \/ Renames,
           NEW h \in db.history, h \in db'.history, LeadsFor(h)
    PROVE  LeadsFor(h)'
<1>1. h.survivor \in DOMAIN db.entities /\ h.survivor \in DOMAIN db'.entities
  <2>1. Linked(db) /\ Linked(db')
    BY DEF Typed, TypeOK
  <2> QED
    BY <2>1 DEF Linked
<1>2. CASE Carries(db')
  <2>1. h.survivor # db.next
    BY <1>1, Numbered
  <2>2. db.entities[h.survivor].aliases \subseteq db'.entities[h.survivor].aliases
    BY <1>1, <1>2, <2>1 DEF Carries
  <2> QED
    BY <2>2 DEF LeadsFor
<1>3. CASE Renames
  <2>1. PICK x, n : RenameEntity(x, n)
    BY <1>3 DEF Renames
  <2>2. db'.entities[h.survivor].aliases = db.entities[h.survivor].aliases
    BY <1>1, <2>1, Renamed
  <2> QED
    BY <2>2 DEF LeadsFor
<1> QED
  BY <1>2, <1>3

LEMMA LeadingOn ==
    ASSUME Typed, Typed', Leading, UNCHANGED crashes,
           Carries(db') \/ Renames, db'.history \subseteq db.history,
           \A h \in db'.history : Carried(h) => LeadsFor(h)' \/ Carried(h)'
    PROVE  Leading'
<1> SUFFICES ASSUME crashes = 0, NEW h \in db'.history
             PROVE  LeadsFor(h)' \/ Carried(h)'
  BY DEF Leading
<1>1. LeadsFor(h) \/ Carried(h)
  BY DEF Leading
<1> QED
  BY <1>1, StillLeads

LEMMA LeadingMerge ==
    ASSUME Typed, Typed', Leading, MergeMentions \/ MergeEdges
    PROVE  Leading'
<1>1. UNCHANGED crashes /\ Rest
  BY DEF MergeMentions, MergeEdges, HandlersStay, Rest
<1>2. Spares(db')
  <2>1. ~Renames /\ ~MergeRecord
    BY DEF MergeMentions, MergeEdges, Renames, RenameEntity, Requested, MergeRecord
  <2> QED
    BY <1>1, <2>1, RestSpares
<1>3. \/ ~Exists(api.survivor)
      \/ \E s \in {"edges", "aliases"} : api' = [api EXCEPT !.at = s]
  BY DEF MergeMentions, MergeEdges, GiveUp, Handled
<1>4. CASE ~Exists(api.survivor)
  <2>1. \A h \in db.history : ~Carried(h)
    BY <1>4, HistoryTyped DEF InMerge, Exists, Carried
  <2> QED
    BY <1>1, <1>2, <2>1, LeadingOn DEF Spares
<1>5. CASE \E s \in {"edges", "aliases"} : api' = [api EXCEPT !.at = s]
  <2>1. api'.at \in {"edges", "aliases"} /\ api'.aliases = api.aliases
        /\ api'.absorbed = api.absorbed /\ api'.survivor = api.survivor
    BY <1>5, HandlerTyped DEF Handler
  <2>2. \A h : Carried(h) => Carried(h)'
    BY <2>1 DEF Carried, InMerge, Absorbed, MergeSteps
  <2> QED
    BY <1>1, <1>2, <2>2, LeadingOn DEF Spares
<1> QED
  BY <1>3, <1>4, <1>5

LEMMA LeadingAliases ==
    ASSUME Typed, Typed', Leading, MergeAliases
    PROVE  Leading'
<1>1. UNCHANGED crashes /\ Rest
  BY DEF MergeAliases, HandlersStay, Rest
<1>2. Spares(db')
  <2>1. ~Renames /\ ~MergeRecord
    BY DEF MergeAliases, Renames, RenameEntity, Requested, MergeRecord
  <2> QED
    BY <1>1, <2>1, RestSpares
<1>3. CASE ~Exists(api.survivor)
  <2>1. \A h \in db.history : ~Carried(h)
    BY <1>3, HistoryTyped DEF InMerge, Exists, Carried
  <2> QED
    BY <1>1, <1>2, <2>1, LeadingOn DEF Spares
<1>4. CASE Exists(api.survivor)
  <2> DEFINE s == api.survivor
             B == db.entities[s].aliases \cup api.aliases
             E == [db.entities EXCEPT ![s].aliases = B]
  <2>1. db' = [db EXCEPT !.entities = E]
    BY <1>4, DbRecord DEF MergeAliases, GiveUp, Write
  <2>2. db.entities \in [DOMAIN db.entities -> Entity] /\ s \in DOMAIN db.entities
    BY <1>4, TablesSound DEF Sound, Tables, Exists
  <2>3. E[s] = [db.entities[s] EXCEPT !.aliases = B] /\ db.entities[s] \in Entity
    BY <2>2
  <2> HIDE DEF B
  <2>4. E[s].aliases = B
    BY <2>3 DEF Entity
  <2> HIDE DEF E
  <2>5. db'.entities[s].aliases = B
    BY <2>1, <2>4, DbRecord
  <2>6. \A h : Carried(h) => LeadsFor(h)'
    BY <2>5 DEF Carried, InMerge, LeadsFor, B
  <2> QED
    BY <1>1, <1>2, <2>6, LeadingOn DEF Spares
<1> QED
  BY <1>3, <1>4

\* The aliases to be are what the row names.
LEMMA LeadingRecord ==
    ASSUME Typed, Typed', Leading, MergeRecord
    PROVE  Leading'
<1>0. /\ UNCHANGED crashes /\ api.at = "record" /\ api.absorbed # <<>>
      /\ \A h : ~Carried(h)
  BY DEF MergeRecord, HandlersStay, Carried
<1>1. CASE Read
  <2>1. Carries(db') /\ db'.history \subseteq db.history
    BY <1>1, SparesColumns DEF Read, Spares
  <2> QED
    BY <1>0, <2>1, LeadingOn
<1>2. CASE ~Read
  <2>r. PICK r : r = HistoryRow
    OBVIOUS
  <2> DEFINE A == (db.entities[Absorbed].aliases \cup {Fold[db.entities[Absorbed].name]})
                      \ {Fold[db.entities[api.survivor].name]}
  <2>1. /\ Exists(Absorbed) /\ Exists(api.survivor) /\ Absorbed # api.survivor
        /\ db' = [db EXCEPT !.history = db.history \cup {r}]
        /\ api' = [api EXCEPT !.at = "mentions", !.aliases = A]
    BY <1>2, <2>r DEF MergeRecord, GiveUp, Write, Handled
  <2>2. r.absorbed = Absorbed /\ r.survivor = api.survivor
    BY <2>r DEF HistoryRow
  <2>3. Names(r) = A
    BY <2>r DEF HistoryRow, Names
  <2> HIDE DEF A
  <2>5. db'.history = db.history \cup {r} /\ db'.entities = db.entities
    BY <2>1, DbRecord
  <2>6. /\ api'.at = "mentions" /\ api'.absorbed = api.absorbed
        /\ api'.survivor = api.survivor /\ api'.aliases = A
    BY <2>1, HandlerTyped DEF Handler
  <2>7. LeadsFor(r)' \/ Carried(r)'
    BY <2>2, <2>3, <2>6 DEF Carried, InMerge, Absorbed, MergeSteps
  <2>8. ASSUME crashes = 0, NEW h \in db'.history PROVE LeadsFor(h)' \/ Carried(h)'
    <3>1. CASE h = r
      BY <2>7, <3>1
    <3>2. CASE h \in db.history
      BY <1>0, <2>5, <2>8, <3>2 DEF Leading, LeadsFor
    <3> QED
      BY <2>5, <3>1, <3>2
  <2> QED
    BY <1>0, <2>8 DEF Leading
<1> QED
  BY <1>1, <1>2

LEMMA LeadingNext ==
    ASSUME Typed, Typed', Leading, [Next]_vars
    PROVE  Leading'
<1>1. CASE UNCHANGED vars
  BY <1>1 DEF vars, Leading, LeadsFor, Carried, InMerge, Absorbed
<1>2. CASE StartJob
  <2>1. UNCHANGED <<api, crashes>> /\ Spares(db')
    BY <1>2, StartSpares DEF StartJob
  <2>2. \A h : Carried(h) => Carried(h)'
    BY <2>1 DEF Carried, InMerge, Absorbed
  <2> QED
    BY <2>1, <2>2, LeadingOn DEF Spares
<1>3. ASSUME NEW t \in Thread, Extract(t)
      PROVE  Leading'
  <2>1. UNCHANGED <<api, crashes>> /\ Spares(db')
    BY <1>3, ExtractSpares, ExtractApi
  <2>2. \A h : Carried(h) => Carried(h)'
    BY <2>1 DEF Carried, InMerge, Absorbed
  <2> QED
    BY <2>1, <2>2, LeadingOn DEF Spares
<1>4. CASE Rest
  <2>1. CASE MergeRecord
    BY <2>1, LeadingRecord
  <2>2. CASE MergeMentions \/ MergeEdges \/ MergeAliases
    BY <2>2, LeadingMerge, LeadingAliases
  <2>3. CASE ~MergeRecord /\ (api.at \notin MergeSteps \/ MergeDrop)
    <3>1. \A h : ~Carried(h)
      BY <2>3 DEF Carried, MergeSteps, MergeDrop
    <3>2. db'.history \subseteq db.history
      <4>1. CASE Renames
        BY <4>1, Renamed DEF Renames
      <4>2. CASE ~Renames
        BY <1>4, <2>3, <4>2, RestSpares DEF Spares
      <4> QED
        BY <4>1, <4>2
    <3> QED
      BY <1>4, <3>1, <3>2, RestSpares, RestApi, LeadingOn
  <2> QED
    BY <1>4, <2>1, <2>2, <2>3, RestApi
<1>5. CASE Crash
  <2>1. crashes' # 0
    BY <1>5 DEF Crash, Typed, TypeOK
  <2> QED
    BY <2>1 DEF Leading
<1> QED
  BY <1>1, <1>2, <1>3, <1>4, <1>5 DEF Next

\* The name of what a merge absorbed and all its aliases are aliases of the
\* survivor from then on, whatever extractions, renames and other merges do with
\* the survivor since, except for what was the survivor's own name at the time
\* (merge_entities of store.py).
THEOREM EntitiesLead == Spec => []MergedNamesLead
<1>1. Init => Leading
  BY DEF Init, Leading, EmptyTables
<1>2. Typed /\ Typed' /\ Leading /\ [Next]_vars => Leading'
  BY LeadingNext
<1>3. Leading => MergedNamesLead
  BY DEF Leading, LeadsFor, Names, Carried, InMerge, MergeSteps, MergedNamesLead
<1> QED
  BY <1>1, <1>2, <1>3, InitTyped, NextTyped, PTL DEF Spec

-----------------------------------------------------------------------------
(* No entity is left behind.                                               *)

\* The steps between the snapshot of an extraction and its clean-up, and those
\* with an entity in hand.
Tidying == Steps \ {"idle", "read", "model", "snapshot", "mark"}
InHand == {"vector", "candidate", "alias", "mention"}

Loose(x) == ~Mentioned(db, x) /\ Fold[db.entities[x].name] # Author

\* Somebody is about to see to the entity.
Covered(x) ==
    \/ Worker.at \in Tidying /\ x \in Worker.prior
    \/ Worker.at \in InHand /\ x = Worker.entity
    \/ api.at = "prune" /\ x \in api.prior

\* Single jobs, one after the other; everything is committed.
Calm ==
    /\ saved = db
    /\ \A i \in 1..Len(jobs) : jobs[i].kind = "one"
    /\ Worker.at # "idle" => Worker.kind = "one"
    /\ Worker.at = "read" => Worker.entry = None /\ \E e \in Entry : Worker.todo = {e}
    /\ Worker.at \notin {"idle", "read"} => Worker.todo = {}
    /\ At("loop", "idle")
    /\ api.at \in {"idle", "remove", "prune"}

\* Nobody extracts the entry that is being deleted, so what was noted of it
\* still holds.
Apart ==
    api.at = "remove" =>
        ~ActiveFor(api.entry) /\ MentionedBy(api.entry) \subseteq api.prior

Noting == Worker.at = "mentions" => MentionedBy(Worker.entry) \subseteq Worker.prior

Tended == ~broken => \A x \in DOMAIN db.entities : Loose(x) => Covered(x)

Tidy == Calm /\ Apart /\ Noting /\ Tended

\* A step on, within an extraction.
Onto(t, S) ==
    /\ run'[t].kind = run[t].kind /\ run'[t].todo = run[t].todo
    /\ run'[t].entry = run[t].entry /\ run'[t].prior = run[t].prior
    /\ run'[t].at \in S

LEMMA GotoOnto ==
    ASSUME Typed, NEW t \in Thread, NEW a, Goto(t, a)
    PROVE  Onto(t, {a}) /\ run'[t].entity = run[t].entity
<1> DEFINE l == [run[t] EXCEPT !.at = a]
<1>1. /\ Becomes(t, l) /\ l.at = a /\ l.kind = run[t].kind /\ l.todo = run[t].todo
      /\ l.entry = run[t].entry /\ l.prior = run[t].prior /\ l.entity = run[t].entity
  BY LocalTyped DEF Goto, Local
<1> HIDE DEF l
<1> QED
  BY <1>1, Became DEF Onto

LEMMA AskOnto ==
    ASSUME Typed, NEW t \in Thread, NEW p, NEW q, NEW a,
           Becomes(t, [run[t] EXCEPT !.people = p, !.edges = q, !.at = a])
    PROVE  Onto(t, {a}) /\ run'[t].entity = run[t].entity
<1> DEFINE l == [run[t] EXCEPT !.people = p, !.edges = q, !.at = a]
<1>1. /\ Becomes(t, l) /\ l.at = a /\ l.kind = run[t].kind /\ l.todo = run[t].todo
      /\ l.entry = run[t].entry /\ l.prior = run[t].prior /\ l.entity = run[t].entity
  BY LocalTyped DEF Local
<1> HIDE DEF l
<1> QED
  BY <1>1, Became DEF Onto

LEMMA EntityOnto ==
    ASSUME Typed, NEW t \in Thread, NEW x, NEW a,
           Becomes(t, [run[t] EXCEPT !.entity = x, !.at = a])
    PROVE  Onto(t, {a}) /\ run'[t].entity = x
<1> DEFINE l == [run[t] EXCEPT !.entity = x, !.at = a]
<1>1. /\ Becomes(t, l) /\ l.at = a /\ l.kind = run[t].kind /\ l.todo = run[t].todo
      /\ l.entry = run[t].entry /\ l.prior = run[t].prior /\ l.entity = x
  BY LocalTyped DEF Local
<1> HIDE DEF l
<1> QED
  BY <1>1, Became DEF Onto

LEMMA NearOnto ==
    ASSUME Typed, NEW t \in Thread, NEW x, NEW a,
           Becomes(t, [run[t] EXCEPT !.near = x, !.at = a])
    PROVE  Onto(t, {a}) /\ run'[t].entity = run[t].entity
<1> DEFINE l == [run[t] EXCEPT !.near = x, !.at = a]
<1>1. /\ Becomes(t, l) /\ l.at = a /\ l.kind = run[t].kind /\ l.todo = run[t].todo
      /\ l.entry = run[t].entry /\ l.prior = run[t].prior /\ l.entity = run[t].entity
  BY LocalTyped DEF Local
<1> HIDE DEF l
<1> QED
  BY <1>1, Became DEF Onto

LEMMA AuthorOnto ==
    ASSUME Typed, NEW t \in Thread, NEW x,
           Becomes(t, [run[t] EXCEPT !.author = x])
    PROVE  Onto(t, {run[t].at}) /\ run'[t].entity = run[t].entity
<1> DEFINE l == [run[t] EXCEPT !.author = x]
<1>1. /\ Becomes(t, l) /\ l.at = run[t].at /\ l.kind = run[t].kind /\ l.todo = run[t].todo
      /\ l.entry = run[t].entry /\ l.prior = run[t].prior /\ l.entity = run[t].entity
  BY LocalTyped DEF Local
<1> HIDE DEF l
<1> QED
  BY <1>1, Became DEF Onto

LEMMA AuthorOn ==
    ASSUME Typed, NEW t \in Thread, NEW x, NEW a,
           Becomes(t, [run[t] EXCEPT !.author = x, !.at = a])
    PROVE  Onto(t, {a}) /\ run'[t].entity = run[t].entity
<1> DEFINE l == [run[t] EXCEPT !.author = x, !.at = a]
<1>1. /\ Becomes(t, l) /\ l.at = a /\ l.kind = run[t].kind /\ l.todo = run[t].todo
      /\ l.entry = run[t].entry /\ l.prior = run[t].prior /\ l.entity = run[t].entity
  BY LocalTyped DEF Local
<1> HIDE DEF l
<1> QED
  BY <1>1, Became DEF Onto

LEMMA KnownOnto ==
    ASSUME Typed, NEW t \in Thread, NEW k, NEW x, NEW a,
           Becomes(t, [run[t] EXCEPT !.known = k, !.at = a, !.author = x])
    PROVE  Onto(t, {a}) /\ run'[t].entity = run[t].entity
<1> DEFINE l == [run[t] EXCEPT !.known = k, !.at = a, !.author = x]
<1>1. /\ Becomes(t, l) /\ l.at = a /\ l.kind = run[t].kind /\ l.todo = run[t].todo
      /\ l.entry = run[t].entry /\ l.prior = run[t].prior /\ l.entity = run[t].entity
  BY LocalTyped DEF Local
<1> HIDE DEF l
<1> QED
  BY <1>1, Became DEF Onto

LEMMA DoneOnto ==
    ASSUME Typed, NEW t \in Thread, NEW p, NEW x, NEW a,
           Becomes(t, [run[t] EXCEPT !.people = p, !.entity = x, !.at = a])
    PROVE  Onto(t, {a}) /\ run'[t].entity = x
<1> DEFINE l == [run[t] EXCEPT !.people = p, !.entity = x, !.at = a]
<1>1. /\ Becomes(t, l) /\ l.at = a /\ l.kind = run[t].kind /\ l.todo = run[t].todo
      /\ l.entry = run[t].entry /\ l.prior = run[t].prior /\ l.entity = x
  BY LocalTyped DEF Local
<1> HIDE DEF l
<1> QED
  BY <1>1, Became DEF Onto

LEMMA EdgesOnto ==
    ASSUME Typed, NEW t \in Thread, NEW q,
           Becomes(t, [run[t] EXCEPT !.edges = q])
    PROVE  Onto(t, {run[t].at}) /\ run'[t].entity = run[t].entity
<1> DEFINE l == [run[t] EXCEPT !.edges = q]
<1>1. /\ Becomes(t, l) /\ l.at = run[t].at /\ l.kind = run[t].kind /\ l.todo = run[t].todo
      /\ l.entry = run[t].entry /\ l.prior = run[t].prior /\ l.entity = run[t].entity
  BY LocalTyped DEF Local
<1> HIDE DEF l
<1> QED
  BY <1>1, Became DEF Onto

\* Where each step of an extraction goes, unless it raises.
LEMMA ReadsOnto ==
    ASSUME Typed, NEW t \in Thread
    PROVE  /\ Ask(t) => Onto(t, {"snapshot"})
           /\ SnapshotPrior(t) =>
                 /\ run'[t].kind = run[t].kind /\ run'[t].todo = run[t].todo
                 /\ run'[t].entry = run[t].entry /\ run'[t].at = "mentions"
                 /\ run'[t].prior = MentionedBy(run[t].entry)
           /\ DeleteMentions(t) => Onto(t, {"edges"})
           /\ DeleteEdges(t) => Onto(t, {"person"})
<1>1. ASSUME Ask(t) PROVE Onto(t, {"snapshot"})
  <2>1. PICK p, q : Becomes(t, [run[t] EXCEPT !.people = p, !.edges = q, !.at = "snapshot"])
    BY <1>1 DEF Ask
  <2> QED
    BY <2>1, AskOnto
<1>2. ASSUME SnapshotPrior(t)
      PROVE  /\ run'[t].kind = run[t].kind /\ run'[t].todo = run[t].todo
             /\ run'[t].entry = run[t].entry /\ run'[t].at = "mentions"
             /\ run'[t].prior = MentionedBy(run[t].entry)
  <2> DEFINE l == [run[t] EXCEPT !.prior = MentionedBy(run[t].entry), !.at = "mentions"]
  <2>1. /\ Becomes(t, l) /\ l.at = "mentions" /\ l.kind = run[t].kind /\ l.todo = run[t].todo
        /\ l.entry = run[t].entry /\ l.prior = MentionedBy(run[t].entry)
    BY <1>2, LocalTyped DEF SnapshotPrior, Local
  <2> HIDE DEF l
  <2> QED
    BY <2>1, Became
<1>3. DeleteMentions(t) => Onto(t, {"edges"})
  BY GotoOnto DEF DeleteMentions
<1>4. DeleteEdges(t) => Onto(t, {"person"})
  BY GotoOnto DEF DeleteEdges
<1> QED
  BY <1>1, <1>2, <1>3, <1>4

LEMMA PersonsOnto ==
    ASSUME Typed, NEW t \in Thread
    PROVE  /\ Resolve(t) => Onto(t, {"embed", "alias"})
           /\ Embed(t) => Onto(t, {"alias", "create"})
           /\ CreateEntity(t) =>
                 Raise(t) \/ (Onto(t, {"vector"}) /\ run'[t].entity = db.next)
           /\ SetEmbedding(t) =>
                 Onto(t, {"alias", "candidate"}) /\ run'[t].entity = run[t].entity
           /\ CreateCandidate(t) =>
                 Onto(t, {"alias"}) /\ run'[t].entity = run[t].entity
           /\ AddAliases(t) =>
                 Raise(t) \/ (Onto(t, {"mention"}) /\ run'[t].entity = run[t].entity)
           /\ CreateMention(t) => Raise(t) \/ Onto(t, {"person"})
<1>0. \A a, S : Onto(t, {a}) /\ a \in S => Onto(t, S)
  BY DEF Onto
<1>1. ASSUME NEW x, NEW a, Becomes(t, [run[t] EXCEPT !.entity = x, !.at = a])
      PROVE  Onto(t, {a}) /\ run'[t].entity = x
  BY <1>1, EntityOnto
<1>2. ASSUME NEW x, NEW a, Becomes(t, [run[t] EXCEPT !.near = x, !.at = a])
      PROVE  Onto(t, {a}) /\ run'[t].entity = run[t].entity
  BY <1>2, NearOnto
<1>3. ASSUME Resolve(t) PROVE Onto(t, {"embed", "alias"})
  <2>1. CASE Goto(t, "embed")
    BY <1>0, <2>1, GotoOnto
  <2>2. CASE \E x : Becomes(t, [run[t] EXCEPT !.entity = x, !.at = "alias"])
    <3>1. PICK x : Becomes(t, [run[t] EXCEPT !.entity = x, !.at = "alias"])
      BY <2>2
    <3> QED
      BY <1>0, <1>1, <3>1
  <2> QED
    BY <1>3, <2>1, <2>2 DEF Resolve
<1>4. ASSUME Embed(t) PROVE Onto(t, {"alias", "create"})
  <2>1. CASE Goto(t, "create")
    BY <1>0, <2>1, GotoOnto
  <2>2. CASE \E x : Becomes(t, [run[t] EXCEPT !.entity = x, !.at = "alias"])
    <3>1. PICK x : Becomes(t, [run[t] EXCEPT !.entity = x, !.at = "alias"])
      BY <2>2
    <3> QED
      BY <1>0, <1>1, <3>1
  <2>3. CASE \E x : Becomes(t, [run[t] EXCEPT !.near = x, !.at = "create"])
    <3>1. PICK x : Becomes(t, [run[t] EXCEPT !.near = x, !.at = "create"])
      BY <2>3
    <3> QED
      BY <1>0, <1>2, <3>1
  <2> QED
    BY <1>4, <2>1, <2>2, <2>3 DEF Embed
<1>5. ASSUME CreateEntity(t), ~Raise(t)
      PROVE  Onto(t, {"vector"}) /\ run'[t].entity = db.next
  <2>1. Becomes(t, [run[t] EXCEPT !.entity = db.next, !.at = "vector"])
    BY <1>5 DEF CreateEntity
  <2> QED
    BY <2>1, EntityOnto
<1>6. ASSUME SetEmbedding(t)
      PROVE  Onto(t, {"alias", "candidate"}) /\ run'[t].entity = run[t].entity
  <2>1. Goto(t, "alias") \/ Goto(t, "candidate")
    BY <1>6 DEF SetEmbedding
  <2> QED
    BY ZenonT(40), <1>0, <2>1, GotoOnto
<1>7. ASSUME CreateCandidate(t)
      PROVE  Onto(t, {"alias"}) /\ run'[t].entity = run[t].entity
  <2>1. PICK x : Becomes(t, [run[t] EXCEPT !.near = x, !.at = "alias"])
    BY <1>7 DEF CreateCandidate
  <2> QED
    BY <1>2, <2>1
<1>8. ASSUME AddAliases(t), ~Raise(t)
      PROVE  Onto(t, {"mention"}) /\ run'[t].entity = run[t].entity
  <2>1. PICK k, x : Becomes(t, [run[t] EXCEPT !.known = k, !.at = "mention", !.author = x])
    BY <1>8 DEF AddAliases
  <2> QED
    BY <2>1, KnownOnto
<1>9. ASSUME CreateMention(t), ~Raise(t) PROVE Onto(t, {"person"})
  <2>1. PICK p, x : Becomes(t, [run[t] EXCEPT !.people = p, !.entity = x, !.at = "person"])
    BY <1>9 DEF CreateMention
  <2> QED
    BY <2>1, DoneOnto
<1> QED
  BY <1>3, <1>4, <1>5, <1>6, <1>7, <1>8, <1>9

LEMMA EdgesOntos ==
    ASSUME Typed, NEW t \in Thread
    PROVE  /\ EntitiesDone(t) => Onto(t, {"edge"})
           /\ FindAuthor(t) => Onto(t, {"edge", "author"})
           /\ CreateAuthor(t) => Raise(t) \/ Onto(t, {"edge"})
           /\ CreateRelationship(t) => Raise(t) \/ Onto(t, {"edge"})
           /\ EdgesDone(t) => Onto(t, {"prune"}) \/ (Onto(t, {"mark"}) /\ run[t].prior = {})
           /\ Prune(t) => Onto(t, {"mark"})
<1>0. \A a, S : Onto(t, {a}) /\ a \in S => Onto(t, S)
  BY DEF Onto
<1>1. EntitiesDone(t) => Onto(t, {"edge"})
  BY GotoOnto DEF EntitiesDone
<1>2. ASSUME FindAuthor(t) PROVE Onto(t, {"edge", "author"})
  <2>1. CASE Goto(t, "author")
    BY <1>0, <2>1, GotoOnto
  <2>2. CASE \E x : Becomes(t, [run[t] EXCEPT !.author = x])
    <3>1. PICK x : Becomes(t, [run[t] EXCEPT !.author = x])
      BY <2>2
    <3>2. Onto(t, {run[t].at})
      BY <3>1, AuthorOnto
    <3> QED
      BY <1>2, <3>2 DEF FindAuthor, At, Onto
  <2> QED
    BY <1>2, <2>1, <2>2 DEF FindAuthor
<1>3. ASSUME CreateAuthor(t), ~Raise(t) PROVE Onto(t, {"edge"})
  <2>1. PICK x : Becomes(t, [run[t] EXCEPT !.author = x, !.at = "edge"])
    BY <1>3 DEF CreateAuthor
  <2> QED
    BY <2>1, AuthorOn
<1>4. ASSUME CreateRelationship(t), ~Raise(t) PROVE Onto(t, {"edge"})
  <2>1. PICK q : Becomes(t, [run[t] EXCEPT !.edges = q])
    BY <1>4 DEF CreateRelationship
  <2>2. Onto(t, {run[t].at})
    BY <2>1, EdgesOnto
  <2> QED
    BY <1>4, <2>2 DEF CreateRelationship, At, Onto
<1>5. EdgesDone(t) => Onto(t, {"prune"}) \/ (Onto(t, {"mark"}) /\ run[t].prior = {})
  BY GotoOnto DEF EdgesDone
<1>6. Prune(t) => Onto(t, {"mark"})
  BY GotoOnto DEF Prune
<1> QED
  BY <1>1, <1>2, <1>3, <1>4, <1>5, <1>6

LEMMA ExtractSaves ==
    ASSUME NEW t \in Thread, Extract(t)
    PROVE  Read \/ saved' = db'
<1>0. ASSUME Raise(t) \/ Noted(t) PROVE Read \/ saved' = db'
  BY <1>0 DEF Raise, Noted, Commit
<1>1. CASE ReadEntry(t) \/ Ask(t) \/ SnapshotPrior(t) \/ Resolve(t) \/ Embed(t)
           \/ EntitiesDone(t) \/ FindAuthor(t) \/ EdgesDone(t) \/ ProviderFails(t)
  BY <1>0, <1>1 DEF ReadEntry, Ask, SnapshotPrior, Resolve, Embed, EntitiesDone,
     FindAuthor, EdgesDone, ProviderFails
<1>2. CASE DeleteMentions(t) \/ DeleteEdges(t) \/ Mark(t) \/ Prune(t) \/ SetEmbedding(t)
  <2>1. \E d : Commit(d)
    BY <1>2 DEF DeleteMentions, DeleteEdges, Mark, Prune, SetEmbedding
  <2> QED
    BY <2>1 DEF Commit
<1>3. CASE CreateMention(t) \/ CreateRelationship(t) \/ CreateCandidate(t) \/ AddAliases(t)
           \/ CreateEntity(t) \/ CreateAuthor(t)
  <2>1. Read \/ Raise(t) \/ \E d : Commit(d)
    BY <1>3 DEF CreateMention, CreateRelationship, CreateCandidate, AddAliases,
       CreateEntity, CreateAuthor
  <2> QED
    BY <1>0, <2>1 DEF Commit
<1> QED
  BY <1>1, <1>2, <1>3 DEF Extract

LEMMA ExtractJobs ==
    ASSUME NEW t \in Thread, Extract(t)
    PROVE  UNCHANGED jobs
BY DEF Extract, ReadEntry, Ask, SnapshotPrior, DeleteMentions, DeleteEdges, Resolve,
       Embed, CreateEntity, SetEmbedding, CreateCandidate, AddAliases, CreateMention,
       EntitiesDone, FindAuthor, CreateAuthor, CreateRelationship, EdgesDone, Prune,
       Mark, ProviderFails, LoopStays

\* What an extraction does to the mentions.
LEMMA ExtractMentions ==
    ASSUME Typed, NEW t \in Thread, Extract(t)
    PROVE  \/ db'.mentions = db.mentions
           \/ DeleteMentions(t) /\ db'.mentions = {m \in db.mentions : m.entry # run[t].entry}
           \/ Prune(t) /\ db' = EntitiesRemoved(db, Orphans(db, run[t].prior))
           \/ /\ CreateMention(t)
              /\ db'.mentions = db.mentions \cup
                    {[entity |-> run[t].entity, entry |-> run[t].entry, run |-> run[t].run]}
<1> DEFINE Same(d) == d.mentions = db.mentions
<1>1. /\ Same(db)
      /\ \A R : Same([db EXCEPT !.edges = R])
      /\ \A S : Same([db EXCEPT !.stale = S])
      /\ \A C : Same([db EXCEPT !.candidates = C])
      /\ \A x, v : Same([db EXCEPT !.entities[x].vec = v])
      /\ \A x, A : Same([db EXCEPT !.entities[x].aliases = @ \cup A])
      /\ \A u, n : Same(EntityCreated(u, n))
  BY DbRecord DEF EntityCreated
<1> HIDE DEF Same
<1>2. CASE Same(db')
  BY <1>2 DEF Same
<1>3. CASE ReadEntry(t) \/ Ask(t) \/ SnapshotPrior(t) \/ Resolve(t) \/ Embed(t)
           \/ EntitiesDone(t) \/ FindAuthor(t) \/ EdgesDone(t) \/ ProviderFails(t)
  BY <1>1, <1>2, <1>3, RaiseReads DEF ReadEntry, Ask, SnapshotPrior, Resolve, Embed,
     EntitiesDone, FindAuthor, EdgesDone, ProviderFails, Read
<1>4. CASE DeleteEdges(t) \/ Mark(t) \/ CreateRelationship(t) \/ CreateCandidate(t)
  <2>1. \/ db' = db
        \/ \E R : db' = [db EXCEPT !.edges = R]
        \/ \E S : db' = [db EXCEPT !.stale = S]
        \/ \E C : db' = [db EXCEPT !.candidates = C]
    BY <1>4, RaiseReads DEF DeleteEdges, Mark, CreateRelationship, CreateCandidate, Commit, Read
  <2> QED
    BY <1>1, <1>2, <2>1
<1>5. CASE SetEmbedding(t) \/ AddAliases(t) \/ CreateEntity(t) \/ CreateAuthor(t)
  <2>1. \/ db' = db
        \/ \E x, v : db' = [db EXCEPT !.entities[x].vec = v]
        \/ \E x, A : db' = [db EXCEPT !.entities[x].aliases = @ \cup A]
        \/ \E u, n : db' = EntityCreated(u, n)
    BY <1>5, RaiseReads DEF SetEmbedding, AddAliases, CreateEntity, CreateAuthor, Commit, Read
  <2> QED
    BY <1>1, <1>2, <2>1
<1>6. CASE Prune(t)
  BY <1>6 DEF Prune, Commit
<1>7. CASE DeleteMentions(t)
  <2>1. db' = [db EXCEPT !.mentions = {m \in db.mentions : m.entry # run[t].entry}]
    BY <1>7 DEF DeleteMentions, Commit
  <2> QED
    BY <1>7, <2>1, DbRecord
<1>8. CASE CreateMention(t)
  <2>1. \/ Raise(t)
        \/ db' = [db EXCEPT !.mentions = db.mentions \cup
              {[entity |-> run[t].entity, entry |-> run[t].entry, run |-> run[t].run]}]
    BY <1>8 DEF CreateMention, Commit
  <2> QED
    BY <1>1, <1>2, <1>8, <2>1, DbRecord, RaiseReads
<1> QED
  BY <1>3, <1>4, <1>5, <1>6, <1>7, <1>8 DEF Extract

\* One extraction at a time goes on, or is over.
LEMMA WorkerMoves ==
    ASSUME Typed, Calm, Extract("worker")
    PROVE  \/ /\ run'["worker"] = NoRun
              /\ ReadEntry("worker") \/ Raise("worker") \/ Mark("worker")
           \/ /\ ReadEntry("worker") /\ run'["worker"].at = "model"
              /\ run'["worker"].kind = Worker.kind /\ run'["worker"].todo = {}
              /\ run'["worker"].entry \in Worker.todo
           \/ /\ ~ReadEntry("worker") /\ ~Mark("worker")
              /\ run'["worker"].at \in Steps \ {"idle", "read"}
              /\ run'["worker"].kind = Worker.kind /\ run'["worker"].todo = Worker.todo
              /\ run'["worker"].entry = Worker.entry
<1>1. CASE ReadEntry("worker")
  <2>1. PICK e \in Worker.todo :
           \/ Becomes("worker", [run["worker"] EXCEPT !.todo = Worker.todo \ {e}, !.entry = e,
                                                      !.run = runs + 1, !.at = "model"])
           \/ Becomes("worker", Started(Worker.kind, Worker.todo \ {e}))
    BY <1>1 DEF ReadEntry, Worker
  <2>2. Worker.todo \ {e} = {}
    BY <1>1, <2>1 DEF ReadEntry, At, Calm, Worker
  <2>3. CASE Becomes("worker", Started(Worker.kind, Worker.todo \ {e}))
    BY <1>1, <2>2, <2>3, Became DEF Started
  <2>4. CASE Becomes("worker", [run["worker"] EXCEPT !.todo = Worker.todo \ {e}, !.entry = e,
                                                     !.run = runs + 1, !.at = "model"])
    <3> DEFINE l == [run["worker"] EXCEPT !.todo = Worker.todo \ {e}, !.entry = e,
                                          !.run = runs + 1, !.at = "model"]
    <3>1. /\ l.at = "model" /\ l.kind = Worker.kind /\ l.todo = Worker.todo \ {e} /\ l.entry = e
      BY LocalTyped DEF Local, Worker
    <3>2. Becomes("worker", l)
      BY <2>4
    <3> HIDE DEF l
    <3> QED
      BY <1>1, <2>2, <3>1, <3>2, Became
  <2> QED
    BY <2>1, <2>3, <2>4
<1>2. CASE ~ReadEntry("worker")
  <2>0. Worker.at \notin {"idle", "read"}
    BY <1>2 DEF Extract, At, Ask, SnapshotPrior, DeleteMentions, DeleteEdges, Resolve,
       Embed, CreateEntity, SetEmbedding, CreateCandidate, AddAliases, CreateMention,
       EntitiesDone, FindAuthor, CreateAuthor, CreateRelationship, EdgesDone, Prune,
       Mark, ProviderFails, Worker
  <2>1. CASE Raise("worker") \/ Mark("worker")
    <3>1. Becomes("worker", Onward("worker"))
      BY <2>1 DEF Raise, Mark, Finish
    <3>2. Onward("worker") = NoRun
      BY <2>0 DEF Onward, Started, Calm, Worker
    <3> QED
      BY <2>1, <3>1, <3>2, Became
  <2>2. CASE ~Raise("worker") /\ ~Mark("worker")
    <3>1. /\ run'["worker"].kind = Worker.kind /\ run'["worker"].todo = Worker.todo
          /\ run'["worker"].entry = Worker.entry
          /\ run'["worker"].at \in Steps \ {"idle", "read"}
      BY <1>2, <2>2, ReadsOnto, PersonsOnto, EdgesOntos
         DEF Extract, ProviderFails, Onto, Steps, Worker
    <3> QED
      BY <1>2, <2>2, <3>1
  <2> QED
    BY <2>1, <2>2
<1> QED
  BY <1>1, <1>2

LEMMA CalmExtract ==
    ASSUME Typed, Calm, Extract("worker")
    PROVE  Calm'
<1>1. saved' = db'
  BY ExtractSaves DEF Calm, Read
<1>2. UNCHANGED <<jobs, api>>
  BY ExtractJobs, ExtractApi
<1>3. run'["loop"] = run["loop"]
  BY ExtractBecomes, Became
<1>4. /\ Worker'.at # "idle" => Worker'.kind = "one"
      /\ Worker'.at # "read" \/ (Worker'.entry = None /\ \E e \in Entry : Worker'.todo = {e})
      /\ Worker'.at \notin {"idle", "read"} => Worker'.todo = {}
  <2>1. ~At("worker", "idle")
    BY ExtractAt
  <2>2. ReadEntry("worker") \/ Worker.at \notin {"idle", "read"}
    BY DEF Extract, At, Ask, SnapshotPrior, DeleteMentions, DeleteEdges, Resolve,
       Embed, CreateEntity, SetEmbedding, CreateCandidate, AddAliases, CreateMention,
       EntitiesDone, FindAuthor, CreateAuthor, CreateRelationship, EdgesDone, Prune,
       Mark, ProviderFails, Worker
  <2> QED
    BY <2>1, <2>2, WorkerMoves, NoRunFits DEF Calm, Worker, At, Steps
<1> QED
  BY <1>1, <1>2, <1>3, <1>4 DEF Calm, At

\* A mention that is new is one of the entry at hand.
LEMMA ApartExtract ==
    ASSUME Typed, Calm, Apart, Extract("worker")
    PROVE  Apart'
<1>1. UNCHANGED <<jobs, api>>
  BY ExtractJobs, ExtractApi
<1> SUFFICES ASSUME api.at = "remove"
             PROVE  ~ActiveFor(api.entry)' /\ MentionedBy(api.entry)' \subseteq api.prior
  BY <1>1 DEF Apart, ActiveFor, MentionedBy
<1>2. PICK e : e = api.entry
  OBVIOUS
<1>3. e \in Entry /\ e # None
  BY <1>2, HandlerTyped, OwnerAssumption DEF Handles
<1>4. /\ \A i \in 1..Len(jobs) : jobs[i].entry # e
      /\ Worker.at # "idle" => Worker.todo # {e} /\ Worker.entry # e
  BY <1>2 DEF Apart, ActiveFor, Calm, Worker
<1>5. Worker.at # "idle"
  BY ExtractAt DEF At, Worker
<1>6. \A i \in 1..Len(jobs') : jobs'[i].entry # e
  BY <1>1, <1>4
<1>7. run'["worker"].at # "idle" => run'["worker"].todo # {e} /\ run'["worker"].entry # e
  <2>1. ReadEntry("worker") => \E f \in Entry : Worker.todo = {f}
    BY DEF ReadEntry, At, Calm, Worker
  <2> QED
    BY <1>4, <1>5, <2>1, WorkerMoves, NoRunFits DEF Calm
<1>8. ~ActiveFor(e)'
  BY <1>6, <1>7 DEF ActiveFor
<1>9. \A m \in db'.mentions : m.entry = e => m \in db.mentions
  BY <1>4, <1>5, ExtractMentions DEF Worker, EntitiesRemoved
<1>10. MentionedBy(e) \subseteq api.prior
  BY <1>2 DEF Apart
<1>11. MentionedBy(e)' \subseteq api.prior
  BY <1>9, <1>10 DEF MentionedBy
<1> QED
  BY <1>1, <1>2, <1>8, <1>11 DEF ActiveFor, MentionedBy

LEMMA NotingExtract ==
    ASSUME Typed, Calm, Extract("worker")
    PROVE  Noting'
<1>1. run'["worker"].at = "mentions" => SnapshotPrior("worker")
  <2>1. CASE Raise("worker") \/ Finish("worker")
    BY <2>1, Resumes
  <2>2. CASE ReadEntry("worker")
    BY <2>2, WorkerMoves, NoRunFits
  <2>3. CASE ~Raise("worker") /\ ~Finish("worker") /\ ~ReadEntry("worker")
    BY <2>3, ReadsOnto, PersonsOnto, EdgesOntos DEF Extract, Onto, ProviderFails, Mark
  <2> QED
    BY <2>1, <2>2, <2>3
<1>2. ASSUME SnapshotPrior("worker") PROVE Noting'
  <2>1. /\ run'["worker"].prior = MentionedBy(run["worker"].entry)
        /\ run'["worker"].entry = run["worker"].entry
    BY <1>2, ReadsOnto
  <2>2. db' = db
    BY <1>2 DEF SnapshotPrior, Read
  <2> QED
    BY <2>1, <2>2 DEF Noting, MentionedBy, Worker
<1> QED
  BY <1>1, <1>2 DEF Noting, Worker

\* No mention of an entity that stays is taken away.
Retains(d) == \A m \in db.mentions : m.entity \in DOMAIN d.entities => m \in d.mentions

LEMMA LooseBefore ==
    ASSUME Typed, Typed', Carries(db'), db'.next = db.next, Retains(db'),
           NEW x \in DOMAIN db'.entities, Loose(x)'
    PROVE  x \in DOMAIN db.entities /\ Loose(x)
<1>1. x # db.next
  <2>1. Linked(db')
    BY DEF Typed, TypeOK
  <2> QED
    BY <2>1, Numbered DEF Linked
<1>2. x \in DOMAIN db.entities /\ db'.entities[x].name = db.entities[x].name
  BY <1>1 DEF Carries
<1>3. ~Mentioned(db, x)
  BY DEF Loose, Mentioned, Retains
<1> QED
  BY <1>2, <1>3 DEF Loose

\* On within the work between the snapshot and the clean-up.
LEMMA TendedOnto ==
    ASSUME Typed, Typed', Tended, UNCHANGED <<api, broken>>, Carries(db'), db'.next = db.next,
           Retains(db'), NEW S, S \subseteq Tidying, Onto("worker", S),
           Worker.at \in InHand =>
              run'["worker"].at \in InHand /\ run'["worker"].entity = Worker.entity
    PROVE  Tended'
<1> SUFFICES ASSUME ~broken, NEW x \in DOMAIN db'.entities, Loose(x)'
             PROVE  Covered(x)'
  BY DEF Tended
<1>1. x \in DOMAIN db.entities /\ Loose(x)
  BY LooseBefore
<1>2. Covered(x)
  BY <1>1 DEF Tended
<1> QED
  BY <1>2 DEF Covered, Onto, Worker

\* On where nobody but a handler covers an entity, as before.
LEMMA TendedElse ==
    ASSUME Typed, Typed', Tended, UNCHANGED <<api, broken>>, Carries(db'), db'.next = db.next,
           Retains(db'), Worker.at \notin Tidying
    PROVE  Tended'
<1> SUFFICES ASSUME ~broken, NEW x \in DOMAIN db'.entities, Loose(x)'
             PROVE  Covered(x)'
  BY DEF Tended
<1>1. x \in DOMAIN db.entities /\ Loose(x)
  BY LooseBefore
<1>2. Covered(x)
  BY <1>1 DEF Tended
<1> QED
  BY <1>2 DEF Covered, Tidying, InHand, Steps

LEMMA RetainsSame ==
    ASSUME db'.mentions = db.mentions
    PROVE  Retains(db')
BY DEF Retains

LEMMA RetainsRemoved == \A X : Retains(EntitiesRemoved(db, X))
BY DEF Retains, EntitiesRemoved

LEMMA TendedReads ==
    ASSUME Typed, Typed', Calm, Tended,
           \/ ReadEntry("worker") \/ Ask("worker") \/ SnapshotPrior("worker")
           \/ Mark("worker") \/ ProviderFails("worker")
    PROVE  Tended'
<1>1. Extract("worker")
  BY DEF Extract
<1>2. UNCHANGED api /\ Carries(db')
  BY <1>1, ExtractApi, ExtractSpares DEF Spares
<1>3. /\ db'.next = db.next /\ db'.mentions = db.mentions
      /\ Worker.at \notin Tidying \/ broken'
      /\ UNCHANGED broken \/ broken'
  <2>1. CASE ReadEntry("worker") \/ Ask("worker") \/ SnapshotPrior("worker")
    <3>1. db' = db /\ UNCHANGED broken
      BY <2>1, RaiseReads DEF ReadEntry, Ask, SnapshotPrior, Read
    <3>2. Worker.at \notin Tidying
      BY <2>1 DEF ReadEntry, Ask, SnapshotPrior, At, Tidying, Worker
    <3> QED
      BY <3>1, <3>2
  <2>2. CASE Mark("worker")
    <3>1. PICK S : db' = [db EXCEPT !.stale = S]
      BY <2>2 DEF Mark, Commit
    <3>2. db'.next = db.next /\ db'.mentions = db.mentions
      BY <3>1, DbRecord
    <3>3. UNCHANGED broken /\ Worker.at \notin Tidying
      BY <2>2 DEF Mark, Finish, At, Tidying, Worker
    <3> QED
      BY <3>2, <3>3
  <2>3. CASE ProviderFails("worker")
    <3>1. db' = db
      BY <2>3, RaiseReads DEF ProviderFails
    <3>2. broken' = (broken \/ Worker.at \notin {"read", "model"})
      BY <2>3 DEF ProviderFails, Raise, Worker
    <3>3. Worker.at \notin Tidying \/ broken'
      BY <3>2 DEF Tidying
    <3>4. UNCHANGED broken \/ broken'
      <4>1. broken \in BOOLEAN
        BY DEF Typed, TypeOK
      <4> QED
        BY <3>2, <4>1
    <3> QED
      BY <3>1, <3>3, <3>4
  <2> QED
    BY <2>1, <2>2, <2>3
<1>4. Retains(db')
  BY <1>3, RetainsSame
<1>5. CASE broken'
  BY <1>5 DEF Tended
<1>6. CASE ~broken'
  BY <1>2, <1>3, <1>4, <1>6, TendedElse
<1> QED
  BY <1>5, <1>6

LEMMA TendedDelete ==
    ASSUME Typed, Typed', Noting, Tended, DeleteMentions("worker")
    PROVE  Tended'
<1>1. /\ db' = [db EXCEPT !.mentions = {m \in db.mentions : m.entry # Worker.entry}]
      /\ UNCHANGED <<api, broken>> /\ Worker.at = "mentions"
  BY DEF DeleteMentions, Commit, LoopStays, At, Worker
<1>2. /\ db'.mentions = {m \in db.mentions : m.entry # Worker.entry}
      /\ db'.entities = db.entities
  BY <1>1, DbRecord
<1>3. /\ run'["worker"].at = "edges" /\ run'["worker"].prior = Worker.prior
  BY ReadsOnto DEF Onto, Worker
<1> SUFFICES ASSUME ~broken, NEW x \in DOMAIN db'.entities, Loose(x)'
             PROVE  Covered(x)'
  BY <1>1 DEF Tended
<1>4. x \in DOMAIN db.entities /\ Fold[db.entities[x].name] # Author
  BY <1>2 DEF Loose
<1>5. CASE Mentioned(db, x)
  <2>1. PICK m \in db.mentions : m.entity = x
    BY <1>5 DEF Mentioned
  <2>2. m.entry = Worker.entry
    BY <1>2, <2>1 DEF Loose, Mentioned
  <2>3. x \in Worker.prior
    BY <1>1, <2>1, <2>2 DEF Noting, MentionedBy
  <2> QED
    BY <1>3, <2>3 DEF Covered, Worker, Tidying, Steps
<1>6. CASE ~Mentioned(db, x)
  <2>1. Covered(x)
    BY <1>4, <1>6 DEF Tended, Loose
  <2> QED
    BY <1>1, <1>3, <2>1 DEF Covered, Worker, Tidying, InHand, Steps
<1> QED
  BY <1>5, <1>6

\* A step that raises with an entity in hand stops half-way.
LEMMA TendedRaise ==
    ASSUME Typed, Raise("worker"), Worker.at \in Tidying
    PROVE  Tended'
<1>1. broken'
  BY DEF Raise, Worker, Tidying
<1> QED
  BY <1>1 DEF Tended

LEMMA TendedGoesOn ==
    ASSUME Typed, Typed', Tended,
           \/ DeleteEdges("worker") \/ Resolve("worker") \/ Embed("worker")
           \/ SetEmbedding("worker") \/ CreateCandidate("worker") \/ AddAliases("worker")
           \/ EntitiesDone("worker") \/ FindAuthor("worker") \/ CreateRelationship("worker")
    PROVE  Tended'
<1>1. Extract("worker")
  BY DEF Extract
<1>2. /\ Worker.at \in Tidying
      /\ Worker.at \in InHand =>
            SetEmbedding("worker") \/ CreateCandidate("worker") \/ AddAliases("worker")
  BY DEF DeleteEdges, Resolve, Embed, SetEmbedding, CreateCandidate, AddAliases,
     EntitiesDone, FindAuthor, CreateRelationship, At, Tidying, Steps, InHand, Worker
<1>3. CASE Raise("worker")
  BY <1>2, <1>3, TendedRaise
<1>4. CASE ~Raise("worker")
  <2>1. UNCHANGED <<api, broken>>
    BY <1>1, <1>4, ExtractApi DEF DeleteEdges, Resolve, Embed, SetEmbedding, CreateCandidate,
       AddAliases, EntitiesDone, FindAuthor, CreateRelationship
  <2>2. Carries(db')
    BY <1>1, ExtractSpares DEF Spares
  <2>3. ~CreateEntity("worker") /\ ~CreateAuthor("worker") /\ ~DeleteMentions("worker")
        /\ ~CreateMention("worker") /\ ~Prune("worker")
    BY DEF DeleteEdges, Resolve, Embed, SetEmbedding, CreateCandidate, AddAliases,
       EntitiesDone, FindAuthor, CreateRelationship, At, CreateEntity, CreateAuthor,
       DeleteMentions, CreateMention, Prune
  <2>4. db'.next = db.next /\ Retains(db')
    BY <1>1, <2>3, ExtractNext, ExtractMentions, RetainsSame
  <2>5. \E S : S \subseteq Tidying /\ Onto("worker", S)
               /\ (Worker.at \in InHand => S \subseteq InHand
                                           /\ run'["worker"].entity = Worker.entity)
    <3>1. DeleteEdges("worker") => Onto("worker", {"person"})
      BY ReadsOnto
    <3>2. /\ Resolve("worker") => Onto("worker", {"embed", "alias"})
          /\ Embed("worker") => Onto("worker", {"alias", "create"})
          /\ SetEmbedding("worker") =>
                Onto("worker", {"alias", "candidate"}) /\ run'["worker"].entity = Worker.entity
          /\ CreateCandidate("worker") =>
                Onto("worker", {"alias"}) /\ run'["worker"].entity = Worker.entity
          /\ AddAliases("worker") =>
                Onto("worker", {"mention"}) /\ run'["worker"].entity = Worker.entity
      BY <1>4, PersonsOnto DEF Worker
    <3>3. /\ EntitiesDone("worker") => Onto("worker", {"edge"})
          /\ FindAuthor("worker") => Onto("worker", {"edge", "author"})
          /\ CreateRelationship("worker") => Onto("worker", {"edge"})
      BY <1>4, EdgesOntos
    <3>4. /\ {"person"} \subseteq Tidying /\ {"embed", "alias"} \subseteq Tidying
          /\ {"alias", "create"} \subseteq Tidying /\ {"edge"} \subseteq Tidying
          /\ {"edge", "author"} \subseteq Tidying
          /\ {"alias", "candidate"} \subseteq Tidying \cap InHand
          /\ {"alias"} \subseteq Tidying \cap InHand /\ {"mention"} \subseteq Tidying \cap InHand
      BY DEF Tidying, InHand, Steps
    <3>5. CASE SetEmbedding("worker") \/ CreateCandidate("worker") \/ AddAliases("worker")
      BY <3>2, <3>4, <3>5
    <3>6. CASE ~(SetEmbedding("worker") \/ CreateCandidate("worker") \/ AddAliases("worker"))
      BY <1>2, <3>1, <3>2, <3>3, <3>4, <3>6
    <3> QED
      BY <3>5, <3>6
  <2>6. PICK S : /\ S \subseteq Tidying /\ Onto("worker", S)
                 /\ Worker.at \in InHand => S \subseteq InHand
                                            /\ run'["worker"].entity = Worker.entity
    BY <2>5
  <2>7. Worker.at \in InHand =>
           run'["worker"].at \in InHand /\ run'["worker"].entity = Worker.entity
    BY <2>6 DEF Onto
  <2> QED
    BY <2>1, <2>2, <2>4, <2>6, <2>7, TendedOnto
<1> QED
  BY <1>3, <1>4

\* The new entity is in hand; the author needs nobody.
LEMMA TendedCreates ==
    ASSUME Typed, Typed', Tended, CreateEntity("worker") \/ CreateAuthor("worker")
    PROVE  Tended'
<1>1. Worker.at \in Tidying /\ Worker.at \notin InHand
  BY DEF CreateEntity, CreateAuthor, At, Tidying, Steps, InHand, Worker
<1>2. CASE Raise("worker")
  BY <1>1, <1>2, TendedRaise
<1>3. CASE ~Raise("worker")
  <2>1. /\ UNCHANGED <<api, broken>>
        /\ \/ CreateEntity("worker") /\ \E u, n : db' = EntityCreated(u, n)
           \/ CreateAuthor("worker") /\ \E u : db' = EntityCreated(u, AuthorName)
    BY <1>3 DEF CreateEntity, CreateAuthor, Commit, LoopStays
  <2>2. /\ db'.mentions = db.mentions /\ db.next \in DOMAIN db'.entities
        /\ DOMAIN db'.entities = DOMAIN db.entities \cup {db.next}
        /\ \A x \in DOMAIN db.entities : db'.entities[x] = db.entities[x]
        /\ CreateAuthor("worker") /\ ~CreateEntity("worker") =>
              db'.entities[db.next].name = AuthorName
    BY <2>1, Numbered DEF EntityCreated
  <2>3. /\ Onto("worker", {"vector", "edge"})
        /\ CreateEntity("worker") => run'["worker"].at = "vector"
                                      /\ run'["worker"].entity = db.next
    BY <1>3, <2>1, PersonsOnto, EdgesOntos DEF Onto
  <2> SUFFICES ASSUME ~broken, NEW x \in DOMAIN db'.entities, Loose(x)'
               PROVE  Covered(x)'
    BY <2>1 DEF Tended
  <2>4. CASE x \in DOMAIN db.entities
    <3>1. Loose(x)
      BY <2>2, <2>4 DEF Loose, Mentioned
    <3>2. Covered(x)
      BY <2>4, <3>1 DEF Tended
    <3> QED
      BY <1>1, <2>1, <2>3, <3>2 DEF Covered, Onto, Worker, Tidying, Steps
  <2>5. CASE x = db.next
    <3>1. CASE CreateEntity("worker")
      BY <2>3, <2>5, <3>1 DEF Covered, InHand, Worker
    <3>2. CASE ~CreateEntity("worker")
      BY <2>1, <2>2, <2>5, <3>2 DEF Loose, Author
    <3> QED
      BY <3>1, <3>2
  <2> QED
    BY <2>2, <2>4, <2>5
<1> QED
  BY <1>2, <1>3

\* The entity in hand is mentioned now.
LEMMA TendedMention ==
    ASSUME Typed, Typed', Tended, CreateMention("worker")
    PROVE  Tended'
<1>1. Worker.at = "mention"
  BY DEF CreateMention, At, Worker
<1>2. CASE Raise("worker")
  BY <1>1, <1>2, TendedRaise DEF Tidying, Steps
<1>3. CASE ~Raise("worker")
  <2>1. PICK m : m = [entity |-> Worker.entity, entry |-> Worker.entry, run |-> Worker.run]
    OBVIOUS
  <2>2. /\ UNCHANGED <<api, broken>>
        /\ db' = [db EXCEPT !.mentions = db.mentions \cup {m}]
    BY <1>3, <2>1 DEF CreateMention, Commit, LoopStays, Worker
  <2>3. /\ db'.mentions = db.mentions \cup {m} /\ db'.entities = db.entities
        /\ m.entity = Worker.entity
    BY <2>1, <2>2, DbRecord
  <2>4. Onto("worker", {"person"})
    BY <1>3, PersonsOnto
  <2> SUFFICES ASSUME ~broken, NEW x \in DOMAIN db'.entities, Loose(x)'
               PROVE  Covered(x)'
    BY <2>2 DEF Tended
  <2>5. x # Worker.entity /\ Loose(x)
    BY <2>3 DEF Loose, Mentioned
  <2>6. Covered(x)
    BY <2>3, <2>5 DEF Tended
  <2> QED
    BY <1>1, <2>2, <2>4, <2>5, <2>6 DEF Covered, Onto, Worker, Tidying, Steps
<1> QED
  BY <1>2, <1>3

LEMMA TendedPrune ==
    ASSUME Typed, Typed', Tended, Prune("worker") \/ EdgesDone("worker")
    PROVE  Tended'
<1>0. Worker.at \notin InHand /\ UNCHANGED <<api, broken>> /\ Extract("worker")
  BY DEF Prune, EdgesDone, At, InHand, LoopStays, Extract, Worker
<1>1. Carries(db')
  BY <1>0, ExtractSpares DEF Spares
<1>2. CASE Prune("worker")
  <2>1. db' = EntitiesRemoved(db, Orphans(db, Worker.prior))
    BY <1>2 DEF Prune, Commit, Worker
  <2>2. db'.next = db.next /\ Retains(db')
    BY <2>1, RetainsRemoved DEF EntitiesRemoved
  <2> SUFFICES ASSUME ~broken, NEW x \in DOMAIN db'.entities, Loose(x)'
               PROVE  Covered(x)'
    BY <1>0 DEF Tended
  <2>3. x \in DOMAIN db.entities /\ Loose(x)
    BY <1>1, <2>2, LooseBefore
  <2>4. x \notin Worker.prior
    BY <2>1, <2>3 DEF EntitiesRemoved, Orphans, Loose
  <2>5. Covered(x)
    BY <2>3 DEF Tended
  <2> QED
    BY <1>0, <2>4, <2>5 DEF Covered
<1>3. CASE EdgesDone("worker")
  <2>1. db' = db
    BY <1>3 DEF EdgesDone, Read
  <2> SUFFICES ASSUME ~broken, NEW x \in DOMAIN db'.entities, Loose(x)'
               PROVE  Covered(x)'
    BY <1>0 DEF Tended
  <2>2. Covered(x)
    BY <2>1 DEF Tended, Loose
  <2>3. Onto("worker", {"prune"}) \/ Worker.prior = {}
    BY <1>3, EdgesOntos DEF Worker
  <2> QED
    BY <1>0, <2>2, <2>3 DEF Covered, Onto, Worker, Tidying, Steps
<1> QED
  BY <1>2, <1>3

LEMMA TidyExtract ==
    ASSUME Typed, Typed', Tidy, Extract("worker")
    PROVE  Tidy'
<1>1. Tended'
  BY TendedReads, TendedDelete, TendedGoesOn, TendedCreates, TendedMention, TendedPrune
     DEF Extract, Tidy
<1> QED
  BY <1>1, CalmExtract, ApartExtract, NotingExtract DEF Tidy

\* The operations of the runs in which an entry has one job of its own.
Single == Requests \subseteq {"one", "edit", "delete", "drop", "resolve"}

Queues(e) == \E u : jobs' = Append(jobs, [kind |-> "one", entry |-> e, user |-> u])

LEMMA SingleRest ==
    ASSUME Single, Calm, Rest
    PROVE  \/ \E e \in Entry, u \in Users : Submit("one", e, u)
           \/ \E e \in Entry : EditEntry(e)
           \/ \E e \in Entry : DeleteEntry(e)
           \/ RemoveEntry
           \/ PruneEntry
           \/ \E x : DropEntity(x)
           \/ \E c, a : ResolveCandidate(c, a)
<1>1. ~(MergeRecord \/ MergeMentions \/ MergeEdges \/ MergeAliases \/ MergeDrop \/ MergeCommit)
  BY DEF Calm, MergeRecord, MergeMentions, MergeEdges, MergeAliases, MergeDrop, MergeCommit
<1>2. /\ ~\E x, n : RenameEntity(x, n)
      /\ ~\E s, L : MergeEntities(s, L)
      /\ ~\E k, e, u : CallTool(k, e, u)
  BY DEF Single, RenameEntity, MergeEntities, CallTool, Requested
<1>3. \A k, e, u : Submit(k, e, u) => k = "one" /\ e # None
  BY DEF Single, Submit, Requested
<1> QED
  BY <1>1, <1>2, <1>3 DEF Rest

\* What these handlers leave alone.
LEMMA SingleStays ==
    ASSUME Typed, Single, Calm, Rest
    PROVE  /\ UNCHANGED <<run, broken>> /\ saved' = db' /\ db'.next = db.next /\ Carries(db')
           /\ UNCHANGED jobs \/ (UNCHANGED <<api, db>> /\ api.at = "idle")
              \/ \E e : EditEntry(e)
<1>1. UNCHANGED <<run, broken>> /\ saved' = db'
  BY SingleRest DEF Submit, EditEntry, DeleteEntry, RemoveEntry, PruneEntry, DropEntity,
     ResolveCandidate, ThreadsStay, Commit, Read, Calm
<1>2. db'.next = db.next
  BY RestNext
<1>3. Carries(db')
  <2>1. ~Renames
    BY DEF Single, Renames, RenameEntity, Requested
  <2> QED
    BY <2>1, RestSpares
<1>4. UNCHANGED jobs \/ (UNCHANGED <<api, db>> /\ api.at = "idle") \/ \E e : EditEntry(e)
  BY SingleRest DEF Submit, DeleteEntry, RemoveEntry, PruneEntry, DropEntity,
     ResolveCandidate, HandlersStay, Requested, Commit
<1> QED
  BY <1>1, <1>2, <1>3, <1>4

\* What becomes of the handler.
LEMMA SingleApi ==
    ASSUME Typed, Single, Calm, Rest
    PROVE  \/ UNCHANGED api /\ api.at = "idle" /\ ~RemoveEntry /\ ~PruneEntry
           \/ \E e \in Entry : /\ DeleteEntry(e) /\ api.at = "idle" /\ api'.at = "remove"
                               /\ api'.entry = e /\ api'.prior = MentionedBy(e)
           \/ /\ RemoveEntry /\ api.at = "remove"
              /\ \/ api'.at = "idle" /\ api.prior = {}
                 \/ api'.at = "prune" /\ api'.prior = api.prior
           \/ PruneEntry /\ api.at = "prune" /\ api'.at = "idle"
<1>1. NoHandler.at = "idle"
  BY DEF NoHandler
<1>2. CASE \E e \in Entry : DeleteEntry(e)
  <2>1. PICK e \in Entry : DeleteEntry(e)
    BY <1>2
  <2>2. PICK X : X = MentionedBy(e)
    OBVIOUS
  <2> DEFINE h == [NoHandler EXCEPT !.at = "remove", !.entry = e, !.prior = X]
  <2>3. h.at = "remove" /\ h.entry = e /\ h.prior = X
    BY DEF NoHandler
  <2>4. api' = h /\ api.at = "idle"
    BY <2>1, <2>2 DEF DeleteEntry, Handled, Requested
  <2> HIDE DEF h
  <2> QED
    BY <2>1, <2>2, <2>3, <2>4
<1>3. CASE RemoveEntry
  <2> DEFINE h == [api EXCEPT !.at = "prune"]
  <2>1. h.at = "prune" /\ h.prior = api.prior
    BY HandlerTyped DEF Handler
  <2>2. /\ api.at = "remove"
        /\ (api.prior = {} /\ api' = NoHandler) \/ api' = h
    BY <1>3 DEF RemoveEntry, Handled
  <2> HIDE DEF h
  <2> QED
    BY <1>1, <1>3, <2>1, <2>2
<1>4. CASE PruneEntry
  BY <1>1, <1>4 DEF PruneEntry, Handled
<1>5. CASE ~(\E e \in Entry : DeleteEntry(e)) /\ ~RemoveEntry /\ ~PruneEntry
  BY <1>5, SingleRest DEF Submit, EditEntry, DropEntity, ResolveCandidate, Requested
<1> QED
  BY <1>2, <1>3, <1>4, <1>5

LEMMA SingleMentions ==
    ASSUME Typed, Single, Calm, Rest
    PROVE  /\ db'.mentions \subseteq db.mentions
           /\ Retains(db') \/ RemoveEntry
           /\ RemoveEntry => /\ db'.mentions = {m \in db.mentions : m.entry # api.entry}
                             /\ db'.entities = db.entities
           /\ PruneEntry => db' = EntitiesRemoved(db, Orphans(db, api.prior))
<1>1. CASE RemoveEntry
  BY <1>1 DEF RemoveEntry, PruneEntry, Commit, EntryRemoved
<1>2. CASE PruneEntry \/ \E x : DropEntity(x)
  <2>1. \E X : db' = EntitiesRemoved(db, X)
    BY <1>2 DEF PruneEntry, DropEntity, Commit
  <2>2. db'.mentions \subseteq db.mentions /\ Retains(db')
    BY <2>1, RetainsRemoved DEF EntitiesRemoved
  <2>3. ~RemoveEntry /\ (PruneEntry => db' = EntitiesRemoved(db, Orphans(db, api.prior)))
    BY <1>2 DEF RemoveEntry, PruneEntry, DropEntity, Requested, Commit
  <2> QED
    BY <2>2, <2>3
<1>3. CASE ~RemoveEntry /\ ~PruneEntry /\ ~\E x : DropEntity(x)
  <2>1. \/ db' = db
        \/ \E S : db' = [db EXCEPT !.stale = S]
        \/ \E C : db' = [db EXCEPT !.candidates = C]
    BY <1>3, SingleRest DEF Submit, EditEntry, DeleteEntry, ResolveCandidate, Commit, Read
  <2>2. db'.mentions = db.mentions
    BY <2>1, DbRecord
  <2> QED
    BY <1>3, <2>2, RetainsSame
<1> QED
  BY <1>1, <1>2, <1>3

LEMMA SingleJobs ==
    ASSUME Typed, Single, Calm, Rest
    PROVE  \A i \in 1..Len(jobs') : jobs'[i].kind = "one"
<1>1. jobs \in Seq(Job) /\ \A i \in 1..Len(jobs) : jobs[i].kind = "one"
  BY DEF Typed, TypeOK, Calm
<1>2. UNCHANGED jobs \/ \E e : Queues(e)
  BY SingleRest DEF Submit, EditEntry, DeleteEntry, RemoveEntry, PruneEntry, DropEntity,
     ResolveCandidate, HandlersStay, Queues
<1>3. CASE \E e : Queues(e)
  <2>1. PICK j : j.kind = "one" /\ jobs' = Append(jobs, j)
    BY <1>3 DEF Queues
  <2>2. /\ Len(jobs') = Len(jobs) + 1
        /\ \A i \in 1..Len(jobs') : jobs'[i] = IF i <= Len(jobs) THEN jobs[i] ELSE j
    BY <1>1, <2>1
  <2>3. Len(jobs) \in Nat
    BY <1>1
  <2> QED
    BY <1>1, <2>1, <2>2, <2>3
<1> QED
  BY <1>1, <1>2, <1>3

LEMMA CalmRest ==
    ASSUME Typed, Single, Calm, Rest
    PROVE  Calm'
<1>1. api'.at \in {"idle", "remove", "prune"}
  BY SingleApi
<1> QED
  BY <1>1, SingleJobs, SingleStays DEF Calm, At, Worker

LEMMA ApartRest ==
    ASSUME Typed, Single, Calm, Rest
    PROVE  Apart'
<1>1. CASE \E e \in Entry : DeleteEntry(e) /\ api'.entry = e /\ api'.prior = MentionedBy(e)
  <2>1. PICK e \in Entry : DeleteEntry(e) /\ api'.entry = e /\ api'.prior = MentionedBy(e)
    BY <1>1
  <2>2. ~ActiveFor(e) /\ UNCHANGED <<db, jobs, run>>
    BY <2>1 DEF DeleteEntry, Read, HandlersStay, ThreadsStay
  <2>3. ~ActiveFor(e)' /\ MentionedBy(e)' = MentionedBy(e)
    BY <2>2 DEF ActiveFor, MentionedBy
  <2> QED
    BY <2>1, <2>3 DEF Apart, ActiveFor, MentionedBy
<1>2. CASE api'.at # "remove"
  BY <1>2 DEF Apart
<1> QED
  BY <1>1, <1>2, SingleApi

LEMMA NotingRest ==
    ASSUME Typed, Single, Calm, Noting, Rest
    PROVE  Noting'
BY SingleStays, SingleMentions DEF Noting, MentionedBy, Worker

LEMMA TendedRest ==
    ASSUME Typed, Typed', Single, Tidy, Rest
    PROVE  Tended'
<1>0. /\ UNCHANGED <<run, broken>> /\ db'.next = db.next /\ Carries(db')
  BY SingleStays DEF Tidy
<1> SUFFICES ASSUME ~broken, NEW x \in DOMAIN db'.entities, Loose(x)'
             PROVE  Covered(x)'
  BY <1>0 DEF Tended
<1>1. CASE RemoveEntry
  <2>1. /\ db'.mentions = {m \in db.mentions : m.entry # api.entry}
        /\ db'.entities = db.entities /\ api.at = "remove"
    BY <1>1, SingleMentions DEF Tidy, RemoveEntry
  <2>2. CASE Mentioned(db, x)
    <3>1. PICK m \in db.mentions : m.entity = x
      BY <2>2 DEF Mentioned
    <3>2. m.entry = api.entry
      BY <2>1, <3>1 DEF Loose, Mentioned
    <3>3. x \in api.prior
      BY <2>1, <3>1, <3>2 DEF Tidy, Apart, MentionedBy
    <3>4. api'.at = "prune" /\ api'.prior = api.prior
      BY <1>1, <2>1, <3>3, SingleApi DEF Tidy
    <3> QED
      BY <3>3, <3>4 DEF Covered
  <2>3. CASE ~Mentioned(db, x)
    <3>1. Covered(x)
      BY <2>1, <2>3 DEF Tidy, Tended, Loose
    <3> QED
      BY <1>0, <2>1, <3>1 DEF Covered, Worker
  <2> QED
    BY <2>2, <2>3
<1>2. CASE ~RemoveEntry
  <2>1. x \in DOMAIN db.entities /\ Loose(x)
    BY <1>0, <1>2, SingleMentions, LooseBefore DEF Tidy
  <2>2. Covered(x)
    BY <2>1 DEF Tidy, Tended
  <2>3. CASE PruneEntry
    <3>1. db' = EntitiesRemoved(db, Orphans(db, api.prior))
      BY <2>3, SingleMentions DEF Tidy
    <3>2. x \notin api.prior
      BY <2>1, <3>1 DEF EntitiesRemoved, Orphans, Loose
    <3> QED
      BY <1>0, <2>2, <3>2 DEF Covered, Worker
  <2>4. CASE ~PruneEntry
    <3>1. api.at = "idle"
      BY <1>2, <2>4, SingleApi DEF Tidy
    <3> QED
      BY <1>0, <2>2, <3>1 DEF Covered, Worker
  <2> QED
    BY <2>3, <2>4
<1> QED
  BY <1>1, <1>2

LEMMA TidyRest ==
    ASSUME Typed, Typed', Single, Tidy, Rest
    PROVE  Tidy'
BY CalmRest, ApartRest, NotingRest, TendedRest DEF Tidy

\* The job at the head of the queue is for an entry nobody is deleting.
LEMMA TidyStart ==
    ASSUME Typed, Typed', Tidy, StartJob
    PROVE  Tidy'
<1> DEFINE j == Head(jobs)
<1>1. /\ jobs \in Seq(Job) /\ jobs # <<>> /\ jobs' = Tail(jobs)
      /\ db' = db /\ saved' = db /\ UNCHANGED <<broken, api>> /\ Worker.at = "idle"
  BY DEF Typed, TypeOK, StartJob, Commit, At, Worker
<1>2. /\ Len(jobs') = Len(jobs) - 1 /\ Len(jobs) \in Nat \ {0} /\ j = jobs[1] /\ j \in Job
      /\ \A i \in 1..Len(jobs') : jobs'[i] = jobs[i + 1]
  BY <1>1
<1>3. j.kind = "one" /\ j.entry \in Entry
  BY <1>2 DEF Tidy, Calm, Job
<1>4. PICK e \in Entry : e = j.entry
  BY <1>3
<1>5. /\ run'["worker"] = [NoRun EXCEPT !.at = "read", !.kind = "one", !.todo = {e}]
      /\ run'["loop"] = run["loop"]
  <2>1. Becomes("worker", Started("one", {e}))
    BY <1>3, <1>4 DEF StartJob
  <2> QED
    BY <2>1, Became DEF Started, Thread
<1>6. /\ run'["worker"].at = "read" /\ run'["worker"].kind = "one"
      /\ run'["worker"].todo = {e} /\ run'["worker"].entry = None
  BY <1>5 DEF NoRun
<1>7. \A i \in 1..Len(jobs') : jobs'[i].kind = "one"
  BY <1>2 DEF Tidy, Calm
<1>8. Calm'
  BY <1>1, <1>5, <1>6, <1>7 DEF Tidy, Calm, At, Worker
<1>9. Apart'
  <2> SUFFICES ASSUME api.at = "remove"
               PROVE  ~ActiveFor(api.entry)' /\ MentionedBy(api.entry)' \subseteq api.prior
    BY <1>1 DEF Apart, ActiveFor, MentionedBy
  <2>1. \A i \in 1..Len(jobs) : jobs[i].entry # api.entry
    BY DEF Tidy, Apart, ActiveFor
  <2>2. e # api.entry /\ \A i \in 1..Len(jobs') : jobs'[i].entry # api.entry
    BY <1>2, <1>4, <2>1
  <2>3. api.entry # None
    BY HandlerTyped, OwnerAssumption DEF Handles
  <2>4. ~ActiveFor(api.entry)'
    BY <1>1, <1>6, <2>2, <2>3 DEF ActiveFor
  <2>5. MentionedBy(api.entry)' \subseteq api.prior
    BY <1>1 DEF Tidy, Apart, MentionedBy
  <2> QED
    BY <2>4, <2>5
<1>10. Noting'
  BY <1>6 DEF Noting, Worker
<1>11. Tended'
  BY <1>1 DEF Tidy, Tended, Loose, Covered, Mentioned, Worker, Tidying, InHand
<1> QED
  BY <1>8, <1>9, <1>10, <1>11 DEF Tidy

\* A crash in the middle of the work is noted; before and after it nothing is
\* left to be done.
LEMMA TidyCrash ==
    ASSUME Typed, Tidy, Crash
    PROVE  Tidy'
<1>1. /\ db' = db /\ saved' = db /\ jobs' = <<>> /\ api' = NoHandler
      /\ run' = [t \in Thread |-> NoRun]
      /\ broken' = (broken \/ api.at # "idle" \/ \E t \in Thread : ~At(t, "idle"))
  BY DEF Crash, Tidy, Calm
<1>2. NoHandler.at = "idle"
  BY DEF NoHandler
<1>3. run'["worker"] = NoRun /\ run'["loop"] = NoRun
  BY <1>1 DEF Thread
<1>4. Calm'
  BY <1>1, <1>2, <1>3, NoRunFits DEF Calm, At, Worker
<1>5. Apart' /\ Noting'
  BY <1>1, <1>2, <1>3, NoRunFits DEF Apart, Noting, Worker
<1>6. Tended'
  <2> SUFFICES ASSUME ~broken', NEW x \in DOMAIN db'.entities, Loose(x)'
               PROVE  FALSE
    BY DEF Tended
  <2>1. ~broken /\ api.at = "idle" /\ Worker.at = "idle"
    BY <1>1 DEF At, Worker, Thread
  <2>2. Covered(x)
    BY <1>1, <2>1 DEF Tidy, Tended, Loose, Mentioned
  <2> QED
    BY <2>1, <2>2 DEF Covered, Tidying, InHand
<1> QED
  BY <1>4, <1>5, <1>6 DEF Tidy

LEMMA TidyNext ==
    ASSUME Typed, Typed', Single, Tidy, [Next]_vars
    PROVE  Tidy'
<1>1. ASSUME NEW t \in Thread, Extract(t) PROVE Tidy'
  <2>1. t = "worker"
    BY <1>1, ExtractAt DEF Tidy, Calm, Thread, At
  <2> QED
    BY <1>1, <2>1, TidyExtract
<1>2. CASE UNCHANGED vars
  BY <1>2 DEF vars, Tidy, Calm, Apart, Noting, Tended, Loose, Covered, Mentioned, MentionedBy,
     ActiveFor, At, Worker
<1> QED
  BY <1>1, <1>2, TidyStart, TidyRest, TidyCrash DEF Next

LEMMA TidyInit == Init => Tidy
<1> SUFFICES ASSUME Init PROVE Tidy
  OBVIOUS
<1>1. /\ db = EmptyTables /\ saved = EmptyTables /\ jobs = <<>> /\ api = NoHandler
      /\ run["worker"] = NoRun /\ run["loop"] = NoRun
  BY DEF Init, Thread
<1>2. NoHandler.at = "idle" /\ DOMAIN EmptyTables.entities = {}
  BY DEF NoHandler, EmptyTables
<1> QED
  BY <1>1, <1>2, NoRunFits DEF Tidy, Calm, Apart, Noting, Tended, At, Worker

\* extract_from_entry and the delete of an entry clean up after themselves: with
\* single jobs, edits, deletes, dropped entities and resolved candidates, in any
\* interleaving with crashes and failures, no entity but the author's is left
\* without a mention once all is quiet, unless some of the work stopped half-way.
THEOREM EntitiesNoneLeft ==
    Spec => [](Requests \subseteq {"one", "edit", "delete", "drop", "resolve"}
                  => NoneLeftBehind)
<1> DEFINE Inv == Typed /\ (Single => Tidy)
<1>1. Init => Inv
  BY InitTyped, TidyInit
<1>2. Inv /\ [Next]_vars => Inv'
  <2> SUFFICES ASSUME Inv, [Next]_vars PROVE Inv'
    OBVIOUS
  <2>1. Typed'
    BY NextTyped
  <2>2. Single => Tidy'
    BY <2>1, TidyNext
  <2>3. Single' = Single
    BY DEF Single
  <2> QED
    BY <2>1, <2>2, <2>3
<1>3. Inv => (Requests \subseteq {"one", "edit", "delete", "drop", "resolve"}
                 => NoneLeftBehind)
  <2> SUFFICES ASSUME Tidy, Quiet, ~broken, NEW x \in DOMAIN db.entities, Loose(x)
               PROVE  FALSE
    BY DEF NoneLeftBehind, Loose, Single
  <2>1. Worker.at = "idle" /\ api.at = "idle"
    BY DEF Quiet, At, Worker, Thread
  <2> QED
    BY <2>1 DEF Tidy, Tended, Covered, Tidying, InHand
<1> HIDE DEF Inv
<1> QED
  BY <1>1, <1>2, <1>3, PTL DEF Spec
=============================================================================
