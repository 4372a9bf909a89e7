----------------------------- MODULE EntriesProofs -----------------------------
(***************************************************************************)
(* Proofs about Entries, for every value of its constants.                 *)
(***************************************************************************)
EXTENDS Entries, SequenceTheorems, TLAPS

USE DEF Entry, NoEntry, Text, Version, Workers, Thread

-----------------------------------------------------------------------------
(* Type correctness.  TypeOK is not inductive: what a step reads from a    *)
(* thread or a row must fit what it does next.                             *)

\* The steps that work on an entry, and those that work with its text.
EntrySteps == {"store", "chunk", "embed", "score", "count", "return", "follow", "clear",
               "model", "mention", "mark", "save", "submit", "purge", "drop"}
TextSteps == {"store", "chunk", "embed", "score", "count", "clear", "model", "mention"}
FileSteps == {"check", "read", "store"}
SingleKinds == {"reprocess", "extract", "mood"}

Shaped(l) ==
    /\ l.pc \in EntrySteps => l.entry \in Entry
    /\ l.pc \in TextSteps => l.text \in Text
    /\ l.pc \in FileSteps => l.idx \in 1..Len(l.upload)
    /\ l.pc = "select" => l.kind \in BatchKinds
    /\ l.todo # {} => l.kind \in SingleKinds \cup BatchKinds

\* A job that works on one entry names it.
NamedJob == {j \in JobRecord : j.kind \in SingleKinds => j.entry \in Entry}

SaveReady ==
    At("api", "save") =>
        Live(thread["api"].entry) /\ db[thread["api"].entry].text < MaxText

TypeInv ==
    /\ TypeOK
    /\ \A t \in Thread : Shaped(thread[t])
    /\ queue \in Seq(NamedJob)
    /\ \A e \in Entry : Live(e) => db[e].text \in Text
    /\ SaveReady

LEMMA RowTyped ==
    ASSUME TypeOK, NEW e \in Entry
    PROVE  /\ db[e] \in Row
           /\ db[e].state \in {"absent", "live", "deleted"}
           /\ db[e].text \in Version
           /\ db[e].count \in Nat
           /\ db[e].moods \in Version
           /\ db[e].files \in SUBSET File
BY DEF TypeOK, Row

LEMMA LocalTyped ==
    ASSUME TypeOK, NEW t \in Thread
    PROVE  /\ thread[t] \in Local
           /\ thread[t].pc \in Steps
           /\ thread[t].kind \in {"none", "text", "media", "edit", "delete"} \cup JobKind
           /\ thread[t].job \in Entry \cup {NoEntry}
           /\ thread[t].entry \in Entry \cup {NoEntry}
           /\ thread[t].upload \in Uploads \cup {<<>>}
           /\ thread[t].user \in Nat
           /\ thread[t].idx \in Nat
           /\ thread[t].text \in Version
           /\ thread[t].count \in Nat
           /\ thread[t].todo \in SUBSET Entry
           /\ thread[t].attempt \in Nat
BY DEF TypeOK, Local

\* An upload is a sequence of files.
LEMMA UploadTyped ==
    ASSUME NEW u \in Uploads \cup {<<>>}
    PROVE  /\ u \in Seq(File)
           /\ u # <<>> => u \in Uploads /\ Len(u) \in Nat /\ 1 \in 1..Len(u)
<1>1. CASE u = <<>>
  BY <1>1
<1>2. CASE u \in Uploads
  <2>1. u \in Seq(File) /\ u # <<>>
    BY <1>2, UploadsAssumption
  <2>2. Len(u) \in Nat /\ Len(u) # 0
    BY <2>1, LenProperties, EmptySeq
  <2> QED
    BY <1>2, <2>1, <2>2
<1> QED
  BY <1>1, <1>2

\* The local state of a thread that has nothing to do.
LEMMA IdleTyped == Idle \in Local /\ Shaped(Idle)
BY SizesAssumption DEF Idle, Local, Steps, Shaped, EntrySteps, TextSteps, FileSteps

LEMMA InitTyped == Init => TypeInv
<1> SUFFICES ASSUME Init PROVE TypeInv
  OBVIOUS
<1>1. Absent \in Row /\ NoVector \in Vector
  BY SizesAssumption DEF Absent, Row, NoVector, Vector
<1>2. thread \in [Thread -> Local] /\ \A t \in Thread : Shaped(thread[t])
  BY IdleTyped DEF Init
<1>3. ~At("api", "save") /\ \A e \in Entry : ~Live(e)
  BY DEF Init, At, Idle, Live, Absent
<1>4. vectors \in [Entry -> [ChunkId -> Vector]] /\ db \in [Entry -> Row]
  BY <1>1 DEF Init
<1>5. queue \in Seq(JobRecord) /\ Len(queue) = 0
  BY DEF Init
<1> QED
  <2>1. TypeOK
    <3>1. queue \in Seq(JobRecord) /\ faults \in Nat /\ crashes \in Nat
      BY <1>5 DEF Init
    <3>2. asked \in [Entry -> Version]
      BY SizesAssumption DEF Init
    <3> QED
      BY <1>2, <1>4, <3>1, <3>2 DEF TypeOK
  <2>2. queue \in Seq(NamedJob)
    BY DEF Init
  <2> QED
    BY <1>2, <1>3, <2>1, <2>2 DEF TypeInv, SaveReady

-----------------------------------------------------------------------------
(* What the calls on the two stores and on the queue return.               *)

\* Rows keep their type, and a live row has a text.
DbTyped ==
    /\ db' \in [Entry -> Row]
    /\ \A e \in Entry : db'[e].state = "live" => db'[e].text \in Text

\* No entry that exists goes away or has its text changed.
TextsKept ==
    \A e \in Entry : Live(e) => db'[e].state = "live" /\ db'[e].text = db[e].text

LEMMA AbsentTyped == Absent \in Row
BY SizesAssumption DEF Absent, Row

LEMMA CreatedTyped ==
    ASSUME TypeInv, NEW e \in Entry, NEW u \in Nat, FreshId(e), db' = Created(e, u)
    PROVE  DbTyped /\ TextsKept
<1> DEFINE new == [Absent EXCEPT !.state = "live", !.text = 1, !.owner = u, !.stale = TRUE]
<1>1. new \in Row /\ new.state = "live" /\ new.text = 1 /\ 1 \in Text
  <2>1. 1 \in Version /\ 1 \in Text
    BY SizesAssumption
  <2> QED
    BY <2>1, AbsentTyped DEF Row
<1>2. db' = [db EXCEPT ![e] = new] /\ ~Live(e)
  BY DEF Created, FreshId, Live
<1> HIDE DEF new
<1> QED
  BY <1>1, <1>2 DEF TypeInv, TypeOK, DbTyped, TextsKept, Live

LEMMA TextUpdatedTyped ==
    ASSUME TypeInv, NEW e \in Entry, NEW n \in Nat, Live(e), db[e].text < MaxText,
           db' = TextUpdated(e, n)
    PROVE  DbTyped
<1> DEFINE new == [db[e] EXCEPT !.text = db[e].text + 1, !.count = n, !.stale = TRUE,
                                !.newer = db[e].moods # 0]
<1>1. db[e].text + 1 \in Text /\ db[e].text + 1 \in Version
  BY SizesAssumption DEF TypeInv
<1>2. new \in Row /\ new.text \in Text
  BY <1>1, RowTyped DEF TypeInv, Row
<1>3. db' = [db EXCEPT ![e] = new]
  BY DEF TextUpdated
<1> HIDE DEF new
<1> QED
  BY <1>2, <1>3 DEF TypeInv, TypeOK, DbTyped, Live

LEMMA RowDeletedTyped ==
    ASSUME TypeInv, NEW e \in Entry, db' = RowDeleted(e)
    PROVE  DbTyped
<1> DEFINE new == [Absent EXCEPT !.state = "deleted"]
<1>1. new \in Row /\ new.state = "deleted"
  BY AbsentTyped DEF Row
<1>2. db' = [db EXCEPT ![e] = new]
  BY DEF RowDeleted
<1> HIDE DEF new
<1> QED
  BY <1>1, <1>2 DEF TypeInv, TypeOK, DbTyped, Live

\* The writes that leave state and text of the row alone.
LEMMA WriteTyped ==
    ASSUME TypeInv, NEW e \in Entry,
           \/ \E v \in Version : db' = Chunked(e, v) \/ db' = Scored(e, v)
                                 \/ db' = Mentioned(e, v)
           \/ \E n \in Nat : db' = Counted(e, n)
           \/ \E f \in File : db' = Stored(e, f)
           \/ db' = Extracted(e)
           \/ db' = db
    PROVE  DbTyped /\ TextsKept
<1> DEFINE Fits(new) == new \in Row /\ new.state = db[e].state /\ new.text = db[e].text
<1>1. db[e] \in Row /\ db[e].files \in SUBSET File
  BY RowTyped DEF TypeInv
<1>2. \E new : Fits(new) /\ db' = [db EXCEPT ![e] = new]
  <2>1. CASE \E v \in Version : db' = Chunked(e, v)
    BY <1>1, <2>1 DEF Chunked, Row
  <2>2. CASE \E v \in Version : db' = Scored(e, v)
    BY <1>1, <2>2 DEF Scored, Row
  <2>3. CASE \E v \in Version : db' = Mentioned(e, v)
    BY <1>1, <2>3 DEF Mentioned, Row
  <2>4. CASE \E n \in Nat : db' = Counted(e, n)
    BY <1>1, <2>4 DEF Counted, Row
  <2>5. CASE \E f \in File : db' = Stored(e, f)
    BY <1>1, <2>5 DEF Stored, Row
  <2>6. CASE db' = Extracted(e)
    BY <1>1, <2>6 DEF Extracted, Row
  <2>7. CASE db' = db
    BY <1>1, <2>7 DEF TypeInv, TypeOK
  <2> QED
    BY <2>1, <2>2, <2>3, <2>4, <2>5, <2>6, <2>7
<1> QED
  BY <1>2 DEF TypeInv, TypeOK, DbTyped, TextsKept, Live

LEMMA VectorsAddedTyped ==
    ASSUME TypeInv, NEW e \in Entry, NEW v \in Version, NEW u \in Nat
    PROVE  VectorsAdded(e, v, u) \in [Entry -> [ChunkId -> Vector]]
BY DEF VectorsAdded, TypeInv, TypeOK, Vector

LEMMA VectorsDeletedTyped ==
    ASSUME TypeInv, NEW e \in Entry
    PROVE  VectorsDeleted(e) \in [Entry -> [ChunkId -> Vector]]
BY SizesAssumption DEF VectorsDeleted, NoVector, TypeInv, TypeOK, Vector

QueueTyped == queue' \in Seq(JobRecord) /\ queue' \in Seq(NamedJob)

LEMMA JobOfTyped ==
    ASSUME NEW k \in JobKind, NEW e \in Entry \cup {NoEntry},
           k \in SingleKinds => e \in Entry
    PROVE  JobOf(k, e) \in NamedJob /\ JobOf(k, e) \in JobRecord
BY DEF JobOf, NamedJob, JobRecord

LEMMA QueueGrows ==
    ASSUME TypeInv, NEW more \in Seq(NamedJob), more \in Seq(JobRecord),
           queue' = queue \o more
    PROVE  QueueTyped
BY ConcatProperties DEF TypeInv, TypeOK, QueueTyped

LEMMA QueueAppended ==
    ASSUME TypeInv, NEW j \in NamedJob, queue' = Append(queue, j)
    PROVE  QueueTyped
BY AppendProperties DEF TypeInv, TypeOK, QueueTyped, NamedJob

-----------------------------------------------------------------------------
(* What a step leaves in the hands of a thread.                            *)

\* Thread t goes on with a record that fits its next step.
ThreadTyped(t) ==
    \E r \in Local : Shaped(r) /\ r.pc # "save" /\ Becomes(t, r)

OthersTyped ==
    /\ vectors' \in [Entry -> [ChunkId -> Vector]]
    /\ asked' \in [Entry -> Version]
    /\ faults' \in Nat
    /\ crashes' \in Nat

LEMMA StepTyped ==
    ASSUME TypeInv, NEW t \in Thread, ThreadTyped(t), DbTyped, QueueTyped, OthersTyped,
           t # "api" => TextsKept
    PROVE  TypeInv'
<1>1. PICK r \in Local : Shaped(r) /\ r.pc # "save" /\ Becomes(t, r)
  BY DEF ThreadTyped
<1>2. thread' = [thread EXCEPT ![t] = r]
  BY <1>1 DEF Becomes
<1>3. thread' \in [Thread -> Local] /\ \A s \in Thread : Shaped(thread'[s])
  BY <1>1, <1>2 DEF TypeInv, TypeOK
<1>4. SaveReady'
  <2> SUFFICES ASSUME thread'["api"].pc = "save"
               PROVE  /\ db'[thread'["api"].entry].state = "live"
                      /\ db'[thread'["api"].entry].text < MaxText
    BY DEF SaveReady, At, Live
  <2>1. t # "api" /\ thread'["api"] = thread["api"]
    BY <1>1, <1>2 DEF TypeInv, TypeOK
  <2>2. SaveReady /\ thread["api"].pc = "save" /\ thread["api"].entry \in Entry
    BY <2>1 DEF TypeInv, Shaped, EntrySteps
  <2> QED
    BY <2>1, <2>2 DEF SaveReady, At, Live, TextsKept
<1>5. TypeOK'
  BY <1>3 DEF TypeOK, DbTyped, QueueTyped, OthersTyped
<1> QED
  BY <1>3, <1>4, <1>5 DEF TypeInv, DbTyped, QueueTyped, Live

LEMMA GotoTyped ==
    ASSUME TypeInv, NEW t \in Thread, NEW step \in Steps \ {"save"}, Goto(t, step),
           step \in EntrySteps => thread[t].entry \in Entry,
           step \in TextSteps => thread[t].text \in Text,
           step \in FileSteps => thread[t].idx \in 1..Len(thread[t].upload),
           step = "select" => thread[t].kind \in BatchKinds
    PROVE  ThreadTyped(t)
<1> DEFINE r == [thread[t] EXCEPT !.pc = step]
<1>1. thread[t] \in Local /\ Shaped(thread[t])
  BY LocalTyped DEF TypeInv
<1>2. r \in Local /\ r.pc = step /\ r.entry = thread[t].entry /\ r.text = thread[t].text
      /\ r.idx = thread[t].idx /\ r.upload = thread[t].upload
      /\ r.kind = thread[t].kind /\ r.todo = thread[t].todo
  BY <1>1 DEF Local
<1>3. Becomes(t, r)
  BY DEF Goto
<1> HIDE DEF r
<1>4. Shaped(r)
  BY <1>1, <1>2 DEF Shaped
<1> QED
  BY <1>2, <1>3, <1>4 DEF ThreadTyped

LEMMA GoIdleTyped ==
    ASSUME NEW t \in Thread, Becomes(t, Idle)
    PROVE  ThreadTyped(t)
BY IdleTyped DEF ThreadTyped, Idle

LEMMA EntryDoneTyped ==
    ASSUME TypeInv, NEW t \in Thread, EntryDone(t)
    PROVE  ThreadTyped(t)
<1>1. CASE thread[t].todo = {}
  BY <1>1, GoIdleTyped DEF EntryDone
<1>2. CASE thread[t].todo # {}
  BY <1>2, GotoTyped DEF EntryDone, Steps, EntrySteps, TextSteps, FileSteps
<1> QED
  BY <1>1, <1>2

LEMMA KeptTyped ==
    ASSUME TypeInv, NEW t \in Thread, thread[t].pc # "save", UNCHANGED thread
    PROVE  ThreadTyped(t)
<1>1. thread[t] \in Local /\ Shaped(thread[t])
  BY LocalTyped DEF TypeInv
<1>2. Becomes(t, thread[t])
  BY DEF Becomes, TypeInv, TypeOK
<1> QED
  BY <1>1, <1>2 DEF ThreadTyped

\* A thread begins an ingestion,
LEMMA IngestingShaped ==
    ASSUME NEW k \in {"text", "media", "ingest"}, NEW u \in Nat,
           NEW up \in Uploads \cup {<<>>}
    PROVE  /\ Ingesting(k, u, up) \in Local
           /\ Ingesting(k, u, up).pc \in {"create", "check"}
           /\ Shaped(Ingesting(k, u, up))
<1> DEFINE q == Ingesting(k, u, up)
           first == IF up = <<>> THEN "create" ELSE "check"
<1>1. Idle \in Local /\ Idle.todo = {}
  BY IdleTyped DEF Idle
<1>2. first \in {"create", "check"} /\ (first = "check" => up # <<>>)
  OBVIOUS
<1>3. q = [Idle EXCEPT !.kind = k, !.user = u, !.upload = up, !.idx = 1, !.pc = first]
  BY DEF Ingesting
<1> HIDE DEF first, q
<1>4. q \in Local /\ q.pc = first /\ q.idx = 1 /\ q.upload = up /\ q.todo = {}
  BY <1>1, <1>2, <1>3 DEF Local, Steps, JobKind
<1>5. Shaped(q)
  BY <1>2, <1>4, UploadTyped DEF Shaped, EntrySteps, TextSteps, FileSteps
<1> QED
  BY <1>2, <1>4, <1>5 DEF q

LEMMA StartTyped ==
    ASSUME NEW t \in Thread, NEW k \in {"text", "media", "ingest"}, NEW u \in Nat,
           NEW up \in Uploads \cup {<<>>}, Becomes(t, Ingesting(k, u, up))
    PROVE  ThreadTyped(t)
BY IngestingShaped DEF ThreadTyped

\* or begins it again.
LEMMA RestartTyped ==
    ASSUME NEW t \in Thread, NEW k \in {"text", "media", "ingest"}, NEW u \in Nat,
           NEW up \in Uploads \cup {<<>>}, NEW n \in Nat,
           Becomes(t, [Ingesting(k, u, up) EXCEPT !.attempt = n])
    PROVE  ThreadTyped(t)
<1> DEFINE q == Ingesting(k, u, up)
           r == [q EXCEPT !.attempt = n]
<1>1. q \in Local /\ q.pc \in {"create", "check"} /\ Shaped(q)
  BY IngestingShaped
<1>2. Becomes(t, r)
  OBVIOUS
<1> HIDE DEF q
<1>3. r \in Local /\ r.pc \in {"create", "check"} /\ Shaped(r)
  BY <1>1 DEF Local, Shaped
<1> HIDE DEF r
<1> QED
  BY <1>2, <1>3 DEF ThreadTyped

-----------------------------------------------------------------------------
(* Every action keeps the invariant.                                       *)

LEMMA DbKeptTyped ==
    ASSUME TypeInv, UNCHANGED db
    PROVE  DbTyped /\ TextsKept
BY DEF TypeInv, TypeOK, DbTyped, TextsKept, Live

\* Steps that only move a thread on,
LEMMA MoveTyped ==
    ASSUME TypeInv, NEW t \in Thread, ThreadTyped(t), faults' \in Nat,
           UNCHANGED <<db, vectors, queue, asked, crashes>>
    PROVE  TypeInv'
<1>1. QueueTyped /\ OthersTyped
  BY DEF TypeInv, TypeOK, QueueTyped, OthersTyped
<1> QED
  BY <1>1, DbKeptTyped, StepTyped

\* that write to the tables as well,
LEMMA TableStepTyped ==
    ASSUME TypeInv, NEW t \in Thread, ThreadTyped(t), DbTyped, t # "api" => TextsKept,
           asked' \in [Entry -> Version],
           UNCHANGED <<vectors, queue, faults, crashes>>
    PROVE  TypeInv'
<1>1. QueueTyped /\ OthersTyped
  BY DEF TypeInv, TypeOK, QueueTyped, OthersTyped
<1> QED
  BY <1>1, StepTyped

\* to the collection,
LEMMA VectorStepTyped ==
    ASSUME TypeInv, NEW t \in Thread, ThreadTyped(t),
           vectors' \in [Entry -> [ChunkId -> Vector]],
           UNCHANGED <<db, queue, asked, faults, crashes>>
    PROVE  TypeInv'
<1>1. QueueTyped /\ OthersTyped
  BY DEF TypeInv, TypeOK, QueueTyped, OthersTyped
<1> QED
  BY <1>1, DbKeptTyped, StepTyped

\* or to the queue.
LEMMA QueueStepTyped ==
    ASSUME TypeInv, NEW t \in Thread, ThreadTyped(t), QueueTyped, faults' \in Nat,
           UNCHANGED <<db, vectors, asked, crashes>>
    PROVE  TypeInv'
<1>1. OthersTyped
  BY DEF TypeInv, TypeOK, OthersTyped
<1> QED
  BY <1>1, DbKeptTyped, StepTyped

LEMMA RequestTyped ==
    ASSUME TypeInv, Request
    PROVE  TypeInv'
<1> USE DEF TypeInv
<1>1. faults' = faults => faults' \in Nat
  BY DEF TypeOK
<1>2. ASSUME NEW u \in Users, PostText(u) PROVE TypeInv'
  <2>1. ThreadTyped("api")
    BY <1>2, UsersAssumption, StartTyped DEF PostText
  <2> QED
    BY <1>1, <1>2, <2>1, MoveTyped DEF PostText
<1>3. ASSUME NEW u \in Users, NEW up \in Uploads, PostUpload(u, up) PROVE TypeInv'
  <2> DEFINE j == [JobOf("ingest", NoEntry) EXCEPT !.upload = up, !.user = u]
  <2>1. JobOf("ingest", NoEntry) \in JobRecord /\ JobOf("ingest", NoEntry).kind = "ingest"
    BY DEF JobOf, JobRecord, JobKind
  <2>2. j \in NamedJob
    BY <2>1, UsersAssumption DEF NamedJob, JobRecord, SingleKinds
  <2>3. queue' = Append(queue, j) /\ thread["api"].pc # "save"
    BY <1>3 DEF PostUpload, Requested, At
  <2> HIDE DEF j
  <2>4. QueueTyped
    BY <2>2, <2>3, QueueAppended
  <2>5. ThreadTyped("api")
    BY <1>3, <2>3, KeptTyped DEF PostUpload
  <2> QED
    BY <1>1, <1>3, <2>4, <2>5, QueueStepTyped DEF PostUpload
<1>4. ASSUME NEW u \in Users, NEW up \in Uploads \cup {<<>>}, CallMedia(u, up)
      PROVE TypeInv'
  <2>1. ThreadTyped("api")
    BY <1>4, UsersAssumption, StartTyped DEF CallMedia
  <2> QED
    BY <1>1, <1>4, <2>1, MoveTyped DEF CallMedia
<1>5. ASSUME NEW e \in Entry, Edit(e) PROVE TypeInv'
  <2> DEFINE r == [Idle EXCEPT !.kind = "edit", !.pc = "save", !.entry = e,
                               !.count = db[e].count]
  <2>1. Idle \in Local /\ Idle.todo = {} /\ db[e].count \in Nat
    BY IdleTyped, RowTyped DEF Idle
  <2>2. r \in Local /\ r.pc = "save" /\ r.entry = e /\ r.todo = {}
    BY <2>1 DEF Local, Steps
  <2>3. thread' = [thread EXCEPT !["api"] = r] /\ Live(e) /\ db[e].text < MaxText
    BY <1>5 DEF Edit, Becomes
  <2>4. UNCHANGED <<db, vectors, queue, asked, faults, crashes>>
    BY <1>5 DEF Edit
  <2> HIDE DEF r
  <2>5. Shaped(r)
    BY <2>2 DEF Shaped, EntrySteps, TextSteps, FileSteps
  <2>6. thread' \in [Thread -> Local] /\ \A s \in Thread : Shaped(thread'[s])
    BY <2>2, <2>3, <2>5 DEF TypeOK
  <2>7. thread'["api"].entry = e
    BY <2>2, <2>3 DEF TypeOK
  <2>8. SaveReady'
    BY <2>3, <2>4, <2>7 DEF SaveReady, At, Live
  <2> QED
    BY <2>4, <2>6, <2>8 DEF TypeOK, Live
<1>6. ASSUME NEW e \in Entry, CallUpdateTool(e) PROVE TypeInv'
  <2>1. ThreadTyped("api")
    BY <1>6, KeptTyped DEF CallUpdateTool, Requested, At
  <2>2. db[e].text + 1 \in Version
    BY <1>6, RowTyped, SizesAssumption DEF CallUpdateTool
  <2>3. asked' \in [Entry -> Version]
    BY <1>6, <2>2 DEF CallUpdateTool, TypeOK
  <2> QED
    BY <1>6, <2>1, <2>3, DbKeptTyped, TableStepTyped DEF CallUpdateTool
<1>7. ASSUME NEW e \in Entry, Delete(e) PROVE TypeInv'
  <2> DEFINE r == [Idle EXCEPT !.kind = "delete", !.pc = "purge", !.entry = e]
  <2>1. Idle \in Local /\ Idle.todo = {}
    BY IdleTyped DEF Idle
  <2>2. r \in Local /\ r.pc = "purge" /\ r.entry = e /\ r.todo = {}
    BY <2>1 DEF Local, Steps
  <2>3. Becomes("api", r)
    BY <1>7 DEF Delete
  <2> HIDE DEF r
  <2>4. ThreadTyped("api")
    BY <2>2, <2>3 DEF ThreadTyped, Shaped, EntrySteps, TextSteps, FileSteps
  <2> QED
    BY <1>1, <1>7, <2>4, MoveTyped DEF Delete
<1>8. ASSUME NEW e \in Entry, PostExtract(e) PROVE TypeInv'
  <2>1. JobOf("extract", e) \in NamedJob
    BY JobOfTyped DEF JobKind
  <2>2. QueueTyped
    BY <1>8, <2>1, QueueAppended DEF PostExtract
  <2>3. ThreadTyped("api")
    BY <1>8, KeptTyped DEF PostExtract, Requested, At
  <2> QED
    BY <1>1, <1>8, <2>2, <2>3, QueueStepTyped DEF PostExtract
<1>9. ASSUME NEW k \in BatchKinds, PostBatch(k) PROVE TypeInv'
  <2>1. JobOf(k, NoEntry) \in NamedJob
    BY JobOfTyped DEF JobKind, BatchKinds, SingleKinds
  <2>2. QueueTyped
    BY <1>9, <2>1, QueueAppended DEF PostBatch
  <2>3. ThreadTyped("api")
    BY <1>9, KeptTyped DEF PostBatch, Requested, At
  <2> QED
    BY <1>1, <1>9, <2>2, <2>3, QueueStepTyped DEF PostBatch
<1> HIDE DEF TypeInv
<1> QED
  BY <1>2, <1>3, <1>4, <1>5, <1>6, <1>7, <1>8, <1>9 DEF Request

LEMMA IngestStepTyped ==
    ASSUME TypeInv, NEW t \in Thread, IngestStep(t)
    PROVE  TypeInv'
<1> DEFINE l == thread[t]
           e == thread[t].entry
<1>1. faults' = faults => faults' \in Nat
  BY DEF TypeInv, TypeOK
<1>2. asked' = asked => asked' \in [Entry -> Version]
  BY DEF TypeInv, TypeOK
<1>3. Shaped(l) /\ l \in Local
  BY LocalTyped DEF TypeInv
<1>4. CASE CheckFile(t)
  <2>1. CASE Becomes(t, Idle)
    BY <1>1, <1>4, <2>1, GoIdleTyped, MoveTyped DEF CheckFile
  <2>2. CASE Goto(t, "read")
    <3>1. ThreadTyped(t)
      BY <1>3, <1>4, <2>2, GotoTyped
         DEF CheckFile, At, Shaped, Steps, EntrySteps, TextSteps, FileSteps
    <3> QED
      BY <1>1, <1>4, <3>1, MoveTyped DEF CheckFile
  <2> QED
    BY <1>4, <2>1, <2>2 DEF CheckFile
<1>5. CASE ReadFile(t)
  <2>1. CASE l.idx < Len(l.upload)
    <3> DEFINE r == [l EXCEPT !.pc = "check", !.idx = l.idx + 1]
    <3>1. Becomes(t, r)
      BY <1>5, <2>1 DEF ReadFile
    <3>2. l.idx \in 1..Len(l.upload) /\ l.upload \in Seq(File)
      BY <1>3, <1>5, UploadTyped, LocalTyped
         DEF TypeInv, ReadFile, At, Shaped, FileSteps
    <3>A. l.idx + 1 \in 1..Len(l.upload) /\ l.idx + 1 \in Nat
      BY <2>1, <3>2, LenProperties
    <3>3. r \in Local /\ r.pc = "check" /\ r.idx \in 1..Len(l.upload)
          /\ r.upload = l.upload /\ r.todo = l.todo /\ r.kind = l.kind
      BY <1>3, <3>A DEF Local, Steps
    <3> HIDE DEF r
    <3>4. Shaped(r)
      BY <1>3, <3>3 DEF Shaped, EntrySteps, TextSteps, FileSteps
    <3>5. ThreadTyped(t)
      BY <3>1, <3>3, <3>4 DEF ThreadTyped
    <3> QED
      BY <1>1, <1>5, <3>5, MoveTyped DEF ReadFile
  <2>2. CASE Goto(t, "create")
    <3>1. ThreadTyped(t)
      BY <2>2, GotoTyped DEF Steps, EntrySteps, TextSteps, FileSteps
    <3> QED
      BY <1>1, <1>5, <3>1, MoveTyped DEF ReadFile
  <2> QED
    BY <1>5, <2>1, <2>2 DEF ReadFile
<1>6. CASE CreateEntry(t)
  <2> DEFINE step == IF l.upload = <<>> THEN "chunk" ELSE "store"
             r(d) == [l EXCEPT !.entry = d, !.text = 1, !.idx = 1, !.pc = step]
  <2>1. PICK d \in Entry : /\ FreshId(d) /\ db' = Created(d, l.user)
                           /\ asked' = [asked EXCEPT ![d] = 1] /\ Becomes(t, r(d))
    BY <1>6 DEF CreateEntry
  <2>2. DbTyped /\ TextsKept
    BY <2>1, CreatedTyped, LocalTyped DEF TypeInv
  <2>3. step \in {"chunk", "store"} /\ (step = "store" => 1 \in 1..Len(l.upload))
    BY UploadTyped, LocalTyped DEF TypeInv
  <2>4. 1 \in Text /\ 1 \in Version
    BY SizesAssumption
  <2> HIDE DEF step
  <2>5. r(d) \in Local /\ r(d).pc = step /\ r(d).entry = d /\ r(d).text = 1
        /\ r(d).idx = 1 /\ r(d).upload = l.upload /\ r(d).todo = l.todo
        /\ r(d).kind = l.kind
    BY <1>3, <2>3, <2>4 DEF Local, Steps
  <2> HIDE DEF r
  <2>6. Shaped(r(d))
    BY <1>3, <2>3, <2>4, <2>5 DEF Shaped, EntrySteps, TextSteps, FileSteps
  <2>7. ThreadTyped(t)
    BY <2>1, <2>3, <2>5, <2>6 DEF ThreadTyped
  <2>8. asked' \in [Entry -> Version]
    BY <2>1, <2>4 DEF TypeInv, TypeOK
  <2> QED
    BY <1>6, <2>2, <2>7, <2>8, TableStepTyped DEF CreateEntry
<1>7. CASE StoreFile(t)
  <2>1. l.idx \in 1..Len(l.upload) /\ l.upload \in Seq(File) /\ e \in Entry /\ l.text \in Text
    BY <1>3, <1>7, UploadTyped, LocalTyped
       DEF TypeInv, StoreFile, At, Shaped, FileSteps, EntrySteps, TextSteps
  <2>2. l.upload[l.idx] \in File
    BY <2>1
  <2>3. DbTyped /\ TextsKept
    BY <1>7, <2>1, <2>2, WriteTyped DEF StoreFile
  <2>4. CASE Becomes(t, Idle)
    BY <1>2, <1>7, <2>3, <2>4, GoIdleTyped, TableStepTyped DEF StoreFile
  <2>5. CASE Goto(t, "chunk")
    <3>1. ThreadTyped(t)
      BY <2>1, <2>5, GotoTyped DEF Steps, FileSteps
    <3> QED
      BY <1>2, <1>7, <2>3, <3>1, TableStepTyped DEF StoreFile
  <2>6. CASE l.idx < Len(l.upload) /\ Becomes(t, [l EXCEPT !.idx = l.idx + 1])
    <3> DEFINE r == [l EXCEPT !.idx = l.idx + 1]
    <3>A. l.idx + 1 \in 1..Len(l.upload) /\ l.idx + 1 \in Nat /\ l.pc = "store"
      BY <1>7, <2>1, <2>6, LenProperties DEF StoreFile, At
    <3>1. r \in Local /\ r.pc = "store" /\ r.entry = e /\ r.text = l.text
          /\ r.idx \in 1..Len(l.upload) /\ r.upload = l.upload /\ r.todo = l.todo
          /\ r.kind = l.kind
      BY <1>3, <3>A DEF Local
    <3>2. Becomes(t, r)
      BY <2>6
    <3> HIDE DEF r
    <3>3. Shaped(r)
      BY <1>3, <2>1, <3>1 DEF Shaped, EntrySteps, TextSteps, FileSteps
    <3>4. ThreadTyped(t)
      BY <3>1, <3>2, <3>3 DEF ThreadTyped
    <3> QED
      BY <1>2, <1>7, <2>3, <3>4, TableStepTyped DEF StoreFile
  <2> QED
    BY <1>7, <2>4, <2>5, <2>6 DEF StoreFile
<1>8. CASE ReplaceChunks(t)
  <2>1. e \in Entry /\ l.text \in Text /\ l.text \in Version
    BY <1>3, <1>8 DEF ReplaceChunks, At, Shaped, EntrySteps, TextSteps
  <2>2. DbTyped /\ TextsKept
    BY <1>8, <2>1, WriteTyped DEF ReplaceChunks
  <2>3. ThreadTyped(t)
    BY <1>8, <2>1, GotoTyped, GoIdleTyped DEF ReplaceChunks, Steps, FileSteps
  <2> QED
    BY <1>2, <1>8, <2>2, <2>3, TableStepTyped DEF ReplaceChunks
<1>9. CASE Embed(t)
  <2>1. e \in Entry /\ l.text \in Text /\ l.text \in Version /\ l.user \in Nat
    BY <1>3, <1>9, LocalTyped DEF TypeInv, Embed, At, Shaped, EntrySteps, TextSteps
  <2>2. vectors' \in [Entry -> [ChunkId -> Vector]]
    BY <1>9, <2>1, VectorsAddedTyped DEF Embed
  <2>3. ThreadTyped(t)
    BY <1>9, <2>1, GotoTyped DEF Embed, Steps, FileSteps
  <2> QED
    BY <1>9, <2>2, <2>3, VectorStepTyped DEF Embed
<1>10. CASE Score(t)
  <2>1. e \in Entry /\ l.text \in Text /\ l.text \in Version
    BY <1>3, <1>10 DEF Score, At, Shaped, EntrySteps, TextSteps
  <2>2. DbTyped /\ TextsKept
    BY <1>10, <2>1, WriteTyped DEF Score
  <2>3. ThreadTyped(t)
    BY <1>10, <2>1, GotoTyped, EntryDoneTyped DEF Score, Steps, FileSteps
  <2> QED
    BY <1>2, <1>10, <2>2, <2>3, TableStepTyped DEF Score
<1>11. CASE UpdateCount(t)
  <2>1. e \in Entry /\ l.text \in Text /\ Chunks[l.text] \in Nat
    BY <1>3, <1>11, SizesAssumption DEF UpdateCount, At, Shaped, EntrySteps, TextSteps
  <2>2. DbTyped /\ TextsKept
    BY <1>11, <2>1, WriteTyped DEF UpdateCount
  <2>3. ThreadTyped(t)
    BY <1>11, <2>1, GotoTyped, EntryDoneTyped
       DEF UpdateCount, Steps, FileSteps, TextSteps
  <2> QED
    BY <1>2, <1>11, <2>2, <2>3, TableStepTyped DEF UpdateCount
<1>12. CASE Return(t)
  <2>1. ThreadTyped(t)
    BY <1>3, <1>12, GotoTyped, GoIdleTyped
       DEF Return, At, Shaped, Steps, EntrySteps, TextSteps, FileSteps
  <2> QED
    BY <1>1, <1>12, <2>1, MoveTyped DEF Return
<1>13. CASE FollowUp(t)
  <2>1. e \in Entry
    BY <1>3, <1>13 DEF FollowUp, At, Shaped, EntrySteps
  <2>2. /\ JobOf("mood", e) \in NamedJob /\ JobOf("extract", e) \in NamedJob
        /\ JobOf("mood", e) \in JobRecord /\ JobOf("extract", e) \in JobRecord
    BY <2>1, JobOfTyped DEF JobKind
  <2>3. QueueTyped
    <3> DEFINE more == <<JobOf("mood", e), JobOf("extract", e)>>
    <3>1. more \in Seq(NamedJob) /\ more \in Seq(JobRecord)
      BY <2>2
    <3>2. queue' = queue \o more
      BY <1>13 DEF FollowUp
    <3> HIDE DEF more
    <3> QED
      BY <3>1, <3>2, QueueGrows
  <2> QED
    BY <1>1, <1>13, <2>3, GoIdleTyped, QueueStepTyped DEF FollowUp
<1> QED
  BY <1>4, <1>5, <1>6, <1>7, <1>8, <1>9, <1>10, <1>11, <1>12, <1>13 DEF IngestStep

\* All or a part of the jobs of a saved text.
LEMMA StagesTyped ==
    ASSUME NEW e \in Entry, NEW n \in 0..3
    PROVE  /\ SubSeq(SaveStages(e), 1, n) \in Seq(NamedJob)
           /\ SubSeq(SaveStages(e), 1, n) \in Seq(JobRecord)
           /\ SaveStages(e) \in Seq(NamedJob)
           /\ SaveStages(e) \in Seq(JobRecord)
<1> DEFINE a == JobOf("reprocess", e)
           b == JobOf("extract", e)
           c == JobOf("mood", e)
<1>1. /\ a \in NamedJob /\ b \in NamedJob /\ c \in NamedJob
      /\ a \in JobRecord /\ b \in JobRecord /\ c \in JobRecord
  BY JobOfTyped DEF JobKind
<1>2. SaveStages(e) = <<a, b, c>>
  BY DEF SaveStages
<1> HIDE DEF a, b, c
<1>3. <<a, b, c>> \in Seq(NamedJob) /\ <<a, b, c>> \in Seq(JobRecord) /\ Len(<<a, b, c>>) = 3
  BY <1>1
<1> QED
  BY <1>2, <1>3, SubSeqProperties

LEMMA ApiStepTyped ==
    ASSUME TypeInv, ApiStep
    PROVE  TypeInv'
<1> DEFINE l == thread["api"]
           e == thread["api"].entry
<1>1. faults' = faults => faults' \in Nat
  BY DEF TypeInv, TypeOK
<1>2. Shaped(l) /\ l \in Local
  BY LocalTyped DEF TypeInv
<1>3. CASE IngestStep("api")
  BY <1>3, IngestStepTyped
<1>4. CASE SaveText
  <2>1. e \in Entry /\ Live(e) /\ db[e].text < MaxText /\ l.count \in Nat
    <3>1. At("api", "save") /\ l.pc = "save"
      BY <1>4 DEF SaveText, At
    <3>2. e \in Entry
      BY <1>2, <3>1 DEF Shaped, EntrySteps
    <3>3. Live(e) /\ db[e].text < MaxText
      BY <3>1 DEF TypeInv, SaveReady
    <3>4. l.count \in Nat
      BY LocalTyped DEF TypeInv
    <3> QED
      BY <3>2, <3>3, <3>4
  <2>2. DbTyped
    BY <1>4, <2>1, TextUpdatedTyped DEF SaveText
  <2>3. db[e].text + 1 \in Version
    BY SMTT(30), <2>1, RowTyped, SizesAssumption DEF TypeInv
  <2>4. asked' \in [Entry -> Version]
    BY <1>4, <2>3 DEF SaveText, TypeInv, TypeOK
  <2>5. ThreadTyped("api")
    BY <1>4, <2>1, GotoTyped DEF SaveText, Steps, TextSteps, FileSteps
  <2> QED
    BY <1>4, <2>2, <2>4, <2>5, TableStepTyped DEF SaveText
<1>5. CASE SubmitStages
  <2>1. e \in Entry
    BY <1>2, <1>5 DEF SubmitStages, At, Shaped, EntrySteps
  <2>2. QueueTyped
    BY SMTT(30), <1>5, <2>1, StagesTyped, QueueGrows DEF SubmitStages
  <2> QED
    BY <1>1, <1>5, <2>2, GoIdleTyped, QueueStepTyped DEF SubmitStages
<1>6. CASE PurgeVectors
  <2>1. e \in Entry
    BY <1>2, <1>6 DEF PurgeVectors, At, Shaped, EntrySteps
  <2>2. ThreadTyped("api")
    BY <1>6, <2>1, GotoTyped DEF PurgeVectors, Steps, TextSteps, FileSteps
  <2> QED
    BY <1>6, <2>1, <2>2, VectorsDeletedTyped, VectorStepTyped DEF PurgeVectors
<1>7. CASE DropRow
  <2>1. e \in Entry
    BY <1>2, <1>7 DEF DropRow, At, Shaped, EntrySteps
  <2>2. DbTyped
    BY <1>7, <2>1, RowDeletedTyped DEF DropRow
  <2>3. asked' \in [Entry -> Version]
    <3>1. 0 \in Version
      BY SizesAssumption
    <3> QED
      BY <1>7, <3>1 DEF DropRow, TypeInv, TypeOK
  <2> QED
    BY <1>7, <2>2, <2>3, GoIdleTyped, TableStepTyped DEF DropRow
<1> QED
  BY <1>3, <1>4, <1>5, <1>6, <1>7 DEF ApiStep

LEMMA TakeTyped ==
    ASSUME TypeInv, NEW w \in Workers, Take(w)
    PROVE  TypeInv'
<1> DEFINE j == Head(queue)
<1>1. faults' = faults => faults' \in Nat
  BY DEF TypeInv, TypeOK
<1>2. j \in NamedJob /\ QueueTyped
  BY HeadTailProperties DEF Take, TypeInv, TypeOK, QueueTyped
<1>3. /\ j.kind \in JobKind /\ j.user \in Nat /\ j.upload \in Uploads \cup {<<>>}
      /\ j.kind \in SingleKinds => j.entry \in Entry
  BY <1>2 DEF NamedJob, JobRecord
<1> HIDE DEF j
<1>4. CASE j.kind = "ingest"
  <2>1. Becomes(w, Ingesting("ingest", j.user, j.upload))
    BY <1>4 DEF Take, j
  <2>2. ThreadTyped(w)
    BY <1>3, <2>1, StartTyped
  <2> QED
    BY <1>1, <1>2, <2>2, QueueStepTyped DEF Take
<1>5. CASE j.kind \in BatchKinds
  <2> DEFINE r == [Idle EXCEPT !.kind = j.kind, !.pc = "select"]
  <2>1. Idle \in Local /\ Idle.todo = {}
    BY IdleTyped DEF Idle
  <2>2. r \in Local /\ r.pc = "select" /\ r.kind = j.kind /\ r.todo = {}
    BY <1>3, <2>1 DEF Local, Steps
  <2>3. Becomes(w, r)
    BY <1>5 DEF Take, j, BatchKinds
  <2> HIDE DEF r
  <2>4. ThreadTyped(w)
    BY <1>5, <2>2, <2>3 DEF ThreadTyped, Shaped, EntrySteps, TextSteps, FileSteps
  <2> QED
    BY <1>1, <1>2, <2>4, QueueStepTyped DEF Take
<1>6. CASE j.kind \notin {"ingest"} \cup BatchKinds
  <2> DEFINE r == [Idle EXCEPT !.kind = j.kind, !.pc = "next",
                               !.job = j.entry, !.todo = {j.entry}]
  <2>1. Idle \in Local
    BY IdleTyped
  <2>2. j.kind \in SingleKinds /\ j.entry \in Entry
    BY <1>3, <1>6 DEF JobKind, BatchKinds, SingleKinds
  <2>3. r \in Local /\ r.pc = "next" /\ r.kind = j.kind
    BY <1>3, <2>1, <2>2 DEF Local, Steps
  <2>4. Becomes(w, r)
    BY <1>6 DEF Take, j
  <2> HIDE DEF r
  <2>5. ThreadTyped(w)
    BY <2>2, <2>3, <2>4 DEF ThreadTyped, Shaped, EntrySteps, TextSteps, FileSteps
  <2> QED
    BY <1>1, <1>2, <2>5, QueueStepTyped DEF Take
<1> QED
  BY <1>4, <1>5, <1>6

LEMMA ReadEntryTyped ==
    ASSUME TypeInv, NEW w \in Workers, ReadEntry(w)
    PROVE  TypeInv'
<1> DEFINE l == thread[w]
<1>1. faults' = faults => faults' \in Nat
  BY DEF TypeInv, TypeOK
<1>2. /\ Shaped(l) /\ l \in Local /\ l.pc = "next" /\ l.todo \in SUBSET Entry
      /\ l.kind \in JobKind \cup {"none", "text", "media", "edit", "delete"}
  BY LocalTyped DEF TypeInv, ReadEntry, At
<1>3. PICK e \in l.todo :
         \/ Becomes(w, Idle)
         \/ Becomes(w, [l EXCEPT !.todo = l.todo \ {e}])
         \/ /\ Live(e)
            /\ Becomes(w, [l EXCEPT !.pc = FirstStep(l.kind), !.entry = e,
                                    !.text = db[e].text, !.user = DefaultUser,
                                    !.todo = l.todo \ {e}])
  BY DEF ReadEntry
<1>4. e \in Entry /\ l.kind \in SingleKinds \cup BatchKinds
  BY <1>2 DEF Shaped
<1>5. FirstStep(l.kind) \in {"clear", "model", "score"}
  BY <1>4 DEF FirstStep, SingleKinds, BatchKinds
<1>6. CASE Becomes(w, Idle)
  BY <1>1, <1>6, GoIdleTyped, MoveTyped DEF ReadEntry
<1>7. CASE Becomes(w, [l EXCEPT !.todo = l.todo \ {e}])
  <2> DEFINE r == [l EXCEPT !.todo = l.todo \ {e}]
  <2>1. r \in Local /\ r.pc = "next" /\ r.kind = l.kind
    BY <1>2 DEF Local
  <2>2. Becomes(w, r)
    BY <1>7
  <2> HIDE DEF r
  <2>3. ThreadTyped(w)
    BY <1>4, <2>1, <2>2 DEF ThreadTyped, Shaped, EntrySteps, TextSteps, FileSteps
  <2> QED
    BY <1>1, <2>3, MoveTyped DEF ReadEntry
<1>8. ASSUME Live(e),
             Becomes(w, [l EXCEPT !.pc = FirstStep(l.kind), !.entry = e,
                                  !.text = db[e].text, !.user = DefaultUser,
                                  !.todo = l.todo \ {e}])
      PROVE  TypeInv'
  <2> DEFINE step == FirstStep(l.kind)
             r == [l EXCEPT !.pc = step, !.entry = e, !.text = db[e].text,
                            !.user = DefaultUser, !.todo = l.todo \ {e}]
  <2>1. db[e].text \in Text /\ db[e].text \in Version /\ DefaultUser \in Nat
    BY <1>4, <1>8, UsersAssumption DEF TypeInv
  <2>2. Becomes(w, r)
    BY <1>8
  <2>3. step \in {"clear", "model", "score"}
    BY <1>5
  <2> HIDE DEF step
  <2>4. r \in Local /\ r.pc = step /\ r.entry = e /\ r.text = db[e].text /\ r.kind = l.kind
    BY <1>2, <1>4, <2>1, <2>3 DEF Local, Steps
  <2> HIDE DEF r
  <2>5. ThreadTyped(w)
    BY <1>4, <2>1, <2>2, <2>3, <2>4 DEF ThreadTyped, Shaped, FileSteps
  <2> QED
    BY <1>1, <2>5, MoveTyped DEF ReadEntry
<1> QED
  BY <1>3, <1>6, <1>7, <1>8

LEMMA WorkerStepTyped ==
    ASSUME TypeInv, NEW w \in Workers, WorkerStep(w)
    PROVE  TypeInv'
<1> DEFINE l == thread[w]
           e == thread[w].entry
<1>1. faults' = faults => faults' \in Nat
  BY DEF TypeInv, TypeOK
<1>2. asked' = asked => asked' \in [Entry -> Version]
  BY DEF TypeInv, TypeOK
<1>3. Shaped(l) /\ l \in Local
  BY LocalTyped DEF TypeInv
<1>4. CASE IngestStep(w)
  BY <1>4, IngestStepTyped
<1>5. CASE Take(w)
  BY <1>5, TakeTyped
<1>6. CASE Select(w)
  <2>1. CASE Becomes(w, Idle)
    BY <1>1, <1>6, <2>1, GoIdleTyped, MoveTyped DEF Select
  <2>2. CASE Becomes(w, [l EXCEPT !.pc = "next", !.todo = Selected(l.kind)])
    <3> DEFINE r == [l EXCEPT !.pc = "next", !.todo = Selected(l.kind)]
    <3>1. Selected(l.kind) \in SUBSET Entry
      BY DEF Selected
    <3>2. r \in Local /\ r.pc = "next" /\ r.kind = l.kind
      BY <1>3, <3>1 DEF Local, Steps
    <3>3. Becomes(w, r) /\ l.kind \in BatchKinds
      BY <1>3, <1>6, <2>2 DEF Select, At, Shaped
    <3> HIDE DEF r
    <3>4. ThreadTyped(w)
      BY <3>2, <3>3 DEF ThreadTyped, Shaped, EntrySteps, TextSteps, FileSteps
    <3> QED
      BY <1>1, <1>6, <3>4, MoveTyped DEF Select
  <2> QED
    BY <1>6, <2>1, <2>2 DEF Select
<1>7. CASE ReadEntry(w)
  BY <1>7, ReadEntryTyped
<1>8. CASE ClearVectors(w)
  <2>1. e \in Entry /\ l.text \in Text
    BY <1>3, <1>8 DEF ClearVectors, At, Shaped, EntrySteps, TextSteps
  <2>2. ThreadTyped(w)
    BY <1>8, <2>1, GotoTyped DEF ClearVectors, Steps, FileSteps
  <2> QED
    BY <1>8, <2>1, <2>2, VectorsDeletedTyped, VectorStepTyped DEF ClearVectors
<1>9. CASE ModelAnswers(w)
  <2>1. e \in Entry /\ l.text \in Text /\ 0 \in Version
    BY <1>3, <1>9, SizesAssumption DEF ModelAnswers, At, Shaped, EntrySteps, TextSteps
  <2>2. DbTyped /\ TextsKept
    BY <1>9, <2>1, WriteTyped DEF ModelAnswers
  <2>3. ThreadTyped(w)
    BY <1>9, <2>1, GotoTyped DEF ModelAnswers, Steps, FileSteps
  <2> QED
    BY <1>2, <1>9, <2>2, <2>3, TableStepTyped DEF ModelAnswers
<1>10. CASE WriteMentions(w)
  <2>1. e \in Entry /\ l.text \in Text /\ l.text \in Version
    BY <1>3, <1>10 DEF WriteMentions, At, Shaped, EntrySteps, TextSteps
  <2>2. DbTyped /\ TextsKept
    BY <1>10, <2>1, WriteTyped DEF WriteMentions
  <2>3. ThreadTyped(w)
    BY <1>10, <2>1, GotoTyped, EntryDoneTyped DEF WriteMentions, Steps, FileSteps
  <2> QED
    BY <1>2, <1>10, <2>2, <2>3, TableStepTyped DEF WriteMentions
<1>11. CASE MarkExtracted(w)
  <2>1. e \in Entry
    BY <1>3, <1>11 DEF MarkExtracted, At, Shaped, EntrySteps
  <2>2. DbTyped /\ TextsKept
    BY <1>11, <2>1, WriteTyped DEF MarkExtracted
  <2>3. ThreadTyped(w)
    BY <1>11, EntryDoneTyped DEF MarkExtracted
  <2> QED
    BY <1>2, <1>11, <2>2, <2>3, TableStepTyped DEF MarkExtracted
<1> QED
  BY <1>4, <1>5, <1>6, <1>7, <1>8, <1>9, <1>10, <1>11 DEF WorkerStep

LEMMA FaultTyped ==
    ASSUME TypeInv, Fault
    PROVE  TypeInv'
<1>1. faults + 1 \in Nat
  BY DEF TypeInv, TypeOK
<1>2. ASSUME NEW t \in Thread, CallRaises(t) PROVE TypeInv'
  <2>1. ThreadTyped(t)
    <3>1. CASE EntryDone(t)
      BY <3>1, EntryDoneTyped
    <3>2. CASE Becomes(t, [Ingesting("ingest", thread[t].user, thread[t].upload)
                              EXCEPT !.attempt = thread[t].attempt + 1])
      <4>1. /\ thread[t].user \in Nat /\ thread[t].upload \in Uploads \cup {<<>>}
            /\ thread[t].attempt + 1 \in Nat
        BY SMTT(30), LocalTyped DEF TypeInv
      <4> QED
        BY <3>2, <4>1, RestartTyped
    <3> QED
      BY <1>2, <3>1, <3>2 DEF CallRaises
  <2> QED
    BY <1>1, <1>2, <2>1, MoveTyped DEF CallRaises, Faulty
<1>3. ASSUME NEW t \in Thread, ScorerFails(t) PROVE TypeInv'
  <2>1. thread[t].entry \in Entry /\ thread[t].text \in Text
    BY <1>3 DEF TypeInv, ScorerFails, At, Shaped, EntrySteps, TextSteps
  <2>2. ThreadTyped(t)
    BY <1>3, <2>1, EntryDoneTyped, GotoTyped DEF ScorerFails, Steps, FileSteps
  <2> QED
    BY <1>1, <1>3, <2>2, MoveTyped DEF ScorerFails, Faulty
<1>4. ASSUME NEW t \in Thread, FollowUpRaises(t) PROVE TypeInv'
  <2>1. thread[t].entry \in Entry
    BY <1>4 DEF TypeInv, FollowUpRaises, At, Shaped, EntrySteps
  <2>2. PICK k \in {"mood", "extract"} : queue' = Append(queue, JobOf(k, thread[t].entry))
    BY <1>4 DEF FollowUpRaises
  <2>3. JobOf(k, thread[t].entry) \in NamedJob
    BY <2>1, JobOfTyped DEF JobKind
  <2>4. QueueTyped
    BY <2>2, <2>3, QueueAppended
  <2> QED
    BY <1>1, <1>4, <2>4, GoIdleTyped, QueueStepTyped DEF FollowUpRaises, Faulty
<1>5. CASE SubmissionRaises
  <2>1. thread["api"].entry \in Entry
    BY <1>5 DEF TypeInv, SubmissionRaises, At, Shaped, EntrySteps
  <2>2. PICK n \in 0..2 : queue' = queue \o SubSeq(SaveStages(thread["api"].entry), 1, n)
    BY <1>5 DEF SubmissionRaises
  <2>3. QueueTyped
    <3> DEFINE more == SubSeq(SaveStages(thread["api"].entry), 1, n)
    <3>1. n \in 0..3
      OBVIOUS
    <3>2. more \in Seq(NamedJob) /\ more \in Seq(JobRecord)
      BY <2>1, <3>1, StagesTyped
    <3> HIDE DEF more
    <3> QED
      BY <2>2, <3>2, QueueGrows DEF more
  <2> QED
    BY <1>1, <1>5, <2>3, GoIdleTyped, QueueStepTyped DEF SubmissionRaises, Faulty
<1> QED
  BY <1>2, <1>3, <1>4, <1>5 DEF Fault

LEMMA CrashTyped ==
    ASSUME TypeInv, Crash
    PROVE  TypeInv'
<1>1. thread' \in [Thread -> Local] /\ \A t \in Thread : Shaped(thread'[t])
  BY IdleTyped DEF Crash
<1>2. ~At("api", "save")' /\ queue' \in Seq(JobRecord) /\ queue' \in Seq(NamedJob)
  BY DEF Crash, At, Idle
<1>3. crashes' \in Nat
  BY DEF Crash, TypeInv, TypeOK
<1>4. UNCHANGED <<db, vectors, asked, faults>>
  BY DEF Crash
<1> QED
  BY <1>1, <1>2, <1>3, <1>4 DEF TypeInv, TypeOK, SaveReady, Live

LEMMA NextTyped ==
    ASSUME TypeInv, [Next]_vars
    PROVE  TypeInv'
<1>1. CASE UNCHANGED vars
  BY <1>1 DEF vars, TypeInv, TypeOK, SaveReady, At, Live
<1>2. CASE Next
  BY <1>2, RequestTyped, ApiStepTyped, WorkerStepTyped, FaultTyped, CrashTyped DEF Next
<1> QED
  BY <1>1, <1>2

\* The invariant behind type correctness, for the other proofs.
LEMMA TypeInvariant == Spec => []TypeInv
BY InitTyped, NextTyped, PTL DEF Spec

\* Every variable keeps its type in every behaviour, for every size of the
\* tables: no step reads a row, a chunk count or a file that is not there.
THEOREM EntriesTyped == Spec => []TypeOK
<1>1. TypeInv => TypeOK
  BY DEF TypeInv
<1> QED
  BY <1>1, TypeInvariant, PTL

-----------------------------------------------------------------------------
(***************************************************************************)
(* The vectors of an entry are never of two texts, for every value of the  *)
(* constants.                                                              *)
(***************************************************************************)

(* The invariant.  ChromaDB's add() keeps the vectors it finds, so whoever *)
(* embeds an entry must find none.                                         *)

Empty(e) == \A i \in ChunkId : vectors[e][i] = NoVector
Made == {e \in Entry : db[e].state # "absent"}
Jobs == {queue[i] : i \in 1..Len(queue)}

EmbedSteps == {"store", "chunk", "embed"}

\* A thread that will add vectors of entry e, if nothing raises.
Embeds(l, e) ==
    \/ l.pc \in EmbedSteps \cup {"clear"} /\ l.entry = e
    \/ l.kind = "reprocess" /\ e \in l.todo

\* Nothing is known of an entry that was never made.
Known ==
    /\ \A e \in Entry : e \notin Made => Empty(e)
    /\ \A j \in Jobs : j.entry \in Made \cup {NoEntry}
    /\ \A t \in Thread : /\ thread[t].entry \in Made \cup {NoEntry}
                         /\ thread[t].todo \subseteq Made

\* One thread at a time embeds an entry, and starts from no vectors.
Alone ==
    /\ \A t \in Thread : thread[t].pc \in EmbedSteps => Empty(thread[t].entry)
    /\ \A e \in Entry : Embeds(thread["api"], e) =>
          /\ ~Embeds(thread["worker"], e)
          /\ \A j \in Jobs : j.kind = "reprocess" => j.entry # e

VectorInv == TypeInv /\ Known /\ Alone /\ NoMixedVectors

LEMMA InitVectors == Init => VectorInv
<1> SUFFICES ASSUME Init PROVE VectorInv
  OBVIOUS
<1>1. \A e \in Entry : Empty(e)
  BY DEF Init, Empty
<1>2. Jobs = {}
  BY DEF Init, Jobs
<1>3. \A t \in Thread : /\ thread[t].pc = "idle" /\ thread[t].entry = NoEntry
                        /\ thread[t].todo = {} /\ thread[t].kind = "none"
  BY DEF Init, Idle
<1>4. Known /\ Alone
  BY <1>1, <1>2, <1>3 DEF Known, Alone, EmbedSteps, Embeds
<1>5. NoMixedVectors
  BY <1>1 DEF NoMixedVectors, Empty
<1> QED
  BY <1>4, <1>5, InitTyped DEF VectorInv

-----------------------------------------------------------------------------
(* The jobs in the queue, whatever their order.                            *)

LEMMA JobsGrow ==
    ASSUME TypeInv, NEW more \in Seq(JobRecord), queue' = queue \o more
    PROVE  Jobs' = Jobs \cup {more[i] : i \in 1..Len(more)}
<1>1. queue \in Seq(JobRecord)
  BY DEF TypeInv, TypeOK
<1> DEFINE n == Len(queue)
           m == Len(more)
<1>2. n \in Nat /\ m \in Nat /\ Len(queue') = n + m
  BY <1>1, LenProperties, ConcatProperties
<1>3. \A i \in 1..(n + m) : queue'[i] = IF i <= n THEN queue[i] ELSE more[i - n]
  BY <1>1, <1>2, ConcatProperties
<1>4. ASSUME NEW j \in Jobs' PROVE j \in Jobs \/ j \in {more[i] : i \in 1..Len(more)}
  <2>1. PICK i \in 1..(n + m) : j = queue'[i]
    BY <1>2, <1>4 DEF Jobs
  <2>2. CASE i <= n
    BY <1>2, <1>3, <2>1, <2>2 DEF Jobs
  <2>3. CASE ~(i <= n)
    <3>1. i - n \in 1..m /\ j = more[i - n]
      BY <1>2, <1>3, <2>1, <2>3
    <3> QED
      BY <3>1
  <2> QED
    BY <2>2, <2>3
<1>5. ASSUME NEW j \in Jobs PROVE j \in Jobs'
  <2>1. PICK i \in 1..n : j = queue[i]
    BY <1>5 DEF Jobs
  <2>2. i \in 1..(n + m) /\ queue'[i] = j
    BY <1>2, <1>3, <2>1
  <2> QED
    BY <1>2, <2>2 DEF Jobs
<1>6. ASSUME NEW i \in 1..m PROVE more[i] \in Jobs'
  <2>1. n + i \in 1..(n + m) /\ queue'[n + i] = more[i]
    BY <1>2, <1>3
  <2> QED
    BY <1>2, <2>1 DEF Jobs
<1> QED
  BY <1>4, <1>5, <1>6

LEMMA JobAppended ==
    ASSUME TypeInv, NEW j \in JobRecord, queue' = Append(queue, j)
    PROVE  Jobs' = Jobs \cup {j}
<1>1. queue \in Seq(JobRecord) /\ <<j>> \in Seq(JobRecord)
  BY DEF TypeInv, TypeOK
<1>2. queue' = queue \o <<j>>
  BY <1>1
<1>3. {<<j>>[i] : i \in 1..Len(<<j>>)} = {j}
  OBVIOUS
<1> QED
  BY <1>1, <1>2, <1>3, JobsGrow

LEMMA JobTaken ==
    ASSUME TypeInv, queue # <<>>, queue' = Tail(queue)
    PROVE  /\ Head(queue) \in Jobs /\ Jobs' \subseteq Jobs
           /\ Jobs \subseteq Jobs' \cup {Head(queue)}
<1>1. queue \in Seq(JobRecord) /\ Len(queue) \in Nat /\ Len(queue) # 0
  BY LenProperties, EmptySeq DEF TypeInv, TypeOK
<1>2. Head(queue) = queue[1] /\ 1 \in 1..Len(queue)
  BY <1>1
<1>3. Len(queue') = Len(queue) - 1 /\ \A i \in 1..Len(queue') : queue'[i] = queue[i + 1]
  BY <1>1, HeadTailProperties
<1>4. \A i \in 1..Len(queue') : i + 1 \in 1..Len(queue)
  BY <1>1, <1>3
<1>5. ASSUME NEW i \in 1..Len(queue) PROVE queue[i] \in Jobs' \cup {Head(queue)}
  <2>1. CASE i = 1
    BY <1>2, <2>1
  <2>2. CASE i # 1
    <3>1. i - 1 \in 1..Len(queue') /\ (i - 1) + 1 = i
      BY <1>1, <1>3, <2>2
    <3>2. queue'[i - 1] = queue[i]
      BY <1>3, <3>1
    <3> QED
      BY <3>1, <3>2 DEF Jobs
  <2> QED
    BY <2>1, <2>2
<1> QED
  BY <1>2, <1>3, <1>4, <1>5 DEF Jobs

-----------------------------------------------------------------------------
(* Steps of one thread.                                                    *)

\* No other thread, nor a job on its way to one, embeds entry e.
Free(t, e) ==
    /\ \A s \in Thread \ {t} : ~Embeds(thread[s], e)
    /\ t = "api" => \A j \in Jobs : j.kind = "reprocess" => j.entry # e

\* Thread t goes on to work on entries that exist, and to embed only those it
\* already had or that are free.
ThreadFit(t) ==
    /\ \A s \in Thread \ {t} : thread'[s] = thread[s]
    /\ thread'[t].entry \in Made' \cup {NoEntry}
    /\ thread'[t].todo \subseteq Made'
    /\ thread'[t].pc \in EmbedSteps =>
          \A i \in ChunkId : vectors'[thread'[t].entry][i] = NoVector
    /\ \A e \in Entry : Embeds(thread'[t], e) => Embeds(thread[t], e) \/ Free(t, e)

\* New jobs name entries that exist and that the event loop does not embed.
JobsFit ==
    \A j \in Jobs' : j \in Jobs \/
        /\ j.entry \in Made \cup {NoEntry}
        /\ j.kind = "reprocess" => ~Embeds(thread'["api"], j.entry)

\* Thread t only adds vectors to an entry that it was to embed, and is done.
VectorsFit(t) ==
    \A e \in Entry : Empty(e) =>
        \/ \A i \in ChunkId : vectors'[e][i] = NoVector
        \/ e \in Made /\ Embeds(thread[t], e) /\ thread'[t].pc \notin EmbedSteps

LEMMA VectorStep ==
    ASSUME VectorInv, TypeInv', NEW t \in Thread, ThreadFit(t), JobsFit, VectorsFit(t),
           Made \subseteq Made', NoMixedVectors'
    PROVE  VectorInv'
<1> USE DEF VectorInv
<1>1. Known'
  <2>1. ASSUME NEW e \in Entry, e \notin Made' PROVE Empty(e)'
    BY <2>1 DEF Known, VectorsFit, Empty
  <2>2. \A j \in Jobs' : j.entry \in Made' \cup {NoEntry}
    BY DEF JobsFit, Known
  <2>3. ASSUME NEW s \in Thread
        PROVE  thread'[s].entry \in Made' \cup {NoEntry} /\ thread'[s].todo \subseteq Made'
    <3>1. CASE s = t
      BY <3>1 DEF ThreadFit
    <3>2. CASE s # t
      BY <3>2 DEF ThreadFit, Known
    <3> QED
      BY <3>1, <3>2
  <2> QED
    BY <2>1, <2>2, <2>3 DEF Known
<1>2. ASSUME NEW s \in Thread, thread'[s].pc \in EmbedSteps
      PROVE  Empty(thread[s].entry)'
  <2>1. CASE s = t
    BY <1>2, <2>1 DEF ThreadFit, Empty
  <2>2. CASE s # t
    <3>1. thread'[s] = thread[s]
      BY <2>2 DEF ThreadFit
    <3>2. thread[s].entry \in Entry /\ Empty(thread[s].entry) /\ Embeds(thread[s], thread[s].entry)
      BY <1>2, <3>1 DEF Alone, TypeInv, Shaped, EntrySteps, EmbedSteps, Embeds
    <3>3. ~Embeds(thread[t], thread[s].entry)
      BY <2>2, <3>2 DEF Alone
    <3> QED
      BY <3>1, <3>2, <3>3 DEF VectorsFit, Empty
  <2> QED
    BY <2>1, <2>2
<1>3. ASSUME NEW e \in Entry, Embeds(thread'["api"], e)
      PROVE  /\ ~Embeds(thread'["worker"], e)
             /\ \A j \in Jobs' : j.kind = "reprocess" => j.entry # e
  <2>1. CASE t = "api"
    <3>1. thread'["worker"] = thread["worker"]
      BY <2>1 DEF ThreadFit
    <3>2. Embeds(thread["api"], e) \/ Free("api", e)
      BY <1>3, <2>1 DEF ThreadFit
    <3>3. /\ ~Embeds(thread["worker"], e)
          /\ \A j \in Jobs : j.kind = "reprocess" => j.entry # e
      BY <3>2 DEF Alone, Free
    <3> QED
      BY <1>3, <3>1, <3>3 DEF JobsFit
  <2>2. CASE t = "worker"
    <3>1. thread'["api"] = thread["api"]
      BY <2>2 DEF ThreadFit
    <3>2. ~Embeds(thread'["worker"], e)
      BY <1>3, <2>2, <3>1 DEF ThreadFit, Free, Alone
    <3>3. \A j \in Jobs : j.kind = "reprocess" => j.entry # e
      BY <1>3, <3>1 DEF Alone
    <3> QED
      BY <1>3, <3>2, <3>3 DEF JobsFit
  <2> QED
    BY <2>1, <2>2
<1> QED
  BY <1>1, <1>2, <1>3 DEF Alone

\* Steps that leave the collection alone.
LEMMA QuietStep ==
    ASSUME VectorInv, TypeInv', NEW t \in Thread, ThreadFit(t), JobsFit,
           Made \subseteq Made', UNCHANGED vectors
    PROVE  VectorInv'
<1>1. NoMixedVectors' /\ VectorsFit(t)
  BY DEF VectorInv, NoMixedVectors, VectorsFit, Empty
<1> QED
  BY <1>1, VectorStep

\* Steps that are only a thread's.
LEMMA SameJobs ==
    ASSUME UNCHANGED queue
    PROVE  JobsFit
BY DEF JobsFit, Jobs

LEMMA SameMade ==
    ASSUME UNCHANGED db
    PROVE  Made' = Made
BY DEF Made

LEMMA GoIdleFit ==
    ASSUME VectorInv, NEW t \in Thread, Becomes(t, Idle)
    PROVE  ThreadFit(t)
<1>1. thread' = [thread EXCEPT ![t] = Idle] /\ t \in DOMAIN thread
  BY DEF Becomes, VectorInv, TypeInv, TypeOK
<1> QED
  BY <1>1 DEF Idle, ThreadFit, Embeds, EmbedSteps

\* A step on the same entry that embeds no more than the one before.
LEMMA GotoFit ==
    ASSUME VectorInv, NEW t \in Thread, NEW step \in Steps, Goto(t, step),
           Made \subseteq Made',
           step \in EmbedSteps \cup {"clear"} => thread[t].pc \in EmbedSteps \cup {"clear"},
           step \in EmbedSteps => \A i \in ChunkId : vectors'[thread[t].entry][i] = NoVector
    PROVE  ThreadFit(t)
<1> DEFINE r == [thread[t] EXCEPT !.pc = step]
<1>1. thread[t] \in Local
  BY LocalTyped DEF VectorInv, TypeInv
<1>2. /\ r.pc = step /\ r.entry = thread[t].entry /\ r.todo = thread[t].todo
      /\ r.kind = thread[t].kind
  BY <1>1 DEF Local
<1>3. thread' = [thread EXCEPT ![t] = r] /\ t \in DOMAIN thread
  BY DEF Goto, Becomes, VectorInv, TypeInv, TypeOK
<1> HIDE DEF r
<1>4. thread'[t] = r /\ \A s \in Thread \ {t} : thread'[s] = thread[s]
  BY <1>3 DEF VectorInv, TypeInv, TypeOK
<1>5. r.entry \in Made' \cup {NoEntry} /\ r.todo \subseteq Made'
  BY <1>2 DEF VectorInv, Known
<1>6. \A e \in Entry : Embeds(r, e) => Embeds(thread[t], e)
  BY <1>2 DEF Embeds
<1> QED
  BY <1>2, <1>4, <1>5, <1>6 DEF ThreadFit

LEMMA EntryDoneFit ==
    ASSUME VectorInv, NEW t \in Thread, EntryDone(t), Made \subseteq Made'
    PROVE  ThreadFit(t)
<1>1. CASE Becomes(t, Idle)
  BY <1>1, GoIdleFit
<1>2. CASE Goto(t, "next")
  BY <1>2, GotoFit DEF Steps, EmbedSteps
<1> QED
  BY <1>1, <1>2 DEF EntryDone

\* A thread that starts something: nothing to embed yet.
LEMMA StartFit ==
    ASSUME VectorInv, NEW t \in Thread, NEW r \in Local, Becomes(t, r),
           r.pc \notin EmbedSteps \cup {"clear"}, r.kind # "reprocess",
           r.entry \in Made' \cup {NoEntry}, r.todo \subseteq Made'
    PROVE  ThreadFit(t)
<1>1. thread' = [thread EXCEPT ![t] = r] /\ t \in DOMAIN thread
  BY DEF Becomes, VectorInv, TypeInv, TypeOK
<1>2. thread'[t] = r /\ \A s \in Thread \ {t} : thread'[s] = thread[s]
  BY <1>1 DEF VectorInv, TypeInv, TypeOK
<1> QED
  BY <1>2 DEF ThreadFit, Embeds

\* The writes on one row make no entry appear or vanish.
LEMMA WriteMade ==
    ASSUME TypeInv, NEW e \in Entry,
           \/ \E v : db' = Chunked(e, v) \/ db' = Scored(e, v) \/ db' = Mentioned(e, v)
           \/ \E n : db' = Counted(e, n)
           \/ \E f : db' = Stored(e, f)
           \/ db' = Extracted(e)
           \/ db' = db
    PROVE  Made' = Made /\ \A d \in Entry : db'[d].state = db[d].state
<1> DEFINE Fits(new) == new.state = db[e].state
<1>1. db \in [Entry -> Row] /\ db[e] \in Row
  BY DEF TypeInv, TypeOK
<1>2. \E new : Fits(new) /\ db' = [db EXCEPT ![e] = new]
  <2>1. CASE \E v : db' = Chunked(e, v)
    BY <1>1, <2>1 DEF Chunked, Row
  <2>2. CASE \E v : db' = Scored(e, v)
    BY <1>1, <2>2 DEF Scored, Row
  <2>3. CASE \E v : db' = Mentioned(e, v)
    BY <1>1, <2>3 DEF Mentioned, Row
  <2>4. CASE \E n : db' = Counted(e, n)
    BY <1>1, <2>4 DEF Counted, Row
  <2>5. CASE \E f : db' = Stored(e, f)
    BY <1>1, <2>5 DEF Stored, Row
  <2>6. CASE db' = Extracted(e)
    BY <1>1, <2>6 DEF Extracted, Row
  <2>7. CASE db' = db
    BY <1>1, <2>7
  <2> QED
    BY <2>1, <2>2, <2>3, <2>4, <2>5, <2>6, <2>7
<1> QED
  BY <1>1, <1>2 DEF Made

-----------------------------------------------------------------------------
(* Every action keeps the invariant.                                       *)

LEMMA RequestVectors ==
    ASSUME VectorInv, TypeInv', Request
    PROVE  VectorInv'
<1>1. UNCHANGED vectors /\ UNCHANGED db /\ thread["api"].pc = "idle"
  BY DEF Request, PostText, PostUpload, CallMedia, Edit, CallUpdateTool, Delete,
         PostExtract, PostBatch, Requested, At
<1>2. Made' = Made
  BY <1>1, SameMade
<1> SUFFICES ThreadFit("api") /\ JobsFit
  BY <1>1, <1>2, QuietStep
<1>3. ASSUME UNCHANGED thread PROVE ThreadFit("api")
  BY <1>1, <1>2, <1>3 DEF ThreadFit, VectorInv, Known, EmbedSteps
<1>4. ASSUME NEW k \in {"text", "media"}, NEW u \in Users, NEW up \in Uploads \cup {<<>>},
             Becomes("api", Ingesting(k, u, up))
      PROVE  ThreadFit("api")
  <2>1. /\ Ingesting(k, u, up) \in Local
        /\ Ingesting(k, u, up).pc \in {"create", "check"}
        /\ Ingesting(k, u, up).entry = NoEntry
        /\ Ingesting(k, u, up).todo = {}
        /\ Ingesting(k, u, up).kind = k
    <3>1. u \in Nat
      BY UsersAssumption
    <3> QED
      BY <3>1, IngestingShaped DEF Ingesting, Idle
  <2> QED
    BY <1>4, <2>1, StartFit DEF EmbedSteps
<1>5. ASSUME NEW r \in Local, Becomes("api", r), r.pc \in {"save", "purge"},
             r.entry \in Made, r.todo = {}, r.kind \in {"edit", "delete"}
      PROVE  ThreadFit("api")
  BY <1>2, <1>5, StartFit DEF EmbedSteps
<1>6. ASSUME NEW j \in JobRecord, queue' = Append(queue, j), UNCHANGED thread,
             j.entry \in Made \cup {NoEntry}, j.kind # "reprocess"
      PROVE  ThreadFit("api") /\ JobsFit
  <2>1. Jobs' = Jobs \cup {j}
    BY <1>6, JobAppended DEF VectorInv
  <2> QED
    BY <1>3, <1>6, <2>1 DEF JobsFit
<1>7. ASSUME NEW u \in Users, PostText(u) PROVE ThreadFit("api") /\ JobsFit
  BY <1>4, <1>7, SameJobs DEF PostText
<1>8. ASSUME NEW u \in Users, NEW up \in Uploads, PostUpload(u, up)
      PROVE  ThreadFit("api") /\ JobsFit
  <2> DEFINE j == [JobOf("ingest", NoEntry) EXCEPT !.upload = up, !.user = u]
  <2>1. JobOf("ingest", NoEntry) \in JobRecord /\ JobOf("ingest", NoEntry).kind = "ingest"
        /\ JobOf("ingest", NoEntry).entry = NoEntry
    BY DEF JobOf, JobRecord, JobKind
  <2>2. j \in JobRecord /\ j.kind = "ingest" /\ j.entry = NoEntry
    BY <2>1, UsersAssumption DEF JobRecord
  <2>3. queue' = Append(queue, j) /\ UNCHANGED thread
    BY <1>8 DEF PostUpload
  <2> HIDE DEF j
  <2> QED
    BY <1>6, <2>2, <2>3
<1>9. ASSUME NEW u \in Users, NEW up \in Uploads \cup {<<>>}, CallMedia(u, up)
      PROVE  ThreadFit("api") /\ JobsFit
  BY <1>4, <1>9, SameJobs DEF CallMedia
<1>10. ASSUME NEW e \in Entry, Edit(e) PROVE ThreadFit("api") /\ JobsFit
  <2> DEFINE r == [Idle EXCEPT !.kind = "edit", !.pc = "save", !.entry = e,
                               !.count = db[e].count]
  <2>1. Idle \in Local /\ Idle.todo = {} /\ db[e].count \in Nat /\ e \in Made
    BY <1>10, IdleTyped, RowTyped DEF Idle, VectorInv, TypeInv, Edit, Live, Made
  <2>2. r \in Local /\ r.pc = "save" /\ r.entry = e /\ r.todo = {} /\ r.kind = "edit"
    BY <2>1 DEF Local, Steps
  <2>3. Becomes("api", r)
    BY <1>10 DEF Edit
  <2> HIDE DEF r
  <2> QED
    BY <1>5, <1>10, <2>1, <2>2, <2>3, SameJobs DEF Edit
<1>11. ASSUME NEW e \in Entry, CallUpdateTool(e) PROVE ThreadFit("api") /\ JobsFit
  BY <1>3, <1>11, SameJobs DEF CallUpdateTool
<1>12. ASSUME NEW e \in Entry, Delete(e) PROVE ThreadFit("api") /\ JobsFit
  <2> DEFINE r == [Idle EXCEPT !.kind = "delete", !.pc = "purge", !.entry = e]
  <2>1. Idle \in Local /\ Idle.todo = {} /\ e \in Made
    BY <1>12, IdleTyped DEF Idle, Delete, Live, Made
  <2>2. r \in Local /\ r.pc = "purge" /\ r.entry = e /\ r.todo = {} /\ r.kind = "delete"
    BY <2>1 DEF Local, Steps
  <2>3. Becomes("api", r)
    BY <1>12 DEF Delete
  <2> HIDE DEF r
  <2> QED
    BY <1>5, <1>12, <2>1, <2>2, <2>3, SameJobs DEF Delete
<1>13. ASSUME NEW e \in Entry, PostExtract(e) PROVE ThreadFit("api") /\ JobsFit
  <2>1. JobOf("extract", e) \in JobRecord /\ e \in Made
    BY <1>13, JobOfTyped DEF JobKind, PostExtract, Live, Made
  <2> QED
    BY <1>6, <1>13, <2>1 DEF PostExtract, JobOf
<1>14. ASSUME NEW k \in BatchKinds, PostBatch(k) PROVE ThreadFit("api") /\ JobsFit
  <2>1. JobOf(k, NoEntry) \in JobRecord
    BY JobOfTyped DEF JobKind, BatchKinds, SingleKinds
  <2> QED
    BY <1>6, <1>14, <2>1 DEF PostBatch, JobOf, BatchKinds
<1> QED
  BY <1>7, <1>8, <1>9, <1>10, <1>11, <1>12, <1>13, <1>14 DEF Request

LEMMA IngestVectors ==
    ASSUME VectorInv, TypeInv', NEW t \in Thread, IngestStep(t)
    PROVE  VectorInv'
<1> DEFINE l == thread[t]
           e == thread[t].entry
<1>1. Shaped(l) /\ l \in Local /\ TypeInv /\ e \in Made \cup {NoEntry} /\ l.todo \subseteq Made
  BY LocalTyped DEF VectorInv, TypeInv, Known
<1>2. ASSUME UNCHANGED vectors, l.pc \in EmbedSteps
      PROVE  \A i \in ChunkId : vectors'[e][i] = NoVector
  BY <1>2 DEF VectorInv, Alone, Empty
<1>3. CASE CheckFile(t)
  <2>1. ThreadFit(t)
    BY <1>3, SameMade, GoIdleFit, GotoFit DEF CheckFile, Steps, EmbedSteps
  <2> QED
    BY <1>3, <2>1, SameMade, SameJobs, QuietStep DEF CheckFile
<1>4. CASE ReadFile(t)
  <2>1. CASE Becomes(t, [l EXCEPT !.pc = "check", !.idx = l.idx + 1])
    <3> DEFINE r == [l EXCEPT !.pc = "check", !.idx = l.idx + 1]
    <3>1. /\ r.pc = "check" /\ r.entry = e /\ r.todo = l.todo /\ r.kind = l.kind
      BY <1>1 DEF Local
    <3>2. thread' = [thread EXCEPT ![t] = r]
      BY <2>1 DEF Becomes
    <3> HIDE DEF r
    <3>3. thread'[t] = r /\ \A s \in Thread \ {t} : thread'[s] = thread[s]
      BY <3>2 DEF VectorInv, TypeInv, TypeOK
    <3>4. Made' = Made
      BY <1>4, SameMade DEF ReadFile
    <3>5. ThreadFit(t)
      BY <1>1, <3>1, <3>3, <3>4 DEF ThreadFit, Embeds, EmbedSteps
    <3> QED
      BY <1>4, <3>4, <3>5, SameJobs, QuietStep DEF ReadFile
  <2>2. CASE Goto(t, "create")
    <3>1. ThreadFit(t)
      BY <1>4, <2>2, SameMade, GotoFit DEF ReadFile, Steps, EmbedSteps
    <3> QED
      BY <1>4, <3>1, SameMade, SameJobs, QuietStep DEF ReadFile
  <2> QED
    BY <1>4, <2>1, <2>2 DEF ReadFile
<1>5. CASE CreateEntry(t)
  <2> DEFINE step == IF l.upload = <<>> THEN "chunk" ELSE "store"
             r(d) == [l EXCEPT !.entry = d, !.text = 1, !.idx = 1, !.pc = step]
  <2>1. PICK d \in Entry : /\ FreshId(d) /\ db' = Created(d, l.user) /\ Becomes(t, r(d))
    BY <1>5 DEF CreateEntry
  <2>2. step \in EmbedSteps
    BY DEF EmbedSteps
  <2> HIDE DEF step
  <2>3. r(d).pc = step /\ r(d).entry = d /\ r(d).todo = l.todo /\ r(d).kind = l.kind
    BY <1>1 DEF Local
  <2>4. d \notin Made /\ Made' = Made \cup {d}
    BY <2>1 DEF FreshId, Created, Absent, Made, VectorInv, TypeInv, TypeOK
  <2>5. thread' = [thread EXCEPT ![t] = r(d)]
    BY <2>1 DEF Becomes
  <2> HIDE DEF r
  <2>6. thread'[t] = r(d) /\ \A s \in Thread \ {t} : thread'[s] = thread[s]
    BY <2>5 DEF VectorInv, TypeInv, TypeOK
  <2>7. Empty(d) /\ Free(t, d)
    <3>1. Empty(d) /\ \A j \in Jobs : j.entry # d
      BY <2>4 DEF VectorInv, Known
    <3>2. \A s \in Thread : ~Embeds(thread[s], d)
      BY <2>4 DEF VectorInv, Known, Embeds
    <3> QED
      BY <3>1, <3>2 DEF Free
  <2>8. UNCHANGED vectors
    BY <1>5 DEF CreateEntry
  <2>9. ThreadFit(t)
    BY <1>1, <2>3, <2>4, <2>6, <2>7, <2>8 DEF ThreadFit, Embeds, Empty
  <2> QED
    BY <1>5, <2>4, <2>8, <2>9, SameJobs, QuietStep DEF CreateEntry
<1>6. CASE StoreFile(t)
  <2>1. l.pc = "store" /\ e \in Entry /\ UNCHANGED vectors
    BY <1>1, <1>6 DEF StoreFile, At, Shaped, EntrySteps
  <2>2. Made' = Made
    BY <1>1, <1>6, <2>1, WriteMade DEF StoreFile
  <2>3. CASE Becomes(t, [l EXCEPT !.idx = l.idx + 1])
    <3> DEFINE r == [l EXCEPT !.idx = l.idx + 1]
    <3>1. /\ r.pc = l.pc /\ r.entry = e /\ r.todo = l.todo /\ r.kind = l.kind
      BY <1>1 DEF Local
    <3>2. thread' = [thread EXCEPT ![t] = r]
      BY <2>3 DEF Becomes
    <3> HIDE DEF r
    <3>3. thread'[t] = r /\ \A s \in Thread \ {t} : thread'[s] = thread[s]
      BY <3>2 DEF VectorInv, TypeInv, TypeOK
    <3>4. ThreadFit(t)
      BY <1>1, <1>2, <2>1, <2>2, <3>1, <3>3 DEF ThreadFit, Embeds, EmbedSteps
    <3> QED
      BY <1>6, <2>2, <3>4, SameJobs, QuietStep DEF StoreFile
  <2>4. CASE Becomes(t, Idle) \/ Goto(t, "chunk")
    <3>1. ThreadFit(t)
      BY <1>2, <2>1, <2>2, <2>4, GoIdleFit, GotoFit DEF Steps, EmbedSteps
    <3> QED
      BY <1>6, <2>2, <3>1, SameJobs, QuietStep DEF StoreFile
  <2> QED
    BY <1>6, <2>3, <2>4 DEF StoreFile
<1>7. CASE ReplaceChunks(t)
  <2>1. l.pc = "chunk" /\ e \in Entry /\ UNCHANGED vectors
    BY <1>1, <1>7 DEF ReplaceChunks, At, Shaped, EntrySteps
  <2>2. Made' = Made
    BY <1>1, <1>7, <2>1, WriteMade DEF ReplaceChunks
  <2>3. ThreadFit(t)
    BY <1>2, <1>7, <2>1, <2>2, GoIdleFit, GotoFit DEF ReplaceChunks, Steps, EmbedSteps
  <2> QED
    BY <1>7, <2>2, <2>3, SameJobs, QuietStep DEF ReplaceChunks
<1>8. CASE Embed(t)
  <2>1. l.pc = "embed" /\ e \in Entry /\ e \in Made /\ Empty(e)
    BY <1>1, <1>8 DEF Embed, At, Shaped, EntrySteps, VectorInv, Alone, EmbedSteps
  <2>2. PICK step \in {"score", "count"} : Goto(t, step)
    BY <1>8 DEF Embed
  <2>3. Made' = Made
    BY <1>8, SameMade DEF Embed
  <2>4. ThreadFit(t)
    BY <2>2, <2>3, GotoFit DEF Steps, EmbedSteps
  <2>5. thread'[t].pc = step
    BY <1>1, <2>2 DEF Goto, Becomes, TypeInv, TypeOK, Local
  <2>6. /\ \A d \in Entry \ {e} : vectors'[d] = vectors[d]
        /\ \A i \in ChunkId : vectors'[e][i] \in {NoVector, [text |-> l.text, owner |-> l.user]}
    BY <1>1, <1>8, <2>1 DEF Embed, VectorsAdded, Empty, TypeInv, TypeOK
  <2>7. VectorsFit(t)
    BY <2>1, <2>2, <2>5, <2>6 DEF VectorsFit, Empty, Embeds, EmbedSteps
  <2>8. NoMixedVectors'
    <3> SUFFICES ASSUME NEW d \in Entry, NEW i \in ChunkId, NEW k \in ChunkId,
                        vectors'[d][i] # NoVector, vectors'[d][k] # NoVector
                 PROVE  vectors'[d][i].text = vectors'[d][k].text
      BY DEF NoMixedVectors
    <3>1. CASE d = e
      BY <2>6, <3>1
    <3>2. CASE d # e
      BY <2>6, <3>2 DEF VectorInv, NoMixedVectors
    <3> QED
      BY <3>1, <3>2
  <2> QED
    BY <1>8, <2>3, <2>4, <2>7, <2>8, SameJobs, VectorStep DEF Embed
<1>9. CASE Score(t)
  <2>1. e \in Entry
    BY <1>1, <1>9 DEF Score, At, Shaped, EntrySteps
  <2>2. Made' = Made
    BY <1>1, <1>9, <2>1, WriteMade DEF Score
  <2>3. ThreadFit(t)
    BY <1>9, <2>2, EntryDoneFit, GotoFit DEF Score, Steps, EmbedSteps
  <2> QED
    BY <1>9, <2>2, <2>3, SameJobs, QuietStep DEF Score
<1>10. CASE UpdateCount(t)
  <2>1. e \in Entry
    BY <1>1, <1>10 DEF UpdateCount, At, Shaped, EntrySteps
  <2>2. Made' = Made
    BY <1>1, <1>10, <2>1, WriteMade DEF UpdateCount
  <2>3. ThreadFit(t)
    BY <1>10, <2>2, EntryDoneFit, GotoFit DEF UpdateCount, Steps, EmbedSteps
  <2> QED
    BY <1>10, <2>2, <2>3, SameJobs, QuietStep DEF UpdateCount
<1>11. CASE Return(t)
  <2>1. ThreadFit(t)
    BY <1>11, SameMade, GoIdleFit, GotoFit DEF Return, Steps, EmbedSteps
  <2> QED
    BY <1>11, <2>1, SameMade, SameJobs, QuietStep DEF Return
<1>12. CASE FollowUp(t)
  <2> DEFINE a == JobOf("mood", e)
             b == JobOf("extract", e)
  <2>1. e \in Entry /\ e \in Made
    BY <1>1, <1>12 DEF FollowUp, At, Shaped, EntrySteps
  <2>2. /\ a \in JobRecord /\ b \in JobRecord /\ a.entry = e /\ b.entry = e
        /\ a.kind # "reprocess" /\ b.kind # "reprocess"
    BY <2>1, JobOfTyped DEF JobKind, JobOf
  <2>3. queue' = queue \o <<a, b>>
    BY <1>12 DEF FollowUp
  <2> HIDE DEF a, b
  <2>4. Jobs' = Jobs \cup {a, b}
    <3>1. <<a, b>> \in Seq(JobRecord) /\ {<<a, b>>[i] : i \in 1..Len(<<a, b>>)} = {a, b}
      BY <2>2
    <3> QED
      BY <1>1, <2>3, <3>1, JobsGrow
  <2>5. JobsFit
    BY <2>1, <2>2, <2>4 DEF JobsFit
  <2>6. ThreadFit(t)
    BY <1>12, GoIdleFit DEF FollowUp
  <2> QED
    BY <1>12, <2>5, <2>6, SameMade, QuietStep DEF FollowUp
<1> QED
  BY <1>3, <1>4, <1>5, <1>6, <1>7, <1>8, <1>9, <1>10, <1>11, <1>12 DEF IngestStep

\* The stages of a saved text, all or some, are queued by the event loop,
\* which embeds nothing itself.
LEMMA StagesFit ==
    ASSUME TypeInv, NEW e \in Entry, e \in Made, Becomes("api", Idle),
           \/ queue' = queue \o SaveStages(e)
           \/ \E n \in 0..2 : queue' = queue \o SubSeq(SaveStages(e), 1, n)
    PROVE  JobsFit
<1>1. PICK more : /\ queue' = queue \o more
                  /\ more \in Seq(JobRecord)
                  /\ \A i \in 1..Len(more) : more[i].entry = e
  <2>1. SaveStages(e) \in Seq(JobRecord) /\ Len(SaveStages(e)) = 3
        /\ \A i \in 1..3 : SaveStages(e)[i].entry = e
    BY StagesTyped DEF SaveStages, JobOf
  <2>2. CASE queue' = queue \o SaveStages(e)
    BY <2>1, <2>2
  <2>3. CASE \E n \in 0..2 : queue' = queue \o SubSeq(SaveStages(e), 1, n)
    <3>1. PICK n \in 0..2 : queue' = queue \o SubSeq(SaveStages(e), 1, n)
      BY <2>3
    <3> DEFINE more == SubSeq(SaveStages(e), 1, n)
    <3>2. more \in Seq(JobRecord)
      BY StagesTyped
    <3>3. Len(more) = n /\ \A i \in 1..n : more[i] = SaveStages(e)[i]
      BY <2>1, SubSeqProperties
    <3> HIDE DEF more
    <3>4. \A i \in 1..Len(more) : more[i].entry = e
      BY <2>1, <3>3
    <3> QED
      BY <3>1, <3>2, <3>4 DEF more
  <2> QED
    BY <2>2, <2>3
<1>2. \A j \in Jobs' : j \in Jobs \/ j.entry = e
  <2>1. Jobs' = Jobs \cup {more[i] : i \in 1..Len(more)}
    BY <1>1, JobsGrow
  <2> QED
    BY <1>1, <2>1
<1>3. \A d \in Entry : ~Embeds(thread'["api"], d)
  BY DEF Becomes, TypeInv, TypeOK, Idle, Embeds, EmbedSteps
<1> QED
  BY <1>2, <1>3 DEF JobsFit

\* Deleting the vectors of an entry, by the event loop or by a re-embedding.
LEMMA VectorsGone ==
    ASSUME VectorInv, NEW e \in Entry, vectors' = VectorsDeleted(e)
    PROVE  /\ NoMixedVectors'
           /\ \A t \in Thread : VectorsFit(t)
           /\ \A i \in ChunkId : vectors'[e][i] = NoVector
<1>1. /\ \A d \in Entry \ {e} : vectors'[d] = vectors[d]
      /\ \A i \in ChunkId : vectors'[e][i] = NoVector
  BY DEF VectorsDeleted, VectorInv, TypeInv, TypeOK
<1>2. NoMixedVectors'
  <2> SUFFICES ASSUME NEW d \in Entry, NEW i \in ChunkId, NEW k \in ChunkId,
                      vectors'[d][i] # NoVector, vectors'[d][k] # NoVector
               PROVE  vectors'[d][i].text = vectors'[d][k].text
    BY DEF NoMixedVectors
  <2> QED
    BY <1>1 DEF VectorInv, NoMixedVectors
<1> QED
  BY <1>1, <1>2 DEF VectorsFit, Empty

LEMMA ApiVectors ==
    ASSUME VectorInv, TypeInv', ApiStep
    PROVE  VectorInv'
<1> DEFINE l == thread["api"]
           e == thread["api"].entry
<1>1. Shaped(l) /\ l \in Local /\ TypeInv /\ e \in Made \cup {NoEntry}
  BY LocalTyped DEF VectorInv, TypeInv, Known
<1>2. CASE IngestStep("api")
  BY <1>2, IngestVectors
<1>3. CASE SaveText
  <2>1. e \in Entry
    BY <1>1, <1>3 DEF SaveText, At, Shaped, EntrySteps
  <2> DEFINE new == [db[e] EXCEPT !.text = db[e].text + 1, !.count = l.count,
                                  !.stale = TRUE, !.newer = db[e].moods # 0]
  <2>2. db' = [db EXCEPT ![e] = new] /\ new.state = db[e].state
    BY <1>1, <1>3, <2>1, RowTyped DEF SaveText, TextUpdated, TypeInv, Row
  <2> HIDE DEF new
  <2>3. Made' = Made
    BY <1>1, <2>1, <2>2 DEF Made, TypeInv, TypeOK
  <2>4. ThreadFit("api")
    BY <1>3, <2>3, GotoFit DEF SaveText, Steps, EmbedSteps
  <2> QED
    BY <1>3, <2>3, <2>4, SameJobs, QuietStep DEF SaveText
<1>4. CASE SubmitStages
  <2>1. e \in Entry /\ e \in Made
    BY <1>1, <1>4 DEF SubmitStages, At, Shaped, EntrySteps
  <2>2. JobsFit
    BY <1>1, <1>4, <2>1, StagesFit DEF SubmitStages
  <2> QED
    BY <1>4, <2>2, SameMade, GoIdleFit, QuietStep DEF SubmitStages
<1>5. CASE PurgeVectors
  <2>1. e \in Entry
    BY <1>1, <1>5 DEF PurgeVectors, At, Shaped, EntrySteps
  <2>2. ThreadFit("api")
    BY <1>5, SameMade, GotoFit DEF PurgeVectors, Steps, EmbedSteps
  <2> QED
    BY <1>5, <2>1, <2>2, SameMade, SameJobs, VectorsGone, VectorStep DEF PurgeVectors
<1>6. CASE DropRow
  <2>1. e \in Entry
    BY <1>1, <1>6 DEF DropRow, At, Shaped, EntrySteps
  <2>2. Made \subseteq Made'
    BY <1>1, <1>6, <2>1 DEF DropRow, RowDeleted, Absent, Made, TypeInv, TypeOK
  <2> QED
    BY <1>6, <2>2, SameJobs, GoIdleFit, QuietStep DEF DropRow
<1> QED
  BY <1>2, <1>3, <1>4, <1>5, <1>6 DEF ApiStep

LEMMA TakeVectors ==
    ASSUME VectorInv, TypeInv', NEW w \in Workers, Take(w)
    PROVE  VectorInv'
<1> DEFINE j == Head(queue)
<1>1. TypeInv /\ j \in Jobs /\ Jobs' \subseteq Jobs
  BY JobTaken DEF VectorInv, Take
<1>2. j \in NamedJob /\ j \in JobRecord /\ j.entry \in Made \cup {NoEntry}
  BY <1>1, HeadTailProperties DEF Take, TypeInv, TypeOK, VectorInv, Known
<1>3. JobsFit /\ Made' = Made /\ UNCHANGED vectors
  BY <1>1, SameMade DEF JobsFit, Take
<1> HIDE DEF j
<1>4. CASE j.kind = "ingest"
  <2>1. j.user \in Nat /\ j.upload \in Uploads \cup {<<>>}
    BY <1>2 DEF JobRecord
  <2> DEFINE r == Ingesting("ingest", j.user, j.upload)
  <2>2. r \in Local /\ r.pc \in {"create", "check"} /\ r.entry = NoEntry /\ r.todo = {}
        /\ r.kind = "ingest"
    BY <2>1, IngestingShaped DEF Ingesting, Idle
  <2>3. Becomes(w, r)
    BY <1>4 DEF Take, j
  <2> HIDE DEF r
  <2>4. ThreadFit(w)
    BY <2>2, <2>3, StartFit DEF EmbedSteps
  <2> QED
    BY <1>3, <2>4, QuietStep
<1>5. CASE j.kind \in BatchKinds
  <2> DEFINE r == [Idle EXCEPT !.kind = j.kind, !.pc = "select"]
  <2>1. Idle \in Local /\ Idle.todo = {} /\ Idle.entry = NoEntry /\ j.kind \in JobKind
    BY <1>2, IdleTyped DEF Idle, JobRecord
  <2>2. r \in Local /\ r.pc = "select" /\ r.kind = j.kind /\ r.todo = {} /\ r.entry = NoEntry
    BY <2>1 DEF Local, Steps
  <2>3. Becomes(w, r)
    BY <1>5 DEF Take, j, BatchKinds
  <2> HIDE DEF r
  <2>4. ThreadFit(w)
    BY <1>5, <2>2, <2>3, StartFit DEF EmbedSteps, BatchKinds
  <2> QED
    BY <1>3, <2>4, QuietStep
<1>6. CASE j.kind \notin {"ingest"} \cup BatchKinds
  <2> DEFINE r == [Idle EXCEPT !.kind = j.kind, !.pc = "next",
                               !.job = j.entry, !.todo = {j.entry}]
  <2>1. Idle \in Local /\ Idle.entry = NoEntry
    BY IdleTyped DEF Idle
  <2>2. j.kind \in SingleKinds /\ j.entry \in Made /\ j.kind \in JobKind
    BY <1>2, <1>6 DEF NamedJob, JobRecord, JobKind, BatchKinds, SingleKinds
  <2>3. r.pc = "next" /\ r.kind = j.kind /\ r.todo = {j.entry} /\ r.entry = NoEntry
    BY <2>1 DEF Local
  <2>4. thread' = [thread EXCEPT ![w] = r]
    BY <1>6 DEF Take, Becomes, j
  <2> HIDE DEF r
  <2>5. thread'[w] = r /\ \A s \in Thread \ {w} : thread'[s] = thread[s]
    BY <1>1, <2>4 DEF TypeInv, TypeOK
  <2>6. ASSUME NEW e \in Entry, Embeds(r, e) PROVE Free(w, e)
    <3>1. e = j.entry /\ j.kind = "reprocess"
      BY <2>3, <2>6 DEF Embeds, EmbedSteps
    <3>2. ~Embeds(thread["api"], e)
      BY <1>1, <3>1 DEF VectorInv, Alone, j
    <3> QED
      BY <3>2 DEF Free
  <2>7. ThreadFit(w)
    BY <1>3, <2>2, <2>3, <2>5, <2>6 DEF ThreadFit, EmbedSteps
  <2> QED
    BY <1>3, <2>7, QuietStep
<1> QED
  BY <1>4, <1>5, <1>6

LEMMA ReadVectors ==
    ASSUME VectorInv, TypeInv', NEW w \in Workers, ReadEntry(w)
    PROVE  VectorInv'
<1> DEFINE l == thread[w]
<1>1. /\ Shaped(l) /\ l \in Local /\ l.pc = "next" /\ l.todo \subseteq Made
      /\ l.entry \in Made \cup {NoEntry} /\ TypeInv
  BY LocalTyped DEF VectorInv, Known, TypeInv, ReadEntry, At
<1>2. Made' = Made /\ UNCHANGED <<vectors, queue>>
  BY SameMade DEF ReadEntry
<1> SUFFICES ThreadFit(w)
  BY <1>2, SameJobs, QuietStep
<1>3. PICK e \in l.todo :
         \/ Becomes(w, Idle)
         \/ Becomes(w, [l EXCEPT !.todo = l.todo \ {e}])
         \/ Becomes(w, [l EXCEPT !.pc = FirstStep(l.kind), !.entry = e,
                                 !.text = db[e].text, !.user = DefaultUser,
                                 !.todo = l.todo \ {e}])
  BY DEF ReadEntry
<1>4. CASE Becomes(w, Idle)
  BY <1>4, GoIdleFit
<1>5. CASE Becomes(w, [l EXCEPT !.todo = l.todo \ {e}])
  <2> DEFINE r == [l EXCEPT !.todo = l.todo \ {e}]
  <2>1. r.pc = l.pc /\ r.kind = l.kind /\ r.entry = l.entry /\ r.todo = l.todo \ {e}
    BY <1>1 DEF Local
  <2>2. thread' = [thread EXCEPT ![w] = r]
    BY <1>5 DEF Becomes
  <2> HIDE DEF r
  <2>3. thread'[w] = r /\ \A s \in Thread \ {w} : thread'[s] = thread[s]
    BY <1>1, <2>2 DEF TypeInv, TypeOK
  <2> QED
    BY <1>1, <1>2, <2>1, <2>3 DEF ThreadFit, Embeds, EmbedSteps
<1>6. CASE Becomes(w, [l EXCEPT !.pc = FirstStep(l.kind), !.entry = e,
                                !.text = db[e].text, !.user = DefaultUser,
                                !.todo = l.todo \ {e}])
  <2> DEFINE step == FirstStep(l.kind)
             r == [l EXCEPT !.pc = step, !.entry = e, !.text = db[e].text,
                            !.user = DefaultUser, !.todo = l.todo \ {e}]
  <2>1. l.kind \in SingleKinds \cup BatchKinds
    BY <1>1 DEF Shaped
  <2>2. step \in {"clear", "model", "score"} /\ (step = "clear" => l.kind = "reprocess")
    BY <2>1 DEF FirstStep, SingleKinds, BatchKinds
  <2> HIDE DEF step
  <2>3. r.pc = step /\ r.kind = l.kind /\ r.entry = e /\ r.todo = l.todo \ {e}
    BY <1>1 DEF Local
  <2>4. thread' = [thread EXCEPT ![w] = r]
    BY <1>6 DEF Becomes, step
  <2> HIDE DEF r
  <2>5. thread'[w] = r /\ \A s \in Thread \ {w} : thread'[s] = thread[s]
    BY <1>1, <2>4 DEF TypeInv, TypeOK
  <2> QED
    BY <1>1, <1>2, <2>2, <2>3, <2>5 DEF ThreadFit, Embeds, EmbedSteps
<1> QED
  BY <1>3, <1>4, <1>5, <1>6

LEMMA WorkerVectors ==
    ASSUME VectorInv, TypeInv', NEW w \in Workers, WorkerStep(w)
    PROVE  VectorInv'
<1> DEFINE l == thread[w]
           e == thread[w].entry
<1>1. Shaped(l) /\ l \in Local /\ TypeInv /\ e \in Made \cup {NoEntry}
  BY LocalTyped DEF VectorInv, TypeInv, Known
<1>2. CASE IngestStep(w)
  BY <1>2, IngestVectors
<1>3. CASE Take(w)
  BY <1>3, TakeVectors
<1>4. CASE Select(w)
  <2>1. CASE Becomes(w, Idle)
    BY <1>4, <2>1, SameMade, SameJobs, GoIdleFit, QuietStep DEF Select
  <2>2. CASE Becomes(w, [l EXCEPT !.pc = "next", !.todo = Selected(l.kind)])
    <3> DEFINE r == [l EXCEPT !.pc = "next", !.todo = Selected(l.kind)]
    <3>1. Selected(l.kind) \in SUBSET Entry /\ Selected(l.kind) \subseteq Made
      BY DEF Selected, NeedsScores, Live, Made
    <3>2. l.kind \in BatchKinds
      BY <1>1, <1>4 DEF Select, At, Shaped
    <3>3. r \in Local /\ r.pc = "next" /\ r.entry = e /\ r.todo = Selected(l.kind)
          /\ r.kind = l.kind
      BY <1>1, <3>1 DEF Local, Steps
    <3>4. Becomes(w, r)
      BY <2>2
    <3> HIDE DEF r
    <3>5. ThreadFit(w)
      BY <1>1, <1>4, <3>1, <3>2, <3>3, <3>4, SameMade, StartFit
         DEF Select, BatchKinds, EmbedSteps
    <3> QED
      BY <1>4, <3>5, SameMade, SameJobs, QuietStep DEF Select
  <2> QED
    BY <1>4, <2>1, <2>2 DEF Select
<1>5. CASE ReadEntry(w)
  BY <1>5, ReadVectors
<1>6. CASE ClearVectors(w)
  <2>1. e \in Entry /\ l.pc = "clear"
    BY <1>1, <1>6 DEF ClearVectors, At, Shaped, EntrySteps
  <2>2. ThreadFit(w)
    BY <1>6, <2>1, SameMade, VectorsGone, GotoFit DEF ClearVectors, Steps, EmbedSteps
  <2> QED
    BY <1>6, <2>1, <2>2, SameMade, SameJobs, VectorsGone, VectorStep DEF ClearVectors
<1>7. CASE ModelAnswers(w)
  <2>1. e \in Entry
    BY <1>1, <1>7 DEF ModelAnswers, At, Shaped, EntrySteps
  <2>2. Made' = Made
    BY <1>1, <1>7, <2>1, WriteMade DEF ModelAnswers
  <2>3. ThreadFit(w)
    BY <1>7, <2>2, GotoFit DEF ModelAnswers, Steps, EmbedSteps
  <2> QED
    BY <1>7, <2>2, <2>3, SameJobs, QuietStep DEF ModelAnswers
<1>8. CASE WriteMentions(w)
  <2>1. e \in Entry
    BY <1>1, <1>8 DEF WriteMentions, At, Shaped, EntrySteps
  <2>2. Made' = Made
    BY <1>1, <1>8, <2>1, WriteMade DEF WriteMentions
  <2>3. ThreadFit(w)
    BY <1>8, <2>2, EntryDoneFit, GotoFit DEF WriteMentions, Steps, EmbedSteps
  <2> QED
    BY <1>8, <2>2, <2>3, SameJobs, QuietStep DEF WriteMentions
<1>9. CASE MarkExtracted(w)
  <2>1. e \in Entry
    BY <1>1, <1>9 DEF MarkExtracted, At, Shaped, EntrySteps
  <2>2. Made' = Made
    BY <1>1, <1>9, <2>1, WriteMade DEF MarkExtracted
  <2>3. ThreadFit(w)
    BY <1>9, <2>2, EntryDoneFit DEF MarkExtracted
  <2> QED
    BY <1>9, <2>2, <2>3, SameJobs, QuietStep DEF MarkExtracted
<1> QED
  BY <1>2, <1>3, <1>4, <1>5, <1>6, <1>7, <1>8, <1>9 DEF WorkerStep

LEMMA FaultVectors ==
    ASSUME VectorInv, TypeInv', Fault
    PROVE  VectorInv'
<1>1. TypeInv /\ UNCHANGED <<db, vectors>> /\ Made' = Made
  BY SameMade DEF VectorInv, Fault, CallRaises, ScorerFails, FollowUpRaises, SubmissionRaises
<1>2. ASSUME NEW t \in Thread, CallRaises(t) PROVE VectorInv'
  <2>1. CASE EntryDone(t)
    BY <1>1, <1>2, <2>1, SameJobs, EntryDoneFit, QuietStep DEF CallRaises
  <2>2. CASE Becomes(t, [Ingesting("ingest", thread[t].user, thread[t].upload)
                            EXCEPT !.attempt = thread[t].attempt + 1])
    <3> DEFINE q == Ingesting("ingest", thread[t].user, thread[t].upload)
               r == [q EXCEPT !.attempt = thread[t].attempt + 1]
    <3>1. /\ thread[t].user \in Nat /\ thread[t].upload \in Uploads \cup {<<>>}
          /\ thread[t].attempt + 1 \in Nat
      BY SMTT(30), <1>1, LocalTyped DEF TypeInv
    <3>2. q \in Local /\ q.pc \in {"create", "check"} /\ q.entry = NoEntry /\ q.todo = {}
          /\ q.kind = "ingest"
      BY ZenonT(40), <3>1, IngestingShaped DEF Ingesting, Idle
    <3>3. Becomes(t, r)
      BY <2>2
    <3> HIDE DEF q
    <3>4. r \in Local /\ r.pc \in {"create", "check"} /\ r.entry = NoEntry /\ r.todo = {}
          /\ r.kind = "ingest"
      BY <3>1, <3>2 DEF Local
    <3> HIDE DEF r
    <3>5. ThreadFit(t)
      BY <3>3, <3>4, StartFit DEF EmbedSteps
    <3> QED
      BY <1>1, <1>2, <3>5, SameJobs, QuietStep DEF CallRaises
  <2> QED
    BY <1>2, <2>1, <2>2 DEF CallRaises
<1>3. ASSUME NEW t \in Thread, ScorerFails(t) PROVE VectorInv'
  <2>1. ThreadFit(t)
    BY <1>1, <1>3, EntryDoneFit, GotoFit DEF ScorerFails, Steps, EmbedSteps
  <2> QED
    BY <1>1, <1>3, <2>1, SameJobs, QuietStep DEF ScorerFails
<1>4. ASSUME NEW t \in Thread, FollowUpRaises(t) PROVE VectorInv'
  <2>1. thread[t].entry \in Entry /\ thread[t].entry \in Made
    BY <1>1, <1>4 DEF TypeInv, FollowUpRaises, At, Shaped, EntrySteps, VectorInv, Known
  <2>2. PICK k \in {"mood", "extract"} : queue' = Append(queue, JobOf(k, thread[t].entry))
    BY <1>4 DEF FollowUpRaises
  <2>3. JobOf(k, thread[t].entry) \in JobRecord
    BY <2>1, JobOfTyped DEF JobKind
  <2>4. Jobs' = Jobs \cup {JobOf(k, thread[t].entry)}
    BY <1>1, <2>2, <2>3, JobAppended
  <2>5. JobsFit
    BY <2>1, <2>4 DEF JobsFit, JobOf
  <2> QED
    BY <1>1, <1>4, <2>5, GoIdleFit, QuietStep DEF FollowUpRaises
<1>5. CASE SubmissionRaises
  <2>1. thread["api"].entry \in Entry /\ thread["api"].entry \in Made
    BY <1>1, <1>5 DEF TypeInv, SubmissionRaises, At, Shaped, EntrySteps, VectorInv, Known
  <2>2. JobsFit
    BY <1>1, <1>5, <2>1, StagesFit DEF SubmissionRaises
  <2> QED
    BY <1>1, <1>5, <2>2, GoIdleFit, QuietStep DEF SubmissionRaises
<1> QED
  BY <1>2, <1>3, <1>4, <1>5 DEF Fault

LEMMA CrashVectors ==
    ASSUME VectorInv, TypeInv', Crash
    PROVE  VectorInv'
<1>1. UNCHANGED <<db, vectors>> /\ Jobs' = {}
  BY DEF Crash, Jobs
<1>2. \A t \in Thread : thread'[t] = Idle
  BY DEF Crash
<1>3. Known' /\ Alone'
  BY <1>1, <1>2 DEF VectorInv, Known, Alone, Idle, Embeds, EmbedSteps, Made, Empty
<1> QED
  BY <1>1, <1>3 DEF VectorInv, NoMixedVectors

LEMMA NextVectors ==
    ASSUME VectorInv, [Next]_vars
    PROVE  VectorInv'
<1>1. TypeInv'
  BY NextTyped DEF VectorInv
<1>2. CASE UNCHANGED vars
  BY <1>1, <1>2 DEF vars, VectorInv, Known, Alone, NoMixedVectors, Embeds, Empty, Made, Jobs
<1>3. CASE Next
  BY <1>1, <1>3, RequestVectors, ApiVectors, WorkerVectors, FaultVectors, CrashVectors
     DEF Next
<1> QED
  BY <1>2, <1>3

LEMMA VectorInvariant == Spec => []VectorInv
BY InitVectors, NextVectors, PTL DEF Spec

\* The vectors of an entry are of one text at a time, for any number of
\* entries, uploads, edits, raising calls and crashes.
THEOREM VectorsUnmixed == Spec => []NoMixedVectors
<1>1. VectorInv => NoMixedVectors
  BY DEF VectorInv
<1> QED
  BY <1>1, VectorInvariant, PTL


-----------------------------------------------------------------------------
(***************************************************************************)
(* When nothing has raised and all work is done, everything derived from   *)
(* an entry is of its current text.                                        *)
(***************************************************************************)

Worker == thread["worker"]

\* A job of such a kind is still to read the entry, or the event loop is about
\* to queue one or to delete the entry.
Coming(K, e) ==
    \/ \E j \in Jobs : j.kind \in K /\ j.entry = e
    \/ Worker.pc = "next" /\ Worker.kind \in K /\ Worker.todo = {e}
    \/ thread["api"].entry = e /\ thread["api"].pc \in {"submit", "purge", "drop"}

\* An ingestion of the entry that ends with jobs for its mood and entities.
Follows(l, e) ==
    /\ l.entry = e /\ l.kind \in {"text", "ingest"}
    /\ l.pc \in {"store", "chunk", "embed", "count", "return", "follow"}
Followed(e) == \E t \in Thread : Follows(thread[t], e)

\* A thread in _process_text, or on its way there.
Indexes(l, e) ==
    /\ l.entry = e
    /\ \/ l.pc \in {"clear", "store", "chunk", "embed", "count"}
       \/ l.pc = "score" /\ ScoresInline(l)

\* It works with the current text, and has done its part so far.
HalfWay(l, e) ==
    /\ l.text = db[e].text
    /\ l.pc \in {"embed", "score", "count"} => db[e].chunks = l.text
    /\ l.pc \in {"score", "count"} => Indexed(e)

InStep(e) ==
    db[e].chunks = db[e].text /\ db[e].count = Chunks[db[e].text] /\ Indexed(e)

Searched(e) ==
    \/ Coming({"reprocess"}, e)
    \/ /\ \A t \in Thread : Indexes(thread[t], e) => HalfWay(thread[t], e)
       /\ (\A t \in Thread : ~Indexes(thread[t], e)) => InStep(e)

\* The worker scores the mood of the entry, or will once it has embedded it.
Scores(l, e) ==
    /\ l.entry = e
    /\ \/ l.kind = "reprocess" /\ l.pc \in {"clear", "store", "chunk", "embed"}
       \/ l.kind \in {"mood", "backfill", "reprocess"} /\ l.pc = "score"

Rated(e) ==
    \/ Coming({"reprocess", "mood"}, e)
    \/ Followed(e)
    \/ IF Scores(Worker, e) THEN Worker.text = db[e].text ELSE db[e].moods = db[e].text

Extracts(l, e) == l.entry = e /\ l.pc \in {"model", "mention", "mark"}

Noted(e) ==
    \/ Coming({"extract"}, e)
    \/ Followed(e)
    \/ IF Extracts(Worker, e)
       THEN Worker.text = db[e].text /\ (Worker.pc = "mark" => db[e].mentions = Worker.text)
       ELSE db[e].mentions = db[e].text /\ ~db[e].stale

Asked(e) == "tool" \notin Requests => db[e].text = asked[e]

Up(e) == Searched(e) /\ Asked(e) /\ ("media" \notin Requests => Rated(e) /\ Noted(e))

\* What kind of work a thread is in, from the step it is at.
Placed(l) ==
    /\ l.pc \in {"check", "read", "create"} => l.kind \in {"text", "media", "ingest"}
    /\ l.pc = "score" => l.kind \in {"mood", "backfill", "reprocess", "media"}
    /\ l.pc = "next" => l.kind \in SingleKinds \cup BatchKinds

KindsApart ==
    /\ thread["api"].kind \notin JobKind
    /\ "media" \notin Requests => \A t \in Thread : thread[t].kind # "media"

\* No job embeds the entry that the event loop is ingesting.
Sole ==
    \A e \in Entry : Indexes(thread["api"], e) =>
        /\ ~Indexes(Worker, e)
        /\ ~(Worker.kind = "reprocess" /\ e \in Worker.todo)
        /\ \A j \in Jobs : j.kind = "reprocess" => j.entry # e

Parted == (\A t \in Thread : Placed(thread[t])) /\ KindsApart /\ Sole

UpInv ==
    /\ VectorInv /\ Parted
    /\ Undisturbed => \A e \in Entry : Live(e) => Up(e)

LEMMA IdleFields ==
    /\ Idle.pc = "idle" /\ Idle.kind = "none" /\ Idle.entry = NoEntry
    /\ Idle.todo = {} /\ Idle.job = NoEntry /\ Idle.upload = <<>>
BY DEF Idle

LEMMA InitUp == Init => UpInv
<1> SUFFICES ASSUME Init PROVE Parted /\ \A e \in Entry : ~Live(e)
  BY InitVectors DEF UpInv
<1>1. \A t \in Thread : thread[t] = Idle
  BY DEF Init
<1>2. \A e \in Entry : ~Live(e)
  BY DEF Init, Live, Absent
<1>3. Parted
  BY <1>1, IdleFields DEF Parted, Placed, KindsApart, JobKind, Sole, Indexes
<1> QED
  BY <1>2, <1>3

-----------------------------------------------------------------------------
(* What a step leaves of the local state.                                  *)

Others(t) == \A s \in Thread \ {t} : thread'[s] = thread[s]

\* On with the same work at another step.
Onward(t, step) ==
    /\ thread'[t].pc = step
    /\ thread'[t].entry = thread[t].entry /\ thread'[t].kind = thread[t].kind
    /\ thread'[t].text = thread[t].text /\ thread'[t].todo = thread[t].todo
    /\ thread'[t].upload = thread[t].upload /\ thread'[t].count = thread[t].count

LEMMA BecomesOthers ==
    ASSUME TypeInv, NEW t \in Thread, NEW r, Becomes(t, r)
    PROVE  thread'[t] = r /\ Others(t)
BY DEF Becomes, TypeInv, TypeOK, Others

LEMMA GotoOnward ==
    ASSUME TypeInv, NEW t \in Thread, NEW step, Goto(t, step)
    PROVE  Onward(t, step) /\ Others(t)
<1> DEFINE r == [thread[t] EXCEPT !.pc = step]
<1>1. /\ r.pc = step /\ r.entry = thread[t].entry /\ r.kind = thread[t].kind
      /\ r.text = thread[t].text /\ r.todo = thread[t].todo
      /\ r.upload = thread[t].upload /\ r.count = thread[t].count
  BY LocalTyped DEF Local, TypeInv
<1>2. Becomes(t, r)
  BY DEF Goto
<1> HIDE DEF r
<1> QED
  BY <1>1, <1>2, BecomesOthers DEF Onward

LEMMA IndexOnward ==
    ASSUME TypeInv, NEW t \in Thread, NEW step, NEW i,
           Becomes(t, [thread[t] EXCEPT !.pc = step, !.idx = i])
    PROVE  Onward(t, step) /\ Others(t)
<1> DEFINE r == [thread[t] EXCEPT !.pc = step, !.idx = i]
<1>1. /\ r.pc = step /\ r.entry = thread[t].entry /\ r.kind = thread[t].kind
      /\ r.text = thread[t].text /\ r.todo = thread[t].todo
      /\ r.upload = thread[t].upload /\ r.count = thread[t].count
  BY LocalTyped DEF Local, TypeInv
<1>2. Becomes(t, r)
  OBVIOUS
<1> HIDE DEF r
<1> QED
  BY <1>1, <1>2, BecomesOthers DEF Onward

LEMMA NextFile ==
    ASSUME TypeInv, NEW t \in Thread, NEW i, Becomes(t, [thread[t] EXCEPT !.idx = i])
    PROVE  Onward(t, thread[t].pc) /\ Others(t)
<1> DEFINE r == [thread[t] EXCEPT !.idx = i]
<1>1. /\ r.pc = thread[t].pc /\ r.entry = thread[t].entry /\ r.kind = thread[t].kind
      /\ r.text = thread[t].text /\ r.todo = thread[t].todo
      /\ r.upload = thread[t].upload /\ r.count = thread[t].count
  BY LocalTyped DEF Local, TypeInv
<1>2. Becomes(t, r)
  OBVIOUS
<1> HIDE DEF r
<1> QED
  BY <1>1, <1>2, BecomesOthers DEF Onward

\* Over, or on to the next entry of a batch.
Leaves(t) == thread'[t] = Idle \/ (Onward(t, "next") /\ thread[t].todo # {})

LEMMA DoneLeaves ==
    ASSUME TypeInv, NEW t \in Thread, EntryDone(t)
    PROVE  Leaves(t) /\ Others(t)
BY BecomesOthers, GotoOnward DEF EntryDone, Leaves

LEMMA IdleLeaves ==
    ASSUME TypeInv, NEW t \in Thread, Becomes(t, Idle)
    PROVE  Leaves(t) /\ Others(t)
BY BecomesOthers DEF Leaves

-----------------------------------------------------------------------------
(* The event loop and the worker do not embed the same entry.              *)

\* Thread t goes on to embed what it did before, a new entry, or the entry of
\* its job, and queues nothing for an entry of the event loop's.
Sorted(t) ==
    /\ Others(t)
    /\ Placed(thread'[t])
    /\ t = "api" => thread'[t].kind \notin JobKind
    /\ thread'[t].kind = "media" => thread[t].kind = "media" \/ "media" \in Requests
    /\ \A e \in Entry : Indexes(thread'[t], e) =>
          \/ Indexes(thread[t], e)
          \/ e \notin Made
          \/ t = "worker" /\ thread[t].kind = "reprocess" /\ e \in thread[t].todo
    /\ t = "worker" /\ thread'[t].kind = "reprocess" => \A e \in thread'[t].todo :
          \/ thread[t].kind = "reprocess" /\ e \in thread[t].todo
          \/ \E j \in Jobs : j.kind = "reprocess" /\ j.entry = e

JobsSorted ==
    \A j \in Jobs' : j.kind = "reprocess" => j \in Jobs \/ ~Indexes(thread'["api"], j.entry)

LEMMA PartedStep ==
    ASSUME VectorInv, Parted, NEW t \in Thread, Sorted(t), JobsSorted
    PROVE  Parted'
<1>1. \A s \in Thread : Placed(thread'[s])
  BY DEF Parted, Sorted, Others
<1>2. KindsApart'
  BY DEF Parted, KindsApart, Sorted, Others
<1>3. ASSUME NEW e \in Entry, Indexes(thread'["api"], e)
      PROVE  /\ ~Indexes(thread'["worker"], e)
             /\ ~(thread'["worker"].kind = "reprocess" /\ e \in thread'["worker"].todo)
             /\ \A j \in Jobs' : j.kind = "reprocess" => j.entry # e
  <2>1. ASSUME e \notin Made
        PROVE  /\ thread["api"].entry # e /\ Worker.entry # e /\ e \notin Worker.todo
               /\ \A j \in Jobs : j.entry # e
    BY <2>1 DEF VectorInv, Known, Worker
  <2>2. CASE t = "api"
    <3>1. thread'["worker"] = Worker
      BY <2>2 DEF Sorted, Others, Worker
    <3>2. Indexes(thread["api"], e) \/ e \notin Made
      BY <1>3, <2>2 DEF Sorted
    <3>3. /\ ~Indexes(Worker, e) /\ ~(Worker.kind = "reprocess" /\ e \in Worker.todo)
          /\ \A j \in Jobs : j.kind = "reprocess" => j.entry # e
      BY <2>1, <3>2 DEF Parted, Sole, Indexes
    <3> QED
      BY <1>3, <3>1, <3>3 DEF JobsSorted
  <2>3. CASE t = "worker"
    <3>1. thread'["api"] = thread["api"]
      BY <2>3 DEF Sorted, Others
    <3>2. /\ ~Indexes(Worker, e) /\ ~(Worker.kind = "reprocess" /\ e \in Worker.todo)
          /\ \A j \in Jobs : j.kind = "reprocess" => j.entry # e
      BY <1>3, <3>1 DEF Parted, Sole
    <3>3. e \in Made
      BY <1>3, <2>1, <3>1 DEF Indexes
    <3> QED
      BY <1>3, <2>3, <3>2, <3>3 DEF Sorted, JobsSorted, Worker
  <2> QED
    BY <2>2, <2>3
<1> QED
  BY <1>1, <1>2, <1>3 DEF Parted, Sole, Worker

LEMMA SortedLeaves ==
    ASSUME VectorInv, Parted, NEW t \in Thread, Leaves(t), Others(t)
    PROVE  Sorted(t)
<1>1. CASE thread'[t] = Idle
  BY <1>1, IdleFields DEF Sorted, Placed, Indexes, JobKind
<1>2. CASE Onward(t, "next") /\ thread[t].todo # {}
  <2>1. thread[t].kind \in SingleKinds \cup BatchKinds
    BY <1>2 DEF VectorInv, TypeInv, Shaped
  <2> QED
    BY <1>2, <2>1 DEF Onward, Sorted, Placed, Indexes, Parted, KindsApart
<1> QED
  BY <1>1, <1>2 DEF Leaves

LEMMA SortedOnward ==
    ASSUME VectorInv, Parted, NEW t \in Thread, NEW step, Onward(t, step), Others(t),
           step \notin {"score", "next"},
           step \in {"check", "read", "create"} => thread[t].pc \in {"check", "read"},
           step \in {"clear", "store", "chunk", "embed", "count"} =>
              \/ thread[t].pc \in {"clear", "store", "chunk", "embed"}
              \/ thread[t].pc = "score" /\ ScoresInline(thread[t])
    PROVE  Sorted(t)
BY DEF Onward, Sorted, Placed, Indexes, Parted, KindsApart

LEMMA SameJobsSorted ==
    ASSUME UNCHANGED queue
    PROVE  JobsSorted
BY DEF JobsSorted, Jobs

LEMMA FollowJobs ==
    ASSUME VectorInv, NEW t \in Thread, FollowUp(t)
    PROVE  /\ Jobs' = Jobs \cup {JobOf("mood", thread[t].entry), JobOf("extract", thread[t].entry)}
           /\ JobsSorted
<1> DEFINE a == JobOf("mood", thread[t].entry)
           b == JobOf("extract", thread[t].entry)
<1>1. thread[t].entry \in Entry
  BY DEF VectorInv, TypeInv, FollowUp, At, Shaped, EntrySteps
<1>2. a \in JobRecord /\ b \in JobRecord /\ a.kind = "mood" /\ b.kind = "extract"
  BY <1>1, JobOfTyped DEF JobKind, JobOf
<1>3. queue' = queue \o <<a, b>>
  BY DEF FollowUp
<1> HIDE DEF a, b
<1>4. <<a, b>> \in Seq(JobRecord) /\ {<<a, b>>[i] : i \in 1..Len(<<a, b>>)} = {a, b}
  BY <1>2
<1>5. Jobs' = Jobs \cup {a, b}
  BY <1>3, <1>4, JobsGrow DEF VectorInv
<1>6. JobsSorted
  BY <1>2, <1>5 DEF JobsSorted
<1> QED
  BY <1>5, <1>6 DEF a, b

LEMMA RequestParted ==
    ASSUME VectorInv, Parted, Request
    PROVE  Parted'
<1>0. TypeInv /\ thread["api"].pc = "idle"
  BY DEF VectorInv, Request, PostText, PostUpload, CallMedia, Edit, CallUpdateTool, Delete,
         PostExtract, PostBatch, Requested, At
<1>1. ASSUME UNCHANGED thread PROVE Sorted("api")
  BY <1>0, <1>1 DEF Sorted, Others, Parted, KindsApart
<1>2. ASSUME NEW r, Becomes("api", r), Placed(r), r.kind \notin JobKind,
             r.kind = "media" => "media" \in Requests,
             r.pc \in {"check", "create", "save", "purge"}, UNCHANGED queue
      PROVE  Parted'
  <2>1. thread'["api"] = r /\ Others("api")
    BY <1>0, <1>2, BecomesOthers
  <2>2. Sorted("api")
    BY <1>2, <2>1 DEF Sorted, Indexes
  <2> QED
    BY <1>2, <2>2, SameJobsSorted, PartedStep
<1>3. ASSUME NEW k \in {"text", "media"}, NEW u, NEW up, k = "media" => "media" \in Requests,
             Becomes("api", Ingesting(k, u, up)), UNCHANGED queue
      PROVE  Parted'
  <2> DEFINE r == Ingesting(k, u, up)
  <2>1. r.kind = k /\ r.pc \in {"create", "check"}
    BY DEF Ingesting, Idle
  <2>2. Becomes("api", r)
    BY <1>3
  <2> HIDE DEF r
  <2> QED
    BY <1>2, <1>3, <2>1, <2>2 DEF Placed, JobKind
<1>4. ASSUME NEW j \in JobRecord, j.kind # "reprocess", queue' = Append(queue, j),
             UNCHANGED thread
      PROVE  Parted'
  <2>1. Jobs' = Jobs \cup {j}
    BY <1>0, <1>4, JobAppended
  <2>2. JobsSorted
    BY <1>4, <2>1 DEF JobsSorted
  <2> QED
    BY <1>1, <1>4, <2>2, PartedStep
<1>5. ASSUME NEW u \in Users, PostText(u) PROVE Parted'
  BY <1>3, <1>5 DEF PostText
<1>6. ASSUME NEW u \in Users, NEW up \in Uploads, PostUpload(u, up) PROVE Parted'
  <2> DEFINE j == [JobOf("ingest", NoEntry) EXCEPT !.upload = up, !.user = u]
  <2>1. JobOf("ingest", NoEntry) \in JobRecord /\ JobOf("ingest", NoEntry).kind = "ingest"
    BY DEF JobOf, JobRecord, JobKind
  <2>2. j \in JobRecord /\ j.kind = "ingest"
    BY <2>1, UsersAssumption DEF JobRecord
  <2>3. queue' = Append(queue, j) /\ UNCHANGED thread
    BY <1>6 DEF PostUpload
  <2> HIDE DEF j
  <2> QED
    BY <1>4, <2>2, <2>3
<1>7. ASSUME NEW u \in Users, NEW up, CallMedia(u, up) PROVE Parted'
  BY <1>3, <1>7 DEF CallMedia, Requested
<1>8. ASSUME NEW e \in Entry, Edit(e) PROVE Parted'
  <2> DEFINE r == [Idle EXCEPT !.kind = "edit", !.pc = "save", !.entry = e,
                               !.count = db[e].count]
  <2>1. r.kind = "edit" /\ r.pc = "save"
    BY DEF Idle
  <2>2. Becomes("api", r) /\ UNCHANGED queue
    BY <1>8 DEF Edit
  <2> HIDE DEF r
  <2> QED
    BY <1>2, <2>1, <2>2 DEF Placed, JobKind
<1>9. ASSUME NEW e \in Entry, CallUpdateTool(e) PROVE Parted'
  BY <1>1, <1>9, SameJobsSorted, PartedStep DEF CallUpdateTool
<1>10. ASSUME NEW e \in Entry, Delete(e) PROVE Parted'
  <2> DEFINE r == [Idle EXCEPT !.kind = "delete", !.pc = "purge", !.entry = e]
  <2>1. r.kind = "delete" /\ r.pc = "purge"
    BY DEF Idle
  <2>2. Becomes("api", r) /\ UNCHANGED queue
    BY <1>10 DEF Delete
  <2> HIDE DEF r
  <2> QED
    BY <1>2, <2>1, <2>2 DEF Placed, JobKind
<1>11. ASSUME NEW e \in Entry, PostExtract(e) PROVE Parted'
  <2>1. JobOf("extract", e) \in JobRecord /\ JobOf("extract", e).kind = "extract"
    BY JobOfTyped DEF JobKind, JobOf
  <2> QED
    BY <1>4, <1>11, <2>1 DEF PostExtract
<1>12. ASSUME NEW k \in BatchKinds, PostBatch(k) PROVE Parted'
  <2>1. JobOf(k, NoEntry) \in JobRecord /\ JobOf(k, NoEntry).kind = k
    BY JobOfTyped DEF JobKind, BatchKinds, SingleKinds, JobOf
  <2> QED
    BY <1>4, <1>12, <2>1 DEF PostBatch, BatchKinds
<1> QED
  BY <1>5, <1>6, <1>7, <1>8, <1>9, <1>10, <1>11, <1>12 DEF Request

\* A new entry at the end of the uploads.
LEMMA CreatesEntry ==
    ASSUME VectorInv, NEW t \in Thread, CreateEntry(t)
    PROVE  \E d \in Entry :
              /\ FreshId(d) /\ db' = Created(d, thread[t].user) /\ d \notin Made
              /\ thread'[t].entry = d /\ thread'[t].text = 1 /\ thread'[t].pc \in {"chunk", "store"}
              /\ thread'[t].kind = thread[t].kind /\ thread'[t].todo = thread[t].todo
              /\ Others(t)
<1> DEFINE step == IF thread[t].upload = <<>> THEN "chunk" ELSE "store"
           r(d) == [thread[t] EXCEPT !.entry = d, !.text = 1, !.idx = 1, !.pc = step]
<1>1. PICK d \in Entry : /\ FreshId(d) /\ db' = Created(d, thread[t].user) /\ Becomes(t, r(d))
  BY DEF CreateEntry
<1>2. /\ r(d).entry = d /\ r(d).text = 1 /\ r(d).pc \in {"chunk", "store"}
      /\ r(d).kind = thread[t].kind /\ r(d).todo = thread[t].todo
  BY LocalTyped DEF Local, VectorInv, TypeInv
<1> HIDE DEF r
<1>3. thread'[t] = r(d) /\ Others(t)
  BY <1>1, BecomesOthers DEF VectorInv
<1>4. d \notin Made
  BY <1>1 DEF FreshId, Made
<1> QED
  BY <1>1, <1>2, <1>3, <1>4

LEMMA IngestParted ==
    ASSUME VectorInv, Parted, NEW t \in Thread, IngestStep(t)
    PROVE  Parted'
<1>0. TypeInv
  BY DEF VectorInv
<1>1. CASE CheckFile(t) \/ ReadFile(t)
  <2>1. \/ Leaves(t) /\ Others(t)
        \/ \E step \in {"check", "read", "create"} : Onward(t, step) /\ Others(t)
    BY <1>0, <1>1, IdleLeaves, GotoOnward, IndexOnward DEF CheckFile, ReadFile
  <2>2. thread[t].pc \in {"check", "read"} /\ UNCHANGED queue
    BY <1>1 DEF CheckFile, ReadFile, At
  <2> QED
    BY <2>1, <2>2, SortedLeaves, SortedOnward, SameJobsSorted, PartedStep
<1>2. CASE CreateEntry(t)
  <2>1. Sorted(t)
    BY <1>2, CreatesEntry DEF Sorted, Placed, Indexes, Parted, KindsApart
  <2> QED
    BY <1>2, <2>1, SameJobsSorted, PartedStep DEF CreateEntry
<1>3. CASE StoreFile(t) \/ ReplaceChunks(t)
  <2>1. \/ Leaves(t) /\ Others(t)
        \/ \E step \in {"store", "chunk", "embed"} : Onward(t, step) /\ Others(t)
    BY <1>0, <1>3, IdleLeaves, GotoOnward, NextFile DEF StoreFile, ReplaceChunks, At
  <2>2. thread[t].pc \in {"store", "chunk"} /\ UNCHANGED queue
    BY <1>3 DEF StoreFile, ReplaceChunks, At
  <2> QED
    BY <2>1, <2>2, SortedLeaves, SortedOnward, SameJobsSorted, PartedStep
<1>4. CASE Embed(t)
  <2>1. /\ thread[t].pc = "embed" /\ UNCHANGED queue
        /\ \/ ScoresInline(thread[t]) /\ Onward(t, "score") /\ Others(t)
           \/ Onward(t, "count") /\ Others(t)
    BY <1>0, <1>4, GotoOnward DEF Embed, At
  <2>2. CASE Onward(t, "count") /\ Others(t)
    BY <2>1, <2>2, SortedOnward, SameJobsSorted, PartedStep
  <2>3. CASE ScoresInline(thread[t]) /\ Onward(t, "score") /\ Others(t)
    <3>1. Sorted(t)
      BY <2>1, <2>3 DEF Onward, Sorted, Placed, Indexes, ScoresInline, Parted, KindsApart
    <3> QED
      BY <2>1, <3>1, SameJobsSorted, PartedStep
  <2> QED
    BY <2>1, <2>2, <2>3
<1>5. CASE Score(t)
  <2>1. /\ thread[t].pc = "score" /\ UNCHANGED queue
        /\ \/ ScoresInline(thread[t]) /\ Onward(t, "count") /\ Others(t)
           \/ Leaves(t) /\ Others(t)
    BY <1>0, <1>5, GotoOnward, DoneLeaves DEF Score, At
  <2> QED
    BY <2>1, SortedLeaves, SortedOnward, SameJobsSorted, PartedStep
<1>6. CASE UpdateCount(t) \/ Return(t)
  <2>1. \/ Leaves(t) /\ Others(t)
        \/ \E step \in {"return", "follow"} : Onward(t, step) /\ Others(t)
    BY <1>0, <1>6, IdleLeaves, DoneLeaves, GotoOnward DEF UpdateCount, Return
  <2>2. UNCHANGED queue
    BY <1>6 DEF UpdateCount, Return
  <2> QED
    BY <2>1, <2>2, SortedLeaves, SortedOnward, SameJobsSorted, PartedStep
<1>7. CASE FollowUp(t)
  <2>1. Leaves(t) /\ Others(t)
    BY <1>0, <1>7, IdleLeaves DEF FollowUp
  <2> QED
    BY <1>7, <2>1, FollowJobs, SortedLeaves, PartedStep
<1> QED
  BY <1>1, <1>2, <1>3, <1>4, <1>5, <1>6, <1>7 DEF IngestStep

\* The jobs that follow an edit.
LEMMA SubmitJobs ==
    ASSUME TypeInv, NEW e \in Entry, queue' = queue \o SaveStages(e)
    PROVE  Jobs \subseteq Jobs' /\ \A k \in {"reprocess", "extract", "mood"} : JobOf(k, e) \in Jobs'
<1> DEFINE more == SaveStages(e)
<1>1. /\ more \in Seq(JobRecord) /\ Len(more) = 3
      /\ more[1] = JobOf("reprocess", e) /\ more[2] = JobOf("extract", e)
      /\ more[3] = JobOf("mood", e)
  BY StagesTyped DEF SaveStages
<1>2. queue' = queue \o more
  OBVIOUS
<1> HIDE DEF more
<1>3. Jobs' = Jobs \cup {more[i] : i \in 1..Len(more)}
  BY <1>1, <1>2, JobsGrow
<1>4. 1 \in 1..Len(more) /\ 2 \in 1..Len(more) /\ 3 \in 1..Len(more)
  BY <1>1
<1>5. more[1] \in Jobs' /\ more[2] \in Jobs' /\ more[3] \in Jobs'
  BY <1>3, <1>4
<1> QED
  BY <1>1, <1>3, <1>5

LEMMA ApiParted ==
    ASSUME VectorInv, Parted, ApiStep
    PROVE  Parted'
<1>0. TypeInv
  BY DEF VectorInv
<1>1. CASE SaveText \/ PurgeVectors
  <2>1. /\ \E step \in {"submit", "drop"} : Onward("api", step) /\ Others("api")
        /\ UNCHANGED queue
    BY <1>0, <1>1, GotoOnward DEF SaveText, PurgeVectors
  <2> QED
    BY <2>1, SortedOnward, SameJobsSorted, PartedStep
<1>2. CASE DropRow
  BY <1>0, <1>2, IdleLeaves, SortedLeaves, SameJobsSorted, PartedStep DEF DropRow
<1>3. CASE SubmitStages
  <2>1. Leaves("api") /\ Others("api") /\ thread'["api"] = Idle
    BY <1>0, <1>3, IdleLeaves, BecomesOthers DEF SubmitStages
  <2>2. JobsSorted
    BY <2>1, IdleFields DEF JobsSorted, Indexes
  <2> QED
    BY <2>1, <2>2, SortedLeaves, PartedStep
<1> QED
  BY <1>1, <1>2, <1>3, IngestParted DEF ApiStep

-----------------------------------------------------------------------------
(* The steps of a job that start work.                                     *)

LEMMA TakesJob ==
    ASSUME VectorInv, Take("worker")
    PROVE  /\ Head(queue) \in Jobs /\ Jobs' \subseteq Jobs /\ Jobs \subseteq Jobs' \cup {Head(queue)}
           /\ Others("worker") /\ thread'["worker"].entry = NoEntry
           /\ thread'["worker"].kind = Head(queue).kind /\ Head(queue).kind \in JobKind
           /\ \/ /\ Head(queue).kind \notin SingleKinds /\ thread'["worker"].todo = {}
                 /\ \/ Head(queue).kind = "ingest" /\ thread'["worker"].pc \in {"check", "create"}
                    \/ thread'["worker"].pc = "select"
              \/ /\ Head(queue).kind \in SingleKinds /\ thread'["worker"].pc = "next"
                 /\ thread'["worker"].todo = {Head(queue).entry}
<1> DEFINE j == Head(queue)
<1>1. TypeInv /\ j \in Jobs /\ Jobs' \subseteq Jobs /\ Jobs \subseteq Jobs' \cup {j}
  BY JobTaken DEF VectorInv, Take
<1>2. j \in NamedJob /\ j \in JobRecord
  BY <1>1, HeadTailProperties DEF Take, TypeInv, TypeOK
<1>3. j.kind \in JobKind /\ Idle \in Local /\ Idle.todo = {} /\ Idle.entry = NoEntry
  BY <1>2, IdleTyped, IdleFields DEF JobRecord
<1> HIDE DEF j
<1>4. CASE j.kind = "ingest"
  <2> DEFINE r == Ingesting("ingest", j.user, j.upload)
  <2>1. r.pc \in {"create", "check"} /\ r.entry = NoEntry /\ r.todo = {} /\ r.kind = "ingest"
    BY DEF Ingesting, Idle
  <2>2. Becomes("worker", r)
    BY <1>4 DEF Take, j
  <2> HIDE DEF r
  <2>3. thread'["worker"] = r /\ Others("worker")
    BY <1>1, <2>2, BecomesOthers
  <2> QED
    BY <1>1, <1>3, <1>4, <2>1, <2>3 DEF j, SingleKinds
<1>5. CASE j.kind \in BatchKinds
  <2> DEFINE r == [Idle EXCEPT !.kind = j.kind, !.pc = "select"]
  <2>1. r.pc = "select" /\ r.kind = j.kind /\ r.todo = {} /\ r.entry = NoEntry
    BY <1>3 DEF Local
  <2>2. Becomes("worker", r)
    BY <1>5 DEF Take, j, BatchKinds
  <2> HIDE DEF r
  <2>3. thread'["worker"] = r /\ Others("worker")
    BY <1>1, <2>2, BecomesOthers
  <2> QED
    BY <1>1, <1>3, <1>5, <2>1, <2>3 DEF j, SingleKinds, BatchKinds
<1>6. CASE j.kind \notin {"ingest"} \cup BatchKinds
  <2> DEFINE r == [Idle EXCEPT !.kind = j.kind, !.pc = "next",
                               !.job = j.entry, !.todo = {j.entry}]
  <2>1. r.pc = "next" /\ r.kind = j.kind /\ r.todo = {j.entry} /\ r.entry = NoEntry
    BY <1>3 DEF Local
  <2>2. j.kind \in SingleKinds
    BY <1>3, <1>6 DEF JobKind, BatchKinds, SingleKinds
  <2>3. Becomes("worker", r)
    BY <1>6 DEF Take, j
  <2> HIDE DEF r
  <2>4. thread'["worker"] = r /\ Others("worker")
    BY <1>1, <2>3, BecomesOthers
  <2> QED
    BY <1>1, <1>3, <2>1, <2>2, <2>4 DEF j
<1> QED
  BY <1>4, <1>5, <1>6

LEMMA SelectsBatch ==
    ASSUME VectorInv, Select("worker")
    PROVE  /\ Others("worker") /\ Worker.kind \in BatchKinds
           /\ \/ thread'["worker"] = Idle
              \/ /\ thread'["worker"].pc = "next" /\ thread'["worker"].kind = Worker.kind
                 /\ thread'["worker"].entry = Worker.entry
<1> DEFINE r == [Worker EXCEPT !.pc = "next", !.todo = Selected(Worker.kind)]
<1>1. TypeInv /\ Worker.kind \in BatchKinds
  BY DEF VectorInv, TypeInv, Shaped, Select, At, Worker
<1>2. r.pc = "next" /\ r.kind = Worker.kind /\ r.entry = Worker.entry
  BY <1>1, LocalTyped DEF TypeInv, Local, Worker
<1>3. Becomes("worker", Idle) \/ Becomes("worker", r)
  BY DEF Select, Worker
<1> HIDE DEF r
<1> QED
  BY <1>1, <1>2, <1>3, BecomesOthers

LEMMA ReadsEntry ==
    ASSUME VectorInv, ReadEntry("worker")
    PROVE  /\ Others("worker") /\ Worker.kind \in SingleKinds \cup BatchKinds
           /\ \E e \in Worker.todo :
                 \/ ~Live(e) /\ thread'["worker"] = Idle
                 \/ /\ ~Live(e) /\ thread'["worker"].pc = "next"
                    /\ thread'["worker"].kind = Worker.kind
                    /\ thread'["worker"].entry = Worker.entry
                    /\ thread'["worker"].todo \subseteq Worker.todo
                 \/ /\ Live(e) /\ thread'["worker"].pc = FirstStep(Worker.kind)
                    /\ thread'["worker"].kind = Worker.kind
                    /\ thread'["worker"].entry = e /\ thread'["worker"].text = db[e].text
                    /\ thread'["worker"].todo \subseteq Worker.todo
<1> DEFINE l == thread["worker"]
           short(e) == [l EXCEPT !.todo = l.todo \ {e}]
           r(e) == [l EXCEPT !.pc = FirstStep(l.kind), !.entry = e, !.text = db[e].text,
                             !.user = DefaultUser, !.todo = l.todo \ {e}]
<1>1. TypeInv /\ l \in Local /\ l.todo \in SUBSET Entry
  BY LocalTyped DEF VectorInv, TypeInv
<1>2. PICK e \in l.todo :
         \/ ~Live(e) /\ Becomes("worker", Idle)
         \/ ~Live(e) /\ Becomes("worker", short(e))
         \/ Live(e) /\ Becomes("worker", r(e))
  BY DEF ReadEntry
<1>3. l.kind \in SingleKinds \cup BatchKinds
  BY <1>2 DEF VectorInv, TypeInv, Shaped
<1>4. /\ short(e).pc = l.pc /\ short(e).kind = l.kind /\ short(e).entry = l.entry
      /\ short(e).todo \subseteq l.todo
  BY <1>1 DEF Local
<1>5. /\ r(e).pc = FirstStep(l.kind) /\ r(e).kind = l.kind /\ r(e).entry = e
      /\ r(e).text = db[e].text /\ r(e).todo \subseteq l.todo
  BY <1>1 DEF Local
<1>6. l.pc = "next"
  BY DEF ReadEntry, At
<1> HIDE DEF short, r
<1>7. \/ Others("worker") /\ ~Live(e) /\ thread'["worker"] = Idle
      \/ Others("worker") /\ ~Live(e) /\ thread'["worker"] = short(e)
      \/ Others("worker") /\ Live(e) /\ thread'["worker"] = r(e)
  BY <1>1, <1>2, BecomesOthers
<1> QED
  BY <1>2, <1>3, <1>4, <1>5, <1>6, <1>7 DEF Worker

LEMMA FirstSteps ==
    ASSUME NEW k \in SingleKinds \cup BatchKinds
    PROVE  /\ k = "reprocess" => FirstStep(k) = "clear"
           /\ k \in {"extract", "extract_stale"} => FirstStep(k) = "model"
           /\ k \in {"mood", "backfill"} => FirstStep(k) = "score"
BY DEF FirstStep, SingleKinds, BatchKinds

LEMMA WorkerParted ==
    ASSUME VectorInv, Parted, NEW w \in Workers, WorkerStep(w)
    PROVE  Parted'
<1>0. TypeInv /\ w = "worker"
  BY DEF VectorInv
<1>1. CASE Take(w)
  <2>1. Sorted(w)
    BY <1>0, <1>1, TakesJob DEF Sorted, Placed, Indexes, JobKind, SingleKinds, BatchKinds
  <2>2. JobsSorted
    BY <1>0, <1>1, TakesJob DEF JobsSorted
  <2> QED
    BY <2>1, <2>2, PartedStep
<1>2. CASE Select(w)
  <2>1. Sorted(w)
    BY <1>0, <1>2, SelectsBatch, IdleFields DEF Sorted, Placed, Indexes, SingleKinds, BatchKinds
  <2> QED
    BY <1>2, <2>1, SameJobsSorted, PartedStep DEF Select
<1>3. CASE ReadEntry(w)
  <2>1. Sorted(w)
    BY <1>0, <1>3, ReadsEntry, FirstSteps, IdleFields
       DEF Sorted, Placed, Indexes, SingleKinds, BatchKinds, ScoresInline, Worker
  <2> QED
    BY <1>3, <2>1, SameJobsSorted, PartedStep DEF ReadEntry
<1>4. CASE ClearVectors(w)
  <2>1. Onward(w, "chunk") /\ Others(w) /\ thread[w].pc = "clear" /\ UNCHANGED queue
    BY <1>0, <1>4, GotoOnward DEF ClearVectors, At
  <2> QED
    BY <2>1, SortedOnward, SameJobsSorted, PartedStep
<1>5. CASE ModelAnswers(w) \/ WriteMentions(w) \/ MarkExtracted(w)
  <2>1. \/ Leaves(w) /\ Others(w)
        \/ \E step \in {"mention", "mark"} : Onward(w, step) /\ Others(w)
    BY <1>0, <1>5, DoneLeaves, GotoOnward DEF ModelAnswers, WriteMentions, MarkExtracted
  <2>2. UNCHANGED queue
    BY <1>5 DEF ModelAnswers, WriteMentions, MarkExtracted
  <2> QED
    BY <2>1, <2>2, SortedLeaves, SortedOnward, SameJobsSorted, PartedStep
<1> QED
  BY <1>1, <1>2, <1>3, <1>4, <1>5, IngestParted DEF WorkerStep

LEMMA FaultParted ==
    ASSUME VectorInv, Parted, Fault
    PROVE  Parted'
<1>0. TypeInv
  BY DEF VectorInv
<1>1. ASSUME NEW t \in Thread, CallRaises(t) PROVE Parted'
  <2>1. CASE EntryDone(t)
    BY <1>0, <1>1, <2>1, DoneLeaves, SortedLeaves, SameJobsSorted, PartedStep DEF CallRaises
  <2>2. CASE /\ thread[t].kind = "ingest"
             /\ Becomes(t, [Ingesting("ingest", thread[t].user, thread[t].upload)
                               EXCEPT !.attempt = thread[t].attempt + 1])
    <3> DEFINE q == Ingesting("ingest", thread[t].user, thread[t].upload)
               r == [q EXCEPT !.attempt = thread[t].attempt + 1]
    <3>1. q.pc \in {"create", "check"} /\ q.todo = {} /\ q.kind = "ingest"
      BY DEF Ingesting, Idle
    <3>2. r.pc = q.pc /\ r.todo = q.todo /\ r.kind = q.kind
      BY DEF Ingesting, Idle
    <3>3. Becomes(t, r)
      BY <2>2
    <3> HIDE DEF q, r
    <3>4. thread'[t] = r /\ Others(t)
      BY <1>0, <3>3, BecomesOthers
    <3>5. Sorted(t)
      BY <2>2, <3>1, <3>2, <3>4 DEF Sorted, Placed, Indexes, Parted, KindsApart, JobKind
    <3> QED
      BY <1>1, <3>5, SameJobsSorted, PartedStep DEF CallRaises
  <2> QED
    BY <1>1, <2>1, <2>2 DEF CallRaises
<1>2. ASSUME NEW t \in Thread, ScorerFails(t) PROVE Parted'
  <2>1. /\ thread[t].pc = "score" /\ UNCHANGED queue
        /\ \/ ScoresInline(thread[t]) /\ Onward(t, "count") /\ Others(t)
           \/ Leaves(t) /\ Others(t)
    BY <1>0, <1>2, GotoOnward, DoneLeaves DEF ScorerFails, At
  <2> QED
    BY <2>1, SortedLeaves, SortedOnward, SameJobsSorted, PartedStep
<1>3. ASSUME NEW t \in Thread, FollowUpRaises(t) PROVE Parted'
  <2>1. thread[t].entry \in Entry
    BY <1>0, <1>3 DEF TypeInv, FollowUpRaises, At, Shaped, EntrySteps
  <2>2. PICK k \in {"mood", "extract"} : queue' = Append(queue, JobOf(k, thread[t].entry))
    BY <1>3 DEF FollowUpRaises
  <2>3. /\ JobOf(k, thread[t].entry) \in JobRecord /\ JobOf(k, thread[t].entry).kind # "reprocess"
    BY <2>1, JobOfTyped DEF JobKind, JobOf
  <2>4. Jobs' = Jobs \cup {JobOf(k, thread[t].entry)}
    BY <1>0, <2>2, <2>3, JobAppended
  <2>5. JobsSorted
    BY <2>3, <2>4 DEF JobsSorted
  <2> QED
    BY <1>0, <1>3, <2>5, IdleLeaves, SortedLeaves, PartedStep DEF FollowUpRaises
<1>4. CASE SubmissionRaises
  <2>1. Leaves("api") /\ Others("api") /\ thread'["api"] = Idle
    BY <1>0, <1>4, IdleLeaves, BecomesOthers DEF SubmissionRaises
  <2>2. JobsSorted
    BY <2>1, IdleFields DEF JobsSorted, Indexes
  <2> QED
    BY <2>1, <2>2, SortedLeaves, PartedStep
<1> QED
  BY <1>1, <1>2, <1>3, <1>4 DEF Fault

LEMMA NextParted ==
    ASSUME VectorInv, Parted, [Next]_vars
    PROVE  Parted'
<1>1. CASE UNCHANGED vars
  BY <1>1 DEF vars, Parted, KindsApart, Sole, Jobs, Worker
<1>2. CASE Crash
  <2>1. Jobs' = {} /\ \A t \in Thread : thread'[t] = Idle
    BY <1>2 DEF Crash, Jobs
  <2> QED
    BY <2>1, IdleFields DEF Parted, Placed, KindsApart, JobKind, Sole, Indexes, Worker
<1> QED
  BY <1>1, <1>2, RequestParted, ApiParted, WorkerParted, FaultParted DEF Next

-----------------------------------------------------------------------------
(* What the writes leave of a row, and what keeps an entry up to date.     *)

Beside(e) == \A d \in Entry \ {e} : db'[d] = db[d]
VectorsBeside(e) == \A d \in Entry \ {e} : vectors'[d] = vectors[d]
TextKept(e) == db'[e].state = db[e].state /\ db'[e].text = db[e].text
MoodsKept(e) == db'[e].moods = db[e].moods
MentionsKept(e) == db'[e].mentions = db[e].mentions /\ db'[e].stale = db[e].stale

LEMMA ChunkedFields ==
    ASSUME TypeInv, NEW e \in Entry, NEW v, db' = Chunked(e, v)
    PROVE  /\ Beside(e) /\ TextKept(e) /\ MoodsKept(e) /\ MentionsKept(e)
           /\ db'[e].chunks = v /\ db'[e].count = db[e].count
<1> DEFINE new == [db[e] EXCEPT !.chunks = v]
<1>1. /\ new.state = db[e].state /\ new.text = db[e].text /\ new.moods = db[e].moods
      /\ new.mentions = db[e].mentions /\ new.stale = db[e].stale /\ new.chunks = v
      /\ new.count = db[e].count
  BY RowTyped DEF TypeInv, Row
<1>2. db' = [db EXCEPT ![e] = new]
  BY DEF Chunked
<1> HIDE DEF new
<1> QED
  BY <1>1, <1>2 DEF TypeInv, TypeOK, Beside, TextKept, MoodsKept, MentionsKept

LEMMA CountedFields ==
    ASSUME TypeInv, NEW e \in Entry, NEW n, db' = Counted(e, n)
    PROVE  /\ Beside(e) /\ TextKept(e) /\ MoodsKept(e) /\ MentionsKept(e)
           /\ db'[e].count = n /\ db'[e].chunks = db[e].chunks
<1> DEFINE new == [db[e] EXCEPT !.count = n]
<1>1. /\ new.state = db[e].state /\ new.text = db[e].text /\ new.moods = db[e].moods
      /\ new.mentions = db[e].mentions /\ new.stale = db[e].stale /\ new.count = n
      /\ new.chunks = db[e].chunks
  BY RowTyped DEF TypeInv, Row
<1>2. db' = [db EXCEPT ![e] = new]
  BY DEF Counted
<1> HIDE DEF new
<1> QED
  BY <1>1, <1>2 DEF TypeInv, TypeOK, Beside, TextKept, MoodsKept, MentionsKept

LEMMA StoredFields ==
    ASSUME TypeInv, NEW e \in Entry, NEW f, db' = Stored(e, f)
    PROVE  /\ Beside(e) /\ TextKept(e) /\ MoodsKept(e) /\ MentionsKept(e)
           /\ db'[e].chunks = db[e].chunks /\ db'[e].count = db[e].count
<1> DEFINE new == [db[e] EXCEPT !.files = db[e].files \cup {f}]
<1>1. /\ new.state = db[e].state /\ new.text = db[e].text /\ new.moods = db[e].moods
      /\ new.mentions = db[e].mentions /\ new.stale = db[e].stale
      /\ new.chunks = db[e].chunks /\ new.count = db[e].count
  BY RowTyped DEF TypeInv, Row
<1>2. db' = [db EXCEPT ![e] = new]
  BY DEF Stored
<1> HIDE DEF new
<1> QED
  BY <1>1, <1>2 DEF TypeInv, TypeOK, Beside, TextKept, MoodsKept, MentionsKept

LEMMA ScoredFields ==
    ASSUME TypeInv, NEW e \in Entry, NEW v, db' = Scored(e, v)
    PROVE  /\ Beside(e) /\ TextKept(e) /\ MentionsKept(e) /\ db'[e].moods = v
           /\ db'[e].chunks = db[e].chunks /\ db'[e].count = db[e].count
<1> DEFINE new == [db[e] EXCEPT !.moods = v, !.newer = FALSE]
<1>1. /\ new.state = db[e].state /\ new.text = db[e].text /\ new.moods = v
      /\ new.mentions = db[e].mentions /\ new.stale = db[e].stale
      /\ new.chunks = db[e].chunks /\ new.count = db[e].count
  BY RowTyped DEF TypeInv, Row
<1>2. db' = [db EXCEPT ![e] = new]
  BY DEF Scored
<1> HIDE DEF new
<1> QED
  BY <1>1, <1>2 DEF TypeInv, TypeOK, Beside, TextKept, MentionsKept

LEMMA MentionedFields ==
    ASSUME TypeInv, NEW e \in Entry, NEW v, db' = Mentioned(e, v)
    PROVE  /\ Beside(e) /\ TextKept(e) /\ MoodsKept(e) /\ db'[e].mentions = v
           /\ db'[e].chunks = db[e].chunks /\ db'[e].count = db[e].count
<1> DEFINE new == [db[e] EXCEPT !.mentions = v]
<1>1. /\ new.state = db[e].state /\ new.text = db[e].text /\ new.moods = db[e].moods
      /\ new.mentions = v /\ new.chunks = db[e].chunks /\ new.count = db[e].count
  BY RowTyped DEF TypeInv, Row
<1>2. db' = [db EXCEPT ![e] = new]
  BY DEF Mentioned
<1> HIDE DEF new
<1> QED
  BY <1>1, <1>2 DEF TypeInv, TypeOK, Beside, TextKept, MoodsKept

LEMMA ExtractedFields ==
    ASSUME TypeInv, NEW e \in Entry, db' = Extracted(e)
    PROVE  /\ Beside(e) /\ TextKept(e) /\ MoodsKept(e)
           /\ db'[e].mentions = db[e].mentions /\ ~db'[e].stale
           /\ db'[e].chunks = db[e].chunks /\ db'[e].count = db[e].count
<1> DEFINE new == [db[e] EXCEPT !.stale = FALSE]
<1>1. /\ new.state = db[e].state /\ new.text = db[e].text /\ new.moods = db[e].moods
      /\ new.mentions = db[e].mentions /\ new.stale = FALSE
      /\ new.chunks = db[e].chunks /\ new.count = db[e].count
  BY RowTyped DEF TypeInv, Row
<1>2. db' = [db EXCEPT ![e] = new]
  BY DEF Extracted
<1> HIDE DEF new
<1> QED
  BY <1>1, <1>2 DEF TypeInv, TypeOK, Beside, TextKept, MoodsKept

LEMMA CreatedFields ==
    ASSUME TypeInv, NEW e \in Entry, NEW u, db' = Created(e, u)
    PROVE  Beside(e) /\ db'[e].text = 1
<1> DEFINE new == [Absent EXCEPT !.state = "live", !.text = 1, !.owner = u, !.stale = TRUE]
<1>1. new.text = 1
  BY DEF Absent
<1>2. db' = [db EXCEPT ![e] = new]
  BY DEF Created
<1> HIDE DEF new
<1> QED
  BY <1>1, <1>2 DEF TypeInv, TypeOK, Beside

LEMMA TextUpdatedFields ==
    ASSUME TypeInv, NEW e \in Entry, NEW n, db' = TextUpdated(e, n)
    PROVE  Beside(e) /\ db'[e].text = db[e].text + 1
<1> DEFINE new == [db[e] EXCEPT !.text = db[e].text + 1, !.count = n, !.stale = TRUE,
                                !.newer = db[e].moods # 0]
<1>1. new.text = db[e].text + 1
  BY RowTyped DEF TypeInv, Row
<1>2. db' = [db EXCEPT ![e] = new]
  BY DEF TextUpdated
<1> HIDE DEF new
<1> QED
  BY <1>1, <1>2 DEF TypeInv, TypeOK, Beside

LEMMA RowDeletedFields ==
    ASSUME TypeInv, NEW e \in Entry, db' = RowDeleted(e)
    PROVE  Beside(e) /\ db'[e].state = "deleted"
<1> DEFINE new == [Absent EXCEPT !.state = "deleted"]
<1>1. new.state = "deleted"
  BY DEF Absent
<1>2. db' = [db EXCEPT ![e] = new]
  BY DEF RowDeleted
<1> HIDE DEF new
<1> QED
  BY <1>1, <1>2 DEF TypeInv, TypeOK, Beside

LEMMA DeletedBeside ==
    ASSUME TypeInv, NEW e \in Entry, vectors' = VectorsDeleted(e)
    PROVE  VectorsBeside(e)
BY DEF TypeInv, TypeOK, VectorsDeleted, VectorsBeside

\* Added to none, the vectors of a text are those of all its chunks.
LEMMA AddedIndex ==
    ASSUME TypeInv, NEW e \in Entry, NEW v \in Text, NEW u, Empty(e),
           vectors' = VectorsAdded(e, v, u)
    PROVE  /\ VectorsBeside(e)
           /\ \A i \in ChunkId : vectors'[e][i].text = IF i <= Chunks[v] THEN v ELSE 0
<1>1. vectors' = [vectors EXCEPT ![e] =
                    [i \in ChunkId |-> IF vectors[e][i] = NoVector /\ i <= Chunks[v]
                                       THEN [text |-> v, owner |-> u] ELSE vectors[e][i]]]
  BY DEF VectorsAdded
<1>2. VectorsBeside(e)
  BY <1>1 DEF TypeInv, TypeOK, VectorsBeside
<1>3. ASSUME NEW i \in ChunkId
      PROVE  vectors'[e][i].text = IF i <= Chunks[v] THEN v ELSE 0
  <2>1. vectors'[e][i] = IF i <= Chunks[v] THEN [text |-> v, owner |-> u] ELSE NoVector
    BY <1>1 DEF TypeInv, TypeOK, Empty
  <2> QED
    BY <2>1 DEF NoVector
<1> QED
  BY <1>2, <1>3

\* The kinds of jobs that bring vectors, moods and mentions up to date.
Waits == {{"reprocess"}, {"reprocess", "mood"}, {"extract"}}
Lasting(d) == \A K \in Waits : Coming(K, d) => Coming(K, d)'

LEMMA ComingStays ==
    ASSUME NEW t \in Thread, NEW d \in Entry, Others(t), Jobs \subseteq Jobs',
           thread[t].pc = "next" => thread[t].todo # {d},
           thread[t].pc \in {"submit", "purge", "drop"} => thread[t].entry # d
    PROVE  Lasting(d)
BY DEF Lasting, Coming, Worker, Others

LEMMA SearchedAside ==
    ASSUME NEW t \in Thread, NEW d \in Entry, Others(t), Lasting(d),
           TextKept(d), db'[d].chunks = db[d].chunks, db'[d].count = db[d].count,
           vectors'[d] = vectors[d],
           ~Indexes(thread[t], d), ~Indexes(thread'[t], d), Searched(d)
    PROVE  Searched(d)'
<1>1. CASE Coming({"reprocess"}, d)
  BY <1>1 DEF Lasting, Waits, Searched
<1>2. CASE ~Coming({"reprocess"}, d)
  <2>1. Indexed(d)' <=> Indexed(d)
    BY DEF Indexed, TextKept
  <2>2. ASSUME NEW s \in Thread, Indexes(thread'[s], d) PROVE HalfWay(thread[s], d)'
    <3>1. thread'[s] = thread[s]
      BY <2>2 DEF Others
    <3>2. HalfWay(thread[s], d)
      BY <1>2, <2>2, <3>1 DEF Searched
    <3> QED
      BY <2>1, <3>1, <3>2 DEF HalfWay, TextKept
  <2>3. ASSUME \A s \in Thread : ~Indexes(thread'[s], d) PROVE InStep(d)'
    <3>1. \A s \in Thread : ~Indexes(thread[s], d)
      BY <2>3 DEF Others
    <3>2. InStep(d)
      BY <1>2, <3>1 DEF Searched
    <3> QED
      BY <2>1, <3>2 DEF InStep, TextKept
  <2> QED
    BY <2>2, <2>3 DEF Searched
<1> QED
  BY <1>1, <1>2

\* The thread that embeds the entry goes on.
LEMMA SearchedAlong ==
    ASSUME Parted, NEW t \in Thread, NEW d \in Entry, Others(t), Lasting(d),
           Indexes(thread[t], d), Searched(d),
           HalfWay(thread[t], d) =>
              IF Indexes(thread'[t], d) THEN HalfWay(thread[t], d)' ELSE InStep(d)'
    PROVE  Searched(d)'
<1>1. CASE Coming({"reprocess"}, d)
  BY <1>1 DEF Lasting, Waits, Searched
<1>2. CASE ~Coming({"reprocess"}, d)
  <2>1. HalfWay(thread[t], d)
    BY <1>2 DEF Searched
  <2>2. \A s \in Thread \ {t} : ~Indexes(thread'[s], d)
    BY DEF Parted, Sole, Worker, Others
  <2> QED
    BY <2>1, <2>2 DEF Searched
<1> QED
  BY <1>1, <1>2

LEMMA RatedAside ==
    ASSUME NEW t \in Thread, NEW d \in Entry, Others(t), Lasting(d), TextKept(d), MoodsKept(d),
           Follows(thread[t], d) =>
              Follows(thread'[t], d) \/ Coming({"reprocess", "mood"}, d)',
           Scores(thread'[t], d) <=> Scores(thread[t], d),
           Scores(thread[t], d) => thread'[t].text = thread[t].text,
           Rated(d)
    PROVE  Rated(d)'
<1>1. CASE Coming({"reprocess", "mood"}, d)
  BY <1>1 DEF Lasting, Waits, Rated
<1>2. CASE Followed(d)
  BY <1>2 DEF Followed, Others, Rated
<1>3. CASE IF Scores(Worker, d) THEN Worker.text = db[d].text ELSE db[d].moods = db[d].text
  BY <1>3 DEF Rated, Worker, Others, TextKept, MoodsKept
<1> QED
  BY <1>1, <1>2, <1>3 DEF Rated

LEMMA NotedAside ==
    ASSUME NEW t \in Thread, NEW d \in Entry, Others(t), Lasting(d), TextKept(d), MentionsKept(d),
           Follows(thread[t], d) => Follows(thread'[t], d) \/ Coming({"extract"}, d)',
           ~Extracts(thread[t], d), ~Extracts(thread'[t], d), Noted(d)
    PROVE  Noted(d)'
<1>1. CASE Coming({"extract"}, d)
  BY <1>1 DEF Lasting, Waits, Noted
<1>2. CASE Followed(d)
  BY <1>2 DEF Followed, Others, Noted
<1>3. CASE /\ ~Coming({"extract"}, d) /\ ~Followed(d)
  <2>1. CASE t = "worker"
    BY <1>3, <2>1 DEF Noted, Worker, TextKept, MentionsKept
  <2>2. CASE t # "worker"
    <3>1. thread'["worker"] = thread["worker"]
      BY <2>2 DEF Others
    <3> QED
      BY <1>3, <3>1 DEF Noted, Worker, TextKept, MentionsKept
  <2> QED
    BY <2>1, <2>2
<1> QED
  BY <1>1, <1>2, <1>3

\* A thread that does nothing of the entry's.
Touches(l, d) == Indexes(l, d) \/ Scores(l, d) \/ Extracts(l, d) \/ Follows(l, d)

LEMMA UpAside ==
    ASSUME NEW t \in Thread, NEW d \in Entry, Others(t), Lasting(d),
           db'[d] = db[d], vectors'[d] = vectors[d], Asked(d) => Asked(d)',
           ~Touches(thread[t], d), ~Touches(thread'[t], d), Up(d)
    PROVE  Up(d)'
<1>1. TextKept(d) /\ MoodsKept(d) /\ MentionsKept(d)
  BY DEF TextKept, MoodsKept, MentionsKept
<1>2. Searched(d)'
  BY <1>1, SearchedAside DEF Touches, Up
<1>3. ASSUME "media" \notin Requests PROVE Rated(d)' /\ Noted(d)'
  BY <1>1, <1>3, RatedAside, NotedAside DEF Touches, Up
<1> QED
  BY <1>2, <1>3 DEF Up

-----------------------------------------------------------------------------
(* Ingestion and re-embedding keep every entry up to date.                 *)

UpNow == \A e \in Entry : Live(e) => Up(e)

\* A step that works on one entry is judged by what it does for that one.
LEMMA OwnUp ==
    ASSUME VectorInv, UpNow, NEW t \in Thread, NEW e, e = thread[t].entry,
           Others(t), Jobs \subseteq Jobs', \A d \in Entry \ {e} : asked'[d] = asked[d],
           thread[t].pc # "next",
           thread'[t] = Idle \/ thread'[t].entry = e, Beside(e), VectorsBeside(e),
           e \in Entry /\ Live(e)' => Up(e)'
    PROVE  UpNow'
<1> SUFFICES ASSUME NEW d \in Entry, Live(d)', d # e PROVE Up(d)'
  BY DEF UpNow
<1>1. db'[d] = db[d] /\ vectors'[d] = vectors[d]
  BY DEF Beside, VectorsBeside
<1>2. Up(d)
  BY <1>1 DEF UpNow, Live
<1>3. Lasting(d)
  BY ComingStays
<1>4. thread'[t].entry # d
  BY IdleFields
<1>5. ~Touches(thread[t], d) /\ ~Touches(thread'[t], d)
  BY <1>4 DEF Touches, Indexes, Scores, Extracts, Follows
<1>6. Asked(d) => Asked(d)'
  BY <1>1 DEF Asked
<1> QED
  BY <1>1, <1>2, <1>3, <1>5, <1>6, UpAside

\* A step that does nothing for any entry.
LEMMA AloofUp ==
    ASSUME UpNow, NEW t \in Thread, Others(t), Jobs \subseteq Jobs', UNCHANGED <<db, vectors, asked>>,
           thread[t].pc \in {"idle", "check", "read", "select"},
           thread'[t].pc \in {"idle", "check", "read", "create", "select", "next", "save", "purge"}
    PROVE  UpNow'
<1> SUFFICES ASSUME NEW d \in Entry, Live(d) PROVE Up(d)'
  BY DEF UpNow, Live
<1>1. Lasting(d)
  BY ComingStays
<1>2. ~Touches(thread[t], d) /\ ~Touches(thread'[t], d)
  BY DEF Touches, Indexes, Scores, Extracts, Follows
<1>3. Asked(d) => Asked(d)'
  BY DEF Asked
<1> QED
  BY <1>1, <1>2, <1>3, UpAside DEF UpNow

LEMMA CheckUp ==
    ASSUME VectorInv, UpNow, NEW t \in Thread, CheckFile(t) \/ ReadFile(t)
    PROVE  UpNow'
<1>1. /\ Others(t)
      /\ thread'[t].pc \in {"idle", "check", "read", "create"}
  BY BecomesOthers, GotoOnward, IndexOnward, IdleFields
     DEF CheckFile, ReadFile, VectorInv, Onward
<1> QED
  BY <1>1, AloofUp DEF CheckFile, ReadFile, At, Jobs

LEMMA CreateUp ==
    ASSUME VectorInv, Parted, UpNow, NEW t \in Thread, CreateEntry(t)
    PROVE  UpNow'
<1>1. PICK e \in Entry :
         /\ FreshId(e) /\ db' = Created(e, thread[t].user) /\ e \notin Made
         /\ thread'[t].entry = e /\ thread'[t].text = 1 /\ thread'[t].pc \in {"chunk", "store"}
         /\ thread'[t].kind = thread[t].kind /\ thread'[t].todo = thread[t].todo
         /\ Others(t)
         /\ asked' = [asked EXCEPT ![e] = 1]
  <2>1. PICK d \in Entry : FreshId(d) /\ asked' = [asked EXCEPT ![d] = 1]
    BY DEF CreateEntry
  <2>2. PICK e \in Entry :
           /\ FreshId(e) /\ db' = Created(e, thread[t].user) /\ e \notin Made
           /\ thread'[t].entry = e /\ thread'[t].text = 1 /\ thread'[t].pc \in {"chunk", "store"}
           /\ thread'[t].kind = thread[t].kind /\ thread'[t].todo = thread[t].todo
           /\ Others(t)
    BY CreatesEntry
  <2>3. d = e
    BY <2>1, <2>2, SizesAssumption DEF FreshId
  <2> QED
    BY <2>1, <2>2, <2>3
<1>2. Beside(e) /\ db'[e].text = 1 /\ asked'[e] = 1 /\ \A d \in Entry \ {e} : asked'[d] = asked[d]
  BY <1>1, CreatedFields DEF VectorInv, TypeInv, TypeOK
<1>3. thread[t].pc = "create" /\ Jobs' = Jobs /\ vectors' = vectors
  BY DEF CreateEntry, At, Jobs
<1>4. ASSUME NEW d \in Entry, Live(d)', d # e PROVE Up(d)'
  <2>1. db'[d] = db[d] /\ Up(d) /\ (Asked(d) => Asked(d)')
    BY <1>2, <1>4 DEF Beside, UpNow, Live, Asked
  <2>2. Lasting(d)
    BY <1>1, <1>3, ComingStays
  <2>3. ~Touches(thread[t], d) /\ ~Touches(thread'[t], d)
    BY <1>1, <1>3, <1>4 DEF Touches, Indexes, Scores, Extracts, Follows
  <2> QED
    BY <1>1, <1>3, <2>1, <2>2, <2>3, UpAside
<1>5. Searched(e)'
  <2>1. \A s \in Thread \ {t} : thread'[s].entry # e
    BY <1>1 DEF Others, VectorInv, Known
  <2>2. HalfWay(thread[t], e)' /\ Indexes(thread'[t], e)
    BY <1>1, <1>2 DEF HalfWay, Indexes
  <2> QED
    BY <2>1, <2>2 DEF Searched, Indexes
<1>6. ASSUME "media" \notin Requests PROVE Rated(e)' /\ Noted(e)'
  <2>1. thread[t].kind \in {"text", "ingest"}
    BY <1>3, <1>6 DEF Parted, Placed, KindsApart
  <2>2. Followed(e)'
    BY <1>1, <2>1 DEF Followed, Follows
  <2> QED
    BY <2>2 DEF Rated, Noted
<1>7. Up(e)'
  BY <1>2, <1>5, <1>6 DEF Up, Asked
<1> QED
  BY <1>4, <1>7 DEF UpNow

LEMMA StoreUp ==
    ASSUME VectorInv, Parted, UpNow, NEW t \in Thread, StoreFile(t)
    PROVE  UpNow'
<1> PICK e : e = thread[t].entry
  OBVIOUS
<1>1. e \in Entry /\ thread[t].pc = "store" /\ TypeInv /\ Jobs' = Jobs
      /\ UNCHANGED <<vectors, asked>>
  BY DEF VectorInv, TypeInv, Shaped, EntrySteps, StoreFile, At, Jobs
<1>2. CASE ~Live(e)
  <2>1. db' = db /\ thread'[t] = Idle /\ Others(t)
    BY <1>1, <1>2, BecomesOthers DEF StoreFile
  <2> QED
    BY <1>1, <1>2, <2>1, OwnUp DEF Beside, VectorsBeside, Live
<1>3. CASE Live(e)
  <2>1. /\ db' = Stored(e, thread[t].upload[thread[t].idx]) /\ Others(t)
        /\ Onward(t, "store") \/ Onward(t, "chunk")
    BY <1>1, <1>3, NextFile, GotoOnward DEF StoreFile
  <2>2. /\ Beside(e) /\ TextKept(e) /\ MoodsKept(e) /\ MentionsKept(e) /\ db'[e].chunks = db[e].chunks
    BY <1>1, <2>1, StoredFields
  <2>3. Lasting(e) /\ Up(e)
    BY <1>1, <1>3, <2>1, ComingStays DEF UpNow
  <2>4. Searched(e)'
    <3>1. Indexes(thread[t], e) /\ Indexes(thread'[t], e)
      BY <1>1, <2>1 DEF Indexes, Onward
    <3>2. HalfWay(thread[t], e) => HalfWay(thread[t], e)'
      BY <2>1, <2>2 DEF HalfWay, Onward, TextKept
    <3> QED
      BY <1>1, <2>1, <2>3, <3>1, <3>2, SearchedAlong DEF Up
  <2>5. ASSUME "media" \notin Requests PROVE Rated(e)' /\ Noted(e)'
    <3>1. /\ Follows(thread[t], e) => Follows(thread'[t], e)
          /\ Scores(thread'[t], e) <=> Scores(thread[t], e)
          /\ thread'[t].text = thread[t].text
          /\ ~Extracts(thread[t], e) /\ ~Extracts(thread'[t], e)
      BY <1>1, <2>1 DEF Follows, Scores, Extracts, Onward
    <3> QED
      BY <1>1, <2>1, <2>2, <2>3, <2>5, <3>1, RatedAside, NotedAside DEF Up
  <2>6. Up(e)'
    BY <1>1, <2>2, <2>3, <2>4, <2>5 DEF Up, Asked, TextKept
  <2> QED
    BY <1>1, <2>1, <2>2, <2>6, OwnUp DEF Onward, VectorsBeside
<1> QED
  BY <1>2, <1>3

LEMMA ChunkUp ==
    ASSUME VectorInv, Parted, UpNow, NEW t \in Thread, ReplaceChunks(t)
    PROVE  UpNow'
<1> PICK e : e = thread[t].entry
  OBVIOUS
<1>1. e \in Entry /\ thread[t].pc = "chunk" /\ TypeInv /\ Jobs' = Jobs
      /\ UNCHANGED <<vectors, asked>>
  BY DEF VectorInv, TypeInv, Shaped, EntrySteps, ReplaceChunks, At, Jobs
<1>2. CASE ~Live(e)
  <2>1. db' = db /\ thread'[t] = Idle /\ Others(t)
    BY <1>1, <1>2, BecomesOthers DEF ReplaceChunks
  <2> QED
    BY <1>1, <1>2, <2>1, OwnUp DEF Beside, VectorsBeside, Live
<1>3. CASE Live(e)
  <2>1. db' = Chunked(e, thread[t].text) /\ Others(t) /\ Onward(t, "embed")
    BY <1>1, <1>3, GotoOnward DEF ReplaceChunks
  <2>2. /\ Beside(e) /\ TextKept(e) /\ MoodsKept(e) /\ MentionsKept(e)
        /\ db'[e].chunks = thread[t].text
    BY <1>1, <2>1, ChunkedFields
  <2>3. Lasting(e) /\ Up(e)
    BY <1>1, <1>3, <2>1, ComingStays DEF UpNow
  <2>4. Searched(e)'
    <3>1. Indexes(thread[t], e) /\ Indexes(thread'[t], e)
      BY <1>1, <2>1 DEF Indexes, Onward
    <3>2. HalfWay(thread[t], e) => HalfWay(thread[t], e)'
      BY <2>1, <2>2 DEF HalfWay, Onward, TextKept
    <3> QED
      BY <1>1, <2>1, <2>3, <3>1, <3>2, SearchedAlong DEF Up
  <2>5. ASSUME "media" \notin Requests PROVE Rated(e)' /\ Noted(e)'
    <3>1. /\ Follows(thread[t], e) => Follows(thread'[t], e)
          /\ Scores(thread'[t], e) <=> Scores(thread[t], e)
          /\ thread'[t].text = thread[t].text
          /\ ~Extracts(thread[t], e) /\ ~Extracts(thread'[t], e)
      BY <1>1, <2>1 DEF Follows, Scores, Extracts, Onward
    <3> QED
      BY <1>1, <2>1, <2>2, <2>3, <2>5, <3>1, RatedAside, NotedAside DEF Up
  <2>6. Up(e)'
    BY <1>1, <2>2, <2>3, <2>4, <2>5 DEF Up, Asked, TextKept
  <2> QED
    BY <1>1, <2>1, <2>2, <2>6, OwnUp DEF Onward, VectorsBeside
<1> QED
  BY <1>2, <1>3

LEMMA EmbedUp ==
    ASSUME VectorInv, Parted, UpNow, NEW t \in Thread, Embed(t)
    PROVE  UpNow'
<1> PICK e : e = thread[t].entry
  OBVIOUS
<1>1. /\ e \in Entry /\ thread[t].pc = "embed" /\ thread[t].text \in Text /\ TypeInv
      /\ Jobs' = Jobs /\ UNCHANGED <<db, asked>> /\ Empty(e)
      /\ vectors' = VectorsAdded(e, thread[t].text, thread[t].user)
  BY DEF VectorInv, TypeInv, Shaped, EntrySteps, TextSteps, Alone, EmbedSteps, Embed, At, Jobs
<1>2. /\ Others(t)
      /\ \/ ScoresInline(thread[t]) /\ Onward(t, "score")
         \/ ~ScoresInline(thread[t]) /\ Onward(t, "count")
  BY <1>1, GotoOnward DEF Embed
<1>3. /\ VectorsBeside(e)
      /\ \A i \in ChunkId : vectors'[e][i].text =
            IF i <= Chunks[thread[t].text] THEN thread[t].text ELSE 0
  BY <1>1, AddedIndex
<1>4. ASSUME Live(e) PROVE Up(e)'
  <2>1. Lasting(e) /\ Up(e)
    BY <1>1, <1>2, <1>4, ComingStays DEF UpNow
  <2>2. Searched(e)'
    <3>1. Indexes(thread[t], e) /\ Indexes(thread'[t], e)
      BY <1>1, <1>2 DEF Indexes, Onward, ScoresInline
    <3>2. HalfWay(thread[t], e) => HalfWay(thread[t], e)'
      BY <1>1, <1>2, <1>3 DEF HalfWay, Onward, Indexed
    <3> QED
      BY <1>1, <1>2, <2>1, <3>1, <3>2, SearchedAlong DEF Up
  <2>3. ASSUME "media" \notin Requests PROVE Rated(e)' /\ Noted(e)'
    <3>1. thread[t].kind # "media"
      BY <2>3 DEF Parted, KindsApart
    <3>2. /\ Follows(thread[t], e) => Follows(thread'[t], e)
          /\ Scores(thread'[t], e) <=> Scores(thread[t], e)
          /\ thread'[t].text = thread[t].text
          /\ ~Extracts(thread[t], e) /\ ~Extracts(thread'[t], e)
      BY <1>1, <1>2, <3>1 DEF Follows, Scores, Extracts, Onward, ScoresInline
    <3>3. TextKept(e) /\ MoodsKept(e) /\ MentionsKept(e)
      BY <1>1 DEF TextKept, MoodsKept, MentionsKept
    <3> QED
      BY <1>1, <1>2, <2>1, <2>3, <3>2, <3>3, RatedAside, NotedAside DEF Up
  <2> QED
    BY <1>1, <2>1, <2>2, <2>3 DEF Up, Asked
<1> QED
  BY <1>1, <1>2, <1>3, <1>4, OwnUp DEF Onward, Beside, Live

LEMMA CountUp ==
    ASSUME VectorInv, Parted, UpNow, NEW t \in Thread, UpdateCount(t)
    PROVE  UpNow'
<1> PICK e : e = thread[t].entry
  OBVIOUS
<1>1. /\ e \in Entry /\ thread[t].pc = "count" /\ TypeInv
      /\ Jobs' = Jobs /\ UNCHANGED <<vectors, asked>>
      /\ db' = IF Live(e) THEN Counted(e, Chunks[thread[t].text]) ELSE db
  BY DEF VectorInv, TypeInv, Shaped, EntrySteps, UpdateCount, At, Jobs
<1>2. /\ Others(t)
      /\ \/ thread[t].kind = "reprocess" /\ Leaves(t)
         \/ Onward(t, "return")
  BY <1>1, DoneLeaves, GotoOnward DEF UpdateCount
<1>3. thread'[t] = Idle \/ thread'[t].entry = e
  BY <1>2 DEF Leaves, Onward
<1>4. CASE ~Live(e)
  BY <1>1, <1>2, <1>3, <1>4, OwnUp DEF Beside, VectorsBeside, Live
<1>5. CASE Live(e)
  <2>1. /\ Beside(e) /\ TextKept(e) /\ MoodsKept(e) /\ MentionsKept(e)
        /\ db'[e].chunks = db[e].chunks /\ db'[e].count = Chunks[thread[t].text]
    BY <1>1, <1>5, CountedFields
  <2>2. Lasting(e) /\ Up(e)
    BY <1>1, <1>2, <1>5, ComingStays DEF UpNow
  <2>3. Searched(e)'
    <3>1. Indexes(thread[t], e) /\ ~Indexes(thread'[t], e)
      BY <1>1, <1>2, IdleFields DEF Indexes, Onward, Leaves
    <3>2. HalfWay(thread[t], e) => InStep(e)'
      BY <1>1, <2>1 DEF HalfWay, InStep, Indexed, TextKept
    <3> QED
      BY <1>1, <1>2, <2>2, <3>1, <3>2, SearchedAlong DEF Up
  <2>4. ASSUME "media" \notin Requests PROVE Rated(e)' /\ Noted(e)'
    <3>1. /\ Follows(thread[t], e) => Follows(thread'[t], e)
          /\ ~Scores(thread'[t], e) /\ ~Scores(thread[t], e)
          /\ ~Extracts(thread[t], e) /\ ~Extracts(thread'[t], e)
      BY <1>1, <1>2, IdleFields DEF Follows, Scores, Extracts, Onward, Leaves
    <3> QED
      BY <1>1, <1>2, <2>1, <2>2, <2>4, <3>1, RatedAside, NotedAside DEF Up
  <2>5. Up(e)'
    BY <1>1, <2>1, <2>2, <2>3, <2>4 DEF Up, Asked, TextKept
  <2> QED
    BY <1>1, <1>2, <1>3, <2>1, <2>5, OwnUp DEF VectorsBeside
<1> QED
  BY <1>4, <1>5

LEMMA ScoreUp ==
    ASSUME VectorInv, Parted, UpNow, NEW t \in Thread, Score(t)
    PROVE  UpNow'
<1> PICK e : e = thread[t].entry
  OBVIOUS
<1>1. /\ e \in Entry /\ thread[t].pc = "score" /\ TypeInv
      /\ Jobs' = Jobs /\ UNCHANGED <<vectors, asked>>
  BY DEF VectorInv, TypeInv, Shaped, EntrySteps, Score, At, Jobs
<1>2. CASE ~Live(e)
  <2>1. db' = db /\ Leaves(t) /\ Others(t)
    BY <1>1, <1>2, DoneLeaves DEF Score
  <2>2. thread'[t] = Idle \/ thread'[t].entry = e
    BY <2>1 DEF Leaves, Onward
  <2> QED
    BY <1>1, <1>2, <2>1, <2>2, OwnUp DEF Beside, VectorsBeside, Live
<1>3. CASE Live(e)
  <2>1. /\ db' = Scored(e, thread[t].text) /\ Others(t)
        /\ \/ ScoresInline(thread[t]) /\ Onward(t, "count")
           \/ ~ScoresInline(thread[t]) /\ Leaves(t)
    BY <1>1, <1>3, DoneLeaves, GotoOnward DEF Score
  <2>2. thread'[t] = Idle \/ thread'[t].entry = e
    BY <2>1 DEF Leaves, Onward
  <2>3. /\ Beside(e) /\ TextKept(e) /\ MentionsKept(e) /\ db'[e].moods = thread[t].text
        /\ db'[e].chunks = db[e].chunks /\ db'[e].count = db[e].count
    BY <1>1, <2>1, ScoredFields
  <2>4. Lasting(e) /\ Up(e)
    BY <1>1, <1>3, <2>1, ComingStays DEF UpNow
  <2>5. Searched(e)'
    <3>1. CASE ScoresInline(thread[t])
      <4>1. Onward(t, "count") /\ Indexes(thread[t], e) /\ Indexes(thread'[t], e)
        BY <1>1, <2>1, <3>1 DEF Indexes, Onward
      <4>2. HalfWay(thread[t], e) => HalfWay(thread[t], e)'
        BY <1>1, <2>3, <4>1 DEF HalfWay, Onward, Indexed, TextKept
      <4> QED
        BY <1>1, <2>1, <2>4, <4>1, <4>2, SearchedAlong DEF Up
    <3>2. CASE ~ScoresInline(thread[t])
      <4>1. ~Indexes(thread[t], e) /\ ~Indexes(thread'[t], e)
        BY <1>1, <2>1, <3>2, IdleFields DEF Indexes, Onward, Leaves
      <4> QED
        BY <1>1, <2>1, <2>3, <2>4, <4>1, SearchedAside DEF Up
    <3> QED
      BY <3>1, <3>2
  <2>6. ASSUME "media" \notin Requests PROVE Rated(e)' /\ Noted(e)'
    <3>1. thread[t].kind \in {"mood", "backfill", "reprocess"}
      BY <1>1, <2>6 DEF Parted, Placed, KindsApart
    <3>2. t = "worker" /\ Scores(Worker, e)
      BY <1>1, <3>1 DEF Parted, KindsApart, JobKind, Scores, Worker
    <3>3. /\ ~Follows(thread[t], e) /\ ~Scores(thread'[t], e)
          /\ ~Extracts(thread[t], e) /\ ~Extracts(thread'[t], e)
      BY <1>1, <2>1, IdleFields DEF Follows, Scores, Extracts, Onward, Leaves
    <3>4. Noted(e)'
      BY <1>1, <2>1, <2>3, <2>4, <2>6, <3>3, NotedAside DEF Up
    <3>5. Rated(e)'
      <4>1. CASE Coming({"reprocess", "mood"}, e)
        BY <2>4, <4>1 DEF Lasting, Waits, Rated
      <4>2. CASE Followed(e)
        BY <2>1, <3>3, <4>2 DEF Followed, Others, Rated
      <4>3. CASE Worker.text = db[e].text
        BY <2>3, <3>2, <3>3, <4>3 DEF Rated, Worker, TextKept
      <4> QED
        BY <2>4, <2>6, <3>2, <4>1, <4>2, <4>3 DEF Up, Rated
    <3> QED
      BY <3>4, <3>5
  <2>7. Up(e)'
    BY <1>1, <2>3, <2>4, <2>5, <2>6 DEF Up, Asked, TextKept
  <2> QED
    BY <1>1, <2>1, <2>2, <2>3, <2>7, OwnUp DEF VectorsBeside
<1> QED
  BY <1>2, <1>3

LEMMA ReturnUp ==
    ASSUME VectorInv, Parted, UpNow, NEW t \in Thread, Return(t) \/ FollowUp(t)
    PROVE  UpNow'
<1> PICK e : e = thread[t].entry
  OBVIOUS
<1>1. /\ e \in Entry /\ thread[t].pc \in {"return", "follow"} /\ TypeInv
      /\ UNCHANGED <<db, vectors, asked>>
  BY DEF VectorInv, TypeInv, Shaped, EntrySteps, Return, FollowUp, At
<1>2. /\ Others(t)
      /\ \/ Return(t) /\ thread'[t] = Idle /\ Jobs' = Jobs /\ (~Live(e) \/ thread[t].kind = "media")
         \/ Return(t) /\ Onward(t, "follow") /\ Jobs' = Jobs
         \/ /\ FollowUp(t) /\ thread'[t] = Idle
            /\ Jobs' = Jobs \cup {JobOf("mood", e), JobOf("extract", e)}
  <2>1. CASE Return(t)
    BY <1>1, <2>1, BecomesOthers, GotoOnward DEF Return, Jobs
  <2>2. CASE FollowUp(t)
    BY <1>1, <2>2, BecomesOthers, FollowJobs DEF FollowUp
  <2> QED
    BY <2>1, <2>2
<1>3. thread'[t] = Idle \/ thread'[t].entry = e
  BY <1>2 DEF Onward
<1>4. ASSUME Live(e) PROVE Up(e)'
  <2>1. Lasting(e) /\ Up(e)
    BY <1>1, <1>2, <1>4, ComingStays DEF UpNow
  <2>2. TextKept(e) /\ MoodsKept(e) /\ MentionsKept(e)
    BY <1>1 DEF TextKept, MoodsKept, MentionsKept
  <2>3. ~Indexes(thread[t], e) /\ ~Indexes(thread'[t], e)
    BY <1>1, <1>2, IdleFields DEF Indexes, Onward
  <2>4. Searched(e)'
    BY <1>1, <1>2, <2>1, <2>2, <2>3, SearchedAside DEF Up
  <2>5. ASSUME Follows(thread[t], e)
        PROVE  \/ Follows(thread'[t], e)
               \/ Coming({"reprocess", "mood"}, e)' /\ Coming({"extract"}, e)'
    <3>1. CASE Return(t)
      <4>1. Onward(t, "follow") \/ FollowUp(t)
        BY <1>2, <1>4, <2>5 DEF Follows
      <4>2. ~FollowUp(t)
        BY <3>1 DEF Return, FollowUp, At
      <4> QED
        BY <2>5, <4>1, <4>2 DEF Follows, Onward
    <3>2. CASE FollowUp(t)
      <4>1. ~Return(t)
        BY <3>2 DEF Return, FollowUp, At
      <4>2. JobOf("mood", e) \in Jobs' /\ JobOf("extract", e) \in Jobs'
        BY <1>2, <4>1
      <4>3. /\ JobOf("mood", e).kind = "mood" /\ JobOf("mood", e).entry = e
            /\ JobOf("extract", e).kind = "extract" /\ JobOf("extract", e).entry = e
        BY DEF JobOf
      <4> QED
        BY <4>2, <4>3 DEF Coming
    <3> QED
      BY <1>2, <3>1, <3>2
  <2>6. ASSUME "media" \notin Requests PROVE Rated(e)' /\ Noted(e)'
    <3>1. /\ ~Scores(thread'[t], e) /\ ~Scores(thread[t], e)
          /\ ~Extracts(thread[t], e) /\ ~Extracts(thread'[t], e)
      BY <1>1, <1>2, IdleFields DEF Scores, Extracts, Onward
    <3> QED
      BY <1>1, <1>2, <2>1, <2>2, <2>5, <2>6, <3>1, RatedAside, NotedAside DEF Up
  <2> QED
    BY <1>1, <2>1, <2>4, <2>6 DEF Up, Asked
<1>5. Jobs \subseteq Jobs'
  BY <1>2
<1> QED
  BY <1>1, <1>2, <1>3, <1>4, <1>5, OwnUp DEF Beside, VectorsBeside, Live

LEMMA IngestUp ==
    ASSUME VectorInv, Parted, UpNow, NEW t \in Thread, IngestStep(t)
    PROVE  UpNow'
BY CheckUp, CreateUp, StoreUp, ChunkUp, EmbedUp, CountUp, ScoreUp, ReturnUp DEF IngestStep

-----------------------------------------------------------------------------
(* So do the event loop's handlers.                                        *)

LEMMA RequestUp ==
    ASSUME VectorInv, UpNow, Request
    PROVE  UpNow'
<1>0. TypeInv /\ thread["api"].pc = "idle" /\ "api" \in Thread
  BY DEF VectorInv, Request, PostText, PostUpload, CallMedia, Edit, CallUpdateTool, Delete,
         PostExtract, PostBatch, Requested, At
<1>1. ASSUME NEW r, Becomes("api", r), r.pc \in {"check", "create", "save", "purge"},
             UNCHANGED <<db, vectors, queue, asked>>
      PROVE  UpNow'
  <2>1. thread'["api"] = r /\ Others("api") /\ Jobs' = Jobs
    BY <1>0, <1>1, BecomesOthers DEF Jobs
  <2> QED
    BY <1>0, <1>1, <2>1, AloofUp
<1>2. ASSUME NEW j \in JobRecord, queue' = Append(queue, j),
             UNCHANGED <<db, vectors, thread, asked>>
      PROVE  UpNow'
  <2>1. Jobs' = Jobs \cup {j} /\ Others("api")
    BY <1>0, <1>2, JobAppended DEF Others
  <2> QED
    BY <1>0, <1>2, <2>1, AloofUp
<1>3. ASSUME NEW k, NEW u, NEW up, Becomes("api", Ingesting(k, u, up)),
             UNCHANGED <<db, vectors, queue, asked>>
      PROVE  UpNow'
  <2>1. Ingesting(k, u, up).pc \in {"create", "check"}
    BY DEF Ingesting, Idle
  <2> QED
    BY <1>1, <1>3, <2>1
<1>4. ASSUME NEW u \in Users, PostText(u) PROVE UpNow'
  BY <1>3, <1>4 DEF PostText
<1>5. ASSUME NEW u \in Users, NEW up \in Uploads, PostUpload(u, up) PROVE UpNow'
  <2>1. JobOf("ingest", NoEntry) \in JobRecord
    BY DEF JobOf, JobRecord, JobKind
  <2>2. [JobOf("ingest", NoEntry) EXCEPT !.upload = up, !.user = u] \in JobRecord
    BY <2>1, UsersAssumption DEF JobRecord
  <2> QED
    BY <1>2, <1>5, <2>2 DEF PostUpload
<1>6. ASSUME NEW u \in Users, NEW up, CallMedia(u, up) PROVE UpNow'
  BY <1>3, <1>6 DEF CallMedia
<1>7. ASSUME NEW e \in Entry, Edit(e) PROVE UpNow'
  <2>1. [Idle EXCEPT !.kind = "edit", !.pc = "save", !.entry = e, !.count = db[e].count].pc = "save"
    BY DEF Idle
  <2> QED
    BY <1>1, <1>7, <2>1 DEF Edit
<1>8. ASSUME NEW e \in Entry, CallUpdateTool(e) PROVE UpNow'
  <2> SUFFICES ASSUME NEW d \in Entry, Live(d) PROVE Up(d)'
    BY <1>8 DEF CallUpdateTool, UpNow, Live
  <2>1. /\ Others("api") /\ Jobs' = Jobs /\ thread' = thread /\ UNCHANGED <<db, vectors>>
        /\ "tool" \in Requests
    BY <1>8 DEF CallUpdateTool, Requested, Others, Jobs
  <2>2. Lasting(d)
    BY <1>0, <2>1, ComingStays
  <2>3. ~Touches(thread["api"], d) /\ Asked(d)'
    BY <1>0, <2>1 DEF Touches, Indexes, Scores, Extracts, Follows, Asked
  <2> QED
    BY <1>0, <2>1, <2>2, <2>3, UpAside DEF UpNow
<1>9. ASSUME NEW e \in Entry, Delete(e) PROVE UpNow'
  <2>1. [Idle EXCEPT !.kind = "delete", !.pc = "purge", !.entry = e].pc = "purge"
    BY DEF Idle
  <2> QED
    BY <1>1, <1>9, <2>1 DEF Delete
<1>10. ASSUME NEW e \in Entry, PostExtract(e) PROVE UpNow'
  BY <1>2, <1>10, JobOfTyped DEF PostExtract, JobKind
<1>11. ASSUME NEW k \in BatchKinds, PostBatch(k) PROVE UpNow'
  <2>1. JobOf(k, NoEntry) \in JobRecord
    BY JobOfTyped DEF JobKind, BatchKinds, SingleKinds
  <2> QED
    BY <1>2, <1>11, <2>1 DEF PostBatch
<1> QED
  BY <1>4, <1>5, <1>6, <1>7, <1>8, <1>9, <1>10, <1>11 DEF Request

\* All three kinds of work are still to come.
LEMMA ComingUp ==
    ASSUME NEW d, Asked(d)', \A K \in Waits : Coming(K, d)'
    PROVE  Up(d)'
BY DEF Up, Waits, Searched, Rated, Noted

LEMMA ApiUp ==
    ASSUME VectorInv, Parted, UpNow, ApiStep
    PROVE  UpNow'
<1> PICK e : e = thread["api"].entry
  OBVIOUS
<1>1. CASE SaveText
  <2>1. /\ TypeInv /\ e \in Entry /\ Live(e) /\ thread["api"].pc = "save"
        /\ Jobs' = Jobs /\ vectors' = vectors
    BY <1>1 DEF VectorInv, TypeInv, Shaped, EntrySteps, SaveReady, SaveText, At, Jobs
  <2>2. Onward("api", "submit") /\ Others("api")
    BY <1>1, <2>1, GotoOnward DEF SaveText
  <2>3. Beside(e) /\ db'[e].text = db[e].text + 1
    BY <1>1, <2>1, TextUpdatedFields DEF SaveText
  <2>4. asked'[e] = db[e].text + 1 /\ \A d \in Entry \ {e} : asked'[d] = asked[d]
    BY <1>1, <2>1 DEF SaveText, TypeInv, TypeOK
  <2>5. \A K \in Waits : Coming(K, e)'
    BY <2>2 DEF Coming, Onward
  <2>6. Up(e)'
    BY <2>3, <2>4, <2>5, ComingUp DEF Asked
  <2> QED
    BY <2>1, <2>2, <2>3, <2>4, <2>6, OwnUp DEF Onward, VectorsBeside
<1>2. CASE SubmitStages
  <2>1. /\ TypeInv /\ e \in Entry /\ thread["api"].pc = "submit"
        /\ UNCHANGED <<db, vectors, asked>>
    BY <1>2 DEF VectorInv, TypeInv, Shaped, EntrySteps, SubmitStages, At
  <2>2. thread'["api"] = Idle /\ Others("api")
    BY <1>2, <2>1, BecomesOthers DEF SubmitStages
  <2>3. Jobs \subseteq Jobs' /\ \A k \in {"reprocess", "extract", "mood"} : JobOf(k, e) \in Jobs'
    BY <1>2, <2>1, SubmitJobs DEF SubmitStages
  <2>4. \A K \in Waits : Coming(K, e)'
    <3>1. /\ JobOf("reprocess", e).kind = "reprocess" /\ JobOf("reprocess", e).entry = e
          /\ JobOf("extract", e).kind = "extract" /\ JobOf("extract", e).entry = e
      BY DEF JobOf
    <3> QED
      BY <2>3, <3>1 DEF Waits, Coming
  <2>5. ASSUME Live(e) PROVE Up(e)'
    BY <2>1, <2>4, <2>5, ComingUp DEF UpNow, Up, Asked
  <2> QED
    BY <2>1, <2>2, <2>3, <2>5, OwnUp DEF Beside, VectorsBeside, Live
<1>3. CASE PurgeVectors
  <2>1. /\ TypeInv /\ e \in Entry /\ thread["api"].pc = "purge" /\ Jobs' = Jobs
        /\ UNCHANGED <<db, asked>>
    BY <1>3 DEF VectorInv, TypeInv, Shaped, EntrySteps, PurgeVectors, At, Jobs
  <2>2. Onward("api", "drop") /\ Others("api")
    BY <1>3, <2>1, GotoOnward DEF PurgeVectors
  <2>3. VectorsBeside(e)
    BY <1>3, <2>1, DeletedBeside DEF PurgeVectors
  <2>4. \A K \in Waits : Coming(K, e)'
    BY <2>2 DEF Coming, Onward
  <2>5. ASSUME Live(e) PROVE Up(e)'
    BY <2>1, <2>4, <2>5, ComingUp DEF UpNow, Up, Asked
  <2> QED
    BY <2>1, <2>2, <2>3, <2>5, OwnUp DEF Beside, Onward, Live
<1>4. CASE DropRow
  <2>1. /\ TypeInv /\ e \in Entry /\ thread["api"].pc = "drop" /\ Jobs' = Jobs
        /\ vectors' = vectors
    BY <1>4 DEF VectorInv, TypeInv, Shaped, EntrySteps, DropRow, At, Jobs
  <2>2. thread'["api"] = Idle /\ Others("api")
    BY <1>4, <2>1, BecomesOthers DEF DropRow
  <2>3. Beside(e) /\ ~Live(e)'
    BY <1>4, <2>1, RowDeletedFields DEF DropRow, Live
  <2>4. \A d \in Entry \ {e} : asked'[d] = asked[d]
    BY <1>4, <2>1 DEF DropRow, TypeInv, TypeOK
  <2> QED
    BY <2>1, <2>2, <2>3, <2>4, OwnUp DEF VectorsBeside
<1> QED
  BY <1>1, <1>2, <1>3, <1>4, IngestUp DEF ApiStep

-----------------------------------------------------------------------------
(* And the worker.                                                         *)

LEMMA TakeUp ==
    ASSUME VectorInv, UpNow, Take("worker")
    PROVE  UpNow'
<1> SUFFICES ASSUME NEW d \in Entry, Live(d) PROVE Up(d)'
  BY DEF Take, UpNow, Live
<1>1. Worker.pc = "idle" /\ UNCHANGED <<db, vectors, asked>> /\ Others("worker")
  BY TakesJob DEF Take, At, Worker
<1>2. ASSUME NEW K \in Waits, Coming(K, d) PROVE Coming(K, d)'
  <2>1. CASE thread["api"].entry = d /\ thread["api"].pc \in {"submit", "purge", "drop"}
    BY <1>1, <2>1 DEF Others, Coming
  <2>2. CASE \E j \in Jobs : j.kind \in K /\ j.entry = d
    <3>1. PICK j \in Jobs : j.kind \in K /\ j.entry = d
      BY <2>2
    <3>2. CASE j \in Jobs'
      BY <3>1, <3>2 DEF Coming
    <3>3. CASE j = Head(queue)
      <4>1. j.kind \in SingleKinds
        BY <3>1 DEF Waits, SingleKinds
      <4>2. /\ thread'["worker"].pc = "next" /\ thread'["worker"].kind = j.kind
            /\ thread'["worker"].todo = {d}
        BY <3>1, <3>3, <4>1, TakesJob
      <4> QED
        BY <3>1, <4>2 DEF Coming, Worker
    <3> QED
      BY <3>1, <3>2, <3>3, TakesJob
  <2> QED
    BY <1>1, <1>2, <2>1, <2>2 DEF Coming
<1>3. ~Touches(thread["worker"], d) /\ ~Touches(thread'["worker"], d)
  <2>1. thread'["worker"].pc \in {"check", "create", "select", "next"}
    BY TakesJob
  <2> QED
    BY <1>1, <2>1 DEF Touches, Indexes, Scores, Extracts, Follows, Worker
<1> QED
  BY <1>1, <1>2, <1>3, UpAside DEF UpNow, Lasting, Asked

LEMMA ReadUp ==
    ASSUME VectorInv, Parted, UpNow, ReadEntry("worker")
    PROVE  UpNow'
<1> SUFFICES ASSUME NEW d \in Entry, Live(d) PROVE Up(d)'
  BY DEF ReadEntry, UpNow, Live
<1>1. /\ Worker.pc = "next" /\ UNCHANGED <<db, vectors, asked>> /\ Others("worker")
      /\ Worker.kind \in SingleKinds \cup BatchKinds /\ Jobs' = Jobs
      /\ TextKept(d) /\ MoodsKept(d) /\ MentionsKept(d)
  BY ReadsEntry DEF ReadEntry, At, Worker, Jobs, TextKept, MoodsKept, MentionsKept
<1>2. PICK e \in Worker.todo :
         \/ ~Live(e) /\ thread'["worker"] = Idle
         \/ /\ ~Live(e) /\ thread'["worker"].pc = "next"
            /\ thread'["worker"].entry = Worker.entry
         \/ /\ Live(e) /\ thread'["worker"].pc = FirstStep(Worker.kind)
            /\ thread'["worker"].kind = Worker.kind
            /\ thread'["worker"].entry = e /\ thread'["worker"].text = db[e].text
  BY ReadsEntry
<1>3. ~Touches(thread["worker"], d)
  BY <1>1 DEF Touches, Indexes, Scores, Extracts, Follows, Worker
<1>4. CASE e # d
  <2>1. Lasting(d)
    BY <1>1, <1>2, <1>4, ComingStays DEF Worker
  <2>2. ~Touches(thread'["worker"], d)
    BY <1>2, <1>4, IdleFields DEF Touches, Indexes, Scores, Extracts, Follows
  <2> QED
    BY <1>1, <1>3, <2>1, <2>2, UpAside DEF UpNow, Asked
<1>5. CASE e = d
  <2>1. /\ thread'["worker"].pc = FirstStep(Worker.kind) /\ thread'["worker"].kind = Worker.kind
        /\ thread'["worker"].entry = d /\ thread'["worker"].text = db[d].text
    BY <1>2, <1>5
  <2>2. Up(d) /\ Asked(d)'
    BY <1>1 DEF UpNow, Up, Asked
  <2>3. ASSUME NEW K, Worker.kind \notin K, Coming(K, d) PROVE Coming(K, d)'
    BY <1>1, <2>3 DEF Coming, Others
  <2>4. Searched(d)'
    <3>1. CASE Worker.kind = "reprocess"
      <4>1. thread'["worker"].pc = "clear"
        BY <1>1, <2>1, <3>1, FirstSteps
      <4>2. ~Indexes(thread'["api"], d)
        BY <1>1, <1>5, <3>1 DEF Parted, Sole, Others
      <4>3. Indexes(thread'["worker"], d) /\ HalfWay(thread["worker"], d)'
        BY <1>1, <2>1, <4>1 DEF Indexes, HalfWay
      <4> QED
        BY <4>2, <4>3 DEF Searched
    <3>2. CASE Worker.kind # "reprocess"
      <4>1. thread'["worker"].pc \in {"model", "score"} /\ Worker.kind # "media"
        BY <1>1, <2>1, <3>2, FirstSteps DEF SingleKinds, BatchKinds
      <4>2. ~Indexes(thread["worker"], d) /\ ~Indexes(thread'["worker"], d)
        BY <1>3, <2>1, <3>2, <4>1 DEF Touches, Indexes, ScoresInline
      <4>3. CASE Coming({"reprocess"}, d)
        BY <2>3, <3>2, <4>3 DEF Searched
      <4>4. CASE ~Coming({"reprocess"}, d)
        <5>1. ASSUME NEW s \in Thread, Indexes(thread'[s], d) PROVE HalfWay(thread[s], d)'
          <6>1. thread'[s] = thread[s]
            BY <1>1, <4>2, <5>1 DEF Others
          <6>2. HalfWay(thread[s], d)
            BY <2>2, <4>4, <5>1, <6>1 DEF Up, Searched
          <6> QED
            BY <1>1, <6>1, <6>2 DEF HalfWay, Indexed
        <5>2. ASSUME \A s \in Thread : ~Indexes(thread'[s], d) PROVE InStep(d)'
          <6>1. \A s \in Thread : ~Indexes(thread[s], d)
            BY <1>1, <4>2, <5>2 DEF Others
          <6> QED
            BY <1>1, <2>2, <4>4, <6>1 DEF Up, Searched, InStep, Indexed
        <5> QED
          BY <5>1, <5>2 DEF Searched
      <4> QED
        BY <4>3, <4>4
    <3> QED
      BY <3>1, <3>2
  <2>5. Followed(d) => Followed(d)'
    BY <1>1, <1>3 DEF Followed, Others, Touches
  <2>6. ASSUME "media" \notin Requests PROVE Rated(d)'
    <3>1. CASE Worker.kind \in {"reprocess", "mood", "backfill"}
      <4>1. /\ Worker.kind = "reprocess" => thread'["worker"].pc = "clear"
            /\ Worker.kind \in {"mood", "backfill"} => thread'["worker"].pc = "score"
        BY <1>1, <2>1, <3>1, FirstSteps
      <4>2. Scores(thread'["worker"], d)
        BY <2>1, <3>1, <4>1 DEF Scores
      <4> QED
        BY <1>1, <2>1, <4>2 DEF Rated, Worker
    <3>2. CASE Worker.kind \notin {"reprocess", "mood", "backfill"}
      <4>1. ~Scores(thread'["worker"], d) /\ ~Scores(thread["worker"], d)
        BY <1>3, <2>1, <3>2 DEF Scores, Touches
      <4>2. Coming({"reprocess", "mood"}, d) => Coming({"reprocess", "mood"}, d)'
        BY <2>3, <3>2
      <4> QED
        BY <1>1, <2>2, <2>5, <2>6, <4>1, <4>2 DEF Up, Rated, Worker
    <3> QED
      BY <3>1, <3>2
  <2>7. ASSUME "media" \notin Requests PROVE Noted(d)'
    <3>1. CASE Worker.kind \in {"extract", "extract_stale"}
      <4>1. thread'["worker"].pc = "model"
        BY <1>1, <2>1, <3>1, FirstSteps
      <4>2. Extracts(thread'["worker"], d)
        BY <2>1, <4>1 DEF Extracts
      <4> QED
        BY <1>1, <2>1, <4>1, <4>2 DEF Noted, Worker
    <3>2. CASE Worker.kind \notin {"extract", "extract_stale"}
      <4>1. thread'["worker"].pc \in {"clear", "score"}
        BY <1>1, <2>1, <3>2, FirstSteps DEF SingleKinds, BatchKinds
      <4>2. ~Extracts(thread'["worker"], d) /\ ~Extracts(thread["worker"], d)
        BY <1>3, <4>1 DEF Extracts, Touches
      <4>3. Coming({"extract"}, d) => Coming({"extract"}, d)'
        BY <2>3, <3>2
      <4> QED
        BY <1>1, <2>2, <2>5, <2>7, <4>2, <4>3 DEF Up, Noted, Worker
    <3> QED
      BY <3>1, <3>2
  <2> QED
    BY <2>2, <2>4, <2>6, <2>7 DEF Up
<1> QED
  BY <1>4, <1>5

LEMMA ClearUp ==
    ASSUME VectorInv, Parted, UpNow, ClearVectors("worker")
    PROVE  UpNow'
<1> PICK e : e = thread["worker"].entry
  OBVIOUS
<1>1. /\ TypeInv /\ e \in Entry /\ thread["worker"].pc = "clear" /\ Jobs' = Jobs
      /\ UNCHANGED <<db, asked>>
  BY DEF VectorInv, TypeInv, Shaped, EntrySteps, ClearVectors, At, Jobs
<1>2. Onward("worker", "chunk") /\ Others("worker")
  BY <1>1, GotoOnward DEF ClearVectors
<1>3. VectorsBeside(e)
  BY <1>1, DeletedBeside DEF ClearVectors
<1>4. ASSUME Live(e) PROVE Up(e)'
  <2>1. Up(e) /\ Asked(e)' /\ Lasting(e)
    BY <1>1, <1>2, <1>4, ComingStays DEF UpNow, Up, Asked
  <2>2. TextKept(e) /\ MoodsKept(e) /\ MentionsKept(e)
    BY <1>1 DEF TextKept, MoodsKept, MentionsKept
  <2>3. Indexes(thread["worker"], e) /\ Indexes(thread'["worker"], e)
    BY <1>1, <1>2 DEF Indexes, Onward
  <2>4. HalfWay(thread["worker"], e) => HalfWay(thread["worker"], e)'
    BY <1>1, <1>2 DEF HalfWay, Onward
  <2>5. Searched(e)'
    BY <1>1, <1>2, <2>1, <2>3, <2>4, SearchedAlong DEF Up
  <2>6. /\ ~Follows(thread["worker"], e)
        /\ Scores(thread'["worker"], e) <=> Scores(thread["worker"], e)
        /\ thread'["worker"].text = thread["worker"].text
        /\ ~Extracts(thread["worker"], e) /\ ~Extracts(thread'["worker"], e)
    BY <1>1, <1>2 DEF Follows, Scores, Extracts, Onward
  <2> QED
    BY <1>1, <1>2, <2>1, <2>2, <2>5, <2>6, RatedAside, NotedAside DEF Up
<1> QED
  BY <1>1, <1>2, <1>3, <1>4, OwnUp DEF Onward, Beside, Live

\* The three writes of an extraction.
LEMMA ExtractUp ==
    ASSUME VectorInv, Parted, UpNow,
           ModelAnswers("worker") \/ WriteMentions("worker") \/ MarkExtracted("worker")
    PROVE  UpNow'
<1> PICK e : e = thread["worker"].entry
  OBVIOUS
<1>1. /\ TypeInv /\ e \in Entry /\ thread["worker"].pc \in {"model", "mention", "mark"}
      /\ Jobs' = Jobs /\ UNCHANGED <<vectors, asked>>
  BY DEF VectorInv, TypeInv, Shaped, EntrySteps, ModelAnswers, WriteMentions, MarkExtracted,
         At, Jobs
<1>2. /\ Others("worker")
      /\ \/ Onward("worker", "mention") \/ Onward("worker", "mark") \/ Leaves("worker")
  BY <1>1, DoneLeaves, GotoOnward DEF ModelAnswers, WriteMentions, MarkExtracted
<1>3. thread'["worker"] = Idle \/ thread'["worker"].entry = e
  BY <1>2 DEF Leaves, Onward
<1>4. CASE ~Live(e)
  <2>1. db' = db
    BY <1>4 DEF ModelAnswers, WriteMentions, MarkExtracted
  <2> QED
    BY <1>1, <1>2, <1>3, <1>4, <2>1, OwnUp DEF Beside, VectorsBeside, Live
<1>5. CASE Live(e)
  <2>1. /\ Beside(e) /\ TextKept(e) /\ MoodsKept(e)
        /\ db'[e].chunks = db[e].chunks /\ db'[e].count = db[e].count
        /\ \/ Worker.pc = "model" /\ Onward("worker", "mention")
           \/ /\ Worker.pc = "mention" /\ Onward("worker", "mark")
              /\ db'[e].mentions = Worker.text
           \/ /\ Worker.pc = "mark" /\ Leaves("worker")
              /\ db'[e].mentions = db[e].mentions /\ ~db'[e].stale
    <3>1. CASE ModelAnswers("worker")
      <4>1. db' = Mentioned(e, 0) /\ Worker.pc = "model" /\ Onward("worker", "mention")
        BY <1>1, <1>5, <3>1, GotoOnward DEF ModelAnswers, At, Worker
      <4> QED
        BY <1>1, <4>1, MentionedFields
    <3>2. CASE WriteMentions("worker")
      <4>1. /\ db' = Mentioned(e, Worker.text) /\ Worker.pc = "mention"
            /\ Onward("worker", "mark")
        BY <1>1, <1>5, <3>2, GotoOnward DEF WriteMentions, At, Worker
      <4> QED
        BY <1>1, <4>1, MentionedFields
    <3>3. CASE MarkExtracted("worker")
      <4>1. db' = Extracted(e) /\ Worker.pc = "mark" /\ Leaves("worker")
        BY <1>1, <1>5, <3>3, DoneLeaves DEF MarkExtracted, At, Worker
      <4> QED
        BY <1>1, <4>1, ExtractedFields
    <3> QED
      BY <3>1, <3>2, <3>3
  <2>2. Up(e) /\ Lasting(e)
    BY <1>1, <1>2, <1>5, ComingStays DEF UpNow
  <2>3. Asked(e)'
    BY <1>1, <2>1, <2>2 DEF Up, Asked, TextKept
  <2>4. /\ ~Indexes(thread["worker"], e) /\ ~Indexes(thread'["worker"], e)
        /\ ~Scores(thread["worker"], e) /\ ~Scores(thread'["worker"], e)
        /\ ~Follows(thread["worker"], e) /\ Extracts(Worker, e)
    BY <1>1, <1>2, IdleFields DEF Indexes, Scores, Follows, Extracts, Onward, Leaves, Worker
  <2>5. Searched(e)'
    BY <1>1, <1>2, <2>1, <2>2, <2>4, SearchedAside DEF Up
  <2>6. ASSUME "media" \notin Requests PROVE Rated(e)'
    BY <1>1, <1>2, <2>1, <2>2, <2>4, <2>6, RatedAside DEF Up
  <2>7. ASSUME "media" \notin Requests PROVE Noted(e)'
    <3>1. CASE Coming({"extract"}, e)
      BY <2>2, <3>1 DEF Lasting, Waits, Noted
    <3>2. CASE Followed(e)
      BY <1>2, <2>4, <3>2 DEF Followed, Others, Noted
    <3>3. CASE Worker.text = db[e].text /\ (Worker.pc = "mark" => db[e].mentions = Worker.text)
      <4>1. CASE Onward("worker", "mention") \/ Onward("worker", "mark")
        <5>1. /\ Extracts(thread'["worker"], e) /\ thread'["worker"].text = Worker.text
              /\ thread'["worker"].pc = "mark" => db'[e].mentions = Worker.text
          BY <2>1, <2>4, <4>1, IdleFields DEF Extracts, Onward, Leaves, Worker
        <5> QED
          BY <2>1, <3>3, <5>1 DEF Noted, Worker, TextKept
      <4>2. CASE Leaves("worker")
        <5>1. /\ ~Extracts(thread'["worker"], e) /\ Worker.pc = "mark"
              /\ db'[e].mentions = db[e].mentions /\ ~db'[e].stale
          BY <2>1, <4>2, IdleFields DEF Extracts, Onward, Leaves
        <5> QED
          BY <2>1, <3>3, <5>1 DEF Noted, Worker, TextKept
      <4> QED
        BY <1>2, <4>1, <4>2
    <3> QED
      BY <2>2, <2>4, <2>7, <3>1, <3>2, <3>3 DEF Up, Noted
  <2>8. Up(e)'
    BY <2>3, <2>5, <2>6, <2>7 DEF Up
  <2> QED
    BY <1>1, <1>2, <1>3, <2>1, <2>8, OwnUp DEF VectorsBeside
<1> QED
  BY <1>4, <1>5

LEMMA WorkerUp ==
    ASSUME VectorInv, Parted, UpNow, NEW w \in Workers, WorkerStep(w)
    PROVE  UpNow'
<1>1. w = "worker" /\ w \in Thread
  OBVIOUS
<1>2. CASE Select(w)
  <2>1. Others(w) /\ thread'[w].pc \in {"idle", "next"}
    BY <1>1, <1>2, SelectsBatch, IdleFields
  <2> QED
    BY <1>1, <1>2, <2>1, AloofUp DEF Select, At, Jobs
<1> QED
  BY <1>1, <1>2, IngestUp, TakeUp, ReadUp, ClearUp, ExtractUp DEF WorkerStep

-----------------------------------------------------------------------------
LEMMA NextUp ==
    ASSUME UpInv, [Next]_vars
    PROVE  UpInv'
<1>1. VectorInv /\ Parted /\ VectorInv' /\ Parted'
  BY NextVectors, NextParted DEF UpInv
<1>2. faults \in Nat /\ crashes \in Nat
  BY <1>1 DEF VectorInv, TypeInv, TypeOK
<1> SUFFICES ASSUME Undisturbed' PROVE UpNow'
  BY <1>1 DEF UpInv, UpNow
<1>3. CASE UNCHANGED vars
  <2>1. UpNow
    BY <1>3 DEF UpInv, UpNow, vars, Undisturbed
  <2>2. Jobs' = Jobs
    BY <1>3 DEF vars, Jobs
  <2> QED
    BY <1>3, <2>1, <2>2 DEF vars, UpNow, Live, Up, Searched, Asked, Rated, Noted, Coming, Followed,
       HalfWay, InStep, Indexed, Worker
<1>4. CASE Request
  <2>1. UNCHANGED <<faults, crashes>>
    BY <1>4 DEF Request, PostText, PostUpload, CallMedia, Edit, CallUpdateTool, Delete,
                PostExtract, PostBatch
  <2> QED
    BY <1>1, <1>4, <2>1, RequestUp DEF UpInv, UpNow, Undisturbed
<1>5. ASSUME NEW t \in Thread, IngestStep(t) PROVE UNCHANGED <<faults, crashes>>
  BY <1>5 DEF IngestStep, CheckFile, ReadFile, CreateEntry, StoreFile, ReplaceChunks, Embed,
              Score, UpdateCount, Return, FollowUp
<1>6. CASE ApiStep
  <2>1. UNCHANGED <<faults, crashes>>
    BY <1>5, <1>6 DEF ApiStep, SaveText, SubmitStages, PurgeVectors, DropRow
  <2> QED
    BY <1>1, <1>6, <2>1, ApiUp DEF UpInv, UpNow, Undisturbed
<1>7. CASE \E w \in Workers : WorkerStep(w)
  <2>1. UNCHANGED <<faults, crashes>>
    BY <1>5, <1>7 DEF WorkerStep, Take, Select, ReadEntry, ClearVectors, ModelAnswers,
                      WriteMentions, MarkExtracted
  <2> QED
    BY <1>1, <1>7, <2>1, WorkerUp DEF UpInv, UpNow, Undisturbed
<1>8. CASE Fault
  <2>1. faults' = faults + 1
    BY <1>8 DEF Fault, CallRaises, ScorerFails, FollowUpRaises, SubmissionRaises, Faulty
  <2> QED
    BY <1>2, <2>1 DEF Undisturbed
<1>9. CASE Crash
  BY <1>2, <1>9 DEF Crash, Undisturbed
<1> QED
  BY <1>3, <1>4, <1>6, <1>7, <1>8, <1>9 DEF Next

LEMMA UpInvariant == Spec => []UpInv
BY InitUp, NextUp, PTL DEF Spec

\* With no job and no thread at work, nothing is still to come.
LEMMA QuietEnd ==
    ASSUME Quiet, NEW e \in Entry
    PROVE  /\ \A K : ~Coming(K, e)
           /\ \A t \in Thread : ~Touches(thread[t], e)
<1>1. Jobs = {} /\ \A t \in Thread : thread[t].pc = "idle"
  BY DEF Quiet, Jobs, At
<1> QED
  BY <1>1 DEF Coming, Worker, Touches, Indexes, Scores, Extracts, Follows

\* When nothing has raised and all work is done, an entry has the text its
\* owner last asked for, and its chunks, their count and its vectors are of
\* that text: edits, ingestions and the re-embeddings queued for them
\* (submit_save_entry_pipeline, _process_text) may overlap in any way.
THEOREM EntriesSearchCaughtUp == Spec => []SearchCaughtUp
<1>1. UpInv => SearchCaughtUp
  <2> SUFFICES ASSUME UpInv, Undisturbed, Quiet, NEW e \in Entry, Live(e)
               PROVE  /\ "tool" \notin Requests => db[e].text = asked[e]
                      /\ db[e].chunks = db[e].text
                      /\ db[e].count = Chunks[db[e].text]
                      /\ Indexed(e)
    BY DEF SearchCaughtUp
  <2>1. Searched(e) /\ Asked(e)
    BY DEF UpInv, Up
  <2>2. InStep(e)
    BY <2>1, QuietEnd DEF Searched, Touches
  <2> QED
    BY <2>1, <2>2 DEF Asked, InStep
<1> QED
  BY <1>1, UpInvariant, PTL

\* Likewise its mood scores and mentions, and no entry is left marked for
\* another extraction: the jobs queued after an ingestion or an edit
\* (_queue_post_ingestion_jobs, submit_save_entry_pipeline) are enough.
THEOREM EntriesExtrasCaughtUp == Spec => []ExtrasCaughtUp
<1>1. UpInv => ExtrasCaughtUp
  <2> SUFFICES ASSUME UpInv, Undisturbed, Quiet, "media" \notin Requests, NEW e \in Entry, Live(e)
               PROVE  /\ db[e].moods = db[e].text
                      /\ db[e].mentions = db[e].text
                      /\ ~db[e].stale
    BY DEF ExtrasCaughtUp
  <2>1. Rated(e) /\ Noted(e)
    BY DEF UpInv, Up
  <2>2. ~Followed(e) /\ ~Scores(Worker, e) /\ ~Extracts(Worker, e)
    BY QuietEnd DEF Followed, Touches, Worker
  <2> QED
    BY <2>1, <2>2, QuietEnd DEF Rated, Noted
<1> QED
  BY <1>1, UpInvariant, PTL

-----------------------------------------------------------------------------
(***************************************************************************)
(* The two checks of Entries: what the check for active jobs does for a    *)
(* delete, where entries are only made on the event loop, and what the     *)
(* check for duplicates does for an ingestion, where files are only        *)
(* ingested by jobs.                                                       *)
(***************************************************************************)

-----------------------------------------------------------------------------
(* Deletes.  The invariant: what the check for active jobs protects.       *)

\* A queued job is no ingestion, and the entry it names exists.
JobFits(j) == j.kind # "ingest" /\ (j.entry \in Entry => Live(j.entry))

\* A worker that makes no entries embeds only the entry its job names.
WorkerFits(l) ==
    /\ l.kind \in {"none"} \cup SingleKinds \cup BatchKinds
    /\ l.pc \notin {"check", "read", "create", "store", "return", "follow"}
    /\ l.pc \in {"clear", "chunk", "embed"} => l.kind = "reprocess" /\ l.entry = l.job
    /\ l.pc = "count" => l.kind = "reprocess"
    /\ l.kind = "reprocess" => l.todo \subseteq {l.job}

\* From the check for active jobs to the delete of the row there are none.
Deleting ==
    At("api", "purge") \/ At("api", "drop") =>
        /\ \A j \in Jobs : j.entry # thread["api"].entry
        /\ thread["worker"].job # thread["api"].entry
        /\ At("api", "drop") => Empty(thread["api"].entry)

Guarded ==
    /\ \A j \in Jobs : JobFits(j)
    /\ WorkerFits(thread["worker"])
    /\ thread["worker"].job \in Entry => Live(thread["worker"].job)
    /\ thread["api"].pc \in EntrySteps => Live(thread["api"].entry)
    /\ Deleting
    /\ \A e \in Entry : ~Live(e) => Empty(e)

OrphanInv == VectorInv /\ ("upload" \notin Requests => Guarded)

LEMMA InitOrphans == Init => OrphanInv
<1> SUFFICES ASSUME Init PROVE Guarded
  BY InitVectors DEF OrphanInv
<1>1. Jobs = {} /\ \A t \in Thread : thread[t] = Idle
  BY DEF Init, Jobs
<1>2. \A e \in Entry : Empty(e)
  BY DEF Init, Empty
<1> QED
  BY <1>1, <1>2 DEF Guarded, WorkerFits, Deleting, At, Idle, EntrySteps

-----------------------------------------------------------------------------
(* Steps of the worker.                                                    *)

\* The worker goes on with its job or with a queued one.
WorkerGoes ==
    LET l == thread'["worker"]
    IN  /\ thread'["api"] = thread["api"]
        /\ WorkerFits(l)
        /\ l.job \in Entry =>
              l.job = thread["worker"].job \/ \E j \in Jobs : j.entry = l.job

\* It adds vectors to no entry but that of its job.
VectorsOfJob ==
    \A e \in Entry : Empty(e) =>
        (\A i \in ChunkId : vectors'[e][i] = NoVector) \/ e = thread["worker"].job

LEMMA WorkerKeeps ==
    ASSUME VectorInv, Guarded, WorkerGoes, VectorsOfJob, Jobs' \subseteq Jobs,
           \A e \in Entry : Live(e) => db'[e].state = "live"
    PROVE  Guarded'
<1>1. \A j \in Jobs' : JobFits(j)'
  BY DEF Guarded, JobFits, Live
<1>2. thread'["worker"].job \in Entry =>
          Live(thread'["worker"].job) /\ db'[thread'["worker"].job].state = "live"
  BY DEF WorkerGoes, Guarded, JobFits
<1>3. thread'["api"].pc \in EntrySteps => db'[thread'["api"].entry].state = "live"
  BY DEF WorkerGoes, Guarded, VectorInv, TypeInv, Shaped
<1>4. Deleting'
  <2> SUFFICES ASSUME thread["api"].pc \in {"purge", "drop"}
               PROVE  /\ \A j \in Jobs' : j.entry # thread["api"].entry
                      /\ thread'["worker"].job # thread["api"].entry
                      /\ thread["api"].pc = "drop" =>
                            \A i \in ChunkId : vectors'[thread["api"].entry][i] = NoVector
    BY DEF Deleting, At, Empty, WorkerGoes
  <2>1. thread["api"].entry \in Entry
    BY DEF VectorInv, TypeInv, Shaped, EntrySteps
  <2>2. /\ \A j \in Jobs : j.entry # thread["api"].entry
        /\ thread["worker"].job # thread["api"].entry
        /\ thread["api"].pc = "drop" => Empty(thread["api"].entry)
    BY DEF Guarded, Deleting, At
  <2> QED
    BY <2>1, <2>2 DEF WorkerGoes, VectorsOfJob
<1>5. ASSUME NEW e \in Entry, db'[e].state # "live"
      PROVE  \A i \in ChunkId : vectors'[e][i] = NoVector
  BY <1>5 DEF Guarded, VectorsOfJob
<1> QED
  BY <1>1, <1>2, <1>3, <1>4, <1>5 DEF Guarded, WorkerGoes, Live, Empty

\* The usual step leaves the vectors alone.
LEMMA WorkerQuiet ==
    ASSUME VectorInv, Guarded, WorkerGoes, Jobs' \subseteq Jobs, UNCHANGED vectors,
           \A e \in Entry : Live(e) => db'[e].state = "live"
    PROVE  Guarded'
BY WorkerKeeps DEF VectorsOfJob, Empty

LEMMA WorkerIdle ==
    ASSUME TypeInv, Becomes("worker", Idle)
    PROVE  WorkerGoes
BY DEF TypeInv, TypeOK, Becomes, Idle, WorkerGoes, WorkerFits

LEMMA WorkerGoto ==
    ASSUME TypeInv, Guarded, NEW step \in Steps, Goto("worker", step),
           step \notin {"check", "read", "create", "store", "return", "follow"},
           step \in {"clear", "chunk", "embed"} => thread["worker"].pc \in {"clear", "chunk", "embed"},
           step = "count" => thread["worker"].kind = "reprocess"
    PROVE  WorkerGoes
<1> DEFINE l == thread["worker"]
           r == [l EXCEPT !.pc = step]
<1>1. r.pc = step /\ r.kind = l.kind /\ r.entry = l.entry /\ r.job = l.job /\ r.todo = l.todo
  BY LocalTyped DEF TypeInv, Local
<1>2. thread' = [thread EXCEPT !["worker"] = r]
  BY DEF Goto, Becomes
<1> HIDE DEF r
<1>3. thread'["worker"] = r /\ thread'["api"] = thread["api"]
  BY <1>2 DEF TypeInv, TypeOK
<1> QED
  BY <1>1, <1>3 DEF WorkerGoes, WorkerFits, Guarded

LEMMA WorkerEntryDone ==
    ASSUME TypeInv, Guarded, EntryDone("worker")
    PROVE  WorkerGoes
BY WorkerIdle, WorkerGoto DEF EntryDone, Steps

\* No entry goes away with the worker's writes on one row.
LEMMA WorkerWrites ==
    ASSUME VectorInv, Guarded, WorkerGoes, Jobs' \subseteq Jobs, UNCHANGED vectors,
           NEW e \in Entry,
           \/ \E v : db' = Chunked(e, v) \/ db' = Scored(e, v) \/ db' = Mentioned(e, v)
           \/ \E n : db' = Counted(e, n)
           \/ \E f : db' = Stored(e, f)
           \/ db' = Extracted(e)
           \/ db' = db
    PROVE  Guarded'
<1>1. \A d \in Entry : db'[d].state = db[d].state
  BY WriteMade DEF VectorInv
<1> QED
  BY <1>1, WorkerQuiet DEF Live

LEMMA WorkerIngests ==
    ASSUME VectorInv, Guarded, IngestStep("worker")
    PROVE  Guarded'
<1> DEFINE l == thread["worker"]
           e == thread["worker"].entry
<1>1. WorkerFits(l) /\ TypeInv /\ Shaped(l) /\ UNCHANGED queue
  BY DEF Guarded, VectorInv, TypeInv, IngestStep, CheckFile, ReadFile, CreateEntry, StoreFile,
         ReplaceChunks, Embed, Score, UpdateCount, Return, FollowUp, WorkerFits, At
<1>2. Jobs' = Jobs
  BY <1>1 DEF Jobs
<1>3. \/ ReplaceChunks("worker") \/ Embed("worker") \/ Score("worker")
      \/ UpdateCount("worker")
  BY <1>1 DEF IngestStep, CheckFile, ReadFile, CreateEntry, StoreFile, Return, FollowUp,
              WorkerFits, At
<1>4. CASE ReplaceChunks("worker")
  <2>1. e \in Entry /\ l.pc = "chunk"
    BY <1>1, <1>4 DEF ReplaceChunks, At, Shaped, EntrySteps
  <2>2. WorkerGoes
    BY <1>1, <1>4, <2>1, WorkerIdle, WorkerGoto DEF ReplaceChunks, Steps
  <2> QED
    BY <1>2, <1>4, <2>1, <2>2, WorkerWrites DEF ReplaceChunks
<1>5. CASE Embed("worker")
  <2>1. e \in Entry /\ l.pc = "embed" /\ l.kind = "reprocess" /\ e = l.job
    BY <1>1, <1>5 DEF Embed, At, Shaped, EntrySteps, WorkerFits
  <2>2. WorkerGoes
    BY <1>1, <1>5, <2>1, WorkerGoto DEF Embed, Steps
  <2>3. \A d \in Entry \ {e} : vectors'[d] = vectors[d]
    BY <1>1, <1>5 DEF Embed, VectorsAdded, TypeInv, TypeOK
  <2>4. VectorsOfJob
    BY <2>1, <2>3 DEF VectorsOfJob, Empty
  <2> QED
    BY <1>2, <1>5, <2>2, <2>4, WorkerKeeps DEF Embed, Live
<1>6. CASE Score("worker")
  <2>1. e \in Entry
    BY <1>1, <1>6 DEF Score, At, Shaped, EntrySteps
  <2>2. ScoresInline(l) => l.kind = "reprocess"
    BY <1>1 DEF ScoresInline, WorkerFits, SingleKinds, BatchKinds
  <2>3. WorkerGoes
    BY <1>1, <1>6, <2>2, WorkerEntryDone, WorkerGoto DEF Score, Steps
  <2> QED
    BY <1>2, <1>6, <2>1, <2>3, WorkerWrites DEF Score
<1>7. CASE UpdateCount("worker")
  <2>1. e \in Entry /\ l.kind = "reprocess"
    BY <1>1, <1>7 DEF UpdateCount, At, Shaped, EntrySteps, WorkerFits
  <2>2. WorkerGoes
    BY <1>1, <1>7, <2>1, WorkerEntryDone DEF UpdateCount
  <2> QED
    BY <1>2, <1>7, <2>1, <2>2, WorkerWrites DEF UpdateCount
<1> QED
  BY <1>3, <1>4, <1>5, <1>6, <1>7

LEMMA WorkerTakes ==
    ASSUME VectorInv, Guarded, Take("worker")
    PROVE  Guarded'
<1> DEFINE j == Head(queue)
<1>1. TypeInv /\ j \in Jobs /\ Jobs' \subseteq Jobs
  BY JobTaken DEF VectorInv, Take
<1>2. j \in JobRecord /\ JobFits(j)
  BY <1>1, HeadTailProperties DEF Take, TypeInv, TypeOK, Guarded
<1>3. /\ Idle.kind = "none" /\ Idle.job = NoEntry /\ Idle.entry = NoEntry /\ Idle.todo = {}
      /\ Idle \in Local
  BY IdleTyped DEF Idle
<1> HIDE DEF j
<1>4. CASE j.kind \in BatchKinds
  <2> DEFINE r == [Idle EXCEPT !.kind = j.kind, !.pc = "select"]
  <2>1. r.pc = "select" /\ r.kind = j.kind /\ r.todo = {} /\ r.job = NoEntry
    BY <1>3 DEF Local
  <2>2. thread' = [thread EXCEPT !["worker"] = r]
    BY <1>4 DEF Take, Becomes, j, BatchKinds
  <2> HIDE DEF r
  <2>3. WorkerGoes
    BY <1>1, <1>4, <2>1, <2>2 DEF WorkerGoes, WorkerFits, TypeInv, TypeOK, BatchKinds
  <2> QED
    BY <1>1, <2>3, WorkerQuiet DEF Take, Live
<1>5. CASE j.kind \notin BatchKinds
  <2> DEFINE r == [Idle EXCEPT !.kind = j.kind, !.pc = "next",
                               !.job = j.entry, !.todo = {j.entry}]
  <2>1. r.pc = "next" /\ r.kind = j.kind /\ r.todo = {j.entry} /\ r.job = j.entry
    BY <1>3 DEF Local
  <2>2. thread' = [thread EXCEPT !["worker"] = r]
    BY <1>2, <1>5 DEF Take, Becomes, j, JobFits
  <2>3. j.kind \in SingleKinds
    BY <1>2, <1>5 DEF JobFits, JobRecord, JobKind, SingleKinds, BatchKinds
  <2> HIDE DEF r
  <2>4. WorkerGoes
    BY <1>1, <2>1, <2>2, <2>3 DEF WorkerGoes, WorkerFits, TypeInv, TypeOK
  <2> QED
    BY <1>1, <2>4, WorkerQuiet DEF Take, Live
<1> QED
  BY <1>4, <1>5

LEMMA WorkerReads ==
    ASSUME VectorInv, Guarded, ReadEntry("worker")
    PROVE  Guarded'
<1> DEFINE l == thread["worker"]
<1>1. TypeInv /\ l \in Local /\ WorkerFits(l) /\ Shaped(l) /\ l.pc = "next"
  BY LocalTyped DEF VectorInv, TypeInv, Guarded, ReadEntry, At
<1>2. Jobs' = Jobs /\ UNCHANGED <<db, vectors>>
  BY DEF ReadEntry, Jobs
<1> SUFFICES WorkerGoes
  BY <1>2, WorkerQuiet DEF Live
<1>3. PICK e \in l.todo :
         \/ Becomes("worker", Idle)
         \/ Becomes("worker", [l EXCEPT !.todo = l.todo \ {e}])
         \/ Becomes("worker", [l EXCEPT !.pc = FirstStep(l.kind), !.entry = e,
                                        !.text = db[e].text, !.user = DefaultUser,
                                        !.todo = l.todo \ {e}])
  BY DEF ReadEntry
<1>4. CASE Becomes("worker", Idle)
  BY <1>1, <1>4, WorkerIdle
<1>5. CASE Becomes("worker", [l EXCEPT !.todo = l.todo \ {e}])
  <2> DEFINE r == [l EXCEPT !.todo = l.todo \ {e}]
  <2>1. r.pc = "next" /\ r.kind = l.kind /\ r.job = l.job /\ r.todo = l.todo \ {e}
    BY <1>1 DEF Local
  <2>2. thread' = [thread EXCEPT !["worker"] = r]
    BY <1>5 DEF Becomes
  <2> HIDE DEF r
  <2> QED
    BY <1>1, <2>1, <2>2 DEF WorkerGoes, WorkerFits, TypeInv, TypeOK
<1>6. CASE Becomes("worker", [l EXCEPT !.pc = FirstStep(l.kind), !.entry = e,
                                       !.text = db[e].text, !.user = DefaultUser,
                                       !.todo = l.todo \ {e}])
  <2> DEFINE step == FirstStep(l.kind)
             r == [l EXCEPT !.pc = step, !.entry = e, !.text = db[e].text,
                            !.user = DefaultUser, !.todo = l.todo \ {e}]
  <2>1. l.kind \in SingleKinds \cup BatchKinds
    BY <1>1 DEF Shaped
  <2>2. step \in {"clear", "model", "score"} /\ (step = "clear" => l.kind = "reprocess")
    BY <2>1 DEF FirstStep, SingleKinds, BatchKinds
  <2>3. l.kind = "reprocess" => e = l.job
    BY <1>1 DEF WorkerFits
  <2> HIDE DEF step
  <2>4. r.pc = step /\ r.kind = l.kind /\ r.entry = e /\ r.todo = l.todo \ {e} /\ r.job = l.job
    BY <1>1 DEF Local
  <2>5. thread' = [thread EXCEPT !["worker"] = r]
    BY <1>6 DEF Becomes, step
  <2> HIDE DEF r
  <2> QED
    BY <1>1, <2>2, <2>3, <2>4, <2>5 DEF WorkerGoes, WorkerFits, TypeInv, TypeOK
<1> QED
  BY <1>3, <1>4, <1>5, <1>6

LEMMA WorkerOrphans ==
    ASSUME VectorInv, Guarded, WorkerStep("worker")
    PROVE  Guarded'
<1> DEFINE l == thread["worker"]
           e == thread["worker"].entry
<1>1. TypeInv /\ l \in Local /\ WorkerFits(l) /\ Shaped(l)
  BY LocalTyped DEF VectorInv, TypeInv, Guarded
<1>2. CASE Select("worker")
  <2>1. CASE Becomes("worker", Idle)
    BY <1>1, <1>2, <2>1, WorkerIdle, WorkerQuiet DEF Select, Live, Jobs
  <2>2. CASE Becomes("worker", [l EXCEPT !.pc = "next", !.todo = Selected(l.kind)])
    <3> DEFINE r == [l EXCEPT !.pc = "next", !.todo = Selected(l.kind)]
    <3>1. r.pc = "next" /\ r.kind = l.kind /\ r.job = l.job /\ l.kind \in BatchKinds
      BY <1>1, <1>2 DEF Local, Shaped, Select, At
    <3>2. thread' = [thread EXCEPT !["worker"] = r]
      BY <2>2 DEF Becomes
    <3> HIDE DEF r
    <3>3. WorkerGoes
      BY <1>1, <3>1, <3>2 DEF WorkerGoes, WorkerFits, TypeInv, TypeOK, BatchKinds
    <3> QED
      BY <1>2, <3>3, WorkerQuiet DEF Select, Live, Jobs
  <2> QED
    BY <1>2, <2>1, <2>2 DEF Select
<1>3. CASE ClearVectors("worker")
  <2>1. e \in Entry /\ l.pc = "clear"
    BY <1>1, <1>3 DEF ClearVectors, At, Shaped, EntrySteps
  <2>2. WorkerGoes
    BY <1>1, <1>3, <2>1, WorkerGoto DEF ClearVectors, Steps
  <2>3. VectorsOfJob
    BY <1>1, <1>3 DEF ClearVectors, VectorsDeleted, VectorsOfJob, Empty, TypeInv, TypeOK
  <2> QED
    BY <1>3, <2>2, <2>3, WorkerKeeps DEF ClearVectors, Live, Jobs
<1>4. CASE ModelAnswers("worker")
  <2>1. e \in Entry /\ WorkerGoes
    BY <1>1, <1>4, WorkerGoto DEF ModelAnswers, At, Shaped, EntrySteps, Steps
  <2> QED
    BY <1>4, <2>1, WorkerWrites DEF ModelAnswers, Jobs
<1>5. CASE WriteMentions("worker")
  <2>1. e \in Entry /\ WorkerGoes
    BY <1>1, <1>5, WorkerGoto, WorkerEntryDone DEF WriteMentions, At, Shaped, EntrySteps, Steps
  <2> QED
    BY <1>5, <2>1, WorkerWrites DEF WriteMentions, Jobs
<1>6. CASE MarkExtracted("worker")
  <2>1. e \in Entry /\ WorkerGoes
    BY <1>1, <1>6, WorkerEntryDone DEF MarkExtracted, At, Shaped, EntrySteps
  <2> QED
    BY <1>6, <2>1, WorkerWrites DEF MarkExtracted, Jobs
<1> QED
  BY <1>2, <1>3, <1>4, <1>5, <1>6, WorkerIngests, WorkerTakes, WorkerReads DEF WorkerStep

-----------------------------------------------------------------------------
(* Steps of the event loop.                                                *)

\* It goes on with an entry that exists, and past the check for active jobs
\* only with one that no job names.
ApiGoes ==
    LET l == thread'["api"]
    IN  /\ thread'["worker"] = thread["worker"]
        /\ l.pc \in EntrySteps => db'[l.entry].state = "live"
        /\ l.pc \in {"purge", "drop"} =>
              /\ \/ l.entry = thread["api"].entry /\ thread["api"].pc = "purge"
                 \/ ~ActiveFor(l.entry)
              /\ l.pc = "drop" => \A i \in ChunkId : vectors'[l.entry][i] = NoVector
              /\ queue' = queue

\* It queues jobs of entries that exist.
JobsGood ==
    \A j \in Jobs' :
        \/ j \in Jobs
        \/ j.kind # "ingest" /\ (j.entry \in Entry => db'[j.entry].state = "live")

\* It adds vectors to entries that exist.
VectorsOfLive ==
    \A e \in Entry : Empty(e) =>
        (\A i \in ChunkId : vectors'[e][i] = NoVector) \/ db'[e].state = "live"

LEMMA ApiKeeps ==
    ASSUME VectorInv, Guarded, ApiGoes, JobsGood, VectorsOfLive,
           \A e \in Entry : Live(e) => db'[e].state = "live"
    PROVE  Guarded'
<1>1. \A j \in Jobs' : JobFits(j)'
  BY DEF JobsGood, Guarded, JobFits, Live
<1>2. Deleting'
  <2> DEFINE l == thread'["api"]
  <2> SUFFICES ASSUME l.pc \in {"purge", "drop"}
               PROVE  /\ \A j \in Jobs' : j.entry # l.entry
                      /\ thread["worker"].job # l.entry
    BY DEF Deleting, At, Empty, ApiGoes
  <2>1. Jobs' = Jobs
    BY DEF ApiGoes, Jobs
  <2>2. CASE l.entry = thread["api"].entry /\ thread["api"].pc = "purge"
    BY <2>1, <2>2 DEF Guarded, Deleting, At
  <2>3. CASE ~ActiveFor(l.entry)
    BY <2>1, <2>3 DEF ActiveFor, Jobs
  <2> QED
    BY <2>2, <2>3 DEF ApiGoes
<1> QED
  BY <1>1, <1>2 DEF Guarded, ApiGoes, VectorsOfLive, Live, Empty

\* Steps that leave vectors and queue alone and delete no row.
LEMMA ApiQuiet ==
    ASSUME VectorInv, Guarded, ApiGoes, UNCHANGED <<queue, vectors>>,
           \A e \in Entry : Live(e) => db'[e].state = "live"
    PROVE  Guarded'
<1>1. vectors' = vectors /\ Jobs' = Jobs
  BY DEF Jobs
<1>2. JobsGood
  BY <1>1 DEF JobsGood
<1>3. VectorsOfLive
  BY <1>1 DEF VectorsOfLive, Empty
<1> QED
  BY <1>2, <1>3, ApiKeeps

\* Steps that only queue jobs.
LEMMA ApiQueues ==
    ASSUME VectorInv, Guarded, ApiGoes, UNCHANGED <<db, vectors>>,
           \A j \in Jobs' : j \in Jobs \/ JobFits(j)
    PROVE  Guarded'
<1>1. JobsGood
  BY DEF JobsGood, JobFits, Live
<1>2. VectorsOfLive
  BY DEF VectorsOfLive, Empty
<1>3. \A e \in Entry : Live(e) => db'[e].state = "live"
  BY DEF Live
<1> QED
  BY <1>1, <1>2, <1>3, ApiKeeps

LEMMA ApiIdle ==
    ASSUME TypeInv, Becomes("api", Idle)
    PROVE  ApiGoes
BY DEF TypeInv, TypeOK, Becomes, Idle, ApiGoes, EntrySteps

LEMMA ApiGoto ==
    ASSUME TypeInv, NEW step \in Steps \ {"purge", "drop"}, Goto("api", step),
           step \in EntrySteps => db'[thread["api"].entry].state = "live"
    PROVE  ApiGoes
<1> DEFINE l == thread["api"]
           r == [l EXCEPT !.pc = step]
<1>1. r.pc = step /\ r.entry = l.entry
  BY LocalTyped DEF TypeInv, Local
<1>2. thread' = [thread EXCEPT !["api"] = r]
  BY DEF Goto, Becomes
<1> HIDE DEF r
<1> QED
  BY <1>1, <1>2 DEF TypeInv, TypeOK, ApiGoes

\* It starts something new.
LEMMA ApiBecomes ==
    ASSUME TypeInv, NEW r, Becomes("api", r), r.pc \notin {"purge", "drop"},
           r.pc \in EntrySteps => db'[r.entry].state = "live"
    PROVE  ApiGoes
BY DEF TypeInv, TypeOK, Becomes, ApiGoes

LEMMA ApiRequests ==
    ASSUME VectorInv, Guarded, Request, "upload" \notin Requests
    PROVE  Guarded'
<1>1. /\ TypeInv /\ thread["api"].pc = "idle" /\ UNCHANGED <<db, vectors>>
      /\ \A e \in Entry : Live(e) => db'[e].state = "live"
  BY DEF VectorInv, Request, PostText, PostUpload, CallMedia, Edit, CallUpdateTool, Delete,
         PostExtract, PostBatch, Requested, At, Live
<1>2. ASSUME UNCHANGED thread PROVE ApiGoes
  BY <1>1, <1>2 DEF ApiGoes, EntrySteps
<1>3. ASSUME NEW k \in {"text", "media"}, NEW u \in Users, NEW up \in Uploads \cup {<<>>},
             Becomes("api", Ingesting(k, u, up))
      PROVE  ApiGoes
  <2>1. Ingesting(k, u, up).pc \in {"create", "check"}
    BY UsersAssumption, IngestingShaped
  <2> QED
    BY <1>1, <1>3, <2>1, ApiBecomes DEF EntrySteps
<1>4. ASSUME NEW j \in JobRecord, queue' = Append(queue, j), UNCHANGED thread, JobFits(j)
      PROVE  Guarded'
  <2>1. Jobs' = Jobs \cup {j}
    BY <1>1, <1>4, JobAppended
  <2> QED
    BY <1>1, <1>2, <1>4, <2>1, ApiQueues
<1>5. ASSUME NEW u \in Users, PostText(u) PROVE Guarded'
  BY <1>1, <1>3, <1>5, ApiQuiet DEF PostText
<1>6. ASSUME NEW u \in Users, NEW up \in Uploads, PostUpload(u, up) PROVE FALSE
  BY <1>6 DEF PostUpload, Requested
<1>7. ASSUME NEW u \in Users, NEW up \in Uploads \cup {<<>>}, CallMedia(u, up)
      PROVE  Guarded'
  BY <1>1, <1>3, <1>7, ApiQuiet DEF CallMedia
<1>8. ASSUME NEW e \in Entry, Edit(e) PROVE Guarded'
  <2> DEFINE r == [Idle EXCEPT !.kind = "edit", !.pc = "save", !.entry = e,
                               !.count = db[e].count]
  <2>1. r.pc = "save" /\ r.entry = e
    BY IdleTyped DEF Local
  <2>2. Becomes("api", r) /\ Live(e)
    BY <1>8 DEF Edit
  <2> HIDE DEF r
  <2>3. ApiGoes
    BY <1>1, <2>1, <2>2, ApiBecomes DEF Live
  <2> QED
    BY <1>1, <1>8, <2>3, ApiQuiet DEF Edit
<1>9. ASSUME NEW e \in Entry, CallUpdateTool(e) PROVE Guarded'
  BY <1>1, <1>2, <1>9, ApiQuiet DEF CallUpdateTool
<1>10. ASSUME NEW e \in Entry, Delete(e) PROVE Guarded'
  <2> DEFINE r == [Idle EXCEPT !.kind = "delete", !.pc = "purge", !.entry = e]
  <2>1. r.pc = "purge" /\ r.entry = e
    BY IdleTyped DEF Local
  <2>2. thread' = [thread EXCEPT !["api"] = r] /\ Live(e) /\ ~ActiveFor(e) /\ queue' = queue
    BY <1>10 DEF Delete, Becomes
  <2> HIDE DEF r
  <2>3. ApiGoes
    BY <1>1, <2>1, <2>2 DEF ApiGoes, Live, TypeInv, TypeOK
  <2> QED
    BY <1>1, <1>10, <2>3, ApiQuiet DEF Delete
<1>11. ASSUME NEW e \in Entry, PostExtract(e) PROVE Guarded'
  <2>1. JobOf("extract", e) \in JobRecord /\ JobFits(JobOf("extract", e))
    BY <1>11, JobOfTyped DEF JobKind, PostExtract, JobFits, JobOf
  <2> QED
    BY <1>4, <1>11, <2>1 DEF PostExtract
<1>12. ASSUME NEW k \in BatchKinds, PostBatch(k) PROVE Guarded'
  <2>1. JobOf(k, NoEntry) \in JobRecord /\ JobFits(JobOf(k, NoEntry))
    BY JobOfTyped DEF JobKind, BatchKinds, SingleKinds, JobFits, JobOf
  <2> QED
    BY <1>4, <1>12, <2>1 DEF PostBatch
<1> QED
  BY <1>5, <1>6, <1>7, <1>8, <1>9, <1>10, <1>11, <1>12 DEF Request

LEMMA ApiWrites ==
    ASSUME VectorInv, Guarded, ApiGoes, UNCHANGED <<queue, vectors>>, NEW e \in Entry,
           \/ \E v : db' = Chunked(e, v) \/ db' = Scored(e, v) \/ db' = Mentioned(e, v)
           \/ \E n : db' = Counted(e, n)
           \/ \E f : db' = Stored(e, f)
           \/ db' = Extracted(e)
           \/ db' = db
    PROVE  Guarded'
<1>1. \A d \in Entry : db'[d].state = db[d].state
  BY WriteMade DEF VectorInv
<1> QED
  BY <1>1, ApiQuiet DEF Live

LEMMA ApiIngests ==
    ASSUME VectorInv, Guarded, IngestStep("api")
    PROVE  Guarded'
<1> DEFINE l == thread["api"]
           e == thread["api"].entry
<1>1. TypeInv /\ Shaped(l) /\ (l.pc \in EntrySteps => e \in Entry /\ Live(e)) /\ l \in Local
  BY LocalTyped DEF Guarded, VectorInv, TypeInv, Shaped
<1>2. CASE CheckFile("api")
  <2>1. ApiGoes
    BY <1>1, <1>2, ApiIdle, ApiGoto DEF CheckFile, Steps, EntrySteps
  <2> QED
    BY <1>2, <2>1, ApiQuiet DEF CheckFile, Live
<1>3. CASE ReadFile("api")
  <2>1. CASE Becomes("api", [l EXCEPT !.pc = "check", !.idx = l.idx + 1])
    <3> DEFINE r == [l EXCEPT !.pc = "check", !.idx = l.idx + 1]
    <3>1. r.pc = "check"
      BY <1>1 DEF Local
    <3>2. Becomes("api", r)
      BY <2>1
    <3> HIDE DEF r
    <3>3. ApiGoes
      BY <1>1, <3>1, <3>2, ApiBecomes DEF EntrySteps
    <3> QED
      BY <1>3, <3>3, ApiQuiet DEF ReadFile, Live
  <2>2. CASE Goto("api", "create")
    <3>1. ApiGoes
      BY <1>1, <2>2, ApiGoto DEF Steps, EntrySteps
    <3> QED
      BY <1>3, <3>1, ApiQuiet DEF ReadFile, Live
  <2> QED
    BY <1>3, <2>1, <2>2 DEF ReadFile
<1>4. CASE CreateEntry("api")
  <2> DEFINE step == IF l.upload = <<>> THEN "chunk" ELSE "store"
             r(d) == [l EXCEPT !.entry = d, !.text = 1, !.idx = 1, !.pc = step]
  <2>1. PICK d \in Entry : /\ FreshId(d) /\ db' = Created(d, l.user)
                           /\ Becomes("api", r(d))
    BY <1>4 DEF CreateEntry
  <2>2. step \in {"chunk", "store"}
    OBVIOUS
  <2> HIDE DEF step
  <2>3. r(d).pc = step /\ r(d).entry = d
    BY <1>1 DEF Local
  <2> HIDE DEF r
  <2>4. db'[d].state = "live" /\ \A c \in Entry : Live(c) => db'[c].state = "live"
    BY <1>1, <2>1 DEF FreshId, Created, Absent, Live, TypeInv, TypeOK
  <2>5. ApiGoes
    BY <1>1, <2>1, <2>2, <2>3, <2>4, ApiBecomes
  <2> QED
    BY <1>4, <2>4, <2>5, ApiQuiet DEF CreateEntry
<1>5. CASE StoreFile("api")
  <2>1. l.pc = "store" /\ e \in Entry /\ Live(e)
    BY <1>1, <1>5 DEF StoreFile, At, EntrySteps
  <2>2. db' = Stored(e, l.upload[l.idx])
    BY <1>5, <2>1 DEF StoreFile
  <2>3. db'[e].state = "live"
    BY <1>1, <2>1, <2>2, WriteMade DEF Live
  <2>4. CASE Becomes("api", [l EXCEPT !.idx = l.idx + 1])
    <3> DEFINE r == [l EXCEPT !.idx = l.idx + 1]
    <3>1. r.pc = "store" /\ r.entry = e
      BY <1>1, <2>1 DEF Local
    <3>2. Becomes("api", r)
      BY <2>4
    <3> HIDE DEF r
    <3>3. ApiGoes
      BY <1>1, <2>3, <3>1, <3>2, ApiBecomes
    <3> QED
      BY <1>5, <2>1, <2>2, <3>3, ApiWrites DEF StoreFile
  <2>5. CASE Goto("api", "chunk")
    <3>1. ApiGoes
      BY <1>1, <2>3, <2>5, ApiGoto DEF Steps
    <3> QED
      BY <1>5, <2>1, <2>2, <3>1, ApiWrites DEF StoreFile
  <2> QED
    BY <1>5, <2>1, <2>4, <2>5 DEF StoreFile
<1>6. CASE ReplaceChunks("api")
  <2>1. e \in Entry /\ Live(e)
    BY <1>1, <1>6 DEF ReplaceChunks, At, EntrySteps
  <2>2. db'[e].state = "live"
    BY <1>1, <1>6, <2>1, WriteMade DEF ReplaceChunks, Live
  <2>3. ApiGoes
    BY <1>1, <1>6, <2>2, ApiIdle, ApiGoto DEF ReplaceChunks, Steps
  <2> QED
    BY <1>6, <2>1, <2>3, ApiWrites DEF ReplaceChunks
<1>7. CASE Embed("api")
  <2>1. e \in Entry /\ Live(e) /\ db' = db /\ db'[e].state = "live"
    BY <1>1, <1>7 DEF Embed, At, EntrySteps, Live
  <2>2. PICK step \in {"score", "count"} : Goto("api", step)
    BY <1>7 DEF Embed
  <2>3. ApiGoes
    BY <1>1, <2>1, <2>2, ApiGoto DEF Steps
  <2>4. \A d \in Entry \ {e} : vectors'[d] = vectors[d]
    BY <1>1, <1>7 DEF Embed, VectorsAdded, TypeInv, TypeOK
  <2>5. VectorsOfLive
    BY <2>1, <2>4 DEF VectorsOfLive, Empty
  <2>6. JobsGood
    BY <1>7 DEF Embed, JobsGood, Jobs
  <2> QED
    BY <2>1, <2>3, <2>5, <2>6, ApiKeeps DEF Live
<1>8. CASE Score("api")
  <2>1. e \in Entry /\ Live(e)
    BY <1>1, <1>8 DEF Score, At, EntrySteps
  <2>2. db'[e].state = "live"
    BY <1>1, <1>8, <2>1, WriteMade DEF Score, Live
  <2>3. ApiGoes
    BY <1>1, <1>8, <2>2, ApiIdle, ApiGoto DEF Score, EntryDone, Steps, EntrySteps
  <2> QED
    BY <1>8, <2>1, <2>3, ApiWrites DEF Score
<1>9. CASE UpdateCount("api")
  <2>1. e \in Entry /\ Live(e)
    BY <1>1, <1>9 DEF UpdateCount, At, EntrySteps
  <2>2. db'[e].state = "live"
    BY <1>1, <1>9, <2>1, WriteMade DEF UpdateCount, Live
  <2>3. ApiGoes
    BY <1>1, <1>9, <2>2, ApiIdle, ApiGoto DEF UpdateCount, EntryDone, Steps, EntrySteps
  <2> QED
    BY <1>9, <2>1, <2>3, ApiWrites DEF UpdateCount
<1>10. CASE Return("api")
  <2>1. e \in Entry /\ Live(e) /\ db'[e].state = "live"
    BY <1>1, <1>10 DEF Return, At, EntrySteps, Live
  <2>2. ApiGoes
    BY <1>1, <1>10, <2>1, ApiIdle, ApiGoto DEF Return, Steps
  <2> QED
    BY <1>10, <2>2, ApiQuiet DEF Return, Live
<1>11. CASE FollowUp("api")
  <2> DEFINE a == JobOf("mood", e)
             b == JobOf("extract", e)
  <2>1. e \in Entry /\ Live(e)
    BY <1>1, <1>11 DEF FollowUp, At, EntrySteps
  <2>2. a \in JobRecord /\ b \in JobRecord /\ JobFits(a) /\ JobFits(b)
    BY <2>1, JobOfTyped DEF JobKind, JobOf, JobFits
  <2>3. queue' = queue \o <<a, b>>
    BY <1>11 DEF FollowUp
  <2> HIDE DEF a, b
  <2>4. Jobs' = Jobs \cup {a, b}
    <3>1. <<a, b>> \in Seq(JobRecord) /\ {<<a, b>>[i] : i \in 1..Len(<<a, b>>)} = {a, b}
      BY <2>2
    <3> QED
      BY <1>1, <2>3, <3>1, JobsGrow
  <2>5. ApiGoes
    BY <1>1, <1>11, ApiIdle DEF FollowUp
  <2> QED
    BY <1>11, <2>2, <2>4, <2>5, ApiQueues DEF FollowUp
<1> QED
  BY <1>2, <1>3, <1>4, <1>5, <1>6, <1>7, <1>8, <1>9, <1>10, <1>11 DEF IngestStep

\* The stages of a saved text name its entry.
LEMMA StagesGood ==
    ASSUME TypeInv, NEW e \in Entry, Live(e),
           \/ queue' = queue \o SaveStages(e)
           \/ \E n \in 0..2 : queue' = queue \o SubSeq(SaveStages(e), 1, n)
    PROVE  \A j \in Jobs' : j \in Jobs \/ JobFits(j)
<1>1. SaveStages(e) \in Seq(JobRecord) /\ Len(SaveStages(e)) = 3
      /\ \A i \in 1..3 : JobFits(SaveStages(e)[i])
  BY StagesTyped DEF SaveStages, JobOf, JobFits
<1>2. PICK more : /\ queue' = queue \o more
                  /\ more \in Seq(JobRecord)
                  /\ \A i \in 1..Len(more) : JobFits(more[i])
  <2>1. CASE queue' = queue \o SaveStages(e)
    BY <1>1, <2>1
  <2>2. CASE \E n \in 0..2 : queue' = queue \o SubSeq(SaveStages(e), 1, n)
    <3>1. PICK n \in 0..2 : queue' = queue \o SubSeq(SaveStages(e), 1, n)
      BY <2>2
    <3> DEFINE more == SubSeq(SaveStages(e), 1, n)
    <3>2. more \in Seq(JobRecord)
      BY StagesTyped
    <3>3. Len(more) = n /\ \A i \in 1..n : more[i] = SaveStages(e)[i]
      BY <1>1, SubSeqProperties
    <3> HIDE DEF more
    <3>4. \A i \in 1..Len(more) : JobFits(more[i])
      BY <1>1, <3>3
    <3> QED
      BY <3>1, <3>2, <3>4 DEF more
  <2> QED
    BY <2>1, <2>2
<1>3. Jobs' = Jobs \cup {more[i] : i \in 1..Len(more)}
  BY <1>2, JobsGrow
<1> QED
  BY <1>2, <1>3

LEMMA ApiOrphans ==
    ASSUME VectorInv, Guarded, ApiStep
    PROVE  Guarded'
<1> DEFINE l == thread["api"]
           e == thread["api"].entry
<1>1. /\ TypeInv /\ Shaped(l) /\ l \in Local
      /\ l.pc \in EntrySteps => e \in Entry /\ Live(e)
  BY LocalTyped DEF Guarded, VectorInv, TypeInv, Shaped
<1>2. CASE IngestStep("api")
  BY <1>2, ApiIngests
<1>3. CASE SaveText
  <2>1. e \in Entry /\ Live(e)
    BY <1>1, <1>3 DEF SaveText, At, EntrySteps
  <2> DEFINE new == [db[e] EXCEPT !.text = db[e].text + 1, !.count = l.count,
                                  !.stale = TRUE, !.newer = db[e].moods # 0]
  <2>2. db' = [db EXCEPT ![e] = new] /\ new.state = db[e].state
    BY <1>1, <1>3, <2>1, RowTyped DEF SaveText, TextUpdated, TypeInv, Row
  <2> HIDE DEF new
  <2>3. \A d \in Entry : Live(d) => db'[d].state = "live"
    BY <1>1, <2>1, <2>2 DEF TypeInv, TypeOK, Live
  <2>4. ApiGoes
    BY <1>1, <1>3, <2>1, <2>3, ApiGoto DEF SaveText, Steps
  <2> QED
    BY <1>3, <2>3, <2>4, ApiQuiet DEF SaveText
<1>4. CASE SubmitStages
  <2>1. e \in Entry /\ Live(e)
    BY <1>1, <1>4 DEF SubmitStages, At, EntrySteps
  <2>2. \A j \in Jobs' : j \in Jobs \/ JobFits(j)
    BY <1>1, <1>4, <2>1, StagesGood DEF SubmitStages
  <2>3. ApiGoes
    BY <1>1, <1>4, ApiIdle DEF SubmitStages
  <2> QED
    BY <1>4, <2>2, <2>3, ApiQueues DEF SubmitStages
<1>5. CASE PurgeVectors
  <2>1. e \in Entry /\ Live(e) /\ l.pc = "purge"
    BY <1>1, <1>5 DEF PurgeVectors, At, EntrySteps
  <2>2. \A d \in Entry : /\ d # e => vectors'[d] = vectors[d]
                         /\ d = e => \A i \in ChunkId : vectors'[d][i] = NoVector
    BY <1>1, <1>5 DEF PurgeVectors, VectorsDeleted, TypeInv, TypeOK
  <2> DEFINE r == [l EXCEPT !.pc = "drop"]
  <2>3. r.pc = "drop" /\ r.entry = e
    BY <1>1 DEF Local
  <2>4. thread' = [thread EXCEPT !["api"] = r] /\ UNCHANGED <<db, queue>>
    BY <1>5 DEF PurgeVectors, Goto, Becomes
  <2> HIDE DEF r
  <2>5. ApiGoes
    BY <1>1, <2>1, <2>2, <2>3, <2>4 DEF ApiGoes, Live, TypeInv, TypeOK
  <2>6. JobsGood
    BY <2>4 DEF JobsGood, Jobs
  <2>7. VectorsOfLive
    BY <2>2 DEF VectorsOfLive, Empty
  <2> QED
    BY <2>4, <2>5, <2>6, <2>7, ApiKeeps DEF Live
<1>6. CASE DropRow
  <2>1. /\ e \in Entry /\ Live(e) /\ l.pc = "drop" /\ Empty(e)
        /\ \A j \in Jobs : j.entry # e
        /\ thread["worker"].job # e
    BY <1>1, <1>6 DEF DropRow, At, EntrySteps, Guarded, Deleting
  <2>2. \A d \in Entry : d # e => db'[d] = db[d]
    BY <1>6 DEF DropRow, RowDeleted, VectorInv, TypeInv, TypeOK
  <2>3. /\ thread'["api"] = Idle /\ thread'["worker"] = thread["worker"]
        /\ Jobs' = Jobs /\ vectors' = vectors
    BY <1>1, <1>6 DEF DropRow, Becomes, TypeInv, TypeOK, Jobs
  <2>4. \A j \in Jobs' : JobFits(j)'
    BY <2>1, <2>2, <2>3 DEF Guarded, JobFits, Live
  <2>5. thread'["worker"].job \in Entry => Live(thread["worker"].job)'
    BY <2>1, <2>2, <2>3 DEF Guarded, Live
  <2>6. \A d \in Entry : ~Live(d)' => Empty(d)'
    BY <2>1, <2>2, <2>3 DEF Guarded, Live, Empty
  <2>7. thread'["api"].pc = "idle" /\ Deleting'
    BY <2>3 DEF Idle, Deleting, At
  <2> QED
    BY <2>3, <2>4, <2>5, <2>6, <2>7 DEF Guarded, EntrySteps
<1> QED
  BY <1>2, <1>3, <1>4, <1>5, <1>6 DEF ApiStep

-----------------------------------------------------------------------------
(* Calls that raise, and the end of the process.                           *)

LEMMA FaultOrphans ==
    ASSUME VectorInv, Guarded, Fault
    PROVE  Guarded'
<1>1. /\ TypeInv /\ UNCHANGED <<db, vectors>> /\ WorkerFits(thread["worker"])
      /\ \A e \in Entry : Live(e) => db'[e].state = "live"
      /\ \A t \in Thread : thread[t] \in Local /\ Shaped(thread[t])
      /\ thread["api"].pc \in EntrySteps =>
            /\ thread["api"].entry \in Entry /\ Live(thread["api"].entry)
            /\ db'[thread["api"].entry].state = "live"
  BY LocalTyped DEF VectorInv, TypeInv, Shaped, Guarded, Live,
                    Fault, CallRaises, ScorerFails, FollowUpRaises, SubmissionRaises
<1>2. CASE CallRaises("worker")
  <2>1. EntryDone("worker")
    BY <1>1, <1>2 DEF CallRaises, WorkerFits, SingleKinds, BatchKinds
  <2> QED
    BY <1>1, <1>2, <2>1, WorkerEntryDone, WorkerQuiet DEF CallRaises, Jobs
<1>3. CASE CallRaises("api")
  <2>1. CASE EntryDone("api")
    <3>1. ApiGoes
      BY <1>1, <2>1, ApiIdle, ApiGoto DEF EntryDone, Steps, EntrySteps
    <3> QED
      BY <1>1, <1>3, <3>1, ApiQuiet DEF CallRaises
  <2>2. CASE Becomes("api", [Ingesting("ingest", thread["api"].user, thread["api"].upload)
                                EXCEPT !.attempt = thread["api"].attempt + 1])
    <3> DEFINE q == Ingesting("ingest", thread["api"].user, thread["api"].upload)
               r == [q EXCEPT !.attempt = thread["api"].attempt + 1]
    <3>1. thread["api"].user \in Nat /\ thread["api"].upload \in Uploads \cup {<<>>}
      BY <1>1, LocalTyped DEF TypeInv
    <3>2. q \in Local /\ q.pc \in {"create", "check"}
      BY <3>1, IngestingShaped
    <3>3. Becomes("api", r)
      BY <2>2
    <3> HIDE DEF q
    <3>4. r.pc \in {"create", "check"}
      BY <3>2 DEF Local
    <3> HIDE DEF r
    <3>5. ApiGoes
      BY <1>1, <3>3, <3>4, ApiBecomes DEF EntrySteps
    <3> QED
      BY <1>1, <1>3, <3>5, ApiQuiet DEF CallRaises
  <2> QED
    BY <1>3, <2>1, <2>2 DEF CallRaises
<1>4. CASE ScorerFails("worker")
  <2>1. ScoresInline(thread["worker"]) => thread["worker"].kind = "reprocess"
    BY <1>1 DEF ScoresInline, WorkerFits, SingleKinds, BatchKinds
  <2>2. WorkerGoes
    BY <1>1, <1>4, <2>1, WorkerEntryDone, WorkerGoto DEF ScorerFails, Steps
  <2> QED
    BY <1>1, <1>4, <2>2, WorkerQuiet DEF ScorerFails, Jobs
<1>5. CASE ScorerFails("api")
  <2>1. thread["api"].pc \in EntrySteps
    BY <1>5 DEF ScorerFails, At, EntrySteps
  <2>2. ApiGoes
    BY <1>1, <1>5, <2>1, ApiIdle, ApiGoto DEF ScorerFails, EntryDone, Steps, EntrySteps
  <2> QED
    BY <1>1, <1>5, <2>2, ApiQuiet DEF ScorerFails
<1>6. CASE FollowUpRaises("worker")
  BY <1>1, <1>6 DEF FollowUpRaises, At, WorkerFits
<1>7. CASE FollowUpRaises("api")
  <2>1. thread["api"].entry \in Entry /\ Live(thread["api"].entry)
    BY <1>1, <1>7 DEF FollowUpRaises, At, EntrySteps
  <2>2. PICK k \in {"mood", "extract"} : queue' = Append(queue, JobOf(k, thread["api"].entry))
    BY <1>7 DEF FollowUpRaises
  <2>3. JobOf(k, thread["api"].entry) \in JobRecord /\ JobFits(JobOf(k, thread["api"].entry))
    BY <2>1, JobOfTyped DEF JobKind, JobFits, JobOf
  <2>4. Jobs' = Jobs \cup {JobOf(k, thread["api"].entry)}
    BY <1>1, <2>2, <2>3, JobAppended
  <2>5. ApiGoes
    BY <1>1, <1>7, ApiIdle DEF FollowUpRaises
  <2> QED
    BY <1>1, <2>3, <2>4, <2>5, ApiQueues
<1>8. CASE SubmissionRaises
  <2>1. thread["api"].entry \in Entry /\ Live(thread["api"].entry)
    BY <1>1, <1>8 DEF SubmissionRaises, At, EntrySteps
  <2>2. \A j \in Jobs' : j \in Jobs \/ JobFits(j)
    BY <1>1, <1>8, <2>1, StagesGood DEF SubmissionRaises
  <2>3. ApiGoes
    BY <1>1, <1>8, ApiIdle DEF SubmissionRaises
  <2> QED
    BY <1>1, <2>2, <2>3, ApiQueues
<1> QED
  BY <1>2, <1>3, <1>4, <1>5, <1>6, <1>7, <1>8 DEF Fault

LEMMA CrashOrphans ==
    ASSUME VectorInv, Guarded, Crash
    PROVE  Guarded'
<1>1. UNCHANGED <<db, vectors>> /\ Jobs' = {} /\ \A t \in Thread : thread'[t] = Idle
  BY DEF Crash, Jobs
<1>2. \A e \in Entry : ~Live(e)' => Empty(e)'
  BY <1>1 DEF Guarded, Live, Empty
<1>3. Deleting' /\ WorkerFits(thread["worker"])'
  BY <1>1 DEF Deleting, WorkerFits, At, Idle
<1> QED
  BY <1>1, <1>2, <1>3 DEF Guarded, EntrySteps, Idle

LEMMA NextOrphans ==
    ASSUME OrphanInv, [Next]_vars
    PROVE  OrphanInv'
<1>1. VectorInv /\ VectorInv'
  BY NextVectors DEF OrphanInv
<1>2. ASSUME "upload" \notin Requests PROVE Guarded'
  <2>1. Guarded
    BY <1>2 DEF OrphanInv
  <2>2. CASE UNCHANGED vars
    BY <2>1, <2>2 DEF vars, Guarded, JobFits, WorkerFits, Deleting, Live, Empty, Jobs, At
  <2>3. CASE Next
    BY <1>1, <1>2, <2>1, <2>3, ApiRequests, ApiOrphans, WorkerOrphans, FaultOrphans,
       CrashOrphans DEF Next
  <2> QED
    BY <2>2, <2>3
<1> QED
  BY <1>1, <1>2 DEF OrphanInv

LEMMA OrphanInvariant == Spec => []OrphanInv
BY InitOrphans, NextOrphans, PTL DEF Spec

\* Where entries are only made on the event loop, a deleted entry has no
\* vectors, however its delete meets queued and running jobs, raising calls
\* and crashes.
THEOREM NoOrphans == Spec => []NoOrphanVectors
<1>1. OrphanInv => NoOrphanVectors
  BY DEF OrphanInv, Guarded, NoOrphanVectors, Live, Empty
<1> QED
  BY <1>1, OrphanInvariant, PTL

\* There, a job that waits or runs never misses the entry it names.
THEOREM JobsKeepEntries == Spec => []JobsHaveEntries
<1>1. OrphanInv => JobsHaveEntries
  <2> SUFFICES ASSUME OrphanInv, "upload" \notin Requests
               PROVE  /\ \A i \in 1..Len(queue) :
                             queue[i].entry # NoEntry => Live(queue[i].entry)
                      /\ thread["worker"].job # NoEntry => Live(thread["worker"].job)
    BY DEF JobsHaveEntries
  <2>1. TypeInv /\ Guarded
    BY DEF OrphanInv, VectorInv
  <2>2. ASSUME NEW i \in 1..Len(queue), queue[i].entry # NoEntry PROVE Live(queue[i].entry)
    <3>1. queue[i] \in JobRecord /\ JobFits(queue[i])
      BY <2>1 DEF TypeInv, TypeOK, Guarded, Jobs
    <3> QED
      BY <2>2, <3>1 DEF JobFits, JobRecord
  <2>3. thread["worker"].job # NoEntry => Live(thread["worker"].job)
    BY <2>1, LocalTyped DEF TypeInv, Guarded
  <2> QED
    BY <2>2, <2>3
<1> QED
  BY <1>1, OrphanInvariant, PTL

-----------------------------------------------------------------------------
(* Duplicates.  The invariant: while the worker is the only one to store   *)
(* files, those it has checked stay in no entry but its own.               *)

\* The places of the upload that have passed the check.
Checked(l) ==
    CASE l.pc = "check" -> 1..(l.idx - 1)
      [] l.pc = "read" -> 1..l.idx
      [] l.pc \in {"create", "store"} -> 1..Len(l.upload)
      [] OTHER -> {}

\* Entry d may have file f while thread l ingests: they are its own.
Owns(l, d) == l.pc = "store" /\ d = l.entry

FilesKept(l) ==
    \A i \in Checked(l) : \A d \in Entry : l.upload[i] \in db[d].files => Owns(l, d)

Unshared ==
    /\ \A d, e \in Entry : d # e => db[d].files \cap db[e].files = {}
    /\ FilesKept(thread["worker"])
    /\ thread["api"].upload = <<>>
    /\ thread["api"].pc \notin {"check", "read", "store"}

FileInv == TypeInv /\ ("media" \notin Requests => Unshared)

LEMMA InitFiles == Init => FileInv
<1> SUFFICES ASSUME Init PROVE Unshared
  BY InitTyped DEF FileInv
<1>1. thread["worker"] = Idle /\ thread["api"] = Idle /\ \A d \in Entry : db[d].files = {}
  BY DEF Init, Absent
<1>2. Idle.pc = "idle" /\ Idle.upload = <<>>
  BY DEF Idle
<1> QED
  BY <1>1, <1>2 DEF Unshared, FilesKept

\* No entry is given a file.
NoNewFiles == \A d \in Entry : db'[d].files \subseteq db[d].files

\* What a thread does with its upload.
WorkerFiles ==
    LET l == thread'["worker"]
    IN  \A i \in Checked(l) : \A d \in Entry : l.upload[i] \in db'[d].files => Owns(l, d)

ApiFiles == thread'["api"].upload = <<>> /\ thread'["api"].pc \notin {"check", "read", "store"}

LEMMA FilesStep ==
    ASSUME Unshared, NoNewFiles, WorkerFiles, ApiFiles
    PROVE  Unshared'
<1>1. \A d, e \in Entry : d # e => db'[d].files \cap db'[e].files = {}
  BY DEF Unshared, NoNewFiles
<1>2. FilesKept(thread["worker"])'
  BY DEF WorkerFiles, FilesKept, Checked, Owns
<1> QED
  BY <1>1, <1>2 DEF Unshared, ApiFiles

\* A thread that has not begun to ingest, or is beyond the files.
LEMMA FilesFree ==
    ASSUME thread'["worker"].pc \notin {"check", "read", "create", "store"}
    PROVE  WorkerFiles
BY DEF WorkerFiles, Checked

LEMMA WorkerWaits ==
    ASSUME Unshared, NoNewFiles, thread'["worker"] = thread["worker"]
    PROVE  WorkerFiles
BY DEF Unshared, FilesKept, WorkerFiles, NoNewFiles, Checked, Owns

LEMMA SameFiles ==
    ASSUME UNCHANGED db
    PROVE  NoNewFiles
BY DEF NoNewFiles

\* The writes on a row that are not of files.
LEMMA WriteFiles ==
    ASSUME TypeInv, NEW e \in Entry,
           \/ \E v : db' = Chunked(e, v) \/ db' = Scored(e, v) \/ db' = Mentioned(e, v)
           \/ \E n : db' = Counted(e, n)
           \/ db' = Extracted(e)
           \/ db' = db
    PROVE  NoNewFiles
<1> DEFINE Fits(new) == new.files = db[e].files
<1>1. db \in [Entry -> Row] /\ db[e] \in Row
  BY DEF TypeInv, TypeOK
<1>2. \E new : Fits(new) /\ db' = [db EXCEPT ![e] = new]
  <2>1. CASE \E v : db' = Chunked(e, v)
    BY <1>1, <2>1 DEF Chunked, Row
  <2>2. CASE \E v : db' = Scored(e, v)
    BY <1>1, <2>2 DEF Scored, Row
  <2>3. CASE \E v : db' = Mentioned(e, v)
    BY <1>1, <2>3 DEF Mentioned, Row
  <2>4. CASE \E n : db' = Counted(e, n)
    BY <1>1, <2>4 DEF Counted, Row
  <2>5. CASE db' = Extracted(e)
    BY <1>1, <2>5 DEF Extracted, Row
  <2>6. CASE db' = db
    BY <1>1, <2>6
  <2> QED
    BY <2>1, <2>2, <2>3, <2>4, <2>5, <2>6
<1> QED
  BY <1>1, <1>2 DEF NoNewFiles

\* Thread t goes on and the other waits.
LEMMA GotoFiles ==
    ASSUME TypeInv, NEW t \in Thread, NEW step \in Steps, Goto(t, step)
    PROVE  /\ thread'[t].pc = step /\ thread'[t].upload = thread[t].upload
           /\ thread'[t].idx = thread[t].idx /\ thread'[t].entry = thread[t].entry
           /\ \A s \in Thread \ {t} : thread'[s] = thread[s]
<1> DEFINE r == [thread[t] EXCEPT !.pc = step]
<1>1. /\ r.pc = step /\ r.upload = thread[t].upload /\ r.idx = thread[t].idx
      /\ r.entry = thread[t].entry
  BY LocalTyped DEF TypeInv, Local
<1>2. thread' = [thread EXCEPT ![t] = r]
  BY DEF Goto, Becomes
<1> HIDE DEF r
<1> QED
  BY <1>1, <1>2 DEF TypeInv, TypeOK

LEMMA IdleFiles ==
    ASSUME TypeInv, NEW t \in Thread, Becomes(t, Idle)
    PROVE  /\ thread'[t].pc = "idle" /\ thread'[t].upload = <<>>
           /\ \A s \in Thread \ {t} : thread'[s] = thread[s]
BY DEF TypeInv, TypeOK, Becomes, Idle

LEMMA EntryDoneFiles ==
    ASSUME TypeInv, NEW t \in Thread, EntryDone(t)
    PROVE  /\ thread'[t].pc \in {"idle", "next"}
           /\ thread'[t].upload \in {<<>>, thread[t].upload}
           /\ \A s \in Thread \ {t} : thread'[s] = thread[s]
BY IdleFiles, GotoFiles DEF EntryDone, Steps

LEMMA BecomesFiles ==
    ASSUME TypeInv, NEW t \in Thread, NEW r, Becomes(t, r)
    PROVE  thread'[t] = r /\ \A s \in Thread \ {t} : thread'[s] = thread[s]
BY DEF TypeInv, TypeOK, Becomes

LEMMA RequestFiles ==
    ASSUME TypeInv, Unshared, Request, "media" \notin Requests
    PROVE  Unshared'
<1>1. NoNewFiles
  BY SameFiles DEF Request, PostText, PostUpload, CallMedia, Edit, CallUpdateTool, Delete,
                   PostExtract, PostBatch
<1>2. /\ Idle \in Local /\ Idle.upload = <<>>
      /\ thread["api"].upload = <<>> /\ thread["api"].pc \notin {"check", "read", "store"}
  BY IdleTyped DEF Idle, Unshared
<1>3. ASSUME UNCHANGED thread PROVE Unshared'
  <2>1. WorkerFiles
    BY <1>1, <1>3, WorkerWaits
  <2> QED
    BY <1>1, <1>2, <1>3, <2>1, FilesStep DEF ApiFiles
<1>4. ASSUME NEW r, Becomes("api", r), r.upload = <<>>, r.pc \in {"create", "save", "purge"}
      PROVE  Unshared'
  <2>1. thread'["api"] = r /\ thread'["worker"] = thread["worker"]
    BY <1>4, BecomesFiles
  <2>2. WorkerFiles
    BY <1>1, <2>1, WorkerWaits
  <2> QED
    BY <1>1, <1>4, <2>1, <2>2, FilesStep DEF ApiFiles
<1>5. ASSUME NEW u \in Users, PostText(u) PROVE Unshared'
  <2>1. Ingesting("text", u, <<>>).upload = <<>> /\ Ingesting("text", u, <<>>).pc = "create"
    BY <1>2 DEF Ingesting, Local
  <2> QED
    BY <1>4, <1>5, <2>1 DEF PostText
<1>6. ASSUME NEW u \in Users, NEW up \in Uploads \cup {<<>>}, CallMedia(u, up) PROVE FALSE
  BY <1>6 DEF CallMedia, Requested
<1>7. ASSUME NEW e \in Entry, Edit(e) PROVE Unshared'
  <2> DEFINE r == [Idle EXCEPT !.kind = "edit", !.pc = "save", !.entry = e,
                               !.count = db[e].count]
  <2>1. r.pc = "save" /\ r.upload = <<>>
    BY <1>2 DEF Local
  <2>2. Becomes("api", r)
    BY <1>7 DEF Edit
  <2> HIDE DEF r
  <2> QED
    BY <1>4, <2>1, <2>2
<1>8. ASSUME NEW e \in Entry, Delete(e) PROVE Unshared'
  <2> DEFINE r == [Idle EXCEPT !.kind = "delete", !.pc = "purge", !.entry = e]
  <2>1. r.pc = "purge" /\ r.upload = <<>>
    BY <1>2 DEF Local
  <2>2. Becomes("api", r)
    BY <1>8 DEF Delete
  <2> HIDE DEF r
  <2> QED
    BY <1>4, <2>1, <2>2
<1> QED
  BY <1>3, <1>5, <1>6, <1>7, <1>8
     DEF Request, PostUpload, CallUpdateTool, PostExtract, PostBatch

\* A job finds no file a second time before it makes an entry, and stores
\* what it has checked.
LEMMA WorkerIngestFiles ==
    ASSUME TypeInv, Unshared, IngestStep("worker")
    PROVE  Unshared'
<1> DEFINE l == thread["worker"]
           e == thread["worker"].entry
<1>1. /\ l \in Local /\ Shaped(l) /\ FilesKept(l) /\ l.idx \in Nat
      /\ l.upload \in Seq(File) /\ Len(l.upload) \in Nat
  BY LocalTyped, UploadTyped, LenProperties DEF TypeInv, Unshared
<1>2. ASSUME thread'["api"] = thread["api"] PROVE ApiFiles
  BY <1>2 DEF Unshared, ApiFiles
<1>3. ASSUME EntryDone("worker") \/ Becomes("worker", Idle), NoNewFiles PROVE Unshared'
  BY <1>2, <1>3, IdleFiles, EntryDoneFiles, FilesFree, FilesStep
<1>4. ASSUME NEW step \in Steps, Goto("worker", step), NoNewFiles,
             step \notin {"check", "read", "create", "store"}
      PROVE  Unshared'
  BY <1>2, <1>4, GotoFiles, FilesFree, FilesStep
<1>5. CASE CheckFile("worker")
  <2>1. NoNewFiles /\ l.pc = "check" /\ l.idx \in 1..Len(l.upload)
    BY <1>1, <1>5, SameFiles DEF CheckFile, At, Shaped, FileSteps
  <2>2. CASE ~IsDuplicate(l.upload[l.idx]) /\ Goto("worker", "read")
    <3>1. /\ thread'["worker"].pc = "read" /\ thread'["worker"].upload = l.upload
          /\ thread'["worker"].idx = l.idx /\ thread'["api"] = thread["api"]
      BY <2>2, GotoFiles DEF Steps
    <3>2. ASSUME NEW i \in 1..l.idx, NEW d \in Entry PROVE l.upload[i] \notin db[d].files
      <4>1. CASE i = l.idx
        BY <2>2, <4>1 DEF IsDuplicate
      <4>2. CASE i # l.idx
        BY <1>1, <2>1, <4>2 DEF FilesKept, Checked, Owns
      <4> QED
        BY <4>1, <4>2
    <3>3. WorkerFiles
      BY <2>1, <3>1, <3>2 DEF WorkerFiles, Checked, NoNewFiles
    <3> QED
      BY <1>2, <2>1, <3>1, <3>3, FilesStep
  <2> QED
    BY <1>3, <1>5, <2>1, <2>2 DEF CheckFile
<1>6. CASE ReadFile("worker")
  <2>1. NoNewFiles /\ l.pc = "read" /\ l.idx \in 1..Len(l.upload)
    BY <1>1, <1>6, SameFiles DEF ReadFile, At, Shaped, FileSteps
  <2>2. \A i \in 1..l.idx : \A d \in Entry : l.upload[i] \notin db[d].files
    BY <1>1, <2>1 DEF FilesKept, Checked, Owns
  <2>3. CASE Becomes("worker", [l EXCEPT !.pc = "check", !.idx = l.idx + 1])
    <3> DEFINE r == [l EXCEPT !.pc = "check", !.idx = l.idx + 1]
    <3>1. r.pc = "check" /\ r.idx = l.idx + 1 /\ r.upload = l.upload
      BY <1>1 DEF Local
    <3>2. Becomes("worker", r)
      BY <2>3
    <3> HIDE DEF r
    <3>3. thread'["worker"] = r /\ thread'["api"] = thread["api"]
      BY <3>2, BecomesFiles
    <3>4. Checked(r) = 1..l.idx
      BY <1>1, <3>1 DEF Checked
    <3>5. WorkerFiles
      BY <2>1, <2>2, <3>1, <3>3, <3>4 DEF WorkerFiles, NoNewFiles
    <3> QED
      BY <1>2, <2>1, <3>3, <3>5, FilesStep
  <2>4. CASE ~(l.idx < Len(l.upload)) /\ Goto("worker", "create")
    <3>1. /\ thread'["worker"].pc = "create" /\ thread'["worker"].upload = l.upload
          /\ thread'["api"] = thread["api"]
      BY <2>4, GotoFiles DEF Steps
    <3>2. l.idx = Len(l.upload)
      BY <1>1, <2>1, <2>4
    <3>3. WorkerFiles
      BY <2>1, <2>2, <3>1, <3>2 DEF WorkerFiles, Checked, NoNewFiles
    <3> QED
      BY <1>2, <2>1, <3>1, <3>3, FilesStep
  <2> QED
    BY <1>6, <2>3, <2>4 DEF ReadFile
<1>7. CASE CreateEntry("worker")
  <2> DEFINE step == IF l.upload = <<>> THEN "chunk" ELSE "store"
             r(d) == [l EXCEPT !.entry = d, !.text = 1, !.idx = 1, !.pc = step]
  <2>1. PICK d \in Entry : /\ FreshId(d) /\ db' = Created(d, l.user)
                           /\ Becomes("worker", r(d)) /\ l.pc = "create"
    BY <1>7 DEF CreateEntry, At
  <2>2. step \in {"chunk", "store"}
    OBVIOUS
  <2> HIDE DEF step
  <2>3. r(d).pc = step /\ r(d).upload = l.upload
    BY <1>1 DEF Local
  <2> HIDE DEF r
  <2>4. NoNewFiles
    BY <2>1 DEF Created, Absent, NoNewFiles, TypeInv, TypeOK
  <2>5. thread'["worker"] = r(d) /\ thread'["api"] = thread["api"]
    BY <2>1, BecomesFiles
  <2>6. \A i \in 1..Len(l.upload) : \A c \in Entry : l.upload[i] \notin db[c].files
    BY <1>1, <2>1 DEF FilesKept, Checked, Owns
  <2>7. WorkerFiles
    BY <2>2, <2>3, <2>4, <2>5, <2>6 DEF WorkerFiles, Checked, NoNewFiles
  <2> QED
    BY <1>2, <2>4, <2>5, <2>7, FilesStep
<1>8. CASE StoreFile("worker")
  <2> DEFINE f == l.upload[l.idx]
  <2>1. e \in Entry /\ l.pc = "store" /\ l.idx \in 1..Len(l.upload)
    BY <1>1, <1>8 DEF StoreFile, At, Shaped, EntrySteps, FileSteps
  <2>2. CASE Becomes("worker", Idle) /\ UNCHANGED db
    BY <1>3, <2>2, SameFiles
  <2>3. CASE /\ db' = Stored(e, f)
             /\ \/ Becomes("worker", [l EXCEPT !.idx = l.idx + 1])
                \/ Goto("worker", "chunk")
    <3>1. \A i \in 1..Len(l.upload) : \A d \in Entry :
              l.upload[i] \in db[d].files => d = e
      BY <1>1, <2>1 DEF FilesKept, Checked, Owns
    <3>2. /\ \A d \in Entry : d # e => db'[d].files = db[d].files
          /\ db'[e].files = db[e].files \cup {f}
      <4>1. db[e] \in Row
        BY <2>1, RowTyped DEF TypeInv
      <4>2. [db[e] EXCEPT !.files = db[e].files \cup {f}].files = db[e].files \cup {f}
        BY <4>1 DEF Row
      <4> DEFINE new == [db[e] EXCEPT !.files = db[e].files \cup {f}]
      <4>3. db' = [db EXCEPT ![e] = new]
        BY <2>3 DEF Stored
      <4> HIDE DEF new
      <4>4. new.files = db[e].files \cup {f}
        BY <4>2 DEF new
      <4> QED
        BY <2>1, <4>3, <4>4 DEF TypeInv, TypeOK
    <3>3. \A d \in Entry : f \in db[d].files => d = e
      BY <2>1, <3>1
    <3>4. \A c, d \in Entry : c # d => db'[c].files \cap db'[d].files = {}
      <4> SUFFICES ASSUME NEW c \in Entry, NEW d \in Entry, c # d, NEW g,
                          g \in db'[c].files, g \in db'[d].files
                   PROVE  FALSE
        OBVIOUS
      <4>1. db[c].files \cap db[d].files = {}
        BY DEF Unshared
      <4> QED
        BY <3>2, <3>3, <4>1
    <3>5. thread'["api"] = thread["api"]
      BY <2>3, GotoFiles, BecomesFiles DEF Steps
    <3>6. FilesKept(thread["worker"])'
      <4>1. CASE Becomes("worker", [l EXCEPT !.idx = l.idx + 1])
        <5> DEFINE r == [l EXCEPT !.idx = l.idx + 1]
        <5>1. r.pc = "store" /\ r.upload = l.upload /\ r.entry = e
          BY <1>1, <2>1 DEF Local
        <5>2. Becomes("worker", r)
          BY <4>1
        <5> HIDE DEF r
        <5>3. thread'["worker"] = r
          BY <5>2, BecomesFiles
        <5> QED
          BY <3>1, <3>2, <5>1, <5>3 DEF FilesKept, Checked, Owns
      <4>2. CASE Goto("worker", "chunk")
        <5>1. thread'["worker"].pc = "chunk"
          BY <4>2, GotoFiles DEF Steps
        <5> QED
          BY <5>1 DEF FilesKept, Checked
      <4> QED
        BY <2>3, <4>1, <4>2
    <3> QED
      BY <3>4, <3>5, <3>6 DEF Unshared
  <2> QED
    BY <1>8, <2>2, <2>3 DEF StoreFile
<1>9. CASE ReplaceChunks("worker")
  <2>1. NoNewFiles
    BY <1>1, <1>9, WriteFiles DEF ReplaceChunks, At, Shaped, EntrySteps
  <2> QED
    BY <1>3, <1>4, <1>9, <2>1 DEF ReplaceChunks, Steps
<1>10. CASE Embed("worker")
  <2>1. PICK step \in {"score", "count"} : Goto("worker", step)
    BY <1>10 DEF Embed
  <2> QED
    BY <1>4, <1>10, <2>1, SameFiles DEF Embed, Steps
<1>11. CASE Score("worker")
  <2>1. NoNewFiles
    BY <1>1, <1>11, WriteFiles DEF Score, At, Shaped, EntrySteps
  <2> QED
    BY <1>3, <1>4, <1>11, <2>1 DEF Score, Steps
<1>12. CASE UpdateCount("worker")
  <2>1. NoNewFiles
    BY <1>1, <1>12, WriteFiles DEF UpdateCount, At, Shaped, EntrySteps
  <2> QED
    BY <1>3, <1>4, <1>12, <2>1 DEF UpdateCount, Steps
<1>13. CASE Return("worker")
  BY <1>3, <1>4, <1>13, SameFiles DEF Return, Steps
<1>14. CASE FollowUp("worker")
  BY <1>3, <1>14, SameFiles DEF FollowUp
<1> QED
  BY <1>5, <1>6, <1>7, <1>8, <1>9, <1>10, <1>11, <1>12, <1>13, <1>14 DEF IngestStep

\* An ingestion starts with nothing checked, at first and on a retry.
LEMMA StartFiles ==
    ASSUME NEW u \in Nat, NEW up \in Uploads \cup {<<>>}, NEW r,
           r.pc = Ingesting("ingest", u, up).pc, r.idx = 1, r.upload = up
    PROVE  Checked(r) = {}
<1>1. CASE up = <<>>
  <2>1. r.pc = "create" /\ Len(up) = 0
    BY <1>1, IdleTyped DEF Ingesting, Local
  <2> QED
    BY <2>1 DEF Checked
<1>2. CASE up # <<>>
  <2>1. r.pc = "check"
    BY <1>2, IdleTyped DEF Ingesting, Local
  <2> QED
    BY <2>1 DEF Checked
<1> QED
  BY <1>1, <1>2

LEMMA WorkerStepFiles ==
    ASSUME TypeInv, Unshared, WorkerStep("worker")
    PROVE  Unshared'
<1> DEFINE l == thread["worker"]
           e == thread["worker"].entry
<1>1. l \in Local /\ Shaped(l)
  BY LocalTyped DEF TypeInv
<1>2. ASSUME thread'["api"] = thread["api"] PROVE ApiFiles
  BY <1>2 DEF Unshared, ApiFiles
<1>3. ASSUME EntryDone("worker") \/ Becomes("worker", Idle), NoNewFiles PROVE Unshared'
  BY <1>2, <1>3, IdleFiles, EntryDoneFiles, FilesFree, FilesStep
<1>4. ASSUME NEW step \in Steps, Goto("worker", step), NoNewFiles,
             step \notin {"check", "read", "create", "store"}
      PROVE  Unshared'
  BY <1>2, <1>4, GotoFiles, FilesFree, FilesStep
<1>5. ASSUME NEW r, Becomes("worker", r), Checked(r) = {}, NoNewFiles PROVE Unshared'
  <2>1. thread'["worker"] = r /\ thread'["api"] = thread["api"]
    BY <1>5, BecomesFiles
  <2>2. WorkerFiles
    BY <1>5, <2>1 DEF WorkerFiles
  <2> QED
    BY <1>2, <1>5, <2>1, <2>2, FilesStep
<1>6. CASE Take("worker")
  <2> DEFINE j == Head(queue)
  <2>1. NoNewFiles /\ j \in JobRecord /\ Idle \in Local
    BY <1>6, SameFiles, IdleTyped, HeadTailProperties DEF Take, TypeInv, TypeOK
  <2>2. j.user \in Nat /\ j.upload \in Uploads \cup {<<>>}
    BY <2>1 DEF JobRecord
  <2>3. PICK r : /\ Becomes("worker", r)
                 /\ r \in {Ingesting("ingest", j.user, j.upload),
                            [Idle EXCEPT !.kind = j.kind, !.pc = "select"],
                            [Idle EXCEPT !.kind = j.kind, !.pc = "next",
                                         !.job = j.entry, !.todo = {j.entry}]}
    BY <1>6 DEF Take
  <2> HIDE DEF j
  <2>4. CASE r = Ingesting("ingest", j.user, j.upload)
    <3>1. r.idx = 1 /\ r.upload = j.upload
      BY <2>1, <2>4 DEF Ingesting, Local
    <3>2. Checked(r) = {}
      BY <2>2, <2>4, <3>1, StartFiles
    <3> QED
      BY <1>5, <2>1, <2>3, <3>2
  <2>5. CASE r # Ingesting("ingest", j.user, j.upload)
    <3>1. r.pc \in {"select", "next"}
      BY <2>1, <2>3, <2>5 DEF Local
    <3>2. Checked(r) = {}
      BY <3>1 DEF Checked
    <3> QED
      BY <1>5, <2>1, <2>3, <3>2
  <2> QED
    BY <2>4, <2>5
<1>7. CASE Select("worker")
  <2>1. CASE Becomes("worker", [l EXCEPT !.pc = "next", !.todo = Selected(l.kind)])
    <3> DEFINE r == [l EXCEPT !.pc = "next", !.todo = Selected(l.kind)]
    <3>1. r.pc = "next"
      BY <1>1 DEF Local
    <3>2. Becomes("worker", r)
      BY <2>1
    <3> HIDE DEF r
    <3> QED
      BY <1>5, <1>7, <3>1, <3>2, SameFiles DEF Select, Checked
  <2> QED
    BY <1>3, <1>7, <2>1, SameFiles DEF Select
<1>8. CASE ReadEntry("worker")
  <2>1. PICK d \in l.todo :
           \/ Becomes("worker", Idle)
           \/ Becomes("worker", [l EXCEPT !.todo = l.todo \ {d}])
           \/ Becomes("worker", [l EXCEPT !.pc = FirstStep(l.kind), !.entry = d,
                                          !.text = db[d].text, !.user = DefaultUser,
                                          !.todo = l.todo \ {d}])
    BY <1>8 DEF ReadEntry
  <2>2. NoNewFiles /\ l.pc = "next" /\ l.kind \in SingleKinds \cup BatchKinds
    BY <1>1, <1>8, <2>1, SameFiles DEF ReadEntry, At, Shaped
  <2>3. CASE Becomes("worker", Idle)
    BY <1>3, <2>2, <2>3
  <2>4. CASE Becomes("worker", [l EXCEPT !.todo = l.todo \ {d}])
    <3> DEFINE r == [l EXCEPT !.todo = l.todo \ {d}]
    <3>1. r.pc = "next"
      BY <1>1, <2>2 DEF Local
    <3>2. Becomes("worker", r)
      BY <2>4
    <3> HIDE DEF r
    <3> QED
      BY <1>5, <2>2, <3>1, <3>2 DEF Checked
  <2>5. CASE Becomes("worker", [l EXCEPT !.pc = FirstStep(l.kind), !.entry = d,
                                         !.text = db[d].text, !.user = DefaultUser,
                                         !.todo = l.todo \ {d}])
    <3> DEFINE step == FirstStep(l.kind)
               r == [l EXCEPT !.pc = step, !.entry = d, !.text = db[d].text,
                              !.user = DefaultUser, !.todo = l.todo \ {d}]
    <3>1. step \in {"clear", "model", "score"}
      BY <2>2 DEF FirstStep, SingleKinds, BatchKinds
    <3>2. Becomes("worker", r)
      BY <2>5
    <3> HIDE DEF step
    <3>3. r.pc = step
      BY <1>1 DEF Local
    <3> HIDE DEF r
    <3> QED
      BY <1>5, <2>2, <3>1, <3>2, <3>3 DEF Checked
  <2> QED
    BY <2>1, <2>3, <2>4, <2>5
<1>9. CASE ClearVectors("worker")
  BY <1>4, <1>9, SameFiles DEF ClearVectors, Steps
<1>10. CASE ModelAnswers("worker")
  <2>1. NoNewFiles
    BY <1>1, <1>10, WriteFiles DEF ModelAnswers, At, Shaped, EntrySteps
  <2> QED
    BY <1>4, <1>10, <2>1 DEF ModelAnswers, Steps
<1>11. CASE WriteMentions("worker")
  <2>1. NoNewFiles
    BY <1>1, <1>11, WriteFiles DEF WriteMentions, At, Shaped, EntrySteps
  <2> QED
    BY <1>3, <1>4, <1>11, <2>1 DEF WriteMentions, Steps
<1>12. CASE MarkExtracted("worker")
  <2>1. NoNewFiles
    BY <1>1, <1>12, WriteFiles DEF MarkExtracted, At, Shaped, EntrySteps
  <2> QED
    BY <1>3, <1>12, <2>1 DEF MarkExtracted
<1> QED
  BY <1>6, <1>7, <1>8, <1>9, <1>10, <1>11, <1>12, WorkerIngestFiles DEF WorkerStep

\* The event loop has no files in its hands.
LEMMA ApiStepFiles ==
    ASSUME TypeInv, Unshared, ApiStep
    PROVE  Unshared'
<1> DEFINE l == thread["api"]
           e == thread["api"].entry
<1>1. l \in Local /\ Shaped(l) /\ l.upload = <<>> /\ l.pc \notin {"check", "read", "store"}
  BY LocalTyped DEF TypeInv, Unshared
<1>2. ASSUME EntryDone("api") \/ Becomes("api", Idle), NoNewFiles PROVE Unshared'
  <2>1. thread'["worker"] = thread["worker"] /\ ApiFiles
    BY <1>1, <1>2, IdleFiles, EntryDoneFiles DEF ApiFiles
  <2> QED
    BY <1>2, <2>1, WorkerWaits, FilesStep
<1>3. ASSUME NEW step \in Steps, Goto("api", step), NoNewFiles,
             step \notin {"check", "read", "store"}
      PROVE  Unshared'
  <2>1. thread'["worker"] = thread["worker"] /\ ApiFiles
    BY <1>1, <1>3, GotoFiles DEF ApiFiles
  <2> QED
    BY <1>3, <2>1, WorkerWaits, FilesStep
<1>4. CASE CreateEntry("api")
  <2> DEFINE r(d) == [l EXCEPT !.entry = d, !.text = 1, !.idx = 1, !.pc = "chunk"]
  <2>1. PICK d \in Entry : FreshId(d) /\ db' = Created(d, l.user) /\ Becomes("api", r(d))
    BY <1>1, <1>4 DEF CreateEntry
  <2>2. r(d).pc = "chunk" /\ r(d).upload = <<>>
    BY <1>1 DEF Local
  <2> HIDE DEF r
  <2>3. NoNewFiles
    BY <2>1 DEF Created, Absent, NoNewFiles, TypeInv, TypeOK
  <2>4. thread'["worker"] = thread["worker"] /\ ApiFiles
    BY <2>1, <2>2, BecomesFiles DEF ApiFiles
  <2> QED
    BY <2>3, <2>4, WorkerWaits, FilesStep
<1>5. CASE ReplaceChunks("api")
  <2>1. NoNewFiles
    BY <1>1, <1>5, WriteFiles DEF ReplaceChunks, At, Shaped, EntrySteps
  <2> QED
    BY <1>2, <1>3, <1>5, <2>1 DEF ReplaceChunks, Steps
<1>6. CASE Embed("api")
  <2>1. PICK step \in {"score", "count"} : Goto("api", step)
    BY <1>6 DEF Embed
  <2> QED
    BY <1>3, <1>6, <2>1, SameFiles DEF Embed, Steps
<1>7. CASE Score("api")
  <2>1. NoNewFiles
    BY <1>1, <1>7, WriteFiles DEF Score, At, Shaped, EntrySteps
  <2> QED
    BY <1>2, <1>3, <1>7, <2>1 DEF Score, Steps
<1>8. CASE UpdateCount("api")
  <2>1. NoNewFiles
    BY <1>1, <1>8, WriteFiles DEF UpdateCount, At, Shaped, EntrySteps
  <2> QED
    BY <1>2, <1>3, <1>8, <2>1 DEF UpdateCount, Steps
<1>9. CASE Return("api")
  BY <1>2, <1>3, <1>9, SameFiles DEF Return, Steps
<1>10. CASE FollowUp("api")
  BY <1>2, <1>10, SameFiles DEF FollowUp
<1>11. CASE SaveText
  <2>1. e \in Entry /\ db[e] \in Row
    BY <1>1, <1>11, RowTyped DEF SaveText, At, Shaped, EntrySteps, TypeInv
  <2> DEFINE new == [db[e] EXCEPT !.text = db[e].text + 1, !.count = l.count,
                                  !.stale = TRUE, !.newer = db[e].moods # 0]
  <2>2. db' = [db EXCEPT ![e] = new] /\ new.files = db[e].files
    BY <1>11, <2>1 DEF SaveText, TextUpdated, Row
  <2> HIDE DEF new
  <2>3. NoNewFiles
    BY <2>1, <2>2 DEF TypeInv, TypeOK, NoNewFiles
  <2> QED
    BY <1>3, <1>11, <2>3 DEF SaveText, Steps
<1>12. CASE SubmitStages
  BY <1>2, <1>12, SameFiles DEF SubmitStages
<1>13. CASE PurgeVectors
  BY <1>3, <1>13, SameFiles DEF PurgeVectors, Steps
<1>14. CASE DropRow
  <2>1. NoNewFiles
    BY <1>14 DEF DropRow, RowDeleted, Absent, NoNewFiles, TypeInv, TypeOK
  <2> QED
    BY <1>2, <1>14, <2>1 DEF DropRow
<1> QED
  BY <1>1, <1>4, <1>5, <1>6, <1>7, <1>8, <1>9, <1>10, <1>11, <1>12, <1>13, <1>14
     DEF ApiStep, IngestStep, CheckFile, ReadFile, StoreFile, At

\* A retry starts again from nothing checked, whatever the attempt before it
\* has left in the tables.
LEMMA FaultFiles ==
    ASSUME TypeInv, Unshared, Fault
    PROVE  Unshared'
<1>1. NoNewFiles
  BY SameFiles DEF Fault, CallRaises, ScorerFails, FollowUpRaises, SubmissionRaises
<1>2. ASSUME NEW t \in Thread, NEW r, Becomes(t, r),
             t = "worker" => Checked(r) = {},
             t = "api" => r.upload = <<>> /\ r.pc \notin {"check", "read", "store"}
      PROVE  Unshared'
  <2>1. thread'[t] = r /\ \A s \in Thread \ {t} : thread'[s] = thread[s]
    BY <1>2, BecomesFiles
  <2>2. CASE t = "worker"
    <3>1. WorkerFiles /\ ApiFiles
      BY <1>2, <2>1, <2>2 DEF WorkerFiles, ApiFiles, Unshared
    <3> QED
      BY <1>1, <3>1, FilesStep
  <2>3. CASE t = "api"
    <3>1. thread'["worker"] = thread["worker"] /\ ApiFiles
      BY <1>2, <2>1, <2>3 DEF ApiFiles
    <3> QED
      BY <1>1, <3>1, WorkerWaits, FilesStep
  <2> QED
    BY <2>2, <2>3
<1>3. ASSUME NEW t \in Thread, NEW step \in {"next", "count"}, Goto(t, step) PROVE Unshared'
  <2> DEFINE r == [thread[t] EXCEPT !.pc = step]
  <2>1. r.pc = step /\ r.upload = thread[t].upload
    BY LocalTyped DEF TypeInv, Local
  <2>2. Becomes(t, r)
    BY <1>3 DEF Goto
  <2> HIDE DEF r
  <2> QED
    BY <1>2, <2>1, <2>2 DEF Checked, Unshared
<1>4. ASSUME NEW t \in Thread, Becomes(t, Idle) PROVE Unshared'
  <2>1. Idle.pc = "idle" /\ Idle.upload = <<>>
    BY DEF Idle
  <2> QED
    BY <1>2, <1>4, <2>1 DEF Checked
<1>5. ASSUME NEW t \in Thread, EntryDone(t) PROVE Unshared'
  BY <1>3, <1>4, <1>5 DEF EntryDone
<1>6. ASSUME NEW t \in Thread, CallRaises(t) PROVE Unshared'
  <2>1. CASE Becomes(t, [Ingesting("ingest", thread[t].user, thread[t].upload)
                            EXCEPT !.attempt = thread[t].attempt + 1])
    <3> DEFINE u == thread[t].user
               up == thread[t].upload
               q == Ingesting("ingest", u, up)
               r == [q EXCEPT !.attempt = thread[t].attempt + 1]
    <3>1. u \in Nat /\ up \in Uploads \cup {<<>>}
      BY LocalTyped DEF TypeInv
    <3>2. Becomes(t, r)
      BY <2>1
    <3>3. t = "api" => up = <<>>
      BY DEF Unshared
    <3> HIDE DEF u, up
    <3>4. q \in Local
      BY <3>1, IngestingShaped
    <3>5. q.idx = 1 /\ q.upload = up /\ (up = <<>> => q.pc = "create")
      BY IdleTyped DEF Ingesting, Local
    <3>6. r.pc = q.pc /\ r.idx = 1 /\ r.upload = up
      BY <3>4, <3>5 DEF Local
    <3> HIDE DEF r
    <3>7. Checked(r) = {}
      BY <3>1, <3>6, StartFiles
    <3>8. t = "api" => r.upload = <<>> /\ r.pc \notin {"check", "read", "store"}
      BY <3>3, <3>5, <3>6
    <3> QED
      BY <1>2, <3>2, <3>7, <3>8
  <2> QED
    BY <1>5, <1>6, <2>1 DEF CallRaises
<1> QED
  BY <1>3, <1>4, <1>5, <1>6 DEF Fault, ScorerFails, FollowUpRaises, SubmissionRaises

LEMMA NextFiles ==
    ASSUME FileInv, [Next]_vars
    PROVE  FileInv'
<1>1. TypeInv /\ TypeInv'
  BY NextTyped DEF FileInv
<1>2. ASSUME "media" \notin Requests PROVE Unshared'
  <2>1. Unshared
    BY <1>2 DEF FileInv
  <2>2. CASE UNCHANGED vars
    BY <2>1, <2>2 DEF vars, Unshared, FilesKept, Checked, Owns
  <2>3. CASE Crash
    <3>1. NoNewFiles /\ thread'["worker"] = Idle /\ thread'["api"] = Idle
      BY <2>3, SameFiles DEF Crash
    <3>2. WorkerFiles /\ ApiFiles
      BY <3>1, FilesFree DEF Idle, ApiFiles
    <3> QED
      BY <2>1, <3>1, <3>2, FilesStep
  <2>4. CASE Next
    BY <1>1, <1>2, <2>1, <2>3, <2>4, RequestFiles, ApiStepFiles, WorkerStepFiles, FaultFiles
       DEF Next
  <2> QED
    BY <2>2, <2>4
<1> QED
  BY <1>1, <1>2 DEF FileInv

LEMMA FileInvariant == Spec => []FileInv
BY InitFiles, NextFiles, PTL DEF Spec

\* While files are only ingested by jobs, no file is ever in two entries,
\* whatever is uploaded again, retried or lost in a crash.
THEOREM FilesUnshared == Spec => []OneEntryPerFile
<1>1. FileInv => OneEntryPerFile
  BY DEF FileInv, Unshared, OneEntryPerFile
<1> QED
  BY <1>1, FileInvariant, PTL

=============================================================================
