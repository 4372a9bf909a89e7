---------------------------- MODULE JobRunnerProofs ----------------------------
(***************************************************************************)
(* Proofs about JobRunner, for every value of its constants.               *)
(***************************************************************************)
EXTENDS JobRunner, SequenceTheorems, TLAPS

USE DEF JobId, NoJob, Thread

LEMMA RowTyped ==
    ASSUME TypeOK, NEW j \in JobId
    PROVE  /\ rows[j] \in Row
           /\ rows[j].status \in {"absent"} \cup Active \cup Terminal
           /\ rows[j].parent \in JobId \cup {NoJob}
           /\ rows[j].followUps \in Seq(JobId)
BY DEF TypeOK, Row

LEMMA LocalTyped ==
    ASSUME TypeOK, NEW t \in Thread
    PROVE  /\ thread[t] \in Local
           /\ thread[t].pc \in Steps
           /\ thread[t].job \in JobId \cup {NoJob}
           /\ thread[t].plan \in Seq(Kind)
           /\ thread[t].made \in Seq(JobId)
           /\ thread[t].idx \in Nat
           /\ thread[t].attempt \in Nat
           /\ thread[t].bad \in BOOLEAN
           /\ thread[t].guarded \in BOOLEAN
           /\ thread[t].known \in BOOLEAN
BY DEF TypeOK, Local

\* The initial state has its type.
LEMMA InitTyped == Init => TypeOK
<1> SUFFICES ASSUME Init PROVE TypeOK
  OBVIOUS
<1>1. Blank \in Row
  BY DEF Blank, Row
<1>2. Idle \in Local
  BY DEF Idle, Local, Steps
<1>3. rows \in [JobId -> Row] /\ thread \in [Thread -> Local]
  BY <1>1, <1>2 DEF Init
<1>4. pushes \in [JobId -> [PushKinds -> Nat]]
  BY DEF Init
<1> QED
  BY <1>3, <1>4 DEF Init, TypeOK

\* The new contents of the jobs table, whatever call wrote them.
LEMMA CreatedTyped ==
    ASSUME TypeOK, NEW j \in JobId, NEW k \in Kind, NEW p \in JobId \cup {NoJob}
    PROVE  Created(j, k, p) \in [JobId -> Row]
<1> DEFINE new == [Blank EXCEPT !.status = "queued", !.kind = k, !.parent = p]
<1>1. Blank \in Row
  BY DEF Blank, Row
<1>2. new \in Row
  BY <1>1 DEF Row, Active
<1> QED
  BY <1>2 DEF Created, TypeOK

LEMMA RunningTyped ==
    ASSUME TypeOK, NEW j
    PROVE  Running(j) \in [JobId -> Row]
BY DEF Running, TypeOK, Row, Active

LEMMA DetailedTyped ==
    ASSUME TypeOK, NEW j, NEW d \in BOOLEAN
    PROVE  Detailed(j, d) \in [JobId -> Row]
BY DEF Detailed, TypeOK, Row

LEMMA SucceededTyped ==
    ASSUME TypeOK, NEW j, NEW kids \in Seq(JobId)
    PROVE  Succeeded(j, kids) \in [JobId -> Row]
BY DEF Succeeded, TypeOK, Row, Terminal

LEMMA FailedTyped ==
    ASSUME TypeOK, NEW j
    PROVE  Failed(j) \in [JobId -> Row]
BY DEF Failed, TypeOK, Row, Terminal

LEMMA ClaimedTyped ==
    ASSUME TypeOK, NEW j
    PROVE  Claimed(j) \in [JobId -> Row]
BY DEF Claimed, TypeOK, Row

LEMMA ReconciledTyped ==
    ASSUME TypeOK
    PROVE  Reconciled \in [JobId -> Row]
BY ZenonT(40) DEF Reconciled, ReconciledBy, TypeOK, Row, Terminal

LEMMA PushTyped ==
    ASSUME TypeOK, NEW j, NEW k \in PushKinds, Push(j, k)
    PROVE  pushes' \in [JobId -> [PushKinds -> Nat]]
<1> DEFINE counted == [pushes[j] EXCEPT ![k] = @ + 1]
<1>1. pushes' = [pushes EXCEPT ![j] = counted]
  BY DEF Push
<1>2. j \in JobId => counted \in [PushKinds -> Nat]
  BY DEF TypeOK
<1> HIDE DEF counted
<1> QED
  BY <1>1, <1>2 DEF TypeOK

LEMMA WrittenTyped ==
    ASSUME TypeOK, NEW t \in Thread
    PROVE  Written(t) \in [JobId -> Row]
<1>1. rows \in [JobId -> Row] /\ thread[t].made \in Seq(JobId)
  BY LocalTyped DEF TypeOK
<1> QED
  BY <1>1, RunningTyped, DetailedTyped, SucceededTyped, FailedTyped,
     ClaimedTyped DEF Written

\* A change of the local state of thread t that keeps its type.
LEMMA GotoTyped ==
    ASSUME TypeOK, NEW t \in Thread, NEW step \in Steps, Goto(t, step)
    PROVE  thread' \in [Thread -> Local]
BY DEF Goto, Becomes, TypeOK, Local

LEMMA GoIdleTyped ==
    ASSUME TypeOK, NEW t \in Thread, GoIdle(t)
    PROVE  thread' \in [Thread -> Local]
BY DEF GoIdle, Becomes, Idle, TypeOK, Local, Steps

LEMMA MovedTyped ==
    ASSUME TypeOK, NEW t \in Thread, NEW r \in Local, Becomes(t, r)
    PROVE  thread' \in [Thread -> Local]
BY DEF Becomes, TypeOK

LEMMA CaughtTyped ==
    ASSUME TypeOK, Caught
    PROVE  thread' \in [Thread -> Local]
<1> DEFINE r == [thread["worker"] EXCEPT !.pc = "fail", !.guarded = FALSE]
<1>1. r \in Local
  BY LocalTyped DEF Local, Steps
<1>2. Becomes("worker", r)
  BY DEF Caught
<1> HIDE DEF r
<1> QED
  BY <1>1, <1>2, MovedTyped

\* Whoever is submitting still has something to submit.
PlanOK ==
    \A t \in Thread :
        thread[t].pc \in {"children", "follow"} => thread[t].plan # <<>>

LEMMA PlanTyped ==
    ASSUME TypeOK, PlanOK, NEW t \in Thread, thread[t].pc \in {"children", "follow"}
    PROVE  /\ Head(thread[t].plan) \in Kind
           /\ Tail(thread[t].plan) \in Seq(Kind)
           /\ Len(thread[t].plan) # 1 => Tail(thread[t].plan) # <<>>
<1>1. thread[t].plan \in Seq(Kind) /\ thread[t].plan # <<>>
  BY LocalTyped DEF PlanOK
<1>2. /\ Head(thread[t].plan) \in Kind
      /\ Tail(thread[t].plan) \in Seq(Kind)
      /\ Len(Tail(thread[t].plan)) = Len(thread[t].plan) - 1
  BY <1>1, HeadTailProperties
<1>3. Len(thread[t].plan) \in Nat /\ Len(thread[t].plan) # 0
  BY <1>1, EmptySeq, LenProperties
<1>4. ASSUME Len(thread[t].plan) # 1 PROVE Tail(thread[t].plan) # <<>>
  <2>1. Len(Tail(thread[t].plan)) # 0
    BY <1>2, <1>3, <1>4
  <2>2. Len(<<>>) = 0
    OBVIOUS
  <2> QED
    BY <2>1, <2>2
<1> QED
  BY <1>2, <1>4

LEMMA SubmittedTyped ==
    ASSUME TypeOK, PlanOK, NEW t \in Thread, NEW made \in Seq(JobId),
           thread[t].pc \in {"children", "follow"}
    PROVE  /\ Submitted(t, made) \in Local
           /\ Submitted(t, made).pc \in {"children", "follow"} =>
                  Submitted(t, made).plan # <<>>
<1>1. thread[t].pc \in Steps /\ thread[t] \in Local
  BY LocalTyped
<1> QED
  BY <1>1, PlanTyped DEF Submitted, Local, Steps

\* Every step keeps the type of every variable.
LEMMA TypeStep == TypeOK /\ PlanOK /\ [Next]_vars => TypeOK'
<1> SUFFICES ASSUME TypeOK, PlanOK, [Next]_vars PROVE TypeOK'
  OBVIOUS
<1>1. ASSUME NEW k \in ApiKinds, Submit(k) PROVE TypeOK'
  <2>1. k \in Kind /\ NoJob \in JobId \cup {NoJob}
    BY ApiKindsAssumption DEF Kind
  <2>2. PICK j \in JobId :
            /\ rows' = Created(j, k, NoJob)
            /\ pending' = IF k = "ingest" THEN pending \cup {j} ELSE pending
            /\ queue' = Append(queue, j)
    BY <1>1 DEF Submit
  <2>3. rows' \in [JobId -> Row]
    BY <2>1, <2>2, CreatedTyped
  <2>4. queue' \in Seq(JobId)
    BY <2>2, AppendProperties DEF TypeOK
  <2> QED
    BY <1>1, <2>2, <2>3, <2>4 DEF Submit, TypeOK
<1>2. ASSUME NEW mood \in MoodSettings, BeginPipeline(mood) PROVE TypeOK'
  <2>1. PICK p \in JobId :
            /\ rows' = Created(p, "pipeline", NoJob)
            /\ Becomes("api", [Idle EXCEPT !.pc = "children", !.job = p,
                                           !.plan = SaveStages(mood)])
    BY <1>2 DEF BeginPipeline
  <2>2. rows' \in [JobId -> Row]
    BY <2>1, CreatedTyped DEF Kind
  <2>3. SaveStages(mood) \in Seq(Kind)
    <3>1. <<"reprocess", "extract">> \in Seq(Kind) /\ <<"mood">> \in Seq(Kind)
          /\ <<>> \in Seq(Kind)
      BY DEF Kind
    <3> QED
      BY <3>1, ConcatProperties DEF SaveStages
  <2>4. Idle \in Local
    BY DEF Idle, Local, Steps
  <2>5. [Idle EXCEPT !.pc = "children", !.job = p, !.plan = SaveStages(mood)] \in Local
    BY <2>3, <2>4 DEF Local, Steps
  <2>6. thread' \in [Thread -> Local]
    BY <2>1, <2>5, MovedTyped
  <2> QED
    BY <1>2, <2>2, <2>6 DEF BeginPipeline, TypeOK
<1>3. CASE SubmitChild
  <2>1. /\ thread["api"].pc = "children" /\ thread["api"].plan # <<>>
        /\ Head(thread["api"].plan) \in Kind
        /\ Tail(thread["api"].plan) \in Seq(Kind)
        /\ thread["api"] \in Local
        /\ thread["api"].job \in JobId \cup {NoJob}
        /\ thread["api"].made \in Seq(JobId)
    BY <1>3, PlanTyped, LocalTyped DEF SubmitChild, At, PlanOK
  <2>2. PICK j \in JobId :
            /\ rows' = Created(j, Head(thread["api"].plan), thread["api"].job)
            /\ queue' = Append(queue, j)
            /\ Becomes("api", Submitted("api", Append(thread["api"].made, j)))
    BY <1>3 DEF SubmitChild, Job
  <2>3. rows' \in [JobId -> Row]
    BY <2>1, <2>2, CreatedTyped
  <2>4. queue' \in Seq(JobId) /\ Append(thread["api"].made, j) \in Seq(JobId)
    BY <2>1, <2>2, AppendProperties DEF TypeOK
  <2>5. thread' \in [Thread -> Local]
    BY <2>1, <2>2, <2>4, SubmittedTyped, MovedTyped
  <2> QED
    BY <1>3, <2>3, <2>4, <2>5 DEF SubmitChild, TypeOK
<1>4. CASE FinishParent
  <2>1. rows' \in [JobId -> Row]
    BY <1>4, LocalTyped, SucceededTyped DEF FinishParent
  <2>2. thread' \in [Thread -> Local]
    BY <1>4, GotoTyped DEF FinishParent, AfterParent, Steps
  <2> QED
    BY <1>4, <2>1, <2>2 DEF FinishParent, TypeOK
<1>5. ASSUME NEW t \in Thread, ReadParent(t) PROVE TypeOK'
  <2> DEFINE r == [thread[t] EXCEPT !.pc = "check_child", !.idx = 1, !.bad = FALSE]
  <2>1. r \in Local
    BY LocalTyped DEF Local, Steps
  <2>2. GoIdle(t) \/ Becomes(t, r)
    BY <1>5 DEF ReadParent
  <2> HIDE DEF r
  <2>3. thread' \in [Thread -> Local]
    BY <2>1, <2>2, GoIdleTyped, MovedTyped
  <2> QED
    BY <1>5, <2>3 DEF ReadParent, TypeOK
<1>6. ASSUME NEW t \in Thread, ReadChild(t) PROVE TypeOK'
  <2> DEFINE kids == rows[Watched(t)].followUps
             kid  == kids[thread[t].idx]
             r    == [thread[t] EXCEPT !.idx = thread[t].idx + 1,
                                       !.bad = AnyFailed(t, kid),
                                       !.pc = IF thread[t].idx = Len(kids)
                                              THEN "claim" ELSE "check_child"]
  <2>1. AnyFailed(t, kid) \in BOOLEAN
    BY DEF AnyFailed
  <2>2. GoIdle(t) \/ Becomes(t, r)
    BY <1>6 DEF ReadChild
  <2> HIDE DEF kids, kid
  <2>3. r \in Local
    <3>1. ASSUME NEW i \in Nat, NEW b \in BOOLEAN, NEW step \in Steps
          PROVE  [thread[t] EXCEPT !.idx = i, !.bad = b, !.pc = step] \in Local
      BY LocalTyped DEF Local
    <3>2. /\ thread[t].idx + 1 \in Nat
          /\ (IF thread[t].idx = Len(kids) THEN "claim" ELSE "check_child") \in Steps
      BY LocalTyped DEF Steps
    <3> QED
      BY <2>1, <3>1, <3>2
  <2> HIDE DEF r
  <2>4. thread' \in [Thread -> Local]
    BY <2>2, <2>3, GoIdleTyped, MovedTyped
  <2> QED
    BY <1>6, <2>4 DEF ReadChild, TypeOK
<1>7. ASSUME NEW t \in Thread, Claim(t) PROVE TypeOK'
  <2>1. thread' \in [Thread -> Local]
    <3>1. "send" \in Steps
      BY DEF Steps
    <3>2. GoIdle(t) \/ Goto(t, "send")
      BY <1>7 DEF Claim
    <3> QED
      BY <3>1, <3>2, GoIdleTyped, GotoTyped
  <2>2. rows' \in [JobId -> Row]
    <3>1. rows' = rows \/ rows' = Claimed(Watched(t))
      BY <1>7 DEF Claim
    <3> QED
      BY <3>1, ClaimedTyped DEF TypeOK
  <2> QED
    BY <1>7, <2>1, <2>2 DEF Claim, TypeOK
<1>8. ASSUME NEW t \in Thread, Send(t) PROVE TypeOK'
  <2>1. thread' \in [Thread -> Local]
    BY <1>8, GoIdleTyped DEF Send
  <2>2. pushes' \in [JobId -> [PushKinds -> Nat]]
    <3>1. SummaryKind(t) \in PushKinds
      BY DEF SummaryKind, PushKinds
    <3> QED
      BY <1>8, <3>1, PushTyped DEF Send
  <2> QED
    BY <1>8, <2>1, <2>2 DEF Send, TypeOK
<1>9. CASE Take
  <2>1. Head(queue) \in JobId /\ queue' \in Seq(JobId)
    BY <1>9, HeadTailProperties DEF Take, TypeOK
  <2>2. Idle \in Local
    BY DEF Idle, Local, Steps
  <2>3. [Idle EXCEPT !.pc = "start", !.job = Head(queue), !.guarded = TRUE,
                     !.known = ~IsIngest(Head(queue))] \in Local
    <3>1. ASSUME NEW b \in BOOLEAN
          PROVE  [Idle EXCEPT !.pc = "start", !.job = Head(queue), !.guarded = TRUE,
                              !.known = b] \in Local
      BY <2>1, <2>2 DEF Local, Steps
    <3>2. CASE IsIngest(Head(queue))
      <4>1. (~IsIngest(Head(queue))) = FALSE
        BY <3>2
      <4> QED
        BY <3>1, <4>1
    <3>3. CASE ~IsIngest(Head(queue))
      <4>1. (~IsIngest(Head(queue))) = TRUE
        BY <3>3
      <4> QED
        BY <3>1, <4>1
    <3> QED
      BY <3>2, <3>3
  <2>4. thread' \in [Thread -> Local]
    BY <1>9, <2>3, MovedTyped DEF Take
  <2> QED
    BY <1>9, <2>1, <2>4 DEF Take, TypeOK
<1>10. CASE Start
  <2>1. rows' \in [JobId -> Row]
    BY <1>10, RunningTyped DEF Start
  <2>2. [thread["worker"] EXCEPT !.pc = "body", !.known = TRUE] \in Local
    BY LocalTyped DEF Local, Steps
  <2>3. thread' \in [Thread -> Local]
    BY <1>10, <2>2, MovedTyped DEF Start
  <2> QED
    BY <1>10, <2>1, <2>3 DEF Start, TypeOK
<1>11. CASE BodyReturns
  <2>1. <<"mood", "extract">> \in Seq(Kind)
    BY DEF Kind
  <2> DEFINE r == [thread["worker"] EXCEPT !.pc = "follow", !.plan = <<"mood", "extract">>]
  <2>2. r \in Local
    BY <2>1, LocalTyped DEF Local, Steps
  <2>3. Goto("worker", "succeed") \/ Becomes("worker", r)
    BY <1>11 DEF BodyReturns
  <2> HIDE DEF r
  <2>4. thread' \in [Thread -> Local]
    BY <2>2, <2>3, GotoTyped, MovedTyped DEF Steps
  <2> QED
    BY <1>11, <2>4 DEF BodyReturns, TypeOK
<1>12. CASE BodyRaises
  <2>1. thread' \in [Thread -> Local]
    BY <1>12, CaughtTyped DEF BodyRaises
  <2> QED
    BY <1>12, <2>1 DEF BodyRaises, TypeOK
<1>13. CASE EntryMissing
  <2>1. thread' \in [Thread -> Local]
    BY <1>13, GotoTyped DEF EntryMissing, Steps
  <2> QED
    BY <1>13, <2>1 DEF EntryMissing, TypeOK
<1>14. CASE BodyTransient
  <2>1. rows' \in [JobId -> Row] /\ thread' \in [Thread -> Local]
    BY <1>14, DetailedTyped, GotoTyped DEF BodyTransient, Steps
  <2>2. pushes' \in [JobId -> [PushKinds -> Nat]]
    BY <1>14, PushTyped DEF BodyTransient, PushKinds, TypeOK
  <2> QED
    BY <1>14, <2>1, <2>2 DEF BodyTransient, TypeOK
<1>15. CASE Wake
  <2>1. rows' \in [JobId -> Row]
    BY <1>15, DetailedTyped DEF Wake
  <2>2. thread' \in [Thread -> Local]
    <3> DEFINE r == [thread["worker"] EXCEPT !.pc = "body",
                        !.attempt = thread["worker"].attempt + 1]
    <3>1. r \in Local
      <4>1. thread["worker"].attempt + 1 \in Nat
        BY LocalTyped
      <4> QED
        BY <4>1, LocalTyped DEF Local, Steps
    <3>2. Becomes("worker", r)
      BY <1>15 DEF Wake
    <3> HIDE DEF r
    <3> QED
      BY <3>1, <3>2, MovedTyped
  <2> QED
    BY <1>15, <2>1, <2>2 DEF Wake, TypeOK
<1>16. ASSUME NEW made \in Seq(JobId), thread["worker"].pc = "follow",
              NextFollowUp(made)
       PROVE  thread' \in [Thread -> Local]
  BY <1>16, SubmittedTyped, MovedTyped DEF NextFollowUp
<1>17. ASSUME NEW k \in Kind, NEW p \in JobId \cup {NoJob}, LostOrCreated(k, p)
       PROVE  rows' \in [JobId -> Row]
  BY <1>17, CreatedTyped DEF LostOrCreated, TypeOK
<1>18. CASE QueueFollowUp
  <2>1. /\ thread["worker"].pc = "follow"
        /\ Head(thread["worker"].plan) \in Kind
        /\ thread["worker"].job \in JobId \cup {NoJob}
        /\ thread["worker"].made \in Seq(JobId)
    BY <1>18, PlanTyped, LocalTyped DEF QueueFollowUp, At
  <2>2. PICK j \in JobId :
            /\ rows' = Created(j, Head(thread["worker"].plan), thread["worker"].job)
            /\ \/ /\ queue' = Append(queue, j)
                  /\ NextFollowUp(Append(thread["worker"].made, j))
               \/ /\ UNCHANGED queue
                  /\ NextFollowUp(thread["worker"].made)
    BY <1>18 DEF QueueFollowUp, Job
  <2>3. rows' \in [JobId -> Row]
    BY <2>1, <2>2, CreatedTyped
  <2>4. Append(queue, j) \in Seq(JobId) /\ Append(thread["worker"].made, j) \in Seq(JobId)
    BY <2>1, AppendProperties DEF TypeOK
  <2>5. queue' \in Seq(JobId) /\ thread' \in [Thread -> Local]
    BY <1>16, <2>1, <2>2, <2>4 DEF TypeOK
  <2> QED
    BY <1>18, <2>3, <2>5 DEF QueueFollowUp, TypeOK
<1>19. CASE Succeed
  <2>1. rows' \in [JobId -> Row]
    BY <1>19, LocalTyped, SucceededTyped DEF Succeed
  <2>2. thread' \in [Thread -> Local]
    BY <1>19, GoIdleTyped, GotoTyped DEF Succeed, AfterSuccess, Steps
  <2> QED
    BY <1>19, <2>1, <2>2 DEF Succeed, TypeOK
<1>20. CASE AnnounceSuccess
  <2>1. thread' \in [Thread -> Local] /\ pushes' \in [JobId -> [PushKinds -> Nat]]
    BY <1>20, GoIdleTyped, PushTyped DEF AnnounceSuccess, PushKinds
  <2> QED
    BY <1>20, <2>1 DEF AnnounceSuccess, TypeOK
<1>21. CASE Fail
  <2>1. rows' \in [JobId -> Row] /\ thread' \in [Thread -> Local]
    BY <1>21, FailedTyped, GotoTyped, GoIdleTyped DEF Fail, Steps
  <2> QED
    BY <1>21, <2>1 DEF Fail, TypeOK
<1>22. CASE AnnounceFailure
  <2>1. pushes' \in [JobId -> [PushKinds -> Nat]]
    BY <1>22, PushTyped DEF AnnounceFailure, PushKinds, TypeOK
  <2>2. thread' \in [Thread -> Local]
    BY <1>22, GoIdleTyped, GotoTyped DEF AnnounceFailure, Steps
  <2> QED
    BY <1>22, <2>1, <2>2 DEF AnnounceFailure, TypeOK
<1>23. ASSUME NEW k \in ApiKinds \cup {"pipeline"}, SubmitFaults(k) PROVE TypeOK'
  <2>1. k \in Kind /\ NoJob \in JobId \cup {NoJob}
    BY ApiKindsAssumption DEF Kind
  <2>2. rows' \in [JobId -> Row]
    BY <1>17, <1>23, <2>1 DEF SubmitFaults
  <2> QED
    BY <1>23, <2>2 DEF SubmitFaults, Faulty, TypeOK
<1>24. CASE PipelineFaults
  <2>1. rows' \in [JobId -> Row]
    <3>1. CASE thread["api"].pc = "children"
      BY <1>17, <1>24, <3>1, PlanTyped, LocalTyped DEF PipelineFaults, Job
    <3>2. CASE thread["api"].pc # "children"
      BY <1>24, <3>2, WrittenTyped DEF PipelineFaults, TypeOK
    <3> QED
      BY <3>1, <3>2
  <2>2. thread' \in [Thread -> Local]
    BY <1>24, GoIdleTyped DEF PipelineFaults
  <2> QED
    BY <1>24, <2>1, <2>2 DEF PipelineFaults, Faulty, TypeOK
<1>25. CASE FollowUpFaults
  <2>1. rows' \in [JobId -> Row]
    BY <1>17, <1>25, PlanTyped, LocalTyped DEF FollowUpFaults, At, Job
  <2>2. thread' \in [Thread -> Local]
    BY <1>16, <1>25, LocalTyped DEF FollowUpFaults, At
  <2> QED
    BY <1>25, <2>1, <2>2 DEF FollowUpFaults, Faulty, TypeOK
<1>26. CASE WorkerFaults
  <2>1. rows' \in [JobId -> Row]
    BY <1>26, WrittenTyped DEF WorkerFaults, TypeOK
  <2>2. thread' \in [Thread -> Local]
    BY <1>26, GoIdleTyped, CaughtTyped DEF WorkerFaults
  <2>3. pending' \in SUBSET JobId /\ faults' \in Nat
    <3>1. pending' = pending \ {Job("worker")} /\ faults' = faults + 1
      BY <1>26 DEF WorkerFaults, DataDropped, Faulty
    <3>2. pending \in SUBSET JobId /\ faults \in Nat
      BY DEF TypeOK
    <3>3. pending' \in SUBSET JobId
      BY <3>1, <3>2
    <3>4. faults' \in Nat
      BY <3>1, <3>2
    <3> QED
      BY <3>3, <3>4
  <2> QED
    BY <1>26, <2>1, <2>2, <2>3 DEF WorkerFaults, TypeOK
<1>27. ASSUME Down, stops' \in Nat PROVE TypeOK'
  <2>1. Idle \in Local
    BY DEF Idle, Local, Steps
  <2>2. thread' \in [Thread -> Local]
    BY <1>27, <2>1 DEF Down
  <2>3. queue' \in Seq(JobId)
    BY <1>27 DEF Down
  <2> QED
    BY <1>27, <2>2, <2>3 DEF Down, TypeOK
<1>28. CASE Crash \/ Exit
  <2>1. Down /\ stops' \in Nat
    BY <1>28 DEF Crash, Exit, TypeOK
  <2> QED
    BY <1>27, <2>1
<1>29. CASE Shutdown
  <2>1. queue' \in Seq(JobId) /\ stops' \in Nat
    BY <1>29 DEF Shutdown, TypeOK
  <2> QED
    BY <1>29, <2>1 DEF Shutdown, TypeOK
<1>30. CASE Restart
  <2>1. rows' \in [JobId -> Row]
    BY <1>30, ReconciledTyped DEF Restart
  <2> QED
    BY <1>30, <2>1 DEF Restart, TypeOK
<1>31. CASE UNCHANGED vars
  BY <1>31 DEF vars, TypeOK
<1> QED
  BY <1>1, <1>2, <1>3, <1>4, <1>5, <1>6, <1>7, <1>8, <1>9, <1>10, <1>11, <1>12,
     <1>13, <1>14, <1>15, <1>18, <1>19, <1>20, <1>21, <1>22, <1>23, <1>24, <1>25,
     <1>26, <1>28, <1>29, <1>30, <1>31
  DEF Next, Request, Check, ApiStep, WorkerStep, Fault, Process

\* Every step leaves whoever is submitting something to submit.
LEMMA PlanStep == TypeOK /\ PlanOK /\ [Next]_vars => PlanOK'
<1> SUFFICES ASSUME TypeOK, PlanOK, [Next]_vars PROVE PlanOK'
  OBVIOUS
<1>1. ASSUME NEW t \in Thread, NEW r \in Local, Becomes(t, r),
             r.pc \in {"children", "follow"} => r.plan # <<>>
      PROVE  PlanOK'
  BY <1>1 DEF Becomes, PlanOK, TypeOK
<1>2. ASSUME NEW t \in Thread, NEW step \in Steps \ {"children", "follow"},
             Goto(t, step)
      PROVE  PlanOK'
  BY <1>2 DEF Goto, Becomes, PlanOK, TypeOK, Local
<1>3. ASSUME NEW t \in Thread, GoIdle(t) PROVE PlanOK'
  BY <1>3 DEF GoIdle, Becomes, Idle, PlanOK, TypeOK
<1>4. ASSUME UNCHANGED thread PROVE PlanOK'
  BY <1>4 DEF PlanOK
<1>5. ASSUME thread' = [t \in Thread |-> Idle] PROVE PlanOK'
  BY <1>5 DEF PlanOK, Idle
<1>6. ASSUME Caught PROVE PlanOK'
  BY <1>6 DEF Caught, Becomes, PlanOK, TypeOK, Local
<1>7. ASSUME NEW t \in Thread, NEW made \in Seq(JobId),
             thread[t].pc \in {"children", "follow"},
             Becomes(t, Submitted(t, made))
      PROVE  PlanOK'
  BY <1>1, <1>7, SubmittedTyped
<1>8. ASSUME NEW mood \in MoodSettings, BeginPipeline(mood) PROVE PlanOK'
  <2>1. SaveStages(mood) # <<>>
    BY DEF SaveStages
  <2> QED
    BY <1>8, <2>1 DEF BeginPipeline, Becomes, Idle, PlanOK, TypeOK
<1>9. CASE SubmitChild
  <2>1. thread["api"].made \in Seq(JobId)
    BY LocalTyped
  <2>2. PICK j \in JobId : Becomes("api", Submitted("api", Append(thread["api"].made, j)))
    BY <1>9 DEF SubmitChild
  <2> QED
    BY <1>7, <1>9, <2>1, <2>2, AppendProperties DEF SubmitChild, At
<1>10. CASE FinishParent
  BY <1>2, <1>10 DEF FinishParent, AfterParent, Steps
<1>11. ASSUME NEW t \in Thread, Check(t) PROVE PlanOK'
  <2>1. CASE ReadParent(t)
    BY <1>3, <2>1 DEF ReadParent, Becomes, PlanOK, TypeOK, Local
  <2>2. CASE ReadChild(t)
    BY ZenonT(40), <1>3, <2>2 DEF ReadChild, Becomes, PlanOK, TypeOK, Local
  <2>3. CASE Claim(t)
    BY <1>2, <1>3, <2>3 DEF Claim, Steps
  <2>4. CASE Send(t)
    BY <1>3, <2>4 DEF Send
  <2> QED
    BY <1>11, <2>1, <2>2, <2>3, <2>4 DEF Check
<1>12. CASE Take
  BY <1>12 DEF Take, Becomes, Idle, PlanOK, TypeOK
<1>13. CASE BodyReturns
  <2> DEFINE r == [thread["worker"] EXCEPT !.pc = "follow", !.plan = <<"mood", "extract">>]
  <2>1. r \in Local
    <3>1. <<"mood", "extract">> \in Seq(Kind)
      BY DEF Kind
    <3> QED
      BY <3>1, LocalTyped DEF Local, Steps
  <2>2. r.plan # <<>>
    <3>1. r.plan = <<"mood", "extract">>
      BY LocalTyped DEF Local
    <3> QED
      BY <3>1
  <2>3. Goto("worker", "succeed") \/ Becomes("worker", r)
    BY <1>13 DEF BodyReturns
  <2> HIDE DEF r
  <2> QED
    BY <1>1, <1>2, <2>1, <2>2, <2>3 DEF Steps
<1>14. CASE BodyRaises
  BY <1>6, <1>14 DEF BodyRaises
<1>15. CASE EntryMissing \/ BodyTransient \/ Fail
  BY <1>2, <1>3, <1>15 DEF EntryMissing, BodyTransient, Fail, Steps
<1>16. CASE Start \/ Wake
  BY <1>16 DEF Start, Wake, Becomes, PlanOK, TypeOK, Local
<1>17. CASE QueueFollowUp
  <2>1. thread["worker"].pc = "follow" /\ thread["worker"].made \in Seq(JobId)
    BY <1>17, LocalTyped DEF QueueFollowUp, At
  <2>2. PICK j \in JobId : \/ NextFollowUp(Append(thread["worker"].made, j))
                           \/ NextFollowUp(thread["worker"].made)
    BY <1>17 DEF QueueFollowUp
  <2> QED
    BY <1>7, <2>1, <2>2, AppendProperties DEF NextFollowUp
<1>18. CASE Succeed
  BY <1>2, <1>3, <1>18 DEF Succeed, AfterSuccess, Steps
<1>19. CASE AnnounceSuccess
  BY <1>3, <1>19 DEF AnnounceSuccess
<1>20. CASE AnnounceFailure
  BY <1>2, <1>3, <1>20 DEF AnnounceFailure, Steps
<1>21. CASE PipelineFaults
  BY <1>3, <1>21 DEF PipelineFaults
<1>22. CASE FollowUpFaults
  <2>1. thread["worker"].pc = "follow" /\ thread["worker"].made \in Seq(JobId)
    BY <1>22, LocalTyped DEF FollowUpFaults, At
  <2> QED
    BY <1>7, <1>22, <2>1 DEF FollowUpFaults, NextFollowUp
<1>23. CASE WorkerFaults
  BY <1>3, <1>6, <1>23 DEF WorkerFaults
<1>24. CASE Crash \/ Exit
  BY <1>5, <1>24 DEF Crash, Exit, Down
<1>25. ASSUME NEW k, Submit(k) \/ SubmitFaults(k) PROVE PlanOK'
  BY <1>4, <1>25 DEF Submit, SubmitFaults
<1>26. CASE Shutdown \/ Restart \/ UNCHANGED vars
  BY <1>4, <1>26 DEF Shutdown, Restart, vars
<1> QED
  BY <1>8, <1>9, <1>10, <1>11, <1>12, <1>13, <1>14, <1>15, <1>16, <1>17, <1>18,
     <1>19, <1>20, <1>21, <1>22, <1>23, <1>24, <1>25, <1>26
  DEF Next, Request, ApiStep, WorkerStep, Fault, Process

\* Every reachable state is well typed: in particular a job leaves the queue
\* for the worker, and a stage is submitted, only when there is one.
THEOREM TypeCorrect == Spec => []TypeOK
<1>1. Init => PlanOK
  BY DEF Init, Idle, PlanOK
<1>2. Init => TypeOK /\ PlanOK
  BY <1>1, InitTyped
<1>3. TypeOK /\ PlanOK /\ [Next]_vars => (TypeOK /\ PlanOK)'
  BY TypeStep, PlanStep
<1> QED
  BY <1>2, <1>3, PTL DEF Spec

-----------------------------------------------------------------------------
(***************************************************************************)
(* No job gets a second summary push, whatever raises, crashes or          *)
(* restarts.                                                               *)
(*                                                                         *)
(* AtMostOneSummary is not inductive.  The argument is one of permissions: *)
(* a job that has not been marked succeeded has no summary, no claim and   *)
(* no follow-ups (Untouched) and is in the hands of one party (Exclusive); *)
(* being marked succeeded happens once to it and either gives the worker   *)
(* the right to announce it (Announcing), when it has no follow-ups, or    *)
(* leaves one claim to be won (Sending).  Whoever sends uses that right up *)
(* (Told).                                                                 *)
(***************************************************************************)

HIDE DEF JobId

\* A thread in these steps has still to mark its job succeeded.
WorkSteps == {"children", "start", "body", "sleep", "follow", "succeed"}

\* A thread in these steps has seen that the pipeline has follow-ups.
SeenSteps == {"check_child", "claim", "send"}

LookSteps == {"check_parent"} \cup SeenSteps

Busy(t) == thread[t].pc # "idle"

Unfinished(j) == \/ Queued(j)
                 \/ \E t \in Thread : thread[t].pc \in WorkSteps /\ Job(t) = j

Exists(j) == rows[j].status # "absent"

AbsentIsBlank ==
    \A j \in JobId : ~Exists(j) =>
        rows[j].followUps = <<>> /\ rows[j].claim = "none" /\ Summaries(j) = 0

JobsExist ==
    /\ \A j \in JobId : Queued(j) => Exists(j)
    /\ \A t \in Thread : Busy(t) => Job(t) \in JobId /\ Exists(Job(t))

Exclusive ==
    /\ \A i, k \in 1..Len(queue) : queue[i] = queue[k] => i = k
    /\ \A t \in Thread : Busy(t) => ~Queued(Job(t))
    /\ Busy("api") /\ Busy("worker") => Job("api") # Job("worker")

Untouched ==
    \A j \in JobId : Unfinished(j) =>
        rows[j].followUps = <<>> /\ rows[j].claim = "none" /\ Summaries(j) = 0

Looking ==
    \A t \in Thread :
        /\ thread[t].pc \in LookSteps => Watched(t) \in JobId
        /\ thread[t].pc \in SeenSteps => rows[Watched(t)].followUps # <<>>

ApiSteps == thread["api"].pc \in {"idle", "children", "succeed"} \cup LookSteps

Sending ==
    /\ \A t \in Thread : thread[t].pc = "send" =>
          rows[Watched(t)].claim = "sent" /\ Summaries(Watched(t)) = 0
    /\ thread["api"].pc = "send" /\ thread["worker"].pc = "send" =>
          Watched("api") # Watched("worker")

Announcing ==
    thread["worker"].pc = "announce" =>
        rows[Job("worker")].followUps = <<>> /\ Summaries(Job("worker")) = 0

Told ==
    \A p \in JobId :
        /\ Summaries(p) <= 1
        /\ Summaries(p) > 0 /\ rows[p].followUps # <<>> => rows[p].claim = "sent"

Once ==
    /\ AbsentIsBlank
    /\ JobsExist
    /\ Exclusive
    /\ Untouched
    /\ Looking
    /\ ApiSteps
    /\ Sending
    /\ Announcing
    /\ Told

-----------------------------------------------------------------------------
(* What a step may do to a row, to the queue and to a thread without       *)
(* sending a summary.                                                      *)

Kept(j) ==
    /\ rows'[j].followUps = rows[j].followUps
    /\ rows'[j].claim = rows[j].claim
    /\ rows'[j].parent = rows[j].parent
    /\ Exists(j)' <=> Exists(j)

Made(j) ==
    /\ ~Exists(j)
    /\ Exists(j)'
    /\ rows'[j].followUps = <<>>
    /\ rows'[j].claim = "none"

\* The thread that works on j marks it succeeded.
Finished(j) ==
    /\ rows'[j].claim = "unsent"
    /\ rows'[j].parent = rows[j].parent
    /\ Exists(j)'
    /\ \E t \in Thread : /\ thread[t].pc \in WorkSteps /\ Job(t) = j
                         /\ thread'[t].pc \notin WorkSteps

Won(j) ==
    /\ rows'[j].followUps = rows[j].followUps
    /\ rows[j].followUps # <<>>
    /\ rows[j].claim = "unsent"
    /\ rows'[j].claim = "sent"
    /\ rows'[j].parent = rows[j].parent
    /\ Exists(j) /\ Exists(j)'

RowsMove == \A j \in JobId : Kept(j) \/ Made(j) \/ Finished(j) \/ Won(j)

QueueMoves ==
    /\ \A i, k \in 1..Len(queue') : queue'[i] = queue'[k] => i = k
    /\ \A j \in JobId : Queued(j)' => Queued(j) \/ Made(j)

\* A thread ends, goes on with its job, or gets one: a new one or one of the
\* queue.
GoesOn(t) ==
    /\ Busy(t)
    /\ Job(t)' = Job(t)
    /\ thread'[t].pc \in WorkSteps => thread[t].pc \in WorkSteps
    /\ thread'[t].pc \in LookSteps => Watched(t) \in JobId
    /\ thread'[t].pc \in SeenSteps => rows[Watched(t)].followUps # <<>>
    /\ thread'[t].pc = "send" => thread[t].pc = "send" \/ Won(Watched(t))
    /\ thread'[t].pc = "announce" =>
          \/ thread[t].pc = "announce"
          \/ Finished(Job(t)) /\ rows'[Job(t)].followUps = <<>>
    /\ t = "api" => thread'[t].pc \in {"idle", "children", "succeed"} \cup LookSteps

Begins(t) ==
    \E j \in JobId :
        /\ Job(t)' = j
        /\ ~Queued(j)'
        /\ \/ t = "api" /\ thread'[t].pc = "children" /\ Made(j)
           \/ t = "worker" /\ thread'[t].pc = "start" /\ Queued(j)

ThreadsMove ==
    /\ \A t \in Thread : thread'[t].pc = "idle" \/ GoesOn(t) \/ Begins(t)
    /\ \E t \in Thread : \A u \in Thread \ {t} :
          thread'[u].pc = "idle" \/ thread'[u] = thread[u]

NoNews == \A j \in JobId : Summaries(j)' = Summaries(j)

LEMMA SummariesNat ==
    ASSUME TypeOK, NEW j \in JobId
    PROVE  Summaries(j) \in Nat
BY DEF TypeOK, Summaries, PushKinds

\* Every step of that kind keeps the permissions in order.
LEMMA MoveKeepsOnce ==
    ASSUME TypeOK, TypeOK', Once, RowsMove, QueueMoves, ThreadsMove, NoNews
    PROVE  Once'
<1>a. \A t \in Thread : Busy(t)' => Job(t)' \in JobId
  BY DEF Once, JobsExist, ThreadsMove, GoesOn, Begins, Busy
<1>u. ASSUME NEW j \in JobId, Unfinished(j)' PROVE Unfinished(j) \/ Made(j)
  BY <1>u DEF Unfinished, QueueMoves, ThreadsMove, GoesOn, Begins, WorkSteps
<1>w. ASSUME NEW t \in Thread, thread'[t].pc \in LookSteps
      PROVE  /\ Watched(t)' = Watched(t)
             /\ Watched(t) \in JobId
             /\ GoesOn(t)
  <2>1. GoesOn(t)
    BY <1>w DEF ThreadsMove, Begins, LookSteps, SeenSteps
  <2>2. Job(t) \in JobId /\ Exists(Job(t)) /\ Job(t)' = Job(t) /\ Watched(t) \in JobId
    BY <1>w, <2>1 DEF GoesOn, Once, JobsExist
  <2>3. rows'[Job(t)].parent = rows[Job(t)].parent
    BY <2>2 DEF RowsMove, Kept, Made, Finished, Won
  <2> QED
    BY <2>1, <2>2, <2>3 DEF Watched, Job
<1>s. ASSUME NEW j \in JobId, rows[j].followUps # <<>>
      PROVE  /\ Kept(j) \/ Won(j)
             /\ ~Finished(j)
  BY <1>s DEF RowsMove, Made, Finished, Once, AbsentIsBlank, Untouched, Unfinished
<1>1. AbsentIsBlank'
  BY DEF Once, AbsentIsBlank, RowsMove, Kept, Made, Finished, Won, NoNews
<1>2. JobsExist'
  <2>1. \A j \in JobId : Exists(j) => Exists(j)'
    BY DEF RowsMove, Kept, Made, Finished, Won
  <2>2. \A j \in JobId : Queued(j)' => Exists(j)'
    BY <2>1 DEF Once, JobsExist, QueueMoves, Made
  <2>3. ASSUME NEW t \in Thread, Busy(t)'
        PROVE  \E j \in JobId : Job(t)' = j /\ Exists(j)'
    BY <1>a, <2>1, <2>3 DEF Once, JobsExist, ThreadsMove, GoesOn, Begins, Made, Busy
  <2> QED
    BY <2>2, <2>3 DEF JobsExist, Exists, Job
<1>3. Exclusive'
  <2>1. \A i, k \in 1..Len(queue') : queue'[i] = queue'[k] => i = k
    BY DEF QueueMoves
  <2>2. ASSUME NEW t \in Thread, Busy(t)' PROVE ~(Queued(Job(t)))'
    <3>1. CASE GoesOn(t)
      <4>1. Job(t) \in JobId /\ Exists(Job(t)) /\ ~Queued(Job(t)) /\ Job(t)' = Job(t)
        BY <3>1 DEF GoesOn, Once, JobsExist, Exclusive
      <4>2. \A j \in JobId : Exists(j) /\ ~Queued(j) => ~Queued(j)'
        BY DEF QueueMoves, Made
      <4> QED
        BY <4>1, <4>2 DEF Queued
    <3>2. CASE Begins(t)
      BY <3>2 DEF Begins, Queued
    <3> QED
      BY <2>2, <3>1, <3>2 DEF ThreadsMove, Busy
  <2>3. Busy("api")' /\ Busy("worker")' => Job("api")' # Job("worker")'
    <3> SUFFICES ASSUME Busy("api")', Busy("worker")'
                 PROVE  Job("api")' # Job("worker")'
      OBVIOUS
    <3>1. /\ GoesOn("api") \/ Begins("api")
          /\ GoesOn("worker") \/ Begins("worker")
      BY DEF ThreadsMove, Busy
    <3>2. CASE GoesOn("api") /\ GoesOn("worker")
      BY <3>2 DEF GoesOn, Once, Exclusive
    <3>3. CASE GoesOn("api") /\ Begins("worker")
      BY <3>3 DEF GoesOn, Begins, Once, Exclusive
    <3>4. CASE Begins("api") /\ GoesOn("worker")
      BY <3>4 DEF GoesOn, Begins, Once, JobsExist, Made
    <3>5. CASE Begins("api") /\ Begins("worker")
      BY <3>5 DEF Begins, Once, JobsExist, Made
    <3> QED
      BY <3>1, <3>2, <3>3, <3>4, <3>5
  <2> QED
    BY <2>1, <2>2, <2>3 DEF Exclusive
<1>f. ASSUME NEW j \in JobId, Unfinished(j)' PROVE ~Finished(j)
  <2> SUFFICES ASSUME Finished(j) PROVE FALSE
    OBVIOUS
  <2>1. PICK t \in Thread : /\ thread[t].pc \in WorkSteps /\ Job(t) = j
                            /\ thread'[t].pc \notin WorkSteps
    BY DEF Finished
  <2>2. Exists(j) /\ ~Queued(j) /\ Busy(t)
    BY <2>1 DEF Once, JobsExist, Exclusive, Busy, WorkSteps
  <2>3. ~Queued(j)'
    BY <2>2 DEF QueueMoves, Made
  <2>4. PICK u \in Thread : thread'[u].pc \in WorkSteps /\ Job(u)' = j
    BY <1>f, <2>3 DEF Unfinished
  <2>5. GoesOn(u) /\ u # t
    BY <2>1, <2>2, <2>4 DEF ThreadsMove, Begins, WorkSteps, Made
  <2>6. Busy(u) /\ Job(u) = j
    BY <2>4, <2>5 DEF GoesOn
  <2> QED
    BY <2>1, <2>2, <2>5, <2>6 DEF Once, Exclusive
<1>4. Untouched'
  <2>1. ASSUME NEW j \in JobId, Unfinished(j)'
        PROVE  rows'[j].followUps = <<>> /\ rows'[j].claim = "none" /\ Summaries(j)' = 0
    <3>1. CASE Made(j)
      BY <3>1 DEF Made, Once, AbsentIsBlank, NoNews
    <3>2. CASE ~Made(j)
      <4>1. rows[j].followUps = <<>> /\ rows[j].claim = "none" /\ Summaries(j) = 0
        BY <1>u, <2>1, <3>2 DEF Once, Untouched
      <4>2. Kept(j)
        BY <1>f, <2>1, <3>2, <4>1 DEF RowsMove, Won
      <4> QED
        BY <4>1, <4>2 DEF Kept, NoNews
    <3> QED
      BY <3>1, <3>2
  <2> QED
    BY <2>1 DEF Untouched
<1>5. Looking'
  <2>1. ASSUME NEW t \in Thread, thread'[t].pc \in SeenSteps
        PROVE  /\ Watched(t)' = Watched(t)
               /\ rows'[Watched(t)].followUps # <<>>
    <3>1. /\ Watched(t)' = Watched(t) /\ Watched(t) \in JobId
          /\ rows[Watched(t)].followUps # <<>>
      BY <1>w, <2>1 DEF LookSteps, GoesOn
    <3> QED
      BY <1>s, <3>1 DEF Kept, Won
  <2> QED
    BY <1>w, <2>1 DEF Looking
<1>6. ApiSteps'
  <2>1. "api" \in Thread
    OBVIOUS
  <2>2. thread'["api"].pc = "idle" \/ GoesOn("api") \/ Begins("api")
    BY <2>1 DEF ThreadsMove
  <2> QED
    BY <2>2 DEF GoesOn, Begins, ApiSteps
\* A thread about to send was so before, or has just won the claim.
<1>n. ASSUME NEW t \in Thread, thread'[t].pc = "send"
      PROVE  /\ Watched(t) \in JobId /\ Watched(t)' = Watched(t)
             /\ rows[Watched(t)].followUps # <<>>
             /\ thread[t].pc = "send" \/ Won(Watched(t))
  BY <1>n, <1>w DEF GoesOn, LookSteps, SeenSteps
<1>7. Sending'
  <2>1. ASSUME NEW t \in Thread, thread'[t].pc = "send"
        PROVE  rows'[Watched(t)].claim = "sent" /\ Summaries(Watched(t)) = 0
    <3>1. CASE thread[t].pc = "send"
      <4>1. rows[Watched(t)].claim = "sent" /\ Summaries(Watched(t)) = 0
        BY <3>1 DEF Once, Sending
      <4> QED
        BY <1>n, <1>s, <2>1, <4>1 DEF Kept, Won
    <3>2. CASE Won(Watched(t))
      BY <1>n, <2>1, <3>2, SummariesNat DEF Won, Once, Told
    <3> QED
      BY <1>n, <2>1, <3>1, <3>2
  <2>2. ASSUME thread'["api"].pc = "send", thread'["worker"].pc = "send"
        PROVE  Watched("api") # Watched("worker")
    <3>1. thread["api"].pc = "send" \/ thread["worker"].pc = "send"
      BY <2>2 DEF ThreadsMove
    <3>2. CASE thread["api"].pc = "send" /\ thread["worker"].pc = "send"
      BY <3>2 DEF Once, Sending
    <3>3. CASE thread["api"].pc = "send" /\ Won(Watched("worker"))
      BY <3>3 DEF Once, Sending, Won
    <3>4. CASE Won(Watched("api")) /\ thread["worker"].pc = "send"
      BY <3>4 DEF Once, Sending, Won
    <3> QED
      BY <1>n, <2>2, <3>1, <3>2, <3>3, <3>4
  <2>3. \A t \in Thread : thread'[t].pc = "send" => Summaries(Watched(t))' = 0
    BY <1>n, <2>1 DEF NoNews, Summaries
  <2> QED
    BY <1>n, <2>1, <2>2, <2>3 DEF Sending
<1>8. Announcing'
  <2> SUFFICES ASSUME thread'["worker"].pc = "announce"
               PROVE  /\ rows'[Job("worker")'].followUps = <<>>
                      /\ (Summaries(Job("worker")))' = 0
    BY DEF Announcing
  <2>1. /\ GoesOn("worker")
        /\ Job("worker")' = Job("worker")
        /\ Job("worker") \in JobId
        /\ Exists(Job("worker"))
    BY DEF ThreadsMove, Begins, GoesOn, Once, JobsExist
  <2>2. CASE thread["worker"].pc = "announce"
    <3>1. rows[Job("worker")].followUps = <<>> /\ Summaries(Job("worker")) = 0
      BY <2>2 DEF Once, Announcing
    <3>2. ~Finished(Job("worker"))
      BY <2>1, <2>2 DEF Finished, Once, Exclusive, Busy, WorkSteps
    <3>3. Kept(Job("worker"))
      BY <2>1, <3>1, <3>2 DEF RowsMove, Made, Won
    <3> QED
      BY <2>1, <3>1, <3>3 DEF Kept, NoNews, Summaries
  <2>3. CASE Finished(Job("worker")) /\ rows'[Job("worker")].followUps = <<>>
    <3>1. Summaries(Job("worker")) = 0
      BY <2>1, <2>3 DEF Finished, Once, Untouched, Unfinished
    <3> QED
      BY <2>1, <2>3, <3>1 DEF NoNews, Summaries
  <2> QED
    BY <2>1, <2>2, <2>3 DEF GoesOn
<1>9. Told'
  <2>1. ASSUME NEW p \in JobId
        PROVE  /\ Summaries(p)' <= 1
               /\ Summaries(p)' > 0 /\ rows'[p].followUps # <<>> => rows'[p].claim = "sent"
    <3>1. Summaries(p)' = Summaries(p) /\ Summaries(p) <= 1
      BY DEF NoNews, Once, Told
    <3>2. ASSUME Summaries(p) > 0, rows'[p].followUps # <<>> PROVE rows'[p].claim = "sent"
      <4>1. ~Made(p) /\ ~Finished(p)
        BY <3>2 DEF Made, Finished, Once, Untouched, Unfinished
      <4>2. Kept(p) => rows'[p].claim = "sent"
        BY <3>2 DEF Kept, Once, Told
      <4> QED
        BY <4>1, <4>2 DEF RowsMove, Won
    <3> QED
      BY <3>1, <3>2
  <2> QED
    BY <2>1 DEF Told
<1> QED
  BY <1>1, <1>2, <1>3, <1>4, <1>5, <1>6, <1>7, <1>8, <1>9 DEF Once

\* Sending a summary uses the right to it up.
LEMMA GrantKeepsOnce ==
    ASSUME TypeOK, Once, UNCHANGED <<rows, queue>>,
           NEW t \in Thread, GoIdle(t), NEW p \in JobId,
           Summaries(p)' = Summaries(p) + 1,
           \A j \in JobId \ {p} : Summaries(j)' = Summaries(j),
           \/ thread[t].pc = "send" /\ p = Watched(t)
           \/ thread[t].pc = "announce" /\ t = "worker" /\ p = Job(t)
    PROVE  Once'
<1>1. /\ thread'[t].pc = "idle"
      /\ \A u \in Thread \ {t} : thread'[u] = thread[u]
  BY DEF GoIdle, Becomes, Idle, TypeOK
<1>2. \A u \in Thread : Busy(u)' => u # t /\ thread'[u] = thread[u] /\ Busy(u)
  BY <1>1 DEF Busy
<1>3. /\ Summaries(p) = 0
      /\ rows[p].followUps # <<>> => rows[p].claim = "sent"
  BY DEF Once, Sending, Announcing
<1>4. Exists(p) /\ ~Unfinished(p)
  <2>1. CASE thread[t].pc = "send" /\ p = Watched(t)
    BY <2>1 DEF Once, Sending, Untouched, AbsentIsBlank
  <2>2. CASE thread[t].pc = "announce" /\ t = "worker" /\ p = Job(t)
    <3>1. Exists(p) /\ ~Queued(p)
      BY <2>2 DEF Once, JobsExist, Exclusive, Busy
    <3>2. ASSUME NEW u \in Thread, thread[u].pc \in WorkSteps, Job(u) = p
          PROVE  FALSE
      <4>1. u = "api" /\ Busy("api") /\ Busy("worker")
        BY <2>2, <3>2 DEF Busy, WorkSteps
      <4> QED
        BY <2>2, <3>2, <4>1 DEF Once, Exclusive
    <3> QED
      BY <3>1, <3>2 DEF Unfinished
  <2> QED
    BY <2>1, <2>2
<1>5. AbsentIsBlank'
  BY <1>4 DEF Once, AbsentIsBlank, Exists
<1>6. JobsExist'
  BY <1>2 DEF Once, JobsExist, Exists, Queued, Job
<1>7. Exclusive'
  BY <1>2 DEF Once, Exclusive, Queued, Job
<1>8. Untouched'
  <2>1. \A j \in JobId : Unfinished(j)' => Unfinished(j)
    BY <1>1 DEF Unfinished, Queued, Job, WorkSteps
  <2> QED
    BY <1>4, <2>1 DEF Once, Untouched
<1>9. Looking'
  BY <1>1 DEF Once, Looking, Watched, Job, LookSteps, SeenSteps
<1>10. ApiSteps'
  BY <1>1 DEF Once, ApiSteps
<1>11. Sending'
  <2>1. ASSUME NEW u \in Thread, thread'[u].pc = "send"
        PROVE  /\ thread[u].pc = "send" /\ Watched(u)' = Watched(u)
               /\ Watched(u) \in JobId /\ Watched(u) # p
    <3>1. u # t /\ thread[u].pc = "send" /\ Watched(u)' = Watched(u)
      BY <1>1, <2>1 DEF Watched, Job
    <3>2. Watched(u) \in JobId /\ rows[Watched(u)].followUps # <<>>
      BY <3>1 DEF Once, Looking, LookSteps, SeenSteps
    <3>3. ASSUME thread[t].pc = "send", p = Watched(t) PROVE Watched(u) # p
      <4>1. (t = "api" /\ u = "worker") \/ (t = "worker" /\ u = "api")
        BY <3>1
      <4> QED
        BY <3>1, <3>3, <4>1 DEF Once, Sending
    <3>4. ASSUME thread[t].pc = "announce", t = "worker", p = Job(t)
          PROVE  Watched(u) # p
      BY <3>2, <3>4 DEF Once, Announcing
    <3> QED
      BY <3>1, <3>2, <3>3, <3>4
  <2>2. thread'["api"].pc # "send" \/ thread'["worker"].pc # "send"
    BY <1>1
  <2>3. \A u \in Thread : thread'[u].pc = "send" =>
           rows'[Watched(u)'].claim = "sent" /\ (Summaries(Watched(u)))' = 0
    BY <2>1 DEF Once, Sending, Summaries
  <2> QED
    BY <2>2, <2>3 DEF Sending
<1>12. Announcing'
  <2> SUFFICES ASSUME thread'["worker"].pc = "announce"
               PROVE  /\ rows'[Job("worker")'].followUps = <<>>
                      /\ (Summaries(Job("worker")))' = 0
    BY DEF Announcing
  <2>1. /\ t = "api" /\ thread["worker"].pc = "announce"
        /\ Job("worker")' = Job("worker") /\ Job("worker") \in JobId
    BY <1>1 DEF Job, Once, JobsExist, Busy
  <2>2. rows[Job("worker")].followUps = <<>> /\ Summaries(Job("worker")) = 0
    BY <2>1 DEF Once, Announcing
  <2>3. Job("worker") # p
    BY <2>1, <2>2 DEF Once, Looking, SeenSteps
  <2> QED
    BY <2>1, <2>2, <2>3 DEF Summaries
<1>13. Told'
  BY <1>3, SummariesNat DEF Once, Told
<1> QED
  BY <1>5, <1>6, <1>7, <1>8, <1>9, <1>10, <1>11, <1>12, <1>13 DEF Once

-----------------------------------------------------------------------------
(* Which moves the calls on the table and on the queue are.                *)

LEMMA CreatedMoves ==
    ASSUME TypeOK, NEW j \in JobId, NEW k, NEW p, Fresh(j), rows' = Created(j, k, p)
    PROVE  RowsMove /\ Made(j)
<1>1. rows'[j] = [Blank EXCEPT !.status = "queued", !.kind = k, !.parent = p]
  BY DEF Created, TypeOK
<1>2. \A i \in JobId \ {j} : rows'[i] = rows[i]
  BY DEF Created, TypeOK
<1>3. Made(j)
  BY <1>1 DEF Made, Exists, Fresh, Blank
<1> QED
  BY <1>2, <1>3 DEF RowsMove, Kept, Exists

LEMMA SameRowsMove ==
    ASSUME UNCHANGED rows
    PROVE  RowsMove
BY DEF RowsMove, Kept, Exists

LEMMA RunningMoves ==
    ASSUME TypeOK, NEW j \in JobId, Exists(j), rows' = Running(j)
    PROVE  RowsMove
BY DEF RowsMove, Kept, Exists, Running, TypeOK, Row

LEMMA DetailedMoves ==
    ASSUME TypeOK, NEW j \in JobId, NEW d, rows' = Detailed(j, d)
    PROVE  RowsMove
BY DEF RowsMove, Kept, Exists, Detailed, TypeOK, Row

LEMMA FailedMoves ==
    ASSUME TypeOK, NEW j \in JobId, Exists(j), rows' = Failed(j)
    PROVE  RowsMove
BY DEF RowsMove, Kept, Exists, Failed, TypeOK, Row

LEMMA SucceededMoves ==
    ASSUME TypeOK, NEW j \in JobId, NEW kids, rows' = Succeeded(j, kids),
           NEW t \in Thread, thread[t].pc \in WorkSteps, Job(t) = j,
           thread'[t].pc \notin WorkSteps
    PROVE  RowsMove /\ Finished(j) /\ rows'[j].followUps = kids
<1>1. /\ rows'[j].status = "succeeded" /\ rows'[j].claim = "unsent"
      /\ rows'[j].parent = rows[j].parent /\ rows'[j].followUps = kids
      /\ \A i \in JobId \ {j} : rows'[i] = rows[i]
  BY DEF Succeeded, TypeOK, Row
<1>2. Finished(j)
  BY <1>1 DEF Finished, Exists
<1> QED
  BY <1>1, <1>2 DEF RowsMove, Kept, Exists

LEMMA ClaimedMoves ==
    ASSUME TypeOK, Once, NEW j \in JobId, Unclaimed(j), rows[j].followUps # <<>>,
           rows' = Claimed(j)
    PROVE  RowsMove /\ Won(j)
<1>1. /\ rows'[j] = [rows[j] EXCEPT !.claim = "sent"]
      /\ \A i \in JobId \ {j} : rows'[i] = rows[i]
  BY DEF Claimed, TypeOK
<1>2. Exists(j)
  BY DEF Once, AbsentIsBlank
<1>3. Won(j)
  BY <1>1, <1>2 DEF Won, Unclaimed, Exists, TypeOK, Row
<1> QED
  BY <1>1, <1>3 DEF RowsMove, Kept, Exists

LEMMA ReconciledMoves ==
    ASSUME TypeOK, rows' = Reconciled
    PROVE  RowsMove
<1>1. ASSUME NEW j \in JobId PROVE Kept(j)
  <2>1. rows[j] \in Row
    BY DEF TypeOK
  <2>2. rows'[j] = IF rows[j].status \in Active
                   THEN [rows[j] EXCEPT !.status = "failed"] ELSE rows[j]
    BY DEF Reconciled, ReconciledBy
  <2> QED
    BY <2>1, <2>2 DEF Kept, Exists, Row, Active
<1> QED
  BY <1>1 DEF RowsMove

LEMMA SameQueueMoves ==
    ASSUME Once, UNCHANGED queue
    PROVE  QueueMoves
BY DEF Once, Exclusive, QueueMoves, Queued

LEMMA EmptyQueueMoves ==
    ASSUME queue' = <<>>
    PROVE  QueueMoves
<1>1. Len(queue') = 0
  OBVIOUS
<1> QED
  BY <1>1 DEF QueueMoves, Queued

LEMMA AppendMoves ==
    ASSUME TypeOK, Once, NEW j \in JobId, Made(j), queue' = Append(queue, j)
    PROVE  QueueMoves
<1>1. queue \in Seq(JobId)
  BY DEF TypeOK
<1>2. /\ Len(queue') = Len(queue) + 1 /\ Len(queue) \in Nat
      /\ \A i \in 1..Len(queue) : queue'[i] = queue[i]
      /\ queue'[Len(queue) + 1] = j
  BY <1>1, AppendProperties, LenProperties
<1>3. \A i \in 1..Len(queue) : queue[i] # j
  BY DEF Once, JobsExist, Made, Queued
<1>4. \A i, k \in 1..Len(queue) : queue[i] = queue[k] => i = k
  BY DEF Once, Exclusive
<1>5. \A i \in 1..Len(queue') : i \in 1..Len(queue) \/ i = Len(queue) + 1
  BY <1>2
<1> QED
  BY <1>2, <1>3, <1>4, <1>5 DEF QueueMoves, Queued

LEMMA StaysMoves ==
    ASSUME Once, NEW t \in Thread, thread'[t] = thread[t]
    PROVE  thread'[t].pc = "idle" \/ GoesOn(t)
BY DEF Once, Looking, ApiSteps, GoesOn, Busy, Job

LEMMA SameThreadsMove ==
    ASSUME Once, UNCHANGED thread
    PROVE  ThreadsMove
BY StaysMoves DEF ThreadsMove

LEMMA OneThreadMoves ==
    ASSUME TypeOK, Once, NEW t \in Thread, NEW r, Becomes(t, r),
           r.pc = "idle" \/ GoesOn(t) \/ Begins(t)
    PROVE  ThreadsMove
<1>1. thread'[t] = r /\ \A u \in Thread \ {t} : thread'[u] = thread[u]
  BY DEF Becomes, TypeOK
<1> QED
  BY <1>1, StaysMoves DEF ThreadsMove

LEMMA IdleMoves ==
    ASSUME TypeOK, Once, NEW t \in Thread, GoIdle(t)
    PROVE  ThreadsMove
BY OneThreadMoves DEF GoIdle, Idle

LEMMA SamePushes ==
    ASSUME UNCHANGED pushes
    PROVE  NoNews
BY DEF NoNews, Summaries

LEMMA OtherPush ==
    ASSUME TypeOK, NEW j, NEW k \in {"failed", "retrying"}, Push(j, k)
    PROVE  NoNews
BY DEF NoNews, Summaries, Push, TypeOK, PushKinds

-----------------------------------------------------------------------------
\* Every step of the runner keeps the permissions in order.
LEMMA OnceStep == TypeOK /\ PlanOK /\ Once /\ [Next]_vars => Once'
<1> SUFFICES ASSUME TypeOK, PlanOK, Once, [Next]_vars PROVE Once'
  OBVIOUS
<1>t. TypeOK'
  BY TypeStep
<1>m. ASSUME RowsMove, QueueMoves, ThreadsMove, NoNews PROVE Once'
  BY <1>t, <1>m, MoveKeepsOnce
\* What the thread that moves has in hand.
<1>j. \A t \in Thread : Busy(t) => Job(t) \in JobId /\ Exists(Job(t)) /\ ~Queued(Job(t))
  BY DEF Once, JobsExist, Exclusive
<1>1. ASSUME NEW k \in ApiKinds, Submit(k) PROVE Once'
  <2>1. PICK j \in JobId :
            Fresh(j) /\ rows' = Created(j, k, NoJob) /\ queue' = Append(queue, j)
    BY <1>1 DEF Submit
  <2>2. RowsMove /\ QueueMoves
    BY <2>1, CreatedMoves, AppendMoves
  <2> QED
    BY <1>1, <1>m, <2>2, SameThreadsMove, SamePushes DEF Submit
<1>2. ASSUME NEW mood \in MoodSettings, BeginPipeline(mood) PROVE Once'
  <2> DEFINE r(p) == [Idle EXCEPT !.pc = "children", !.job = p,
                                  !.plan = SaveStages(mood)]
  <2>1. PICK p \in JobId :
            Fresh(p) /\ rows' = Created(p, "pipeline", NoJob) /\ Becomes("api", r(p))
    BY <1>2 DEF BeginPipeline
  <2>2. RowsMove /\ Made(p) /\ QueueMoves
    BY <1>2, <2>1, CreatedMoves, SameQueueMoves DEF BeginPipeline
  <2>3. thread'["api"].pc = "children" /\ Job("api")' = p
    BY <2>1 DEF Becomes, TypeOK, Idle, Job
  <2>4. ~Queued(p)'
    BY <1>2, <2>2 DEF BeginPipeline, Queued, Made, Once, JobsExist
  <2>5. Begins("api")
    BY <2>2, <2>3, <2>4 DEF Begins
  <2>6. ThreadsMove
    <3> HIDE DEF r
    <3> QED
      BY <2>1, <2>5, OneThreadMoves
  <2> QED
    BY <1>2, <1>m, <2>2, <2>6, SamePushes DEF BeginPipeline
\* A loop over the follow-ups to submit goes on.
<1>l. ASSUME NEW t \in Thread, NEW made, Becomes(t, Submitted(t, made)),
             \/ t = "api" /\ thread[t].pc = "children"
             \/ t = "worker" /\ thread[t].pc = "follow"
      PROVE  ThreadsMove
  <2>1. thread'[t] = Submitted(t, made) /\ thread[t] \in Local
    BY <1>l, LocalTyped DEF Becomes, TypeOK
  <2>2. /\ thread'[t].pc \in {"succeed", thread[t].pc}
        /\ Job(t)' = Job(t)
    BY <2>1 DEF Submitted, Local, Job
  <2>3. GoesOn(t)
    BY <1>l, <2>2 DEF GoesOn, Busy, WorkSteps, LookSteps, SeenSteps
  <2> QED
    BY <1>l, <2>3, OneThreadMoves
<1>3. CASE SubmitChild
  <2>1. PICK j \in JobId :
            /\ Fresh(j) /\ rows' = Created(j, Head(thread["api"].plan), Job("api"))
            /\ queue' = Append(queue, j)
            /\ Becomes("api", Submitted("api", Append(thread["api"].made, j)))
    BY <1>3 DEF SubmitChild
  <2>2. RowsMove /\ QueueMoves
    BY <2>1, CreatedMoves, AppendMoves
  <2>3. ThreadsMove
    BY <1>3, <1>l, <2>1 DEF SubmitChild, At
  <2> QED
    BY <1>3, <1>m, <2>2, <2>3, SamePushes DEF SubmitChild
\* A step to another place of the same job's procedure.
<1>g. ASSUME NEW t \in Thread, NEW step, Goto(t, step)
      PROVE  /\ thread'[t].pc = step /\ Job(t)' = Job(t)
             /\ \A u \in Thread \ {t} : thread'[u] = thread[u]
             /\ GoesOn(t) => ThreadsMove
  <2>1. thread'[t].pc = step /\ Job(t)' = Job(t)
    BY <1>g, LocalTyped DEF Goto, Becomes, TypeOK, Local, Job
  <2>2. \A u \in Thread \ {t} : thread'[u] = thread[u]
    BY <1>g DEF Goto, Becomes, TypeOK
  <2>3. GoesOn(t) => ThreadsMove
    BY <1>g, OneThreadMoves DEF Goto
  <2> QED
    BY <2>1, <2>2, <2>3
<1>4. CASE FinishParent
  <2>1. /\ thread["api"].pc = "succeed" /\ Goto("api", "check_parent")
        /\ rows' = Succeeded(Job("api"), thread["api"].made)
    BY <1>4 DEF FinishParent, At, AfterParent
  <2>2. Busy("api") /\ Job("api") \in JobId
    BY <1>j, <2>1 DEF Busy
  <2>3. thread'["api"].pc = "check_parent" /\ Job("api")' = Job("api")
    BY <1>g, <2>1
  <2>4. RowsMove
    BY <2>1, <2>2, <2>3, SucceededMoves DEF WorkSteps
  <2>5. GoesOn("api")
    BY <2>2, <2>3 DEF GoesOn, Watched, WorkSteps, LookSteps, SeenSteps
  <2>6. ThreadsMove
    BY <1>g, <2>1, <2>5
  <2> QED
    BY <1>4, <1>m, <2>4, <2>6, SameQueueMoves, SamePushes DEF FinishParent
<1>5. ASSUME NEW t \in Thread, ReadParent(t) PROVE Once'
  <2> DEFINE r == [thread[t] EXCEPT !.pc = "check_child", !.idx = 1, !.bad = FALSE]
  <2>1. /\ thread[t].pc = "check_parent"
        /\ (ParentReady(Watched(t)) /\ Becomes(t, r)) \/ GoIdle(t)
    BY <1>5 DEF ReadParent, At
  <2>2. ASSUME ParentReady(Watched(t)), Becomes(t, r) PROVE ThreadsMove
    <3>1. thread'[t].pc = "check_child" /\ Job(t)' = Job(t)
      BY <2>2, LocalTyped DEF Becomes, TypeOK, Local, Job
    <3>2. Watched(t) \in JobId
      BY <2>1 DEF Once, Looking, LookSteps
    <3>3. GoesOn(t)
      BY <2>1, <2>2, <3>1, <3>2
      DEF GoesOn, Busy, ParentReady, WorkSteps, LookSteps, SeenSteps
    <3> HIDE DEF r
    <3> QED
      BY <2>2, <3>3, OneThreadMoves
  <2>3. ThreadsMove
    BY <2>1, <2>2, IdleMoves
  <2> QED
    BY <1>5, <1>m, <2>3, SameRowsMove, SameQueueMoves, SamePushes DEF ReadParent
<1>6. ASSUME NEW t \in Thread, ReadChild(t) PROVE Once'
  <2> DEFINE kids == rows[Watched(t)].followUps
             kid  == kids[thread[t].idx]
             r    == [thread[t] EXCEPT !.idx = thread[t].idx + 1,
                                       !.bad = AnyFailed(t, kid),
                                       !.pc = IF thread[t].idx = Len(kids)
                                              THEN "claim" ELSE "check_child"]
  <2>1. /\ thread[t].pc = "check_child"
        /\ Becomes(t, r) \/ GoIdle(t)
    BY <1>6 DEF ReadChild, At
  <2>2. ASSUME Becomes(t, r) PROVE ThreadsMove
    <3>1. thread'[t].pc \in {"claim", "check_child"} /\ Job(t)' = Job(t)
      BY <2>2, LocalTyped DEF Becomes, TypeOK, Local, Job
    <3>2. Watched(t) \in JobId /\ rows[Watched(t)].followUps # <<>>
      BY <2>1 DEF Once, Looking, LookSteps, SeenSteps
    <3>3. GoesOn(t)
      BY <2>1, <3>1, <3>2 DEF GoesOn, Busy, WorkSteps, LookSteps, SeenSteps
    <3> HIDE DEF r
    <3> QED
      BY <2>2, <3>3, OneThreadMoves
  <2>3. ThreadsMove
    BY <2>1, <2>2, IdleMoves
  <2> QED
    BY <1>6, <1>m, <2>3, SameRowsMove, SameQueueMoves, SamePushes DEF ReadChild
<1>7. ASSUME NEW t \in Thread, Claim(t) PROVE Once'
  <2>1. /\ thread[t].pc = "claim"
        /\ Watched(t) \in JobId /\ rows[Watched(t)].followUps # <<>>
    BY <1>7 DEF Claim, At, Once, Looking, LookSteps, SeenSteps
  <2>2. CASE /\ Unclaimed(Watched(t)) /\ rows' = Claimed(Watched(t))
             /\ Goto(t, "send")
    <3>1. RowsMove /\ Won(Watched(t))
      BY <2>1, <2>2, ClaimedMoves
    <3>2. GoesOn(t)
      BY <1>g, <2>1, <2>2, <3>1 DEF GoesOn, Busy, WorkSteps, LookSteps, SeenSteps
    <3>3. ThreadsMove
      BY <1>g, <2>2, <3>2
    <3> QED
      BY <1>7, <1>m, <3>1, <3>3, SameQueueMoves, SamePushes DEF Claim
  <2>3. CASE GoIdle(t) /\ UNCHANGED rows
    BY <1>7, <1>m, <2>3, IdleMoves, SameRowsMove, SameQueueMoves, SamePushes DEF Claim
  <2> QED
    BY <1>7, <2>2, <2>3 DEF Claim
\* A summary handed over for p.
<1>p. ASSUME NEW t \in Thread, NEW p \in JobId, NEW k \in {"success", "breakdown"},
             Push(p, k), GoIdle(t), UNCHANGED <<rows, queue>>,
             \/ thread[t].pc = "send" /\ p = Watched(t)
             \/ thread[t].pc = "announce" /\ t = "worker" /\ p = Job(t)
      PROVE  Once'
  <2>1. /\ pushes'[p][k] = pushes[p][k] + 1
        /\ \A i \in PushKinds \ {k} : pushes'[p][i] = pushes[p][i]
        /\ \A j \in JobId \ {p} : pushes'[j] = pushes[j]
    BY <1>p DEF Push, TypeOK, PushKinds
  <2>2. pushes[p] \in [PushKinds -> Nat]
    BY DEF TypeOK
  <2>3. Summaries(p)' = Summaries(p) + 1
    <3>1. CASE k = "success"
      BY <2>1, <2>2, <3>1 DEF Summaries, PushKinds
    <3>2. CASE k = "breakdown"
      BY <2>1, <2>2, <3>2 DEF Summaries, PushKinds
    <3> QED
      BY <1>p, <3>1, <3>2
  <2>4. \A j \in JobId \ {p} : Summaries(j)' = Summaries(j)
    BY <2>1 DEF Summaries
  <2> QED
    BY <1>p, <2>3, <2>4, GrantKeepsOnce
<1>8. ASSUME NEW t \in Thread, Send(t) PROVE Once'
  <2>1. thread[t].pc = "send" /\ Watched(t) \in JobId
    BY <1>8 DEF Send, At, Once, Looking, LookSteps, SeenSteps
  <2> QED
    BY <1>8, <1>p, <2>1 DEF Send, SummaryKind
<1>9. CASE Take
  <2> DEFINE r == [Idle EXCEPT !.pc = "start", !.job = Head(queue), !.guarded = TRUE,
                               !.known = ~IsIngest(Head(queue))]
  <2>1. /\ thread["worker"].pc = "idle" /\ queue # <<>> /\ queue' = Tail(queue)
        /\ Becomes("worker", r) /\ UNCHANGED rows
    BY <1>9 DEF Take, At
  <2>2. queue \in Seq(JobId) /\ Len(queue) \in Nat /\ Len(queue) # 0
    BY <2>1, EmptySeq, LenProperties DEF TypeOK
  <2>3. /\ Len(queue') = Len(queue) - 1
        /\ \A i \in 1..Len(queue') : queue'[i] = queue[i + 1]
        /\ Head(queue) = queue[1] /\ Head(queue) \in JobId
    BY <2>1, <2>2, HeadTailProperties
  <2>4. \A i, k \in 1..Len(queue) : queue[i] = queue[k] => i = k
    BY DEF Once, Exclusive
  <2>5. /\ \A i, k \in 1..Len(queue') : queue'[i] = queue'[k] => i = k
        /\ \A i \in 1..Len(queue') : queue'[i] # Head(queue)
    <3>1. \A i \in 1..Len(queue') : i + 1 \in 1..Len(queue) /\ i + 1 # 1
      BY <2>2, <2>3
    <3>2. 1 \in 1..Len(queue)
      BY <2>2
    <3> QED
      BY <2>3, <2>4, <3>1, <3>2
  <2>6. QueueMoves
    <3>1. \A i \in 1..Len(queue') : i + 1 \in 1..Len(queue)
      BY <2>2, <2>3
    <3> QED
      BY <2>3, <2>5, <3>1 DEF QueueMoves, Queued
  <2>7. thread'["worker"].pc = "start" /\ Job("worker")' = Head(queue)
    BY <2>1 DEF Becomes, TypeOK, Idle, Job
  <2>8. Queued(Head(queue)) /\ ~(\E i \in 1..Len(queue') : queue'[i] = Head(queue))
    BY <2>2, <2>3, <2>5 DEF Queued
  <2>9. Begins("worker")
    BY <2>3, <2>7, <2>8 DEF Begins, Queued
  <2>10. ThreadsMove
    <3> HIDE DEF r
    <3> QED
      BY <2>1, <2>9, OneThreadMoves
  <2> QED
    BY <1>9, <1>m, <2>6, <2>10, SameRowsMove, SamePushes DEF Take
\* The worker goes from one of its work steps to a step that only a success
\* or a look at the pipeline does not reach.
<1>w. ASSUME NEW r, Becomes("worker", r), Busy("worker"), r.job = Job("worker"),
             r.pc \notin LookSteps \cup {"announce"},
             r.pc \in WorkSteps => thread["worker"].pc \in WorkSteps
      PROVE  ThreadsMove
  <2>1. thread'["worker"] = r
    BY <1>w DEF Becomes, TypeOK
  <2>2. GoesOn("worker")
    BY <1>w, <2>1 DEF GoesOn, Job, LookSteps, SeenSteps
  <2> QED
    BY <1>w, <2>2, OneThreadMoves
<1>v. ASSUME NEW step, Goto("worker", step), Busy("worker"),
             step \notin LookSteps \cup {"announce"},
             step \in WorkSteps => thread["worker"].pc \in WorkSteps
      PROVE  ThreadsMove
  <2>1. thread["worker"] \in Local
    BY LocalTyped
  <2>2. [thread["worker"] EXCEPT !.pc = step].pc = step
    BY <2>1 DEF Local
  <2>3. [thread["worker"] EXCEPT !.pc = step].job = Job("worker")
    BY <2>1 DEF Local, Job
  <2> DEFINE r == [thread["worker"] EXCEPT !.pc = step]
  <2>4. Becomes("worker", r)
    BY <1>v DEF Goto
  <2>5. r.pc = step /\ r.job = Job("worker")
    BY <2>2, <2>3
  <2> HIDE DEF r
  <2> QED
    BY <1>v, <1>w, <2>4, <2>5
<1>x. Caught /\ Busy("worker") => ThreadsMove
  <2> SUFFICES ASSUME Caught, Busy("worker") PROVE ThreadsMove
    OBVIOUS
  <2> DEFINE r == [thread["worker"] EXCEPT !.pc = "fail", !.guarded = FALSE]
  <2>1. r.pc = "fail" /\ r.job = Job("worker")
    BY LocalTyped DEF Local, Job
  <2>2. Becomes("worker", r)
    BY DEF Caught
  <2> HIDE DEF r
  <2> QED
    BY <1>w, <2>1, <2>2 DEF WorkSteps, LookSteps, SeenSteps
<1>10. CASE Start
  <2> DEFINE r == [thread["worker"] EXCEPT !.pc = "body", !.known = TRUE]
  <2>1. /\ thread["worker"].pc = "start" /\ rows' = Running(Job("worker"))
        /\ Becomes("worker", r)
    BY <1>10 DEF Start, At
  <2>2. r.pc = "body" /\ r.job = Job("worker")
    BY LocalTyped DEF Local, Job
  <2> HIDE DEF r
  <2>3. ThreadsMove
    BY <1>w, <2>1, <2>2 DEF Busy, WorkSteps, LookSteps, SeenSteps
  <2>4. RowsMove
    BY <1>j, <2>1, RunningMoves DEF Busy
  <2> QED
    BY <1>10, <1>m, <2>3, <2>4, SameQueueMoves, SamePushes DEF Start
<1>11. CASE BodyReturns
  <2> DEFINE r == [thread["worker"] EXCEPT !.pc = "follow", !.plan = <<"mood", "extract">>]
  <2>1. /\ thread["worker"].pc = "body"
        /\ Becomes("worker", r) \/ Goto("worker", "succeed")
    BY <1>11 DEF BodyReturns, At
  <2>2. r.pc = "follow" /\ r.job = Job("worker")
    BY LocalTyped DEF Local, Job
  <2> HIDE DEF r
  <2>3. ThreadsMove
    BY <1>v, <1>w, <2>1, <2>2 DEF Busy, WorkSteps, LookSteps, SeenSteps
  <2> QED
    BY <1>11, <1>m, <2>3, SameRowsMove, SameQueueMoves, SamePushes DEF BodyReturns
<1>12. CASE BodyRaises
  <2>1. ThreadsMove
    BY <1>12, <1>x DEF BodyRaises, At, Busy
  <2> QED
    BY <1>12, <1>m, <2>1, SameRowsMove, SameQueueMoves, SamePushes DEF BodyRaises
<1>13. CASE EntryMissing
  <2>1. ThreadsMove
    BY <1>13, <1>v DEF EntryMissing, At, Busy, WorkSteps, LookSteps, SeenSteps
  <2> QED
    BY <1>13, <1>m, <2>1, SameRowsMove, SameQueueMoves, SamePushes DEF EntryMissing
<1>14. CASE BodyTransient
  <2>1. thread["worker"].pc = "body" /\ Goto("worker", "sleep")
    BY <1>14 DEF BodyTransient, At
  <2>2. ThreadsMove
    BY <1>v, <2>1 DEF Busy, WorkSteps, LookSteps, SeenSteps
  <2>3. RowsMove
    BY <1>14, <1>j, <2>1, DetailedMoves DEF BodyTransient, Busy
  <2>4. NoNews
    BY <1>14, OtherPush, SamePushes DEF BodyTransient
  <2> QED
    BY <1>14, <1>m, <2>2, <2>3, <2>4, SameQueueMoves DEF BodyTransient
<1>15. CASE Wake
  <2> DEFINE r == [thread["worker"] EXCEPT !.pc = "body",
                                           !.attempt = thread["worker"].attempt + 1]
  <2>1. /\ thread["worker"].pc = "sleep" /\ Becomes("worker", r)
        /\ rows' = Detailed(Job("worker"), FALSE)
    BY <1>15 DEF Wake, At
  <2>2. r.pc = "body" /\ r.job = Job("worker")
    BY LocalTyped DEF Local, Job
  <2> HIDE DEF r
  <2>3. ThreadsMove
    BY <1>w, <2>1, <2>2 DEF Busy, WorkSteps, LookSteps, SeenSteps
  <2>4. RowsMove
    BY <1>j, <2>1, DetailedMoves DEF Busy
  <2> QED
    BY <1>15, <1>m, <2>3, <2>4, SameQueueMoves, SamePushes DEF Wake
<1>16. CASE QueueFollowUp
  <2>1. PICK j \in JobId :
            /\ Fresh(j) /\ rows' = Created(j, Head(thread["worker"].plan), Job("worker"))
            /\ queue' = Append(queue, j) \/ UNCHANGED queue
            /\ \E made : NextFollowUp(made)
    BY <1>16 DEF QueueFollowUp
  <2>2. RowsMove /\ QueueMoves
    BY <2>1, CreatedMoves, AppendMoves, SameQueueMoves
  <2>3. ThreadsMove
    BY <1>16, <1>l, <2>1 DEF QueueFollowUp, At, NextFollowUp
  <2> QED
    BY <1>16, <1>m, <2>2, <2>3, SamePushes DEF QueueFollowUp
<1>17. CASE Succeed
  <2> DEFINE kids == thread["worker"].made
             next == AfterSuccess
  <2>1. /\ thread["worker"].pc = "succeed" /\ rows' = Succeeded(Job("worker"), kids)
        /\ next = "idle" => GoIdle("worker")
        /\ next # "idle" => Goto("worker", next)
        /\ Job("worker") \in JobId
    BY <1>17, <1>j DEF Succeed, At, Busy
  <2>2. next \in {"check_parent", "idle", "announce"}
    BY DEF AfterSuccess
  <2>3. thread'["worker"].pc = next
    <3>1. CASE next = "idle"
      BY <2>1, <3>1 DEF GoIdle, Becomes, TypeOK, Idle
    <3>2. CASE next # "idle"
      BY <1>g, <2>1, <3>2
    <3> QED
      BY <3>1, <3>2
  <2>4. RowsMove /\ Finished(Job("worker")) /\ rows'[Job("worker")].followUps = kids
    BY <2>1, <2>2, <2>3, SucceededMoves DEF WorkSteps
  <2>5. CASE next = "idle"
    BY <1>17, <1>m, <2>1, <2>4, <2>5, IdleMoves, SameQueueMoves, SamePushes DEF Succeed
  <2>6. CASE next = "check_parent"
    <3>1. Watched("worker") \in JobId
      BY <2>1, <2>6, RowTyped DEF AfterSuccess, Watched
    <3>2. GoesOn("worker")
      BY <1>g, <2>1, <2>6, <3>1 DEF GoesOn, Busy, WorkSteps, SeenSteps
    <3>3. ThreadsMove
      BY <1>g, <2>1, <2>6, <3>2
    <3> QED
      BY <1>17, <1>m, <2>4, <3>3, SameQueueMoves, SamePushes DEF Succeed
  <2>7. CASE next = "announce"
    <3>1. kids = <<>>
      BY <2>7 DEF AfterSuccess
    <3>2. GoesOn("worker")
      BY <1>g, <2>1, <2>4, <2>7, <3>1 DEF GoesOn, Busy, WorkSteps, LookSteps, SeenSteps
    <3>3. ThreadsMove
      BY <1>g, <2>1, <2>7, <3>2
    <3> QED
      BY <1>17, <1>m, <2>4, <3>3, SameQueueMoves, SamePushes DEF Succeed
  <2> HIDE DEF next
  <2> QED
    BY <2>2, <2>5, <2>6, <2>7
<1>18. CASE AnnounceSuccess
  <2>1. thread["worker"].pc = "announce" /\ Job("worker") \in JobId
    BY <1>18, <1>j DEF AnnounceSuccess, At, Busy
  <2> QED
    BY <1>18, <1>p, <2>1 DEF AnnounceSuccess
<1>19. CASE Fail
  <2>1. /\ thread["worker"].pc = "fail"
        /\ rows' = Failed(Job("worker"))
        /\ Goto("worker", "announce_fail") \/ GoIdle("worker")
    BY <1>19 DEF Fail, At
  <2>2. ThreadsMove
    BY <1>v, <2>1, IdleMoves DEF Busy, WorkSteps, LookSteps, SeenSteps
  <2>3. RowsMove
    BY <1>j, <2>1, FailedMoves DEF Busy
  <2> QED
    BY <1>19, <1>m, <2>2, <2>3, SameQueueMoves, SamePushes DEF Fail
<1>20. CASE AnnounceFailure
  <2>1. /\ thread["worker"].pc = "announce_fail"
        /\ Job("worker") \in JobId /\ Busy("worker")
    BY <1>20, <1>j DEF AnnounceFailure, At, Busy
  <2>2. ThreadsMove
    <3>1. CASE rows[Job("worker")].parent # NoJob
      <4>1. Goto("worker", "check_parent") /\ Watched("worker") \in JobId
        BY <1>20, <2>1, <3>1, RowTyped DEF AnnounceFailure, Watched
      <4>2. GoesOn("worker")
        BY <1>g, <2>1, <4>1 DEF GoesOn, WorkSteps, SeenSteps
      <4> QED
        BY <1>g, <4>1, <4>2
    <3>2. CASE rows[Job("worker")].parent = NoJob
      BY <1>20, <3>2, IdleMoves DEF AnnounceFailure
    <3> QED
      BY <3>1, <3>2
  <2>3. NoNews
    BY <1>20, OtherPush, SamePushes DEF AnnounceFailure
  <2> QED
    BY <1>20, <1>m, <2>2, <2>3, SameRowsMove, SameQueueMoves DEF AnnounceFailure
\* A create() that raises.
<1>c. ASSUME NEW k, NEW p, LostOrCreated(k, p) PROVE RowsMove
  BY <1>c, CreatedMoves, SameRowsMove DEF LostOrCreated
<1>21. ASSUME NEW k, SubmitFaults(k) PROVE Once'
  BY <1>21, <1>c, <1>m, SameThreadsMove, SameQueueMoves, SamePushes DEF SubmitFaults
\* Any other write that raises: the thread leaves the step it was at.
<1>f. ASSUME NEW t \in Thread, rows' \in {rows, Written(t)}, Busy(t),
             thread'[t].pc \notin WorkSteps
      PROVE  RowsMove
  <2>1. Job(t) \in JobId /\ Exists(Job(t))
    BY <1>f, <1>j
  <2>2. CASE rows' = Running(Job(t))
    BY <2>1, <2>2, RunningMoves
  <2>3. CASE rows' = Detailed(Job(t), FALSE)
    BY <2>1, <2>3, DetailedMoves
  <2>4. CASE thread[t].pc = "succeed" /\ rows' = Succeeded(Job(t), thread[t].made)
    BY <1>f, <2>1, <2>4, SucceededMoves DEF WorkSteps
  <2>5. CASE rows' = Failed(Job(t))
    BY <2>1, <2>5, FailedMoves
  <2>6. CASE thread[t].pc = "claim" /\ Unclaimed(Watched(t)) /\ rows' = Claimed(Watched(t))
    <3>1. Watched(t) \in JobId /\ rows[Watched(t)].followUps # <<>>
      BY <2>6 DEF Once, Looking, LookSteps, SeenSteps
    <3> QED
      BY <2>6, <3>1, ClaimedMoves
  <2>7. CASE rows' = rows
    BY <2>7, SameRowsMove
  <2> QED
    BY <1>f, <2>2, <2>3, <2>4, <2>5, <2>6, <2>7 DEF Written
<1>22. CASE PipelineFaults
  <2>1. thread'["api"].pc = "idle" /\ Busy("api")
    BY <1>22 DEF PipelineFaults, GoIdle, Becomes, Idle, TypeOK, Busy
  <2>2. RowsMove
    BY <1>22, <1>c, <1>f, <2>1 DEF PipelineFaults, WorkSteps
  <2> QED
    BY <1>22, <1>m, <2>2, IdleMoves, SameQueueMoves, SamePushes DEF PipelineFaults
<1>23. CASE FollowUpFaults
  <2>1. ThreadsMove
    BY <1>23, <1>l DEF FollowUpFaults, At, NextFollowUp
  <2> QED
    BY <1>23, <1>c, <1>m, <2>1, SameQueueMoves, SamePushes DEF FollowUpFaults
<1>24. CASE WorkerFaults
  <2>1. Busy("worker")
    BY <1>24 DEF WorkerFaults, WorkerCalls, Busy
  <2>2. thread'["worker"].pc \in {"fail", "idle"}
    <3>1. CASE Caught
      BY <3>1, LocalTyped DEF Caught, Becomes, TypeOK, Local
    <3>2. CASE GoIdle("worker")
      BY <3>2 DEF GoIdle, Becomes, Idle, TypeOK
    <3> QED
      BY <1>24, <3>1, <3>2 DEF WorkerFaults
  <2>3. RowsMove
    BY <1>24, <1>f, <2>1, <2>2 DEF WorkerFaults, WorkSteps
  <2>4. ThreadsMove
    BY <1>24, <1>x, <2>1, IdleMoves DEF WorkerFaults
  <2> QED
    BY <1>24, <1>m, <2>3, <2>4, SameQueueMoves, SamePushes DEF WorkerFaults
<1>25. CASE Crash \/ Exit
  <2>1. ThreadsMove
    BY <1>25 DEF Crash, Exit, Down, ThreadsMove, Idle
  <2> QED
    BY <1>25, <1>m, <2>1, SameRowsMove, EmptyQueueMoves, SamePushes DEF Crash, Exit, Down
<1>26. CASE Shutdown
  BY <1>26, <1>m, SameRowsMove, EmptyQueueMoves, SameThreadsMove, SamePushes DEF Shutdown
<1>27. CASE Restart
  BY <1>27, <1>m, ReconciledMoves, SameQueueMoves, SameThreadsMove, SamePushes DEF Restart
<1>28. CASE UNCHANGED vars
  BY <1>28, <1>m, SameRowsMove, SameQueueMoves, SameThreadsMove, SamePushes DEF vars
<1>29. ASSUME NEW t \in Thread, Check(t) PROVE Once'
  BY <1>29, <1>5, <1>6, <1>7, <1>8 DEF Check
<1> QED
  BY <1>1, <1>2, <1>3, <1>4, <1>9, <1>10, <1>11, <1>12, <1>13, <1>14, <1>15, <1>16,
     <1>17, <1>18, <1>19, <1>20, <1>21, <1>22, <1>23, <1>24, <1>25, <1>26, <1>27,
     <1>28, <1>29
  DEF Next, Request, ApiStep, WorkerStep, Fault, Process

LEMMA InitOnce == Init => Once
<1> SUFFICES ASSUME Init PROVE Once
  OBVIOUS
<1>1. Len(queue) = 0 /\ \A t \in Thread : thread[t].pc = "idle"
  BY DEF Init, Idle
<1>2. \A j \in JobId : rows[j].followUps = <<>> /\ rows[j].claim = "none" /\ Summaries(j) = 0
  BY DEF Init, Blank, Summaries, PushKinds
<1>3. AbsentIsBlank /\ Untouched /\ Told
  BY <1>2 DEF AbsentIsBlank, Untouched, Told
<1>4. JobsExist /\ Exclusive
  BY <1>1 DEF JobsExist, Exclusive, Queued, Busy
<1>5. Looking /\ ApiSteps /\ Sending /\ Announcing
  BY <1>1 DEF Looking, ApiSteps, Sending, Announcing, LookSteps, SeenSteps
<1> QED
  BY <1>3, <1>4, <1>5 DEF Once

\* Whatever raises, crashes or restarts, and however the sweep of the API
\* thread and the looks of the worker interleave, no job ever gets a second
\* summary push: the claim of try_acquire_notification_lock and the choice
\* between announcing and waiting for follow-ups never both apply to one job.
THEOREM OneSummary == Spec => []AtMostOneSummary
<1>1. Init => TypeOK /\ PlanOK /\ Once
  <2>1. Init => PlanOK
    BY DEF Init, Idle, PlanOK
  <2> QED
    BY <2>1, InitTyped, InitOnce
<1>2. TypeOK /\ PlanOK /\ Once /\ [Next]_vars => (TypeOK /\ PlanOK /\ Once)'
  BY TypeStep, PlanStep, OnceStep
<1>3. Once => AtMostOneSummary
  BY DEF Once, Told, AtMostOneSummary
<1> QED
  BY <1>1, <1>2, <1>3, PTL DEF Spec

-----------------------------------------------------------------------------
(***************************************************************************)
(* What JobRunner tells its users and when, for every value of the         *)
(* constants: a summary comes after the last job of its pipeline, it says  *)
(* what the rows say, no unfinished job is without an owner, and every     *)
(* step is a step of JobLifecycle.                                         *)
(*                                                                         *)
(* The first of these holds whatever raises.  Its argument is that a       *)
(* terminal state is left only for the other one: the one write that could *)
(* do more, mark_running, is made for a job that is still queued, because  *)
(* the place a thread has reached fixes the state of its job's row         *)
(* (Place).  The others are about behaviours in which no call on the table *)
(* raises: then no terminal state is left at all, so what a look at a      *)
(* pipeline has gathered in separate reads (Look, Gathered) still holds    *)
(* when the summary is sent.                                               *)
(***************************************************************************)

\* A row is in the state that the place of the thread at work on it calls for.
Place(t) ==
    /\ thread[t].pc = "idle" => thread[t] = Idle
    /\ thread[t].pc \in {"start", "children"} => rows[Job(t)].status = "queued"
    /\ thread[t].pc \in {"body", "sleep", "follow"} => rows[Job(t)].status = "running"
    /\ thread[t].pc = "succeed" =>
          rows[Job(t)].status = IF t = "api" THEN "queued" ELSE "running"
    /\ thread[t].pc \in LookSteps \cup {"announce"} => Settled(Job(t))
    /\ thread[t].pc = "announce_fail" => rows[Job(t)].status = "failed"

Kids(p) == rows[p].followUps

AllSettled(p) == \A i \in 1..Len(Kids(p)) : Settled(Kids(p)[i])

\* A look at a pipeline has seen the follow-ups before the present one settle.
Look(t) ==
    /\ thread[t].pc = "check_child" =>
          /\ thread[t].idx \in 1..Len(Kids(Watched(t)))
          /\ \A i \in 1..(thread[t].idx - 1) : Settled(Kids(Watched(t))[i])
    /\ thread[t].pc \in {"claim", "send"} => AllSettled(Watched(t))

Waiting == \A j \in JobId : Queued(j) => rows[j].status = "queued"

Stopped == ~up => /\ ~open /\ queue = <<>> /\ pending = {}
                  /\ \A t \in Thread : thread[t].pc = "idle"

Course ==
    /\ Waiting
    /\ Stopped
    /\ \A t \in Thread : Place(t) /\ Look(t)
    /\ SummaryComesLast

-----------------------------------------------------------------------------
(* What is true besides while no call on the table has raised.             *)

Failing(j) == rows[j].status = "failed"

\* What a look has gathered of the follow-ups is what their rows say.
Gathered(t) ==
    /\ thread[t].pc \in SeenSteps => rows[Watched(t)].status = "succeeded"
    /\ thread[t].pc = "check_child" =>
          (thread[t].bad <=>
              \E i \in 1..(thread[t].idx - 1) : Failing(Kids(Watched(t))[i]))
    /\ thread[t].pc \in {"claim", "send"} =>
          (thread[t].bad <=> FailedStage(Watched(t)))

\* A job that fails has told nothing yet, and one that is announced succeeded.
Outcome ==
    /\ thread["worker"].pc = "fail" => rows[Job("worker")].status = "running"
    /\ thread["worker"].pc = "announce" => rows[Job("worker")].status = "succeeded"
    /\ thread["worker"].pc \in {"fail", "announce_fail"} =>
          Kids(Job("worker")) = <<>> /\ Outcomes(Job("worker")) = 0

FailuresTold == \A j \in JobId : pushes[j]["failed"] > 0 => Failing(j)

Truthful ==
    \A p \in JobId :
        /\ IsSave(p) /\ pushes[p]["breakdown"] > 0 => FailedStage(p)
        /\ IsSave(p) /\ pushes[p]["success"] > 0 => ~FailedStage(p)

Clean ==
    faults = 0 =>
        /\ \A t \in Thread : Gathered(t)
        /\ Outcome
        /\ FailuresTold
        /\ Truthful

\* What a thread has still to submit, what it has submitted and for whom.
Stages(t) ==
    /\ thread[t].pc \in {"children", "follow"} => thread[t].plan \in Seq(Kind \ {"ingest"})
    /\ thread[t].pc \in WorkSteps =>
          \A i \in 1..Len(thread[t].made) : Exists(thread[t].made[i])
    /\ t = "api" /\ thread[t].pc \in {"children", "succeed"} => IsSave(Job(t))

-----------------------------------------------------------------------------
(* What a step may do to a row, to a look and to the news of a job.        *)

Rests(j) == /\ rows'[j].status = rows[j].status
            /\ rows'[j].followUps = rows[j].followUps
            /\ rows'[j].kind = rows[j].kind
            /\ rows'[j].parent = rows[j].parent

Appears(j) == /\ rows[j].status = "absent"
              /\ rows'[j].status = "queued"
              /\ rows'[j].followUps = <<>>

Leaves(t, step) == thread[t].pc = step /\ thread'[t].pc # step

\* The status of j changes and nothing else that matters here.
Turns(j, status) ==
    /\ rows'[j].status = status
    /\ rows'[j].followUps = rows[j].followUps
    /\ rows'[j].kind = rows[j].kind
    /\ rows'[j].parent = rows[j].parent

Starts(j) == Leaves("worker", "start") /\ j = Job("worker") /\ Turns(j, "running")

\* A mark_failed that raises inside the try block is made again by the handler.
Fails(j) == /\ thread["worker"].pc = "fail" /\ j = Job("worker")
            /\ Turns(j, "failed")
            /\ thread'["worker"] # thread["worker"]
            /\ thread'["worker"].pc = "fail" => faults' > 0

GivenUp(j) == ~up /\ rows[j].status \in Active /\ Turns(j, "failed")

Completes(j) ==
    /\ rows'[j].status = "succeeded"
    /\ rows'[j].kind = rows[j].kind
    /\ rows'[j].parent = rows[j].parent
    /\ \E t \in Thread : /\ Leaves(t, "succeed") /\ j = Job(t)
                         /\ rows'[j].followUps = thread[t].made

RowGoes(j) ==
    Rests(j) \/ Appears(j) \/ Starts(j) \/ Fails(j) \/ GivenUp(j) \/ Completes(j)

RowsGo == \A j \in JobId : RowGoes(j)

LEMMA CreatedGoes ==
    ASSUME TypeOK, NEW j \in JobId, NEW k, NEW p, Fresh(j), rows' = Created(j, k, p)
    PROVE  RowsGo /\ Appears(j)
<1>1. rows'[j] = [Blank EXCEPT !.status = "queued", !.kind = k, !.parent = p]
  BY DEF Created, TypeOK
<1>2. \A i \in JobId \ {j} : rows'[i] = rows[i]
  BY DEF Created, TypeOK
<1>3. Appears(j)
  BY <1>1 DEF Appears, Fresh, Blank
<1> QED
  BY <1>2, <1>3 DEF RowsGo, RowGoes, Rests

LEMMA LostOrCreatedGoes ==
    ASSUME TypeOK, NEW k, NEW p, LostOrCreated(k, p)
    PROVE  RowsGo
BY CreatedGoes DEF LostOrCreated, RowsGo, RowGoes, Rests

LEMMA SameRowsGo ==
    ASSUME UNCHANGED rows
    PROVE  RowsGo
BY DEF RowsGo, RowGoes, Rests

LEMMA DetailedGoes ==
    ASSUME TypeOK, NEW j, NEW d, rows' = Detailed(j, d)
    PROVE  RowsGo
BY DEF RowsGo, RowGoes, Rests, Detailed, TypeOK, Row

LEMMA ClaimedGoes ==
    ASSUME TypeOK, NEW j, rows' = Claimed(j)
    PROVE  RowsGo
BY DEF RowsGo, RowGoes, Rests, Claimed, TypeOK, Row

LEMMA RunningGoes ==
    ASSUME TypeOK, rows' = Running(Job("worker")), Leaves("worker", "start")
    PROVE  RowsGo
BY DEF RowsGo, RowGoes, Rests, Starts, Turns, Running, TypeOK, Row

LEMMA FailedGoes ==
    ASSUME TypeOK, rows' = Failed(Job("worker")), thread["worker"].pc = "fail",
           thread'["worker"] # thread["worker"],
           thread'["worker"].pc = "fail" => faults' > 0
    PROVE  RowsGo
<1>1. ASSUME NEW j \in JobId PROVE RowGoes(j)
  <2>1. rows[j] \in Row
    BY DEF TypeOK
  <2>2. rows' = [rows EXCEPT ![Job("worker")] =
                    [rows[Job("worker")] EXCEPT !.status = "failed", !.detail = FALSE]]
    BY DEF Failed
  <2>3. CASE j = Job("worker")
    BY <2>1, <2>2, <2>3 DEF RowGoes, Fails, Turns, TypeOK, Row
  <2>4. CASE j # Job("worker")
    BY <2>1, <2>2, <2>4 DEF RowGoes, Rests, TypeOK
  <2> QED
    BY <2>3, <2>4
<1> QED
  BY <1>1 DEF RowsGo

LEMMA SucceededGoes ==
    ASSUME TypeOK, NEW t \in Thread, rows' = Succeeded(Job(t), thread[t].made),
           Leaves(t, "succeed")
    PROVE  RowsGo
<1>1. ASSUME NEW j \in JobId PROVE RowGoes(j)
  <2>1. rows[j] \in Row
    BY DEF TypeOK
  <2>2. rows' = [rows EXCEPT ![Job(t)] =
                    [rows[Job(t)] EXCEPT !.status = "succeeded", !.detail = FALSE,
                                         !.followUps = thread[t].made,
                                         !.claim = "unsent"]]
    BY DEF Succeeded
  <2>3. CASE j = Job(t)
    BY <2>1, <2>2, <2>3 DEF RowGoes, Completes, TypeOK, Row
  <2>4. CASE j # Job(t)
    BY <2>1, <2>2, <2>4 DEF RowGoes, Rests, TypeOK
  <2> QED
    BY <2>3, <2>4
<1> QED
  BY <1>1 DEF RowsGo

LEMMA ReconciledGoes ==
    ASSUME TypeOK, ~up, rows' = Reconciled
    PROVE  RowsGo
<1>1. ASSUME NEW j \in JobId PROVE RowGoes(j)
  <2>1. rows[j] \in Row
    BY DEF TypeOK
  <2>2. rows'[j] = IF rows[j].status \in Active
                   THEN [rows[j] EXCEPT !.status = "failed"] ELSE rows[j]
    BY DEF Reconciled, ReconciledBy
  <2> QED
    BY <2>1, <2>2 DEF RowGoes, Rests, GivenUp, Turns, Row, Active
<1> QED
  BY <1>1 DEF RowsGo

\* A thread whose place is written anew, and the other, which stays.
LEMMA BecomesThread ==
    ASSUME TypeOK, NEW t \in Thread, NEW r, Becomes(t, r)
    PROVE  thread'[t] = r /\ \A u \in Thread \ {t} : thread'[u] = thread[u]
BY DEF Becomes, TypeOK

LEMMA GotoThread ==
    ASSUME TypeOK, NEW t \in Thread, NEW step, Goto(t, step)
    PROVE  /\ thread'[t].pc = step
           /\ thread'[t].job = thread[t].job
           /\ thread'[t].plan = thread[t].plan
           /\ thread'[t].made = thread[t].made
           /\ thread'[t].idx = thread[t].idx
           /\ thread'[t].bad = thread[t].bad
           /\ \A u \in Thread \ {t} : thread'[u] = thread[u]
<1>1. /\ thread'[t] = [thread[t] EXCEPT !.pc = step]
      /\ \A u \in Thread \ {t} : thread'[u] = thread[u]
  BY BecomesThread DEF Goto
<1>2. thread[t] \in Local
  BY LocalTyped
<1> QED
  BY <1>1, <1>2 DEF Local

LEMMA IdleThread ==
    ASSUME TypeOK, NEW t \in Thread, GoIdle(t)
    PROVE  /\ thread'[t] = Idle
           /\ thread'[t].pc = "idle"
           /\ \A u \in Thread \ {t} : thread'[u] = thread[u]
BY BecomesThread DEF GoIdle, Idle

LEMMA CaughtThread ==
    ASSUME TypeOK, Caught
    PROVE  /\ thread'["worker"].pc = "fail"
           /\ thread'["worker"].job = thread["worker"].job
           /\ thread'["worker"].guarded = FALSE
           /\ thread'["api"] = thread["api"]
<1>1. /\ thread'["worker"] = [thread["worker"] EXCEPT !.pc = "fail", !.guarded = FALSE]
      /\ thread'["api"] = thread["api"]
  BY BecomesThread DEF Caught
<1>2. thread["worker"] \in Local
  BY LocalTyped
<1> QED
  BY <1>1, <1>2 DEF Local

\* A look goes on with the same job, or ends.
LEMMA CheckThread ==
    ASSUME TypeOK, NEW t \in Thread, Check(t)
    PROVE  /\ thread[t].pc \in LookSteps
           /\ \/ GoIdle(t)
              \/ /\ thread'[t].pc \in SeenSteps
                 /\ Job(t)' = Job(t)
           /\ \A u \in Thread \ {t} : thread'[u] = thread[u]
<1> SUFFICES ASSUME ~GoIdle(t)
             PROVE  /\ thread[t].pc \in LookSteps /\ thread'[t].pc \in SeenSteps
                    /\ Job(t)' = Job(t)
                    /\ \A u \in Thread \ {t} : thread'[u] = thread[u]
  BY IdleThread DEF Check, ReadParent, ReadChild, Claim, Send, At, LookSteps, SeenSteps
<1>1. CASE ReadParent(t)
  <2> DEFINE r == [thread[t] EXCEPT !.pc = "check_child", !.idx = 1, !.bad = FALSE]
  <2>1. Becomes(t, r) /\ thread[t].pc = "check_parent"
    BY <1>1 DEF ReadParent, At
  <2>2. r.pc = "check_child" /\ r.job = Job(t)
    BY LocalTyped DEF Local, Job
  <2> HIDE DEF r
  <2> QED
    BY <2>1, <2>2, BecomesThread DEF LookSteps, SeenSteps, Job
<1>2. CASE ReadChild(t)
  <2> DEFINE kids == Kids(Watched(t))
             r == [thread[t] EXCEPT !.idx = thread[t].idx + 1,
                                    !.bad = AnyFailed(t, kids[thread[t].idx]),
                                    !.pc = IF thread[t].idx = Len(kids)
                                           THEN "claim" ELSE "check_child"]
  <2>1. Becomes(t, r) /\ thread[t].pc = "check_child"
    BY <1>2 DEF ReadChild, At, Kids
  <2>2. r.pc \in {"claim", "check_child"} /\ r.job = Job(t)
    BY LocalTyped DEF Local, Job
  <2> HIDE DEF r
  <2> QED
    BY <2>1, <2>2, BecomesThread DEF LookSteps, SeenSteps, Job
<1>3. CASE Claim(t)
  BY <1>3, GotoThread DEF Claim, At, LookSteps, SeenSteps, Job
<1> QED
  BY <1>1, <1>2, <1>3 DEF Check, Send

\* A write that raises after it was executed, by a thread that leaves its place.
LEMMA WrittenGoes ==
    ASSUME TypeOK, ApiSteps, NEW t \in Thread, rows' \in {rows, Written(t)},
           thread'[t].pc \in {"fail", "idle"}, thread'[t] # thread[t], faults' > 0
    PROVE  RowsGo
<1>1. CASE thread[t].pc = "start" /\ rows' = Running(Job(t))
  BY <1>1, RunningGoes DEF ApiSteps, LookSteps, SeenSteps, Leaves
<1>2. CASE rows' = Detailed(Job(t), FALSE)
  BY <1>2, DetailedGoes
<1>3. CASE thread[t].pc = "succeed" /\ rows' = Succeeded(Job(t), thread[t].made)
  BY <1>3, SucceededGoes DEF Leaves
<1>4. CASE thread[t].pc = "fail" /\ rows' = Failed(Job(t))
  BY <1>4, FailedGoes DEF ApiSteps, LookSteps, SeenSteps
<1>5. CASE rows' = Claimed(Watched(t))
  BY <1>5, ClaimedGoes
<1>6. CASE UNCHANGED rows
  BY <1>6, SameRowsGo
<1> QED
  BY <1>1, <1>2, <1>3, <1>4, <1>5, <1>6 DEF Written

\* No step does anything else to a row.
LEMMA RowStep == TypeOK /\ Once /\ [Next]_vars => RowsGo
<1> SUFFICES ASSUME TypeOK, Once, [Next]_vars PROVE RowsGo
  OBVIOUS
<1>1. ASSUME NEW k \in ApiKinds, Submit(k) PROVE RowsGo
  BY <1>1, CreatedGoes DEF Submit
<1>2. ASSUME NEW mood \in MoodSettings, BeginPipeline(mood) PROVE RowsGo
  BY <1>2, CreatedGoes DEF BeginPipeline
<1>3. CASE SubmitChild
  BY <1>3, CreatedGoes DEF SubmitChild
<1>4. CASE FinishParent
  BY <1>4, GotoThread, SucceededGoes DEF FinishParent, At, AfterParent, Leaves
<1>5. ASSUME NEW t \in Thread, Check(t) PROVE RowsGo
  BY <1>5, SameRowsGo, ClaimedGoes DEF Check, ReadParent, ReadChild, Claim, Send
<1>6. CASE Start
  <2>1. thread'["worker"].pc = "body"
    <3> DEFINE r == [thread["worker"] EXCEPT !.pc = "body", !.known = TRUE]
    <3>1. r.pc = "body"
      BY LocalTyped DEF Local
    <3>2. Becomes("worker", r)
      BY <1>6 DEF Start
    <3> HIDE DEF r
    <3> QED
      BY <3>1, <3>2, BecomesThread
  <2> QED
    BY <1>6, <2>1, RunningGoes DEF Start, At, Leaves
<1>7. CASE BodyTransient \/ Wake
  BY <1>7, DetailedGoes DEF BodyTransient, Wake
<1>8. CASE QueueFollowUp
  BY <1>8, CreatedGoes DEF QueueFollowUp
<1>9. CASE Succeed
  <2>1. Leaves("worker", "succeed")
    BY <1>9, GotoThread, IdleThread DEF Succeed, At, AfterSuccess, Leaves
  <2> QED
    BY <1>9, <2>1, SucceededGoes DEF Succeed
<1>10. CASE Fail
  BY <1>10, GotoThread, IdleThread, FailedGoes DEF Fail, At, Leaves
<1>11. CASE Take \/ BodyReturns \/ BodyRaises \/ EntryMissing \/ AnnounceSuccess \/ AnnounceFailure
  BY <1>11, SameRowsGo
  DEF Take, BodyReturns, BodyRaises, EntryMissing, AnnounceSuccess, AnnounceFailure
<1>12. ASSUME NEW k, SubmitFaults(k) PROVE RowsGo
  BY <1>12, LostOrCreatedGoes DEF SubmitFaults
<1>13. CASE PipelineFaults
  <2>1. faults' > 0
    BY <1>13 DEF PipelineFaults, Faulty, TypeOK
  <2>2. thread'["api"] # thread["api"]
    BY <1>13, IdleThread DEF PipelineFaults
  <2> QED
    BY <1>13, <2>1, <2>2, LostOrCreatedGoes, IdleThread, WrittenGoes DEF PipelineFaults, Once
<1>14. CASE FollowUpFaults
  BY <1>14, LostOrCreatedGoes DEF FollowUpFaults
<1>15. CASE Restart
  BY <1>15, ReconciledGoes DEF Restart
<1>16. CASE Crash \/ Shutdown \/ Exit \/ UNCHANGED vars
  BY <1>16, SameRowsGo DEF Crash, Shutdown, Exit, Down, vars
<1>17. CASE WorkerFaults
  <2>1. faults' > 0
    BY <1>17 DEF WorkerFaults, Faulty, TypeOK
  <2>2. thread'["worker"].pc \in {"fail", "idle"}
    BY <1>17, CaughtThread, IdleThread DEF WorkerFaults
  <2>3. thread'["worker"] # thread["worker"]
    BY <1>17, CaughtThread, IdleThread DEF WorkerFaults, WorkerCalls
  <2> QED
    BY <1>17, <2>1, <2>2, <2>3, WrittenGoes DEF WorkerFaults, Once
<1> QED
  BY <1>1, <1>2, <1>3, <1>4, <1>5, <1>6, <1>7, <1>8, <1>9, <1>10, <1>11, <1>12, <1>13,
     <1>14, <1>15, <1>16, <1>17
  DEF Next, Request, ApiStep, WorkerStep, Fault, Process

-----------------------------------------------------------------------------
(* What these moves leave as it was.                                       *)

\* A thread that works on a job is the only one to move its row.
LEMMA RowsOfOthers ==
    ASSUME TypeOK, Once, Stopped, RowsGo,
           NEW t \in Thread, Busy(t), thread'[t] = thread[t]
    PROVE  Rests(Job(t))
<1>1. Job(t) \in JobId /\ Exists(Job(t)) /\ up
  BY DEF Once, JobsExist, Stopped, Busy
<1>2. RowGoes(Job(t))
  BY <1>1 DEF RowsGo
<1>3. ASSUME NEW u \in Thread, Busy(u), Job(u) = Job(t) PROVE thread'[u] = thread[u]
  BY <1>3 DEF Once, Exclusive
<1>4. ~Starts(Job(t)) /\ ~Completes(Job(t)) /\ ~Fails(Job(t))
  BY <1>3 DEF Starts, Completes, Fails, Leaves, Busy
<1> QED
  BY <1>1, <1>2, <1>4 DEF RowGoes, Appears, GivenUp, Exists

\* The rows of a settled job and of a job with follow-ups.
LEMMA SettledStays ==
    ASSUME RowsGo, Place("worker"), NEW j \in JobId, Settled(j)
    PROVE  Settled(j)'
BY DEF RowsGo, RowGoes, Rests, Appears, Starts, Fails, GivenUp, Completes, Turns, Leaves,
       Place, Settled, Terminal

LEMMA KidsStay ==
    ASSUME TypeOK, Once, RowsGo, NEW p \in JobId, Kids(p) # <<>>
    PROVE  Kids(p)' = Kids(p)
<1>1. Exists(p) /\ ~Unfinished(p)
  BY DEF Once, AbsentIsBlank, Untouched, Kids
<1>2. ~Completes(p) /\ ~Appears(p)
  BY <1>1 DEF Completes, Leaves, Unfinished, WorkSteps, Appears, Exists
<1> QED
  BY <1>2 DEF RowsGo, RowGoes, Rests, Starts, Fails, GivenUp, Turns, Kids

LEMMA KidsTyped ==
    ASSUME TypeOK, NEW p \in JobId
    PROVE  /\ Kids(p) \in Seq(JobId)
           /\ Len(Kids(p)) \in Nat
           /\ \A i \in 1..Len(Kids(p)) : Kids(p)[i] \in JobId
BY RowTyped, LenProperties, ElementOfSeq DEF Kids

\* An existing job keeps its kind and its parent.
LEMMA ParentStays ==
    ASSUME RowsGo, NEW j \in JobId, Exists(j)
    PROVE  /\ Exists(j)'
           /\ rows'[j].kind = rows[j].kind
           /\ rows'[j].parent = rows[j].parent
BY DEF RowsGo, RowGoes, Rests, Appears, Starts, Fails, GivenUp, Completes, Turns, Exists

LEMMA AllSettledStays ==
    ASSUME TypeOK, Once, RowsGo, Place("worker"), NEW p \in JobId, Kids(p) # <<>>,
           AllSettled(p)
    PROVE  AllSettled(p)'
BY KidsStay, KidsTyped, SettledStays DEF AllSettled, Kids, Settled

-----------------------------------------------------------------------------
\* The place of a thread that does not move.
LEMMA PlaceKept ==
    ASSUME TypeOK, Once, Stopped, RowsGo,
           NEW t \in Thread, Place(t), thread'[t] = thread[t]
    PROVE  Place(t)'
<1>1. CASE Busy(t)
  <2>1. rows'[Job(t)].status = rows[Job(t)].status
    BY <1>1, RowsOfOthers DEF Rests
  <2> QED
    BY <2>1 DEF Place, Job, Settled
<1>2. CASE ~Busy(t)
  BY <1>2 DEF Place, Busy, LookSteps, SeenSteps
<1> QED
  BY <1>1, <1>2

LEMMA IdlePlace ==
    ASSUME NEW t \in Thread, thread'[t] = Idle
    PROVE  Place(t)'
BY DEF Place, Idle, LookSteps, SeenSteps

\* A thread that goes on, on a row in the state its new place calls for.
LEMMA NewPlace ==
    ASSUME NEW t \in Thread, NEW step, thread'[t].pc = step, Job(t)' = Job(t),
           \/ step \in {"start", "children"} /\ rows'[Job(t)].status = "queued"
           \/ step \in {"body", "sleep", "follow"} /\ rows'[Job(t)].status = "running"
           \/ /\ step = "succeed"
              /\ rows'[Job(t)].status = IF t = "api" THEN "queued" ELSE "running"
           \/ step \in LookSteps \cup {"announce"} /\ rows'[Job(t)].status \in Terminal
           \/ step = "announce_fail" /\ rows'[Job(t)].status = "failed"
           \/ step = "fail"
    PROVE  Place(t)'
BY DEF Place, LookSteps, SeenSteps, Settled, Job

\* Every step leads to places on rows of the right state.
LEMMA PlaceStep ==
    TypeOK /\ PlanOK /\ Once /\ Course /\ [Next]_vars => \A t \in Thread : Place(t)'
<1> SUFFICES ASSUME TypeOK, PlanOK, Once, Course, [Next]_vars, NEW u \in Thread
             PROVE  Place(u)'
  OBVIOUS
<1>r. RowsGo
  BY RowStep
<1>k. \A t \in Thread : Place(t)
  BY DEF Course
<1>s. Stopped /\ Waiting
  BY DEF Course
<1>o. thread'[u] = thread[u] => Place(u)'
  BY <1>k, <1>r, <1>s, PlaceKept
<1>i. ASSUME NEW t \in Thread, GoIdle(t) PROVE Place(u)'
  BY <1>i, <1>o, IdleThread, IdlePlace
\* It is enough to look at the thread that moves.
<1>m. ASSUME NEW t \in Thread, NEW r, Becomes(t, r), Place(t)' PROVE Place(u)'
  BY <1>m, <1>o, BecomesThread
<1>g. ASSUME NEW t \in Thread, NEW step, Goto(t, step), Place(t)' PROVE Place(u)'
  BY <1>g, <1>o, GotoThread
<1>j. \A t \in Thread : Busy(t) => Job(t) \in JobId
  BY DEF Once, JobsExist
<1>1. ASSUME NEW k \in ApiKinds, Submit(k) PROVE Place(u)'
  BY <1>1, <1>o DEF Submit
<1>2. ASSUME NEW mood \in MoodSettings, BeginPipeline(mood) PROVE Place(u)'
  <2> DEFINE r(p) == [Idle EXCEPT !.pc = "children", !.job = p, !.plan = SaveStages(mood)]
  <2>1. PICK p \in JobId :
            Fresh(p) /\ rows' = Created(p, "pipeline", NoJob) /\ Becomes("api", r(p))
    BY <1>2 DEF BeginPipeline
  <2>2. r(p).pc = "children" /\ r(p).job = p
    BY DEF Idle
  <2> HIDE DEF r
  <2>3. thread'["api"].pc = "children" /\ Job("api")' = p
    BY <2>1, <2>2, BecomesThread DEF Job
  <2>4. rows'[p].status = "queued"
    BY <2>1, CreatedGoes DEF Appears
  <2>5. Place("api")'
    BY <2>3, <2>4 DEF Place, LookSteps, SeenSteps
  <2> QED
    BY <1>m, <2>1, <2>5
\* The loop over the follow-ups to submit.
<1>l. ASSUME NEW t \in Thread, NEW made, Becomes(t, Submitted(t, made)), Busy(t),
             t = "api" => thread[t].pc = "children",
             t = "worker" => thread[t].pc = "follow",
             rows'[Job(t)].status = rows[Job(t)].status
      PROVE  Place(u)'
  <2>1. thread'[t] = Submitted(t, made) /\ thread[t] \in Local
    BY <1>l, BecomesThread, LocalTyped
  <2>2. thread'[t].pc \in {"succeed", thread[t].pc} /\ Job(t)' = Job(t)
    BY <2>1 DEF Submitted, Local, Job
  <2>3. Place(t)'
    BY <1>k, <1>l, <2>2, NewPlace DEF Place
  <2> QED
    BY <1>l, <1>m, <2>3
<1>3. CASE SubmitChild
  <2>1. thread["api"].pc = "children" /\ Busy("api")
    BY <1>3 DEF SubmitChild, At, Busy
  <2>2. PICK j \in JobId :
            /\ Fresh(j) /\ rows' = Created(j, Head(thread["api"].plan), Job("api"))
            /\ Becomes("api", Submitted("api", Append(thread["api"].made, j)))
    BY <1>3 DEF SubmitChild
  <2>3. j # Job("api")
    BY <1>k, <2>1, <2>2 DEF Place, Fresh
  <2>4. rows'[Job("api")].status = rows[Job("api")].status
    BY <1>j, <2>1, <2>2, <2>3 DEF Created, TypeOK
  <2> QED
    BY <1>l, <2>1, <2>2, <2>4
<1>4. CASE FinishParent
  <2>1. Goto("api", "check_parent") /\ thread["api"].pc = "succeed"
    BY <1>4 DEF FinishParent, At, AfterParent
  <2>2. rows'[Job("api")].status = "succeeded"
    BY <1>4, <1>j, <2>1, RowTyped DEF FinishParent, Succeeded, TypeOK, Busy, Row
  <2>3. Place("api")'
    BY <2>1, <2>2, GotoThread, NewPlace DEF LookSteps, Terminal, Job
  <2> QED
    BY <1>g, <2>1, <2>3
<1>5. ASSUME NEW t \in Thread, Check(t) PROVE Place(u)'
  <2>1. CASE GoIdle(t)
    BY <1>i, <2>1
  <2>2. CASE ~GoIdle(t)
    <3>1. /\ thread[t].pc \in LookSteps /\ thread'[t].pc \in LookSteps
          /\ Job(t)' = Job(t)
          /\ \A v \in Thread \ {t} : thread'[v] = thread[v]
      BY <1>5, <2>2, CheckThread DEF LookSteps
    <3>2. rows'[Job(t)].status \in Terminal
      <4>1. Job(t) \in JobId /\ Settled(Job(t))
        BY <1>j, <1>k, <3>1 DEF Place, Busy, LookSteps, SeenSteps
      <4> QED
        BY <1>k, <1>r, <4>1, SettledStays DEF Settled
    <3>3. Place(t)'
      BY <3>1, <3>2, NewPlace
    <3> QED
      BY <1>o, <3>1, <3>3
  <2> QED
    BY <2>1, <2>2
<1>6. CASE Take
  <2> DEFINE r == [Idle EXCEPT !.pc = "start", !.job = Head(queue), !.guarded = TRUE,
                               !.known = ~IsIngest(Head(queue))]
  <2>1. Becomes("worker", r) /\ UNCHANGED rows /\ queue # <<>>
    BY <1>6 DEF Take
  <2>2. r.pc = "start" /\ r.job = Head(queue)
    BY DEF Idle
  <2> HIDE DEF r
  <2>3. thread'["worker"].pc = "start" /\ Job("worker")' = Head(queue)
    BY <2>1, <2>2, BecomesThread DEF Job
  <2>4. Queued(Head(queue)) /\ Head(queue) \in JobId
    <3>1. queue \in Seq(JobId) /\ Len(queue) \in Nat /\ Len(queue) # 0
      BY <2>1, EmptySeq, LenProperties DEF TypeOK
    <3>2. Head(queue) = queue[1] /\ Head(queue) \in JobId /\ 1 \in 1..Len(queue)
      BY <2>1, <3>1, HeadTailProperties
    <3> QED
      BY <3>2 DEF Queued
  <2>5. rows'[Head(queue)].status = "queued"
    BY <1>s, <2>1, <2>4 DEF Waiting
  <2>6. Place("worker")'
    BY <2>3, <2>5 DEF Place, LookSteps, SeenSteps
  <2> QED
    BY <1>m, <2>1, <2>6
<1>7. CASE Start
  <2> DEFINE r == [thread["worker"] EXCEPT !.pc = "body", !.known = TRUE]
  <2>1. Becomes("worker", r) /\ rows' = Running(Job("worker")) /\ Busy("worker")
    BY <1>7 DEF Start, At, Busy
  <2>2. r.pc = "body" /\ r.job = Job("worker")
    BY LocalTyped DEF Local, Job
  <2> HIDE DEF r
  <2>3. rows'[Job("worker")].status = "running"
    BY <1>j, <2>1, RowTyped DEF Running, TypeOK, Row
  <2>4. Place("worker")'
    BY <2>1, <2>2, <2>3, BecomesThread, NewPlace DEF Job
  <2> QED
    BY <1>m, <2>1, <2>4
<1>8. CASE BodyReturns
  <2> DEFINE r == [thread["worker"] EXCEPT !.pc = "follow", !.plan = <<"mood", "extract">>]
  <2>1. /\ Becomes("worker", r) \/ Goto("worker", "succeed")
        /\ thread["worker"].pc = "body" /\ UNCHANGED rows
    BY <1>8 DEF BodyReturns, At
  <2>2. r.pc = "follow" /\ r.job = Job("worker")
    BY LocalTyped DEF Local, Job
  <2> HIDE DEF r
  <2>3. rows'[Job("worker")].status = "running"
    BY <1>k, <2>1 DEF Place
  <2>4. Place("worker")'
    BY <2>1, <2>2, <2>3, BecomesThread, GotoThread, NewPlace DEF Job
  <2> QED
    BY <1>m, <1>g, <2>1, <2>4
<1>c. ASSUME Caught PROVE Place(u)'
  <2>1. Place("worker")'
    BY <1>c, CaughtThread, NewPlace DEF Job
  <2> QED
    BY <1>c, <1>o, <2>1, CaughtThread
<1>9. CASE BodyRaises
  BY <1>9, <1>c DEF BodyRaises
<1>10. CASE EntryMissing
  <2>1. Goto("worker", "fail")
    BY <1>10 DEF EntryMissing
  <2>2. Place("worker")'
    BY <2>1, GotoThread, NewPlace DEF Job
  <2> QED
    BY <1>g, <2>1, <2>2
<1>11. CASE BodyTransient \/ Wake
  <2> DEFINE r == [thread["worker"] EXCEPT !.pc = "body",
                                           !.attempt = thread["worker"].attempt + 1]
  <2>1. /\ thread["worker"].pc \in {"body", "sleep"}
        /\ Goto("worker", "sleep") \/ Becomes("worker", r)
        /\ \E d \in BOOLEAN : rows' = Detailed(Job("worker"), d)
    BY <1>11 DEF BodyTransient, Wake, At
  <2>2. r.pc = "body" /\ r.job = Job("worker")
    BY LocalTyped DEF Local, Job
  <2> HIDE DEF r
  <2>3. rows'[Job("worker")].status = "running"
    <3>1. rows[Job("worker")].status = "running" /\ Job("worker") \in JobId
      BY <1>j, <1>k, <2>1 DEF Place, Busy
    <3> QED
      BY <2>1, <3>1, RowTyped DEF Detailed, TypeOK, Row
  <2>4. Place("worker")'
    BY <2>1, <2>2, <2>3, BecomesThread, GotoThread, NewPlace DEF Job
  <2> QED
    BY <1>m, <1>g, <2>1, <2>4
\* A follow-up that is created, or not, is not the job at hand.
<1>f. ASSUME NEW k, NEW p, LostOrCreated(k, p), NEW t \in Thread, Busy(t)
      PROVE  rows'[Job(t)].status = rows[Job(t)].status
  <2>1. Job(t) \in JobId /\ rows[Job(t)].status # "absent"
    BY <1>f DEF Once, JobsExist, Exists
  <2> QED
    BY <1>f, <2>1 DEF LostOrCreated, Created, Fresh, TypeOK
<1>12. CASE QueueFollowUp \/ FollowUpFaults
  <2>1. /\ thread["worker"].pc = "follow"
        /\ \E made : NextFollowUp(made)
        /\ LostOrCreated(Head(thread["worker"].plan), Job("worker"))
    BY <1>12 DEF QueueFollowUp, FollowUpFaults, At, LostOrCreated
  <2> QED
    BY <1>f, <1>l, <2>1 DEF NextFollowUp, Busy
<1>13. CASE Succeed
  <2>1. rows'[Job("worker")].status = "succeeded"
    BY <1>13, <1>j, RowTyped DEF Succeed, At, Busy, Succeeded, TypeOK, Row
  <2>2. AfterSuccess \in {"check_parent", "idle", "announce"}
    BY DEF AfterSuccess
  <2>3. ASSUME Goto("worker", AfterSuccess), AfterSuccess # "idle" PROVE Place("worker")'
    BY <2>1, <2>2, <2>3, GotoThread, NewPlace DEF LookSteps, Terminal, Job
  <2> QED
    BY <1>13, <1>i, <1>g, <2>3 DEF Succeed
<1>14. CASE AnnounceSuccess
  BY <1>14, <1>i DEF AnnounceSuccess
<1>15. CASE Fail
  <2>1. rows'[Job("worker")].status = "failed"
    BY <1>15, <1>j, RowTyped DEF Fail, At, Busy, Failed, TypeOK, Row
  <2>2. Goto("worker", "announce_fail") => Place("worker")'
    BY <2>1, GotoThread, NewPlace DEF Job
  <2> QED
    BY <1>15, <1>i, <1>g, <2>2 DEF Fail
<1>16. CASE AnnounceFailure
  <2>1. rows'[Job("worker")].status = "failed"
    BY <1>16, <1>k DEF AnnounceFailure, At, Place
  <2>2. Goto("worker", "check_parent") => Place("worker")'
    BY <2>1, GotoThread, NewPlace DEF Job, LookSteps, Terminal
  <2> QED
    BY <1>16, <1>i, <1>g, <2>2 DEF AnnounceFailure
<1>17. ASSUME NEW k, SubmitFaults(k) PROVE Place(u)'
  BY <1>17, <1>o DEF SubmitFaults
<1>18. CASE PipelineFaults
  BY <1>18, <1>i DEF PipelineFaults
<1>19. CASE WorkerFaults
  BY <1>19, <1>i, <1>c DEF WorkerFaults
<1>20. CASE Crash \/ Exit
  BY <1>20, IdlePlace DEF Crash, Exit, Down
<1>21. CASE Shutdown \/ Restart \/ UNCHANGED vars
  BY <1>21, <1>o DEF Shutdown, Restart, vars
<1> QED
  BY <1>1, <1>2, <1>3, <1>4, <1>5, <1>6, <1>7, <1>8, <1>9, <1>10, <1>11, <1>12, <1>13,
     <1>14, <1>15, <1>16, <1>17, <1>18, <1>19, <1>20, <1>21
  DEF Next, Request, ApiStep, WorkerStep, Fault, Process

-----------------------------------------------------------------------------
\* A thread gets to look at a follow-up, to claim or to send only by a look.
Looks(t) == ReadParent(t) \/ ReadChild(t) \/ Claim(t)

LEMMA SeenStep ==
    ASSUME TypeOK, Once, [Next]_vars,
           NEW u \in Thread, thread'[u].pc \in SeenSteps, ~Looks(u)
    PROVE  thread'[u] = thread[u]
<1> SUFFICES ASSUME thread'[u] # thread[u] PROVE FALSE
  OBVIOUS
\* The thread that moves is u, and its new place is none of the look's.
<1>m. ASSUME NEW t \in Thread, NEW r, Becomes(t, r), r.pc \notin SeenSteps PROVE FALSE
  BY <1>m, BecomesThread
<1>g. ASSUME NEW t \in Thread, NEW step, Goto(t, step), step \notin SeenSteps PROVE FALSE
  BY <1>g, GotoThread
<1>i. ASSUME NEW t \in Thread, GoIdle(t) PROVE FALSE
  BY <1>i, IdleThread DEF SeenSteps
<1>1. ASSUME NEW k, SubmitFaults(k) \/ Submit(k) PROVE FALSE
  BY <1>1 DEF SubmitFaults, Submit
<1>2. ASSUME NEW mood \in MoodSettings, BeginPipeline(mood) PROVE FALSE
  <2> DEFINE r(p) == [Idle EXCEPT !.pc = "children", !.job = p, !.plan = SaveStages(mood)]
  <2>1. PICK p \in JobId : Becomes("api", r(p))
    BY <1>2 DEF BeginPipeline
  <2>2. r(p).pc = "children"
    BY DEF Idle
  <2> HIDE DEF r
  <2> QED
    BY <1>m, <2>1, <2>2 DEF SeenSteps
<1>l. ASSUME NEW t \in Thread, NEW made, Becomes(t, Submitted(t, made)),
             thread[t].pc \notin SeenSteps
      PROVE  FALSE
  <2>1. Submitted(t, made).pc \in {"succeed", thread[t].pc}
    BY LocalTyped DEF Submitted, Local
  <2> QED
    BY <1>l, <1>m, <2>1 DEF SeenSteps
<1>3. CASE SubmitChild
  BY <1>3, <1>l DEF SubmitChild, At, SeenSteps
<1>4. CASE FinishParent
  BY <1>4, <1>g DEF FinishParent, AfterParent, SeenSteps
<1>5. ASSUME NEW t \in Thread, Check(t) PROVE FALSE
  <2>1. t = u
    BY <1>5, CheckThread
  <2> QED
    BY <1>5, <1>i, <2>1 DEF Check, Looks, Send
<1>6. CASE Take
  <2>1. [Idle EXCEPT !.pc = "start", !.job = Head(queue), !.guarded = TRUE,
                     !.known = ~IsIngest(Head(queue))].pc = "start"
    BY DEF Idle
  <2> QED
    BY <1>6, <1>m, <2>1 DEF Take, SeenSteps
<1>7. CASE Start
  <2>1. [thread["worker"] EXCEPT !.pc = "body", !.known = TRUE].pc = "body"
    BY LocalTyped DEF Local
  <2> QED
    BY <1>7, <1>m, <2>1 DEF Start, SeenSteps
<1>8. CASE BodyReturns
  <2>1. [thread["worker"] EXCEPT !.pc = "follow", !.plan = <<"mood", "extract">>].pc = "follow"
    BY LocalTyped DEF Local
  <2> QED
    BY <1>8, <1>m, <1>g, <2>1 DEF BodyReturns, SeenSteps
<1>9. CASE BodyRaises \/ WorkerFaults
  BY <1>9, <1>i, CaughtThread DEF BodyRaises, WorkerFaults, SeenSteps
<1>10. CASE EntryMissing \/ BodyTransient
  BY <1>10, <1>g DEF EntryMissing, BodyTransient, SeenSteps
<1>11. CASE Wake
  <2>1. [thread["worker"] EXCEPT !.pc = "body", !.attempt = thread["worker"].attempt + 1].pc
            = "body"
    BY LocalTyped DEF Local
  <2> QED
    BY <1>11, <1>m, <2>1 DEF Wake, SeenSteps
<1>12. CASE QueueFollowUp \/ FollowUpFaults
  BY <1>12, <1>l DEF QueueFollowUp, FollowUpFaults, At, NextFollowUp, SeenSteps
<1>13. CASE Succeed
  BY <1>13, <1>i, <1>g DEF Succeed, AfterSuccess, SeenSteps
<1>14. CASE Fail \/ AnnounceFailure
  BY <1>14, <1>i, <1>g DEF Fail, AnnounceFailure, SeenSteps
<1>15. CASE AnnounceSuccess \/ PipelineFaults
  BY <1>15, <1>i DEF AnnounceSuccess, PipelineFaults
<1>16. CASE Crash \/ Exit
  BY <1>16 DEF Crash, Exit, Down, Idle, SeenSteps
<1>17. CASE Shutdown \/ Restart \/ UNCHANGED vars
  BY <1>17 DEF Shutdown, Restart, vars
<1> QED
  BY <1>1, <1>2, <1>3, <1>4, <1>5, <1>6, <1>7, <1>8, <1>9, <1>10, <1>11, <1>12, <1>13,
     <1>14, <1>15, <1>16, <1>17
  DEF Next, Request, ApiStep, WorkerStep, Fault, Process

\* A look that goes on is at the same pipeline, which has the same follow-ups.
LEMMA SeenStays ==
    ASSUME TypeOK, Once, RowsGo, NEW t \in Thread, thread[t].pc \in LookSteps,
           Job(t)' = Job(t)
    PROVE  /\ Watched(t) \in JobId
           /\ Watched(t)' = Watched(t)
           /\ thread[t].pc \in SeenSteps => Kids(Watched(t)) # <<>>
           /\ Kids(Watched(t)) # <<>> => Kids(Watched(t))' = Kids(Watched(t))
<1>1. Watched(t) \in JobId /\ (thread[t].pc \in SeenSteps => Kids(Watched(t)) # <<>>)
  BY DEF Once, Looking, Kids
<1>2. Job(t) \in JobId /\ Exists(Job(t))
  BY DEF Once, JobsExist, Busy, LookSteps, SeenSteps
<1>3. Watched(t)' = Watched(t)
  BY <1>2, ParentStays DEF Watched
<1> QED
  BY <1>1, <1>3, KidsStay

\* What a thread has seen settled stays so while it looks on.
LEMMA LookStep ==
    TypeOK /\ PlanOK /\ Once /\ Course /\ [Next]_vars => \A t \in Thread : Look(t)'
<1> SUFFICES ASSUME TypeOK, PlanOK, Once, Course, [Next]_vars, NEW t \in Thread,
                    thread'[t].pc \in SeenSteps
             PROVE  Look(t)'
  BY DEF Look, SeenSteps
<1>r. RowsGo
  BY RowStep
<1>p. Place("worker") /\ Look(t)
  BY DEF Course
<1>s. \A j \in JobId : Settled(j) => Settled(j)'
  BY <1>p, <1>r, SettledStays
<1> DEFINE p    == Watched(t)
           kids == Kids(p)
<1>1. ASSUME thread[t].pc \in SeenSteps, Job(t)' = Job(t)
      PROVE  p \in JobId /\ p' = p /\ kids' = kids /\ kids # <<>>
  BY <1>1, <1>r, SeenStays DEF LookSteps
<1>2. CASE thread'[t] = thread[t]
  <2>1. p \in JobId /\ p' = p /\ kids' = kids /\ thread[t].pc \in SeenSteps
    BY <1>1, <1>2 DEF Job
  <2>2. \A i \in 1..Len(kids) : kids[i] \in JobId
    BY <2>1, KidsTyped
  <2>3. ASSUME thread[t].pc = "check_child"
        PROVE  /\ thread'[t].idx \in 1..Len(kids')
               /\ \A i \in 1..(thread'[t].idx - 1) : Settled(kids[i])'
    <3>1. /\ thread[t].idx \in 1..Len(kids) /\ Len(kids) \in Nat
          /\ \A i \in 1..(thread[t].idx - 1) : Settled(kids[i])
      BY <1>p, <2>1, <2>3, KidsTyped DEF Look
    <3>2. \A i \in 1..(thread[t].idx - 1) : i \in 1..Len(kids)
      BY <3>1
    <3>3. \A i \in 1..(thread[t].idx - 1) : kids[i] \in JobId
      BY <2>2, <3>2
    <3> HIDE DEF kids
    <3> QED
      BY <1>2, <1>s, <2>1, <3>1, <3>3 DEF Settled
  <2>4. ASSUME thread[t].pc \in {"claim", "send"} PROVE AllSettled(p)'
    <3>1. AllSettled(p)
      BY <1>p, <2>4 DEF Look
    <3> QED
      BY <1>1, <1>2, <1>p, <1>r, <2>1, <3>1, AllSettledStays DEF Job, AllSettled
  <2> QED
    BY <1>2, <2>1, <2>3, <2>4 DEF Look, Settled
<1>3. CASE ReadParent(t)
  <2> DEFINE r == [thread[t] EXCEPT !.pc = "check_child", !.idx = 1, !.bad = FALSE]
  <2>1. /\ thread[t].pc = "check_parent" /\ UNCHANGED rows
        /\ Becomes(t, r) /\ ParentReady(p)
    BY <1>3, IdleThread DEF ReadParent, At, SeenSteps
  <2>2. r.pc = "check_child" /\ r.idx = 1 /\ r.job = Job(t)
    BY LocalTyped DEF Local, Job
  <2> HIDE DEF r
  <2>3. thread'[t].pc = "check_child" /\ thread'[t].idx = 1 /\ Job(t)' = Job(t)
    BY <2>1, <2>2, BecomesThread DEF Job
  <2>4. p \in JobId /\ p' = p /\ kids' = kids /\ kids # <<>>
    BY <1>r, <2>1, <2>3, SeenStays DEF LookSteps, ParentReady, Kids
  <2>5. Len(kids) \in Nat /\ Len(kids) # 0
    BY <2>4, KidsTyped, EmptySeq
  <2> QED
    BY <2>3, <2>4, <2>5 DEF Look
<1>4. CASE ReadChild(t)
  <2> DEFINE kid == kids[thread[t].idx]
             r == [thread[t] EXCEPT !.idx = thread[t].idx + 1,
                                    !.bad = AnyFailed(t, kid),
                                    !.pc = IF thread[t].idx = Len(kids)
                                           THEN "claim" ELSE "check_child"]
  <2>1. /\ thread[t].pc = "check_child" /\ UNCHANGED rows
        /\ Becomes(t, r) /\ SiblingDone(kid)
    BY <1>4, IdleThread DEF ReadChild, At, SeenSteps, Kids
  <2>2. /\ r.idx = thread[t].idx + 1 /\ r.job = Job(t)
        /\ r.pc = IF thread[t].idx = Len(kids) THEN "claim" ELSE "check_child"
    BY LocalTyped DEF Local, Job
  <2> HIDE DEF r
  <2>3. /\ thread'[t].pc = IF thread[t].idx = Len(kids) THEN "claim" ELSE "check_child"
        /\ thread'[t].idx = thread[t].idx + 1 /\ Job(t)' = Job(t)
    BY <2>1, <2>2, BecomesThread DEF Job
  <2>4. p \in JobId /\ p' = p /\ kids' = kids
    BY <1>1, <2>1, <2>3 DEF SeenSteps
  <2>5. /\ thread[t].idx \in 1..Len(kids) /\ Len(kids) \in Nat
        /\ \A i \in 1..(thread[t].idx - 1) : Settled(kids[i])
    BY <1>p, <2>1, <2>4, KidsTyped DEF Look
  <2>6. \A i \in 1..thread[t].idx : Settled(kids[i])
    <3>1. Settled(kid)
      BY <2>1 DEF SiblingDone, Settled
    <3>2. \A i \in 1..thread[t].idx : i \in 1..(thread[t].idx - 1) \/ i = thread[t].idx
      BY <2>5
    <3> HIDE DEF kids
    <3> QED
      BY <2>5, <3>1, <3>2
  <2>7. \A i \in 1..thread[t].idx : Settled(kids[i])'
    BY <2>1, <2>4, <2>6 DEF Settled
  <2> HIDE DEF kids
  <2>8. CASE thread[t].idx = Len(kids)
    <3>1. thread'[t].pc = "claim" /\ \A i \in 1..Len(kids') : Settled(kids[i])'
      BY <2>3, <2>4, <2>7, <2>8
    <3> QED
      BY <3>1 DEF Look, AllSettled, kids
  <2>9. CASE thread[t].idx # Len(kids)
    <3>1. /\ thread'[t].pc = "check_child"
          /\ thread'[t].idx \in 1..Len(kids')
          /\ thread'[t].idx - 1 = thread[t].idx
      BY <2>3, <2>4, <2>5, <2>9
    <3> QED
      BY <2>7, <3>1 DEF Look, kids
  <2> QED
    BY <2>8, <2>9
<1>5. CASE Claim(t)
  <2>1. thread[t].pc = "claim" /\ Goto(t, "send")
    BY <1>5, IdleThread DEF Claim, At, SeenSteps
  <2>2. thread'[t].pc = "send" /\ Job(t)' = Job(t)
    BY <2>1, GotoThread DEF Job
  <2>3. p \in JobId /\ p' = p /\ kids # <<>> /\ AllSettled(p)
    BY <1>1, <1>p, <2>1, <2>2 DEF SeenSteps, Look
  <2>4. AllSettled(p)'
    BY <1>p, <1>r, <2>3, AllSettledStays DEF AllSettled
  <2> QED
    BY <2>2, <2>4 DEF Look
<1> QED
  BY <1>2, <1>3, <1>4, <1>5, SeenStep DEF Looks

-----------------------------------------------------------------------------
\* News of a job goes out in three steps only.
Silent(p) == \A k \in {"success", "breakdown", "failed"} : pushes'[p][k] = pushes[p][k]

Tells(p, k) ==
    /\ pushes'[p][k] = pushes[p][k] + 1
    /\ \A i \in PushKinds \ {k} : pushes'[p][i] = pushes[p][i]

NewsGoes(p) ==
    \/ Silent(p)
    \/ \E t \in Thread : Send(t) /\ p = Watched(t) /\ Tells(p, SummaryKind(t))
    \/ AnnounceSuccess /\ p = Job("worker") /\ Tells(p, "success")
    \/ /\ AnnounceFailure /\ ~Defers(Job("worker"))
       /\ p = Job("worker") /\ Tells(p, "failed")

LEMMA PushTells ==
    ASSUME TypeOK, NEW q, NEW k \in PushKinds, Push(q, k), NEW p \in JobId
    PROVE  IF p = q THEN Tells(p, k) ELSE Silent(p)
<1>1. pushes \in [JobId -> [PushKinds -> Nat]]
  BY DEF TypeOK
<1> DEFINE counted == [pushes[q] EXCEPT ![k] = pushes[q][k] + 1]
<1>2. pushes' = [pushes EXCEPT ![q] = counted]
  BY DEF Push
<1>3. p = q => pushes'[p] = counted /\ pushes[p] \in [PushKinds -> Nat]
  BY <1>1, <1>2
<1>4. p # q => pushes'[p] = pushes[p]
  BY <1>1, <1>2
<1> QED
  BY <1>3, <1>4 DEF Tells, Silent

LEMMA NewsStep == TypeOK /\ [Next]_vars => \A p \in JobId : NewsGoes(p)
<1> SUFFICES ASSUME TypeOK, [Next]_vars, NEW p \in JobId PROVE NewsGoes(p)
  OBVIOUS
<1>1. UNCHANGED pushes => NewsGoes(p)
  BY DEF NewsGoes, Silent
<1>2. ASSUME NEW t \in Thread, Send(t) PROVE NewsGoes(p)
  <2>1. SummaryKind(t) \in PushKinds
    BY DEF SummaryKind, PushKinds
  <2> QED
    BY <1>2, <2>1, PushTells DEF Send, NewsGoes
<1>3. CASE AnnounceSuccess
  <2>1. "success" \in PushKinds
    BY DEF PushKinds
  <2> QED
    BY <1>3, <2>1, PushTells DEF AnnounceSuccess, NewsGoes
<1>4. CASE AnnounceFailure
  <2>1. "failed" \in PushKinds
    BY DEF PushKinds
  <2> QED
    BY <1>1, <1>4, <2>1, PushTells DEF AnnounceFailure, NewsGoes
<1>5. CASE BodyTransient
  <2>1. "retrying" \in PushKinds
    BY DEF PushKinds
  <2>2. ASSUME Push(Job("worker"), "retrying") PROVE Silent(p)
    BY <2>1, <2>2, PushTells DEF Tells, Silent, PushKinds
  <2> QED
    BY <1>1, <1>5, <2>2 DEF BodyTransient, NewsGoes
<1>6. ASSUME NEW t \in Thread, Check(t) PROVE NewsGoes(p)
  BY <1>1, <1>2, <1>6 DEF Check, ReadParent, ReadChild, Claim
<1>7. ASSUME NEW k, Submit(k) \/ SubmitFaults(k) \/ BeginPipeline(k) PROVE NewsGoes(p)
  BY <1>1, <1>7 DEF Submit, SubmitFaults, BeginPipeline
<1>8. CASE SubmitChild \/ FinishParent \/ Take \/ Start \/ BodyReturns \/ BodyRaises
           \/ EntryMissing \/ Wake \/ QueueFollowUp \/ Succeed \/ Fail
  BY <1>1, <1>8
  DEF SubmitChild, FinishParent, Take, Start, BodyReturns, BodyRaises, EntryMissing, Wake,
      QueueFollowUp, Succeed, Fail
<1>9. CASE PipelineFaults \/ FollowUpFaults \/ WorkerFaults \/ Process \/ UNCHANGED vars
  BY <1>1, <1>9
  DEF PipelineFaults, FollowUpFaults, WorkerFaults, Process, Crash, Shutdown, Exit, Restart,
      Down, vars
<1> QED
  BY <1>3, <1>4, <1>5, <1>6, <1>7, <1>8, <1>9
  DEF Next, Request, ApiStep, WorkerStep, Fault

\* The queue gets new jobs only, and is empty when the process is down.
LEMMA QueueStep ==
    TypeOK /\ [Next]_vars => \A j \in JobId : Queued(j)' => Queued(j) \/ Appears(j)
<1> SUFFICES ASSUME TypeOK, [Next]_vars, NEW j \in JobId, Queued(j)'
             PROVE  Queued(j) \/ Appears(j)
  OBVIOUS
<1>q. queue \in Seq(JobId)
  BY DEF TypeOK
<1>1. UNCHANGED queue => Queued(j)
  BY DEF Queued
<1>2. queue' # <<>>
  <2>1. PICK i \in 1..Len(queue') : queue'[i] = j
    BY DEF Queued
  <2> QED
    BY <2>1
<1>3. ASSUME NEW i \in JobId, queue' = Append(queue, i) PROVE Queued(j) \/ i = j
  <2>1. PICK k \in 1..Len(queue') : queue'[k] = j
    BY DEF Queued
  <2>2. /\ Len(queue') = Len(queue) + 1 /\ Len(queue) \in Nat
        /\ \A n \in 1..Len(queue) : queue'[n] = queue[n]
        /\ queue'[Len(queue) + 1] = i
    BY <1>q, <1>3, AppendProperties, LenProperties
  <2>3. k \in 1..Len(queue) \/ k = Len(queue) + 1
    BY <2>1, <2>2
  <2> QED
    BY <2>1, <2>2, <2>3 DEF Queued
<1>4. ASSUME NEW k, Submit(k) PROVE Queued(j) \/ Appears(j)
  BY <1>3, <1>4, CreatedGoes DEF Submit
<1>5. CASE SubmitChild \/ QueueFollowUp
  BY <1>1, <1>3, <1>5, CreatedGoes DEF SubmitChild, QueueFollowUp
<1>6. CASE Take
  <2>1. queue' = Tail(queue) /\ queue # <<>>
    BY <1>6 DEF Take
  <2>2. /\ Len(queue) \in Nat /\ Len(queue') = Len(queue) - 1
        /\ \A i \in 1..Len(queue') : queue'[i] = queue[i + 1]
    BY <1>q, <2>1, HeadTailProperties, LenProperties
  <2>3. PICK i \in 1..Len(queue') : queue'[i] = j
    BY DEF Queued
  <2>4. i + 1 \in 1..Len(queue)
    BY <2>2, <2>3
  <2> QED
    BY <2>2, <2>3, <2>4 DEF Queued
<1>7. CASE Crash \/ Exit \/ Shutdown
  BY <1>2, <1>7 DEF Crash, Exit, Shutdown, Down
<1>8. ASSUME NEW k, SubmitFaults(k) \/ BeginPipeline(k) PROVE Queued(j)
  BY <1>1, <1>8 DEF SubmitFaults, BeginPipeline
<1>9. ASSUME NEW t \in Thread, Check(t) PROVE Queued(j)
  BY <1>1, <1>9 DEF Check, ReadParent, ReadChild, Claim, Send
<1>10. CASE FinishParent \/ Start \/ BodyReturns \/ BodyRaises \/ EntryMissing
            \/ BodyTransient \/ Wake \/ Succeed \/ AnnounceSuccess \/ Fail \/ AnnounceFailure
  BY <1>1, <1>10
  DEF FinishParent, Start, BodyReturns, BodyRaises, EntryMissing, BodyTransient, Wake,
      Succeed, AnnounceSuccess, Fail, AnnounceFailure
<1>11. CASE PipelineFaults \/ FollowUpFaults \/ WorkerFaults \/ Restart \/ UNCHANGED vars
  BY <1>1, <1>11 DEF PipelineFaults, FollowUpFaults, WorkerFaults, Restart, vars
<1> QED
  BY <1>4, <1>5, <1>6, <1>7, <1>8, <1>9, <1>10, <1>11
  DEF Next, Request, ApiStep, WorkerStep, Fault, Process

\* Only a crash or an exit takes the process down, and with it all it held.
LEMMA StoppedStep == TypeOK /\ Stopped /\ [Next]_vars => Stopped'
<1> SUFFICES ASSUME TypeOK, Stopped, [Next]_vars PROVE Stopped'
  OBVIOUS
<1>1. CASE Crash \/ Exit
  BY <1>1 DEF Crash, Exit, Down, Stopped, Idle
<1>2. CASE Restart
  BY <1>2 DEF Restart, Stopped
<1>3. CASE UNCHANGED vars
  BY <1>3 DEF vars, Stopped
<1>4. up /\ UNCHANGED up => Stopped'
  BY DEF Stopped
<1>5. ASSUME NEW k, Submit(k) \/ SubmitFaults(k) \/ BeginPipeline(k) PROVE Stopped'
  BY <1>4, <1>5 DEF Submit, SubmitFaults, BeginPipeline, Serving
<1>6. ASSUME NEW t \in Thread, Check(t) PROVE Stopped'
  BY <1>4, <1>6 DEF Check, ReadParent, ReadChild, Claim, Send, At
<1>7. CASE SubmitChild \/ FinishParent \/ Take \/ Start \/ BodyReturns \/ BodyRaises
           \/ EntryMissing \/ BodyTransient \/ Wake \/ QueueFollowUp \/ Succeed
           \/ AnnounceSuccess \/ Fail \/ AnnounceFailure
  BY <1>4, <1>7
  DEF SubmitChild, FinishParent, Take, Start, BodyReturns, BodyRaises, EntryMissing,
      BodyTransient, Wake, QueueFollowUp, Succeed, AnnounceSuccess, Fail, AnnounceFailure, At
<1>8. CASE PipelineFaults \/ FollowUpFaults \/ WorkerFaults \/ Shutdown
  BY <1>4, <1>8 DEF PipelineFaults, FollowUpFaults, WorkerFaults, Shutdown, Serving, At
<1> QED
  BY <1>1, <1>2, <1>3, <1>5, <1>6, <1>7, <1>8
  DEF Next, Request, ApiStep, WorkerStep, Fault, Process

LEMMA WaitingStep == TypeOK /\ Once /\ Course /\ [Next]_vars => Waiting'
<1> SUFFICES ASSUME TypeOK, Once, Course, [Next]_vars, NEW j \in JobId, Queued(j)'
             PROVE  rows'[j].status = "queued"
  BY DEF Waiting
<1>1. RowGoes(j)
  BY RowStep DEF RowsGo
<1>2. CASE Queued(j)
  <2>1. rows[j].status = "queued" /\ up
    BY <1>2, EmptySeq DEF Course, Waiting, Stopped, Queued
  <2>2. \A t \in Thread : Busy(t) => Job(t) # j
    BY <1>2 DEF Once, Exclusive
  <2> QED
    BY <1>1, <2>1, <2>2
    DEF RowGoes, Rests, Appears, Starts, Fails, GivenUp, Completes, Leaves, Busy
<1>3. CASE Appears(j)
  BY <1>3 DEF Appears
<1> QED
  BY <1>2, <1>3, QueueStep

\* The follow-ups of a job that was told of are fixed.
LEMMA ToldKidsStay ==
    ASSUME TypeOK, Once, RowsGo, NEW p \in JobId, Summaries(p) > 0
    PROVE  Exists(p) /\ Kids(p)' = Kids(p)
<1>1. Exists(p) /\ ~Unfinished(p)
  BY SummariesNat DEF Once, AbsentIsBlank, Untouched
<1>2. ~Completes(p) /\ ~Appears(p)
  BY <1>1 DEF Completes, Leaves, Unfinished, WorkSteps, Appears, Exists
<1> QED
  BY <1>1, <1>2 DEF RowsGo, RowGoes, Rests, Starts, Fails, GivenUp, Turns, Kids

\* The summary of a pipeline is sent by a thread that has seen every follow-up
\* settle, or for a job without any, and settled jobs stay settled.
LEMMA LastStep == TypeOK /\ Once /\ Course /\ [Next]_vars => SummaryComesLast'
<1> SUFFICES ASSUME TypeOK, Once, Course, [Next]_vars, NEW p \in JobId, Summaries(p)' > 0
             PROVE  AllSettled(p)'
  BY DEF SummaryComesLast, AllSettled, Kids
<1>r. RowsGo
  BY RowStep
<1>p. Place("worker")
  BY DEF Course
<1>1. NewsGoes(p)
  BY NewsStep
<1>2. CASE Summaries(p)' = Summaries(p)
  <2>1. Summaries(p) > 0
    BY <1>2
  <2>2. AllSettled(p)
    BY <2>1 DEF Course, SummaryComesLast, AllSettled, Kids
  <2>3. CASE Kids(p) # <<>>
    BY <1>p, <1>r, <2>2, <2>3, AllSettledStays
  <2>4. CASE Kids(p) = <<>>
    <3>1. Kids(p)' = <<>>
      BY <1>r, <2>1, <2>4, ToldKidsStay
    <3> QED
      BY <3>1 DEF AllSettled
  <2> QED
    BY <2>3, <2>4
<1>3. ASSUME NEW t \in Thread, Send(t), p = Watched(t) PROVE AllSettled(p)'
  <2>1. AllSettled(p) /\ UNCHANGED rows
    BY <1>3 DEF Send, At, Course, Look
  <2> QED
    BY <2>1 DEF AllSettled, Kids, Settled
<1>4. ASSUME AnnounceSuccess, p = Job("worker") PROVE AllSettled(p)'
  <2>1. Kids(p) = <<>> /\ UNCHANGED rows
    BY <1>4 DEF AnnounceSuccess, At, Once, Announcing, Kids
  <2>2. Kids(p)' = <<>>
    BY <2>1 DEF Kids
  <2> QED
    BY <2>2 DEF AllSettled
<1>5. Silent(p) \/ Tells(p, "failed") => Summaries(p)' = Summaries(p)
  BY DEF Silent, Tells, Summaries, PushKinds
<1> QED
  BY <1>1, <1>2, <1>3, <1>4, <1>5 DEF NewsGoes

LEMMA CourseStep == TypeOK /\ PlanOK /\ Once /\ Course /\ [Next]_vars => Course'
BY PlaceStep, LookStep, WaitingStep, StoppedStep, LastStep DEF Course

LEMMA InitCourse == Init => Course
<1> SUFFICES ASSUME Init PROVE Course
  OBVIOUS
<1>1. /\ Len(queue) = 0
      /\ \A t \in Thread : thread[t] = Idle
      /\ up
  BY DEF Init
<1>2. \A t \in Thread : Place(t) /\ Look(t)
  BY <1>1 DEF Place, Look, Idle, LookSteps, SeenSteps
<1>3. SummaryComesLast
  BY DEF Init, SummaryComesLast, Summaries, PushKinds
<1> QED
  BY <1>1, <1>2, <1>3 DEF Course, Waiting, Queued, Stopped

Safe == TypeOK /\ PlanOK /\ Once /\ Course

LEMMA SafeHolds == (Init => Safe) /\ (Safe /\ [Next]_vars => Safe')
<1>1. Init => PlanOK
  BY DEF Init, Idle, PlanOK
<1> QED
  BY <1>1, InitTyped, InitOnce, InitCourse, TypeStep, PlanStep, OnceStep, CourseStep DEF Safe

\* Whatever raises, crashes or restarts: when the summary of a pipeline goes out
\* all the jobs it sums up are in a terminal state, and they stay in one.  The
\* look of _try_pipeline_notification reads them one by one, and its result is
\* good at the time of the push because nothing takes a settled job up again.
THEOREM SummaryLast == Spec => []SummaryComesLast
<1>1. Safe => SummaryComesLast
  BY DEF Safe, Course
<1> QED
  BY <1>1, SafeHolds, PTL DEF Spec

-----------------------------------------------------------------------------
(* Behaviours in which no call on the table raises.                        *)

\* Calls that raise are counted, so none has raised before or does now.
LEMMA NoFaultStep ==
    ASSUME TypeOK, [Next]_vars, faults' = 0
    PROVE  faults = 0 /\ ~Fault
<1>1. ~Faulty
  BY DEF Faulty, TypeOK
<1>2. ~Fault
  BY <1>1 DEF Fault, SubmitFaults, PipelineFaults, FollowUpFaults, WorkerFaults
<1>3. UNCHANGED faults => faults = 0
  OBVIOUS
<1>4. ASSUME NEW k, Submit(k) \/ BeginPipeline(k) PROVE UNCHANGED faults
  BY <1>4 DEF Submit, BeginPipeline
<1>5. ASSUME NEW t \in Thread, Check(t) PROVE UNCHANGED faults
  BY <1>5 DEF Check, ReadParent, ReadChild, Claim, Send
<1>6. CASE SubmitChild \/ FinishParent \/ Take \/ Start \/ BodyReturns \/ BodyRaises
           \/ EntryMissing \/ BodyTransient \/ Wake \/ QueueFollowUp \/ Succeed
           \/ AnnounceSuccess \/ Fail \/ AnnounceFailure
  BY <1>3, <1>2, <1>6
  DEF SubmitChild, FinishParent, Take, Start, BodyReturns, BodyRaises, EntryMissing,
      BodyTransient, Wake, QueueFollowUp, Succeed, AnnounceSuccess, Fail, AnnounceFailure
<1>7. CASE Process \/ UNCHANGED vars
  BY <1>2, <1>3, <1>7 DEF Process, Crash, Shutdown, Exit, Restart, Down, vars
<1> QED
  BY <1>2, <1>3, <1>4, <1>5, <1>6, <1>7 DEF Next, Request, ApiStep, WorkerStep

\* Then no terminal state is left at all.
LEMMA StatusStands ==
    ASSUME TypeOK, Once, Course, Outcome, RowsGo, faults' = 0,
           NEW j \in JobId, Settled(j)
    PROVE  rows'[j].status = rows[j].status
<1>1. RowGoes(j)
  BY DEF RowsGo
<1>2. \A t \in Thread : Place(t)
  BY DEF Course
<1> QED
  BY <1>1, <1>2
  DEF RowGoes, Rests, Appears, Starts, Fails, GivenUp, Completes, Leaves, Place, Outcome,
      Settled, Terminal, Active

LEMMA FailedStageStands ==
    ASSUME TypeOK, Once, Course, Outcome, RowsGo, faults' = 0,
           NEW p \in JobId, AllSettled(p), Kids(p)' = Kids(p)
    PROVE  FailedStage(p)' <=> FailedStage(p)
<1>1. \A i \in 1..Len(Kids(p)) : rows'[Kids(p)[i]].status = rows[Kids(p)[i]].status
  BY KidsTyped, StatusStands DEF AllSettled
<1> QED
  BY <1>1 DEF FailedStage, Kids

\* What a look has gathered stays true while it goes on.
LEMMA GatheredStep ==
    Safe /\ Clean /\ [Next]_vars /\ faults' = 0 => \A t \in Thread : Gathered(t)'
<1> SUFFICES ASSUME Safe, Clean, [Next]_vars, faults' = 0,
                    NEW t \in Thread, thread'[t].pc \in SeenSteps
             PROVE  Gathered(t)'
  BY DEF Gathered, SeenSteps
<1>t. TypeOK /\ Once /\ Course
  BY DEF Safe
<1>r. RowsGo
  BY <1>t, RowStep
<1>c. Gathered(t) /\ Outcome /\ Look(t) /\ Place("worker")
  BY <1>t, NoFaultStep DEF Clean, Course
<1>s. \A j \in JobId : Settled(j) => rows'[j].status = rows[j].status
  BY <1>t, <1>r, <1>c, StatusStands
<1> DEFINE p    == Watched(t)
           kids == Kids(p)
<1>1. ASSUME thread[t].pc \in SeenSteps, Job(t)' = Job(t)
      PROVE  /\ p \in JobId /\ p' = p /\ kids' = kids
             /\ rows'[p].status = "succeeded"
  <2>1. p \in JobId /\ p' = p /\ kids' = kids
    BY <1>1, <1>t, <1>r, SeenStays DEF LookSteps
  <2>2. rows[p].status = "succeeded"
    BY <1>1, <1>c DEF Gathered
  <2> QED
    BY <1>s, <2>1, <2>2 DEF Settled, Terminal
<1>2. CASE thread'[t] = thread[t]
  <2>1. /\ p \in JobId /\ p' = p /\ kids' = kids /\ rows'[p].status = "succeeded"
        /\ thread[t].pc \in SeenSteps
    BY <1>1, <1>2 DEF Job
  <2>2. ASSUME thread[t].pc = "check_child"
        PROVE  thread[t].bad <=> \E i \in 1..(thread[t].idx - 1) : Failing(kids[i])'
    <3>1. /\ thread[t].idx \in 1..Len(kids) /\ Len(kids) \in Nat
          /\ \A i \in 1..(thread[t].idx - 1) : Settled(kids[i])
          /\ \A i \in 1..Len(kids) : kids[i] \in JobId
      BY <1>t, <1>c, <2>1, <2>2, KidsTyped DEF Look
    <3>2. \A i \in 1..(thread[t].idx - 1) : i \in 1..Len(kids)
      BY <3>1
    <3>3. thread[t].bad <=> \E i \in 1..(thread[t].idx - 1) : Failing(kids[i])
      BY <1>c, <2>2 DEF Gathered
    <3>4. \A i \in 1..(thread[t].idx - 1) : rows'[kids[i]].status = rows[kids[i]].status
      BY <1>s, <3>1, <3>2
    <3> HIDE DEF kids
    <3> QED
      BY <2>1, <3>3, <3>4 DEF Failing
  <2>3. ASSUME thread[t].pc \in {"claim", "send"}
        PROVE  thread[t].bad <=> FailedStage(p)'
    <3>1. AllSettled(p) /\ (thread[t].bad <=> FailedStage(p))
      BY <1>c, <2>3 DEF Look, Gathered
    <3> QED
      BY <1>t, <1>c, <1>r, <2>1, <3>1, FailedStageStands
  <2> QED
    BY <1>2, <2>1, <2>2, <2>3 DEF Gathered, Failing, FailedStage
<1>3. CASE ReadParent(t)
  <2> DEFINE r == [thread[t] EXCEPT !.pc = "check_child", !.idx = 1, !.bad = FALSE]
  <2>1. /\ thread[t].pc = "check_parent" /\ UNCHANGED rows
        /\ Becomes(t, r) /\ ParentReady(p)
    BY <1>3, <1>t, IdleThread DEF ReadParent, At, SeenSteps
  <2>2. r.pc = "check_child" /\ r.idx = 1 /\ r.bad = FALSE /\ r.job = Job(t)
    BY <1>t, LocalTyped DEF Local, Job
  <2> HIDE DEF r
  <2>3. /\ thread'[t].pc = "check_child" /\ thread'[t].idx = 1
        /\ thread'[t].bad = FALSE /\ Job(t)' = Job(t)
    BY <1>t, <2>1, <2>2, BecomesThread DEF Job
  <2>4. p' = p
    BY <1>t, <1>r, <2>1, <2>3, SeenStays DEF LookSteps
  <2> QED
    BY <2>1, <2>3, <2>4 DEF Gathered, ParentReady
<1>4. CASE ReadChild(t)
  <2> DEFINE kid == kids[thread[t].idx]
             r == [thread[t] EXCEPT !.idx = thread[t].idx + 1,
                                    !.bad = AnyFailed(t, kid),
                                    !.pc = IF thread[t].idx = Len(kids)
                                           THEN "claim" ELSE "check_child"]
  <2>1. /\ thread[t].pc = "check_child" /\ UNCHANGED rows /\ Becomes(t, r)
    BY <1>4, <1>t, IdleThread DEF ReadChild, At, SeenSteps, Kids
  <2>2. /\ r.idx = thread[t].idx + 1 /\ r.job = Job(t) /\ r.bad = AnyFailed(t, kid)
        /\ r.pc = IF thread[t].idx = Len(kids) THEN "claim" ELSE "check_child"
    BY <1>t, LocalTyped DEF Local, Job
  <2> HIDE DEF r
  <2>3. /\ thread'[t].pc = IF thread[t].idx = Len(kids) THEN "claim" ELSE "check_child"
        /\ thread'[t].idx = thread[t].idx + 1 /\ Job(t)' = Job(t)
        /\ thread'[t].bad = AnyFailed(t, kid)
    BY <1>t, <2>1, <2>2, BecomesThread DEF Job
  <2>4. p \in JobId /\ p' = p /\ kids' = kids /\ rows'[p].status = "succeeded"
    BY <1>1, <2>1, <2>3 DEF SeenSteps
  <2>5. /\ thread[t].idx \in 1..Len(kids) /\ Len(kids) \in Nat
        /\ thread[t].bad <=> \E i \in 1..(thread[t].idx - 1) : Failing(kids[i])
    BY <1>c, <1>t, <2>1, <2>4, KidsTyped DEF Look, Gathered
  <2>6. AnyFailed(t, kid) <=> \E i \in 1..thread[t].idx : Failing(kids[i])
    <3>1. \A i : i \in 1..thread[t].idx <=> i \in 1..(thread[t].idx - 1) \/ i = thread[t].idx
      BY <2>5
    <3>2. AnyFailed(t, kid) <=> thread[t].bad \/ Failing(kid)
      BY DEF AnyFailed, Failing
    <3> HIDE DEF kids
    <3> QED
      BY <2>5, <3>1, <3>2
  <2>7. \A i : Failing(kids[i])' <=> Failing(kids[i])
    BY <2>1, <2>4 DEF Failing
  <2> HIDE DEF kids
  <2>8. CASE thread[t].idx = Len(kids)
    <3>1. thread'[t].pc = "claim"
      BY <2>3, <2>8
    <3>2. thread'[t].bad <=> \E i \in 1..Len(kids') : Failing(kids[i])'
      BY <2>3, <2>4, <2>6, <2>7, <2>8
    <3>3. thread'[t].bad <=> FailedStage(p)'
      BY <3>2 DEF FailedStage, Failing, kids, Kids
    <3> QED
      BY <2>4, <3>1, <3>3 DEF Gathered
  <2>9. CASE thread[t].idx # Len(kids)
    <3>1. /\ thread'[t].pc = "check_child"
          /\ thread'[t].idx - 1 = thread[t].idx
      BY <2>3, <2>5, <2>9
    <3>2. thread'[t].bad <=> \E i \in 1..(thread'[t].idx - 1) : Failing(kids[i])'
      BY <2>3, <2>6, <2>7, <3>1
    <3> QED
      BY <2>4, <3>1, <3>2 DEF Gathered, kids
  <2> QED
    BY <2>8, <2>9
<1>5. CASE Claim(t)
  <2>1. thread[t].pc = "claim" /\ Goto(t, "send")
    BY <1>5, <1>t, IdleThread DEF Claim, At, SeenSteps
  <2>2. thread'[t].pc = "send" /\ Job(t)' = Job(t) /\ thread'[t].bad = thread[t].bad
    BY <1>t, <2>1, GotoThread DEF Job
  <2>3. p \in JobId /\ p' = p /\ Kids(p)' = Kids(p) /\ rows'[p].status = "succeeded"
    BY <1>1, <2>1, <2>2 DEF SeenSteps
  <2>4. AllSettled(p) /\ (thread[t].bad <=> FailedStage(p))
    BY <1>c, <2>1 DEF Look, Gathered
  <2>5. FailedStage(p)' <=> FailedStage(p)
    BY <1>t, <1>c, <1>r, <2>3, <2>4, FailedStageStands
  <2> QED
    BY <2>2, <2>3, <2>4, <2>5 DEF Gathered
<1> QED
  BY <1>t, <1>2, <1>3, <1>4, <1>5, SeenStep DEF Looks

LEMMA PushesNat ==
    ASSUME TypeOK, NEW p \in JobId
    PROVE  \A k \in PushKinds : pushes[p][k] \in Nat
BY DEF TypeOK

\* A job whose worker has not marked it is told of by nobody yet.
LEMMA BlankInHand ==
    ASSUME TypeOK, Once, Course, FailuresTold, thread["worker"].pc = "body"
    PROVE  /\ rows[Job("worker")].status = "running"
           /\ Kids(Job("worker")) = <<>>
           /\ Outcomes(Job("worker")) = 0
           /\ Job("worker") \in JobId
<1>1. rows[Job("worker")].status = "running" /\ Job("worker") \in JobId
  BY DEF Course, Place, Once, JobsExist, Busy
<1>2. Kids(Job("worker")) = <<>> /\ Summaries(Job("worker")) = 0
  BY <1>1 DEF Once, Untouched, Unfinished, WorkSteps, Kids
<1>3. pushes[Job("worker")]["failed"] = 0
  BY <1>1, PushesNat DEF FailuresTold, Failing, PushKinds
<1> QED
  BY <1>1, <1>2, <1>3 DEF Outcomes

LEMMA OutcomeStep == Safe /\ Clean /\ [Next]_vars /\ faults' = 0 => Outcome'
<1> SUFFICES ASSUME Safe, Clean, [Next]_vars, faults' = 0 PROVE Outcome'
  OBVIOUS
<1>t. TypeOK /\ Once /\ Course
  BY DEF Safe
<1>c. Outcome /\ FailuresTold /\ ~Fault
  BY <1>t, NoFaultStep DEF Clean
<1>r. RowsGo /\ \A p \in JobId : NewsGoes(p)
  BY <1>t, RowStep, NewsStep
<1>b. ASSUME thread["worker"].pc = "body", thread'["worker"].pc = "fail",
             Job("worker")' = Job("worker"), UNCHANGED <<rows, pushes>>
      PROVE  Outcome'
  <2>1. /\ rows[Job("worker")].status = "running"
        /\ Kids(Job("worker")) = <<>> /\ Outcomes(Job("worker")) = 0
    BY <1>b, <1>c, <1>t, BlankInHand
  <2> QED
    BY <1>b, <2>1 DEF Outcome, Kids, Outcomes, Summaries
<1>1. CASE BodyRaises
  BY <1>1, <1>b, <1>t, CaughtThread DEF BodyRaises, At, Job
<1>2. CASE EntryMissing
  BY <1>2, <1>b, <1>t, GotoThread DEF EntryMissing, At, Job
<1>3. CASE Fail
  <2>1. /\ thread["worker"].pc = "fail" /\ rows' = Failed(Job("worker"))
        /\ Goto("worker", "announce_fail") \/ GoIdle("worker")
        /\ UNCHANGED pushes /\ Job("worker") \in JobId
    BY <1>3, <1>t DEF Fail, At, Once, JobsExist, Busy
  <2>2. Kids(Job("worker")) = <<>> /\ Outcomes(Job("worker")) = 0
    BY <1>c, <2>1 DEF Outcome
  <2>3. Kids(Job("worker"))' = <<>> \/ GoIdle("worker")
    <3>1. rows'[Job("worker")].followUps = rows[Job("worker")].followUps
      BY <1>t, <2>1, RowTyped DEF Failed, TypeOK, Row
    <3> QED
      BY <1>t, <2>1, <2>2, <3>1, GotoThread DEF Kids, Job
  <2> QED
    BY <1>t, <2>1, <2>2, <2>3, GotoThread, IdleThread DEF Outcome, Outcomes, Summaries, Job
<1>4. CASE Succeed
  <2>1. rows'[Job("worker")].status = "succeeded"
    BY <1>4, <1>t, RowTyped
    DEF Succeed, At, Once, JobsExist, Busy, Succeeded, TypeOK, Row
  <2>2. AfterSuccess \in {"check_parent", "idle", "announce"}
    BY DEF AfterSuccess
  <2>3. /\ thread'["worker"].pc \in {"check_parent", "idle", "announce"}
        /\ thread'["worker"].pc = "announce" => Job("worker")' = Job("worker")
    BY <1>4, <1>t, <2>2, GotoThread, IdleThread DEF Succeed, Job
  <2> QED
    BY <2>1, <2>3 DEF Outcome
<1>5. CASE thread'["worker"] = thread["worker"]
  <2> SUFFICES ASSUME thread["worker"].pc \in {"fail", "announce", "announce_fail"}
               PROVE  Outcome'
    BY <1>5 DEF Outcome
  <2>1. Job("worker")' = Job("worker") /\ Busy("worker") /\ Job("worker") \in JobId
    BY <1>5, <1>t DEF Job, Busy, Once, JobsExist
  <2>2. Rests(Job("worker"))
    BY <1>5, <1>r, <1>t, <2>1, RowsOfOthers DEF Course
  <2>3. ASSUME thread["worker"].pc \in {"fail", "announce_fail"}
        PROVE  Silent(Job("worker"))
    <3>1. ~AnnounceFailure
      BY <1>5, <1>t, GotoThread, IdleThread DEF AnnounceFailure, At
    <3>2. ASSUME NEW u \in Thread, Send(u), Job("worker") = Watched(u) PROVE FALSE
      <4>1. u = "api" /\ Busy("api")
        BY <2>3, <3>2 DEF Send, At, Busy
      <4> QED
        BY <1>t, <2>1, <3>2, <4>1 DEF Once, Exclusive, Watched
    <3> QED
      BY <1>r, <2>1, <2>3, <3>1, <3>2 DEF NewsGoes, AnnounceSuccess, At
  <2>4. ASSUME thread["worker"].pc \in {"fail", "announce_fail"}
        PROVE  Kids(Job("worker"))' = <<>> /\ Outcomes(Job("worker"))' = 0
    BY <1>c, <2>1, <2>2, <2>3, <2>4 DEF Outcome, Outcomes, Summaries, Silent, Rests, Kids
  <2> QED
    BY <1>5, <1>c, <2>1, <2>2, <2>4 DEF Outcome, Rests
\* No other step leads the worker to one of these places.
<1>6. ASSUME thread'["worker"].pc \notin {"fail", "announce", "announce_fail"} PROVE Outcome'
  BY <1>6 DEF Outcome
<1>7. CASE Take
  <2>1. [Idle EXCEPT !.pc = "start", !.job = Head(queue), !.guarded = TRUE,
                     !.known = ~IsIngest(Head(queue))].pc = "start"
    BY DEF Idle
  <2> QED
    BY <1>6, <1>7, <1>t, <2>1, BecomesThread DEF Take
<1>8. CASE Start
  <2>1. [thread["worker"] EXCEPT !.pc = "body", !.known = TRUE].pc = "body"
    BY <1>t, LocalTyped DEF Local
  <2> QED
    BY <1>6, <1>8, <1>t, <2>1, BecomesThread DEF Start
<1>9. CASE BodyReturns
  <2> DEFINE r == [thread["worker"] EXCEPT !.pc = "follow", !.plan = <<"mood", "extract">>]
  <2>1. Becomes("worker", r) \/ Goto("worker", "succeed")
    BY <1>9 DEF BodyReturns
  <2>2. r.pc = "follow"
    BY <1>t, LocalTyped DEF Local
  <2> HIDE DEF r
  <2> QED
    BY <1>6, <1>t, <2>1, <2>2, BecomesThread, GotoThread
<1>10. CASE BodyTransient
  BY <1>6, <1>10, <1>t, GotoThread DEF BodyTransient
<1>11. CASE Wake
  <2>1. [thread["worker"] EXCEPT !.pc = "body", !.attempt = thread["worker"].attempt + 1].pc
            = "body"
    BY <1>t, LocalTyped DEF Local
  <2> QED
    BY <1>6, <1>11, <1>t, <2>1, BecomesThread DEF Wake
<1>12. CASE QueueFollowUp
  <2>1. PICK made : Becomes("worker", Submitted("worker", made))
    BY <1>12 DEF QueueFollowUp, NextFollowUp
  <2>2. Submitted("worker", made).pc \in {"succeed", "follow"}
    BY <1>12, <1>t, LocalTyped DEF QueueFollowUp, At, Submitted, Local
  <2> QED
    BY <1>6, <1>t, <2>1, <2>2, BecomesThread
<1>13. CASE AnnounceSuccess \/ AnnounceFailure
  BY <1>6, <1>13, <1>t, GotoThread, IdleThread DEF AnnounceSuccess, AnnounceFailure
<1>14. ASSUME NEW t \in Thread, Check(t) PROVE Outcome'
  BY <1>5, <1>6, <1>14, <1>t, CheckThread, IdleThread DEF SeenSteps
<1>15. ASSUME NEW k, Submit(k) PROVE Outcome'
  BY <1>5, <1>15 DEF Submit
<1>16. ASSUME NEW mood \in MoodSettings, BeginPipeline(mood) PROVE Outcome'
  <2> DEFINE r(p) == [Idle EXCEPT !.pc = "children", !.job = p, !.plan = SaveStages(mood)]
  <2>1. PICK p \in JobId : Becomes("api", r(p))
    BY <1>16 DEF BeginPipeline
  <2> HIDE DEF r
  <2> QED
    BY <1>5, <1>t, <2>1, BecomesThread
<1>17. CASE SubmitChild \/ FinishParent
  BY <1>5, <1>17, <1>t, BecomesThread, GotoThread DEF SubmitChild, FinishParent
<1>18. CASE Crash \/ Exit
  BY <1>6, <1>18 DEF Crash, Exit, Down, Idle
<1>19. CASE Shutdown \/ Restart \/ UNCHANGED vars
  BY <1>5, <1>19 DEF Shutdown, Restart, vars
<1> QED
  BY <1>c, <1>1, <1>2, <1>3, <1>4, <1>7, <1>8, <1>9, <1>10, <1>11, <1>12, <1>13, <1>14,
     <1>15, <1>16, <1>17, <1>18, <1>19
  DEF Next, Request, ApiStep, WorkerStep, Process

LEMMA FailuresToldStep == Safe /\ Clean /\ [Next]_vars /\ faults' = 0 => FailuresTold'
<1> SUFFICES ASSUME Safe, Clean, [Next]_vars, faults' = 0,
                    NEW p \in JobId, pushes'[p]["failed"] > 0
             PROVE  rows'[p].status = "failed"
  BY DEF FailuresTold, Failing
<1>t. TypeOK /\ Once /\ Course
  BY DEF Safe
<1>c. Outcome /\ FailuresTold
  BY <1>t, NoFaultStep DEF Clean
<1>r. RowsGo /\ NewsGoes(p)
  BY <1>t, RowStep, NewsStep
<1>1. CASE pushes'[p]["failed"] = pushes[p]["failed"]
  <2>1. Failing(p)
    BY <1>1, <1>c DEF FailuresTold
  <2> QED
    BY <1>c, <1>r, <1>t, <2>1, StatusStands DEF Failing, Settled, Terminal
<1>2. CASE AnnounceFailure /\ p = Job("worker")
  BY <1>2, <1>t DEF AnnounceFailure, At, Course, Place
<1>3. ASSUME NEW k \in {"success", "breakdown"}, Tells(p, k)
      PROVE  pushes'[p]["failed"] = pushes[p]["failed"]
  BY <1>3 DEF Tells, PushKinds
<1> QED
  BY <1>1, <1>2, <1>3, <1>r DEF NewsGoes, Silent, SummaryKind

LEMMA TruthfulStep == Safe /\ Clean /\ [Next]_vars /\ faults' = 0 => Truthful'
<1> SUFFICES ASSUME Safe, Clean, [Next]_vars, faults' = 0, NEW p \in JobId, IsSave(p)'
             PROVE  /\ pushes'[p]["breakdown"] > 0 => FailedStage(p)'
                    /\ pushes'[p]["success"] > 0 => ~FailedStage(p)'
  BY DEF Truthful
<1>t. TypeOK /\ Once /\ Course
  BY DEF Safe
<1>c. Outcome /\ Truthful /\ \A t \in Thread : Gathered(t)
  BY <1>t, NoFaultStep DEF Clean
<1>r. RowsGo /\ NewsGoes(p)
  BY <1>t, RowStep, NewsStep
<1>n. pushes[p]["success"] \in Nat /\ pushes[p]["breakdown"] \in Nat
  BY <1>t, PushesNat DEF PushKinds
<1>1. CASE /\ pushes'[p]["success"] = pushes[p]["success"]
           /\ pushes'[p]["breakdown"] = pushes[p]["breakdown"]
  <2> SUFFICES ASSUME Summaries(p) > 0
               PROVE  /\ pushes[p]["breakdown"] > 0 => FailedStage(p)'
                      /\ pushes[p]["success"] > 0 => ~FailedStage(p)'
    BY <1>1, <1>n DEF Summaries
  <2>1. Exists(p) /\ Kids(p)' = Kids(p) /\ AllSettled(p)
    BY <1>r, <1>t, ToldKidsStay DEF Course, SummaryComesLast, AllSettled, Kids
  <2>2. FailedStage(p)' <=> FailedStage(p)
    BY <1>c, <1>r, <1>t, <2>1, FailedStageStands
  <2>3. IsSave(p)
    BY <1>r, <2>1, ParentStays DEF IsSave
  <2> QED
    BY <1>c, <2>2, <2>3 DEF Truthful
<1>2. ASSUME UNCHANGED rows PROVE (FailedStage(p)' <=> FailedStage(p)) /\ IsSave(p)
  BY <1>2 DEF FailedStage, IsSave
<1>3. ASSUME NEW t \in Thread, Send(t), p = Watched(t), Tells(p, SummaryKind(t))
      PROVE  /\ pushes'[p]["breakdown"] > 0 => FailedStage(p)'
             /\ pushes'[p]["success"] > 0 => ~FailedStage(p)'
  <2>1. /\ thread[t].pc = "send" /\ UNCHANGED rows
        /\ thread[t].bad <=> FailedStage(p)
        /\ Summaries(p) = 0
    BY <1>3, <1>c, <1>t DEF Send, At, Gathered, Once, Sending
  <2>2. pushes[p]["success"] = 0 /\ pushes[p]["breakdown"] = 0
    BY <1>n, <2>1 DEF Summaries
  <2>3. CompressedAll(p)
    BY <1>2, <2>1 DEF IsSave, CompressedAll
  <2>4. CASE thread[t].bad
    <3>1. Tells(p, "breakdown")
      BY <1>3, <2>3, <2>4 DEF SummaryKind
    <3> QED
      BY <1>2, <2>1, <2>2, <2>4, <3>1 DEF Tells, PushKinds
  <2>5. CASE ~thread[t].bad
    <3>1. Tells(p, "success")
      BY <1>3, <2>5 DEF SummaryKind
    <3> QED
      BY <1>2, <2>1, <2>2, <2>5, <3>1 DEF Tells, PushKinds
  <2> QED
    BY <2>4, <2>5
<1>4. ASSUME AnnounceSuccess, p = Job("worker"), Tells(p, "success")
      PROVE  /\ pushes'[p]["breakdown"] > 0 => FailedStage(p)'
             /\ pushes'[p]["success"] > 0 => ~FailedStage(p)'
  <2>1. Kids(p) = <<>> /\ Summaries(p) = 0 /\ UNCHANGED rows
    BY <1>4, <1>t DEF AnnounceSuccess, At, Once, Announcing, Kids
  <2>2. ~FailedStage(p)
    BY <2>1 DEF FailedStage, Kids
  <2>3. pushes'[p]["breakdown"] = 0
    BY <1>4, <1>n, <2>1 DEF Tells, Summaries, PushKinds
  <2> QED
    BY <1>2, <2>1, <2>2, <2>3
<1>5. Silent(p) \/ Tells(p, "failed") =>
          /\ pushes'[p]["success"] = pushes[p]["success"]
          /\ pushes'[p]["breakdown"] = pushes[p]["breakdown"]
  BY DEF Silent, Tells, PushKinds
<1> QED
  BY <1>1, <1>3, <1>4, <1>5, <1>r DEF NewsGoes

LEMMA CleanStep == Safe /\ Clean /\ [Next]_vars => Clean'
BY GatheredStep, OutcomeStep, FailuresToldStep, TruthfulStep DEF Clean

LEMMA InitClean == Init => Clean
<1> SUFFICES ASSUME Init PROVE Clean
  OBVIOUS
<1>1. \A t \in Thread : thread[t].pc = "idle"
  BY DEF Init, Idle
<1>2. \A p \in JobId, k \in PushKinds : pushes[p][k] = 0
  BY DEF Init
<1>3. (\A t \in Thread : Gathered(t)) /\ Outcome
  BY <1>1 DEF Gathered, Outcome, SeenSteps
<1>4. FailuresTold /\ Truthful
  BY <1>2 DEF FailuresTold, Truthful, PushKinds
<1> QED
  BY <1>3, <1>4 DEF Clean

\* While no call on the table raises, the summary of a save pipeline says what
\* the rows say then and ever after: a breakdown when a stage failed, a success
\* when none did, although the parent, each stage and the claim are read and
\* written by separate calls of two threads.
THEOREM SummaryTrue == Spec => []SummaryTruthful
<1>1. Init => Safe /\ Clean
  BY SafeHolds, InitClean
<1>2. Safe /\ Clean /\ [Next]_vars => (Safe /\ Clean)'
  BY SafeHolds, CleanStep
<1>3. Clean => SummaryTruthful
  BY DEF Clean, Truthful, SummaryTruthful
<1> QED
  BY <1>1, <1>2, <1>3, PTL DEF Spec

-----------------------------------------------------------------------------
(* Nobody is forgotten.                                                    *)

LEMMA StagesKept ==
    ASSUME TypeOK, Once, RowsGo, NEW t \in Thread, Stages(t), thread'[t] = thread[t]
    PROVE  Stages(t)'
<1>1. \A j \in JobId : Exists(j) => Exists(j)' /\ rows'[j].kind = rows[j].kind
  BY ParentStays
<1>2. \A i \in 1..Len(thread[t].made) : thread[t].made[i] \in JobId
  BY LocalTyped, ElementOfSeq
<1>3. Busy(t) => Job(t) \in JobId /\ Exists(Job(t))
  BY DEF Once, JobsExist
<1> QED
  BY <1>1, <1>2, <1>3 DEF Stages, IsSave, Job, Busy, Exists

\* A thread that goes on in its work without submitting anything.
LEMMA StagesGoOn ==
    ASSUME TypeOK, Once, RowsGo, NEW t \in Thread, Stages(t), thread[t].pc \in WorkSteps,
           thread'[t].made = thread[t].made,
           thread'[t].pc = "follow" => thread'[t].plan \in Seq(Kind \ {"ingest"}),
           t = "api" => thread'[t].pc \notin {"children", "succeed"},
           thread'[t].pc # "children"
    PROVE  Stages(t)'
<1>1. \A j \in JobId : Exists(j) => Exists(j)'
  BY ParentStays
<1>2. \A i \in 1..Len(thread[t].made) : thread[t].made[i] \in JobId /\ Exists(thread[t].made[i])
  BY LocalTyped, ElementOfSeq DEF Stages
<1> QED
  BY <1>1, <1>2 DEF Stages, Exists

\* A loop over the follow-ups to submit is through with the first of them.
LEMMA StagesSubmitted ==
    ASSUME TypeOK, PlanOK, Once, RowsGo, NEW t \in Thread, Stages(t),
           NEW made \in Seq(JobId), Becomes(t, Submitted(t, made)),
           \/ t = "api" /\ thread[t].pc = "children"
           \/ t = "worker" /\ thread[t].pc = "follow",
           \/ made = thread[t].made
           \/ \E j \in JobId : Exists(j)' /\ made = Append(thread[t].made, j)
    PROVE  Stages(t)'
<1> DEFINE S == Kind \ {"ingest"}
<1>1. /\ thread'[t].plan = Tail(thread[t].plan) /\ thread'[t].made = made
      /\ thread'[t].pc \in {"succeed", thread[t].pc} /\ Job(t)' = Job(t)
  <2>1. thread'[t] = Submitted(t, made) /\ thread[t] \in Local
    BY BecomesThread, LocalTyped
  <2> QED
    BY <2>1 DEF Submitted, Local, Job
<1>2. thread'[t].plan \in Seq(S)
  <2>1. thread[t].plan \in Seq(S) /\ thread[t].plan # <<>>
    BY DEF Stages, PlanOK
  <2> HIDE DEF S
  <2> QED
    BY <1>1, <2>1, HeadTailProperties
<1>3. \A j \in JobId : Exists(j) => Exists(j)' /\ rows'[j].kind = rows[j].kind
  BY ParentStays
<1>4. /\ \A i \in 1..Len(thread[t].made) : thread[t].made[i] \in JobId /\ Exists(thread[t].made[i])
      /\ thread[t].made \in Seq(JobId)
  BY LocalTyped, ElementOfSeq DEF Stages, WorkSteps
<1>5. ASSUME NEW i \in 1..Len(made) PROVE Exists(made[i])'
  <2>1. CASE made = thread[t].made
    BY <1>3, <1>4, <2>1 DEF Exists
  <2>2. ASSUME NEW j \in JobId, Exists(j)', made = Append(thread[t].made, j)
        PROVE  Exists(made[i])'
    <3>1. /\ Len(made) = Len(thread[t].made) + 1 /\ Len(thread[t].made) \in Nat
          /\ \A n \in 1..Len(thread[t].made) : made[n] = thread[t].made[n]
          /\ made[Len(thread[t].made) + 1] = j
      BY <1>4, <2>2, AppendProperties, LenProperties
    <3>2. i \in 1..Len(thread[t].made) \/ i = Len(thread[t].made) + 1
      BY <3>1
    <3> QED
      BY <1>3, <1>4, <2>2, <3>1, <3>2 DEF Exists
  <2> QED
    BY <2>1, <2>2
<1>6. t = "api" => IsSave(Job(t))'
  <2>1. Job(t) \in JobId /\ Exists(Job(t)) /\ (t = "api" => IsSave(Job(t)))
    BY DEF Stages, Once, JobsExist, Busy
  <2> QED
    BY <1>1, <1>3, <2>1 DEF IsSave
<1> QED
  BY <1>1, <1>2, <1>5, <1>6 DEF Stages, Exists

\* A thread that no longer works on its job has nothing to submit.
LEMMA StagesOver ==
    ASSUME NEW t \in Thread, thread'[t].pc \notin WorkSteps
    PROVE  Stages(t)'
BY DEF Stages, WorkSteps

LEMMA StagesStep ==
    Safe /\ (\A t \in Thread : Stages(t)) /\ [Next]_vars => \A t \in Thread : Stages(t)'
<1> SUFFICES ASSUME Safe, \A t \in Thread : Stages(t), [Next]_vars, NEW u \in Thread
             PROVE  Stages(u)'
  OBVIOUS
<1>t. TypeOK /\ PlanOK /\ Once /\ Course
  BY DEF Safe
<1>r. RowsGo
  BY <1>t, RowStep
<1>o. thread'[u] = thread[u] => Stages(u)'
  BY <1>t, <1>r, StagesKept
<1>m. ASSUME NEW t \in Thread, NEW r, Becomes(t, r), Stages(t)' PROVE Stages(u)'
  BY <1>m, <1>o, <1>t, BecomesThread
<1>g. ASSUME NEW t \in Thread, NEW step, Goto(t, step), step \notin WorkSteps
      PROVE  Stages(u)'
  BY <1>g, <1>o, <1>t, GotoThread, StagesOver
<1>i. ASSUME NEW t \in Thread, GoIdle(t) PROVE Stages(u)'
  BY <1>i, <1>o, <1>t, IdleThread, StagesOver DEF WorkSteps
<1>1. ASSUME NEW k, Submit(k) \/ SubmitFaults(k) PROVE Stages(u)'
  BY <1>1, <1>o DEF Submit, SubmitFaults
<1>2. ASSUME NEW mood \in MoodSettings, BeginPipeline(mood) PROVE Stages(u)'
  <2> DEFINE r(p) == [Idle EXCEPT !.pc = "children", !.job = p, !.plan = SaveStages(mood)]
             S    == Kind \ {"ingest"}
  <2>1. PICK p \in JobId :
            Fresh(p) /\ rows' = Created(p, "pipeline", NoJob) /\ Becomes("api", r(p))
    BY <1>2 DEF BeginPipeline
  <2>2. /\ r(p).pc = "children" /\ r(p).job = p /\ r(p).made = <<>>
        /\ r(p).plan = SaveStages(mood)
    BY DEF Idle
  <2>3. SaveStages(mood) \in Seq(S)
    <3>1. "reprocess" \in S /\ "extract" \in S /\ "mood" \in S
      BY DEF Kind
    <3> HIDE DEF S
    <3>2. <<"reprocess", "extract">> \in Seq(S) /\ <<"mood">> \in Seq(S) /\ <<>> \in Seq(S)
      BY <3>1
    <3>3. /\ <<"reprocess", "extract">> \o <<"mood">> \in Seq(S)
          /\ <<"reprocess", "extract">> \o <<>> \in Seq(S)
      BY <3>2, ConcatProperties
    <3>4. mood \in BOOLEAN
      BY MoodSettingsAssumption
    <3> QED
      BY <3>3, <3>4 DEF SaveStages
  <2> HIDE DEF r
  <2>4. /\ thread'["api"].pc = "children" /\ Job("api")' = p /\ thread'["api"].made = <<>>
        /\ thread'["api"].plan = SaveStages(mood)
    BY <1>t, <2>1, <2>2, BecomesThread DEF Job
  <2>5. rows'[p].kind = "pipeline"
    BY <1>t, <2>1 DEF Created, Blank, TypeOK
  <2>6. Stages("api")'
    BY <2>3, <2>4, <2>5 DEF Stages, IsSave
  <2> QED
    BY <1>m, <2>1, <2>6
<1>3. CASE SubmitChild
  <2>1. PICK j \in JobId :
            /\ Fresh(j) /\ rows' = Created(j, Head(thread["api"].plan), Job("api"))
            /\ Becomes("api", Submitted("api", Append(thread["api"].made, j)))
    BY <1>3 DEF SubmitChild
  <2>2. Exists(j)'
    BY <1>t, <2>1, CreatedGoes DEF Appears, Exists
  <2>3. Append(thread["api"].made, j) \in Seq(JobId)
    BY <1>t, LocalTyped, AppendProperties
  <2>4. Stages("api")'
    BY <1>3, <1>r, <1>t, <2>1, <2>2, <2>3, StagesSubmitted DEF SubmitChild, At
  <2> QED
    BY <1>m, <2>1, <2>4
<1>4. CASE QueueFollowUp \/ FollowUpFaults
  <2>1. thread["worker"].pc = "follow" /\ thread["worker"].made \in Seq(JobId)
    BY <1>4, <1>t, LocalTyped DEF QueueFollowUp, FollowUpFaults, At
  <2>2. PICK made : /\ Becomes("worker", Submitted("worker", made))
                    /\ \/ made = thread["worker"].made
                       \/ \E j \in JobId : /\ Exists(j)'
                                           /\ made = Append(thread["worker"].made, j)
    BY <1>4, <1>t, CreatedGoes
    DEF QueueFollowUp, FollowUpFaults, NextFollowUp, Appears, Exists
  <2>3. made \in Seq(JobId)
    BY <2>1, <2>2, AppendProperties
  <2>4. Stages("worker")'
    BY <1>r, <1>t, <2>1, <2>2, <2>3, StagesSubmitted
  <2> QED
    BY <1>m, <2>2, <2>4
<1>5. CASE FinishParent
  BY <1>5, <1>g DEF FinishParent, AfterParent, WorkSteps
<1>6. ASSUME NEW t \in Thread, Check(t) PROVE Stages(u)'
  BY <1>6, <1>i, <1>o, <1>t, CheckThread, StagesOver DEF SeenSteps, WorkSteps
<1>7. CASE Take
  <2> DEFINE r == [Idle EXCEPT !.pc = "start", !.job = Head(queue), !.guarded = TRUE,
                               !.known = ~IsIngest(Head(queue))]
  <2>1. Becomes("worker", r)
    BY <1>7 DEF Take
  <2>2. r.pc = "start" /\ r.made = <<>>
    BY DEF Idle
  <2> HIDE DEF r
  <2>3. Stages("worker")'
    BY <1>t, <2>1, <2>2, BecomesThread DEF Stages
  <2> QED
    BY <1>m, <2>1, <2>3
\* The worker goes on with the follow-ups submitted so far.
<1>w. ASSUME NEW r, Becomes("worker", r), thread["worker"].pc \in WorkSteps,
             r.made = thread["worker"].made, r.pc # "children",
             r.pc = "follow" => r.plan \in Seq(Kind \ {"ingest"})
      PROVE  Stages(u)'
  <2>1. thread'["worker"] = r
    BY <1>w, <1>t, BecomesThread
  <2>2. Stages("worker")'
    BY <1>w, <1>r, <1>t, <2>1, StagesGoOn
  <2> QED
    BY <1>m, <1>w, <2>2
<1>8. CASE Start
  <2> DEFINE r == [thread["worker"] EXCEPT !.pc = "body", !.known = TRUE]
  <2>1. Becomes("worker", r) /\ thread["worker"].pc = "start"
    BY <1>8 DEF Start, At
  <2>2. r.pc = "body" /\ r.made = thread["worker"].made
    BY <1>t, LocalTyped DEF Local
  <2> HIDE DEF r
  <2> QED
    BY <1>w, <2>1, <2>2 DEF WorkSteps
<1>9. CASE BodyReturns
  <2> DEFINE r == [thread["worker"] EXCEPT !.pc = "follow", !.plan = <<"mood", "extract">>]
             q == [thread["worker"] EXCEPT !.pc = "succeed"]
  <2>1. Becomes("worker", r) \/ Becomes("worker", q)
    BY <1>9 DEF BodyReturns, Goto
  <2>2. /\ r.pc = "follow" /\ r.made = thread["worker"].made
        /\ q.pc = "succeed" /\ q.made = thread["worker"].made
        /\ r.plan = <<"mood", "extract">>
    BY <1>t, LocalTyped DEF Local
  <2>3. <<"mood", "extract">> \in Seq(Kind \ {"ingest"})
    BY DEF Kind
  <2>4. thread["worker"].pc = "body"
    BY <1>9 DEF BodyReturns, At
  <2> HIDE DEF r, q
  <2> QED
    BY <1>w, <2>1, <2>2, <2>3, <2>4 DEF WorkSteps
<1>10. CASE BodyTransient \/ Wake
  <2> DEFINE r == [thread["worker"] EXCEPT !.pc = "body",
                                           !.attempt = thread["worker"].attempt + 1]
             q == [thread["worker"] EXCEPT !.pc = "sleep"]
  <2>1. Becomes("worker", r) \/ Becomes("worker", q)
    BY <1>10 DEF BodyTransient, Wake, Goto
  <2>2. /\ r.pc = "body" /\ r.made = thread["worker"].made
        /\ q.pc = "sleep" /\ q.made = thread["worker"].made
    BY <1>t, LocalTyped DEF Local
  <2>3. thread["worker"].pc \in {"body", "sleep"}
    BY <1>10 DEF BodyTransient, Wake, At
  <2> HIDE DEF r, q
  <2> QED
    BY <1>w, <2>1, <2>2, <2>3 DEF WorkSteps
<1>c. ASSUME Caught PROVE Stages(u)'
  BY <1>c, <1>o, <1>t, CaughtThread, StagesOver DEF WorkSteps
<1>11. CASE BodyRaises \/ WorkerFaults
  BY <1>11, <1>c, <1>i DEF BodyRaises, WorkerFaults
<1>12. CASE EntryMissing \/ Fail \/ AnnounceFailure
  BY <1>12, <1>g, <1>i DEF EntryMissing, Fail, AnnounceFailure, WorkSteps
<1>13. CASE Succeed
  BY <1>13, <1>g, <1>i DEF Succeed, AfterSuccess, WorkSteps
<1>14. CASE AnnounceSuccess \/ PipelineFaults
  BY <1>14, <1>i DEF AnnounceSuccess, PipelineFaults
<1>15. CASE Crash \/ Exit
  BY <1>15, StagesOver DEF Crash, Exit, Down, Idle, WorkSteps
<1>16. CASE Shutdown \/ Restart \/ UNCHANGED vars
  BY <1>16, <1>o DEF Shutdown, Restart, vars
<1> QED
  BY <1>1, <1>2, <1>3, <1>4, <1>5, <1>6, <1>7, <1>8, <1>9, <1>10, <1>11, <1>12, <1>13,
     <1>14, <1>15, <1>16
  DEF Next, Request, ApiStep, WorkerStep, Fault, Process

-----------------------------------------------------------------------------
\* What the executor has in hand when it goes on accepting work: a queued job
\* stays queued until the worker takes it.
LEMMA QueueKept ==
    ASSUME TypeOK, [Next]_vars, open', ~Fault, NEW j \in JobId, Queued(j)
    PROVE  Queued(j)' \/ j = Job("worker")'
<1>q. queue \in Seq(JobId)
  BY DEF TypeOK
<1>i. PICK i \in 1..Len(queue) : queue[i] = j
  BY DEF Queued
<1>1. UNCHANGED queue => Queued(j)'
  BY DEF Queued
<1>2. ASSUME NEW n \in JobId, queue' = Append(queue, n) PROVE Queued(j)'
  <2>1. /\ Len(queue') = Len(queue) + 1 /\ Len(queue) \in Nat
        /\ \A k \in 1..Len(queue) : queue'[k] = queue[k]
    BY <1>q, <1>2, AppendProperties, LenProperties
  <2> QED
    BY <1>i, <2>1 DEF Queued
<1>3. CASE Take
  <2> DEFINE r == [Idle EXCEPT !.pc = "start", !.job = Head(queue), !.guarded = TRUE,
                               !.known = ~IsIngest(Head(queue))]
  <2>1. queue' = Tail(queue) /\ queue # <<>> /\ Becomes("worker", r)
    BY <1>3 DEF Take
  <2>2. r.job = Head(queue)
    BY DEF Idle
  <2> HIDE DEF r
  <2>3. Job("worker")' = Head(queue)
    BY <2>1, <2>2, BecomesThread DEF Job
  <2>4. CASE i = 1
    <3>1. Head(queue) = queue[1]
      BY <1>q, <2>1
    <3> QED
      BY <1>i, <2>3, <2>4, <3>1
  <2>5. CASE i # 1
    <3>1. /\ Len(queue) \in Nat /\ Len(queue') = Len(queue) - 1
          /\ \A k \in 1..Len(queue') : queue'[k] = queue[k + 1]
      BY <1>q, <2>1, HeadTailProperties, LenProperties
    <3>2. i - 1 \in 1..Len(queue')
      BY <1>i, <2>5, <3>1
    <3>3. queue'[i - 1] = j
      BY <1>i, <3>1, <3>2
    <3> QED
      BY <3>2, <3>3 DEF Queued
  <2> QED
    BY <2>4, <2>5
<1>4. ASSUME NEW k, Submit(k) \/ BeginPipeline(k) PROVE Queued(j)'
  BY <1>1, <1>2, <1>4 DEF Submit, BeginPipeline
<1>5. CASE SubmitChild \/ QueueFollowUp
  BY <1>1, <1>2, <1>5 DEF SubmitChild, QueueFollowUp
<1>6. ASSUME NEW t \in Thread, Check(t) PROVE Queued(j)'
  BY <1>1, <1>6 DEF Check, ReadParent, ReadChild, Claim, Send
<1>7. CASE FinishParent \/ Start \/ BodyReturns \/ BodyRaises \/ EntryMissing
           \/ BodyTransient \/ Wake \/ Succeed \/ AnnounceSuccess \/ Fail \/ AnnounceFailure
  BY <1>1, <1>7
  DEF FinishParent, Start, BodyReturns, BodyRaises, EntryMissing, BodyTransient, Wake,
      Succeed, AnnounceSuccess, Fail, AnnounceFailure
<1>8. CASE Process \/ UNCHANGED vars
  BY <1>1, <1>8 DEF Process, Crash, Exit, Shutdown, Down, Restart, vars
<1> QED
  BY <1>3, <1>4, <1>5, <1>6, <1>7, <1>8 DEF Next, Request, ApiStep, WorkerStep

\* A row that is created belongs to the queue or is a pipeline in the making.
LEMMA NewbornOwned ==
    ASSUME TypeOK, [Next]_vars, open, ~Fault, NEW j \in JobId, Appears(j)
    PROVE  Queued(j)' \/ j = Job("api")'
<1>q. queue \in Seq(JobId)
  BY DEF TypeOK
<1>1. ~UNCHANGED rows
  BY DEF Appears
<1>2. ASSUME NEW i \in JobId, NEW k, NEW p, rows' = Created(i, k, p) PROVE j = i
  BY <1>2 DEF Created, Appears, TypeOK
<1>3. ASSUME queue' = Append(queue, j) PROVE Queued(j)'
  <2>1. /\ Len(queue') = Len(queue) + 1 /\ Len(queue) \in Nat
        /\ queue'[Len(queue) + 1] = j
    BY <1>q, <1>3, AppendProperties, LenProperties
  <2> QED
    BY <2>1 DEF Queued
<1>4. ASSUME NEW k, Submit(k) PROVE Queued(j)'
  BY <1>2, <1>3, <1>4 DEF Submit
<1>5. CASE SubmitChild \/ QueueFollowUp
  BY <1>2, <1>3, <1>5 DEF SubmitChild, QueueFollowUp
<1>6. ASSUME NEW mood, BeginPipeline(mood) PROVE j = Job("api")'
  <2> DEFINE r(p) == [Idle EXCEPT !.pc = "children", !.job = p, !.plan = SaveStages(mood)]
  <2>1. PICK p \in JobId : rows' = Created(p, "pipeline", NoJob) /\ Becomes("api", r(p))
    BY <1>6 DEF BeginPipeline
  <2>2. r(p).job = p
    BY DEF Idle
  <2> HIDE DEF r
  <2> QED
    BY <1>2, <2>1, <2>2, BecomesThread DEF Job
\* No other step creates a row.
<1>r. rows \in [JobId -> Row] /\ rows[j] \in Row
  BY DEF TypeOK
<1>7. ASSUME NEW t \in Thread, Check(t) PROVE FALSE
  <2>1. rows' = Claimed(Watched(t))
    BY <1>1, <1>7 DEF Check, ReadParent, ReadChild, Claim, Send
  <2> QED
    BY <1>r, <2>1 DEF Claimed, Appears, Row
<1>8. CASE FinishParent \/ Start \/ Succeed \/ Fail \/ BodyTransient \/ Wake
  <2>1. ASSUME NEW i, NEW kids, rows' = Succeeded(i, kids) PROVE FALSE
    BY <1>r, <2>1 DEF Succeeded, Appears, Row
  <2>2. ASSUME NEW i, rows' = Running(i) PROVE FALSE
    BY <1>r, <2>2 DEF Running, Appears, Row
  <2>3. ASSUME NEW i, rows' = Failed(i) PROVE FALSE
    BY <1>r, <2>3 DEF Failed, Appears, Row
  <2>4. ASSUME NEW i, NEW d, rows' = Detailed(i, d) PROVE FALSE
    BY <1>r, <2>4 DEF Detailed, Appears, Row
  <2> QED
    BY <1>8, <2>1, <2>2, <2>3, <2>4 DEF FinishParent, Start, Succeed, Fail, BodyTransient, Wake
<1>9. CASE Take \/ BodyReturns \/ BodyRaises \/ EntryMissing \/ AnnounceSuccess \/ AnnounceFailure
  BY <1>1, <1>9 DEF Take, BodyReturns, BodyRaises, EntryMissing, AnnounceSuccess, AnnounceFailure
<1>10. CASE Process \/ UNCHANGED vars
  BY <1>1, <1>10
  DEF Process, Crash, Exit, Shutdown, Down, Restart, Reconciled, ReconciledBy, Active, Appears, vars
<1> QED
  BY <1>4, <1>5, <1>6, <1>7, <1>8, <1>9, <1>10 DEF Next, Request, ApiStep, WorkerStep

\* A thread gives up its job when the row has settled.
LEMMA JobKept ==
    ASSUME Safe, [Next]_vars, open', ~Fault, NEW t \in Thread, Busy(t)
    PROVE  Job(t)' = Job(t) \/ rows'[Job(t)].status \in Terminal
<1>t. TypeOK /\ Once /\ Place(t)
  BY DEF Safe, Course
<1>j. Job(t) \in JobId /\ rows[Job(t)] \in Row
  BY <1>t DEF Once, JobsExist, TypeOK
<1>o. thread'[t] = thread[t] => Job(t)' = Job(t)
  BY DEF Job
<1>s. UNCHANGED rows /\ Settled(Job(t)) => rows'[Job(t)].status \in Terminal
  BY DEF Settled
<1>1. ASSUME NEW k, Submit(k) PROVE Job(t)' = Job(t)
  BY <1>1, <1>o DEF Submit
<1>2. ASSUME NEW mood, BeginPipeline(mood) PROVE Job(t)' = Job(t)
  <2>1. PICK r : Becomes("api", r)
    BY <1>2 DEF BeginPipeline
  <2>2. t # "api"
    BY <1>2 DEF BeginPipeline, Serving, Busy
  <2> QED
    BY <1>o, <1>t, <2>1, <2>2, BecomesThread
<1>l. ASSUME NEW u \in Thread, NEW made, Becomes(u, Submitted(u, made)) PROVE Job(t)' = Job(t)
  <2>1. Submitted(u, made).job = thread[u].job
    BY <1>t, LocalTyped DEF Submitted, Local
  <2> HIDE DEF Submitted
  <2> QED
    BY <1>l, <1>o, <1>t, <2>1, BecomesThread DEF Job
<1>3. CASE SubmitChild \/ QueueFollowUp
  BY <1>3, <1>l DEF SubmitChild, QueueFollowUp, NextFollowUp
<1>g. ASSUME NEW u \in Thread, NEW step, Goto(u, step) PROVE Job(t)' = Job(t)
  BY <1>g, <1>o, <1>t, GotoThread DEF Job
<1>4. CASE FinishParent \/ EntryMissing \/ BodyTransient
  BY <1>4, <1>g DEF FinishParent, EntryMissing, BodyTransient
<1>5. ASSUME NEW u \in Thread, Check(u)
      PROVE  Job(t)' = Job(t) \/ rows'[Job(t)].status \in Terminal
  <2>1. CASE u = t /\ GoIdle(t)
    <3>1. Settled(Job(t))
      BY <1>5, <1>t, <2>1, CheckThread DEF Place
    <3>2. UNCHANGED rows
      BY ZenonT(40), <1>5, <1>t, <2>1, GotoThread, IdleThread DEF Check, ReadParent, ReadChild, Claim, Send
    <3> QED
      BY <1>s, <3>1, <3>2
  <2> QED
    BY <1>5, <1>o, <1>t, <2>1, CheckThread
<1>e. ASSUME GoIdle("worker"), t # "worker" PROVE Job(t)' = Job(t)
  BY <1>e, <1>o, <1>t, IdleThread
<1>6. CASE Succeed
  <2>1. rows'[Job("worker")].status = "succeeded" \/ t # "worker"
    BY <1>6, <1>j, <1>t DEF Succeed, Succeeded, TypeOK, Row
  <2> QED
    BY <1>6, <1>e, <1>g, <2>1 DEF Succeed, Terminal
<1>7. CASE Fail
  <2>1. rows'[Job("worker")].status = "failed" \/ t # "worker"
    BY <1>7, <1>j, <1>t DEF Fail, Failed, TypeOK, Row
  <2> QED
    BY <1>7, <1>e, <1>g, <2>1 DEF Fail, Terminal
<1>8. CASE AnnounceSuccess
  <2>1. t = "worker" => Settled(Job(t))
    BY <1>8, <1>t DEF AnnounceSuccess, At, Place
  <2> QED
    BY <1>8, <1>e, <1>s, <2>1 DEF AnnounceSuccess
<1>9. CASE AnnounceFailure
  <2>1. t = "worker" => Settled(Job(t))
    BY <1>9, <1>t DEF AnnounceFailure, At, Place, Settled, Terminal
  <2> QED
    BY <1>9, <1>e, <1>g, <1>s, <2>1 DEF AnnounceFailure
<1>10. CASE Take
  <2>1. PICK r : Becomes("worker", r)
    BY <1>10 DEF Take
  <2>2. t # "worker"
    BY <1>10 DEF Take, At, Busy
  <2> QED
    BY <1>o, <1>t, <2>1, <2>2, BecomesThread
<1>w. ASSUME NEW r, Becomes("worker", r), r.job = Job("worker") PROVE Job(t)' = Job(t)
  BY <1>o, <1>t, <1>w, BecomesThread DEF Job
<1>11. CASE Start
  <2>1. [thread["worker"] EXCEPT !.pc = "body", !.known = TRUE].job = Job("worker")
    BY <1>t, LocalTyped DEF Local, Job
  <2> QED
    BY <1>11, <1>w, <2>1 DEF Start
<1>12. CASE BodyReturns
  <2>1. [thread["worker"] EXCEPT !.pc = "follow", !.plan = <<"mood", "extract">>].job
            = Job("worker")
    BY <1>t, LocalTyped DEF Local, Job
  <2> QED
    BY <1>12, <1>g, <1>w, <2>1 DEF BodyReturns
<1>13. CASE BodyRaises
  BY <1>13, <1>o, <1>t, CaughtThread DEF BodyRaises, Job
<1>14. CASE Wake
  <2>1. [thread["worker"] EXCEPT !.pc = "body", !.attempt = thread["worker"].attempt + 1].job
            = Job("worker")
    BY <1>t, LocalTyped DEF Local, Job
  <2> QED
    BY <1>14, <1>w, <2>1 DEF Wake
<1>15. CASE Process \/ UNCHANGED vars
  BY <1>15, <1>o DEF Process, Crash, Exit, Shutdown, Down, Restart, vars
<1> QED
  BY <1>1, <1>2, <1>3, <1>4, <1>5, <1>6, <1>7, <1>8, <1>9, <1>10, <1>11, <1>12, <1>13,
     <1>14, <1>15
  DEF Next, Request, ApiStep, WorkerStep

Owned == \A j \in JobId : rows[j].status \in Active =>
             \/ rows[j].status = "queued" /\ Queued(j)
             \/ j = Job("worker")
             \/ rows[j].status = "queued" /\ j = Job("api")

Held(j) == IsIngest(j) /\ rows[j].status = "queued"

DataHeld == \A j \in JobId : j \in pending <=> Held(j)

\* While the executor is open the owner of an unfinished row keeps it, or hands
\* it on: the queue to the worker.
LEMMA OwnedStep ==
    ASSUME Safe, Safe', [Next]_vars, open, open', ~Fault, Owned
    PROVE  Owned'
<1> SUFFICES ASSUME NEW j \in JobId, rows'[j].status \in Active
             PROVE  \/ rows'[j].status = "queued" /\ Queued(j)'
                    \/ j = Job("worker")'
                    \/ rows'[j].status = "queued" /\ j = Job("api")'
  BY DEF Owned
<1>t. TypeOK /\ Once /\ Course /\ up
  BY DEF Safe, Course, Stopped
<1>r. RowGoes(j)
  BY <1>t, RowStep DEF RowsGo
<1>w. Queued(j)' => rows'[j].status = "queued"
  BY DEF Safe, Course, Waiting
<1>n. rows'[j].status \notin Terminal
  BY DEF Active, Terminal
<1>b. \A t \in Thread : j = Job(t) => Busy(t)
  <2>1. \A t \in Thread : ~Busy(t) => thread[t] = Idle
    BY <1>t DEF Course, Place, Busy
  <2> QED
    BY <2>1 DEF Idle, Job, JobId
<1>k. \A t \in Thread : j = Job(t) => j = Job(t)'
  BY <1>b, <1>n, JobKept
<1>1. CASE Rests(j)
  <2>1. rows'[j].status = rows[j].status /\ rows[j].status \in Active
    BY <1>1 DEF Rests
  <2> QED
    BY <1>k, <1>t, <1>w, <2>1, QueueKept DEF Owned
<1>2. CASE Appears(j)
  BY <1>2, <1>t, NewbornOwned DEF Appears
<1>3. CASE Starts(j)
  BY <1>3, <1>k DEF Starts
<1> QED
  BY <1>1, <1>2, <1>3, <1>n, <1>r, <1>t DEF RowGoes, Fails, GivenUp, Completes, Turns, Terminal

\* The data in memory is that of the ingestions that have not started.
LEMMA DataHeldStep ==
    ASSUME Safe, Clean, \A t \in Thread : Stages(t), [Next]_vars, open, open', faults' = 0,
           DataHeld
    PROVE  DataHeld'
<1> SUFFICES ASSUME NEW i \in JobId PROVE i \in pending' <=> Held(i)'
  BY DEF DataHeld
<1>t. TypeOK /\ PlanOK /\ Once /\ Course /\ up
  BY DEF Safe, Course, Stopped
<1>f. faults = 0 /\ ~Fault
  BY <1>t, NoFaultStep
<1>r. rows \in [JobId -> Row] /\ rows[i] \in Row
  BY <1>t DEF TypeOK
<1>h. (i \in pending <=> Held(i)) /\ Outcome
  BY <1>f DEF DataHeld, Clean
<1>1. UNCHANGED <<rows, pending>> => (i \in pending' <=> Held(i)')
  BY <1>h DEF Held, IsIngest
<1>c. ASSUME NEW j \in JobId, NEW k, k # "ingest", NEW p, Fresh(j), rows' = Created(j, k, p),
             UNCHANGED pending
      PROVE  i \in pending' <=> Held(i)'
  <2>1. i # j => rows'[i] = rows[i]
    BY <1>c, <1>r DEF Created
  <2>2. i = j => rows'[i].kind = k /\ rows[i].status = "absent"
    BY <1>c, <1>r DEF Created, Blank, Fresh
  <2> QED
    BY <1>c, <1>h, <2>1, <2>2 DEF Held, IsIngest
\* A row that changes although its data is not held before or after.
<1>n. ASSUME NEW j \in JobId, ~Held(j), ~Held(j)', i # j => rows'[i] = rows[i],
             UNCHANGED pending
      PROVE  i \in pending' <=> Held(i)'
  BY <1>n, <1>h DEF Held, IsIngest
<1>p. /\ \A t \in Thread : thread[t].pc \in {"children", "follow"} =>
             Head(thread[t].plan) # "ingest"
      /\ \A t \in Thread : Busy(t) => Job(t) \in JobId
  <2> DEFINE S == Kind \ {"ingest"}
  <2>1. ASSUME NEW t \in Thread, thread[t].pc \in {"children", "follow"}
        PROVE  Head(thread[t].plan) # "ingest"
    <3>1. thread[t].plan \in Seq(S) /\ thread[t].plan # <<>>
      BY <1>t, <2>1 DEF Stages, PlanOK
    <3> HIDE DEF S
    <3>2. Head(thread[t].plan) \in S
      BY <3>1, HeadTailProperties
    <3> QED
      BY <3>2 DEF S
  <2> QED
    BY <1>t, <2>1 DEF Once, JobsExist
<1>2. ASSUME NEW k \in ApiKinds, Submit(k) PROVE i \in pending' <=> Held(i)'
  <2>1. PICK j \in JobId :
            /\ Fresh(j) /\ rows' = Created(j, k, NoJob)
            /\ pending' = IF k = "ingest" THEN pending \cup {j} ELSE pending
    BY <1>2 DEF Submit
  <2>2. i # j => rows'[i] = rows[i]
    BY <1>r, <2>1 DEF Created
  <2>3. i = j => rows'[i].kind = k /\ rows'[i].status = "queued"
    BY <1>r, <2>1 DEF Created, Blank
  <2> QED
    BY <1>c, <1>h, <2>1, <2>2, <2>3 DEF Held, IsIngest
<1>3. ASSUME NEW mood, BeginPipeline(mood) PROVE i \in pending' <=> Held(i)'
  BY <1>3, <1>c DEF BeginPipeline
<1>4. CASE SubmitChild
  BY <1>4, <1>c, <1>p DEF SubmitChild, At
<1>5. CASE QueueFollowUp
  BY <1>5, <1>c, <1>p DEF QueueFollowUp, At
<1>6. CASE FinishParent
  <2>1. /\ Job("api") \in JobId /\ IsSave(Job("api"))
        /\ rows' = Succeeded(Job("api"), thread["api"].made)
        /\ UNCHANGED pending
    BY <1>6, <1>p DEF FinishParent, At, Busy, Stages
  <2>2. ~Held(Job("api"))
    BY <2>1 DEF Held, IsIngest, IsSave
  <2>3. rows'[Job("api")].status = "succeeded"
    BY <1>t, <2>1 DEF Succeeded, TypeOK, Row
  <2> HIDE DEF Job
  <2>4. (i # Job("api") => rows'[i] = rows[i]) /\ ~(rows'[Job("api")].status = "queued")
    BY <1>r, <2>1, <2>3 DEF Succeeded
  <2>5. CASE i = Job("api")
    BY <1>h, <2>1, <2>2, <2>4, <2>5 DEF Held
  <2>6. CASE i # Job("api")
    BY <1>h, <2>1, <2>4, <2>6 DEF Held, IsIngest
  <2> QED
    BY <2>5, <2>6
<1>w. ASSUME Busy("worker"), rows[Job("worker")].status # "queued",
             rows'[Job("worker")].status # "queued",
             i # Job("worker") => rows'[i] = rows[i], UNCHANGED pending
      PROVE  i \in pending' <=> Held(i)'
  <2>1. CASE i = Job("worker")
    BY <1>h, <1>w, <2>1 DEF Held
  <2>2. CASE i # Job("worker")
    BY <1>h, <1>w, <2>2 DEF Held, IsIngest
  <2> QED
    BY <2>1, <2>2
<1>7. CASE Succeed \/ Fail \/ BodyTransient \/ Wake
  <2>1. Busy("worker") /\ rows[Job("worker")].status = "running"
    BY <1>7, <1>h, <1>t DEF Succeed, Fail, BodyTransient, Wake, At, Busy, Course, Place, Outcome
  <2>2. Job("worker") \in JobId /\ rows[Job("worker")] \in Row
    BY <1>p, <1>t, <2>1 DEF TypeOK
  <2>3. ASSUME NEW kids, rows' = Succeeded(Job("worker"), kids)
        PROVE  /\ rows'[Job("worker")].status # "queued"
               /\ i # Job("worker") => rows'[i] = rows[i]
    BY <1>r, <2>2, <2>3 DEF Succeeded, Row
  <2>4. ASSUME rows' = Failed(Job("worker"))
        PROVE  /\ rows'[Job("worker")].status # "queued"
               /\ i # Job("worker") => rows'[i] = rows[i]
    BY <1>r, <2>2, <2>4 DEF Failed, Row
  <2>5. ASSUME NEW d, rows' = Detailed(Job("worker"), d)
        PROVE  /\ rows'[Job("worker")].status # "queued"
               /\ i # Job("worker") => rows'[i] = rows[i]
    BY <1>r, <2>1, <2>2, <2>5 DEF Detailed, Row
  <2> QED
    BY <1>7, <1>w, <2>1, <2>3, <2>4, <2>5 DEF Succeed, Fail, BodyTransient, Wake
<1>8. CASE Start
  <2>1. /\ Busy("worker") /\ rows' = Running(Job("worker"))
        /\ pending' = pending \ {Job("worker")}
    BY <1>8 DEF Start, At, Busy
  <2>2. Job("worker") \in JobId /\ rows[Job("worker")] \in Row
    BY <1>p, <1>t, <2>1 DEF TypeOK
  <2>3. /\ rows'[Job("worker")].status = "running"
        /\ i # Job("worker") => rows'[i] = rows[i]
    BY <1>r, <2>1, <2>2 DEF Running, Row
  <2>4. CASE i = Job("worker")
    BY <2>1, <2>3, <2>4 DEF Held
  <2>5. CASE i # Job("worker")
    BY <1>h, <2>1, <2>3, <2>5 DEF Held, IsIngest
  <2> QED
    BY <2>4, <2>5
<1>9. ASSUME NEW t \in Thread, Check(t) PROVE i \in pending' <=> Held(i)'
  <2>1. ASSUME rows' = Claimed(Watched(t))
        PROVE  rows'[i].kind = rows[i].kind /\ rows'[i].status = rows[i].status
    BY <1>r, <2>1 DEF Claimed, Row
  <2>2. UNCHANGED pending /\ (UNCHANGED rows \/ rows' = Claimed(Watched(t)))
    BY <1>9 DEF Check, ReadParent, ReadChild, Claim, Send
  <2> QED
    BY <1>1, <1>h, <2>1, <2>2 DEF Held, IsIngest
<1>10. CASE Take \/ BodyReturns \/ BodyRaises \/ EntryMissing \/ AnnounceSuccess \/ AnnounceFailure
  BY <1>1, <1>10
  DEF Take, BodyReturns, BodyRaises, EntryMissing, AnnounceSuccess, AnnounceFailure
<1>11. CASE Process \/ UNCHANGED vars
  BY <1>1, <1>11, <1>t DEF Process, Crash, Exit, Shutdown, Down, Restart, vars
<1> QED
  BY <1>2, <1>3, <1>4, <1>5, <1>6, <1>7, <1>8, <1>9, <1>10, <1>11, <1>f
  DEF Next, Request, ApiStep, WorkerStep

Owners == (faults = 0 /\ open) => Owned /\ DataHeld

Whole == Safe /\ Clean /\ (\A t \in Thread : Stages(t)) /\ Owners

\* The executor opens in a restart only, and then nothing is unfinished.
LEMMA OwnersStep == Whole /\ [Next]_vars => Owners'
<1> SUFFICES ASSUME Whole, [Next]_vars, faults' = 0, open' PROVE Owned' /\ DataHeld'
  BY DEF Owners
<1>s. Safe /\ Safe' /\ TypeOK
  BY SafeHolds DEF Whole, Safe
<1>f. faults = 0 /\ ~Fault
  BY <1>s, NoFaultStep
<1>1. CASE open
  BY <1>1, <1>f, <1>s, OwnedStep, DataHeldStep DEF Whole, Owners
<1>2. CASE ~open
  <2>1. Restart
    <3>1. ~UNCHANGED open
      BY <1>2
    <3>2. ASSUME NEW k, Submit(k) \/ BeginPipeline(k) PROVE FALSE
      BY <1>2, <3>2 DEF Submit, BeginPipeline, Serving
    <3>3. ASSUME NEW t \in Thread, Check(t) PROVE FALSE
      BY <3>1, <3>3 DEF Check, ReadParent, ReadChild, Claim, Send
    <3>4. ~(SubmitChild \/ FinishParent \/ Take \/ Start \/ BodyReturns \/ BodyRaises
            \/ EntryMissing \/ BodyTransient \/ Wake \/ QueueFollowUp \/ Succeed
            \/ AnnounceSuccess \/ Fail \/ AnnounceFailure)
      BY <3>1
      DEF SubmitChild, FinishParent, Take, Start, BodyReturns, BodyRaises, EntryMissing,
          BodyTransient, Wake, QueueFollowUp, Succeed, AnnounceSuccess, Fail, AnnounceFailure
    <3>5. ~(Crash \/ Shutdown \/ Exit \/ UNCHANGED vars)
      BY <3>1 DEF Crash, Shutdown, Exit, Down, vars
    <3> QED
      BY <1>f, <3>2, <3>3, <3>4, <3>5 DEF Next, Request, ApiStep, WorkerStep, Process
  <2>2. /\ pending' = {} /\ rows' = Reconciled
    BY <2>1, <1>s DEF Restart, Safe, Course, Stopped
  <2>3. ASSUME NEW j \in JobId PROVE rows'[j].status \notin Active
    <3>1. rows[j] \in Row
      BY <1>s DEF TypeOK
    <3> QED
      BY <2>2, <3>1 DEF Reconciled, ReconciledBy, Row, Active
  <2> QED
    BY <2>2, <2>3 DEF Owned, DataHeld, Held, Active
<1> QED
  BY <1>1, <1>2

LEMMA WholeHolds == (Init => Whole) /\ (Whole /\ [Next]_vars => Whole')
<1>1. ASSUME Init PROVE Whole
  <2>1. \A t \in Thread : thread[t].pc = "idle"
    BY <1>1 DEF Init, Idle
  <2>2. \A t \in Thread : Stages(t)
    BY <2>1 DEF Stages, WorkSteps
  <2>3. \A j \in JobId : rows[j].status = "absent"
    BY <1>1 DEF Init, Blank
  <2>4. Owners
    BY <1>1, <2>3 DEF Owners, Owned, DataHeld, Held, Init, Active
  <2> QED
    BY <1>1, <2>2, <2>4, SafeHolds, InitClean DEF Whole
<1>2. Whole /\ [Next]_vars => Whole'
  BY SafeHolds, CleanStep, StagesStep, OwnersStep DEF Whole
<1> QED
  BY <1>1, <1>2

\* Until a call on the table raises or the executor closes, every unfinished row
\* has an owner that will finish it (the executor's queue, its worker, or the
\* request still submitting the pipeline), and the images and recordings in memory
\* are those of the ingestions waiting, no more and no less: _run_image_ingestion
\* and _run_audio_ingestion always find theirs.
THEOREM NoneForgotten == Spec => []NobodyForgotten
<1>1. Whole => NobodyForgotten
  <2> SUFFICES ASSUME Whole, faults = 0, open
               PROVE  /\ Owned
                      /\ pending = {j \in JobId : IsIngest(j) /\ rows[j].status = "queued"}
    BY DEF NobodyForgotten, Owned
  <2>1. Owned /\ DataHeld /\ pending \subseteq JobId
    BY DEF Whole, Owners, Safe, TypeOK
  <2> QED
    BY <2>1 DEF DataHeld, Held
<1> QED
  BY <1>1, WholeHolds, PTL DEF Spec

-----------------------------------------------------------------------------
(* The runner implements JobLifecycle.                                     *)

\* The state of the lifecycle: the status, the parts and the news of each job.
Standing == [j \in JobId |-> rows[j].status]
Shares == [j \in JobId |-> FollowUpSet(j)]
Good(j) == pushes[j]["success"]
Bad(j) == pushes[j]["failed"] + pushes[j]["breakdown"]
News == [j \in JobId |-> [good |-> Good(j), bad |-> Bad(j)]]

\* Its initial state and its actions, in these words.
LEMMA LifecycleBegins == Init => Lifecycle!LInit
<1> SUFFICES ASSUME Init PROVE Lifecycle!LInit
  OBVIOUS
<1>1. ASSUME NEW j \in JobId
      PROVE  /\ rows[j].status = "absent" /\ FollowUpSet(j) = {}
             /\ pushes[j]["success"] = 0
             /\ pushes[j]["failed"] + pushes[j]["breakdown"] = 0
  BY DEF Init, Blank, FollowUpSet, PushKinds
<1> QED
  BY <1>1 DEF Lifecycle!LInit

LEMMA LifecycleSubmits ==
    ASSUME NEW j \in JobId, Standing[j] = "absent",
           Standing' = [Standing EXCEPT ![j] = "queued"], UNCHANGED <<Shares, News>>
    PROVE  Lifecycle!LNext
BY DEF Lifecycle!LNext, Lifecycle!SubmitJob, Standing, Shares, News, Good, Bad

LEMMA LifecycleStarts ==
    ASSUME NEW j \in JobId, Standing[j] = "queued",
           Standing' = [Standing EXCEPT ![j] = "running"], UNCHANGED <<Shares, News>>
    PROVE  Lifecycle!LNext
BY DEF Lifecycle!LNext, Lifecycle!StartJob, Standing, Shares, News, Good, Bad

LEMMA LifecycleSucceeds ==
    ASSUME NEW j \in JobId, Standing[j] \in Active,
           Standing' = [Standing EXCEPT ![j] = "succeeded"],
           NEW S \in SUBSET {i \in JobId : Standing[i] # "absent"},
           Shares' = [Shares EXCEPT ![j] = S], UNCHANGED News
    PROVE  Lifecycle!LNext
BY DEF Lifecycle!LNext, Lifecycle!JobSucceeds, Lifecycle!Unfinished, Active, Standing, Shares,
       News, Good, Bad

LEMMA LifecycleFails ==
    ASSUME NEW j \in JobId, Standing[j] = "running",
           Standing' = [Standing EXCEPT ![j] = "failed"], UNCHANGED <<Shares, News>>
    PROVE  Lifecycle!LNext
BY DEF Lifecycle!LNext, Lifecycle!JobFails, Standing, Shares, News, Good, Bad

LEMMA LifecycleGivesUp ==
    ASSUME Standing' = [j \in JobId |-> IF Standing[j] \in Active THEN "failed" ELSE Standing[j]],
           UNCHANGED <<Shares, News>>
    PROVE  Lifecycle!LNext
BY DEF Lifecycle!LNext, Lifecycle!GiveUp, Lifecycle!Unfinished, Active, Standing, Shares, News,
       Good, Bad

LEMMA LifecycleTellsGood ==
    ASSUME NEW j \in JobId, News[j] = [good |-> 0, bad |-> 0], Standing[j] = "succeeded",
           \A i \in Shares[j] : Standing[i] \in Terminal,
           News' = [News EXCEPT ![j].good = 1], UNCHANGED <<Standing, Shares>>
    PROVE  Lifecycle!LNext
BY DEF Lifecycle!LNext, Lifecycle!TellGood, Lifecycle!Untold, Lifecycle!PartsFinal,
       Lifecycle!Final, Terminal, Standing, Shares, News, Good, Bad

LEMMA LifecycleTellsBad ==
    ASSUME NEW j \in JobId, News[j] = [good |-> 0, bad |-> 0],
           \A i \in Shares[j] : Standing[i] \in Terminal,
           Standing[j] = "failed" \/ \E i \in Shares[j] : Standing[i] = "failed",
           News' = [News EXCEPT ![j].bad = 1], UNCHANGED <<Standing, Shares>>
    PROVE  Lifecycle!LNext
BY DEF Lifecycle!LNext, Lifecycle!TellBad, Lifecycle!Untold, Lifecycle!PartsFinal,
       Lifecycle!Final, Terminal, Standing, Shares, News, Good, Bad

LEMMA LifecycleRests ==
    ASSUME UNCHANGED <<Standing, Shares, News>>
    PROVE  UNCHANGED Lifecycle!lvars
BY DEF Lifecycle!lvars, Standing, Shares, News, Good, Bad

\* What one new row, or one push, is to the lifecycle.
LEMMA OneRow ==
    ASSUME TypeOK, NEW j \in JobId, NEW r, rows' = [rows EXCEPT ![j] = r]
    PROVE  /\ Standing' = [Standing EXCEPT ![j] = r.status]
           /\ r.followUps = rows[j].followUps => UNCHANGED Shares
           /\ Shares' = [Shares EXCEPT ![j] = FollowUpSet(j)']
<1>1. rows'[j] = r /\ \A i \in JobId \ {j} : rows'[i] = rows[i]
  BY DEF TypeOK
<1>2. Standing' = [Standing EXCEPT ![j] = r.status]
  <2>1. \A i \in JobId : rows'[i].status = IF i = j THEN r.status ELSE rows[i].status
    BY <1>1
  <2> QED
    BY <2>1 DEF Standing
<1>3. \A i \in JobId \ {j} : FollowUpSet(i)' = FollowUpSet(i)
  BY <1>1 DEF FollowUpSet
<1>4. r.followUps = rows[j].followUps => UNCHANGED Shares
  BY <1>1, <1>3 DEF Shares, FollowUpSet
<1>5. Shares' = [Shares EXCEPT ![j] = FollowUpSet(j)']
  BY <1>3 DEF Shares
<1> QED
  BY <1>2, <1>4, <1>5

LEMMA SameTable ==
    ASSUME UNCHANGED rows
    PROVE  UNCHANGED <<Standing, Shares>>
BY DEF Standing, Shares, FollowUpSet

LEMMA SameNews ==
    ASSUME \A j \in JobId : Silent(j)
    PROVE  UNCHANGED News
BY DEF Silent, News, Good, Bad

LEMMA GoodNews ==
    ASSUME TypeOK, NEW p \in JobId, Push(p, "success"),
           Summaries(p) = 0, pushes[p]["failed"] = 0
    PROVE  /\ News[p] = [good |-> 0, bad |-> 0]
           /\ News' = [News EXCEPT ![p].good = 1]
<1>1. Tells(p, "success") /\ \A j \in JobId \ {p} : Silent(j)
  BY PushTells DEF PushKinds
<1>2. /\ pushes[p]["success"] = 0 /\ pushes[p]["breakdown"] = 0
      /\ pushes'[p]["success"] = 1 /\ pushes'[p]["breakdown"] = 0 /\ pushes'[p]["failed"] = 0
  BY <1>1, PushesNat DEF Summaries, Tells, PushKinds
<1>3. Good(p) = 0 /\ Bad(p) = 0 /\ Good(p)' = 1 /\ Bad(p)' = 0
  BY <1>2 DEF Good, Bad
<1>4. \A j \in JobId \ {p} : Good(j)' = Good(j) /\ Bad(j)' = Bad(j)
  BY <1>1 DEF Silent, Good, Bad
<1> HIDE DEF Good, Bad
<1> QED
  BY <1>3, <1>4 DEF News

LEMMA BadNews ==
    ASSUME TypeOK, NEW p \in JobId, NEW k \in {"failed", "breakdown"}, Push(p, k),
           Summaries(p) = 0, pushes[p]["failed"] = 0
    PROVE  /\ News[p] = [good |-> 0, bad |-> 0]
           /\ News' = [News EXCEPT ![p].bad = 1]
<1>1. Tells(p, k) /\ \A j \in JobId \ {p} : Silent(j)
  BY PushTells DEF PushKinds
<1>2. /\ pushes[p]["success"] = 0 /\ pushes[p]["breakdown"] = 0
      /\ pushes'[p]["success"] = 0 /\ pushes'[p]["breakdown"] + pushes'[p]["failed"] = 1
  BY <1>1, PushesNat DEF Summaries, Tells, PushKinds
<1>3. Good(p) = 0 /\ Bad(p) = 0 /\ Good(p)' = 0 /\ Bad(p)' = 1
  BY <1>1, <1>2, PushesNat DEF Good, Bad, Tells, PushKinds
<1>4. \A j \in JobId \ {p} : Good(j)' = Good(j) /\ Bad(j)' = Bad(j)
  BY <1>1 DEF Silent, Good, Bad
<1> HIDE DEF Good, Bad
<1> QED
  BY <1>3, <1>4 DEF News

\* Creating a row submits a job.
LEMMA CreatedSubmits ==
    ASSUME TypeOK, Once, NEW j \in JobId, NEW k, NEW p, Fresh(j), rows' = Created(j, k, p),
           UNCHANGED News
    PROVE  Lifecycle!LNext
<1> DEFINE r == [Blank EXCEPT !.status = "queued", !.kind = k, !.parent = p]
<1>1. rows' = [rows EXCEPT ![j] = r]
  BY DEF Created
<1>2. r.status = "queued" /\ r.followUps = <<>>
  BY DEF Blank
<1>3. rows[j].status = "absent" /\ rows[j].followUps = <<>>
  BY DEF Fresh, Once, AbsentIsBlank, Exists
<1> HIDE DEF r
<1>4. Standing' = [Standing EXCEPT ![j] = "queued"] /\ UNCHANGED Shares
  <2>1. r.followUps = rows[j].followUps
    BY <1>2, <1>3
  <2>2. Standing' = [Standing EXCEPT ![j] = r.status] /\ UNCHANGED Shares
    BY <1>1, <2>1, OneRow
  <2> QED
    BY <1>2, <2>2
<1>5. Standing[j] = "absent"
  BY <1>3 DEF Standing
<1> QED
  BY <1>4, <1>5, LifecycleSubmits

\* mark_succeeded, by the thread that works on the job, publishes jobs that exist.
LEMMA SucceededSucceeds ==
    ASSUME Safe, NEW t \in Thread, Stages(t), thread[t].pc = "succeed",
           rows' = Succeeded(Job(t), thread[t].made), UNCHANGED News
    PROVE  Lifecycle!LNext
<1>t. TypeOK /\ Once /\ Place(t)
  BY DEF Safe, Course
<1>j. Job(t) \in JobId
  BY <1>t DEF Once, JobsExist, Busy
<1>p. PICK p \in JobId : p = Job(t)
  BY <1>j
<1>1. rows[p] \in Row
  BY <1>t DEF TypeOK
<1> DEFINE r == [rows[p] EXCEPT !.status = "succeeded", !.detail = FALSE,
                                !.followUps = thread[t].made, !.claim = "unsent"]
<1>2. rows' = [rows EXCEPT ![p] = r]
  BY <1>p DEF Succeeded
<1>3. r.status = "succeeded" /\ r.followUps = thread[t].made
  BY <1>1 DEF Row
<1>4. rows'[p].followUps = thread[t].made
  BY <1>2, <1>3, <1>t DEF TypeOK
<1>5. FollowUpSet(p)' \in SUBSET {i \in JobId : Standing[i] # "absent"}
  <2>1. \A i \in 1..Len(thread[t].made) :
            thread[t].made[i] \in JobId /\ Exists(thread[t].made[i])
    BY <1>t, LocalTyped, ElementOfSeq DEF Stages, WorkSteps
  <2> QED
    BY <1>4, <2>1 DEF Standing, Exists, FollowUpSet
<1>6. Standing[p] \in Active
  BY <1>p, <1>t DEF Standing, Place, Active
<1> HIDE DEF r
<1>7. /\ Standing' = [Standing EXCEPT ![p] = r.status]
      /\ Shares' = [Shares EXCEPT ![p] = FollowUpSet(p)']
  BY <1>2, <1>t, OneRow
<1> QED
  BY <1>3, <1>5, <1>6, <1>7, LifecycleSucceeds

LEMMA RunningStarts ==
    ASSUME Safe, thread["worker"].pc = "start", rows' = Running(Job("worker")), UNCHANGED News
    PROVE  Lifecycle!LNext
<1>t. TypeOK /\ Once /\ Place("worker")
  BY DEF Safe, Course
<1>1. Job("worker") \in JobId /\ rows[Job("worker")] \in Row
  BY <1>t DEF Once, JobsExist, Busy, TypeOK
<1> DEFINE r == [rows[Job("worker")] EXCEPT !.status = "running"]
<1>2. rows' = [rows EXCEPT ![Job("worker")] = r]
  BY DEF Running
<1>3. r.status = "running" /\ r.followUps = rows[Job("worker")].followUps
  BY <1>1 DEF Row
<1>4. Standing[Job("worker")] = "queued"
  BY <1>1, <1>t DEF Standing, Place
<1> HIDE DEF r
<1>5. Standing' = [Standing EXCEPT ![Job("worker")] = "running"] /\ UNCHANGED Shares
  BY <1>1, <1>2, <1>3, <1>t, OneRow
<1> QED
  BY <1>1, <1>4, <1>5, LifecycleStarts

LEMMA FailedFails ==
    ASSUME Safe, Outcome, thread["worker"].pc = "fail", rows' = Failed(Job("worker")),
           UNCHANGED News
    PROVE  Lifecycle!LNext
<1>t. TypeOK /\ Once
  BY DEF Safe
<1>1. Job("worker") \in JobId /\ rows[Job("worker")] \in Row
  BY <1>t DEF Once, JobsExist, Busy, TypeOK
<1> DEFINE r == [rows[Job("worker")] EXCEPT !.status = "failed", !.detail = FALSE]
<1>2. rows' = [rows EXCEPT ![Job("worker")] = r]
  BY DEF Failed
<1>3. r.status = "failed" /\ r.followUps = rows[Job("worker")].followUps
  BY <1>1 DEF Row
<1>4. Standing[Job("worker")] = "running"
  BY <1>1 DEF Standing, Outcome
<1> HIDE DEF r
<1>5. Standing' = [Standing EXCEPT ![Job("worker")] = "failed"] /\ UNCHANGED Shares
  BY <1>1, <1>2, <1>3, <1>t, OneRow
<1> QED
  BY <1>1, <1>4, <1>5, LifecycleFails

LEMMA ReconciledGivesUp ==
    ASSUME TypeOK, rows' = Reconciled, UNCHANGED News
    PROVE  Lifecycle!LNext
<1>1. ASSUME NEW j \in JobId
      PROVE  /\ rows'[j].status = IF rows[j].status \in Active THEN "failed" ELSE rows[j].status
             /\ rows'[j].followUps = rows[j].followUps
  <2>1. rows[j] \in Row
    BY DEF TypeOK
  <2> QED
    BY <2>1 DEF Reconciled, ReconciledBy, Row
<1>2. UNCHANGED Shares
  BY <1>1 DEF Shares, FollowUpSet
<1>3. Standing' = [j \in JobId |-> IF Standing[j] \in Active THEN "failed" ELSE Standing[j]]
  BY <1>1 DEF Standing
<1> QED
  BY <1>2, <1>3, LifecycleGivesUp

\* The push of _try_pipeline_notification is news of a settled job, whose parts
\* are settled, and of which no news has gone out.
LEMMA SendTells ==
    ASSUME Safe, \A t \in Thread : Gathered(t), FailuresTold, NEW t \in Thread, Send(t)
    PROVE  Lifecycle!LNext
<1>t. TypeOK /\ Once /\ Course
  BY DEF Safe
<1>1. thread[t].pc = "send" /\ Push(Watched(t), SummaryKind(t)) /\ UNCHANGED rows
  BY DEF Send, At
<1>j. Watched(t) \in JobId
  BY <1>1, <1>t DEF Once, Looking, LookSteps, SeenSteps
<1>p. PICK p \in JobId : p = Watched(t)
  BY <1>j
<1>2. /\ AllSettled(p) /\ Summaries(p) = 0 /\ rows[p].status = "succeeded"
      /\ thread[t].bad <=> FailedStage(p)
  BY <1>1, <1>p, <1>t DEF Course, Look, Once, Sending, Gathered, SeenSteps
<1>3. pushes[p]["failed"] = 0
  <2>1. pushes[p]["failed"] \in Nat
    BY <1>t, PushesNat DEF PushKinds
  <2> QED
    BY <1>2, <2>1 DEF FailuresTold, Failing
<1>4. UNCHANGED <<Standing, Shares>>
  BY <1>1, SameTable
<1>5. \A i \in Shares[p] : Standing[i] \in Terminal
  BY <1>2, <1>t, KidsTyped DEF Shares, FollowUpSet, Standing, AllSettled, Settled, Kids
<1>6. CASE SummaryKind(t) = "success"
  <2>1. News[p] = [good |-> 0, bad |-> 0] /\ News' = [News EXCEPT ![p].good = 1]
    BY <1>1, <1>2, <1>3, <1>6, <1>p, <1>t, GoodNews
  <2>2. Standing[p] = "succeeded"
    BY <1>2 DEF Standing
  <2> QED
    BY <1>4, <1>5, <2>1, <2>2, LifecycleTellsGood
<1>7. CASE SummaryKind(t) = "breakdown"
  <2>1. News[p] = [good |-> 0, bad |-> 0] /\ News' = [News EXCEPT ![p].bad = 1]
    BY <1>1, <1>2, <1>3, <1>7, <1>p, <1>t, BadNews
  <2>2. FailedStage(p)
    BY <1>2, <1>7 DEF SummaryKind
  <2>3. \E i \in Shares[p] : Standing[i] = "failed"
    BY <1>t, <2>2, KidsTyped DEF FailedStage, Shares, FollowUpSet, Standing, Kids
  <2> QED
    BY <1>4, <1>5, <2>1, <2>3, LifecycleTellsBad
<1> QED
  BY <1>6, <1>7 DEF SummaryKind

\* The worker's own news is of a job without parts.
LEMMA WorkerTells ==
    ASSUME Safe, Outcome, FailuresTold,
           \/ AnnounceSuccess
           \/ AnnounceFailure /\ ~Defers(Job("worker"))
    PROVE  Lifecycle!LNext
<1>t. TypeOK /\ Once /\ Course
  BY DEF Safe
<1>j. Job("worker") \in JobId
  BY <1>t DEF AnnounceSuccess, AnnounceFailure, At, Once, JobsExist, Busy
<1>p. PICK p \in JobId : p = Job("worker")
  BY <1>j
<1>n. pushes[p]["failed"] \in Nat /\ Summaries(p) \in Nat
  BY <1>t, PushesNat, SummariesNat DEF PushKinds
<1>4. UNCHANGED <<Standing, Shares>>
  BY SameTable DEF AnnounceSuccess, AnnounceFailure
<1>5. ASSUME Kids(p) = <<>> PROVE Shares[p] = {}
  BY <1>5 DEF Shares, FollowUpSet, Kids
<1>6. CASE AnnounceSuccess
  <2>1. /\ rows[p].status = "succeeded" /\ Kids(p) = <<>> /\ Summaries(p) = 0
        /\ Push(p, "success")
    BY <1>6, <1>p, <1>t DEF AnnounceSuccess, At, Outcome, Once, Announcing, Kids
  <2>2. pushes[p]["failed"] = 0
    BY <1>n, <2>1 DEF FailuresTold, Failing
  <2>3. News[p] = [good |-> 0, bad |-> 0] /\ News' = [News EXCEPT ![p].good = 1]
    BY <1>t, <2>1, <2>2, GoodNews
  <2>4. Standing[p] = "succeeded"
    BY <2>1 DEF Standing
  <2> QED
    BY <1>4, <1>5, <2>1, <2>3, <2>4, LifecycleTellsGood
<1>7. CASE AnnounceFailure /\ ~Defers(Job("worker"))
  <2>1. /\ rows[p].status = "failed" /\ Kids(p) = <<>> /\ Outcomes(p) = 0
        /\ Push(p, "failed")
    BY <1>7, <1>p, <1>t DEF AnnounceFailure, At, Outcome, Course, Place
  <2>2. pushes[p]["failed"] = 0 /\ Summaries(p) = 0
    BY <1>n, <2>1 DEF Outcomes
  <2>3. News[p] = [good |-> 0, bad |-> 0] /\ News' = [News EXCEPT ![p].bad = 1]
    BY <1>t, <2>1, <2>2, BadNews
  <2>4. Standing[p] = "failed"
    BY <2>1 DEF Standing
  <2> QED
    BY <1>4, <1>5, <2>1, <2>3, <2>4, LifecycleTellsBad
<1> QED
  BY <1>6, <1>7

\* Each step of the runner is a step of the lifecycle, or none.
LEMMA LifecycleStep ==
    Whole /\ [Next]_vars /\ faults' = 0 => [Lifecycle!LNext]_(Lifecycle!lvars)
<1> SUFFICES ASSUME Whole, [Next]_vars, faults' = 0
             PROVE  Lifecycle!LNext \/ UNCHANGED Lifecycle!lvars
  OBVIOUS
<1>s. Safe /\ TypeOK /\ Once /\ \A t \in Thread : Stages(t)
  BY DEF Whole, Safe
<1>f. faults = 0 /\ ~Fault
  BY <1>s, NoFaultStep
<1>c. (\A t \in Thread : Gathered(t)) /\ Outcome /\ FailuresTold
  BY <1>f DEF Whole, Clean
<1>n. UNCHANGED pushes => UNCHANGED News
  BY DEF News, Good, Bad
<1>o. UNCHANGED <<rows, pushes>> => UNCHANGED Lifecycle!lvars
  BY <1>n, SameTable, LifecycleRests
\* A row whose status and follow-ups stay.
<1>d. ASSUME NEW j, NEW r, rows' = [rows EXCEPT ![j] = r], UNCHANGED News,
             j \in JobId => r.status = rows[j].status /\ r.followUps = rows[j].followUps
      PROVE  UNCHANGED Lifecycle!lvars
  <2>1. ASSUME NEW i \in JobId
        PROVE  rows'[i].status = rows[i].status /\ rows'[i].followUps = rows[i].followUps
    BY <1>d, <1>s DEF TypeOK
  <2> QED
    BY <1>d, <2>1, LifecycleRests DEF Standing, Shares, FollowUpSet
<1>1. ASSUME NEW k, Submit(k) PROVE Lifecycle!LNext
  BY <1>1, <1>n, <1>s, CreatedSubmits DEF Submit
<1>2. ASSUME NEW mood, BeginPipeline(mood) PROVE Lifecycle!LNext
  BY <1>2, <1>n, <1>s, CreatedSubmits DEF BeginPipeline
<1>3. CASE SubmitChild \/ QueueFollowUp
  BY <1>3, <1>n, <1>s, CreatedSubmits DEF SubmitChild, QueueFollowUp
<1>4. CASE FinishParent \/ Succeed
  BY <1>4, <1>n, <1>s, SucceededSucceeds DEF FinishParent, Succeed, At
<1>5. CASE Start
  BY <1>5, <1>n, <1>s, RunningStarts DEF Start, At
<1>6. CASE Fail
  BY <1>6, <1>c, <1>n, <1>s, FailedFails DEF Fail, At
<1>7. CASE Restart
  BY <1>7, <1>n, <1>s, ReconciledGivesUp DEF Restart
<1>8. CASE AnnounceSuccess
  BY <1>8, <1>c, <1>s, WorkerTells
<1>9. CASE AnnounceFailure
  BY <1>9, <1>c, <1>o, <1>s, WorkerTells DEF AnnounceFailure
<1>10. ASSUME NEW t \in Thread, Check(t)
       PROVE  Lifecycle!LNext \/ UNCHANGED Lifecycle!lvars
  <2>1. CASE Send(t)
    BY <1>c, <1>s, <2>1, SendTells
  <2>2. CASE Claim(t) /\ rows' = Claimed(Watched(t))
    <3> DEFINE r == [rows[Watched(t)] EXCEPT !.claim = "sent"]
    <3>1. rows' = [rows EXCEPT ![Watched(t)] = r]
      BY <2>2 DEF Claimed
    <3>2. Watched(t) \in JobId =>
              /\ r.status = rows[Watched(t)].status
              /\ r.followUps = rows[Watched(t)].followUps
      BY <1>s DEF TypeOK, Row
    <3>3. UNCHANGED News
      BY <1>n, <2>2 DEF Claim
    <3> HIDE DEF r
    <3> QED
      BY <1>d, <3>1, <3>2, <3>3
  <2>3. CASE UNCHANGED <<rows, pushes>>
    BY <1>o, <2>3
  <2> QED
    BY <1>10, <2>1, <2>2, <2>3 DEF Check, ReadParent, ReadChild, Claim
<1>11. CASE BodyTransient \/ Wake
  <2>1. UNCHANGED News
    <3>1. ASSUME Push(Job("worker"), "retrying"), NEW j \in JobId PROVE Silent(j)
      BY <1>s, <3>1, PushTells DEF Tells, Silent, PushKinds
    <3> QED
      BY <1>11, <1>n, <3>1, SameNews DEF BodyTransient, Wake
  <2>2. ASSUME NEW d, rows' = Detailed(Job("worker"), d) PROVE UNCHANGED Lifecycle!lvars
    <3> DEFINE r == [rows[Job("worker")] EXCEPT !.detail = d]
    <3>1. rows' = [rows EXCEPT ![Job("worker")] = r]
      BY <2>2 DEF Detailed
    <3>2. Job("worker") \in JobId =>
              /\ r.status = rows[Job("worker")].status
              /\ r.followUps = rows[Job("worker")].followUps
      BY <1>s DEF TypeOK, Row
    <3> HIDE DEF r
    <3> QED
      BY <1>d, <2>1, <3>1, <3>2
  <2> QED
    BY <1>11, <2>2 DEF BodyTransient, Wake
<1>12. CASE Take \/ BodyReturns \/ BodyRaises \/ EntryMissing
  BY <1>12, <1>o DEF Take, BodyReturns, BodyRaises, EntryMissing
<1>13. CASE Crash \/ Shutdown \/ Exit \/ UNCHANGED vars
  BY <1>13, <1>o DEF Crash, Shutdown, Exit, Down, vars
<1> QED
  BY <1>1, <1>2, <1>3, <1>4, <1>5, <1>6, <1>7, <1>8, <1>9, <1>10, <1>11, <1>12, <1>13, <1>f
  DEF Next, Request, ApiStep, WorkerStep, Process

\* While no call on the table raises, every step of the two threads, of a crash,
\* a shutdown or a restart is one step of the lifecycle of docs/jobs.md, or none:
\* no terminal state is left, and the outcome of a job is told at most once, when
\* the job and all its parts have settled, and as it is.
THEOREM RunnerImplementsLifecycle == Spec /\ [](faults = 0) => ImplementsLifecycle
<1>1. Whole /\ [Next]_vars /\ (faults = 0)' => [Lifecycle!LNext]_(Lifecycle!lvars)
  BY LifecycleStep
<1> QED
  BY <1>1, WholeHolds, LifecycleBegins, PTL DEF Spec, ImplementsLifecycle, Lifecycle!LSpec

=============================================================================
