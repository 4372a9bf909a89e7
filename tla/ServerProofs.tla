----------------------------- MODULE ServerProofs -----------------------------
(***************************************************************************)
(* Proofs about Server, for every value of its constants: any environment, *)
(* any requests and file contents, any number of users.                    *)
(*                                                                         *)
(* A handler rebinds the attributes of the services one by one, so what    *)
(* the services will hold when it is through (Soon) is what follows the    *)
(* settings at every step of it.  The two references to the mood service   *)
(* are rebound one after the other, with the same value (Rebinding).  A    *)
(* notice goes through users of whom none has heard (Fresh, Unheard).      *)
(***************************************************************************)
EXTENDS Server, SequenceTheorems, TLAPS

Moods == {"ingestionMood", "jobsMood"}
Others == {"ocr", "transcription", "preprocess", "formatter", "detector"}
Part == Moods \cup Others

\* The values an attribute may have.
Fits(p, v) ==
    /\ p = "ocr" => v \in Provider
    /\ p = "transcription" => v \in [prompted : BOOLEAN, context : Version]
    /\ p \in Moods => v \in Version \cup {Off}
    /\ p \in {"preprocess", "formatter", "detector"} => v \in BOOLEAN

\* What a handler has still to rebind: one attribute, or the two of the mood
\* service, of which the first may be done.
Rebinding ==
    \/ writes = <<>>
    \/ /\ writes = Write(writes[1].part, writes[1].value)
       /\ writes[1].part \in Others
       /\ Fits(writes[1].part, writes[1].value)
    \/ /\ writes = RebindMood(writes[1].value)
       /\ writes[1].value \in Version \cup {Off}
    \/ writes = Write("jobsMood", services.ingestionMood)

\* What the services hold once the handler is through.
After(w, s, p) ==
    IF w = <<>> THEN s[p]
    ELSE IF w[1].part = p THEN w[1].value
    ELSE IF Len(w) = 2 /\ w[2].part = p THEN w[2].value
    ELSE s[p]

Soon(p) == After(writes, services, p)

FollowsSoon(k) ==
    /\ k \in {"ocr_provider", "ocr_dual_pass"} => Soon("ocr").kind = OcrKind(cache)
    /\ k = "preprocess_images" => Soon("preprocess") = On(cache, k)
    /\ k = "enable_mood_scoring" => ((Soon("ingestionMood") # Off) = On(cache, k))
    /\ k = "transcript_formatting" => Soon("formatter") = On(cache, k)
    /\ k = "date_heading_detection" => Soon("detector") = Detects(cache)
    /\ k = "transcription_context_enabled" =>
          Soon("transcription").prompted = On(cache, k)

Idling == ~up => todo = <<>> /\ writes = <<>>

SettingsInv ==
    /\ SettingsType
    /\ Rebinding
    /\ Idling
    /\ up => /\ Soon("ingestionMood") = Soon("jobsMood")
             /\ Soon("transcription").prompted = On(Config, "transcription_context_enabled")
             /\ \A k \in Key \ adrift : FollowsSoon(k)
             /\ \A k \in Key \ unsaved : cache[k] = table[k]

-----------------------------------------------------------------------------
(* Notices.                                                                *)

\* Nobody to whom the worker has still to turn has heard of the job.
Fresh ==
    /\ \A u \in User : told[u] <= 1
    /\ \A u \in notices["worker"].left : told[u] = 0
    /\ notices["worker"].topic = "job_failed" =>
          /\ notices["worker"].left \subseteq {notices["worker"].owner}
          /\ \A u \in User \ {notices["worker"].owner} : told[u] = 0

Alerting == notices["poller"].topic = "admin_health_alert"

\* Nobody has heard of a component the poller last saw well, but those to whom
\* it has turned with the present alert.
Unheard ==
    /\ \A c \in Component, u \in User : alerted[c][u] <= 1
    /\ notices["poller"] = Quiet \/ Alerting
    /\ Alerting => /\ seen # <<>> /\ Degraded(seen[1])
                   /\ \A u \in notices["poller"].left : alerted[seen[1].name][u] = 0
    /\ \A c \in Component : last[c] = "ok" /\ ~(Alerting /\ c = seen[1].name) =>
          \A u \in User : alerted[c][u] = 0

NotifyInv == NotifyType /\ seen \in Seq([name : Component, status : Status]) /\ Fresh /\ Unheard

CheckRecord == [name : Component, status : Status]

LEMMA ComponentTyped ==
    /\ Component = {"sqlite", "chromadb", "disk"}
    /\ Len(Components) = 3 /\ Components \in Seq(Component)
    /\ \A i \in 1..Len(Components) : Components[i] \in Component
<1>1. Components = <<"sqlite", "chromadb", "disk">>
  BY NotificationsAssumption
<1>2. /\ Len(Components) = 3
      /\ Components[1] = "sqlite" /\ Components[2] = "chromadb" /\ Components[3] = "disk"
  BY <1>1
<1>3. \A i \in 1..Len(Components) : Components[i] \in Component
  BY DEF Component
<1>4. \A i \in 1..3 : i = 1 \/ i = 2 \/ i = 3
  OBVIOUS
<1>5. Component = {"sqlite", "chromadb", "disk"}
  BY <1>2, <1>4 DEF Component
<1> QED
  BY <1>1, <1>2, <1>3, <1>5

\* The first of the checks a cycle has still to look at.
LEMMA SeenTyped ==
    ASSUME NotifyInv, seen # <<>>
    PROVE  /\ seen[1] \in CheckRecord
           /\ Tail(seen) \in Seq(CheckRecord)
<1>1. seen \in Seq(CheckRecord)
  BY DEF NotifyInv, CheckRecord
<1> HIDE DEF CheckRecord
<1> QED
  BY <1>1, HeadTailProperties

LEMMA SeenParts ==
    ASSUME seen \in Seq(CheckRecord)
    PROVE  \A i \in 1..Len(seen) : seen[i] \in [name : Component, status : Status]
BY ElementOfSeq DEF CheckRecord

LEMMA InitNotices == NotifyInit => NotifyInv
<1> SUFFICES ASSUME NotifyInit PROVE NotifyInv
  OBVIOUS
<1>1. Quiet \in Notice /\ Quiet.left = {} /\ Quiet.topic = "none"
  BY DEF Quiet, Notice
<1>2. NotifyType
  BY <1>1, NotificationsAssumption DEF NotifyInit, NotifyType, Status, Thread
<1>3. Fresh /\ Unheard
  BY <1>1 DEF NotifyInit, Fresh, Unheard, Alerting, Thread
<1> QED
  BY <1>2, <1>3 DEF NotifyInv, NotifyInit

LEMMA StopNotices == NotifyInv /\ NotifyStop => NotifyInv'
<1> SUFFICES ASSUME NotifyInv, NotifyStop PROVE NotifyInv'
  OBVIOUS
<1>1. Quiet \in Notice /\ Quiet.left = {} /\ Quiet.topic = "none"
  BY DEF Quiet, Notice
<1>2. NotifyType'
  BY <1>1 DEF NotifyStop, NotifyInv, NotifyType, Status, Thread
<1>3. Fresh' /\ Unheard'
  BY <1>1 DEF NotifyStop, Fresh, Unheard, Alerting, Thread
<1> QED
  BY <1>2, <1>3 DEF NotifyInv, NotifyStop

\* What stays of the invariant when the notices do not move.
LEMMA SameNotices ==
    ASSUME NotifyInv, NotifyType', UNCHANGED <<seen, notices, last, alerted, told>>
    PROVE  NotifyInv'
BY DEF NotifyInv, Fresh, Unheard, Alerting, Degraded

LEMMA AilNotices ==
    ASSUME NotifyInv, NEW c \in Component, NEW s \in Status, HealthChanges(c, s)
    PROVE  NotifyInv'
<1>1. NotifyType'
  BY DEF HealthChanges, NotifyInv, NotifyType
<1> QED
  BY <1>1, SameNotices DEF HealthChanges

LEMMA PreferenceNotices ==
    ASSUME NotifyInv, NEW u \in User, NEW topic \in Topic, NEW on \in BOOLEAN,
           SetTopic(u, topic, on) \/ SetCredentials(u, on) \/ SetAdmin(u, on)
    PROVE  NotifyInv'
<1>1. NotifyType'
  BY DEF SetTopic, SetCredentials, SetAdmin, NotifyInv, NotifyType
<1> QED
  BY <1>1, SameNotices DEF SetTopic, SetCredentials, SetAdmin

\* The poller.
LEMMA PollNotices == NotifyInv /\ Poll => NotifyInv'
<1> SUFFICES ASSUME NotifyInv, Poll PROVE NotifyInv'
  OBVIOUS
<1>1. ASSUME NEW i \in 1..Len(Components)
      PROVE  [name |-> Components[i], status |-> health[Components[i]]] \in CheckRecord
  BY ComponentTyped DEF CheckRecord, NotifyInv, NotifyType
<1>2. seen' \in Seq(CheckRecord)
  <2>1. Len(Components) \in Nat
    BY ComponentTyped
  <2> QED
    BY <1>1, <2>1 DEF Poll
<1>3. NotifyType'
  BY <1>2, ElementOfSeq DEF Poll, NotifyInv, NotifyType, CheckRecord
<1>4. Fresh' /\ Unheard'
  BY DEF Poll, NotifyInv, Fresh, Unheard, Alerting, Quiet
<1> QED
  BY <1>2, <1>3, <1>4 DEF NotifyInv, CheckRecord

LEMMA NotedTyped ==
    ASSUME NotifyInv, seen # <<>>, last' = Noted(seen[1])
    PROVE  /\ last' \in [Component -> Status]
           /\ last'[seen[1].name] = seen[1].status
           /\ \A c \in Component \ {seen[1].name} : last'[c] = last[c]
BY SeenTyped DEF Noted, CheckRecord, NotifyInv, NotifyType

LEMMA LookAwayNotices == NotifyInv /\ LookAway => NotifyInv'
<1> SUFFICES ASSUME NotifyInv, LookAway PROVE NotifyInv'
  OBVIOUS
<1> DEFINE c == seen[1].name
<1>1. /\ c \in Component /\ seen[1].status \in Status
      /\ seen' \in Seq(CheckRecord)
      /\ last' \in [Component -> Status] /\ last'[c] = seen[1].status
      /\ \A d \in Component \ {c} : last'[d] = last[d]
  BY SeenTyped, NotedTyped DEF LookAway, CheckRecord
<1>2. /\ alerted' \in [Component -> [User -> Nat]]
      /\ \A d \in Component \ {c} : alerted'[d] = alerted[d]
      /\ seen[1].status = "ok" => \A u \in User : alerted'[c][u] = 0
      /\ seen[1].status # "ok" => alerted' = alerted
  BY <1>1 DEF LookAway, NotifyInv, NotifyType
<1>3. ~Alerting /\ ~Alerting' /\ notices' = notices
  BY DEF LookAway, Alerting, Quiet
<1> HIDE DEF c
<1>4. NotifyType'
  BY <1>1, <1>2, ElementOfSeq DEF LookAway, NotifyInv, NotifyType, CheckRecord
<1>5. Unheard'
  <2>1. ASSUME NEW d \in Component, NEW u \in User PROVE alerted'[d][u] <= 1
    <3>1. alerted[d][u] <= 1
      BY DEF NotifyInv, Unheard
    <3>2. alerted'[d][u] = 0 \/ alerted'[d] = alerted[d]
      BY <1>2
    <3> QED
      BY <3>1, <3>2
  <2>2. ASSUME NEW d \in Component, last'[d] = "ok", NEW u \in User PROVE alerted'[d][u] = 0
    BY <1>1, <1>2, <1>3, <2>2 DEF NotifyInv, Unheard
  <2> QED
    BY <1>3, <2>1, <2>2 DEF LookAway, Unheard, Alerting, Quiet
<1>6. Fresh'
  BY DEF LookAway, NotifyInv, Fresh
<1> QED
  BY <1>1, <1>4, <1>5, <1>6 DEF NotifyInv, CheckRecord

LEMMA RaiseNotices == NotifyInv /\ RaiseAlert => NotifyInv'
<1> SUFFICES ASSUME NotifyInv, RaiseAlert PROVE NotifyInv'
  OBVIOUS
<1> DEFINE n == [topic |-> "admin_health_alert", left |-> admins, owner |-> 0]
<1>1. n \in Notice
  BY DEF Notice, Topic, NotifyInv, NotifyType
<1>2. notices' = [notices EXCEPT !["poller"] = n]
  BY DEF RaiseAlert
<1>3. n.topic = "admin_health_alert" /\ n.left = admins
  OBVIOUS
<1> HIDE DEF n
<1>4. notices'["poller"] = n /\ notices'["worker"] = notices["worker"]
  BY <1>2 DEF Thread, NotifyInv, NotifyType
<1>5. NotifyType'
  BY <1>1, <1>2 DEF RaiseAlert, NotifyInv, NotifyType, Thread
<1>6. Fresh'
  BY <1>4 DEF RaiseAlert, NotifyInv, Fresh
<1>7. Unheard'
  <2>1. seen[1] \in CheckRecord /\ admins \subseteq User
    BY SeenTyped DEF RaiseAlert, NotifyInv, NotifyType
  <2>2. ~Alerting /\ Alerting'
    BY <1>3, <1>4 DEF RaiseAlert, Alerting, Quiet
  <2> QED
    BY <1>3, <1>4, <2>1, <2>2 DEF RaiseAlert, NotifyInv, Unheard, Degraded, Quiet, CheckRecord
<1> QED
  BY <1>5, <1>6, <1>7 DEF NotifyInv, RaiseAlert

LEMMA EndAlertNotices == NotifyInv /\ EndAlert => NotifyInv'
<1> SUFFICES ASSUME NotifyInv, EndAlert PROVE NotifyInv'
  OBVIOUS
<1> DEFINE c == seen[1].name
<1>0. Alerting /\ seen # <<>> /\ Degraded(seen[1])
  BY DEF EndAlert, Alerting, NotifyInv, Unheard
<1>1. /\ c \in Component /\ seen[1].status # "ok"
      /\ seen' \in Seq(CheckRecord)
      /\ last' \in [Component -> Status] /\ last'[c] = seen[1].status
      /\ \A d \in Component \ {c} : last'[d] = last[d]
  BY <1>0, SeenTyped, NotedTyped DEF EndAlert, CheckRecord, Degraded
<1>2. Quiet \in Notice /\ Quiet.left = {} /\ Quiet.topic = "none"
  BY DEF Quiet, Notice
<1>3. notices'["poller"] = Quiet /\ notices'["worker"] = notices["worker"]
  BY DEF EndAlert, NotifyInv, NotifyType, Thread
<1> HIDE DEF c
<1>4. NotifyType'
  BY <1>1, <1>2, ElementOfSeq DEF EndAlert, NotifyInv, NotifyType, CheckRecord, Thread
<1>5. Fresh'
  BY <1>3 DEF EndAlert, NotifyInv, Fresh
<1>6. Unheard'
  BY <1>0, <1>1, <1>2, <1>3 DEF EndAlert, NotifyInv, Unheard, Alerting, c
<1> QED
  BY <1>1, <1>4, <1>5, <1>6 DEF NotifyInv, CheckRecord

LEMMA TellAdminNotices ==
    ASSUME NotifyInv, NEW u \in User, TellAdmin(u)
    PROVE  NotifyInv'
<1> DEFINE n == [notices["poller"] EXCEPT !.left = notices["poller"].left \ {u}]
           c == seen[1].name
<1>0. notices["poller"] \in Notice
  BY DEF NotifyInv, NotifyType, Thread
<1>1. /\ n \in Notice /\ n.topic = notices["poller"].topic
      /\ n.left = notices["poller"].left \ {u}
  BY <1>0 DEF Notice
<1>2. notices' = [notices EXCEPT !["poller"] = n]
  BY DEF TellAdmin
<1> HIDE DEF n
<1>3. notices'["poller"] = n /\ notices'["worker"] = notices["worker"]
  BY <1>2 DEF Thread, NotifyInv, NotifyType
<1>4. Alerting /\ seen # <<>> /\ u \in notices["poller"].left
  BY DEF TellAdmin, NotifyInv, Unheard, Quiet
<1>5. c \in Component
  BY <1>4, SeenTyped DEF CheckRecord
<1>6. alerted[c][u] = 0
  BY <1>4 DEF NotifyInv, Unheard
<1> HIDE DEF c
<1>7. /\ alerted' \in [Component -> [User -> Nat]]
      /\ alerted'[c][u] \in {0, 1}
      /\ \A v \in User \ {u} : alerted'[c][v] = alerted[c][v]
      /\ \A d \in Component \ {c} : alerted'[d] = alerted[d]
  <2>1. /\ alerted \in [Component -> [User -> Nat]]
        /\ \/ alerted' = [alerted EXCEPT ![c][u] = alerted[c][u] + 1]
           \/ alerted' = alerted
    BY DEF TellAdmin, NotifyInv, NotifyType, c
  <2> QED
    BY <1>5, <1>6, <2>1
<1>8. NotifyType'
  BY <1>1, <1>2, <1>7 DEF TellAdmin, NotifyInv, NotifyType, Thread
<1>9. Fresh'
  BY <1>3 DEF TellAdmin, NotifyInv, Fresh
<1>10. Unheard'
  <2>1. Alerting' /\ seen' = seen /\ last' = last
    BY <1>1, <1>3, <1>4 DEF TellAdmin, Alerting
  <2>2. ASSUME NEW d \in Component, NEW v \in User PROVE alerted'[d][v] <= 1
    <3>1. alerted[d][v] <= 1
      BY DEF NotifyInv, Unheard
    <3>2. alerted'[d][v] = alerted[d][v] \/ alerted'[d][v] \in {0, 1}
      BY <1>7
    <3> QED
      BY <3>1, <3>2
  <2>3. ASSUME NEW v \in notices'["poller"].left PROVE alerted'[c][v] = 0
    <3>1. v \in notices["poller"].left /\ v # u /\ v \in User
      BY <1>0, <1>1, <1>3 DEF Notice
    <3>2. alerted[c][v] = 0
      BY <1>4, <3>1 DEF NotifyInv, Unheard, c
    <3> QED
      BY <1>7, <3>1, <3>2
  <2>4. ASSUME NEW d \in Component, last[d] = "ok", d # c, NEW v \in User
        PROVE  alerted'[d][v] = 0
    <3>1. alerted[d][v] = 0
      BY <2>4 DEF NotifyInv, Unheard, c
    <3> QED
      BY <1>7, <2>4, <3>1
  <2>5. Degraded(seen[1])
    BY <1>4 DEF NotifyInv, Unheard
  <2> QED
    BY <1>4, <2>1, <2>2, <2>3, <2>4, <2>5 DEF Unheard, Degraded, c
<1> QED
  BY <1>8, <1>9, <1>10 DEF NotifyInv, TellAdmin

\* The worker.  A notice of its own leaves the poller's as it is.
LEMMA WorkerNotice ==
    ASSUME NotifyInv, NEW n \in Notice, notices' = [notices EXCEPT !["worker"] = n],
           UNCHANGED <<health, last, seen, muted, reachable, admins, alerted>>,
           told' \in [User -> Nat], \A u \in User : told'[u] <= 1,
           \A u \in n.left : told'[u] = 0,
           n.topic = "job_failed" =>
               n.left \subseteq {n.owner} /\ \A u \in User \ {n.owner} : told'[u] = 0
    PROVE  NotifyInv'
<1>1. notices'["worker"] = n /\ notices'["poller"] = notices["poller"]
  BY DEF Thread, NotifyInv, NotifyType
<1>2. NotifyType'
  BY DEF NotifyInv, NotifyType
<1>3. Fresh'
  BY <1>1 DEF Fresh
<1>4. Unheard'
  BY <1>1 DEF NotifyInv, Unheard, Alerting, Degraded
<1> QED
  BY <1>2, <1>3, <1>4 DEF NotifyInv

LEMMA FailJobNotices ==
    ASSUME NotifyInv, NEW u \in User, FailJob(u)
    PROVE  NotifyInv'
<1> DEFINE n == [topic |-> "job_failed", left |-> {u}, owner |-> u]
<1>1. n \in Notice /\ n.topic = "job_failed" /\ n.left = {u} /\ n.owner = u
  BY DEF Notice, Topic
<1>2. notices' = [notices EXCEPT !["worker"] = n] /\ told' = [v \in User |-> 0]
  BY DEF FailJob
<1> HIDE DEF n
<1>3. /\ told' \in [User -> Nat] /\ \A v \in User : told'[v] = 0
      /\ \A v \in User : told'[v] <= 1
  BY <1>2
<1>4. UNCHANGED <<health, last, seen, muted, reachable, admins, alerted>>
  BY DEF FailJob
<1>5. (\A v \in n.left : told'[v] = 0) /\ \A v \in User \ {n.owner} : told'[v] = 0
  BY <1>1, <1>3
<1> QED
  BY <1>1, <1>2, <1>3, <1>4, <1>5, WorkerNotice

LEMMA QuietNotices ==
    ASSUME NotifyInv, notices' = [notices EXCEPT !["worker"] = Quiet],
           UNCHANGED <<health, last, seen, muted, reachable, admins, alerted, told>>
    PROVE  NotifyInv'
<1>1. Quiet \in Notice /\ Quiet.left = {} /\ Quiet.topic = "none"
  BY DEF Quiet, Notice
<1>2. told' \in [User -> Nat] /\ \A u \in User : told'[u] <= 1
  BY DEF NotifyInv, NotifyType, Fresh
<1>3. UNCHANGED <<health, last, seen, muted, reachable, admins, alerted>>
  OBVIOUS
<1>4. PICK n \in Notice : n = Quiet
  BY <1>1
<1> QED
  BY <1>1, <1>2, <1>3, <1>4, WorkerNotice

LEMMA TurnNotices == NotifyInv /\ TurnToAdmins => NotifyInv'
<1> SUFFICES ASSUME NotifyInv, TurnToAdmins PROVE NotifyInv'
  OBVIOUS
<1> DEFINE w == notices["worker"]
           n == [w EXCEPT !.topic = "admin_job_failed", !.left = OtherAdmins(w.owner)]
<1>1. w \in Notice /\ admins \subseteq User
  BY DEF NotifyInv, NotifyType, Thread
<1>2. n \in Notice /\ n.topic = "admin_job_failed" /\ n.left = admins \ {w.owner}
  BY <1>1 DEF Notice, Topic, OtherAdmins
<1>3. \/ notices' = [notices EXCEPT !["worker"] = n]
      \/ notices' = [notices EXCEPT !["worker"] = Quiet]
  BY DEF TurnToAdmins
<1>4. /\ told \in [User -> Nat] /\ \A u \in User : told[u] <= 1
      /\ \A u \in User \ {w.owner} : told[u] = 0
  BY DEF TurnToAdmins, NotifyInv, NotifyType, Fresh
<1>5. UNCHANGED <<health, last, seen, muted, reachable, admins, alerted, told>>
  BY DEF TurnToAdmins
<1> HIDE DEF n, w
<1>6. \A u \in n.left : told[u] = 0
  BY <1>1, <1>2, <1>4
<1>7. CASE notices' = [notices EXCEPT !["worker"] = n]
  BY <1>2, <1>4, <1>5, <1>6, <1>7, WorkerNotice
<1>8. CASE notices' = [notices EXCEPT !["worker"] = Quiet]
  BY <1>5, <1>8, QuietNotices
<1> QED
  BY <1>3, <1>7, <1>8

LEMMA TellOfNotices ==
    ASSUME NotifyInv, NEW u \in User, TellOf(u)
    PROVE  NotifyInv'
<1> DEFINE w == notices["worker"]
           n == [w EXCEPT !.left = w.left \ {u}]
<1>1. w \in Notice
  BY DEF NotifyInv, NotifyType, Thread
<1>2. n \in Notice /\ n.topic = w.topic /\ n.left = w.left \ {u} /\ n.owner = w.owner
  BY <1>1 DEF Notice
<1>3. notices' = [notices EXCEPT !["worker"] = n]
  BY DEF TellOf
<1>4. /\ told \in [User -> Nat] /\ \A v \in User : told[v] <= 1
      /\ \A v \in w.left : told[v] = 0
      /\ w.topic = "job_failed" =>
            w.left \subseteq {w.owner} /\ \A v \in User \ {w.owner} : told[v] = 0
      /\ u \in w.left
      /\ told' = [told EXCEPT ![u] = told[u] + 1] \/ told' = told
  BY DEF TellOf, NotifyInv, NotifyType, Fresh
<1>5. UNCHANGED <<health, last, seen, muted, reachable, admins, alerted>>
  BY DEF TellOf
<1>6. w.left \subseteq User
  BY <1>1 DEF Notice
<1> HIDE DEF n, w
<1>7. /\ told' \in [User -> Nat] /\ told'[u] <= 1
      /\ \A v \in User \ {u} : told'[v] = told[v]
  BY <1>4
<1>8. (\A v \in User : told'[v] <= 1) /\ \A v \in n.left : told'[v] = 0
  BY <1>2, <1>4, <1>6, <1>7
<1>9. n.topic = "job_failed" =>
          n.left \subseteq {n.owner} /\ \A v \in User \ {n.owner} : told'[v] = 0
  BY <1>2, <1>4, <1>7
<1> QED
  BY <1>2, <1>3, <1>5, <1>7, <1>8, <1>9, WorkerNotice

LEMMA NotifyStep == NotifyInv /\ [Next]_vars => NotifyInv'
<1> SUFFICES ASSUME NotifyInv, [Next]_vars PROVE NotifyInv'
  OBVIOUS
<1>0. UNCHANGED notifyVars => NotifyInv'
  BY SameNotices DEF notifyVars, NotifyInv, NotifyType
<1>1. CASE ChangeSetting \/ Serve \/ ComeUp \/ UNCHANGED vars
  BY <1>0, <1>1 DEF ChangeSetting, Serve, ComeUp, vars
<1>2. CASE Watch
  BY <1>2, PollNotices, LookAwayNotices, RaiseNotices, EndAlertNotices, TellAdminNotices
  DEF Watch, PollerStep
<1>3. CASE Report
  BY <1>3, TurnNotices, QuietNotices, TellOfNotices DEF Report, WorkerStep, EndNotice
<1>4. CASE Ask
  <2>1. Topic # {} /\ "job_failed" \in Topic
    BY DEF Topic
  <2> QED
    BY <1>4, <2>1, PreferenceNotices, FailJobNotices DEF Ask, ClientStep
<1>5. CASE Ail
  BY <1>5, AilNotices DEF Ail
<1>6. CASE GoDown
  BY <1>6, StopNotices DEF GoDown
<1> QED
  BY <1>1, <1>2, <1>3, <1>4, <1>5, <1>6 DEF Next

\* Nobody hears of anything twice, for any number of users: not of an outage,
\* however long it lasts and whatever other components do, and not of a failed
\* job, as its owner and as an administrator, though the administrators change
\* between the notices of poll_once and notify_admin_job_failed.
THEOREM EachToldOnce == Spec => []ToldOnce
<1>1. Init => NotifyInv
  BY InitNotices DEF Init
<1>2. NotifyInv => ToldOnce
  BY DEF NotifyInv, Fresh, Unheard, ToldOnce
<1> QED
  BY <1>1, <1>2, NotifyStep, PTL DEF Spec

-----------------------------------------------------------------------------
(* Settings.                                                               *)

\* The attributes of the services, one by one.
LEMMA ServicesSplit ==
    ASSUME NEW s
    PROVE  s \in Services <=>
               /\ s = [p \in Part |-> s[p]]
               /\ \A p \in Part : Fits(p, s[p])
<1>1. ASSUME s \in Services
      PROVE  s = [p \in Part |-> s[p]] /\ \A p \in Part : Fits(p, s[p])
  BY <1>1 DEF Services, Fits, Part, Moods, Others
<1>2. ASSUME s = [p \in Part |-> s[p]], \A p \in Part : Fits(p, s[p])
      PROVE  s \in Services
  <2>1. /\ Fits("ocr", s["ocr"]) /\ Fits("transcription", s["transcription"])
        /\ Fits("ingestionMood", s["ingestionMood"]) /\ Fits("jobsMood", s["jobsMood"])
        /\ Fits("preprocess", s["preprocess"]) /\ Fits("formatter", s["formatter"])
        /\ Fits("detector", s["detector"])
    BY <1>2 DEF Part, Moods, Others
  <2>2. /\ s["ocr"] \in Provider
        /\ s["transcription"] \in [prompted : BOOLEAN, context : Version]
        /\ s["ingestionMood"] \in Version \cup {Off} /\ s["jobsMood"] \in Version \cup {Off}
        /\ s["preprocess"] \in BOOLEAN /\ s["formatter"] \in BOOLEAN
        /\ s["detector"] \in BOOLEAN
    BY <2>1 DEF Fits, Moods
  <2> QED
    BY <1>2, <2>2 DEF Services, Part, Moods, Others
<1> QED
  BY <1>1, <1>2

Put(t, p, v) == [t EXCEPT ![p] = v]

LEMMA ServicesSet ==
    ASSUME NEW t \in Services, NEW p \in Part, NEW v, Fits(p, v)
    PROVE  /\ Put(t, p, v) \in Services
           /\ \A q \in Part : Put(t, p, v)[q] = IF q = p THEN v ELSE t[q]
<1> DEFINE s == Put(t, p, v)
<1>1. t = [q \in Part |-> t[q]] /\ \A q \in Part : Fits(q, t[q])
  BY ServicesSplit
<1> HIDE DEF Part
<1>2. s = [q \in Part |-> IF q = p THEN v ELSE t[q]]
  BY <1>1 DEF Put
<1>3. \A q \in Part : s[q] = IF q = p THEN v ELSE t[q]
  BY <1>2
<1>4. s = [q \in Part |-> s[q]] /\ \A q \in Part : Fits(q, s[q])
  BY <1>1, <1>2, <1>3
<1>5. s \in Services
  BY <1>4, ServicesSplit
<1> QED
  BY <1>3, <1>5

LEMMA AfterNone ==
    ASSUME NEW s, NEW p
    PROVE  After(<<>>, s, p) = s[p]
BY DEF After

LEMMA WriteOne ==
    ASSUME NEW q, NEW x
    PROVE  /\ Write(q, x) # <<>> /\ Len(Write(q, x)) = 1
           /\ Write(q, x)[1].part = q /\ Write(q, x)[1].value = x
           /\ Tail(Write(q, x)) = <<>>
BY DEF Write

LEMMA AfterOne ==
    ASSUME NEW s, NEW p, NEW q, NEW x
    PROVE  After(Write(q, x), s, p) = IF p = q THEN x ELSE s[p]
BY WriteOne DEF After

LEMMA Pair ==
    ASSUME NEW a, NEW b
    PROVE  <<a>> \o <<b>> = <<a, b>>
<1> DEFINE S == {a, b}
<1>1. <<a>> \in Seq(S) /\ <<b>> \in Seq(S) /\ <<a, b>> \in Seq(S)
  OBVIOUS
<1>2. Len(<<a>>) = 1 /\ Len(<<b>>) = 1 /\ Len(<<a, b>>) = 2
  OBVIOUS
<1> HIDE DEF S
<1>3. /\ <<a>> \o <<b>> \in Seq(S) /\ Len(<<a>> \o <<b>>) = 2
      /\ \A i \in 1..2 : (<<a>> \o <<b>>)[i] = IF i <= 1 THEN <<a>>[i] ELSE <<b>>[i - 1]
  BY <1>1, <1>2, ConcatProperties
<1>4. \A i \in 1..2 : (<<a>> \o <<b>>)[i] = <<a, b>>[i]
  <2>1. (<<a>> \o <<b>>)[1] = a /\ (<<a>> \o <<b>>)[2] = b
    BY <1>3
  <2>2. \A i \in 1..2 : i = 1 \/ i = 2
    OBVIOUS
  <2>3. <<a, b>>[1] = a /\ <<a, b>>[2] = b
    OBVIOUS
  <2> QED
    BY <2>1, <2>2, <2>3
<1> QED
  BY <1>1, <1>2, <1>3, <1>4, SeqEqual

LEMMA WriteMood ==
    ASSUME NEW x
    PROVE  /\ RebindMood(x) # <<>> /\ Len(RebindMood(x)) = 2
           /\ RebindMood(x)[1].part = "ingestionMood" /\ RebindMood(x)[1].value = x
           /\ RebindMood(x)[2].part = "jobsMood" /\ RebindMood(x)[2].value = x
           /\ Tail(RebindMood(x)) = Write("jobsMood", x)
<1> DEFINE a == [part |-> "ingestionMood", value |-> x]
           b == [part |-> "jobsMood", value |-> x]
<1>1. RebindMood(x) = <<a>> \o <<b>> /\ Write("jobsMood", x) = <<b>>
  BY DEF RebindMood, Write
<1>2. a.part = "ingestionMood" /\ a.value = x /\ b.part = "jobsMood" /\ b.value = x
  OBVIOUS
<1> HIDE DEF a, b
<1>3. <<a>> \o <<b>> = <<a, b>>
  BY Pair
<1>4. Tail(<<a, b>>) = <<b>> /\ Len(<<a, b>>) = 2 /\ <<a, b>>[1] = a /\ <<a, b>>[2] = b
  OBVIOUS
<1> DEFINE w == RebindMood(x)
<1>5. w = <<a, b>>
  BY <1>1, <1>3
<1> HIDE DEF w
<1>6. Tail(w) = <<b>> /\ Len(w) = 2 /\ w[1] = a /\ w[2] = b /\ w # <<>>
  BY <1>4, <1>5
<1>7. w[1].part = "ingestionMood" /\ w[1].value = x /\ w[2].part = "jobsMood" /\ w[2].value = x
  BY <1>2, <1>6
<1>8. Tail(w) = Write("jobsMood", x)
  BY <1>1, <1>6
<1> QED
  BY <1>6, <1>7, <1>8 DEF w

LEMMA AfterMood ==
    ASSUME NEW s, NEW p, NEW x
    PROVE  After(RebindMood(x), s, p) = IF p \in Moods THEN x ELSE s[p]
BY WriteMood DEF After, Moods

\* What a handler sets out to rebind.
LEMMA NoneDue ==
    ASSUME writes = <<>>, UNCHANGED <<services, writes>>
    PROVE  /\ Rebinding'
           /\ \A i \in 1..Len(writes') : writes'[i].part \in Part
           /\ \A p \in Part : Soon(p)' = Soon(p)
BY DEF Rebinding, Soon

LEMMA OneDue ==
    ASSUME writes = <<>>, UNCHANGED services, NEW q \in Others, NEW x, Fits(q, x),
           writes' = Write(q, x)
    PROVE  /\ Rebinding'
           /\ \A i \in 1..Len(writes') : writes'[i].part \in Part
           /\ \A p \in Part : Soon(p)' = IF p = q THEN x ELSE Soon(p)
<1>1. writes'[1].part = q /\ writes'[1].value = x /\ Len(writes') = 1
  BY WriteOne
<1>2. Rebinding'
  BY <1>1 DEF Rebinding
<1>3. \A p \in Part : Soon(p)' = IF p = q THEN x ELSE Soon(p)
  BY AfterOne, AfterNone DEF Soon
<1> QED
  BY <1>1, <1>2, <1>3 DEF Part

LEMMA MoodDue ==
    ASSUME writes = <<>>, UNCHANGED services, NEW x \in Version \cup {Off},
           writes' = RebindMood(x)
    PROVE  /\ Rebinding'
           /\ \A i \in 1..Len(writes') : writes'[i].part \in Part
           /\ \A p \in Part : Soon(p)' = IF p \in Moods THEN x ELSE Soon(p)
<1>1. /\ writes'[1].value = x /\ Len(writes') = 2
      /\ writes'[1].part = "ingestionMood" /\ writes'[2].part = "jobsMood"
  BY WriteMood
<1>2. Rebinding'
  BY <1>1 DEF Rebinding
<1>3. \A p \in Part : Soon(p)' = IF p \in Moods THEN x ELSE Soon(p)
  BY AfterMood, AfterNone DEF Soon
<1>4. \A i \in 1..2 : i = 1 \/ i = 2
  OBVIOUS
<1> QED
  BY <1>1, <1>2, <1>3, <1>4 DEF Part, Moods

\* Rebinding an attribute changes nothing of what they will be.
LEMMA RebindSoon ==
    ASSUME SettingsInv, Rebind
    PROVE  /\ Rebinding'
           /\ services' \in Services
           /\ \A i \in 1..Len(writes') : writes'[i].part \in Part
           /\ \A p \in Part : Soon(p)' = Soon(p)
<1>0. /\ services \in Services /\ writes # <<>> /\ Rebinding
      /\ services' = [services EXCEPT ![writes[1].part] = writes[1].value]
      /\ writes' = Tail(writes)
  BY DEF SettingsInv, SettingsType, Rebind
<1>s. services.ingestionMood \in Version \cup {Off}
  BY <1>0 DEF Services
<1>n. PICK s : s = services'
  OBVIOUS
<1>1. ASSUME NEW q \in Others, NEW x, Fits(q, x), writes = Write(q, x)
      PROVE  /\ Rebinding' /\ services' \in Services /\ writes' = <<>>
             /\ \A p \in Part : Soon(p)' = Soon(p)
  <2>1. writes' = <<>> /\ services' = [services EXCEPT ![q] = x]
    BY <1>0, <1>1, WriteOne
  <2>2. q \in Part
    BY DEF Part
  <2>3. s \in Services /\ \A p \in Part : s[p] = IF p = q THEN x ELSE services[p]
    <3>1. services \in Services /\ s = Put(services, q, x) /\ Fits(q, x)
      BY <1>0, <1>1, <1>n, <2>1 DEF Put
    <3> QED
      BY <2>2, <3>1, ServicesSet
  <2>4. \A p \in Part : Soon(p)' = Soon(p)
    <3>1. \A p \in Part : Soon(p)' = s[p]
      BY <1>n, <2>1, AfterNone DEF Soon
    <3>2. \A p \in Part : Soon(p) = IF p = q THEN x ELSE services[p]
      BY <1>1, AfterOne DEF Soon
    <3> QED
      BY <2>3, <3>1, <3>2
  <2> QED
    BY <1>n, <2>1, <2>3, <2>4 DEF Rebinding
<1>2. ASSUME NEW x \in Version \cup {Off}, writes = RebindMood(x)
      PROVE  /\ Rebinding' /\ services' \in Services /\ writes' = Write("jobsMood", x)
             /\ \A p \in Part : Soon(p)' = Soon(p)
  <2>1. writes' = Write("jobsMood", x) /\ services' = [services EXCEPT !["ingestionMood"] = x]
    BY <1>0, <1>2, WriteMood
  <2>2. "ingestionMood" \in Part /\ Fits("ingestionMood", x)
    BY DEF Part, Moods, Fits
  <2>3. /\ s \in Services
        /\ \A p \in Part : s[p] = IF p = "ingestionMood" THEN x ELSE services[p]
    <3>1. services \in Services /\ s = Put(services, "ingestionMood", x)
      BY <1>0, <1>n, <2>1 DEF Put
    <3> QED
      BY <2>2, <3>1, ServicesSet
  <2>4. \A p \in Part : Soon(p)' = Soon(p)
    <3>0. \A p \in Part : Soon(p)' = After(Write("jobsMood", x), s, p)
      BY <1>n, <2>1 DEF Soon
    <3>1. \A p \in Part : Soon(p)' = IF p = "jobsMood" THEN x ELSE s[p]
      BY <3>0, AfterOne
    <3>2. \A p \in Part : Soon(p) = IF p \in Moods THEN x ELSE services[p]
      BY <1>2, AfterMood DEF Soon
    <3> QED
      BY <2>3, <3>1, <3>2 DEF Moods
  <2>5. services'.ingestionMood = x
    BY <1>n, <2>2, <2>3
  <2> QED
    BY <1>n, <2>1, <2>3, <2>4, <2>5 DEF Rebinding
<1>3. CASE writes = Write("jobsMood", services.ingestionMood)
  <2>0. PICK x : x = services.ingestionMood
    OBVIOUS
  <2>1. writes' = <<>> /\ services' = [services EXCEPT !["jobsMood"] = x]
    BY ZenonT(40), <1>0, <1>3, <2>0, WriteOne
  <2>2. "jobsMood" \in Part /\ Fits("jobsMood", x)
    BY <1>s, <2>0 DEF Part, Moods, Fits, Others
  <2>3. /\ s \in Services
        /\ \A p \in Part : s[p] = IF p = "jobsMood" THEN x ELSE services[p]
    <3>1. services \in Services /\ s = Put(services, "jobsMood", x)
      BY <1>0, <1>n, <2>1 DEF Put
    <3> QED
      BY <2>2, <3>1, ServicesSet
  <2>4. \A p \in Part : Soon(p)' = Soon(p)
    <3>1. \A p \in Part : Soon(p)' = s[p]
      BY <1>n, <2>1, AfterNone DEF Soon
    <3>2. \A p \in Part : Soon(p) = IF p = "jobsMood" THEN x ELSE services[p]
      BY <1>3, <2>0, AfterOne DEF Soon
    <3> QED
      BY <2>3, <3>1, <3>2
  <2> QED
    BY <1>n, <2>1, <2>3, <2>4 DEF Rebinding
<1>4. \A i \in 1..Len(writes') : writes' = <<>> \/ writes' = Write("jobsMood", writes'[1].value)
          => writes'[i].part \in Part
  BY WriteOne DEF Part, Moods
<1>5. CASE /\ writes = Write(writes[1].part, writes[1].value)
           /\ writes[1].part \in Others
           /\ Fits(writes[1].part, writes[1].value)
  BY <1>1, <1>5
<1>6. CASE writes = RebindMood(writes[1].value) /\ writes[1].value \in Version \cup {Off}
  <2>1. writes' = Write("jobsMood", writes[1].value)
    BY <1>2, <1>6
  <2>2. \A i \in 1..Len(writes') : writes'[i].part \in Part
    BY <2>1, WriteOne DEF Part, Moods
  <2> QED
    BY <1>2, <1>6, <2>2
<1>7. writes' = <<>> => \A i \in 1..Len(writes') : writes'[i].part \in Part
  OBVIOUS
<1>8. writes = Write("jobsMood", services.ingestionMood) => writes' = <<>>
  BY <1>0, WriteOne
<1> QED
  BY <1>0, <1>3, <1>5, <1>6, <1>7, <1>8 DEF Rebinding


-----------------------------------------------------------------------------
\* The parts a setting is about.
Governed(k) ==
    CASE k \in {"ocr_provider", "ocr_dual_pass"} -> {"ocr"}
      [] k = "preprocess_images" -> {"preprocess"}
      [] k = "enable_mood_scoring" -> Moods
      [] k = "transcript_formatting" -> {"formatter"}
      [] k = "date_heading_detection" -> {"detector"}
      [] k = "transcription_context_enabled" -> {"transcription"}
      [] OTHER -> {}

Followed == \A k \in Key \ adrift : FollowsSoon(k)
Kept == \A k \in Key \ unsaved : cache[k] = table[k]
MoodSoon == Soon("ingestionMood") = Soon("jobsMood")
PromptSoon == Soon("transcription").prompted = On(Config, "transcription_context_enabled")

LEMMA InvParts ==
    SettingsInv <=> /\ SettingsType /\ Rebinding /\ Idling
                    /\ up => MoodSoon /\ PromptSoon /\ Followed /\ Kept
BY DEF SettingsInv, MoodSoon, PromptSoon, Followed, Kept

LEMMA KeyCases ==
    ASSUME NEW k \in Key
    PROVE  \/ k = "ocr_provider" \/ k = "ocr_dual_pass" \/ k = "preprocess_images"
           \/ k = "enable_mood_scoring" \/ k = "transcript_formatting"
           \/ k = "date_heading_detection" \/ k = "transcription_context_enabled"
           \/ k = "registration_enabled"
BY DEF Key, Switches

LEMMA FollowsKept ==
    ASSUME NEW k \in Key, FollowsSoon(k),
           \A c \in Companions(k) : cache'[c] = cache[c],
           \A p \in Governed(k) : Soon(p)' = Soon(p)
    PROVE  FollowsSoon(k)'
<1>1. CASE k \in {"ocr_provider", "ocr_dual_pass"}
  <2>1. Soon("ocr")' = Soon("ocr")
    BY <1>1 DEF Governed
  <2>2. OcrKind(cache)' = OcrKind(cache)
    BY <1>1 DEF Companions, OcrKind, On
  <2> QED
    BY <1>1, <2>1, <2>2 DEF FollowsSoon
<1>2. CASE k = "preprocess_images"
  <2>1. Soon("preprocess")' = Soon("preprocess") /\ cache'[k] = cache[k]
    BY <1>2 DEF Governed, Companions
  <2> QED
    BY <1>2, <2>1 DEF FollowsSoon, On
<1>3. CASE k = "enable_mood_scoring"
  <2>1. Soon("ingestionMood")' = Soon("ingestionMood") /\ cache'[k] = cache[k]
    BY <1>3 DEF Governed, Moods, Companions
  <2> QED
    BY <1>3, <2>1 DEF FollowsSoon, On
<1>4. CASE k = "transcript_formatting"
  <2>1. Soon("formatter")' = Soon("formatter") /\ cache'[k] = cache[k]
    BY <1>4 DEF Governed, Companions
  <2> QED
    BY <1>4, <2>1 DEF FollowsSoon, On
<1>5. CASE k = "date_heading_detection"
  <2>1. Soon("detector")' = Soon("detector") /\ cache'[k] = cache[k]
    BY <1>5 DEF Governed, Companions
  <2> QED
    BY <1>5, <2>1 DEF FollowsSoon, Detects, On
<1>6. CASE k = "transcription_context_enabled"
  <2>1. Soon("transcription")' = Soon("transcription") /\ cache'[k] = cache[k]
    BY <1>6 DEF Governed, Companions
  <2> QED
    BY <1>6, <2>1 DEF FollowsSoon, On
<1>7. CASE k = "registration_enabled"
  BY <1>7 DEF FollowsSoon
<1> QED
  BY <1>1, <1>2, <1>3, <1>4, <1>5, <1>6, <1>7, KeyCases

\* Settings that are not companions have nothing in common.
LEMMA Apart ==
    ASSUME NEW k \in Key, NEW c \in Key \ Companions(k)
    PROVE  /\ k \notin Companions(c)
           /\ Governed(c) \subseteq Part
           /\ \A p \in Governed(c) : p \notin Governed(k)
<1>1. Governed(c) \subseteq Part
  BY KeyCases DEF Governed, Part, Moods, Others
<1>2. k \notin Companions(c)
  BY DEF Companions
<1>3. ASSUME NEW p \in Governed(c), p \in Governed(k)
      PROVE  FALSE
  BY <1>3, KeyCases DEF Governed, Moods, Companions
<1> QED
  BY <1>1, <1>2, <1>3

\* After a change of a setting, the others are followed as before.
LEMMA ChangeFollowed ==
    ASSUME Followed, NEW k \in Key,
           \A c \in Key \ {k} : cache'[c] = cache[c],
           \A p \in Part : p \in Governed(k) \/ Soon(p)' = Soon(p),
           adrift \ Companions(k) \subseteq adrift',
           \A c \in Companions(k) \ adrift' : FollowsSoon(c)'
    PROVE  Followed'
<1> SUFFICES ASSUME NEW c \in Key, c \notin adrift'
             PROVE  FollowsSoon(c)'
  BY DEF Followed
<1>1. CASE c \in Companions(k)
  BY <1>1
<1>2. CASE c \notin Companions(k)
  <2>1. FollowsSoon(c)
    BY <1>2 DEF Followed
  <2>2. \A d \in Companions(c) : d \in Key /\ d # k
    BY <1>2, Apart DEF Companions, Key, Switches
  <2>3. \A p \in Governed(c) : Soon(p)' = Soon(p)
    BY <1>2, Apart
  <2> QED
    BY <2>1, <2>2, <2>3, FollowsKept
<1> QED
  BY <1>1, <1>2

\* Where no setting changes, those that are not adrift are followed as before.
LEMMA AllFollowed ==
    ASSUME Followed, \A c \in Key : cache'[c] = cache[c],
           \A p \in Part : Soon(p)' = Soon(p),
           adrift \subseteq adrift'
    PROVE  Followed'
<1> SUFFICES ASSUME NEW c \in Key, c \notin adrift'
             PROVE  FollowsSoon(c)'
  BY DEF Followed
<1>1. FollowsSoon(c)
  BY DEF Followed
<1>2. Companions(c) \subseteq Key /\ Governed(c) \subseteq Part
  BY KeyCases DEF Companions, Key, Switches, Governed, Part, Moods, Others
<1> QED
  BY <1>1, <1>2, FollowsKept

Changes == Key \X (Value \cup {"invalid"})

LEMMA NextChangeTyped ==
    ASSUME SettingsType, todo # <<>>
    PROVE  /\ todo[1][1] \in Key
           /\ Tail(todo) \in Seq(Changes)
<1>1. todo \in Seq(Changes)
  BY DEF SettingsType, Changes
<1>2. Tail(todo) \in Seq(Changes) /\ todo[1] \in Changes
  <2> HIDE DEF Changes
  <2> QED
    BY <1>1
<1> QED
  BY <1>2 DEF Changes

LEMMA ValidValue ==
    ASSUME NEW k, NEW v, Valid(k, v)
    PROVE  v \in Value
BY DEF Valid, Value, Single

\* A setting in the table or in the cache takes a value that fits.
LEMMA StoreTyped ==
    ASSUME NEW t \in [Key -> Value], \A k \in Key : Valid(k, t[k]),
           NEW k \in Key, NEW v, Valid(k, v), NEW s, s = [t EXCEPT ![k] = v]
    PROVE  /\ s \in [Key -> Value] /\ \A c \in Key : Valid(c, s[c])
           /\ \A c \in Key : s[c] = IF c = k THEN v ELSE t[c]
<1>1. v \in Value
  BY ValidValue
<1>2. \A c \in Key : s[c] = IF c = k THEN v ELSE t[c]
  OBVIOUS
<1>3. s \in [Key -> Value]
  BY <1>1
<1> QED
  BY <1>2, <1>3

LEMMA PartsOfServices ==
    ASSUME services \in Services
    PROVE  DOMAIN services = Part
BY DEF Services, Part, Moods, Others

\* The type of the settings, of which a step changes some parts.
LEMMA TypeOfNext ==
    ASSUME table' \in [Key -> Value], cache' \in [Key -> Value],
           \A k \in Key : Valid(k, table'[k]) /\ Valid(k, cache'[k]),
           services' \in Services, files' \in Version, up' \in BOOLEAN,
           todo' \in Seq(Changes),
           \A i \in 1..Len(writes') : writes'[i].part \in Part,
           unsaved' \subseteq Key, adrift' \subseteq Key
    PROVE  SettingsType'
<1>1. DOMAIN services' = Part
  BY PartsOfServices DEF Services, Part, Moods, Others
<1> QED
  BY <1>1 DEF SettingsType, Changes, Valid

LEMMA WritesTyped ==
    ASSUME SettingsType
    PROVE  \A i \in 1..Len(writes) : writes[i].part \in Part
BY PartsOfServices DEF SettingsType

\* What a change of the OCR settings builds follows both of them.
LEMMA OcrBuilt ==
    ASSUME SettingsType, NEW k \in {"ocr_provider", "ocr_dual_pass"}, NEW v, Valid(k, v)
    PROVE  /\ BuildOcr(Overlaid(k, v)) \in Provider
           /\ BuildOcr(Overlaid(k, v)).kind =
                  OcrKind([cache EXCEPT ![k] = v])
<1>0. /\ Config \in [Key -> Value] /\ cache \in [Key -> Value] /\ files \in Version
      /\ \A c \in Key : Valid(c, cache[c])
  BY SettingsAssumption DEF SettingsType
<1>1. k \in Key /\ "ocr_provider" \in Key /\ "ocr_dual_pass" \in Key
  BY DEF Key, Switches
<1>2. PICK s : s = [cache EXCEPT ![k] = v]
  OBVIOUS
<1>3. PICK o : o = Overlaid(k, v)
  OBVIOUS
<1>4. /\ s["ocr_provider"] = IF k = "ocr_provider" THEN v ELSE cache["ocr_provider"]
      /\ s["ocr_dual_pass"] = IF k = "ocr_dual_pass" THEN v ELSE cache["ocr_dual_pass"]
  BY <1>0, <1>1, <1>2
<1>5. /\ o["ocr_provider"] = IF k = "ocr_provider" THEN v ELSE cache["ocr_provider"]
      /\ o["ocr_dual_pass"] = IF k = "ocr_dual_pass" THEN v ELSE cache["ocr_dual_pass"]
  BY <1>0, <1>1, <1>3 DEF Overlaid
<1>6. OcrKind(o) = OcrKind(s)
  BY <1>4, <1>5 DEF OcrKind, On
<1>7. o["ocr_provider"] \in Single
  BY <1>0, <1>1, <1>5 DEF Valid
<1>8. OcrKind(o) \in {"anthropic", "gemini", "both"}
  BY <1>7 DEF OcrKind, Single
<1> QED
  BY <1>0, <1>2, <1>3, <1>6, <1>8 DEF BuildOcr, Provider

-----------------------------------------------------------------------------
\* A change: the value is kept, and what it governs is rebuilt.
LEMMA ChangeStored ==
    ASSUME SettingsType, NEW k \in Key, NEW v, Valid(k, v),
           cache' = [cache EXCEPT ![k] = v],
           table' = [table EXCEPT ![k] = v] \/ table' = table
    PROVE  /\ cache' \in [Key -> Value] /\ table' \in [Key -> Value]
           /\ \A c \in Key : Valid(c, table'[c]) /\ Valid(c, cache'[c])
           /\ \A c \in Key : cache'[c] = IF c = k THEN v ELSE cache[c]
           /\ \A c \in Key \ {k} : table'[c] = table[c]
           /\ table' = [table EXCEPT ![k] = v] => table'[k] = v
<1>0. /\ table \in [Key -> Value] /\ cache \in [Key -> Value]
      /\ \A c \in Key : Valid(c, table[c]) /\ Valid(c, cache[c])
  BY DEF SettingsType
<1>1. PICK s : s = [cache EXCEPT ![k] = v]
  OBVIOUS
<1>2. PICK t : t = [table EXCEPT ![k] = v]
  OBVIOUS
<1>3. /\ s \in [Key -> Value] /\ \A c \in Key : Valid(c, s[c])
      /\ \A c \in Key : s[c] = IF c = k THEN v ELSE cache[c]
  BY <1>0, <1>1, StoreTyped
<1>4. /\ t \in [Key -> Value] /\ \A c \in Key : Valid(c, t[c])
      /\ \A c \in Key : t[c] = IF c = k THEN v ELSE table[c]
  BY <1>0, <1>2, StoreTyped
<1>5. cache' = s /\ (table' = t \/ table' = table)
  BY <1>1, <1>2
<1>6. \A c \in Key : Valid(c, table'[c])
  BY <1>0, <1>4, <1>5
<1>7. table' \in [Key -> Value] /\ \A c \in Key \ {k} : table'[c] = table[c]
  BY <1>0, <1>4, <1>5
<1>8. table' = [table EXCEPT ![k] = v] => table'[k] = v
  BY <1>2, <1>4
<1>9. /\ cache' \in [Key -> Value] /\ \A c \in Key : Valid(c, cache'[c])
      /\ \A c \in Key : cache'[c] = IF c = k THEN v ELSE cache[c]
  BY <1>3, <1>5
<1> QED
  BY <1>6, <1>7, <1>8, <1>9

\* The effect of a change is rebound by the handler, and then what the setting
\* governs follows it.
LEMMA EffectFollowed ==
    ASSUME SettingsType, writes = <<>>, UNCHANGED services,
           Soon("ingestionMood") = Soon("jobsMood"),
           NEW k \in Key, NEW v, Valid(k, v), ~EffectFails(k, v),
           k # "transcription_context_enabled",
           cache' = [cache EXCEPT ![k] = v],
           writes' = Effect(k, v)
    PROVE  /\ Rebinding'
           /\ \A i \in 1..Len(writes') : writes'[i].part \in Part
           /\ \A p \in Part : p \in Governed(k) \/ Soon(p)' = Soon(p)
           /\ \A c \in Companions(k) : FollowsSoon(c)'
           /\ MoodSoon'
           /\ Soon("transcription")' = Soon("transcription")
<1>0. cache \in [Key -> Value] /\ files \in Version /\ cache'[k] = v
  BY DEF SettingsType
<1>o. HasAnthropicKey \in BOOLEAN /\ Off \notin Version
  BY SettingsAssumption DEF Off
<1>p. "ingestionMood" \in Part /\ "jobsMood" \in Part /\ "transcription" \in Part
  BY DEF Part, Moods, Others
<1>1. CASE k \in {"ocr_provider", "ocr_dual_pass"}
  <2>1. PICK b : b = BuildOcr(Overlaid(k, v))
    OBVIOUS
  <2>2. b \in Provider /\ b.kind = OcrKind(cache')
    BY <1>1, <2>1, OcrBuilt
  <2>3. writes' = Write("ocr", b) /\ "ocr" \in Others /\ Fits("ocr", b)
    BY <1>1, <2>1, <2>2 DEF Effect, Others, Fits, Moods
  <2>4. /\ Rebinding' /\ \A i \in 1..Len(writes') : writes'[i].part \in Part
        /\ \A p \in Part : Soon(p)' = IF p = "ocr" THEN b ELSE Soon(p)
    BY <2>3, OneDue
  <2>5. Governed(k) = {"ocr"} /\ Companions(k) = {"ocr_provider", "ocr_dual_pass"}
    BY <1>1 DEF Governed, Companions
  <2>6. Soon("ocr")' = b
    BY <2>4 DEF Part, Others
  <2>7. \A c \in Companions(k) : FollowsSoon(c)'
    BY <2>2, <2>5, <2>6 DEF FollowsSoon
  <2> QED
    BY <1>p, <2>4, <2>5, <2>7 DEF MoodSoon
<1>2. CASE k = "preprocess_images"
  <2>1. PICK b : b = (v = "on")
    OBVIOUS
  <2>3. writes' = Write("preprocess", b) /\ "preprocess" \in Others /\ Fits("preprocess", b)
    BY <1>2, <2>1 DEF Effect, Others, Fits, Moods
  <2>4. /\ Rebinding' /\ \A i \in 1..Len(writes') : writes'[i].part \in Part
        /\ \A p \in Part : Soon(p)' = IF p = "preprocess" THEN b ELSE Soon(p)
    BY <2>3, OneDue
  <2>5. Governed(k) = {"preprocess"} /\ Companions(k) = {k}
    BY <1>2 DEF Governed, Companions
  <2>6. Soon("preprocess")' = b
    BY <2>4 DEF Part, Others
  <2>7. \A c \in Companions(k) : FollowsSoon(c)'
    BY <1>0, <1>2, <2>1, <2>5, <2>6 DEF FollowsSoon, On
  <2> QED
    BY <1>p, <2>4, <2>5, <2>7 DEF MoodSoon
<1>3. CASE k = "enable_mood_scoring"
  <2>1. PICK b : b = IF v = "on" THEN files ELSE Off
    OBVIOUS
  <2>2. b \in Version \cup {Off} /\ (b # Off) = (v = "on")
    BY <1>0, <1>o, <2>1
  <2>3. writes' = RebindMood(b)
    BY <1>3, <2>1 DEF Effect
  <2>4. /\ Rebinding' /\ \A i \in 1..Len(writes') : writes'[i].part \in Part
        /\ \A p \in Part : Soon(p)' = IF p \in Moods THEN b ELSE Soon(p)
    BY <2>2, <2>3, MoodDue
  <2>5. Governed(k) = Moods /\ Companions(k) = {k}
    BY <1>3 DEF Governed, Companions
  <2>6. Soon("ingestionMood")' = b /\ Soon("jobsMood")' = b
    BY <1>p, <2>4 DEF Moods
  <2>7. \A c \in Companions(k) : FollowsSoon(c)'
    BY <1>0, <1>3, <2>2, <2>5, <2>6 DEF FollowsSoon, On
  <2>8. Soon("transcription")' = Soon("transcription")
    BY <1>p, <2>4 DEF Moods
  <2> QED
    BY <2>4, <2>5, <2>6, <2>7, <2>8 DEF MoodSoon
<1>4. CASE k = "transcript_formatting"
  <2>1. PICK b : b = (v = "on")
    OBVIOUS
  <2>3. writes' = Write("formatter", b) /\ "formatter" \in Others /\ Fits("formatter", b)
    BY <1>4, <2>1 DEF Effect, Others, Fits, Moods
  <2>4. /\ Rebinding' /\ \A i \in 1..Len(writes') : writes'[i].part \in Part
        /\ \A p \in Part : Soon(p)' = IF p = "formatter" THEN b ELSE Soon(p)
    BY <2>3, OneDue
  <2>5. Governed(k) = {"formatter"} /\ Companions(k) = {k}
    BY <1>4 DEF Governed, Companions
  <2>6. Soon("formatter")' = b
    BY <2>4 DEF Part, Others
  <2>7. \A c \in Companions(k) : FollowsSoon(c)'
    BY <1>0, <1>4, <2>1, <2>5, <2>6 DEF FollowsSoon, On
  <2> QED
    BY <1>p, <2>4, <2>5, <2>7 DEF MoodSoon
<1>5. CASE k = "date_heading_detection"
  <2>1. PICK b : b = (v = "on" /\ HasAnthropicKey)
    OBVIOUS
  <2>3. writes' = Write("detector", b) /\ "detector" \in Others /\ Fits("detector", b)
    BY <1>5, <2>1 DEF Effect, Others, Fits, Moods
  <2>4. /\ Rebinding' /\ \A i \in 1..Len(writes') : writes'[i].part \in Part
        /\ \A p \in Part : Soon(p)' = IF p = "detector" THEN b ELSE Soon(p)
    BY <2>3, OneDue
  <2>5. Governed(k) = {"detector"} /\ Companions(k) = {k}
    BY <1>5 DEF Governed, Companions
  <2>6. Soon("detector")' = b
    BY <2>4 DEF Part, Others
  <2>7. \A c \in Companions(k) : FollowsSoon(c)'
    BY <1>0, <1>5, <2>1, <2>5, <2>6 DEF FollowsSoon, On, Detects
  <2> QED
    BY <1>p, <2>4, <2>5, <2>7 DEF MoodSoon
<1>6. CASE k = "registration_enabled"
  <2>1. writes' = <<>>
    BY <1>6 DEF Effect
  <2>2. /\ Rebinding' /\ \A i \in 1..Len(writes') : writes'[i].part \in Part
        /\ \A p \in Part : Soon(p)' = Soon(p)
    BY <2>1, NoneDue
  <2>3. \A c \in Companions(k) : FollowsSoon(c)'
    BY <1>6 DEF Companions, FollowsSoon
  <2> QED
    BY <1>p, <2>2, <2>3 DEF MoodSoon
<1> QED
  BY <1>1, <1>2, <1>3, <1>4, <1>5, <1>6, KeyCases

LEMMA ApplyInv == SettingsInv /\ ApplyChange => SettingsInv'
<1> SUFFICES ASSUME SettingsInv, ApplyChange
             PROVE  SettingsInv'
  OBVIOUS
<1>0. /\ SettingsType /\ up /\ writes = <<>> /\ todo # <<>> /\ todo' = Tail(todo)
      /\ UNCHANGED <<services, files, up, budget>>
      /\ MoodSoon /\ PromptSoon /\ Followed /\ Kept
  BY InvParts DEF ApplyChange, NextChange
<1>1. PICK k : k = todo[1][1]
  OBVIOUS
<1>2. PICK v : v = todo[1][2]
  OBVIOUS
<1> DEFINE changed == cache[k] # v
           fails == changed /\ EffectFails(k, v)
<1>3. /\ Valid(k, v)
      /\ cache' = [cache EXCEPT ![k] = v]
      /\ table' = Saved(k, v)
      /\ writes' = IF changed /\ ~fails THEN Effect(k, v) ELSE <<>>
      /\ unsaved' = unsaved \ {k}
      /\ adrift' =
           IF ~changed THEN adrift
           ELSE IF fails \/ k = "transcription_context_enabled"
           THEN adrift \cup Companions(k)
           ELSE adrift \ Companions(k)
  BY <1>1, <1>2 DEF ApplyChange
<1>4. k \in Key /\ Tail(todo) \in Seq(Changes)
  BY <1>0, <1>1, NextChangeTyped
<1>5. table' = [table EXCEPT ![k] = v]
  BY <1>3 DEF Saved
<1>6. /\ cache' \in [Key -> Value] /\ table' \in [Key -> Value]
      /\ \A c \in Key : Valid(c, table'[c]) /\ Valid(c, cache'[c])
      /\ \A c \in Key : cache'[c] = IF c = k THEN v ELSE cache[c]
      /\ \A c \in Key \ {k} : table'[c] = table[c]
      /\ table'[k] = v
  BY <1>0, <1>3, <1>4, <1>5, ChangeStored
<1>7. Companions(k) \subseteq Key /\ services \in Services /\ files \in Version
      /\ unsaved \subseteq Key /\ adrift \subseteq Key
  BY <1>0, <1>4, KeyCases DEF Companions, Key, Switches, SettingsType
<1>8. Kept'
  BY <1>0, <1>3, <1>6 DEF Kept
<1>p. "ingestionMood" \in Part /\ "jobsMood" \in Part /\ "transcription" \in Part
  BY DEF Part, Moods, Others
<1>9. /\ Rebinding'
      /\ \A i \in 1..Len(writes') : writes'[i].part \in Part
      /\ MoodSoon' /\ Followed' /\ Soon("transcription")' = Soon("transcription")
  <2>1. CASE ~changed \/ fails \/ k = "transcription_context_enabled"
    <3>1. writes' = <<>>
      BY <1>3, <2>1 DEF Effect
    <3>2. /\ Rebinding' /\ \A i \in 1..Len(writes') : writes'[i].part \in Part
          /\ \A p \in Part : Soon(p)' = Soon(p)
      BY <1>0, <3>1, NoneDue
    <3>3. MoodSoon' /\ Soon("transcription")' = Soon("transcription")
      BY <1>0, <1>p, <3>2 DEF MoodSoon
    <3>4. CASE ~changed
      <4>1. \A c \in Key : cache'[c] = cache[c]
        BY <1>6, <3>4
      <4>2. adrift' = adrift
        BY <1>3, <3>4
      <4>3. Followed'
        BY <1>0, <3>2, <4>1, <4>2, AllFollowed
      <4> QED
        BY <3>2, <3>3, <4>3
    <3>5. CASE changed
      <4>1. adrift' = adrift \cup Companions(k)
        BY <1>3, <2>1, <3>5
      <4>2. \A c \in Key \ {k} : cache'[c] = cache[c]
        BY <1>6
      <4>3. Followed'
        BY <1>0, <1>4, <3>2, <4>1, <4>2, ChangeFollowed
      <4> QED
        BY <3>2, <3>3, <4>3
    <3> QED
      BY <3>4, <3>5
  <2>2. CASE changed /\ ~fails /\ k # "transcription_context_enabled"
    <3>1. writes' = Effect(k, v) /\ adrift' = adrift \ Companions(k) /\ ~EffectFails(k, v)
      BY <1>3, <2>2
    <3>2. /\ Rebinding'
          /\ \A i \in 1..Len(writes') : writes'[i].part \in Part
          /\ \A p \in Part : p \in Governed(k) \/ Soon(p)' = Soon(p)
          /\ \A c \in Companions(k) : FollowsSoon(c)'
          /\ MoodSoon'
          /\ Soon("transcription")' = Soon("transcription")
      <4>1. Soon("ingestionMood") = Soon("jobsMood") /\ UNCHANGED services
        BY <1>0 DEF MoodSoon
      <4> HIDE DEF changed, fails
      <4> QED
        BY <1>0, <1>3, <1>4, <2>2, <3>1, <4>1, EffectFollowed
    <3>3. \A c \in Key \ {k} : cache'[c] = cache[c]
      BY <1>6
    <3>4. Followed'
      BY <1>0, <1>4, <3>1, <3>2, <3>3, ChangeFollowed
    <3> QED
      BY <3>2, <3>4
  <2> QED
    BY <2>1, <2>2
<1> HIDE DEF changed, fails
<1>10. PromptSoon'
  BY <1>0, <1>9 DEF PromptSoon
<1>11. unsaved' \subseteq Key /\ adrift' \subseteq Key
  BY <1>3, <1>7
<1>12. services' \in Services /\ files' \in Version /\ up' \in BOOLEAN
       /\ todo' \in Seq(Changes)
  BY <1>0, <1>4, <1>7 DEF SettingsType
<1>13. SettingsType'
  BY <1>6, <1>9, <1>11, <1>12, TypeOfNext
<1> QED
  BY <1>0, <1>8, <1>9, <1>10, <1>13, InvParts DEF Idling, MoodSoon, PromptSoon, Followed, Kept, SettingsInv

LEMMA RaisesInv == SettingsInv /\ ChangeRaises => SettingsInv'
<1> SUFFICES ASSUME SettingsInv, ChangeRaises
             PROVE  SettingsInv'
  OBVIOUS
<1>0. /\ SettingsType /\ up /\ writes = <<>> /\ todo # <<>> /\ todo' = <<>>
      /\ UNCHANGED <<services, files, writes, up, budget>>
      /\ MoodSoon /\ PromptSoon /\ Followed /\ Kept
  BY InvParts DEF ChangeRaises
<1>1. PICK k : k = todo[1][1]
  OBVIOUS
<1>2. PICK v : v = todo[1][2]
  OBVIOUS
<1>3. /\ Valid(k, v)
      /\ cache' = [cache EXCEPT ![k] = v]
      /\ unsaved' = unsaved \cup {k}
      /\ adrift' = IF cache' = cache THEN adrift ELSE adrift \cup Companions(k)
      /\ table' = [table EXCEPT ![k] = v] \/ table' = table
  BY <1>1, <1>2 DEF ChangeRaises, Saved
<1>4. k \in Key
  BY <1>0, <1>1, NextChangeTyped
<1>6. /\ cache' \in [Key -> Value] /\ table' \in [Key -> Value]
      /\ \A c \in Key : Valid(c, table'[c]) /\ Valid(c, cache'[c])
      /\ \A c \in Key : cache'[c] = IF c = k THEN v ELSE cache[c]
      /\ \A c \in Key \ {k} : table'[c] = table[c]
  BY <1>0, <1>3, <1>4, ChangeStored
<1>7. Companions(k) \subseteq Key /\ services \in Services /\ files \in Version
      /\ unsaved \subseteq Key /\ adrift \subseteq Key
  BY <1>0, <1>4, KeyCases DEF Companions, Key, Switches, SettingsType
<1>8. Kept'
  BY <1>0, <1>3, <1>6 DEF Kept
<1>p. "ingestionMood" \in Part /\ "jobsMood" \in Part /\ "transcription" \in Part
  BY DEF Part, Moods, Others
<1>9. /\ Rebinding' /\ \A i \in 1..Len(writes') : writes'[i].part \in Part
      /\ \A p \in Part : Soon(p)' = Soon(p)
  BY <1>0, NoneDue
<1>10. MoodSoon' /\ PromptSoon'
  BY <1>0, <1>p, <1>9 DEF MoodSoon, PromptSoon
<1>11. Followed'
  <2>1. CASE cache' = cache
    BY <1>0, <1>3, <1>9, <2>1, AllFollowed
  <2>2. CASE cache' # cache
    <3>1. adrift' = adrift \cup Companions(k) /\ \A c \in Key \ {k} : cache'[c] = cache[c]
      BY <1>3, <1>6, <2>2
    <3> QED
      BY <1>0, <1>4, <1>9, <3>1, ChangeFollowed
  <2> QED
    BY <2>1, <2>2
<1>12. unsaved' \subseteq Key /\ adrift' \subseteq Key
  BY <1>3, <1>4, <1>7
<1>13. services' \in Services /\ files' \in Version /\ up' \in BOOLEAN
       /\ todo' \in Seq(Changes)
  BY <1>0, <1>7 DEF SettingsType
<1>14. SettingsType'
  BY <1>6, <1>9, <1>12, <1>13, TypeOfNext
<1> QED
  BY <1>0, <1>8, <1>9, <1>10, <1>11, <1>14 DEF Idling, MoodSoon, PromptSoon, Followed, Kept, SettingsInv

-----------------------------------------------------------------------------
\* Steps that change no setting.
LEMMA StillInv ==
    ASSUME SettingsInv, UNCHANGED <<table, cache, unsaved, adrift, up>>,
           services' \in Services, files' \in Version, todo' \in Seq(Changes),
           Rebinding', Idling',
           \A i \in 1..Len(writes') : writes'[i].part \in Part,
           \A p \in Part : Soon(p)' = Soon(p)
    PROVE  SettingsInv'
<1>0. /\ SettingsType
      /\ up => MoodSoon /\ PromptSoon /\ Followed /\ Kept
  BY InvParts
<1>p. "ingestionMood" \in Part /\ "jobsMood" \in Part /\ "transcription" \in Part
  BY DEF Part, Moods, Others
<1>1. SettingsType'
  <2>1. /\ table' \in [Key -> Value] /\ cache' \in [Key -> Value]
        /\ \A k \in Key : Valid(k, table'[k]) /\ Valid(k, cache'[k])
        /\ unsaved' \subseteq Key /\ adrift' \subseteq Key /\ up' \in BOOLEAN
    BY <1>0 DEF SettingsType
  <2> QED
    BY <2>1, TypeOfNext
<1>2. ASSUME up
      PROVE  MoodSoon' /\ PromptSoon' /\ Followed' /\ Kept'
  <2>1. MoodSoon' /\ PromptSoon' /\ Kept'
    BY <1>0, <1>2, <1>p DEF MoodSoon, PromptSoon, Kept
  <2>2. Followed'
    BY <1>0, <1>2, AllFollowed
  <2> QED
    BY <2>1, <2>2
<1> QED
  BY <1>1, <1>2 DEF Idling, MoodSoon, PromptSoon, Followed, Kept, SettingsInv

LEMMA SoonSame ==
    ASSUME SettingsInv, UNCHANGED <<services, writes>>
    PROVE  /\ Rebinding' /\ services' \in Services
           /\ \A i \in 1..Len(writes') : writes'[i].part \in Part
           /\ \A p \in Part : Soon(p)' = Soon(p)
<1>1. SettingsType /\ Rebinding
  BY DEF SettingsInv
<1>2. \A i \in 1..Len(writes) : writes[i].part \in Part
  BY <1>1, WritesTyped
<1>3. Rebinding'
  BY <1>1 DEF Rebinding
<1>4. \A p \in Part : Soon(p)' = Soon(p)
  BY DEF Soon
<1> QED
  BY <1>1, <1>2, <1>3, <1>4 DEF SettingsType

LEMMA TodoTyped ==
    ASSUME SettingsType
    PROVE  todo \in Seq(Changes) /\ files \in Version
BY DEF SettingsType, Changes

LEMMA RejectInv == SettingsInv /\ RejectChange => SettingsInv'
<1> SUFFICES ASSUME SettingsInv, RejectChange
             PROVE  SettingsInv'
  OBVIOUS
<1>1. /\ UNCHANGED <<table, cache, services, files, writes, up, unsaved, adrift>>
      /\ up /\ todo # <<>> /\ todo' = Tail(todo)
  BY DEF RejectChange, NextChange
<1>2. todo' \in Seq(Changes) /\ files' \in Version /\ Idling'
  BY <1>1, NextChangeTyped, TodoTyped DEF SettingsInv, Idling
<1> QED
  BY <1>1, <1>2, SoonSame, StillInv

LEMMA BeginInv ==
    ASSUME SettingsInv, NEW p \in Patches, BeginPatch(p)
    PROVE  SettingsInv'
<1>1. /\ UNCHANGED <<table, cache, services, files, writes, up, unsaved, adrift>>
      /\ up /\ todo' = p
  BY DEF BeginPatch, Resting
<1>2. todo' \in Seq(Changes) /\ files' \in Version /\ Idling'
  BY <1>1, TodoTyped, SettingsAssumption DEF SettingsInv, Idling, Changes
<1> QED
  BY <1>1, <1>2, SoonSame, StillInv

LEMMA EditInv ==
    ASSUME SettingsInv, NEW v \in Version, EditFiles(v)
    PROVE  SettingsInv'
<1>1. /\ UNCHANGED <<table, cache, services, todo, writes, up, unsaved, adrift>>
      /\ files' = v
  BY DEF EditFiles
<1>2. todo' \in Seq(Changes) /\ files' \in Version /\ Idling'
  BY <1>1, TodoTyped DEF SettingsInv, Idling
<1> QED
  BY <1>1, <1>2, SoonSame, StillInv

LEMMA RebindInv == SettingsInv /\ Rebind => SettingsInv'
<1> SUFFICES ASSUME SettingsInv, Rebind
             PROVE  SettingsInv'
  OBVIOUS
<1>1. UNCHANGED <<table, cache, files, todo, up, unsaved, adrift>> /\ up
  BY DEF Rebind
<1>2. todo' \in Seq(Changes) /\ files' \in Version /\ Idling'
  BY <1>1, TodoTyped DEF SettingsInv, Idling
<1> QED
  BY <1>1, <1>2, RebindSoon, StillInv

LEMMA OtherInv == SettingsInv /\ UNCHANGED settingsVars => SettingsInv'
<1> SUFFICES ASSUME SettingsInv, UNCHANGED settingsVars
             PROVE  SettingsInv'
  OBVIOUS
<1>1. UNCHANGED <<table, cache, services, files, todo, writes, up, unsaved, adrift>>
  BY DEF settingsVars
<1>2. todo' \in Seq(Changes) /\ files' \in Version /\ Idling'
  BY <1>1, TodoTyped DEF SettingsInv, Idling
<1> QED
  BY <1>1, <1>2, SoonSame, StillInv

LEMMA StopInv == SettingsInv /\ Stop => SettingsInv'
<1> SUFFICES ASSUME SettingsInv, Stop
             PROVE  SettingsInv'
  OBVIOUS
<1>1. /\ ~up' /\ todo' = <<>> /\ writes' = <<>>
      /\ UNCHANGED <<table, cache, services, files, unsaved, adrift>>
  BY DEF Stop
<1>2. SettingsType
  BY DEF SettingsInv
<1>3. /\ table' \in [Key -> Value] /\ cache' \in [Key -> Value]
      /\ \A k \in Key : Valid(k, table'[k]) /\ Valid(k, cache'[k])
      /\ unsaved' \subseteq Key /\ adrift' \subseteq Key /\ up' \in BOOLEAN
      /\ services' \in Services /\ files' \in Version
  BY <1>1, <1>2 DEF SettingsType, Stop
<1>4. todo' \in Seq(Changes) /\ \A i \in 1..Len(writes') : writes'[i].part \in Part
  BY <1>1
<1>5. SettingsType'
  BY <1>3, <1>4, TypeOfNext
<1>6. Rebinding' /\ Idling'
  BY <1>1 DEF Rebinding, Idling
<1> QED
  BY <1>1, <1>5, <1>6 DEF SettingsInv

-----------------------------------------------------------------------------
(* Reloads.                                                                *)

LEMMA ConfigTyped ==
    /\ Config \in [Key -> Value] /\ \A k \in Key : Valid(k, Config[k])
    /\ OcrKind(Config) \in {"anthropic", "gemini", "both"}
    /\ HasAnthropicKey \in BOOLEAN /\ Off \notin Version
<1>1. "ocr_provider" \in Key
  BY DEF Key
<1>2. Config["ocr_provider"] \in Single
  BY <1>1, SettingsAssumption DEF Valid
<1> QED
  BY <1>2, SettingsAssumption DEF OcrKind, Single, Off

\* A reload of parts, of which "k" is one of the settings, if they have one.
LEMMA ReloadStep ==
    ASSUME SettingsInv, NEW effect, NEW touched \in SUBSET Key, Reload(effect, touched),
           NEW k \in Key, touched = {} \/ touched = Companions(k),
           Rebinding',
           \A i \in 1..Len(writes') : writes'[i].part \in Part,
           \A p \in Part : p \in Governed(k) \/ Soon(p)' = Soon(p),
           \A c \in Companions(k) \ adrift' : FollowsSoon(c)',
           MoodSoon', PromptSoon'
    PROVE  SettingsInv'
<1>1. /\ UNCHANGED <<table, cache, services, files, todo, up, unsaved>> /\ up
      /\ adrift' = adrift \ touched \/ adrift' = adrift \cup touched
  BY DEF Reload, Resting
<1>2. SettingsType /\ Followed /\ Kept
  BY <1>1, InvParts
<1>3. /\ table' \in [Key -> Value] /\ cache' \in [Key -> Value]
      /\ \A c \in Key : Valid(c, table'[c]) /\ Valid(c, cache'[c])
      /\ unsaved' \subseteq Key /\ up' \in BOOLEAN
      /\ services' \in Services
  BY <1>1, <1>2 DEF SettingsType
<1>4. adrift' \subseteq Key
  BY <1>1, <1>2 DEF SettingsType
<1>5. todo' \in Seq(Changes) /\ files' \in Version
  BY <1>1, <1>2, TodoTyped
<1>6. SettingsType'
  BY <1>3, <1>4, <1>5, TypeOfNext
<1>7. Followed'
  <2>1. adrift \ Companions(k) \subseteq adrift'
    BY <1>1
  <2>2. \A c \in Key \ {k} : cache'[c] = cache[c]
    BY <1>1
  <2> QED
    BY <1>2, <2>1, <2>2, ChangeFollowed
<1>8. Kept' /\ Idling' /\ up'
  BY <1>1, <1>2 DEF Kept, Idling
<1> QED
  BY <1>6, <1>7, <1>8 DEF MoodSoon, PromptSoon, Followed, Kept, SettingsInv

LEMMA Touches ==
    ASSUME NEW effect, NEW touched, Reload(effect, touched), NEW c \in touched, c \notin adrift'
    PROVE  \A k \in touched : cache'[k] = Config[k]
BY DEF Reload

LEMMA ReloadOcrInv == SettingsInv /\ ReloadOcr => SettingsInv'
<1> SUFFICES ASSUME SettingsInv, ReloadOcr
             PROVE  SettingsInv'
  OBVIOUS
<1> DEFINE ocr == {"ocr_provider", "ocr_dual_pass"}
<1>1. PICK b : b = BuildOcr(Config)
  OBVIOUS
<1>2. Reload(Write("ocr", b), ocr)
  BY <1>1 DEF ReloadOcr
<1>3. writes = <<>> /\ UNCHANGED <<services, files>> /\ writes' = Write("ocr", b) /\ up
  BY <1>2 DEF Reload, Resting
<1>4. SettingsType /\ MoodSoon /\ PromptSoon
  BY <1>3, InvParts
<1>5. b \in Provider /\ b.kind = OcrKind(Config)
  BY <1>1, <1>4, ConfigTyped DEF BuildOcr, Provider, SettingsType
<1>6. "ocr" \in Others /\ Fits("ocr", b)
  BY <1>5 DEF Others, Fits, Moods
<1>7. /\ Rebinding' /\ \A i \in 1..Len(writes') : writes'[i].part \in Part
      /\ \A p \in Part : Soon(p)' = IF p = "ocr" THEN b ELSE Soon(p)
  BY <1>3, <1>6, OneDue
<1>8. /\ "ocr_provider" \in Key /\ ocr \subseteq Key /\ ocr = Companions("ocr_provider")
      /\ Governed("ocr_provider") = {"ocr"}
  BY DEF Key, Switches, Companions, Governed
<1>9. ASSUME NEW c \in ocr, c \notin adrift'
      PROVE  FollowsSoon(c)'
  <2>1. \A k \in ocr : cache'[k] = Config[k]
    BY <1>2, <1>9, Touches
  <2>2. OcrKind(cache)' = OcrKind(Config)
    BY <2>1 DEF OcrKind, On
  <2>3. Soon("ocr")' = b
    BY <1>7 DEF Part, Others
  <2> QED
    BY <1>5, <1>9, <2>2, <2>3 DEF FollowsSoon
<1>10. MoodSoon' /\ PromptSoon'
  BY <1>4, <1>7 DEF MoodSoon, PromptSoon, Part, Moods, Others
<1>11. \A p \in Part : p \in Governed("ocr_provider") \/ Soon(p)' = Soon(p)
  BY <1>7, <1>8
<1>12. \A c \in Companions("ocr_provider") \ adrift' : FollowsSoon(c)'
  BY <1>8, <1>9
<1> HIDE DEF ocr
<1> QED
  BY <1>2, <1>7, <1>8, <1>10, <1>11, <1>12, ReloadStep

LEMMA ReloadTranscriptionInv == SettingsInv /\ ReloadTranscription => SettingsInv'
<1> SUFFICES ASSUME SettingsInv, ReloadTranscription
             PROVE  SettingsInv'
  OBVIOUS
<1> DEFINE k == "transcription_context_enabled"
<1>1. PICK b : b = BuildTranscription
  OBVIOUS
<1>2. Reload(Write("transcription", b), {})
  BY <1>1 DEF ReloadTranscription
<1>3. /\ writes = <<>> /\ UNCHANGED <<services, files, cache>>
      /\ writes' = Write("transcription", b) /\ up
      /\ adrift' = adrift
  BY <1>2 DEF Reload, Resting
<1>4. SettingsType /\ MoodSoon /\ PromptSoon /\ Followed
  BY <1>3, InvParts
<1>5. b \in [prompted : BOOLEAN, context : Version] /\ b.prompted = On(Config, k)
  BY <1>1, <1>4 DEF BuildTranscription, SettingsType, On
<1>6. "transcription" \in Others /\ Fits("transcription", b)
  BY <1>5 DEF Others, Fits, Moods
<1>7. /\ Rebinding' /\ \A i \in 1..Len(writes') : writes'[i].part \in Part
      /\ \A p \in Part : Soon(p)' = IF p = "transcription" THEN b ELSE Soon(p)
  BY <1>3, <1>6, OneDue
<1>8. k \in Key /\ Companions(k) = {k} /\ Governed(k) = {"transcription"}
  BY DEF Key, Switches, Companions, Governed
<1>9. Soon("transcription")' = b
  BY <1>7 DEF Part, Others
<1>10. MoodSoon' /\ PromptSoon'
  BY <1>4, <1>5, <1>7, <1>9 DEF MoodSoon, PromptSoon, Part, Moods
<1>11. ASSUME k \notin adrift'
       PROVE  FollowsSoon(k)'
  <2>1. FollowsSoon(k)
    BY <1>3, <1>4, <1>8, <1>11 DEF Followed
  <2>2. On(Config, k) = On(cache, k)
    BY <1>4, <2>1 DEF FollowsSoon, PromptSoon
  <2>3. On(cache, k)' = On(cache, k)
    BY <1>3 DEF On
  <2> QED
    BY <1>5, <1>9, <2>2, <2>3 DEF FollowsSoon
<1>12. \A p \in Part : p \in Governed(k) \/ Soon(p)' = Soon(p)
  BY <1>7, <1>8
<1>13. \A c \in Companions(k) \ adrift' : FollowsSoon(c)'
  BY <1>8, <1>11
<1>14. {} \in SUBSET Key
  OBVIOUS
<1> HIDE DEF k
<1> QED
  BY <1>2, <1>7, <1>8, <1>10, <1>12, <1>13, <1>14, ReloadStep

LEMMA ReloadMoodInv == SettingsInv /\ ReloadMood => SettingsInv'
<1> SUFFICES ASSUME SettingsInv, ReloadMood
             PROVE  SettingsInv'
  OBVIOUS
<1> DEFINE k == "enable_mood_scoring"
<1>1. PICK b : b = files
  OBVIOUS
<1>2. Reload(RebindMood(b), {k}) /\ On(Config, k)
  BY <1>1 DEF ReloadMood
<1>3. /\ writes = <<>> /\ UNCHANGED <<services, files>> /\ writes' = RebindMood(b) /\ up
  BY <1>2 DEF Reload, Resting
<1>4. SettingsType /\ MoodSoon /\ PromptSoon
  BY <1>3, InvParts
<1>5. b \in Version /\ b # Off
  BY <1>1, <1>4, ConfigTyped DEF SettingsType
<1>6. b \in Version \cup {Off}
  BY <1>5
<1>7. /\ Rebinding' /\ \A i \in 1..Len(writes') : writes'[i].part \in Part
      /\ \A p \in Part : Soon(p)' = IF p \in Moods THEN b ELSE Soon(p)
  BY <1>3, <1>6, MoodDue
<1>8. k \in Key /\ Companions(k) = {k} /\ Governed(k) = Moods
  BY DEF Key, Switches, Companions, Governed
<1>9. /\ Soon("ingestionMood")' = b /\ Soon("jobsMood")' = b
      /\ Soon("transcription")' = Soon("transcription")
  BY <1>7 DEF Part, Others, Moods
<1>10. MoodSoon' /\ PromptSoon'
  BY <1>4, <1>9 DEF MoodSoon, PromptSoon
<1>11. ASSUME k \notin adrift'
       PROVE  FollowsSoon(k)'
  <2>1. cache'[k] = Config[k]
    BY <1>2, <1>11, Touches
  <2>2. On(cache, k)'
    BY <1>2, <2>1 DEF On
  <2> QED
    BY <1>5, <1>9, <2>2 DEF FollowsSoon
<1>12. \A p \in Part : p \in Governed(k) \/ Soon(p)' = Soon(p)
  BY <1>7, <1>8
<1>13. \A c \in Companions(k) \ adrift' : FollowsSoon(c)'
  BY <1>8, <1>11
<1>14. {k} \in SUBSET Key
  BY <1>8
<1> HIDE DEF k
<1> QED
  BY <1>2, <1>7, <1>8, <1>10, <1>12, <1>13, <1>14, ReloadStep

-----------------------------------------------------------------------------
(* Starting.                                                               *)

\* What the services are when they are built.
LEMMA StartedParts ==
    ASSUME NEW s, files \in Version, NEW t, t = Started(s)
    PROVE  /\ t \in Services
           /\ t["ocr"].kind = OcrKind(Config)
           /\ t["transcription"].prompted = On(Config, "transcription_context_enabled")
           /\ t["ingestionMood"] = t["jobsMood"]
           /\ (t["ingestionMood"] # Off) = On(Config, "enable_mood_scoring")
           /\ t["preprocess"] = On(s, "preprocess_images")
           /\ t["formatter"] = On(s, "transcript_formatting")
           /\ t["detector"] = Detects(s)
<1>1. PICK o : o = BuildOcr(Config)
  OBVIOUS
<1>2. PICK w : w = BuildTranscription
  OBVIOUS
<1>3. PICK m : m = IF On(Config, "enable_mood_scoring") THEN files ELSE Off
  OBVIOUS
<1>4. o \in Provider /\ o.kind = OcrKind(Config)
  BY <1>1, ConfigTyped DEF BuildOcr, Provider
<1>5. /\ w \in [prompted : BOOLEAN, context : Version]
      /\ w.prompted = On(Config, "transcription_context_enabled")
  BY <1>2 DEF BuildTranscription, On
<1>6. m \in Version \cup {Off} /\ (m # Off) = On(Config, "enable_mood_scoring")
  BY <1>3, ConfigTyped DEF On
<1>7. t = [ocr |-> o, transcription |-> w, ingestionMood |-> m, jobsMood |-> m,
           preprocess |-> On(s, "preprocess_images"),
           formatter |-> On(s, "transcript_formatting"),
           detector |-> Detects(s)]
  BY <1>1, <1>2, <1>3 DEF Started
<1>8. /\ t["ocr"] = o /\ t["transcription"] = w /\ t["ingestionMood"] = m
      /\ t["jobsMood"] = m
      /\ t["preprocess"] = On(s, "preprocess_images")
      /\ t["formatter"] = On(s, "transcript_formatting")
      /\ t["detector"] = Detects(s)
  BY <1>7
<1>9. On(s, "preprocess_images") \in BOOLEAN /\ On(s, "transcript_formatting") \in BOOLEAN
      /\ Detects(s) \in BOOLEAN
  BY DEF On, Detects
<1>10. t \in Services
  BY <1>4, <1>5, <1>6, <1>7, <1>9 DEF Services
<1> QED
  BY <1>4, <1>5, <1>6, <1>8, <1>10

\* The built services follow the settings, but for those the configuration
\* overrules.
LEMMA StartFollowed ==
    ASSUME files \in Version, writes = <<>>, services = Started(cache),
           UNION {Companions(k) : k \in Overruled(cache)} \subseteq adrift
    PROVE  /\ services \in Services /\ Rebinding /\ MoodSoon /\ PromptSoon /\ Followed
<1>1. PICK t : t = services
  OBVIOUS
<1>2. /\ t \in Services
      /\ t["ocr"].kind = OcrKind(Config)
      /\ t["transcription"].prompted = On(Config, "transcription_context_enabled")
      /\ t["ingestionMood"] = t["jobsMood"]
      /\ (t["ingestionMood"] # Off) = On(Config, "enable_mood_scoring")
      /\ t["preprocess"] = On(cache, "preprocess_images")
      /\ t["formatter"] = On(cache, "transcript_formatting")
      /\ t["detector"] = Detects(cache)
  BY <1>1, StartedParts
<1>3. \A p \in Part : Soon(p) = t[p]
  BY <1>1, AfterNone DEF Soon
<1>4. /\ Soon("ocr") = t["ocr"] /\ Soon("transcription") = t["transcription"]
      /\ Soon("ingestionMood") = t["ingestionMood"] /\ Soon("jobsMood") = t["jobsMood"]
      /\ Soon("preprocess") = t["preprocess"] /\ Soon("formatter") = t["formatter"]
      /\ Soon("detector") = t["detector"]
  BY <1>3 DEF Part, Moods, Others
<1>5. ASSUME NEW k \in Key \ adrift
      PROVE  FollowsSoon(k)
  <2>1. \A c \in Overruled(cache) : k \notin Companions(c)
    BY <1>5
  <2>2. CASE k \in {"ocr_provider", "ocr_dual_pass"}
    <3>1. "ocr_provider" \notin Overruled(cache) /\ "ocr_dual_pass" \notin Overruled(cache)
      BY <2>1, <2>2 DEF Companions
    <3>2. OcrKind(cache) = OcrKind(Config)
      BY <3>1 DEF Overruled, OcrKind, On
    <3> QED
      BY <1>2, <1>4, <2>2, <3>2 DEF FollowsSoon
  <2>3. CASE k = "enable_mood_scoring"
    <3>1. k \notin Overruled(cache)
      BY <2>1, <2>3 DEF Companions
    <3>2. On(cache, k) = On(Config, k)
      BY <2>3, <3>1 DEF Overruled, On
    <3> QED
      BY <1>2, <1>4, <2>3, <3>2 DEF FollowsSoon
  <2>4. CASE k = "transcription_context_enabled"
    <3>1. k \notin Overruled(cache)
      BY <2>1, <2>4 DEF Companions
    <3>2. On(cache, k) = On(Config, k)
      BY <2>4, <3>1 DEF Overruled, On
    <3> QED
      BY <1>2, <1>4, <2>4, <3>2 DEF FollowsSoon
  <2>5. CASE k \in {"preprocess_images", "transcript_formatting",
                    "date_heading_detection", "registration_enabled"}
    BY <1>2, <1>4, <2>5 DEF FollowsSoon
  <2> QED
    BY <2>2, <2>3, <2>4, <2>5, KeyCases
<1> QED
  BY <1>1, <1>2, <1>4, <1>5 DEF Rebinding, MoodSoon, PromptSoon, Followed

LEMMA StartInv == SettingsInv /\ Start => SettingsInv'
<1> SUFFICES ASSUME SettingsInv, Start
             PROVE  SettingsInv'
  OBVIOUS
<1>1. /\ ~up /\ up' /\ cache' = table /\ services' = Started(cache)'
      /\ unsaved' = {}
      /\ adrift' = UNION {Companions(k) : k \in Overruled(table)}
      /\ UNCHANGED <<table, files, todo, writes, budget>>
  BY DEF Start, Loaded, Started, BuildOcr, BuildTranscription, Detects, On
<1>2. SettingsType /\ writes = <<>>
  BY <1>1 DEF SettingsInv, Idling
<1>3. files' \in Version /\ todo' \in Seq(Changes)
  BY <1>1, <1>2, TodoTyped
<1>4. Overruled(cache)' = Overruled(table)
  BY <1>1 DEF Overruled
<1>5. (UNION {Companions(k) : k \in Overruled(cache)} \subseteq adrift)'
  BY <1>1, <1>4 DEF Companions
<1>6. (services \in Services /\ Rebinding /\ MoodSoon /\ PromptSoon /\ Followed)'
  <2>1. (files \in Version /\ writes = <<>> /\ services = Started(cache))'
    BY <1>1, <1>2, <1>3
  <2> QED
    BY <1>5, <2>1, StartFollowed, PTL
<1>7. adrift' \subseteq Key
  BY <1>1 DEF Overruled, Companions, Key, Switches
<1>8. \A i \in 1..Len(writes') : writes'[i].part \in Part
  BY <1>1, <1>2, WritesTyped
<1>9. /\ table' \in [Key -> Value] /\ cache' \in [Key -> Value]
      /\ \A k \in Key : Valid(k, table'[k]) /\ Valid(k, cache'[k])
      /\ unsaved' \subseteq Key /\ up' \in BOOLEAN
  BY <1>1, <1>2 DEF SettingsType, Start
<1>10. SettingsType'
  BY <1>3, <1>6, <1>7, <1>8, <1>9, TypeOfNext
<1>11. Kept' /\ Idling'
  BY <1>1 DEF Kept, Idling
<1> QED
  BY <1>6, <1>10, <1>11 DEF MoodSoon, PromptSoon, Followed, Kept, SettingsInv

-----------------------------------------------------------------------------
(* The server.                                                             *)

LEMMA InitSettings == SettingsInit => SettingsInv
<1> SUFFICES ASSUME SettingsInit
             PROVE  SettingsInv
  OBVIOUS
<1>1. /\ files = First /\ table = Config /\ cache = Config /\ services = Started(cache)
      /\ todo = <<>> /\ writes = <<>> /\ up = TRUE /\ unsaved = {} /\ adrift = {}
  BY DEF SettingsInit
<1>2. files \in Version
  BY <1>1, SettingsAssumption
<1>3. UNION {Companions(k) : k \in Overruled(cache)} \subseteq adrift
  BY <1>1 DEF Overruled
<1>4. services \in Services /\ Rebinding /\ MoodSoon /\ PromptSoon /\ Followed
  BY <1>1, <1>2, <1>3, StartFollowed
<1>5. DOMAIN services = Part
  BY <1>4, PartsOfServices
<1>6. SettingsType
  BY <1>1, <1>2, <1>4, <1>5, ConfigTyped DEF SettingsType
<1> QED
  BY <1>1, <1>4, <1>6, InvParts DEF Idling, Kept

LEMMA MoveInv == SettingsInv /\ SettingsMove => SettingsInv'
BY BeginInv, RejectInv, RebindInv, ReloadOcrInv, ReloadTranscriptionInv, ReloadMoodInv,
   EditInv DEF SettingsMove

LEMMA SettingsStep == SettingsInv /\ [Next]_vars => SettingsInv'
<1> SUFFICES ASSUME SettingsInv, [Next]_vars
             PROVE  SettingsInv'
  OBVIOUS
<1>1. CASE ChangeSetting
  BY <1>1, ApplyInv, RaisesInv DEF ChangeSetting
<1>2. CASE Serve
  BY <1>2, MoveInv DEF Serve
<1>3. CASE Watch \/ Report \/ Ask \/ Ail
  BY <1>3, OtherInv DEF Watch, Report, Ask, Ail
<1>4. CASE GoDown
  BY <1>4, StopInv DEF GoDown
<1>5. CASE ComeUp
  BY <1>5, StartInv DEF ComeUp
<1>6. CASE UNCHANGED vars
  BY <1>6, OtherInv DEF vars
<1> QED
  BY <1>1, <1>2, <1>3, <1>4, <1>5, <1>6 DEF Next

\* With nothing left to rebind, what the services hold is what they were to.
LEMMA SoonIsNow ==
    ASSUME SettingsInv, up, writes = <<>>
    PROVE  /\ services.ingestionMood = services.jobsMood
           /\ \A k \in Key \ adrift : Follows(k)
<1>1. MoodSoon /\ Followed
  BY InvParts
<1>2. /\ Soon("ocr") = services.ocr /\ Soon("transcription") = services.transcription
      /\ Soon("ingestionMood") = services.ingestionMood
      /\ Soon("jobsMood") = services.jobsMood
      /\ Soon("preprocess") = services.preprocess
      /\ Soon("formatter") = services.formatter /\ Soon("detector") = services.detector
  BY AfterNone DEF Soon
<1>3. ASSUME NEW k \in Key \ adrift
      PROVE  Follows(k)
  <2>1. FollowsSoon(k)
    BY <1>1 DEF Followed
  <2> QED
    BY <1>2, <2>1, KeyCases DEF FollowsSoon, Follows
<1> QED
  BY <1>1, <1>2, <1>3 DEF MoodSoon

\* The settings, the services and the notices of the server have their types
\* (runtime_settings.py, mcp_server.py, notifications.py, health_poller.py).
THEOREM ServerTyped == Spec => []TypeOK
<1>1. Init => SettingsInv /\ NotifyInv
  BY InitSettings, InitNotices DEF Init
<1>2. SettingsInv /\ NotifyInv => TypeOK
  BY DEF SettingsInv, NotifyInv, TypeOK
<1> QED
  BY <1>1, <1>2, SettingsStep, NotifyStep, PTL DEF Spec

\* Once a handler has rebound both references, ingestion and the job runner
\* score moods with one service (reload_mood_dimensions, "keeping them in sync
\* is load-bearing"), through any changes, reloads, edits and restarts.
THEOREM MoodsTogether == Spec => []MoodTogether
<1>1. Init => SettingsInv
  BY InitSettings DEF Init
<1>2. SettingsInv => MoodTogether
  BY SoonIsNow DEF MoodTogether
<1> QED
  BY <1>1, <1>2, SettingsStep, PTL DEF Spec

\* The services follow the cached settings, and the table has what the cache
\* has, but for the settings the errors, reloads and starts of the code leave
\* behind (_on_runtime_setting_change, RuntimeSettings.set and _load).
THEOREM SettingsInForce == Spec => []InForce
<1>1. Init => SettingsInv
  BY InitSettings DEF Init
<1>2. SettingsInv => InForce
  BY SoonIsNow, InvParts DEF InForce, Kept
<1> QED
  BY <1>1, <1>2, SettingsStep, PTL DEF Spec
=============================================================================
