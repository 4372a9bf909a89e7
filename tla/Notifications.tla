--------------------------- MODULE Notifications ----------------------------
(***************************************************************************)
(* Health polling, and the notices to owners and administrators that it    *)
(* and failed jobs give rise to (src/journal/services/health_poll.py,      *)
(* services/liveness.py, services/notifications.py and the preferences     *)
(* endpoints of api.py).                                                   *)
(*                                                                         *)
(* The poller and the job runner's worker are threads: each goes through   *)
(* the recipients of its notice one by one, and reads their preferences    *)
(* as it comes to them.  Any read may raise while the database does not    *)
(* answer; what is left of the notice is then dropped.  What Pushover does *)
(* with a message is not looked at: a failing post is logged.              *)
(***************************************************************************)
EXTENDS Integers, Sequences, FiniteSets

CONSTANTS
    User,
    Admin,        \* the administrator the server is deployed with
    Components    \* what is checked, in order: sqlite, chromadb, disk

ASSUME NotificationsAssumption ==
    /\ 0 \notin User
    /\ Admin \in User
    /\ Components = <<"sqlite", "chromadb", "disk">>

Component == {Components[i] : i \in 1..Len(Components)}
Status == {"ok", "degraded", "error"}
Thread == {"poller", "worker"}
Topic == {"job_failed", "admin_job_failed", "admin_health_alert"}

\* What a thread is announcing: to whom it has still to turn, and about what.
Quiet == [topic |-> "none", left |-> {}, owner |-> 0]
Notice == [topic : Topic \cup {"none"}, left : SUBSET User, owner : User \cup {0}]

VARIABLES
    health,    \* how the components are
    last,      \* how the poller last saw them
    seen,      \* checks of this cycle it has still to look at
    notices,   \* what each thread is announcing
    muted,     \* topics that users have turned off
    reachable, \* users with Pushover credentials, their own or the server's
    admins,    \* the active administrators
    alerted,   \* alerts since the poller last saw a component well
    told,      \* messages about the last failed job
    chances    \* bound: changes of health, failed jobs, and changes of
               \* preferences and administrators to come

notifyVars == <<health, last, seen, notices, muted, reachable, admins, alerted,
                told, chances>>

-----------------------------------------------------------------------------
Answers == health["sqlite"] = "ok"

\* Topics are on until they are turned off.
Listens(u, topic) == u \in reachable /\ topic \notin muted[u]

Take(what) ==
    chances[what] > 0 /\ chances' = [chances EXCEPT ![what] = @ - 1]

\* Only sqlite answers or not; a disk may also be short of space.
Possible(c) == IF c = "disk" THEN Status ELSE {"ok", "error"}

HealthChanges(c, s) ==
    /\ s \in Possible(c) \ {health[c]}
    /\ Take("health")
    /\ health' = [health EXCEPT ![c] = s]
    /\ UNCHANGED <<last, seen, notices, muted, reachable, admins, alerted, told>>

-----------------------------------------------------------------------------
(* The poller.                                                             *)

\* The checks of a cycle are made before any is looked at.
Poll ==
    /\ seen = <<>> /\ notices["poller"] = Quiet
    /\ \E c \in Component : health[c] # "ok" \/ last[c] # "ok"
    /\ seen' = [i \in 1..Len(Components) |->
                    [name |-> Components[i], status |-> health[Components[i]]]]
    /\ UNCHANGED <<health, last, notices, muted, reachable, admins, alerted,
                   told, chances>>

\* Variant: a component is only noted when it is well.
NotedIfWell(check) ==
    IF check.status = "ok" THEN [last EXCEPT ![check.name] = "ok"] ELSE last

Noted(check) == [last EXCEPT ![check.name] = check.status]

\* Variant: only what fails is announced.
Failing(check) == check.status = "error" /\ last[check.name] = "ok"

Degraded(check) == check.status # "ok" /\ last[check.name] = "ok"

\* Nothing to announce, or nobody can be looked up.
LookAway ==
    /\ seen # <<>> /\ notices["poller"] = Quiet
    /\ Degraded(seen[1]) => ~Answers
    /\ last' = Noted(seen[1])
    /\ seen' = Tail(seen)
    /\ alerted' = IF seen[1].status = "ok"
                  THEN [alerted EXCEPT ![seen[1].name] = [u \in User |-> 0]]
                  ELSE alerted
    /\ UNCHANGED <<health, notices, muted, reachable, admins, told, chances>>

RaiseAlert ==
    /\ seen # <<>> /\ notices["poller"] = Quiet
    /\ Degraded(seen[1]) /\ Answers
    /\ notices' = [notices EXCEPT !["poller"] =
            [topic |-> "admin_health_alert", left |-> admins, owner |-> 0]]
    /\ UNCHANGED <<health, last, seen, muted, reachable, admins, alerted, told,
                   chances>>

\* The status is noted after the notice, whatever became of it.
EndAlert ==
    /\ notices["poller"].topic = "admin_health_alert"
    /\ notices["poller"].left = {} \/ ~Answers
    /\ notices' = [notices EXCEPT !["poller"] = Quiet]
    /\ last' = Noted(seen[1])
    /\ seen' = Tail(seen)
    /\ UNCHANGED <<health, muted, reachable, admins, alerted, told, chances>>

TellAdmin(u) ==
    /\ u \in notices["poller"].left /\ Answers
    /\ notices' = [notices EXCEPT !["poller"].left = @ \ {u}]
    /\ alerted' = IF Listens(u, "admin_health_alert")
                  THEN [alerted EXCEPT ![seen[1].name][u] = @ + 1] ELSE alerted
    /\ UNCHANGED <<health, last, seen, muted, reachable, admins, told, chances>>

-----------------------------------------------------------------------------
(* A job that has failed: its owner is told, then the administrators.      *)

FailJob(owner) ==
    /\ notices["worker"] = Quiet
    /\ Take("jobs")
    /\ notices' = [notices EXCEPT !["worker"] =
            [topic |-> "job_failed", left |-> {owner}, owner |-> owner]]
    /\ told' = [u \in User |-> 0]
    /\ UNCHANGED <<health, last, seen, muted, reachable, admins, alerted>>

\* The owner has been told already.
OtherAdmins(owner) == admins \ {owner}

\* A notice that could not be sent does not keep the next from being sent.
TurnToAdmins ==
    /\ notices["worker"].topic = "job_failed"
    /\ notices["worker"].left = {} \/ ~Answers
    /\ notices' = [notices EXCEPT !["worker"] =
            IF Answers
            THEN [@ EXCEPT !.topic = "admin_job_failed",
                           !.left = OtherAdmins(notices["worker"].owner)]
            ELSE Quiet]
    /\ UNCHANGED <<health, last, seen, muted, reachable, admins, alerted, told,
                   chances>>

EndNotice ==
    /\ notices["worker"].topic = "admin_job_failed"
    /\ notices["worker"].left = {} \/ ~Answers
    /\ notices' = [notices EXCEPT !["worker"] = Quiet]
    /\ UNCHANGED <<health, last, seen, muted, reachable, admins, alerted, told,
                   chances>>

TellOf(u) ==
    /\ u \in notices["worker"].left /\ Answers
    /\ notices' = [notices EXCEPT !["worker"].left = @ \ {u}]
    /\ told' = IF Listens(u, notices["worker"].topic)
               THEN [told EXCEPT ![u] = @ + 1] ELSE told
    /\ UNCHANGED <<health, last, seen, muted, reachable, admins, alerted, chances>>

-----------------------------------------------------------------------------
(* Preferences and administrators.                                         *)

\* PATCH of a preference: topics for administrators are theirs alone to set.
SetTopic(u, topic, on) ==
    /\ Answers
    /\ Take("changes")
    /\ topic = "job_failed" \/ u \in admins
    /\ muted' = [muted EXCEPT ![u] = IF on THEN @ \ {topic} ELSE @ \cup {topic}]
    /\ UNCHANGED <<health, last, seen, notices, reachable, admins, alerted, told>>

\* Credentials that Pushover finds valid are saved; empty ones may be set.
SetCredentials(u, there) ==
    /\ Answers
    /\ Take("changes")
    /\ reachable' = IF there THEN reachable \cup {u} ELSE reachable \ {u}
    /\ UNCHANGED <<health, last, seen, notices, muted, admins, alerted, told>>

SetAdmin(u, on) ==
    /\ Answers
    /\ Take("changes")
    /\ admins' = IF on THEN admins \cup {u} ELSE admins \ {u}
    /\ UNCHANGED <<health, last, seen, notices, muted, reachable, alerted, told>>

-----------------------------------------------------------------------------
\* What the poller remembers is lost with the process.
NotifyStop ==
    /\ last' = [c \in Component |-> "ok"]
    /\ seen' = <<>>
    /\ notices' = [t \in Thread |-> Quiet]
    /\ alerted' = [c \in Component |-> [u \in User |-> 0]]
    /\ told' = [u \in User |-> 0]
    /\ UNCHANGED <<health, muted, reachable, admins, chances>>

NotifyInit ==
    /\ health = [c \in Component |-> "ok"]
    /\ last = [c \in Component |-> "ok"]
    /\ seen = <<>>
    /\ notices = [t \in Thread |-> Quiet]
    /\ muted = [u \in User |-> {}]
    /\ reachable = User
    /\ admins = {Admin}
    /\ alerted = [c \in Component |-> [u \in User |-> 0]]
    /\ told = [u \in User |-> 0]

PollerStep ==
    Poll \/ LookAway \/ RaiseAlert \/ EndAlert \/ \E u \in User : TellAdmin(u)

WorkerStep == TurnToAdmins \/ EndNotice \/ \E u \in User : TellOf(u)

ClientStep ==
    \/ \E u \in User, t \in Topic, on \in BOOLEAN : SetTopic(u, t, on)
    \/ \E u \in User, on \in BOOLEAN : SetCredentials(u, on) \/ SetAdmin(u, on)
    \/ \E u \in User : FailJob(u)

-----------------------------------------------------------------------------
(* Properties.                                                             *)

NotifyType ==
    /\ health \in [Component -> Status] /\ last \in [Component -> Status]
    /\ \A i \in 1..Len(seen) : seen[i] \in [name : Component, status : Status]
    /\ notices \in [Thread -> Notice]
    /\ muted \in [User -> SUBSET Topic]
    /\ reachable \subseteq User /\ admins \subseteq User
    /\ alerted \in [Component -> [User -> Nat]]
    /\ told \in [User -> Nat]

\* Nobody hears of anything twice.  Of an outage, however long it lasts, whatever
\* other components do and whoever is made an administrator meanwhile: a second
\* alert needs a check that found the component well (poll_once).  Of a failed
\* job, as its owner and as an administrator, though administrators change
\* between the notices (notify_admin_job_failed).
ToldOnce ==
    \A u \in User : told[u] <= 1 /\ \A c \in Component : alerted[c][u] <= 1

=============================================================================
