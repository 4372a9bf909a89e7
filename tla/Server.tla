------------------------------- MODULE Server -------------------------------
(***************************************************************************)
(* One process of the journal server: its settings and services, its       *)
(* health poller and its notices (mcp_server.py, _init_services).  They    *)
(* share the connection to the database, which may stop answering, and     *)
(* they start and stop together.                                           *)
(***************************************************************************)
EXTENDS Settings, Notifications

CONSTANT Loads   \* bounds: how often what is bounded may happen, one of them

ASSUME ServerAssumption ==
    Loads \subseteq
        [budget : [{"requests", "edits", "restarts"} -> Nat],
         chances : [{"health", "jobs", "changes"} -> Nat]]

vars == <<settingsVars, notifyVars>>

Init ==
    /\ SettingsInit /\ NotifyInit
    /\ \E l \in Loads : budget = l.budget /\ chances = l.chances

\* A setting is written if the database answers, and otherwise the write
\* raises.
ChangeSetting ==
    /\ \/ Answers /\ ApplyChange
       \/ ~Answers /\ ChangeRaises
    /\ UNCHANGED notifyVars

Serve == SettingsMove /\ UNCHANGED notifyVars

Watch == up /\ PollerStep /\ UNCHANGED settingsVars

Report == up /\ WorkerStep /\ UNCHANGED settingsVars

Ask == up /\ ClientStep /\ UNCHANGED settingsVars

Ail ==
    /\ \E c \in Component, s \in Status : HealthChanges(c, s)
    /\ UNCHANGED settingsVars

GoDown == Stop /\ NotifyStop

ComeUp == Answers /\ Start /\ UNCHANGED notifyVars

Next ==
    ChangeSetting \/ Serve \/ Watch \/ Report \/ Ask \/ Ail \/ GoDown \/ ComeUp

\* The poller is a thread that never ends while the server runs.
Spec == Init /\ [][Next]_vars /\ WF_vars(Watch)

-----------------------------------------------------------------------------
(* Properties.                                                             *)

\* Settings, services, checks and notices have their types.
TypeOK == SettingsType /\ NotifyType

\* An outage the poller has not noted is announced to every administrator who
\* listens, unless the component recovers, the administrator stops listening,
\* the database does not answer or the server stops: the alert that would tell
\* of the database needs the database (poll_once, notify_health_alert).
OutageHeard ==
    \A c \in Component, u \in User :
        (up /\ health[c] # "ok" /\ last[c] = "ok" /\ notices["poller"] = Quiet)
            ~> \/ alerted[c][u] > 0
               \/ u \notin admins \/ ~Listens(u, "admin_health_alert")
               \/ health[c] = "ok" \/ ~Answers \/ ~up

=============================================================================
