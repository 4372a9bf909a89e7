------------------------------ MODULE Accounts ------------------------------
(***************************************************************************)
(* Accounts of the journal: log-in with lock-out, sessions, API keys,      *)
(* registration, password reset and the middleware that admits requests    *)
(* (src/journal/services/auth.py, auth.py, auth_api.py and                 *)
(* db/user_repository.py).                                                 *)
(*                                                                         *)
(* Handlers run on one event loop, and every call they make is             *)
(* synchronous, so a handler is one step except where it awaits: the body  *)
(* of a request whose sender has already been admitted, and the mail sent  *)
(* by a registration.  Each write commits on its own.  A step is therefore *)
(* the list of databases its commits leave behind: it reaches the last of  *)
(* them, or a call raises and it stops at an earlier one.                  *)
(*                                                                         *)
(* Time is a clock.  Texts, names, last_seen_at and last_used_at are left  *)
(* out, as are requests that are turned away.                              *)
(***************************************************************************)
EXTENDS Integers, Sequences, FiniteSets

CONSTANTS
    User,         \* the accounts there may be, named by their email
    Admin,        \* the account that migration 0011 puts there
    Password,
    MaxFailed,    \* wrong passwords in a row that lock an account (5)
    LockTime,     \* how long it stays locked (15 minutes)
    ResetAge,     \* for how long a reset token is good (30 minutes)
    VerifyAge,    \* and a verification token (24 hours)
    Day,          \* the length of a day
    SessionDays,  \* the life of a session, in days (7)
    Flags,        \* what is_admin and is_active may be set to, as pairs
    KeyDays,      \* lives that are asked for API keys; 0 is one without end
    MaxSessions,  \* bound: sessions at a time
    MaxKeys,      \* bound: API keys
    MaxMails,     \* bound: mails with a token
    MaxHandlers,  \* bound: requests that are waiting for their body or a mail
    MaxTime,      \* bound: the clock
    MaxFaults     \* bound: calls that raise and crashes

Nobody == "nobody"
NoPassword == "none"

ASSUME AccountsAssumption ==
    /\ Admin \in User /\ Nobody \notin User /\ NoPassword \notin Password
    /\ MaxFailed \in Nat \ {0} /\ LockTime \in Nat \ {0} /\ Day \in Nat \ {0}
    /\ ResetAge \in Nat /\ VerifyAge \in Nat
    /\ SessionDays \in Nat /\ KeyDays \subseteq Nat
    /\ Flags \subseteq BOOLEAN \X BOOLEAN

ASSUME AccountsBounds ==
    /\ MaxSessions \in Nat /\ MaxKeys \in Nat /\ MaxMails \in Nat
    /\ MaxHandlers \in Nat /\ MaxTime \in Nat /\ MaxFaults \in Nat

Never == -1

SessionId == 1..MaxSessions
KeyId == 1..MaxKeys
HandlerId == 1..MaxHandlers
Time == Int

\* A row of users.  "there" says that the row exists.
Account == [there : BOOLEAN, hash : Password \cup {NoPassword},
            admin : BOOLEAN, active : BOOLEAN, verified : BOOLEAN,
            failed : Nat, locked : Time]

\* A row of user_sessions; by and via are no columns, but say which password
\* its owner had shown, and to which handler.
Session == [user : User \cup {Nobody}, expires : Time,
            by : Password \cup {NoPassword}, via : {"login", "register"}]

\* A row of api_keys.
Key == [user : User \cup {Nobody}, expires : Time, revoked : BOOLEAN]

\* A mail: its token is a signed email and the time of its signature.
Mail == [kind : {"reset", "verify"}, user : User, issued : Time]

\* A handler that is waiting for something.  user is who sent the request, or
\* who registers; password goes with a registration.
Waiting == [op : {"idle", "register", "mail", "key", "update"},
            user : User \cup {Nobody}, password : Password \cup {NoPassword}]

VARIABLES
    db,        \* users, sessions and keys
    mails,     \* the mails that were sent; any may arrive, late or never
    handlers,  \* the handlers that wait
    clock,
    torn,      \* users whose last password reset stopped half-way
    faults     \* calls that have raised, and crashes

vars == <<db, mails, handlers, clock, torn, faults>>

-----------------------------------------------------------------------------
(* The tables.                                                             *)

NoAccount == [there |-> FALSE, hash |-> NoPassword, admin |-> FALSE,
              active |-> TRUE, verified |-> FALSE, failed |-> 0,
              locked |-> Never]
NoSession == [user |-> Nobody, expires |-> 0, by |-> NoPassword, via |-> "login"]
NoKey == [user |-> Nobody, expires |-> Never, revoked |-> FALSE]
Idle == [op |-> "idle", user |-> Nobody, password |-> NoPassword]

\* expires_at has a "T" between date and time where datetime('now') has a
\* blank, which sorts first: on the same day the stored time is the later.
Later(stored, now) == stored \div Day >= now \div Day

Incremented(d, u) ==
    [d EXCEPT !.users[u].failed = d.users[u].failed + 1]

Unlocked(d, u) ==
    [d EXCEPT !.users[u].failed = 0, !.users[u].locked = Never]

\* Variant: the lock comes one failure late.
LockedLate(d, u) ==
    IF d.users[u].failed > MaxFailed
    THEN [d EXCEPT !.users[u].locked = clock + LockTime]
    ELSE d

LockedIfDue(d, u) ==
    IF d.users[u].failed >= MaxFailed
    THEN [d EXCEPT !.users[u].locked = clock + LockTime]
    ELSE d

Hashed(d, u, p) == [d EXCEPT !.users[u].hash = p]
Verified(d, u) == [d EXCEPT !.users[u].verified = TRUE]
Flagged(d, u, admin, active) ==
    [d EXCEPT !.users[u].admin = admin, !.users[u].active = active]

Created(d, u, p) ==
    [d EXCEPT !.users[u] = [NoAccount EXCEPT !.there = TRUE, !.hash = p]]

FreeSessions == {s \in SessionId : db.sessions[s].user = Nobody}
FreeKeys == {k \in KeyId : db.keys[k].user = Nobody}
Least(S) == CHOOSE x \in S : \A y \in S : x <= y

SessionAdded(d, s, u, p, via) ==
    [d EXCEPT !.sessions[s] =
        [user |-> u, expires |-> clock + SessionDays * Day, by |-> p, via |-> via]]

SessionDropped(d, s) == [d EXCEPT !.sessions[s] = NoSession]

\* Variant: a reset that leaves the sessions alone.
SessionsKept(d, u) == d

SessionsDropped(d, u) ==
    [d EXCEPT !.sessions = [s \in SessionId |->
        IF d.sessions[s].user = u THEN NoSession ELSE d.sessions[s]]]

KeyAdded(d, k, u, days) ==
    [d EXCEPT !.keys[k] =
        [user |-> u, revoked |-> FALSE,
         expires |-> IF days = 0 THEN Never ELSE clock + days * Day]]

KeyRevoked(d, k) == [d EXCEPT !.keys[k].revoked = TRUE]

-----------------------------------------------------------------------------
(* Commits.                                                                *)

Settles(states) == db' = states[Len(states)] /\ UNCHANGED faults

\* A call raises after some of the commits; the statement that raised may
\* stay for the next commit to keep.
Raises(states) ==
    /\ faults < MaxFaults
    /\ faults' = faults + 1
    /\ \E i \in 0..Len(states) : db' = (<<db>> \o states)[i + 1]

Commits(states) == Settles(states) \/ Raises(states)

-----------------------------------------------------------------------------
(* Who is asking.                                                          *)

SessionValid(s) ==
    db.sessions[s].user # Nobody /\ Later(db.sessions[s].expires, clock)

KeyValid(k) ==
    /\ db.keys[k].user # Nobody
    /\ ~db.keys[k].revoked
    /\ db.keys[k].expires = Never \/ Later(db.keys[k].expires, clock)

\* A request carries a session or a key, or both: then a session that does
\* not hold is no obstacle to the key.
Bearers ==
    {db.sessions[s].user : s \in {x \in SessionId : SessionValid(x)}}
        \cup {db.keys[k].user : k \in {x \in KeyId : KeyValid(x)}}

\* The senders the middleware lets pass to a route.
AdmittedUnverified == {u \in Bearers : db.users[u].active}
Admitted == {u \in AdmittedUnverified : db.users[u].verified}

-----------------------------------------------------------------------------
(* Log-in and log-out.                                                     *)

Locked(u) == db.users[u].locked # Never /\ db.users[u].locked > clock

\* Variant: every attempt starts from a clean account.
OpenedAlways(u) == Unlocked(db, u)

\* A lock that has run out is cleared before anything else is looked at.
Opened(u) == IF db.users[u].locked # Never THEN Unlocked(db, u) ELSE db

\* The account is disabled or has no password: no attempt is counted.
LoginRefused(u) ==
    /\ db.users[u].there /\ ~Locked(u)
    /\ ~db.users[u].active \/ db.users[u].hash = NoPassword
    /\ Commits(<<Opened(u)>>)
    /\ UNCHANGED <<mails, handlers, clock, torn>>

LoginFails(u, p) ==
    /\ db.users[u].there /\ ~Locked(u)
    /\ db.users[u].active /\ db.users[u].hash \notin {NoPassword, p}
    /\ LET counted == Incremented(Opened(u), u)
       IN  Commits(<<Opened(u), counted, LockedIfDue(counted, u)>>)
    /\ UNCHANGED <<mails, handlers, clock, torn>>

LoginSucceeds(u, p) ==
    /\ db.users[u].there /\ ~Locked(u)
    /\ db.users[u].active /\ db.users[u].hash = p
    /\ FreeSessions # {}
    /\ LET cleared == Unlocked(Opened(u), u)
       IN  Commits(<<Opened(u), cleared,
                     SessionAdded(cleared, Least(FreeSessions), u, p, "login")>>)
    /\ UNCHANGED <<mails, handlers, clock, torn>>

\* The cookie names the session to delete; the key may be what admits.
Logout(s) ==
    /\ AdmittedUnverified # {}
    /\ db.sessions[s].user # Nobody
    /\ Commits(<<SessionDropped(db, s)>>)
    /\ UNCHANGED <<mails, handlers, clock, torn>>

-----------------------------------------------------------------------------
(* Registration.                                                           *)

Occupy(w) ==
    /\ \E h \in HandlerId : handlers[h] = Idle
    /\ handlers' = [handlers EXCEPT
            ![Least({h \in HandlerId : handlers[h] = Idle})] = w]

Release(h) == handlers' = [handlers EXCEPT ![h] = Idle]

\* Whether registration is enabled is looked up before the body is read.
BeginRegister(u, p) ==
    /\ Occupy([op |-> "register", user |-> u, password |-> p])
    /\ UNCHANGED <<db, mails, clock, torn, faults>>

EmailTaken(h) ==
    /\ handlers[h].op = "register"
    /\ db.users[handlers[h].user].there
    /\ Release(h)
    /\ UNCHANGED <<db, mails, clock, torn, faults>>

Post(kind, u) == mails' = mails \cup {[kind |-> kind, user |-> u, issued |-> clock]}

RegisterUser(h) ==
    LET u == handlers[h].user
        states == <<Created(db, u, handlers[h].password)>>
    IN  /\ handlers[h].op = "register"
        /\ ~db.users[u].there
        /\ Cardinality(mails) < MaxMails
        /\ \/ /\ Settles(states)
              /\ handlers' = [handlers EXCEPT ![h].op = "mail"]
              /\ Post("verify", u)
           \/ Raises(states) /\ Release(h) /\ UNCHANGED mails
        /\ UNCHANGED <<clock, torn>>

\* The mail is out, or has failed; either way a session is opened.
OpenFirstSession(h) ==
    /\ handlers[h].op = "mail"
    /\ FreeSessions # {}
    /\ Commits(<<SessionAdded(db, Least(FreeSessions), handlers[h].user,
                              handlers[h].password, "register")>>)
    /\ Release(h)
    /\ UNCHANGED <<mails, clock, torn>>

-----------------------------------------------------------------------------
(* Mailed tokens.  A token says nothing of the state it was made in, and   *)
(* can be used again while its time lasts.                                 *)

\* Variant: a mail to whatever address was typed.
ForgotAnyone(u) ==
    /\ Cardinality(mails) < MaxMails
    /\ Post("reset", u)
    /\ UNCHANGED <<db, handlers, clock, torn, faults>>

ForgotPassword(u) ==
    /\ db.users[u].there
    /\ Cardinality(mails) < MaxMails
    /\ Post("reset", u)
    /\ UNCHANGED <<db, handlers, clock, torn, faults>>

ResendVerification(u) ==
    /\ u \in AdmittedUnverified /\ ~db.users[u].verified
    /\ Cardinality(mails) < MaxMails
    /\ Post("verify", u)
    /\ UNCHANGED <<db, handlers, clock, torn, faults>>

\* The hash, then the lock, then the sessions.
ResetWrites(u, p) ==
    LET hashed == Hashed(db, u, p)
        opened == Unlocked(hashed, u)
    IN  <<hashed, opened, SessionsDropped(opened, u)>>

ResetPassword(m, p) ==
    /\ m.kind = "reset" /\ clock - m.issued <= ResetAge
    /\ \/ Settles(ResetWrites(m.user, p)) /\ torn' = torn \ {m.user}
       \/ Raises(ResetWrites(m.user, p)) /\ torn' = torn \cup {m.user}
    /\ UNCHANGED <<mails, handlers, clock>>

VerifyEmail(m) ==
    /\ m.kind = "verify" /\ clock - m.issued <= VerifyAge
    /\ db.users[m.user].there
    /\ Commits(<<Verified(db, m.user)>>)
    /\ UNCHANGED <<mails, handlers, clock, torn>>

-----------------------------------------------------------------------------
(* API keys and the administration of users.                               *)

BeginCreateKey(u) ==
    /\ u \in Admitted
    /\ Occupy([op |-> "key", user |-> u, password |-> NoPassword])
    /\ UNCHANGED <<db, mails, clock, torn, faults>>

CreateKey(h, days) ==
    /\ handlers[h].op = "key"
    /\ FreeKeys # {}
    /\ Commits(<<KeyAdded(db, Least(FreeKeys), handlers[h].user, days)>>)
    /\ Release(h)
    /\ UNCHANGED <<mails, clock, torn>>

RevokeKey(k) ==
    /\ db.keys[k].user \in Admitted /\ ~db.keys[k].revoked
    /\ Commits(<<KeyRevoked(db, k)>>)
    /\ UNCHANGED <<mails, handlers, clock, torn>>

BeginUpdateUser(u) ==
    /\ u \in Admitted /\ db.users[u].admin
    /\ Occupy([op |-> "update", user |-> u, password |-> NoPassword])
    /\ UNCHANGED <<db, mails, clock, torn, faults>>

UpdateUser(h, u, admin, active) ==
    /\ handlers[h].op = "update"
    /\ db.users[u].there
    /\ Commits(<<Flagged(db, u, admin, active)>>)
    /\ Release(h)
    /\ UNCHANGED <<mails, clock, torn>>

\* A body that cannot be used, or a sender who hangs up.
Abandon(h) ==
    /\ handlers[h].op \in {"register", "key", "update"}
    /\ Release(h)
    /\ UNCHANGED <<db, mails, clock, torn, faults>>

-----------------------------------------------------------------------------
Crash ==
    /\ faults < MaxFaults
    /\ faults' = faults + 1
    /\ handlers' = [h \in HandlerId |-> Idle]
    /\ UNCHANGED <<db, mails, clock, torn>>

Tick == clock < MaxTime /\ clock' = clock + 1
            /\ UNCHANGED <<db, mails, handlers, torn, faults>>

Init ==
    /\ db = [users |-> [u \in User |->
                 IF u = Admin
                 THEN [NoAccount EXCEPT !.there = TRUE, !.admin = TRUE,
                                        !.verified = TRUE]
                 ELSE NoAccount],
             sessions |-> [s \in SessionId |-> NoSession],
             keys |-> [k \in KeyId |-> NoKey]]
    /\ mails = {}
    /\ handlers = [h \in HandlerId |-> Idle]
    /\ clock = 0
    /\ torn = {}
    /\ faults = 0

Login ==
    \E u \in User :
        \/ LoginRefused(u)
        \/ \E p \in Password : LoginFails(u, p) \/ LoginSucceeds(u, p)

Register ==
    \/ \E u \in User, p \in Password : BeginRegister(u, p)
    \/ \E h \in HandlerId : EmailTaken(h) \/ RegisterUser(h) \/ OpenFirstSession(h)

Recover ==
    \/ \E u \in User : ForgotPassword(u) \/ ResendVerification(u)
    \/ \E m \in mails : VerifyEmail(m) \/ \E p \in Password : ResetPassword(m, p)

Manage ==
    \/ \E u \in User : BeginCreateKey(u) \/ BeginUpdateUser(u)
    \/ \E h \in HandlerId, days \in KeyDays : CreateKey(h, days)
    \/ \E h \in HandlerId, u \in User, f \in Flags : UpdateUser(h, u, f[1], f[2])
    \/ \E k \in KeyId : RevokeKey(k)

Next ==
    \/ Login
    \/ \E s \in SessionId : Logout(s)
    \/ Register
    \/ Recover
    \/ Manage
    \/ \E h \in HandlerId : Abandon(h)
    \/ Crash
    \/ Tick

Spec == Init /\ [][Next]_vars

-----------------------------------------------------------------------------
(* Properties.                                                             *)

Tables ==
    /\ db = [users |-> db.users, sessions |-> db.sessions, keys |-> db.keys]
    /\ db.users \in [User -> Account]
    /\ db.sessions \in [SessionId -> Session]
    /\ db.keys \in [KeyId -> Key]

\* Whatever refers to a user refers to one that exists.
Referring ==
    /\ \A u \in User : ~db.users[u].there => db.users[u] = NoAccount
    /\ \A s \in SessionId : db.sessions[s].user # Nobody
                                => db.users[db.sessions[s].user].there
    /\ \A k \in KeyId : db.keys[k].user # Nobody
                                => db.users[db.keys[k].user].there
    /\ \A m \in mails : db.users[m.user].there
    /\ \A h \in HandlerId : handlers[h].op \in {"mail", "key"}
                                => db.users[handlers[h].user].there

\* Every variable has its type, and sessions, keys, mailed tokens and waiting
\* handlers are of users that exist: rows of users are never deleted, and
\* registration and forgot-password look before they write (auth_api.py).
TypeOK ==
    /\ Tables /\ Referring
    /\ mails \subseteq Mail
    /\ handlers \in [HandlerId -> Waiting]
    /\ \A h \in HandlerId : handlers[h].op # "idle" => handlers[h].user \in User
    /\ \A h \in HandlerId : handlers[h].op \in {"register", "mail"}
                                => handlers[h].password \in Password
    /\ clock \in Nat /\ torn \subseteq User /\ faults \in Nat

\* The lock and the failure counter, written by three separate statements
\* (authenticate, reset_password), go together: a locked account has the
\* failures that lock it; without a raising call, one that has them is locked;
\* and each raising call gives away at most one further guess.
LockFollowsCount ==
    \A u \in User : LET r == db.users[u] IN
        /\ r.locked # Never => r.failed >= MaxFailed
        /\ faults = 0 /\ r.failed >= MaxFailed => r.locked # Never
        /\ r.failed <= MaxFailed + faults

\* Failures in a row are forgotten for four reasons only: the owner logs in,
\* the password is reset, the lock has run out (authenticate), or one of these
\* was cut off by a raising call.
Forgotten(u) == db'.users[u].failed < db.users[u].failed
LogsIn(u) ==
    \E s \in SessionId : db.sessions[s].user = Nobody /\ db'.sessions[s].user = u
PasswordIsReset(u) ==
    \E m \in mails : m.kind = "reset" /\ m.user = u /\ clock - m.issued <= ResetAge
LockRanOut(u) == db.users[u].locked # Never /\ db.users[u].locked <= clock

CountStands ==
    \A u \in User : Forgotten(u) =>
        LogsIn(u) \/ PasswordIsReset(u) \/ LockRanOut(u) \/ faults' # faults

CountKept == [][CountStands]_vars

\* A session that was opened with a password does not outlive it: after a
\* reset (reset_password) all sessions were opened with the new password,
\* except where a reset stopped half-way.  Sessions that a registration opens
\* after its mail are not covered: the account may have been reset meanwhile.
SessionsFollowPassword ==
    \A s \in SessionId :
        db.sessions[s].user # Nobody /\ db.sessions[s].via = "login" =>
            \/ db.sessions[s].by = db.users[db.sessions[s].user].hash
            \/ db.sessions[s].user \in torn

\* docs/auth.md: sessions expire after their number of days.
SessionsEnd ==
    \A s \in SessionId : SessionValid(s) => db.sessions[s].expires > clock

=============================================================================
