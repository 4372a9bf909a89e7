--------------------------- MODULE AccountsProofs ---------------------------
(***************************************************************************)
(* Proofs about Accounts, for every value of its constants.                *)
(***************************************************************************)
EXTENDS Accounts, WellFoundedInduction, TLAPS

USE AccountsAssumption, AccountsBounds

LEMMA NeverTime ==
    /\ Never \in Time
    /\ \A c \in Nat : c + LockTime \in Time /\ c + LockTime # Never
BY DEF Never, Time

-----------------------------------------------------------------------------
(* What every database that a commit leaves behind has.                    *)

Tabled(d) ==
    /\ d = [users |-> d.users, sessions |-> d.sessions, keys |-> d.keys]
    /\ d.users \in [User -> Account]
    /\ d.sessions \in [SessionId -> Session]
    /\ d.keys \in [KeyId -> Key]

Refers(d) ==
    /\ \A u \in User : ~d.users[u].there => d.users[u] = NoAccount
    /\ \A s \in SessionId : d.sessions[s].user # Nobody
                                => d.users[d.sessions[s].user].there
    /\ \A k \in KeyId : d.keys[k].user # Nobody
                                => d.users[d.keys[k].user].there

\* With n raising calls so far.  An account that is not locked has a guess
\* left; one that is locked has the failures that lock it.
Counted(r, n) ==
    /\ r.locked = Never => r.failed < MaxFailed + n
    /\ r.locked # Never => MaxFailed <= r.failed /\ r.failed <= MaxFailed + n

Follow(d, T) ==
    \A s \in SessionId :
        d.sessions[s].user # Nobody /\ d.sessions[s].via = "login" =>
            \/ d.sessions[s].by = d.users[d.sessions[s].user].hash
            \/ d.sessions[s].user \in T

Fine(d, n, T) ==
    /\ Tabled(d) /\ Refers(d)
    /\ \A u \in User : Counted(d.users[u], n)
    /\ Follow(d, T)

\* Rows of users are never deleted.
Grows(d, e) == \A u \in User : d.users[u].there => e.users[u].there

\* What the rest of the state has.
Waits ==
    /\ mails \subseteq Mail
    /\ handlers \in [HandlerId -> Waiting]
    /\ \A h \in HandlerId : handlers[h].op # "idle" => handlers[h].user \in User
    /\ \A h \in HandlerId : handlers[h].op \in {"register", "mail"}
                                => handlers[h].password \in Password
    /\ clock \in Nat /\ torn \subseteq User /\ faults \in Nat

Known ==
    /\ \A m \in mails : db.users[m.user].there
    /\ \A h \in HandlerId : handlers[h].op \in {"mail", "key"}
                                => db.users[handlers[h].user].there

Inv == Fine(db, faults, torn) /\ Waits /\ Known

LEMMA InvImplies == Inv => TypeOK /\ LockFollowsCount /\ SessionsFollowPassword
<1> SUFFICES ASSUME Inv PROVE TypeOK /\ LockFollowsCount /\ SessionsFollowPassword
  OBVIOUS
<1>1. TypeOK
  BY DEF Inv, Fine, Tabled, Refers, Waits, Known, TypeOK, Tables, Referring
<1>2. LockFollowsCount
  <2> SUFFICES ASSUME NEW u \in User
               PROVE  /\ db.users[u].locked # Never => db.users[u].failed >= MaxFailed
                      /\ faults = 0 /\ db.users[u].failed >= MaxFailed
                            => db.users[u].locked # Never
                      /\ db.users[u].failed <= MaxFailed + faults
    BY DEF LockFollowsCount
  <2>1. db.users[u] \in Account /\ faults \in Nat
    BY DEF Inv, Fine, Tabled, Waits
  <2>2. db.users[u].failed \in Nat
    BY <2>1 DEF Account
  <2>3. Counted(db.users[u], faults)
    BY DEF Inv, Fine
  <2> QED
    BY <2>1, <2>2, <2>3 DEF Counted
<1>3. SessionsFollowPassword
  BY DEF Inv, Fine, Follow, SessionsFollowPassword
<1> QED
  BY <1>1, <1>2, <1>3

LEMMA FineLater ==
    ASSUME NEW d, NEW n \in Nat, NEW m \in Nat, n <= m, NEW T, NEW U, T \subseteq U,
           Fine(d, n, T)
    PROVE  Fine(d, m, U)
<1>1. \A u \in User : Counted(d.users[u], m)
  <2> SUFFICES ASSUME NEW u \in User PROVE Counted(d.users[u], m)
    OBVIOUS
  <2>1. d.users[u] \in Account /\ Counted(d.users[u], n)
    BY DEF Fine, Tabled
  <2>2. d.users[u].failed \in Nat
    BY <2>1 DEF Account
  <2> QED
    BY <2>1, <2>2 DEF Counted
<1>2. Follow(d, U)
  BY DEF Fine, Follow
<1> QED
  BY <1>1, <1>2 DEF Fine

-----------------------------------------------------------------------------
(* One row of a table is written.                                          *)

LEMMA UserSet ==
    ASSUME NEW d, Tabled(d), NEW u \in User, NEW r \in Account
    PROVE  LET e == [d EXCEPT !.users[u] = r] IN
           /\ Tabled(e)
           /\ e.users = [d.users EXCEPT ![u] = r]
           /\ e.sessions = d.sessions /\ e.keys = d.keys
BY DEF Tabled

LEMMA SessionSet ==
    ASSUME NEW d, Tabled(d), NEW f \in [SessionId -> Session]
    PROVE  LET e == [d EXCEPT !.sessions = f] IN
           /\ Tabled(e)
           /\ e.users = d.users /\ e.sessions = f /\ e.keys = d.keys
BY DEF Tabled

LEMMA KeySet ==
    ASSUME NEW d, Tabled(d), NEW f \in [KeyId -> Key]
    PROVE  LET e == [d EXCEPT !.keys = f] IN
           /\ Tabled(e)
           /\ e.users = d.users /\ e.sessions = d.sessions /\ e.keys = f
BY DEF Tabled

\* A row of a user that exists, or that nobody refers to, is written; the
\* sessions opened with a password follow it, or are excused.
LEMMA UserWritten ==
    ASSUME NEW d, NEW n, NEW m, NEW T, NEW U, NEW u \in User, NEW r \in Account,
           Fine(d, n, T), r.there, Counted(r, m),
           \A v \in User \ {u} : Counted(d.users[v], m),
           T \subseteq U,
           r.hash = d.users[u].hash \/ u \in U \/ ~d.users[u].there
    PROVE  LET e == [d EXCEPT !.users[u] = r] IN Fine(e, m, U) /\ Grows(d, e)
<1> DEFINE e == [d EXCEPT !.users[u] = r]
<1>1. /\ Tabled(e) /\ Tabled(d)
      /\ e.users = [d.users EXCEPT ![u] = r]
      /\ e.sessions = d.sessions /\ e.keys = d.keys
  BY UserSet DEF Fine
<1> HIDE DEF e
<1>2. Refers(e)
  BY <1>1 DEF Fine, Refers, Tabled
<1>3. \A v \in User : Counted(e.users[v], m)
  BY <1>1 DEF Tabled
<1>4. Follow(e, U)
  <2> SUFFICES ASSUME NEW s \in SessionId, d.sessions[s].user # Nobody,
                      d.sessions[s].via = "login"
               PROVE  \/ d.sessions[s].by = e.users[d.sessions[s].user].hash
                      \/ d.sessions[s].user \in U
    BY <1>1 DEF Follow
  <2>1. d.sessions[s].user \in User
    BY <1>1 DEF Tabled, Session
  <2>2. \/ d.sessions[s].by = d.users[d.sessions[s].user].hash
        \/ d.sessions[s].user \in T
    BY DEF Fine, Follow
  <2>3. d.users[d.sessions[s].user].there
    BY DEF Fine, Refers
  <2> QED
    BY <1>1, <2>1, <2>2, <2>3 DEF Tabled
<1>5. Grows(d, e)
  BY <1>1 DEF Grows, Tabled
<1> QED
  BY <1>1, <1>2, <1>3, <1>4, <1>5 DEF Fine, e

\* The common case: only the columns of the lock change, or none of these.
LEMMA RowFine ==
    ASSUME NEW d, NEW n \in Nat, NEW T, Fine(d, n, T), NEW u \in User,
           NEW r \in Account, r.there, r.hash = d.users[u].hash, Counted(r, n)
    PROVE  LET e == [d EXCEPT !.users[u] = r] IN Fine(e, n, T) /\ Grows(d, e)
<1>1. \A v \in User \ {u} : Counted(d.users[v], n)
  BY DEF Fine
<1>2. T \subseteq T
  OBVIOUS
<1> QED
  BY <1>1, <1>2, UserWritten

LEMMA UnlockedFine ==
    ASSUME NEW d, NEW n \in Nat, NEW T, Fine(d, n, T), NEW u \in User,
           d.users[u].there
    PROVE  Fine(Unlocked(d, u), n, T) /\ Grows(d, Unlocked(d, u))
<1> DEFINE r == [d.users[u] EXCEPT !.failed = 0, !.locked = Never]
<1>1. d.users[u] \in Account /\ Tabled(d)
  BY DEF Fine, Tabled
<1>2. r \in Account /\ r.there /\ r.failed = 0 /\ r.locked = Never
      /\ r.hash = d.users[u].hash
  BY <1>1, NeverTime DEF Account
<1>3. Unlocked(d, u) = [d EXCEPT !.users[u] = r]
  BY <1>1 DEF Unlocked, Tabled
<1>4. Counted(r, n)
  BY <1>2 DEF Counted
<1> HIDE DEF r
<1> QED
  BY <1>2, <1>3, <1>4, RowFine

\* Setting other columns than the hash and the lock keeps everything.
LEMMA FlagsFine ==
    ASSUME NEW d, NEW n \in Nat, NEW T, Fine(d, n, T), NEW u \in User,
           d.users[u].there, NEW r \in Account, r.there,
           r.hash = d.users[u].hash, r.failed = d.users[u].failed,
           r.locked = d.users[u].locked
    PROVE  LET e == [d EXCEPT !.users[u] = r] IN Fine(e, n, T) /\ Grows(d, e)
<1>1. Counted(r, n)
  BY DEF Fine, Counted
<1> QED
  BY <1>1, RowFine

LEMMA VerifiedFine ==
    ASSUME NEW d, NEW n \in Nat, NEW T, Fine(d, n, T), NEW u \in User,
           d.users[u].there
    PROVE  Fine(Verified(d, u), n, T) /\ Grows(d, Verified(d, u))
<1> DEFINE r == [d.users[u] EXCEPT !.verified = TRUE]
<1>1. d.users[u] \in Account /\ Tabled(d)
  BY DEF Fine, Tabled
<1>2. /\ r \in Account /\ r.there
      /\ r.hash = d.users[u].hash /\ r.failed = d.users[u].failed
      /\ r.locked = d.users[u].locked
  BY <1>1 DEF Account
<1>3. Verified(d, u) = [d EXCEPT !.users[u] = r]
  BY <1>1 DEF Verified, Tabled
<1> HIDE DEF r
<1> QED
  BY <1>2, <1>3, FlagsFine

LEMMA FlaggedFine ==
    ASSUME NEW d, NEW n \in Nat, NEW T, Fine(d, n, T), NEW u \in User,
           d.users[u].there, NEW admin \in BOOLEAN, NEW active \in BOOLEAN
    PROVE  /\ Fine(Flagged(d, u, admin, active), n, T)
           /\ Grows(d, Flagged(d, u, admin, active))
<1> DEFINE r == [d.users[u] EXCEPT !.admin = admin, !.active = active]
<1>1. d.users[u] \in Account /\ Tabled(d)
  BY DEF Fine, Tabled
<1>2. /\ r \in Account /\ r.there
      /\ r.hash = d.users[u].hash /\ r.failed = d.users[u].failed
      /\ r.locked = d.users[u].locked
  BY <1>1 DEF Account
<1>3. Flagged(d, u, admin, active) = [d EXCEPT !.users[u] = r]
  BY <1>1 DEF Flagged, Tabled
<1> HIDE DEF r
<1> QED
  BY <1>2, <1>3, FlagsFine

\* A failure is counted: alone it may use up the guess that a raising call
\* gives; together with the lock it needs none.
LEMMA IncrementedFine ==
    ASSUME NEW d, NEW n \in Nat, NEW T, Fine(d, n, T), NEW u \in User,
           d.users[u].there, d.users[u].locked = Never, clock \in Nat
    PROVE  LET counted == Incremented(d, u)
               locked == LockedIfDue(counted, u) IN
           /\ Fine(counted, n + 1, T) /\ Grows(d, counted)
           /\ Fine(locked, n, T) /\ Grows(d, locked)
           /\ Fine(locked, n + 1, T)
<1> DEFINE r == [d.users[u] EXCEPT !.failed = d.users[u].failed + 1]
           q == [d.users[u] EXCEPT !.failed = d.users[u].failed + 1,
                                   !.locked = clock + LockTime]
<1>1. d.users[u] \in Account /\ Tabled(d) /\ d.users[u].failed \in Nat
  BY DEF Fine, Tabled, Account
<1>2. /\ r \in Account /\ r.there /\ r.hash = d.users[u].hash
      /\ r.failed = d.users[u].failed + 1 /\ r.locked = Never
  BY <1>1 DEF Account
<1>3. /\ q \in Account /\ q.there /\ q.hash = d.users[u].hash
      /\ q.failed = d.users[u].failed + 1 /\ q.locked # Never
  <2>1. clock + LockTime \in Time /\ clock + LockTime # Never
    BY NeverTime
  <2>2. d.users[u].failed + 1 \in Nat
    BY <1>1
  <2> QED
    BY <1>1, <2>1, <2>2 DEF Account
<1>4. Incremented(d, u) = [d EXCEPT !.users[u] = r]
  BY <1>1 DEF Incremented, Tabled
<1>5. d.users[u].failed < MaxFailed + n
  BY DEF Fine, Counted
<1>6. \A v \in User \ {u} : Counted(d.users[v], n) /\ Counted(d.users[v], n + 1)
  BY FineLater, T \subseteq T DEF Fine
<1>7. Counted(r, n + 1)
  BY <1>1, <1>2, <1>5 DEF Counted
<1>8. Fine(Incremented(d, u), n + 1, T) /\ Grows(d, Incremented(d, u))
  <2> HIDE DEF r
  <2> QED BY <1>2, <1>4, <1>6, <1>7, UserWritten
<1>9. /\ Fine(LockedIfDue(Incremented(d, u), u), n, T)
      /\ Grows(d, LockedIfDue(Incremented(d, u), u))
  <2>1. Incremented(d, u).users[u] = r
    BY <1>1, <1>4 DEF Tabled
  <2>2. CASE r.failed >= MaxFailed
    <3>0. LockedIfDue(Incremented(d, u), u) =
              [Incremented(d, u) EXCEPT !.users[u].locked = clock + LockTime]
      BY <2>1, <2>2 DEF LockedIfDue
    <3>1. LockedIfDue(Incremented(d, u), u) = [d EXCEPT !.users[u] = q]
      BY ZenonT(40), <1>1, <1>4, <3>0 DEF Tabled
    <3>2. Counted(q, n)
      BY <1>1, <1>2, <1>3, <1>5, <2>2 DEF Counted
    <3> HIDE DEF q
    <3> QED BY <1>3, <3>1, <3>2, RowFine
  <2>3. CASE ~(r.failed >= MaxFailed)
    <3>1. LockedIfDue(Incremented(d, u), u) = [d EXCEPT !.users[u] = r]
      BY <1>4, <2>1, <2>3 DEF LockedIfDue
    <3>2. Counted(r, n)
      BY <1>1, <1>2, <2>3 DEF Counted
    <3> HIDE DEF r
    <3> QED BY <1>2, <3>1, <3>2, RowFine
  <2> QED BY <2>2, <2>3
<1> QED
  BY <1>8, <1>9, FineLater, T \subseteq T

LEMMA CreatedFine ==
    ASSUME NEW d, NEW n \in Nat, NEW T, Fine(d, n, T), NEW u \in User,
           ~d.users[u].there, NEW p \in Password
    PROVE  Fine(Created(d, u, p), n, T) /\ Grows(d, Created(d, u, p))
<1> DEFINE r == [NoAccount EXCEPT !.there = TRUE, !.hash = p]
<1>1. Tabled(d)
  BY DEF Fine
<1>2. r \in Account /\ r.there /\ r.failed = 0 /\ r.locked = Never
  BY NeverTime DEF Account, NoAccount
<1>3. Created(d, u, p) = [d EXCEPT !.users[u] = r]
  BY DEF Created
<1>4. Counted(r, n)
  BY <1>2 DEF Counted
<1>5. \A v \in User \ {u} : Counted(d.users[v], n)
  BY DEF Fine
<1> HIDE DEF r
<1> QED
  BY <1>2, <1>3, <1>4, <1>5, UserWritten

LEMMA HashedFine ==
    ASSUME NEW d, NEW n \in Nat, NEW T, Fine(d, n, T), NEW u \in User,
           d.users[u].there, NEW p \in Password
    PROVE  /\ Fine(Hashed(d, u, p), n, T \cup {u})
           /\ Grows(d, Hashed(d, u, p))
<1> DEFINE r == [d.users[u] EXCEPT !.hash = p]
<1>1. d.users[u] \in Account /\ Tabled(d) /\ Counted(d.users[u], n)
  BY DEF Fine, Tabled
<1>2. /\ r \in Account /\ r.there /\ r.failed = d.users[u].failed
      /\ r.locked = d.users[u].locked
  BY <1>1 DEF Account
<1>3. Hashed(d, u, p) = [d EXCEPT !.users[u] = r]
  BY <1>1 DEF Hashed, Tabled
<1>4. Counted(r, n)
  BY <1>1, <1>2 DEF Counted
<1>5. \A v \in User \ {u} : Counted(d.users[v], n)
  BY DEF Fine
<1> HIDE DEF r
<1> QED
  BY <1>2, <1>3, <1>4, <1>5, UserWritten

-----------------------------------------------------------------------------
(* Sessions and keys.                                                      *)

LEMMA SessionsWritten ==
    ASSUME NEW d, NEW n \in Nat, NEW T, NEW U, Fine(d, n, T),
           NEW f \in [SessionId -> Session],
           \A s \in SessionId : f[s].user # Nobody =>
                /\ d.users[f[s].user].there
                /\ f[s].via = "login" =>
                      f[s].by = d.users[f[s].user].hash \/ f[s].user \in U
    PROVE  LET e == [d EXCEPT !.sessions = f] IN Fine(e, n, U) /\ Grows(d, e)
<1> DEFINE e == [d EXCEPT !.sessions = f]
<1>1. /\ Tabled(e)
      /\ e.users = d.users /\ e.sessions = f /\ e.keys = d.keys
  BY SessionSet DEF Fine
<1> HIDE DEF e
<1>2. Refers(e)
  BY <1>1 DEF Fine, Refers
<1>3. \A v \in User : Counted(e.users[v], n)
  BY <1>1 DEF Fine
<1>4. Follow(e, U)
  BY <1>1 DEF Follow
<1>5. Grows(d, e)
  BY <1>1 DEF Grows
<1> QED
  BY <1>1, <1>2, <1>3, <1>4, <1>5 DEF Fine, e

LEMMA NoSessionTyped == NoSession \in Session /\ NoSession.user = Nobody
BY DEF NoSession, Session, Time

LEMMA SessionAddedFine ==
    ASSUME NEW d, NEW n \in Nat, NEW T, Fine(d, n, T), NEW s \in SessionId,
           NEW u \in User, d.users[u].there, NEW p \in Password,
           NEW via \in {"login", "register"},
           via = "register" \/ p = d.users[u].hash, clock \in Nat
    PROVE  /\ Fine(SessionAdded(d, s, u, p, via), n, T)
           /\ Grows(d, SessionAdded(d, s, u, p, via))
<1> DEFINE x == [user |-> u, expires |-> clock + SessionDays * Day, by |-> p,
                 via |-> via]
           f == [d.sessions EXCEPT ![s] = x]
<1>1. Tabled(d)
  BY DEF Fine
<1>2. clock + SessionDays * Day \in Time
  BY DEF Time
<1>3. x \in Session /\ x.user = u /\ x.by = p /\ x.via = via
  BY <1>2 DEF Session
<1>4. SessionAdded(d, s, u, p, via) = [d EXCEPT !.sessions = f]
  BY <1>1 DEF SessionAdded, Tabled
<1> HIDE DEF x
<1>5. f \in [SessionId -> Session]
  BY <1>1, <1>3 DEF Tabled
<1>6. \A t \in SessionId : f[t] = IF t = s THEN x ELSE d.sessions[t]
  BY <1>1 DEF Tabled
<1> HIDE DEF f
<1>7. \A t \in SessionId : f[t].user # Nobody =>
         /\ d.users[f[t].user].there
         /\ f[t].via = "login" =>
               f[t].by = d.users[f[t].user].hash \/ f[t].user \in T
  BY <1>3, <1>6 DEF Fine, Refers, Follow
<1>8. /\ Fine([d EXCEPT !.sessions = f], n, T)
      /\ Grows(d, [d EXCEPT !.sessions = f])
  BY <1>5, <1>7, SessionsWritten
<1> QED
  BY <1>4, <1>8

LEMMA SessionDroppedFine ==
    ASSUME NEW d, NEW n \in Nat, NEW T, Fine(d, n, T), NEW s \in SessionId
    PROVE  /\ Fine(SessionDropped(d, s), n, T)
           /\ Grows(d, SessionDropped(d, s))
<1> DEFINE f == [d.sessions EXCEPT ![s] = NoSession]
<1>1. Tabled(d)
  BY DEF Fine
<1>2. SessionDropped(d, s) = [d EXCEPT !.sessions = f]
  BY <1>1 DEF SessionDropped, Tabled
<1>3. f \in [SessionId -> Session]
  BY <1>1, NoSessionTyped DEF Tabled
<1>4. \A t \in SessionId : f[t] = IF t = s THEN NoSession ELSE d.sessions[t]
  BY <1>1 DEF Tabled
<1> HIDE DEF f
<1>5. \A t \in SessionId : f[t].user # Nobody =>
         /\ d.users[f[t].user].there
         /\ f[t].via = "login" =>
               f[t].by = d.users[f[t].user].hash \/ f[t].user \in T
  BY <1>4, NoSessionTyped DEF Fine, Refers, Follow
<1> QED
  BY <1>2, <1>3, <1>5, SessionsWritten

\* When all sessions of a user are gone, none of these needs an excuse.
LEMMA SessionsDroppedFine ==
    ASSUME NEW d, NEW n \in Nat, NEW T, NEW u \in User, Fine(d, n, T \cup {u})
    PROVE  /\ Fine(SessionsDropped(d, u), n, T \ {u})
           /\ Grows(d, SessionsDropped(d, u))
<1> DEFINE f == [t \in SessionId |->
                    IF d.sessions[t].user = u THEN NoSession ELSE d.sessions[t]]
<1>1. Tabled(d)
  BY DEF Fine
<1>2. SessionsDropped(d, u) = [d EXCEPT !.sessions = f]
  BY DEF SessionsDropped
<1>3. f \in [SessionId -> Session]
  BY <1>1, NoSessionTyped DEF Tabled
<1>4. \A t \in SessionId :
         f[t] = IF d.sessions[t].user = u THEN NoSession ELSE d.sessions[t]
  OBVIOUS
<1> HIDE DEF f
<1>5. \A t \in SessionId : f[t].user # Nobody =>
         /\ d.users[f[t].user].there
         /\ f[t].via = "login" =>
               f[t].by = d.users[f[t].user].hash \/ f[t].user \in T \ {u}
  BY <1>4, NoSessionTyped DEF Fine, Refers, Follow
<1> QED
  BY SMTT(30), <1>2, <1>3, <1>5, SessionsWritten

LEMMA KeysWritten ==
    ASSUME NEW d, NEW n \in Nat, NEW T, Fine(d, n, T), NEW k \in KeyId,
           NEW x \in Key, x.user # Nobody => d.users[x.user].there
    PROVE  LET e == [d EXCEPT !.keys[k] = x] IN Fine(e, n, T) /\ Grows(d, e)
<1> DEFINE f == [d.keys EXCEPT ![k] = x]
           e == [d EXCEPT !.keys = f]
<1>1. Tabled(d)
  BY DEF Fine
<1>2. [d EXCEPT !.keys[k] = x] = e
  BY <1>1 DEF Tabled
<1>3. f \in [KeyId -> Key]
  BY <1>1 DEF Tabled
<1>4. \A j \in KeyId : f[j] = IF j = k THEN x ELSE d.keys[j]
  BY <1>1 DEF Tabled
<1> HIDE DEF f
<1>5. /\ Tabled(e)
      /\ e.users = d.users /\ e.sessions = d.sessions /\ e.keys = f
  BY <1>1, <1>3, KeySet
<1> HIDE DEF e
<1>6. Refers(e)
  BY <1>4, <1>5 DEF Fine, Refers
<1>7. Follow(e, T)
  BY <1>5 DEF Fine, Follow
<1>8. Fine(e, n, T) /\ Grows(d, e)
  BY <1>5, <1>6, <1>7 DEF Fine, Grows
<1> QED
  BY <1>2, <1>8

LEMMA KeyAddedFine ==
    ASSUME NEW d, NEW n \in Nat, NEW T, Fine(d, n, T), NEW k \in KeyId,
           NEW u \in User, d.users[u].there, NEW days \in Nat, clock \in Nat
    PROVE  Fine(KeyAdded(d, k, u, days), n, T) /\ Grows(d, KeyAdded(d, k, u, days))
<1> DEFINE x == [user |-> u, revoked |-> FALSE,
                 expires |-> IF days = 0 THEN Never ELSE clock + days * Day]
<1>1. days * Day \in Int /\ clock \in Int
  OBVIOUS
<1>2. clock + days * Day \in Time /\ Never \in Time
  BY <1>1, NeverTime DEF Time
<1>3. x \in Key /\ x.user = u
  BY <1>2 DEF Key
<1>4. KeyAdded(d, k, u, days) = [d EXCEPT !.keys[k] = x]
  BY DEF KeyAdded
<1> HIDE DEF x
<1> QED
  BY <1>3, <1>4, KeysWritten

LEMMA KeyRevokedFine ==
    ASSUME NEW d, NEW n \in Nat, NEW T, Fine(d, n, T), NEW k \in KeyId
    PROVE  Fine(KeyRevoked(d, k), n, T) /\ Grows(d, KeyRevoked(d, k))
<1> DEFINE x == [d.keys[k] EXCEPT !.revoked = TRUE]
<1>1. Tabled(d) /\ d.keys[k] \in Key
  BY DEF Fine, Tabled
<1>2. x \in Key /\ x.user = d.keys[k].user
  BY <1>1 DEF Key
<1>3. KeyRevoked(d, k) = [d EXCEPT !.keys[k] = x]
  BY <1>1 DEF KeyRevoked, Tabled
<1>4. x.user # Nobody => d.users[x.user].there
  BY <1>2 DEF Fine, Refers
<1> HIDE DEF x
<1> QED
  BY <1>2, <1>3, <1>4, KeysWritten

LEMMA OpenedFine ==
    ASSUME NEW u \in User, db.users[u].there, NEW n \in Nat, NEW T, Fine(db, n, T)
    PROVE  /\ Fine(Opened(u), n, T) /\ Grows(db, Opened(u))
           /\ Opened(u).users[u].locked = Never
           /\ Opened(u).users[u].there
           /\ Opened(u).users[u].hash = db.users[u].hash
           /\ Opened(u).sessions = db.sessions
<1>1. Grows(db, db)
  BY DEF Grows
<1>2. Tabled(db) /\ db.users[u] \in Account
  BY DEF Fine, Tabled
<1>3. /\ Unlocked(db, u).users[u].locked = Never
      /\ Unlocked(db, u).users[u].there
      /\ Unlocked(db, u).users[u].hash = db.users[u].hash
      /\ Unlocked(db, u).sessions = db.sessions
  BY <1>2 DEF Unlocked, Tabled, Account
<1> QED
  BY <1>1, <1>3, UnlockedFine DEF Opened

-----------------------------------------------------------------------------
(* Commits.                                                                *)

LEMMA OneCommit ==
    ASSUME NEW a, Commits(<<a>>), faults \in Nat
    PROVE  \/ db' = a /\ faults' = faults
           \/ db' \in {db, a} /\ faults' = faults + 1
<1>1. Len(<<a>>) = 1 /\ <<a>>[1] = a
  OBVIOUS
<1>2. CASE Settles(<<a>>)
  BY <1>1, <1>2 DEF Settles
<1>3. CASE Raises(<<a>>)
  <2>1. (<<db>> \o <<a>>)[1] = db /\ (<<db>> \o <<a>>)[2] = a
    OBVIOUS
  <2>2. PICK i \in 0..1 : db' = (<<db>> \o <<a>>)[i + 1]
    BY <1>1, <1>3 DEF Raises
  <2>3. i = 0 \/ i = 1
    BY <2>2
  <2>4. db' \in {db, a}
    BY <2>1, <2>2, <2>3
  <2> QED
    BY <1>3, <2>4 DEF Raises
<1> QED
  BY <1>2, <1>3 DEF Commits

LEMMA ThreeSettle ==
    ASSUME NEW a, NEW b, NEW c, Settles(<<a, b, c>>)
    PROVE  db' = c /\ faults' = faults
<1>1. Len(<<a, b, c>>) = 3 /\ <<a, b, c>>[3] = c
  OBVIOUS
<1> QED
  BY <1>1 DEF Settles

LEMMA ThreeRaise ==
    ASSUME NEW a, NEW b, NEW c, Raises(<<a, b, c>>)
    PROVE  db' \in {db, a, b, c} /\ faults' = faults + 1
<1>1. Len(<<a, b, c>>) = 3
  OBVIOUS
<1>2. /\ (<<db>> \o <<a, b, c>>)[1] = db /\ (<<db>> \o <<a, b, c>>)[2] = a
      /\ (<<db>> \o <<a, b, c>>)[3] = b /\ (<<db>> \o <<a, b, c>>)[4] = c
  OBVIOUS
<1>3. PICK i \in 0..3 : db' = (<<db>> \o <<a, b, c>>)[i + 1]
  BY <1>1 DEF Raises
<1>4. i = 0 \/ i = 1 \/ i = 2 \/ i = 3
  BY <1>3
<1>5. db' \in {db, a, b, c}
  BY <1>2, <1>3, <1>4
<1> QED
  BY <1>5 DEF Raises

\* A commit of one database keeps what it and the one before it have.
LEMMA OneCommitFine ==
    ASSUME NEW a, Commits(<<a>>), Inv, Fine(a, faults, torn), Grows(db, a),
           UNCHANGED torn
    PROVE  Fine(db', faults', torn') /\ Grows(db, db') /\ faults' \in Nat
<1>1. faults \in Nat /\ Fine(db, faults, torn)
  BY DEF Inv, Waits
<1>2. \/ db' = a /\ faults' = faults
      \/ db' \in {db, a} /\ faults' = faults + 1
  BY <1>1, OneCommit
<1>3. Grows(db, db)
  BY DEF Grows
<1>4. CASE faults' = faults
  BY <1>1, <1>2, <1>4
<1>5. CASE faults' = faults + 1
  <2>1. faults + 1 \in Nat /\ faults <= faults + 1 /\ torn \subseteq torn
    BY <1>1
  <2>2. Fine(db, faults + 1, torn) /\ Fine(a, faults + 1, torn)
    BY <1>1, <2>1, FineLater
  <2>3. db' \in {db, a}
    BY <1>1, <1>2, <1>5
  <2> QED
    BY <1>3, <1>5, <2>1, <2>2, <2>3
<1> QED
  BY <1>2, <1>4, <1>5

-----------------------------------------------------------------------------
(* Every step keeps the invariant.                                         *)

Released == \A h \in HandlerId : handlers'[h] \in {handlers[h], Idle}

LEMMA IdleTyped == Idle \in Waiting /\ Idle.op = "idle"
BY DEF Idle, Waiting

LEMMA ChangeKeeps ==
    ASSUME Inv, Fine(db', faults', torn'), Grows(db, db'), faults' \in Nat,
           torn' \subseteq User, UNCHANGED <<mails, clock>>,
           handlers' \in [HandlerId -> Waiting], Released
    PROVE  Inv'
<1>1. Waits'
  <2>1. \A h \in HandlerId : handlers'[h].op # "idle" => handlers'[h].user \in User
    BY IdleTyped DEF Inv, Waits, Released
  <2>2. \A h \in HandlerId : handlers'[h].op \in {"register", "mail"}
                                => handlers'[h].password \in Password
    BY IdleTyped DEF Inv, Waits, Released
  <2> QED
    BY <2>1, <2>2 DEF Inv, Waits
<1>2. Known'
  <2>1. \A m \in mails : m.user \in User
    BY DEF Inv, Waits, Mail
  <2>2. \A m \in mails' : db'.users[m.user].there
    BY <2>1 DEF Inv, Known, Grows
  <2>3. \A h \in HandlerId : handlers'[h].op \in {"mail", "key"}
                                => db'.users[handlers'[h].user].there
    <3> SUFFICES ASSUME NEW h \in HandlerId, handlers'[h].op \in {"mail", "key"}
                 PROVE  db'.users[handlers'[h].user].there
      OBVIOUS
    <3>1. handlers'[h] = handlers[h]
      BY IdleTyped DEF Released
    <3>2. handlers[h].user \in User /\ db.users[handlers[h].user].there
      BY <3>1 DEF Inv, Waits, Known
    <3> QED
      BY <3>1, <3>2 DEF Grows
  <2> QED
    BY <2>2, <2>3 DEF Known
<1> QED
  BY <1>1, <1>2 DEF Inv

LEMMA HandlersSame ==
    ASSUME Inv, UNCHANGED handlers
    PROVE  handlers' \in [HandlerId -> Waiting] /\ Released
BY DEF Inv, Waits, Released

LEMMA HandlerReleased ==
    ASSUME Inv, NEW h \in HandlerId, Release(h)
    PROVE  handlers' \in [HandlerId -> Waiting] /\ Released
BY IdleTyped DEF Inv, Waits, Released, Release

\* A handler begins to wait, or a mail is sent: the tables stay as they are.
LEMMA QuietKeeps ==
    ASSUME Inv, UNCHANGED <<db, torn, faults>>,
           Waits', \A m \in mails' : db.users[m.user].there,
           \A h \in HandlerId : handlers'[h].op \in {"mail", "key"}
                                    => db.users[handlers'[h].user].there
    PROVE  Inv'
BY DEF Inv, Known

\* A commit of one database, by a handler that is done.
LEMMA CommitKeeps ==
    ASSUME NEW a, Commits(<<a>>), Inv, Fine(a, faults, torn), Grows(db, a),
           UNCHANGED <<mails, clock, torn>>,
           handlers' \in [HandlerId -> Waiting], Released
    PROVE  Inv'
<1>1. Fine(db', faults', torn') /\ Grows(db, db') /\ faults' \in Nat
  BY OneCommitFine
<1>2. torn' \subseteq User
  BY DEF Inv, Waits
<1> QED
  BY <1>1, <1>2, ChangeKeeps

-----------------------------------------------------------------------------
(* Waiting handlers, and the first steps.                                  *)

LEMMA LeastIn ==
    ASSUME NEW S, S \subseteq Nat, S # {}
    PROVE  Least(S) \in S
<1> DEFINE R == OpToRel(<, Nat)
<1>1. IsWellFoundedOn(R, Nat)
  BY NatLessThanWellFounded
<1>2. \A x, y \in Nat : <<x, y>> \in R <=> x < y
  BY DEF OpToRel
<1> HIDE DEF R
<1>3. PICK x \in S : \A y \in S : ~(<<y, x>> \in R)
  BY <1>1, WFMin
<1>4. ASSUME NEW y \in S PROVE x <= y
  <2>1. x \in Nat /\ y \in Nat /\ ~(<<y, x>> \in R)
    BY <1>3
  <2>2. ~(y < x)
    BY <1>2, <2>1
  <2> QED
    BY <2>1, <2>2
<1> QED
  BY <1>4 DEF Least

LEMMA Occupied ==
    ASSUME Inv, NEW w \in Waiting, Occupy(w), w.user \in User,
           w.op \in {"register", "mail"} => w.password \in Password,
           UNCHANGED <<mails, clock, torn, faults>>
    PROVE  /\ Waits'
           /\ \A h \in HandlerId : handlers'[h] \in {handlers[h], w}
<1>1. \A h \in HandlerId : handlers'[h] \in {handlers[h], w}
  BY DEF Occupy, Inv, Waits
<1>2. handlers' \in [HandlerId -> Waiting]
  BY DEF Occupy, Inv, Waits
<1> QED
  BY <1>1, <1>2 DEF Inv, Waits

LEMMA OccupyKeeps ==
    ASSUME Inv, NEW w \in Waiting, Occupy(w), w.user \in User,
           w.op \in {"register", "mail"} => w.password \in Password,
           w.op \in {"mail", "key"} => db.users[w.user].there,
           UNCHANGED <<db, mails, clock, torn, faults>>
    PROVE  Inv'
<1>1. /\ Waits'
      /\ \A h \in HandlerId : handlers'[h] \in {handlers[h], w}
  BY Occupied
<1>2. \A h \in HandlerId : handlers'[h].op \in {"mail", "key"}
                              => db.users[handlers'[h].user].there
  BY <1>1 DEF Inv, Known
<1>3. \A m \in mails' : db.users[m.user].there
  BY DEF Inv, Known
<1> QED
  BY <1>1, <1>2, <1>3, QuietKeeps

\* Who sends a request has an account.
LEMMA AdmittedThere ==
    ASSUME Inv, NEW u \in AdmittedUnverified
    PROVE  u \in User /\ db.users[u].there
<1>1. u \in Bearers
  BY DEF AdmittedUnverified
<1>2. CASE \E s \in SessionId : SessionValid(s) /\ u = db.sessions[s].user
  BY <1>2 DEF SessionValid, Inv, Fine, Tabled, Refers, Session
<1>3. CASE \E k \in KeyId : KeyValid(k) /\ u = db.keys[k].user
  BY <1>3 DEF KeyValid, Inv, Fine, Tabled, Refers, Key
<1> QED
  BY <1>1, <1>2, <1>3 DEF Bearers

LEMMA BeginRegisterKeeps ==
    ASSUME Inv, NEW u \in User, NEW p \in Password, BeginRegister(u, p)
    PROVE  Inv'
<1> DEFINE w == [op |-> "register", user |-> u, password |-> p]
<1>1. w \in Waiting /\ w.op = "register" /\ w.user = u /\ w.password = p
  BY DEF Waiting
<1>2. Occupy(w) /\ UNCHANGED <<db, mails, clock, torn, faults>>
  BY DEF BeginRegister
<1> HIDE DEF w
<1> QED
  BY <1>1, <1>2, OccupyKeeps

LEMMA BeginCreateKeyKeeps ==
    ASSUME Inv, NEW u \in User, BeginCreateKey(u)
    PROVE  Inv'
<1> DEFINE w == [op |-> "key", user |-> u, password |-> NoPassword]
<1>1. w \in Waiting /\ w.op = "key" /\ w.user = u
  BY DEF Waiting
<1>2. Occupy(w) /\ UNCHANGED <<db, mails, clock, torn, faults>>
  BY DEF BeginCreateKey
<1>3. db.users[u].there
  BY AdmittedThere DEF BeginCreateKey, Admitted
<1> HIDE DEF w
<1> QED
  BY <1>1, <1>2, <1>3, OccupyKeeps

LEMMA BeginUpdateUserKeeps ==
    ASSUME Inv, NEW u \in User, BeginUpdateUser(u)
    PROVE  Inv'
<1> DEFINE w == [op |-> "update", user |-> u, password |-> NoPassword]
<1>1. w \in Waiting /\ w.op = "update" /\ w.user = u
  BY DEF Waiting
<1>2. Occupy(w) /\ UNCHANGED <<db, mails, clock, torn, faults>>
  BY DEF BeginUpdateUser
<1> HIDE DEF w
<1> QED
  BY <1>1, <1>2, OccupyKeeps

\* A handler that gives up, or loses its process, waits no more.
LEMMA GivingUpKeeps ==
    ASSUME Inv, UNCHANGED <<db, mails, clock, torn>>, faults' \in {faults, faults + 1},
           handlers' \in [HandlerId -> Waiting], Released
    PROVE  Inv'
<1>1. faults \in Nat /\ faults' \in Nat /\ faults <= faults' /\ torn \subseteq torn
  BY DEF Inv, Waits
<1>2. Fine(db', faults', torn')
  BY <1>1, FineLater DEF Inv
<1>3. Grows(db, db') /\ torn' \subseteq User
  BY DEF Grows, Inv, Waits
<1> QED
  BY <1>1, <1>2, <1>3, ChangeKeeps

LEMMA CrashKeeps == Inv /\ Crash => Inv'
<1> SUFFICES ASSUME Inv, Crash PROVE Inv'
  OBVIOUS
<1>1. handlers' \in [HandlerId -> Waiting] /\ Released
  BY IdleTyped DEF Crash, Released
<1> QED
  BY <1>1, GivingUpKeeps DEF Crash

LEMMA AbandonKeeps ==
    ASSUME Inv, NEW h \in HandlerId, Abandon(h) \/ EmailTaken(h)
    PROVE  Inv'
<1>1. handlers' \in [HandlerId -> Waiting] /\ Released
  BY HandlerReleased DEF Abandon, EmailTaken
<1> QED
  BY <1>1, GivingUpKeeps DEF Abandon, EmailTaken

LEMMA TickKeeps == Inv /\ Tick => Inv'
BY DEF Inv, Fine, Waits, Known, Tick

LEMMA PostTyped ==
    ASSUME Inv, NEW u \in User, db.users[u].there,
           NEW kind \in {"reset", "verify"}, Post(kind, u)
    PROVE  /\ mails' \subseteq Mail
           /\ \A m \in mails' : db.users[m.user].there
<1> DEFINE x == [kind |-> kind, user |-> u, issued |-> clock]
<1>1. x \in Mail /\ x.user = u
  BY DEF Mail, Time, Inv, Waits
<1>2. mails' = mails \cup {x}
  BY DEF Post
<1> HIDE DEF x
<1> QED
  BY <1>1, <1>2 DEF Inv, Waits, Known

LEMMA MailKeeps ==
    ASSUME Inv, NEW u \in User, ForgotPassword(u) \/ ResendVerification(u)
    PROVE  Inv'
<1>1. db.users[u].there
  BY AdmittedThere DEF ForgotPassword, ResendVerification
<1>2. /\ UNCHANGED <<db, handlers, clock, torn, faults>>
      /\ Post("reset", u) \/ Post("verify", u)
  BY DEF ForgotPassword, ResendVerification
<1>3. mails' \subseteq Mail /\ \A m \in mails' : db.users[m.user].there
  BY <1>1, <1>2, PostTyped
<1>4. Waits'
  BY <1>2, <1>3 DEF Inv, Waits
<1> QED
  BY <1>2, <1>3, <1>4, QuietKeeps DEF Inv, Known

-----------------------------------------------------------------------------
(* The steps that commit.                                                  *)

LEMMA InvFine ==
    ASSUME Inv
    PROVE  Fine(db, faults, torn) /\ faults \in Nat /\ clock \in Nat /\ Tabled(db)
BY DEF Inv, Waits, Fine

LEMMA LoginRefusedKeeps ==
    ASSUME Inv, NEW u \in User, LoginRefused(u)
    PROVE  Inv'
<1>1. db.users[u].there /\ Commits(<<Opened(u)>>)
      /\ UNCHANGED <<mails, handlers, clock, torn>>
  BY DEF LoginRefused
<1>2. Fine(Opened(u), faults, torn) /\ Grows(db, Opened(u))
  BY <1>1, InvFine, OpenedFine
<1> QED
  BY <1>1, <1>2, HandlersSame, CommitKeeps

LEMMA LogoutKeeps ==
    ASSUME Inv, NEW s \in SessionId, Logout(s)
    PROVE  Inv'
<1>1. Commits(<<SessionDropped(db, s)>>) /\ UNCHANGED <<mails, handlers, clock, torn>>
  BY DEF Logout
<1>2. Fine(SessionDropped(db, s), faults, torn) /\ Grows(db, SessionDropped(db, s))
  BY InvFine, SessionDroppedFine
<1> QED
  BY <1>1, <1>2, HandlersSame, CommitKeeps

LEMMA VerifyEmailKeeps ==
    ASSUME Inv, NEW m \in mails, VerifyEmail(m)
    PROVE  Inv'
<1>1. Commits(<<Verified(db, m.user)>>) /\ UNCHANGED <<mails, handlers, clock, torn>>
  BY DEF VerifyEmail
<1>2. m.user \in User /\ db.users[m.user].there
  BY DEF Inv, Waits, Known, Mail
<1>3. Fine(Verified(db, m.user), faults, torn) /\ Grows(db, Verified(db, m.user))
  BY <1>2, InvFine, VerifiedFine
<1> QED
  BY <1>1, <1>3, HandlersSame, CommitKeeps

LEMMA RevokeKeyKeeps ==
    ASSUME Inv, NEW k \in KeyId, RevokeKey(k)
    PROVE  Inv'
<1>1. Commits(<<KeyRevoked(db, k)>>) /\ UNCHANGED <<mails, handlers, clock, torn>>
  BY DEF RevokeKey
<1>2. Fine(KeyRevoked(db, k), faults, torn) /\ Grows(db, KeyRevoked(db, k))
  BY InvFine, KeyRevokedFine
<1> QED
  BY <1>1, <1>2, HandlersSame, CommitKeeps

LEMMA UpdateUserKeeps ==
    ASSUME Inv, NEW h \in HandlerId, NEW u \in User, NEW f \in Flags,
           UpdateUser(h, u, f[1], f[2])
    PROVE  Inv'
<1>1. db.users[u].there /\ Commits(<<Flagged(db, u, f[1], f[2])>>)
      /\ Release(h) /\ UNCHANGED <<mails, clock, torn>>
  BY DEF UpdateUser
<1>2. f[1] \in BOOLEAN /\ f[2] \in BOOLEAN
  OBVIOUS
<1>3. /\ Fine(Flagged(db, u, f[1], f[2]), faults, torn)
      /\ Grows(db, Flagged(db, u, f[1], f[2]))
  BY <1>1, <1>2, InvFine, FlaggedFine
<1> QED
  BY <1>1, <1>3, HandlerReleased, CommitKeeps

LEMMA LeastFree ==
    /\ FreeSessions # {} =>
            Least(FreeSessions) \in SessionId
                /\ db.sessions[Least(FreeSessions)].user = Nobody
    /\ FreeKeys # {} => Least(FreeKeys) \in KeyId
<1>1. FreeSessions \subseteq Nat /\ FreeKeys \subseteq Nat
  BY DEF FreeSessions, FreeKeys, SessionId, KeyId
<1>2. FreeSessions # {} => Least(FreeSessions) \in FreeSessions
  BY <1>1, LeastIn
<1>3. FreeKeys # {} => Least(FreeKeys) \in FreeKeys
  BY <1>1, LeastIn
<1> QED
  BY <1>2, <1>3 DEF FreeSessions, FreeKeys

LEMMA CreateKeyKeeps ==
    ASSUME Inv, NEW h \in HandlerId, NEW days \in KeyDays, CreateKey(h, days)
    PROVE  Inv'
<1> DEFINE k == Least(FreeKeys)
           u == handlers[h].user
<1>1. /\ Commits(<<KeyAdded(db, k, u, days)>>) /\ FreeKeys # {}
      /\ Release(h) /\ UNCHANGED <<mails, clock, torn>>
      /\ handlers[h].op = "key"
  BY DEF CreateKey
<1>2. k \in KeyId /\ days \in Nat
  BY <1>1, LeastFree
<1>3. u \in User /\ db.users[u].there
  BY <1>1 DEF Inv, Waits, Known
<1> HIDE DEF k, u
<1>4. /\ Fine(KeyAdded(db, k, u, days), faults, torn)
      /\ Grows(db, KeyAdded(db, k, u, days))
  BY <1>2, <1>3, InvFine, KeyAddedFine
<1> QED
  BY <1>1, <1>4, HandlerReleased, CommitKeeps

LEMMA OpenFirstSessionKeeps ==
    ASSUME Inv, NEW h \in HandlerId, OpenFirstSession(h)
    PROVE  Inv'
<1> DEFINE s == Least(FreeSessions)
           u == handlers[h].user
           p == handlers[h].password
           via == "register"
<1>1. /\ Commits(<<SessionAdded(db, s, u, p, via)>>) /\ FreeSessions # {}
      /\ Release(h) /\ UNCHANGED <<mails, clock, torn>>
      /\ handlers[h].op = "mail"
  BY DEF OpenFirstSession
<1>2. s \in SessionId
  BY <1>1, LeastFree
<1>3. u \in User /\ db.users[u].there /\ p \in Password
  BY <1>1 DEF Inv, Waits, Known
<1>4. via \in {"login", "register"} /\ via = "register"
  OBVIOUS
<1> HIDE DEF s, u, p, via
<1>5. /\ Fine(SessionAdded(db, s, u, p, via), faults, torn)
      /\ Grows(db, SessionAdded(db, s, u, p, via))
  BY <1>2, <1>3, <1>4, InvFine, SessionAddedFine
<1> QED
  BY <1>1, <1>5, HandlerReleased, CommitKeeps

LEMMA GrowsOn ==
    ASSUME NEW d, NEW e, NEW f, Grows(d, e), Grows(e, f)
    PROVE  Grows(d, f)
BY DEF Grows

\* Three commits, the last of which keeps n; each of them keeps n + 1.
LEMMA ThreeKeep ==
    ASSUME NEW a, NEW b, NEW c, Inv,
           \/ Settles(<<a, b, c>>) /\ Fine(c, faults, torn')
           \/ /\ Raises(<<a, b, c>>)
              /\ \A d \in {db, a, b, c} : Fine(d, faults + 1, torn'),
           Grows(db, a), Grows(db, b), Grows(db, c),
           torn' \subseteq User, UNCHANGED <<mails, handlers, clock>>
    PROVE  Inv'
<1>1. faults \in Nat /\ faults + 1 \in Nat
  BY InvFine
<1>2. Grows(db, db)
  BY DEF Grows
<1>3. CASE Settles(<<a, b, c>>) /\ Fine(c, faults, torn')
  <2>1. db' = c /\ faults' = faults
    BY <1>3, ThreeSettle
  <2> QED
    BY <1>1, <1>3, <2>1, HandlersSame, ChangeKeeps
<1>4. CASE /\ Raises(<<a, b, c>>)
           /\ \A d \in {db, a, b, c} : Fine(d, faults + 1, torn')
  <2>1. db' \in {db, a, b, c} /\ faults' = faults + 1
    BY <1>4, ThreeRaise
  <2>2. Fine(db', faults', torn')
    BY <1>4, <2>1
  <2>3. Grows(db, db')
    BY <1>2, <2>1
  <2> QED
    BY <1>1, <2>1, <2>2, <2>3, HandlersSame, ChangeKeeps
<1> QED
  BY <1>3, <1>4

LEMMA LoginFailsKeeps ==
    ASSUME Inv, NEW u \in User, NEW p \in Password, LoginFails(u, p)
    PROVE  Inv'
<1> DEFINE a == Opened(u)
           b == Incremented(a, u)
           c == LockedIfDue(b, u)
<1>1. /\ db.users[u].there
      /\ Settles(<<a, b, c>>) \/ Raises(<<a, b, c>>)
      /\ UNCHANGED <<mails, handlers, clock, torn>>
  BY DEF LoginFails, Commits
<1>2. /\ Fine(a, faults, torn) /\ Grows(db, a)
      /\ a.users[u].locked = Never /\ a.users[u].there
  BY <1>1, InvFine, OpenedFine
<1> HIDE DEF a
<1>3. /\ Fine(b, faults + 1, torn) /\ Grows(a, b)
      /\ Fine(c, faults, torn) /\ Grows(a, c)
      /\ Fine(c, faults + 1, torn)
  BY <1>2, InvFine, IncrementedFine
<1> HIDE DEF b, c
<1>4. faults \in Nat /\ faults + 1 \in Nat /\ faults <= faults + 1
      /\ torn \subseteq torn
  BY InvFine
<1>5. Fine(db, faults + 1, torn) /\ Fine(a, faults + 1, torn)
  BY <1>2, <1>4, InvFine, FineLater
<1>6. Grows(db, b) /\ Grows(db, c)
  BY <1>2, <1>3, GrowsOn
<1>7. torn' = torn /\ torn' \subseteq User
  BY <1>1 DEF Inv, Waits
<1> QED
  BY <1>1, <1>2, <1>3, <1>5, <1>6, <1>7, ThreeKeep

LEMMA LoginSucceedsKeeps ==
    ASSUME Inv, NEW u \in User, NEW p \in Password, LoginSucceeds(u, p)
    PROVE  Inv'
<1> DEFINE a == Opened(u)
           b == Unlocked(a, u)
           s == Least(FreeSessions)
           via == "login"
           c == SessionAdded(b, s, u, p, via)
<1>1. /\ db.users[u].there /\ db.users[u].hash = p /\ FreeSessions # {}
      /\ Settles(<<a, b, c>>) \/ Raises(<<a, b, c>>)
      /\ UNCHANGED <<mails, handlers, clock, torn>>
  BY DEF LoginSucceeds, Commits
<1>2. /\ Fine(a, faults, torn) /\ Grows(db, a)
      /\ a.users[u].hash = p /\ a.users[u].there
  BY <1>1, InvFine, OpenedFine
<1> HIDE DEF a
<1>3. Fine(b, faults, torn) /\ Grows(a, b)
  BY <1>2, InvFine, UnlockedFine
<1>4. b.users[u].hash = p /\ b.users[u].there
  BY <1>2 DEF Unlocked, Fine, Tabled, Account
<1>5. s \in SessionId /\ via \in {"login", "register"}
  BY <1>1, LeastFree
<1> HIDE DEF b, s, via
<1>6. Fine(c, faults, torn) /\ Grows(b, c)
  BY <1>3, <1>4, <1>5, InvFine, SessionAddedFine
<1> HIDE DEF c
<1>7. faults \in Nat /\ faults + 1 \in Nat /\ faults <= faults + 1
      /\ torn \subseteq torn
  BY InvFine
<1>8. \A d \in {db, a, b, c} : Fine(d, faults + 1, torn)
  BY <1>2, <1>3, <1>6, <1>7, InvFine, FineLater
<1>9. Grows(db, b) /\ Grows(db, c)
  BY <1>2, <1>3, <1>6, GrowsOn
<1>10. torn' = torn /\ torn' \subseteq User
  BY <1>1 DEF Inv, Waits
<1> QED
  BY <1>1, <1>2, <1>6, <1>8, <1>9, <1>10, ThreeKeep

LEMMA ResetPasswordKeeps ==
    ASSUME Inv, NEW m \in mails, NEW p \in Password, ResetPassword(m, p)
    PROVE  Inv'
<1> DEFINE u == m.user
           a == Hashed(db, u, p)
           b == Unlocked(a, u)
           c == SessionsDropped(b, u)
<1>1. /\ \/ Settles(<<a, b, c>>) /\ torn' = torn \ {u}
         \/ Raises(<<a, b, c>>) /\ torn' = torn \cup {u}
      /\ UNCHANGED <<mails, handlers, clock>>
  BY DEF ResetPassword, ResetWrites
<1>2. u \in User /\ db.users[u].there
  BY DEF Inv, Waits, Known, Mail
<1> HIDE DEF u
<1>3. Fine(a, faults, torn \cup {u}) /\ Grows(db, a)
  BY <1>2, InvFine, HashedFine
<1>4. a.users[u].there
  BY <1>2, <1>3 DEF Grows
<1> HIDE DEF a
<1>5. Fine(b, faults, torn \cup {u}) /\ Grows(a, b)
  BY <1>2, <1>3, <1>4, InvFine, UnlockedFine
<1> HIDE DEF b
<1>6. Fine(c, faults, torn \ {u}) /\ Grows(b, c)
  BY <1>2, <1>5, InvFine, SessionsDroppedFine
<1> HIDE DEF c
<1>7. /\ faults \in Nat /\ faults + 1 \in Nat /\ faults <= faults + 1
      /\ torn \subseteq torn \cup {u} /\ torn \ {u} \subseteq torn \cup {u}
      /\ torn \cup {u} \subseteq torn \cup {u}
  BY InvFine
<1>8. \A d \in {db, a, b, c} : Fine(d, faults + 1, torn \cup {u})
  BY <1>3, <1>5, <1>6, <1>7, InvFine, FineLater
<1>9. Grows(db, b) /\ Grows(db, c)
  BY <1>3, <1>5, <1>6, GrowsOn
<1>10. torn' \subseteq User
  BY <1>1, <1>2 DEF Inv, Waits
<1> QED
  BY <1>1, <1>3, <1>6, <1>8, <1>9, <1>10, ThreeKeep

LEMMA RegisterUserKeeps ==
    ASSUME Inv, NEW h \in HandlerId, RegisterUser(h)
    PROVE  Inv'
<1> DEFINE u == handlers[h].user
           p == handlers[h].password
           a == Created(db, u, p)
<1>1. /\ handlers[h].op = "register" /\ ~db.users[u].there
      /\ \/ /\ Settles(<<a>>) /\ Post("verify", u)
            /\ handlers' = [handlers EXCEPT ![h].op = "mail"]
         \/ Raises(<<a>>) /\ Release(h) /\ UNCHANGED mails
      /\ UNCHANGED <<clock, torn>>
  BY DEF RegisterUser
<1>2. u \in User /\ p \in Password
  BY <1>1 DEF Inv, Waits
<1>3. Fine(a, faults, torn) /\ Grows(db, a)
  BY <1>1, <1>2, InvFine, CreatedFine
<1>4. a.users[u].there
  BY <1>2, InvFine DEF Created, Tabled
<1>5. CASE Raises(<<a>>) /\ Release(h) /\ UNCHANGED mails
  <2> HIDE DEF a
  <2>1. Commits(<<a>>)
    BY <1>5 DEF Commits
  <2> QED
    BY <1>1, <1>3, <1>5, <2>1, HandlerReleased, CommitKeeps
<1>6. CASE /\ Settles(<<a>>) /\ Post("verify", u)
           /\ handlers' = [handlers EXCEPT ![h].op = "mail"]
  <2>1. db' = a /\ faults' = faults
    BY <1>6 DEF Settles
  <2> HIDE DEF a
  <2>2. /\ handlers' \in [HandlerId -> Waiting]
        /\ \A g \in HandlerId : handlers'[g].user = handlers[g].user
        /\ \A g \in HandlerId : handlers'[g].password = handlers[g].password
        /\ \A g \in HandlerId : g # h => handlers'[g] = handlers[g]
    BY <1>6 DEF Inv, Waits, Waiting
  <2> DEFINE x == [kind |-> "verify", user |-> u, issued |-> clock]
  <2>4. x \in Mail /\ x.user = u /\ mails' = mails \cup {x}
    BY <1>2, <1>6, InvFine DEF Mail, Time, Post
  <2> HIDE DEF x, u, p
  <2>5. \A g \in HandlerId : handlers'[g].op # "idle" => handlers'[g].user \in User
    BY <1>1, <1>2, <2>2 DEF Inv, Waits, u
  <2>6. \A g \in HandlerId : handlers'[g].op \in {"register", "mail"}
                                => handlers'[g].password \in Password
    BY <1>1, <1>2, <2>2 DEF Inv, Waits, p
  <2>7. Waits'
    BY <1>1, <2>1, <2>2, <2>4, <2>5, <2>6 DEF Inv, Waits
  <2>8. \A n \in mails : db'.users[n.user].there
    BY <1>3, <2>1 DEF Inv, Waits, Known, Grows, Mail
  <2>9. \A n \in mails' : db'.users[n.user].there
    BY <1>4, <2>1, <2>4, <2>8
  <2>10. \A g \in HandlerId : handlers'[g].op \in {"mail", "key"}
                                => db'.users[handlers'[g].user].there
    <3> SUFFICES ASSUME NEW g \in HandlerId, handlers'[g].op \in {"mail", "key"}
                 PROVE  db'.users[handlers'[g].user].there
      OBVIOUS
    <3>1. CASE g = h
      BY <1>4, <2>1, <2>2, <3>1 DEF u
    <3>2. CASE g # h
      BY <1>3, <2>1, <2>2, <3>2 DEF Inv, Waits, Known, Grows
    <3> QED
      BY <3>1, <3>2
  <2> QED
    BY <1>1, <1>3, <2>1, <2>7, <2>9, <2>10 DEF Inv, Known
<1> QED
  BY <1>1, <1>5, <1>6

LEMMA InitInv == Init => Inv
<1> SUFFICES ASSUME Init PROVE Inv
  OBVIOUS
<1>1. NoAccount \in Account /\ NoAccount.failed = 0 /\ NoAccount.locked = Never
  BY NeverTime DEF NoAccount, Account
<1> DEFINE r == [NoAccount EXCEPT !.there = TRUE, !.admin = TRUE,
                                  !.verified = TRUE]
<1>2. r \in Account /\ r.there /\ r.failed = 0 /\ r.locked = Never
  BY <1>1 DEF NoAccount, Account
<1>3. NoKey \in Key /\ NoKey.user = Nobody
  BY NeverTime DEF NoKey, Key
<1> HIDE DEF r
<1>4. /\ db.users = [u \in User |-> IF u = Admin THEN r ELSE NoAccount]
      /\ db.sessions = [s \in SessionId |-> NoSession]
      /\ db.keys = [k \in KeyId |-> NoKey]
      /\ db = [users |-> db.users, sessions |-> db.sessions, keys |-> db.keys]
  BY DEF Init, r
<1>5. Tabled(db)
  BY <1>1, <1>2, <1>3, <1>4, NoSessionTyped DEF Tabled
<1>6. Refers(db)
  BY <1>2, <1>3, <1>4, NoSessionTyped DEF Refers
<1>7. \A u \in User : Counted(db.users[u], 0)
  BY <1>1, <1>2, <1>4 DEF Counted
<1>8. Follow(db, {})
  BY <1>4, NoSessionTyped DEF Follow
<1>9. Waits /\ Known
  BY IdleTyped DEF Init, Waits, Known
<1> QED
  BY <1>5, <1>6, <1>7, <1>8, <1>9 DEF Init, Inv, Fine

LEMMA NextInv == Inv /\ [Next]_vars => Inv'
<1> SUFFICES ASSUME Inv, [Next]_vars PROVE Inv'
  OBVIOUS
<1>1. CASE Login
  BY <1>1, LoginRefusedKeeps, LoginFailsKeeps, LoginSucceedsKeeps DEF Login
<1>2. CASE \E s \in SessionId : Logout(s)
  BY <1>2, LogoutKeeps
<1>3. CASE Register
  BY <1>3, BeginRegisterKeeps, AbandonKeeps, RegisterUserKeeps,
     OpenFirstSessionKeeps DEF Register
<1>4. CASE Recover
  BY <1>4, MailKeeps, VerifyEmailKeeps, ResetPasswordKeeps DEF Recover
<1>5. CASE Manage
  BY <1>5, BeginCreateKeyKeeps, BeginUpdateUserKeeps, CreateKeyKeeps,
     UpdateUserKeeps, RevokeKeyKeeps DEF Manage
<1>6. CASE \E h \in HandlerId : Abandon(h)
  BY <1>6, AbandonKeeps
<1>7. CASE Crash
  BY <1>7, CrashKeeps
<1>8. CASE Tick
  BY <1>8, TickKeeps
<1>9. CASE UNCHANGED vars
  BY <1>9 DEF vars, Inv, Fine, Waits, Known
<1> QED
  BY <1>1, <1>2, <1>3, <1>4, <1>5, <1>6, <1>7, <1>8, <1>9 DEF Next

LEMMA InvAlways == Spec => []Inv
BY InitInv, NextInv, PTL DEF Spec

-----------------------------------------------------------------------------
(* Theorems.                                                               *)

\* Whatever is raised and whenever the process is lost between the commits of
\* a handler (services/auth.py, auth_api.py), sessions, keys, mailed tokens and
\* waiting handlers are of users that exist.
THEOREM AccountsTyped == Spec => []TypeOK
<1>1. Inv => TypeOK
  BY InvImplies
<1> QED
  BY <1>1, InvAlways, PTL

\* authenticate and reset_password write the failure counter and the lock in
\* separate statements; an account is locked with the failures that lock it,
\* and nobody has more guesses than one for each raising call on top of them.
THEOREM LockKept == Spec => []LockFollowsCount
<1>1. Inv => LockFollowsCount
  BY InvImplies
<1> QED
  BY <1>1, InvAlways, PTL

\* Sessions that were opened with a password end when reset_password changes
\* it, except where that stopped between its commits.
THEOREM SessionsKeptToPassword == Spec => []SessionsFollowPassword
<1>1. Inv => SessionsFollowPassword
  BY InvImplies
<1> QED
  BY <1>1, InvAlways, PTL

-----------------------------------------------------------------------------
(* Failures in a row stand.                                                *)

SameCounts(d, e) == \A u \in User : e.users[u].failed = d.users[u].failed

LEMMA SameCountsStand ==
    ASSUME Inv, SameCounts(db, db')
    PROVE  CountStands
<1> SUFFICES ASSUME NEW u \in User PROVE ~Forgotten(u)
  BY DEF CountStands
<1>1. db.users[u].failed \in Nat
  BY InvFine DEF Tabled, Account
<1> QED
  BY <1>1 DEF SameCounts, Forgotten

LEMMA RaisedStands ==
    ASSUME faults' # faults
    PROVE  CountStands
BY DEF CountStands

\* What is committed at once decides whether the counts stand.
LEMMA OneCommitStands ==
    ASSUME NEW a, Inv, Commits(<<a>>), SameCounts(db, a)
    PROVE  CountStands
<1>1. faults \in Nat
  BY InvFine
<1>2. \/ db' = a
      \/ faults' = faults + 1
  BY <1>1, OneCommit
<1>3. CASE db' = a
  BY <1>3, SameCountsStand
<1>4. CASE faults' = faults + 1
  BY <1>1, <1>4, RaisedStands
<1> QED
  BY <1>2, <1>3, <1>4

LEMMA SameWrites ==
    ASSUME NEW d, Tabled(d), NEW u \in User
    PROVE  /\ SameCounts(d, Verified(d, u))
           /\ \A x, y : SameCounts(d, Flagged(d, u, x, y))
           /\ \A s \in SessionId :
                /\ SameCounts(d, SessionDropped(d, s))
                /\ \A v, p, via : SameCounts(d, SessionAdded(d, s, v, p, via))
           /\ SameCounts(d, SessionsDropped(d, u))
           /\ \A k \in KeyId :
                /\ SameCounts(d, KeyRevoked(d, k))
                /\ \A v, days : SameCounts(d, KeyAdded(d, k, v, days))
<1>1. SameCounts(d, Verified(d, u))
  BY DEF SameCounts, Verified, Tabled, Account
<1>2. \A x, y : SameCounts(d, Flagged(d, u, x, y))
  BY DEF SameCounts, Flagged, Tabled, Account
<1>3. \A s \in SessionId :
         /\ SameCounts(d, SessionDropped(d, s))
         /\ \A v, p, via : SameCounts(d, SessionAdded(d, s, v, p, via))
  BY DEF SameCounts, SessionDropped, SessionAdded, Tabled
<1>4. SameCounts(d, SessionsDropped(d, u))
  BY DEF SameCounts, SessionsDropped, Tabled
<1>5. \A k \in KeyId :
         /\ SameCounts(d, KeyRevoked(d, k))
         /\ \A v, days : SameCounts(d, KeyAdded(d, k, v, days))
  BY DEF SameCounts, KeyRevoked, KeyAdded, Tabled
<1> QED
  BY <1>1, <1>2, <1>3, <1>4, <1>5

\* Only the account that is written can lose its failures.
LEMMA OthersSame ==
    ASSUME NEW d, Tabled(d), NEW u \in User, NEW v \in User, v # u
    PROVE  /\ Unlocked(d, u).users[v] = d.users[v]
           /\ Incremented(d, u).users[v] = d.users[v]
           /\ LockedIfDue(d, u).users[v] = d.users[v]
           /\ \A p : Hashed(d, u, p).users[v] = d.users[v]
           /\ \A p : Created(d, u, p).users[v] = d.users[v]
BY DEF Unlocked, Incremented, LockedIfDue, Hashed, Created, Tabled

LEMMA TabledOn ==
    ASSUME NEW d, Tabled(d), NEW u \in User, clock \in Nat
    PROVE  /\ Tabled(Unlocked(d, u))
           /\ Tabled(Incremented(d, u))
           /\ \A p \in Password : Tabled(Hashed(d, u, p))
<1>1. d.users[u] \in Account /\ d.users[u].failed \in Nat
  BY DEF Tabled, Account
<1>2. Tabled(Unlocked(d, u))
  <2> DEFINE r == [d.users[u] EXCEPT !.failed = 0, !.locked = Never]
  <2>1. r \in Account
    BY <1>1, NeverTime DEF Account
  <2>2. Unlocked(d, u) = [d EXCEPT !.users[u] = r]
    BY <1>1 DEF Unlocked, Tabled
  <2> HIDE DEF r
  <2> QED
    BY <2>1, <2>2, UserSet
<1>3. Tabled(Incremented(d, u))
  <2> DEFINE r == [d.users[u] EXCEPT !.failed = d.users[u].failed + 1]
  <2>1. d.users[u].failed + 1 \in Nat
    BY <1>1
  <2>2. r \in Account
    BY <1>1, <2>1 DEF Account
  <2>3. Incremented(d, u) = [d EXCEPT !.users[u] = r]
    BY <1>1 DEF Incremented, Tabled
  <2> HIDE DEF r
  <2> QED
    BY <2>2, <2>3, UserSet
<1>4. ASSUME NEW p \in Password PROVE Tabled(Hashed(d, u, p))
  <2> DEFINE r == [d.users[u] EXCEPT !.hash = p]
  <2>1. r \in Account
    BY <1>1 DEF Account
  <2>2. Hashed(d, u, p) = [d EXCEPT !.users[u] = r]
    BY <1>1 DEF Hashed, Tabled
  <2> HIDE DEF r
  <2> QED
    BY <2>1, <2>2, UserSet
<1> QED
  BY <1>2, <1>3, <1>4

\* A lock that an attempt finds and that does not stop it has run out.
LEMMA LockFound ==
    ASSUME Inv, NEW u \in User, ~Locked(u)
    PROVE  LockRanOut(u) \/ Opened(u) = db
<1>1. db.users[u].locked \in Int /\ clock \in Nat
  BY InvFine DEF Tabled, Account, Time
<1> QED
  BY <1>1 DEF Locked, LockRanOut, Opened

LEMMA OneForgotten ==
    ASSUME Inv, NEW u \in User,
           \A v \in User \ {u} : db'.users[v].failed = db.users[v].failed,
           Forgotten(u) => LogsIn(u) \/ PasswordIsReset(u) \/ LockRanOut(u)
    PROVE  CountStands
<1> SUFFICES ASSUME NEW v \in User \ {u} PROVE ~Forgotten(v)
  BY DEF CountStands
<1>1. db.users[v].failed \in Nat
  BY InvFine DEF Tabled, Account
<1> QED
  BY <1>1 DEF Forgotten

LEMMA OpenedTabled ==
    ASSUME Inv, NEW u \in User
    PROVE  /\ Tabled(Opened(u))
           /\ \A v \in User \ {u} : Opened(u).users[v] = db.users[v]
           /\ Opened(u).sessions = db.sessions
<1>1. Tabled(db) /\ clock \in Nat
  BY InvFine
<1>2. Unlocked(db, u).sessions = db.sessions
  BY <1>1 DEF Unlocked, Tabled
<1> QED
  BY <1>1, <1>2, TabledOn, OthersSame DEF Opened

LEMMA LoginRefusedStands ==
    ASSUME Inv, NEW u \in User, LoginRefused(u)
    PROVE  CountStands
<1>1. Commits(<<Opened(u)>>) /\ ~Locked(u) /\ faults \in Nat
  BY InvFine DEF LoginRefused
<1>2. db' = Opened(u) \/ faults' = faults + 1
  BY <1>1, OneCommit
<1>3. CASE faults' = faults + 1
  BY <1>1, <1>3, RaisedStands
<1>4. CASE db' = Opened(u)
  <2>1. \A v \in User \ {u} : db'.users[v].failed = db.users[v].failed
    BY <1>4, OpenedTabled
  <2>2. db.users[u].failed \in Nat
    BY InvFine DEF Tabled, Account
  <2>3. Forgotten(u) => LockRanOut(u)
    BY <1>1, <1>4, <2>2, LockFound DEF Forgotten
  <2> QED
    BY <2>1, <2>3, OneForgotten
<1> QED
  BY <1>2, <1>3, <1>4

LEMMA LoginFailsStands ==
    ASSUME Inv, NEW u \in User, NEW p \in Password, LoginFails(u, p)
    PROVE  CountStands
<1> DEFINE a == Opened(u)
           b == Incremented(a, u)
           c == LockedIfDue(b, u)
<1>1. /\ Settles(<<a, b, c>>) \/ Raises(<<a, b, c>>)
      /\ ~Locked(u) /\ faults \in Nat /\ clock \in Nat /\ Tabled(db)
  BY InvFine DEF LoginFails, Commits
<1>2. CASE Raises(<<a, b, c>>)
  BY <1>1, <1>2, ThreeRaise, RaisedStands
<1>3. CASE Settles(<<a, b, c>>)
  <2>1. db' = c
    BY <1>3, ThreeSettle
  <2>2. Tabled(a) /\ \A v \in User \ {u} : a.users[v] = db.users[v]
    BY OpenedTabled
  <2>3. LockRanOut(u) \/ a = db
    BY <1>1, LockFound
  <2> HIDE DEF a
  <2>4. Tabled(b)
    BY <1>1, <2>2, TabledOn
  <2>5. \A v \in User \ {u} : c.users[v] = db.users[v]
    BY <2>2, <2>4, OthersSame
  <2>6. c.users[u].failed = a.users[u].failed + 1
    <3>1. b.users[u].failed = a.users[u].failed + 1
      BY <2>2 DEF Incremented, Tabled, Account
    <3> HIDE DEF b
    <3>2. c.users[u].failed = b.users[u].failed
      BY <2>4 DEF LockedIfDue, Tabled, Account
    <3> QED
      BY <3>1, <3>2
  <2>7. a.users[u].failed \in Nat
    BY <2>2 DEF Tabled, Account
  <2> HIDE DEF b, c
  <2>8. Forgotten(u) => LockRanOut(u)
    BY <2>1, <2>3, <2>6, <2>7 DEF Forgotten
  <2> QED
    BY <2>1, <2>5, <2>8, OneForgotten
<1> QED
  BY <1>1, <1>2, <1>3

LEMMA LoginSucceedsStands ==
    ASSUME Inv, NEW u \in User, NEW p \in Password, LoginSucceeds(u, p)
    PROVE  CountStands
<1> DEFINE a == Opened(u)
           b == Unlocked(a, u)
           s == Least(FreeSessions)
           c == SessionAdded(b, s, u, p, "login")
<1>1. /\ Settles(<<a, b, c>>) \/ Raises(<<a, b, c>>)
      /\ FreeSessions # {} /\ faults \in Nat /\ clock \in Nat
  BY InvFine DEF LoginSucceeds, Commits
<1>2. CASE Raises(<<a, b, c>>)
  BY <1>1, <1>2, ThreeRaise, RaisedStands
<1>3. CASE Settles(<<a, b, c>>)
  <2>1. db' = c
    BY <1>3, ThreeSettle
  <2>2. Tabled(a) /\ \A v \in User \ {u} : a.users[v] = db.users[v]
    BY OpenedTabled
  <2>3. s \in SessionId /\ db.sessions[s].user = Nobody
    BY <1>1, LeastFree
  <2> HIDE DEF a, s
  <2>4. Tabled(b) /\ \A v \in User \ {u} : b.users[v] = db.users[v]
    BY <1>1, <2>2, TabledOn, OthersSame
  <2> HIDE DEF b
  <2>5. SameCounts(b, c)
    BY <2>3, <2>4, SameWrites
  <2>6. c.sessions[s].user = u
    BY <2>3, <2>4 DEF SessionAdded, Tabled
  <2> HIDE DEF c
  <2>7. LogsIn(u)
    BY <2>1, <2>3, <2>6 DEF LogsIn
  <2> QED
    BY <2>1, <2>4, <2>5, <2>7, OneForgotten DEF SameCounts
<1> QED
  BY <1>1, <1>2, <1>3

LEMMA ResetPasswordStands ==
    ASSUME Inv, NEW m \in mails, NEW p \in Password, ResetPassword(m, p)
    PROVE  CountStands
<1> DEFINE u == m.user
           a == Hashed(db, u, p)
           b == Unlocked(a, u)
           c == SessionsDropped(b, u)
<1>1. /\ Settles(<<a, b, c>>) \/ Raises(<<a, b, c>>)
      /\ m.kind = "reset" /\ clock - m.issued <= ResetAge
      /\ faults \in Nat /\ clock \in Nat /\ Tabled(db)
  BY InvFine DEF ResetPassword, ResetWrites
<1>2. CASE Raises(<<a, b, c>>)
  BY <1>1, <1>2, ThreeRaise, RaisedStands
<1>3. CASE Settles(<<a, b, c>>)
  <2>1. db' = c
    BY <1>3, ThreeSettle
  <2>2. u \in User
    BY DEF Inv, Waits, Mail
  <2>3. PasswordIsReset(u)
    BY <1>1 DEF PasswordIsReset
  <2> HIDE DEF u
  <2>4. Tabled(a) /\ \A v \in User \ {u} : a.users[v] = db.users[v]
    BY <1>1, <2>2, TabledOn, OthersSame
  <2> HIDE DEF a
  <2>5. Tabled(b) /\ \A v \in User \ {u} : b.users[v] = db.users[v]
    BY <1>1, <2>2, <2>4, TabledOn, OthersSame
  <2> HIDE DEF b
  <2>6. SameCounts(b, c)
    BY <2>2, <2>5, SameWrites
  <2> HIDE DEF c
  <2> QED
    BY <2>1, <2>2, <2>3, <2>5, <2>6, OneForgotten DEF SameCounts
<1> QED
  BY <1>1, <1>2, <1>3

LEMMA RegisterUserStands ==
    ASSUME Inv, NEW h \in HandlerId, RegisterUser(h)
    PROVE  CountStands
<1> DEFINE u == handlers[h].user
           p == handlers[h].password
           a == Created(db, u, p)
<1>1. /\ handlers[h].op = "register" /\ ~db.users[u].there
      /\ Commits(<<a>>)
  BY DEF RegisterUser, Commits
<1>2. u \in User /\ Tabled(db)
  BY <1>1, InvFine DEF Inv, Waits
<1> HIDE DEF u, p
<1>3. \A v \in User \ {u} : a.users[v] = db.users[v]
  BY <1>2, OthersSame
<1>4. db.users[u] = NoAccount
  BY <1>1, <1>2 DEF Inv, Fine, Refers
<1>5. a.users[u].failed = 0 /\ NoAccount.failed = 0
  BY <1>2 DEF Created, Tabled, NoAccount
<1> HIDE DEF a
<1>6. SameCounts(db, a)
  BY <1>3, <1>4, <1>5 DEF SameCounts
<1> QED
  BY <1>1, <1>6, OneCommitStands

LEMMA PlainCommitStands ==
    ASSUME Inv,
           \/ \E s \in SessionId : Logout(s)
           \/ \E h \in HandlerId : OpenFirstSession(h)
           \/ \E m \in mails : VerifyEmail(m)
           \/ \E h \in HandlerId, days \in KeyDays : CreateKey(h, days)
           \/ \E h \in HandlerId, u \in User, f \in Flags :
                 UpdateUser(h, u, f[1], f[2])
           \/ \E k \in KeyId : RevokeKey(k)
    PROVE  CountStands
<1>1. Tabled(db) /\ Admin \in User
  BY InvFine
<1>2. CASE \E s \in SessionId : Logout(s)
  BY <1>1, <1>2, SameWrites, OneCommitStands DEF Logout
<1>3. CASE \E h \in HandlerId : OpenFirstSession(h)
  <2>1. PICK h \in HandlerId : OpenFirstSession(h)
    BY <1>3
  <2>2. /\ Least(FreeSessions) \in SessionId
        /\ Commits(<<SessionAdded(db, Least(FreeSessions), handlers[h].user,
                                  handlers[h].password, "register")>>)
    BY <2>1, LeastFree DEF OpenFirstSession
  <2> QED
    BY <1>1, <2>2, SameWrites, OneCommitStands
<1>4. CASE \E m \in mails : VerifyEmail(m)
  <2>1. PICK m \in mails : VerifyEmail(m)
    BY <1>4
  <2>2. m.user \in User /\ Commits(<<Verified(db, m.user)>>)
    BY <2>1 DEF VerifyEmail, Inv, Waits, Mail
  <2> QED
    BY <1>1, <2>2, SameWrites, OneCommitStands
<1>5. CASE \E h \in HandlerId, days \in KeyDays : CreateKey(h, days)
  <2>1. PICK h \in HandlerId, days \in KeyDays : CreateKey(h, days)
    BY <1>5
  <2>2. /\ Least(FreeKeys) \in KeyId
        /\ Commits(<<KeyAdded(db, Least(FreeKeys), handlers[h].user, days)>>)
    BY <2>1, LeastFree DEF CreateKey
  <2> QED
    BY <1>1, <2>2, SameWrites, OneCommitStands
<1>6. CASE \E h \in HandlerId, u \in User, f \in Flags :
              UpdateUser(h, u, f[1], f[2])
  BY <1>1, <1>6, SameWrites, OneCommitStands DEF UpdateUser
<1>7. CASE \E k \in KeyId : RevokeKey(k)
  BY <1>1, <1>7, SameWrites, OneCommitStands DEF RevokeKey
<1> QED
  BY <1>2, <1>3, <1>4, <1>5, <1>6, <1>7

LEMMA QuietStands ==
    ASSUME Inv, UNCHANGED db
    PROVE  CountStands
BY SameCountsStand DEF SameCounts

LEMMA NextStands == Inv /\ [Next]_vars => [CountStands]_vars
<1> SUFFICES ASSUME Inv, Next PROVE CountStands
  OBVIOUS
<1>1. CASE Login
  BY <1>1, LoginRefusedStands, LoginFailsStands, LoginSucceedsStands DEF Login
<1>2. CASE \E s \in SessionId : Logout(s)
  BY <1>2, PlainCommitStands
<1>3. CASE Register
  <2>1. CASE \E u \in User, p \in Password : BeginRegister(u, p)
    BY <2>1, QuietStands DEF BeginRegister
  <2>2. CASE \E h \in HandlerId : EmailTaken(h)
    BY <2>2, QuietStands DEF EmailTaken
  <2> QED
    BY <1>3, <2>1, <2>2, RegisterUserStands, PlainCommitStands DEF Register
<1>4. CASE Recover
  <2>1. CASE \E u \in User : ForgotPassword(u) \/ ResendVerification(u)
    BY <2>1, QuietStands DEF ForgotPassword, ResendVerification
  <2> QED
    BY <1>4, <2>1, ResetPasswordStands, PlainCommitStands DEF Recover
<1>5. CASE Manage
  <2>1. CASE \E u \in User : BeginCreateKey(u) \/ BeginUpdateUser(u)
    BY <2>1, QuietStands DEF BeginCreateKey, BeginUpdateUser
  <2> QED
    BY <1>5, <2>1, PlainCommitStands DEF Manage
<1>6. CASE (\E h \in HandlerId : Abandon(h)) \/ Crash \/ Tick
  BY <1>6, QuietStands DEF Abandon, Crash, Tick
<1> QED
  BY <1>1, <1>2, <1>3, <1>4, <1>5, <1>6 DEF Next

\* authenticate forgets failures in a row when their owner logs in or the lock
\* has run out, reset_password when it is done; nothing else does, except where
\* a call raised on the way.
THEOREM FailuresStand == Spec => CountKept
<1>1. Inv /\ [Next]_vars => [CountStands]_vars
  BY NextStands
<1> QED
  BY <1>1, InvAlways, PTL DEF Spec, CountKept

=============================================================================
