\* Log-ins, resets and registration by two users, with one raising call or
\* crash.
SPECIFICATION Spec
CONSTANTS
    User <- Two
    Admin = "admin"
    Password <- Passwords
    MaxFailed = 2
    LockTime = 1
    ResetAge = 0
    VerifyAge = 1
    Day = 1
    SessionDays = 1
    Flags <- Changes
    KeyDays = {1}
    MaxSessions = 1
    MaxKeys = 1
    MaxMails = 2
    MaxHandlers = 1
    MaxTime = 1
    MaxFaults = 1
INVARIANTS
    TypeOK
    LockFollowsCount
    SessionsFollowPassword
PROPERTIES
    CountKept
CHECK_DEADLOCK FALSE
