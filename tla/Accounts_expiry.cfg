\* One user logs in and time passes.
SPECIFICATION Spec
CONSTANTS
    User <- Two
    Admin = "admin"
    Password <- Passwords
    MaxFailed = 2
    LockTime = 1
    ResetAge = 1
    VerifyAge = 2
    Day = 2
    SessionDays = 1
    Flags <- Changes
    KeyDays <- Lives
    MaxSessions = 1
    MaxKeys = 0
    MaxMails = 1
    MaxHandlers = 0
    MaxTime = 4
    MaxFaults = 0
INVARIANTS
    SessionsEnd
CHECK_DEADLOCK FALSE
