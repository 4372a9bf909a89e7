\* Extractions by the worker while entries and entities are deleted, and
\* the process crashes once.
SPECIFICATION Spec
CONSTANTS
    Users <- One
    Owner <- OneOwner
    Name <- Names
    Fold <- Folding
    Lower <- Folding
    AuthorName = "me"
    Alike <- Same
    Close <- Near
    Answers <- Stories
    Requests <- JobsAndDeletes
    MaxEntities = 4
    MaxRuns = 3
    MaxQueue = 1
    MaxFaults = 0
    MaxCrashes = 1
INVARIANTS
    TypeOK
    OneRunPerEntry
    NoTwins
    NoneLeftBehind
CHECK_DEADLOCK FALSE
