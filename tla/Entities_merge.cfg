\* One user's entities are merged and renamed while the worker extracts; one name
\* has two spellings that SQLite does not fold.
SPECIFICATION Spec
CONSTANTS
    Users <- One
    Owner <- OneOwner
    Name <- Accented
    Fold <- Folding3
    Lower <- Lowering3
    AuthorName = "bob"
    Alike <- Same3
    Close <- NoPairs
    Answers <- Spellings
    Requests <- MergesAndRenames
    MaxEntities = 3
    MaxRuns = 2
    MaxQueue = 1
    MaxFaults = 0
    MaxCrashes = 0
INVARIANTS
    HistoryTrue
    MergedNamesLead
CHECK_DEADLOCK FALSE
