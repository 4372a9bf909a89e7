\* Jobs and the MCP tool extract the entries of two users at the same time,
\* candidates are reviewed, and one call of a provider raises.
SPECIFICATION Spec
CONSTANTS
    Users <- Both
    Owner <- TwoOwners
    Name <- Names2
    Fold <- Folding2
    Lower <- Folding2
    AuthorName = "bob"
    Alike <- Same2
    Close <- Near
    Answers <- Meetings
    Requests <- EverySource
    MaxEntities = 4
    MaxRuns = 2
    MaxQueue = 1
    MaxFaults = 1
    MaxCrashes = 0
INVARIANTS
    OwnersKept
CHECK_DEADLOCK FALSE
