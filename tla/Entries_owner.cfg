\* A typed entry of user 2, and one edit of it.
SPECIFICATION Spec
CONSTANTS
    f = f
    g = g
    MaxEntries = 1
    MaxText = 2
    Chunks <- Sizes2
    Users <- Two
    DefaultUser = 1
    Uploads <- OneFile
    MaxRetries = 0
    MaxQueue = 1
    MaxCrashes = 0
    MaxFaults = 0
    Requests <- TypeAndEdit
INVARIANTS
    VectorsCarryOwner
CHECK_DEADLOCK FALSE
