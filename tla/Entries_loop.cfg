\* Entries made, edited and deleted on the event loop, with the jobs this
\* queues, one call that raises and one crash.
SPECIFICATION Spec
CONSTANTS
    f = f
    g = g
    MaxEntries = 1
    MaxText = 3
    Chunks <- Sizes
    Users <- Two
    DefaultUser = 1
    Uploads <- OneFile
    Requests <- EventLoop
    MaxRetries = 1
    MaxQueue = 1
    MaxFaults = 1
    MaxCrashes = 1
INVARIANTS
    TypeOK
    NoOrphanVectors
    JobsHaveEntries
    NoMixedVectors
CHECK_DEADLOCK FALSE
