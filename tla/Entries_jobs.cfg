\* Uploads ingested by jobs, with edits and deletes while they run.
SPECIFICATION FairSpec
CONSTANTS
    f = f
    g = g
    MaxEntries = 2
    MaxText = 2
    Chunks <- Sizes2
    Users <- Two
    DefaultUser = 1
    Uploads <- TwoFiles
    Requests <- Jobs
    MaxRetries = 1
    MaxQueue = 1
    MaxFaults = 1
    MaxCrashes = 0
INVARIANTS
    SearchCaughtUp
    ExtrasCaughtUp
    OneEntryPerFile
PROPERTIES
    EditsReachSearch
CHECK_DEADLOCK FALSE
