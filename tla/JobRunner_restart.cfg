\* Every kind of job and a save, with one crash or shutdown. The bounds end the
\* behaviours, so a deadlock is no error.
SPECIFICATION FairSpec
CONSTANTS
    MaxJobs = 5
    ApiKinds <- EachShape
    MoodSettings <- AnyMood
    MaxRetries = 1
    MaxFaults = 0
    MaxStops = 1
INVARIANTS
    NobodyForgotten
    SummaryTruthful
PROPERTIES
    EveryJobSettles
    OwnerHears
    ImplementsLifecycle
CHECK_DEADLOCK FALSE
