\* One call on the jobs table raises, and the process stops once. The bounds end
\* the behaviours, so a deadlock is no error.
SPECIFICATION Spec
CONSTANTS
    MaxJobs = 5
    ApiKinds <- EachShape
    MoodSettings <- WithMood
    MaxRetries = 1
    MaxFaults = 1
    MaxStops = 1
INVARIANTS
    TypeOK
    AtMostOneSummary
    SummaryComesLast
CHECK_DEADLOCK FALSE
