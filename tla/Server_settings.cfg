\* Settings are changed, files edited and reloaded, components fail and jobs
\* too, and the server is restarted once.
SPECIFICATION Spec
CONSTANTS
    Config <- Deployed
    HasGoogleKey = TRUE
    HasAnthropicKey = TRUE
    Version <- Contents
    Malformed <- Broken
    First = "v1"
    Patches <- Bodies
    User <- Users
    Admin = 1
    Components <- Checks
    Loads <- Mixed
INVARIANTS
    TypeOK
    InForce
    MoodTogether
    ToldOnce
PROPERTIES
    OutageHeard
CHECK_DEADLOCK FALSE
