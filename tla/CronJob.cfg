CONSTANTS
    r1 = r1
    r2 = r2
    Run = {r1}
    JobName = job
    Job = {job}
    Agents = {}
    Registry = {}
    After <- MCAfter
    Planned = {}
    NoJob = NoJob
    NoRetries = NoRetries
    Window = 3
    BreakAt = 2
    DisableAt = 3
    Hour = 1
    MaxRetries = 1
    Backoffs = 2
    Gate = TRUE
    ConfirmMin = 5
    ApprovalMin = 5
    MaxCrashes = 1
SPECIFICATION FairSpec
INVARIANTS NoGhostRun CrashFileCoversRun
PROPERTIES OnlyStreaksArePunished OnlyOwnerRefuses SelfHeals
