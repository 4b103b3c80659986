CONSTANTS
    r1 = r1
    r2 = r2
    Run = {r1, r2}
    JobName = job
    Job = {job}
    Agents = {}
    Registry = {}
    After <- MCAfter
    Planned = {}
    NoJob = NoJob
    NoRetries = NoRetries
    Window = 10
    BreakAt = 5
    DisableAt = 10
    Hour = 2
    MaxRetries = NoRetries
    Backoffs = 5
    Gate = FALSE
    ConfirmMin = 5
    ApprovalMin = 5
    MaxCrashes = 0
SPECIFICATION Spec
INVARIANTS OneRunPerJob
