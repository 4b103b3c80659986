CONSTANTS
    g = g
    p = p
    q = q
    NoJob = NoJob
    Job = {g, p, q}
    Agents = {q}
    Registry = {g}
    After <- MCCycle
    Planned = {p}
SPECIFICATION TableFairSpec
INVARIANTS DisabledHasNoTimer EnabledJobsCanRun
PROPERTIES OffTakesEffect
