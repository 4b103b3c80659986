CONSTANTS
    a1 = a1
    a2 = a2
    quiet = quiet
    busy = busy
    Agent = {a1, a2}
    Signal = {quiet, busy}
    Nothing = Nothing
    NoFile = NoFile
    Sweep = {1, 2}
    MaxCrashes = 1
SPECIFICATION FairSpec
INVARIANTS OneTickPerAgent NoChangeSwallowed
PROPERTIES EveryChangeShown
