CONSTANTS
    a = a
    b = b
    c = c
    w1 = w1
    w2 = w2
    Step = {a, b, c}
    Worker = {w1, w2}
    Free = "free"
SPECIFICATION FairSpec
INVARIANTS NoIdleWorker RecursionFindsWaves
PROPERTIES EveryRunEnds DataFlowSpec
