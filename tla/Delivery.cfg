CONSTANTS
    m1 = m1
    m2 = m2
    m3 = m3
    d1 = d1
    d2 = d2
    Msg = {m1, m2}
    Drain = {d1, d2}
    MaxAttempts = 3
    MaxFaults = 2
SPECIFICATION FairSpec
INVARIANTS NothingLost SentOnce
PROPERTIES EveryMessageSettled
CHECK_DEADLOCK FALSE
