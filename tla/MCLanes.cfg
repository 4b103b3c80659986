CONSTANTS
    wide = wide
    narrow = narrow
    NoLane = NoLane
    Lane = {wide, narrow}
    Limit <- LaneLimits
    Ticket = {t1, t2, t3, t4}
SPECIFICATION FairSpec
INVARIANTS SlotsAccounted NoIdleSlot
PROPERTIES NoOvertaking EveryWaiterServed PoolSpec
