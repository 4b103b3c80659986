CONSTANTS
    Msg = {m1, m2, m3}
    Key = {k1}
    NoMsg = NoMsg
    NoEntry = NoEntry
    Chat = Chat
    NoLane = NoLane
    ChatLimit = 3
    BusyMode = "interrupt"
    Clearable = {k1}
SPECIFICATION FairSpec
INVARIANTS SlotPerMessage WaitersFollowHolder
PROPERTIES EveryMessageAnswered
CHECK_DEADLOCK FALSE
