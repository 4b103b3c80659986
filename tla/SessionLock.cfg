CONSTANTS
    Msg = {m1, m2, m3}
    Key = {k1, k2}
    NoMsg = NoMsg
    NoEntry = NoEntry
    Chat = Chat
    NoLane = NoLane
    ChatLimit = 2
    BusyMode = "interrupt"
    Clearable = {}
SPECIFICATION Spec
INVARIANTS SerializedUnlessCleared TimeoutIsReported
CHECK_DEADLOCK FALSE
