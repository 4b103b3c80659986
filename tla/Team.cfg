SPECIFICATION FairSpec
CONSTANTS
  Msg = {m1}
  MaxCalls = 2
  Bots = {"discord", "slack"}
  MaxFaults = 2
  MaxLines = 2
  nothing = nothing
INVARIANTS OneRunPerWindow DeliveredWasShown
PROPERTIES EveryLineSettles
CHECK_DEADLOCK FALSE
