SPECIFICATION Spec
CONSTANTS
  Msg = {m1, m2}
  MaxCalls = 1
  Bots = {"discord"}
  MaxFaults = 0
  MaxLines = 3
  nothing = nothing
PROPERTIES NoMessageForgotten
CHECK_DEADLOCK FALSE
