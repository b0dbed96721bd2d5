SPECIFICATION Spec
CONSTANTS
  MaxGen = 1
  MaxPuts = 1
  HasStt = TRUE
  SttMayFail = TRUE
  RestCalls = {0}
  BotCalls = {0}
INVARIANTS SessionTold TasksEndFirst
PROPERTIES RequestedEnds
CHECK_DEADLOCK FALSE
