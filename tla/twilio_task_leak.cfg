SPECIFICATION Spec
CONSTANTS
  MaxGen = 0
  MaxPuts = 1
  HasStt = TRUE
  SttMayFail = TRUE
  RestCalls = {}
  BotCalls = {0}
INVARIANTS NoTaskOutlives
CHECK_DEADLOCK FALSE
