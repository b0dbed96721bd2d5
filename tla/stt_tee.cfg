SPECIFICATION Spec
CONSTANTS
  Jobs = {j1, j2}
  MaxAttempts = 2
  MaxFrames = 2
INVARIANTS  HeardInOrder 
PROPERTIES PrimaryHears DeafIsReported
CHECK_DEADLOCK FALSE
