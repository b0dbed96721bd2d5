SPECIFICATION Spec
CONSTANTS
  Jobs = {j1, j2}
  MaxFailures = 2
  MaxAttempts = 1
  MaxFrames = 1
  MayStop = TRUE
INVARIANTS ListensOn OneFeeder StoppedFeedsNothing
PROPERTIES DeafIsReported
CHECK_DEADLOCK FALSE
