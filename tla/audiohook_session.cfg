SPECIFICATION Spec
CONSTANTS
  Frame = 2
  MaxIn = 5
  MaxTexts = 3
INVARIANTS TypeOK BoundAfterOpened 
PROPERTIES ConnectionEnds
CHECK_DEADLOCK FALSE
