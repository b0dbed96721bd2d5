SPECIFICATION Spec
CONSTANTS
  Hosts = {us1, ie1, au1}
  Default = us1
  None = None
  MaxPages = 2
  MaxRegions = 3
INVARIANTS HangupProven AskedInOrder RegionIsolated ListHonest SafelyPaged
CHECK_DEADLOCK FALSE
