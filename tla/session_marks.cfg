SPECIFICATION Spec
CONSTANTS
  Speakers = {s1, s2}
  Hangers = {}
  Clearers = {}
  Names = {n1, n2}
  Nobody = Nobody
  NoName = NoName
  MaxGen = 1
  MaxAudio = 1
  MaxFrames = 1
  MaxClears = 0
  ResetOnLoop = TRUE
SYMMETRY Symmetry
INVARIANTS PendingOwned NoOrphanStt OneCallbackPerCall 
   
