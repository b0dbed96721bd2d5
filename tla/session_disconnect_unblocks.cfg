SPECIFICATION Spec
CONSTANTS
  Speakers = {s1, s2}
  Hangers = {}
  Clearers = {}
  Names = {n1, n2, n3}
  Nobody = Nobody
  NoName = NoName
  MaxGen = 0
  MaxAudio = 1
  MaxFrames = 0
  MaxClears = 0
  ResetOnLoop = TRUE
PROPERTIES DisconnectUnblocks
