SPECIFICATION Spec
CONSTANTS
  Speakers = {s1}
  Hangers = {h1}
  Clearers = {c1}
  Names = {n1, n2}
  Nobody = Nobody
  NoName = NoName
  MaxGen = 0
  MaxAudio = 1
  MaxFrames = 1
  MaxClears = 1
  ResetOnLoop = FALSE
PROPERTIES HangupHonoured
