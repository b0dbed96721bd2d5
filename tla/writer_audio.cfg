SPECIFICATION Spec
CONSTANTS
  Packet = 2
  Interval = 2
  Latency = 1
  Names = {m1, m2}
  Texts = {}
  MaxBytes = 3
  MaxChunk = 2
  MaxClears = 1
  MayExpire = TRUE
  MayFail = TRUE
SYMMETRY Symmetry
PROPERTIES EchoedIsSent NoStaleAudio ImplementsPlayout
