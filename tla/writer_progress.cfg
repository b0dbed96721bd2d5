SPECIFICATION Spec
CONSTANTS
  Packet = 2
  Interval = 2
  Latency = 1
  Names = {m1, m2}
  Texts = {x1}
  MaxBytes = 2
  MaxChunk = 2
  MaxClears = 0
  MayExpire = TRUE
  MayFail = TRUE
PROPERTIES AudioMovesOn  TextAnswered
