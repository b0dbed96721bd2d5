SPECIFICATION Spec
CONSTANTS
  MaxFrames = 2
  Voices <- Boundary
  Records = TRUE
  MaxPuts = 3
  MaxTicks = 2
INVARIANTS NewestWait InOrder MixIsNearest RecordingSound
PROPERTIES MixerEnds
CHECK_DEADLOCK FALSE
