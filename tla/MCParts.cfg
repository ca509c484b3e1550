CONSTANTS
  Blocks = {b1, b2, b3}
  NULL = NULL
  Bauds = {9600, 19200, 38400}
  Bytes <- MCBytes
  Latencies = {0, 6, 13}
  Phases <- MCPhases
  Intensities = {0, 1, 100, 101, 255, 300}
  Frames <- MCFrames
  Periods = {15, 25, 36}
  PowerArguments = {20, 82, 300}
SPECIFICATION Spec
INVARIANTS BytesAsSent OutputAsAsked ReadingIsFrame
PROPERTIES ListImplementsFifo LowPowerEnds
