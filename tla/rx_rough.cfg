SPECIFICATION MixedSpec
CONSTANTS
  Codes <- MCOneCode
  Commands <- MCCommands
  QueueSize = 1
  MaxFrames = 2
  NoisyBits <- MCStartNoise
  QuietStart = FALSE
  Prompt = TRUE
INVARIANTS
  NoByteWithoutEdges
PROPERTIES
  InitReturns
CHECK_DEADLOCK FALSE
