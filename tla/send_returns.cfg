SPECIFICATION SendSpec
CONSTANTS
  Codes <- MCNone
  Commands <- MCCommands
  QueueSize = 2
  MaxFrames = 0
  NoisyBits <- MCNone
  QuietStart = TRUE
  Prompt = TRUE
PROPERTIES
  SendReturns
CHECK_DEADLOCK FALSE
