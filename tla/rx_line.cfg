SPECIFICATION FairSpec
CONSTANTS
  Codes <- MCCodes
  QueueSize = 1
  MaxFrames = 4
  NoisyBits <- MCFrameNoise
  QuietStart = TRUE
  Prompt = TRUE
INVARIANTS
  TypeOK
  DeliversWhatWasSent
  LossIsExplained
PROPERTIES
  AcceptedIsDelivered
CHECK_DEADLOCK FALSE
