SPECIFICATION VideoOnlySpec
CONSTANTS
  QueueMaxSize = 2
  WaitFor = 1
  WithAudio = FALSE
  MaxReads = 3
  MaxFrames = 2
  MaxCloses = 1
PROPERTIES
  WindowCloses
CHECK_DEADLOCK FALSE
