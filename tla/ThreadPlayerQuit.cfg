SPECIFICATION Spec
CONSTANTS
  QueueMaxSize = 1
  WaitFor = 2
  WithAudio = FALSE
  MaxReads = 2
  MaxFrames = 1
  MaxCloses = 1
PROPERTIES
  QuitEndsLoop
CHECK_DEADLOCK FALSE
