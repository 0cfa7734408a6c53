SPECIFICATION Spec
CONSTANTS
  QueueMaxSize = 2
  WaitFor = 2
  WithAudio = TRUE
  MaxReads = 3
  MaxFrames = 2
  MaxCloses = 1
INVARIANT QueuesOutliveThreads
PROPERTIES QuitEndsLoopOrStrands FramesAreDrawn
CHECK_DEADLOCK FALSE
