CONSTANTS
  MaxFrames = 4
  Limit = 2
  Step = 1
  Others = {"click"}
  MaxIssued = 4
SPECIFICATION MCSpec
INVARIANTS
  OneWakeUp
  NoLostWakeUp
  MotionPreserved
  StopSendsAll
PROPERTIES
  FramesShown
  QuitEnds
  EndIsTold
  StopEndsThread
  KeepsOrder
CHECK_DEADLOCK FALSE
