CONSTANTS
  FrameIndices = {15, 0, 1, 2}
  KeyIndices = {15, 1}
  TwoBlocks = {2}
  K = 2
  Pct = 50
  OddFrames = {0}
  Packet <- MCPacket
  Source <- MCSource
  KeyFrame <- KeyIndices
  IndexMod = 16
  WindowFrames = 2
  RestartDistance = 7
  MaxBlocks = 4
  MaxBlockShards = 255
  HeaderLen = 8
  Gate = TRUE
  MaxRestarts = 0
  StatCap = 0
  None = None
SPECIFICATION Spec
INVARIANT TypeOK
INVARIANT WindowAhead
INVARIANT NothingWholeWaits
PROPERTY GateSound
PROPERTY CountedOnce
PROPERTY LossReported
PROPERTY KeepsPromise
