CONSTANTS
  OldFirst = 4
  OldLast = 5
  NewFirst = 1
  NewLast = 5
  ExtraKeys = {3}
  K = 2
  Pct = 0
  HostFrame <- MCHostFrame
  MaxDelay = 1
  CrossSeam = FALSE
  Packet <- MCPacket
  Source <- MCSource
  KeyFrame <- MCKeyFrame
  IndexMod = 32
  WindowFrames = 2
  RestartDistance = 2
  MaxBlocks = 4
  MaxBlockShards = 255
  HeaderLen = 8
  Gate = TRUE
  MaxRestarts = 1
  StatCap = 0
  None = None
SPECIFICATION SSpec
PROPERTY ReferenceHeldIfFollowed
