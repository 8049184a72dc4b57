CONSTANTS
  Streams = {s1, s2}
  PoolLimit = 4
  MaxQueued = 2
  MaxMade = 6
  Runs = 1
  MaxFaults = 0
  HostCodec = "h264"
SPECIFICATION LSpec
INVARIANT HostAlwaysTold
CHECK_DEADLOCK FALSE
