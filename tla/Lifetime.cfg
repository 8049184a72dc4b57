CONSTANTS
  Streams = {s1, s2}
  PoolLimit = 4
  MaxQueued = 1
  MaxMade = 6
  Runs = 3
  MaxFaults = 1
  HostCodec = "h264"
SPECIFICATION LSpec
INVARIANTS
  TornDown
  OnlyAudioTakesBuffers
  PairedIsTrusted
  ReadyToStream
PROPERTIES
  StopEnds
  StreamsInTheEnd
CHECK_DEADLOCK FALSE
