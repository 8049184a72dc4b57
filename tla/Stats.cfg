CONSTANTS
  QueueLimit = 1
  RingCap = 4
  Lengths = {1, 3}
  Callbacks = {1, 2}
  FixtureLimit = 1
  SubmittedLimit = 2
  RecentLimit = 2
  MaxClock = 2
  MaxEvents = 3
  MaxWindows = 1
  ClockRange = 16
  Hz = 2
  Micro = 3
  Nano = 2
  WindowLen = 3
  CompactAt = 2
  Stamps = {0, 15}
  SendSteps <- Steps
  WaitSteps = {0, 1, 4}
  MaxSent = 7
  MaxFrames = 5
  Cap = 3
  Longest = 3
  Ranks <- MCRanks
  MaxResets = 1
  MaxRecorded = 4
SPECIFICATION MCSpec
INVARIANTS
  AudioAccounted
  ChannelsAligned
  TimelineAdds
  CountersOfWindow
  DelayIsReal
  SummaryIsReal
CHECK_DEADLOCK FALSE
