CONSTANTS
  Rtt = 1
  Interval = 1
  Floor = 2
  Idle = 2
  Streak = 2
  MaxAnswer = 3
SPECIFICATION LoopFairSpec
PROPERTY PictureRecovers
