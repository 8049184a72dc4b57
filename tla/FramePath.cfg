CONSTANTS
  Samples = {t1, t2, t3, t4}
  RingSize = 2
  SubmittedLimit = 2
  MaxPushed = 4
  MaxFormats = 1
  Keys = {1, 3}
  NewSets = 4
SPECIFICATION BothSpec
SYMMETRY SampleSymmetry
INVARIANT Intact
INVARIANT SamplesSuffice
INVARIANT NeverBehind
PROPERTY Timed
CHECK_DEADLOCK FALSE
