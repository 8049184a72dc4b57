CONSTANTS
  Keys = {"shift_left", "shift_right", "escape", "f11", "other"}
  Buttons = {left}
  OddButtons = {odd}
  Fine = 2
  Half = 2
  Deltas <- MCDeltas
  MaxRest = 2
  MaxHeld = 2
  Positions <- MCPositions
  Extents = {0, 2}
  Stream = 1
SPECIFICATION Spec
INVARIANT NothingStuck
PROPERTY MotionCarried
CHECK_DEADLOCK FALSE
