CONSTANTS
  Keys = {k1, k2}
  NoKey = none
  Calls = {c1, c2}
  Idle = idle
  MaxChanges = 2
SPECIFICATION FairSpec
INVARIANTS TypeOK PictureTrue PictureConsistent
PROPERTY EveryCallSettles
CHECK_DEADLOCK FALSE
