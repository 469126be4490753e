SPECIFICATION FairSpec
CONSTANTS
  Names = {n1, n2}
  Spawns = {p1, p2}
  Waits = {w1}
  Sends = {}
  None = None
  MaxSandboxes = 1
  MaxInFlight = 1
INVARIANTS
  TypeOK
  NamesHeld
  InstancesBounded
  ReadyDestroyed
  NoSleeper
PROPERTIES
  NothingHangs
CHECK_DEADLOCK FALSE
