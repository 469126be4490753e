SPECIFICATION FairSpec
CONSTANTS
  Names = {n1}
  Spawns = {p1}
  Waits = {}
  Sends = {}
  None = None
  MaxSandboxes = 1
  MaxInFlight = 0
PROPERTY
  CloseClosesRelay
CHECK_DEADLOCK FALSE
