SPECIFICATION Spec
CONSTANTS
  Names = {n1, n2}
  Spawns = {p1, p2}
  Waits = {}
  Sends = {}
  None = None
  MaxSandboxes = 2
  MaxInFlight = 0
INVARIANT
  AllDestroyedWhenClosed
CHECK_DEADLOCK FALSE
