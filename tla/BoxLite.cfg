SPECIFICATION FairSpec
CONSTANTS
  Procs = {p1, p2}
  Boxes = {b1, b2}
  Kept = {b1}
  Requests = {r1, r2}
  Actions = {"create", "use", "start", "stop", "snapshot", "clone", "destroy"}
  None = None
INVARIANTS
  TypeOK
  OneBridge
  NothingLost
  SnapshotQuiet
  HandlesValid
PROPERTIES
  NothingHangs
CHECK_DEADLOCK FALSE
