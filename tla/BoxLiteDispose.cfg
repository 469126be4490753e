SPECIFICATION Spec
CONSTANTS
  Procs = {p1, p2}
  Boxes = {b1}
  Kept = {b1}
  Requests = {r1, r2}
  Actions = {"use"}
  None = None
INVARIANT
  DisposeCleansUp
CHECK_DEADLOCK FALSE
