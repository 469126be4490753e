CONSTANTS
  Adapters = {"microsandbox", "db9"}
  Calls = {c1, c2, c3}
  None = None
  MaxTries = 1
SPECIFICATION Spec
CHECK_DEADLOCK FALSE
INVARIANT DestroyIdempotent
