SPECIFICATION Spec
CONSTANTS
  Names = {a}
  Conns = {c1}
  Polls = {}
  Orch = Orch
  Http = Http
  Idle = Idle
  MaxQueue = 2
  MaxSandboxes = 1
  MaxPollWaiters = 1
  DrainLimit = 2
  Limits = {2}
  MaxMsgs = 1
INVARIANT
  DurableOrchestrator
