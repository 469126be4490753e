SPECIFICATION FairSpec
CONSTANTS
  Names = {a}
  Conns = {c1}
  Polls = {p1, p2}
  Orch = Orch
  Http = Http
  Idle = Idle
  MaxQueue = 2
  MaxSandboxes = 1
  MaxPollWaiters = 2
  DrainLimit = 2
  Limits = {1, 2}
  MaxMsgs = 3
VIEW View
INVARIANTS
  TypeOK
  QueuesBounded
  NoLostWakeup
  WaitersAccounted
  NoDoubleDelivery
  OpenSocketsRegistered
  UnregisteredKeepsNothing
PROPERTIES
  OneWay
  DropPolicy
  PollsAnswered
