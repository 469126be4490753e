SPECIFICATION FairSpec
CONSTANTS
  Sessions = {s1, s2}
  Tokens = {t1, t2}
  Conns = {c1, c2}
  None = None
  MaxSessions = 1
  Ttl = 1
  MaxBirths = 3
INVARIANTS
  TypeOK
  CapacityRespected
  SocketsInTheirSession
  ClientsExact
PROPERTIES
  EndsOnlyWhenAbandoned
  AbandonedSwept
CHECK_DEADLOCK FALSE
