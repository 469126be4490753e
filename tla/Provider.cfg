CONSTANTS
  Adapters = {"flyio", "aio", "aioProbed", "cloudflare", "boxlite", "daytona",
              "daytonaRest", "microsandbox", "e2b", "cloud", "volume", "db9"}
  Calls = {c1, c2}
  None = None
  MaxTries = 2
SPECIFICATION FairSpec
CHECK_DEADLOCK FALSE
INVARIANTS
  TypeOK
  LeftOnlyWhere
  GoneIsGone
  ReadyMeansRan
  BooksKept
PROPERTY CallsSettle
