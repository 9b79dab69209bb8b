SPECIFICATION FairSpec
CONSTANTS
  Requests = {r1, r2}
  Tokens = {t1, bad}
  WellFormed = {t1}
  NoToken = NoToken
  RequireRegistered = TRUE
  RetentionDays = 1
  TicksPerDay = 1
  MaxClock = 1
  MaxArrivals = 2
  MaxCrashes = 1
INVARIANTS
  TypeOK
  UniqueIds
  KnownTokensOnly
  LoggedMeansStored
  SchemaReady
PROPERTIES
  Answered
  BootsAgain
