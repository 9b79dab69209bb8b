SPECIFICATION FairSpec
CONSTANTS
  Values <- MCValues
  Parse <- MCParse
  Public <- MCPublic
  Unknown = "unknown"
  TrustProxy = TRUE
  Requests = {r1, r2}
  Tokens = {t1}
  WellFormed = {t1}
  Visits <- MCVisits
  RequireRegistered = TRUE
  MaxArrivals = 2
  MaxCrashes = 1
INVARIANTS
  TypeOK
  LoggedStays
  OnePointPerRequest
  Attributed
PROPERTIES
  Answered
