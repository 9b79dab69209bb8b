SPECIFICATION Spec
CONSTANTS
  Requests = {r1}
  Tokens = {t1}
  WellFormed = {t1}
  NoToken = NoToken
  RequireRegistered = TRUE
  RetentionDays = 1
  TicksPerDay = 1
  MaxClock = 3
  MaxArrivals = 1
  MaxCrashes = 0
INVARIANTS RetentionEnforced
