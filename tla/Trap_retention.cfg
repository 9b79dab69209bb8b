SPECIFICATION Spec
CONSTANTS
  Requests = {r1}
  Tokens = {t1}
  WellFormed = {t1}
  NoToken = NoToken
  RequireRegistered = TRUE
  RetentionDays = 1
  TicksPerDay = 2
  MaxClock = 5
  MaxArrivals = 2
  MaxCrashes = 1
INVARIANTS
  IInv
  StrayHitsBounded
  FreshAfterBoot
PROPERTIES
  KeptForRetention
  ImplementsLog
