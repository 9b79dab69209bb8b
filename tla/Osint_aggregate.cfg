SPECIFICATION FairSpec
CONSTANTS
  Jobs = {q1, q2}
  IPs = {i1}
  Domains = {d1, d2, d3}
  Emails = {m1}
  EmailDomain <- MCEmailDomain
  Tasks <- MCTasks
  Keys <- MCKeys
  Lenient <- MCLenient
  Requests <- MCRequests
  Limit = 2
  MaxEntries = 1
  TTL = 0
  MaxClock = 1
  MaxAccepted = 2
CHECK_DEADLOCK FALSE
INVARIANTS
  AggregateTypeOK
  EveryLookupReported
  CallsWithinCap
PROPERTIES
  ImplementsService
