SPECIFICATION ReportsSpec
CONSTANTS
  r1 = r1
  r2 = r2
  NoId = NoId
  Unknown = Unknown
  Null = Null
  Clients <- Reviewers
  MaxVersions = 2
  Facts = {"visible_tests_failed"}
  CallIds = {"c1"}
  Payloads <- SomePayloads
  MaxCalls = 3
  MaxRequests = 2
  MaxRows = 1
  MaxPhases = 2
  Testers = {"t1"}
  MaxSnapshots = 2
SYMMETRY Symmetric
INVARIANTS
  ReadinessIsSound
  TraceIsWhole
  
PROPERTY
  ShownResultsStand
