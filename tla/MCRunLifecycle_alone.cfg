SPECIFICATION Spec
CONSTANTS
  Limits <- OneOrTwo
  SettingsSpace <- SettingsType
  Requests <- NoRequests
  MaxRequests = 0
INVARIANTS
  FailedIsExplained
  VerdictIsEarned
