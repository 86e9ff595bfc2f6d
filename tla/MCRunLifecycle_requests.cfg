SPECIFICATION Spec
CONSTANTS
  Limits <- OneOrTwo
  SettingsSpace <- Extremes
  Requests <- RequestKinds
  MaxRequests = 1
INVARIANTS
  FailedIsClassified
PROPERTIES
  EndedIsNotAccepted
  EventuallySettled
