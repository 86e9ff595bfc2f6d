SPECIFICATION Spec
CONSTANTS
  Limits <- One
  SettingsSpace <- PlainRun
  Requests <- RunsTests
  MaxRequests = 1
PROPERTIES
  CompletedIsImmutable
