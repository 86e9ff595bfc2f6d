SPECIFICATION SandboxSpec
CONSTANTS
  Files = {"f"}
  Contents = {"c", "d"}
  Configs <- NetworkSettings
  MaxEdits = 2
  MaxCommands = 3
  SetupCounts = {0, 2}
  TestCounts = {1, 2}
  Repetitions = {2, 3}
  Readers = {"reader"}
  CommandOutcomes <- TestOutcomes
  Script <- TestScript
  MaxItems = 1
  MaxShown = 1
  MaxReads = 2
INVARIANTS
  SessionIsClean
  VerdictsAreWitnessed
  AnalysesAreFaithful
PROPERTY
  EventuallyAnalyzed
