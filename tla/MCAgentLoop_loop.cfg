SPECIFICATION Spec
CONSTANTS
  f1 = f1
  d0 = d0
  d1 = d1
  d2 = d2
  Files <- OneFile
  NoDiff = d0
  Diffs <- ThreeDiffs
  Configs <- LoopConfigs
  MaxApiApplies = 1
SYMMETRY EditedDiffs
INVARIANTS
  TypeOK
  BudgetsRespected
  AttemptAlwaysLeft
  OneSubmissionPerResponse
  ReasoningIsRenewed
  OutcomeIsEarned
PROPERTIES
  PlanLockoutIsFinal
  ReturnsSelectedWorkspace
