SPECIFICATION Spec
CONSTANTS
  f1 = f1
  d0 = d0
  d1 = d1
  d2 = d2
  Files <- OneFile
  NoDiff = d0
  Diffs <- TwoDiffs
  Configs <- PromiseConfigs
  MaxApiApplies = 1
PROPERTIES
  ImplementsPromise
