SPECIFICATION ComponentsSpec
CONSTANTS
  Absent = Absent
  Unknown = Unknown
  Tasks = {"t1", "t2"}
  Requests <- SomeRequests
  MaxChanges = 3
  Models = {1, 2, 3}
  Name <- ThirdFirst
  Metrics <- SomeMetrics
  Importers = {"i1", "i2"}
  Documents <- SomeDocuments
  Curated = {"c1"}
  Positions = {0, 2}
  MaxEdits = 1
  MaxErrors = 1
  Clients = {"c1", "c2"}
  Kinds = {"issue", "pull", "trusted", "create"}
  Asked = {1, 2}
  PullRequests = {2, 3, 5}
  Texts <- Discussion
  Timeline <- CrossReferences
  FilesAt <- PushedFiles
  TestFiles = {"test_a", "test_b"}
  Unreadable = {}
  Unsupported = {"test_a"}
  LINKED_PR_LIMIT = 2
  MaxPushes = 2
  MaxFailures = 2
INVARIANTS
  ImportsAreWhole
  TasksAreRunnable
  IngestionIsWhole
  ComparisonIsFair
PROPERTIES
  NothingIsLost
  RequestsSettle
