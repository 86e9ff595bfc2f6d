SPECIFICATION ContextSpec
CONSTANTS
  Nobody = Nobody
  Missing = Missing
  Requests = {"r1", "r2", "r3"}
  Paths = {1, 2, 3}
  MaxFiles = 2
  Models = {"m1", "m2"}
  MaxEdits = 1
  MaxRestarts = 1
INVARIANTS
  IndexIsConsistent
  ConversationConverts
PROPERTY
  AnswersArrive
