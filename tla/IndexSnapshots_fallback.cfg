SPECIFICATION Spec
CONSTANTS
  Requests = {r1, r2, r3, r4}
  Paths = {1, 2}
  MaxFiles = 2
  Models = {m1, m2}
  Nobody = Nobody
  MaxEdits = 0
  MaxRestarts = 0
INVARIANT MissingEmbeddingsFallBack
CHECK_DEADLOCK FALSE
