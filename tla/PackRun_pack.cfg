SPECIFICATION Spec
CONSTANTS
  Size = 3
  MaxEdits = 1
  MaxRequests = 1
INVARIANTS
  EditsBeforeTurnRefused
  StopsAfterFailure
  EntriesAreTrue
PROPERTIES
  HistoryIsKept
  PackEnds
