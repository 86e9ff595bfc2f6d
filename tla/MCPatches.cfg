SPECIFICATION PatchesSpec
CONSTANTS
  Tracked = {"t"}
  New = {"n"}
  Texts = {"x", "b"}
  Endings = {TRUE, FALSE}
  Clients = {"c1", "c2"}
  Barred = {"b"}
  MaxFiles = 2
  Free = {"t"}
  MaxEdits = 2
  MaxVersions = 2
  MaxRankings = 1
  NoPatch = NoPatch
  Unmeasured = Unmeasured
INVARIANTS
  StoreIsSound
  QualityIsExplained
  SelectionFollowsPatch
PROPERTY
  NothingIsRewritten
