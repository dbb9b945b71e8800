SPECIFICATION ReadersSpec
CONSTANTS
  Ids = {c1, c2}
  None = None
  Names <- BothNames
  Requests <- Writes
  Watchers = {}
  FeedCap = 1
  Outcomes = {"ok"}
  UuidCoalesceFails = FALSE
  ErrorsAsPanics = FALSE
  CanCrash = FALSE
  Clients = {r1}
  Walkers = {}
  Questions <- NeighboursAndVersions
  Times = {1, 2}
  SetBack = FALSE
SYMMETRY Symmetry
INVARIANTS
  HistoryInOrder
  VersionsNeverGoBack
