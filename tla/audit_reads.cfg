SPECIFICATION ReadersSpec
CONSTANTS
  Ids = {c1}
  None = None
  Names <- BothNames
  Requests <- Submits
  Watchers = {}
  FeedCap = 1
  Outcomes = {"ok"}
  UuidCoalesceFails = FALSE
  ErrorsAsPanics = FALSE
  CanCrash = FALSE
  Clients = {r1}
  Walkers = {r1}
  Questions <- PageWalks
  Times = {1, 2, 3, 4}
  SetBack = TRUE
SYMMETRY Symmetry
INVARIANTS
  ReadersTypeOK
  TotalWithinReach
  WalkMissesOnlyTies
