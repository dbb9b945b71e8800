SPECIFICATION FairSpec
CONSTANTS
  Ids = {c1, c2}
  None = None
  Names <- ApartAndNone
  Requests <- Everything
  Watchers = {w1, w2}
  FeedCap = 1
  Outcomes = {"ok", "err", "lost"}
  UuidCoalesceFails = FALSE
  ErrorsAsPanics = FALSE
  CanCrash = TRUE
INVARIANTS
  GetReturnsItsName
  ClientToldOnce
  FeedTellsAudited
PROPERTIES
  EveryCallReturns
  CacheConverges
