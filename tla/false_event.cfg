SPECIFICATION Spec
CONSTANTS
  Ids = {c1, c2}
  None = None
  Names <- OneName
  Requests <- Mixed
  Watchers = {}
  FeedCap = 1
  Outcomes = {"ok", "err"}
  UuidCoalesceFails = FALSE
  ErrorsAsPanics = FALSE
  CanCrash = FALSE
INVARIANT
  RecordedTransitionsHappened
