SPECIFICATION Spec
CONSTANTS
  Ids = {c1, c2}
  None = None
  Names <- OneName
  Requests <- Submits
  Watchers = {}
  FeedCap = 1
  Outcomes = {"ok"}
  UuidCoalesceFails = FALSE
  ErrorsAsPanics = FALSE
  CanCrash = FALSE
INVARIANT
  EvaluateDecides
