SPECIFICATION Spec
CONSTANTS
  Ids = {c1}
  None = None
  Names <- OneName
  Requests <- Submits
  Watchers = {}
  FeedCap = 1
  Outcomes = {"ok"}
  UuidCoalesceFails = TRUE
  ErrorsAsPanics = TRUE
  CanCrash = FALSE
INVARIANT
  ValidSubmissionPromoted
