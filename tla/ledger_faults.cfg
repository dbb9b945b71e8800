SPECIFICATION Spec
CONSTANTS
  Ids = {c1, c2, c3}
  None = None
  Names <- OneName
  Requests <- Mixed
  Watchers = {}
  FeedCap = 1
  Outcomes = {"ok", "err", "lost"}
  UuidCoalesceFails = FALSE
  ErrorsAsPanics = FALSE
  CanCrash = TRUE
SYMMETRY Symmetry
INVARIANTS
  TypeOK
  PrivateUntilPromoted
  OnlyValidatedServed
  VersionChain
  LedgerTrailsByOne
  CheckedEventsAreTrue
  AcknowledgedIsAudited
PROPERTY
  ImplementsLifecycle
