CONSTANTS
  Pauses = {p1, p2}
  Uploaders = {u1, u2}
  Cancellers = {c1, c2}
  EmptyBundles = FALSE
  CollectFails = TRUE
  StoreFails = TRUE
SPECIFICATION Spec
INVARIANTS ProvedEndsTimeline SeqStaysFree OneIngest
PROPERTIES KeepsLifecycle
CHECK_DEADLOCK FALSE
