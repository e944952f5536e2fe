CONSTANTS
  Texts = {d1, d2}
  Carets = {1, 2}
  MaxAsks = 3
SPECIFICATION FairSpec
INVARIANTS ShownFits BadgeIsItsOwn
PROPERTIES PendingResolves BadgeArrives
