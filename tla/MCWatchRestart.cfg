CONSTANTS
  Commits = {c0, c1}
  Root = c0
  MaxMoves = 1
  MaxRuns = 3
  MaxStarts = 2
  MaxStops = 2
SPECIFICATION FairSpec
INVARIANTS WatchingHasLoop OnePerLoop
PROPERTIES StopEndsLoops
