CONSTANTS
  Commits = {c0, c1, c2}
  Root = c0
  MaxMoves = 2
  MaxRuns = 3
  MaxStarts = 1
  MaxStops = 2
SPECIFICATION FairSpec
INVARIANT RunsChain
PROPERTY CatchesUp
