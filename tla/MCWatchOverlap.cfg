CONSTANTS
  Commits = {c0, c1}
  Root = c0
  MaxMoves = 1
  MaxRuns = 2
  MaxStarts = 2
  MaxStops = 1
SPECIFICATION FairSpec
INVARIANT OneAtATime
