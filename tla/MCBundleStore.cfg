CONSTANTS
  d1 = d1
  d2 = d2
  d3 = d3
  Runs = {1, 2, 3, 4, 5}
  Imports = {4, 5}
  Digests = {d1, d2, d3}
  Bytes <- MCBytes
  Size <- MCSize
  Budget = 2
  NoDigest = NoDigest
SPECIFICATION Spec
CHECK_DEADLOCK FALSE
INVARIANT OwnEvidenceKept
PROPERTY FitsAfterCommit
