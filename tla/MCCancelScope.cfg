CONSTANTS
  Procs = {p1, p2}
  Forkers = {p1}
  Dockered = {p1, p2}
  Cancellers = {c1, c2}
  NoProc = NoProc
SPECIFICATION Spec
INVARIANTS SweptOnReturn GroupsSwept ContainersSwept
CHECK_DEADLOCK FALSE
