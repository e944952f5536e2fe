CONSTANTS
  Callers = {c1}
  MaxSpawns = 2
  MaxCalls = 2
  None = None
SPECIFICATION FairSpec
INVARIANTS OwnedGroups SecondIsDropped RespawnsSwept CallIntegrity
PROPERTIES DeathNoticed ShutdownReturns
