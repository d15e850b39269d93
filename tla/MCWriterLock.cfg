SPECIFICATION LiveSpec
CONSTANTS
  Procs = {p1, p2}
  Paths = {f1, f2}
  p1 = p1 p2 = p2
  f1 = f1 f2 = f2
  ServerLock = ServerLock
  NoFile = NoFile
  NoProc = NoProc
  MaxTries = 2
  MaxRefs = 2
  MayDeny = TRUE
  ForkPoints = {"idle"}
INVARIANTS Exclusive MetadataNamesServer
PROPERTIES ProbeSound ImplementsStoreRole OperationEnds CrashReleases
CHECK_DEADLOCK FALSE
