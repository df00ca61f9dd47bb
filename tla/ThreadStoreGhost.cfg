CONSTANTS
  Boards = {b1}
  Archive = archive
  Requests <- MCCoreRequests
  Servers = {s1}
  Procs = {p1}
  ServerOf <- MCServerOf1
  MaxPost <- MCMaxPost4
  MaxReqs = 3
  MaxBatch = 2
  MaxCrashes = 0
  None = None
  NoRec = NoRec
SPECIFICATION Spec
INVARIANT IndexedThreadsLive
CHECK_DEADLOCK FALSE
