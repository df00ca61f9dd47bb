\* Two servers, one request slot each; one crash and restart: load_OPs' zrange racing an insert_post between its two MULTIs.
CONSTANTS
  Boards = {b1}
  Archive = archive
  Requests <- MCCoreRequests
  Servers = {s1, s2}
  Procs = {p1, p2}
  ServerOf <- MCServerOfEach
  MaxPost <- MCMaxPost
  MaxReqs = 2
  MaxBatch = 2
  MaxCrashes = 1
  None = None
  NoRec = NoRec
SPECIFICATION Spec
INVARIANT CacheKnowsRankedThreads
CHECK_DEADLOCK FALSE
