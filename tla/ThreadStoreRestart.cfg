\* Two servers, one request slot each; one crash and restart; the servers' own
\* background work is weakly fair.
CONSTANTS
  Boards = {b1}
  Archive = archive
  Requests <- MCCoreRequests
  Servers = {s1, s2}
  Procs = {p1, p2}
  ServerOf <- MCServerOfEach
  MaxPost <- MCMaxPost
  MaxReqs = 2
  MaxBatch = 1
  MaxCrashes = 1
  None = None
  NoRec = NoRec
SPECIFICATION FairSpec
INVARIANT TypeOK
INVARIANT ThreadDeletedOnce
INVARIANT DeletePostsOnce
INVARIANT RefreshNeverUnranks
PROPERTY RemovedRepliesSealed
CHECK_DEADLOCK FALSE
