\* Moderation calls racing remove_thread, from two servers.
CONSTANTS
  Boards = {b1}
  Archive = archive
  Requests <- MCAllRequests
  Servers = {s1, s2}
  Procs = {p1, p2}
  ServerOf <- MCServerOfEach
  MaxPost <- MCMaxPost
  MaxReqs = 2
  MaxBatch = 1
  MaxCrashes = 0
  None = None
  NoRec = NoRec
SPECIFICATION Spec
INVARIANT RankingsMatchLifecycle
CHECK_DEADLOCK FALSE
