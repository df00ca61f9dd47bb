\* A post left open on one server while another purges its thread; the
\* first server crashes and restarts into finish_all.
CONSTANTS
  Boards = {b1}
  Archive = archive
  Requests <- MCPurgeRequests
  Servers = {s1, s2}
  Procs = {p1, p2}
  ServerOf <- MCServerOfEach
  MaxPost <- MCMaxPost
  MaxReqs = 2
  MaxBatch = 1
  MaxCrashes = 1
  None = None
  NoRec = NoRec
SPECIFICATION Spec
INVARIANT FinishAllNeverThrows
CHECK_DEADLOCK FALSE
