CONSTANTS
  Boards = {b1}
  Archive = archive
  Requests <- MCAuthorRequests
  Servers = {s1}
  Procs = {p1, p2}
  ServerOf <- MCServerOf1
  MaxPost <- MCMaxPost
  MaxReqs = 3
  MaxBatch = 2
  MaxCrashes = 0
  None = None
  NoRec = NoRec
SPECIFICATION Spec
INVARIANT TypeOK
INVARIANT ThreadDeletedOnce
INVARIANT DeletePostsOnce
CHECK_DEADLOCK FALSE
