\* Every request kind, moderation and image calls included, from one server.
CONSTANTS
  Boards = {b1}
  Archive = archive
  Requests <- MCModImageRequests
  Servers = {s1}
  Procs = {p1, p2}
  ServerOf <- MCServerOf1
  MaxPost <- MCMaxPost
  MaxReqs = 3
  MaxBatch = 1
  MaxCrashes = 0
  None = None
  NoRec = NoRec
SPECIFICATION Spec
INVARIANT TypeOK
INVARIANT ImgCtrNeverUndercounts
PROPERTY LifecycleSpec
CHECK_DEADLOCK FALSE
