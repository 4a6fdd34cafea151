CONSTANTS
  t1 = t1
  t2 = t2
  t3 = t3
  d1 = d1
  d2 = d2
  Threads = {t1, t2}
  Daemons = {d1}
  MaxUnique = 3
  UkfsOpcodes = {"LOOKUP", "READ", "OTHER"}
  Implemented = {"LOOKUP", "GETATTR", "OPEN", "READ", "READDIR"}
  ReplyStyles = {"err", "ok", "eof", "negative", "iov", "data"}
  FailingAllocs = {"name", "child", "reply", "request"}
  MayDefer = TRUE
SPECIFICATION Spec
SYMMETRY ThreadSymmetry
INVARIANTS
  TypeOK
  PopFindsRequest
  FramesOutliveUse
  ServedOnce
  NoLeak
  IndInv
PROPERTIES
  ReplyStable
  ImplementsService
\* A request libfuse drops, or answers past the waiting thread, hangs its caller.
CHECK_DEADLOCK FALSE
