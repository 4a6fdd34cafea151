CONSTANTS
  t1 = t1
  t2 = t2
  t3 = t3
  d1 = d1
  d2 = d2
  Threads = {t1}
  Daemons = {d1}
  MaxUnique = 1
  UkfsOpcodes = {"LOOKUP", "GETATTR", "OPEN", "READ", "READDIR"}
  Implemented = {"LOOKUP", "GETATTR", "OPEN", "READ", "READDIR"}
  ReplyStyles = {"err", "ok", "eof", "iov", "data"}
  FailingAllocs = {}
  MayDefer = FALSE
SPECIFICATION FairSpec
PROPERTIES
  ValidReplyCompletes
CHECK_DEADLOCK FALSE
