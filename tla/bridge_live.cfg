CONSTANTS
  t1 = t1
  t2 = t2
  t3 = t3
  d1 = d1
  d2 = d2
  Threads = {t1, t2}
  Daemons = {d1}
  MaxUnique = 2
  UkfsOpcodes = {"LOOKUP", "GETATTR", "OPEN", "READ", "READDIR", "OTHER"}
  Implemented = {"LOOKUP", "GETATTR", "READ"}
  ReplyStyles = {"err", "ok", "eof", "negative"}
  FailingAllocs = {"name", "child", "reply"}
  MayDefer = TRUE
SPECIFICATION FairSpec
PROPERTIES
  EveryCallReturns
  ImplementsFairService
