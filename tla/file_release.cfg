CONSTANTS
  t1 = t1
  t2 = t2
  n1 = n1
  n2 = n2
  f1 = f1
  f2 = f2
  f3 = f3
  outer = outer
  Threads = {t1}
  Fds = {n1, n2}
  Files = {f1, f2}
  Outer = outer
  Nodes = {2, 3}
  Root = 1
  Openable = {2, 3}
  MaxOpens = 2
SPECIFICATION Spec
INVARIANTS
  OpenIsReleased
