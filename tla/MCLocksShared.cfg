SPECIFICATION Spec
CONSTANTS
  Threads = {t1, t2}
  Programs = {{"srw"}}
  Srws = {k1}
  Cvs = {v1}
  NSrws = 1
  NCvs = 1
  MaxDepth = 1
  None = None
INVARIANT ReadersExcludeWriters
CHECK_DEADLOCK FALSE
