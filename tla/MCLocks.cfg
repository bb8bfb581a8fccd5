SPECIFICATION FairSpec
CONSTANTS
  Threads = {t1, t2, t3}
  Programs = {{"cs"}, {"srw"}, {"once"}}
  Srws = {k1, k2}
  Cvs = {v1}
  NSrws = 1
  NCvs = 1
  MaxDepth = 2
  None = None
INVARIANTS OnceTableOK LocksExclude
PROPERTIES OnceSettles
