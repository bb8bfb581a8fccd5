SPECIFICATION FairSpec
CONSTANTS
  Threads = {t1, t2, t3}
  Creators = {t1, t2}
  NPorts = 1
  Cap = 2
  AssocCap = 1
  Files = {f1}
  Keys = {k1, k2}
  Ovls = {o1}
  MaxBatch = 2
  None = None
INVARIANTS PortTablesOK RingInv NoLostWakeup
PROPERTIES ClaimsFreshSlot EntriesReachWaiters IsFifoQueue
