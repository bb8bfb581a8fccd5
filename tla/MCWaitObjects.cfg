SPECIFICATION FairSpec
CONSTANTS
  Threads = {t1, t2, t3}
  Creators = {t1, t2}
  Closers = {t2}
  Signallers = {t1}
  Waiters = {t2, t3}
  Pollers = {t3}
  NEvents = 1
  NSems = 1
  MaxHandles = 2
  Maxes = {1}
  Inits = {0}
  Counts <- UpAndDown
  Wrap = 3
  Timeouts = {"timed", "infinite"}
  MultiWaits <- AllAndAny
  MaxMade = 2
INVARIANTS TypeOK NoLostWakeup OpenHandlesNameTheirObject CallsReachTheirObject
PROPERTIES SignalsReachWaiters

