SPECIFICATION FairSpec
CONSTANTS
  Threads = {t1}
  Creators = {t1}
  Closers = {}
  Signallers = {t1}
  Waiters = {t1}
  Pollers = {t1}
  NEvents = 2
  NSems = 1
  MaxHandles = 2
  Maxes = {2}
  Inits = {0, 1}
  Counts = {1}
  Wrap = 3
  Timeouts = {"timed", "infinite"}
  MultiWaits <- AllAndAny
  MaxMade = 2
PROPERTY AnyWaitReturnsOnSignal
CHECK_DEADLOCK FALSE
