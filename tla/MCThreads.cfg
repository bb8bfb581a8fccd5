SPECIFICATION FairSpec
CONSTANTS
  MaxTids = 2
  GuiModes = {TRUE, FALSE}
  NSlots = 2
  NQueues = 1
  QueueCap = 2
  MaxHandles = 2
  MaxPosts = 3
  Codes = {1}
  Joiners = {0}
  TimedJoiners = {2}
  Spawners = {0}
  Launchers = {1}
  Closers = {0}
  Posters = {0}
INVARIANTS ThreadTablesOK JoinsLearnTheEnd MessagesInOrder
PROPERTIES WaitNeverEarly JoinReturns PostsWakeTheThread
CHECK_DEADLOCK FALSE
