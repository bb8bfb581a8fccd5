SPECIFICATION FairSpec
CONSTANTS
  Keys = 2
  Clicks = 1
  Points = 1
  KeyEvery = 2
  ClickEvery = 2
  MouseEvery = 2
  KeyUps = TRUE
  Printable = {1}
  Kids = 1
  QueueCap = 2
  Modes = {"batch", "run", "park"}
  Peeks = {TRUE, FALSE}
  Timers = {"short", "long"}
  Budget = 4
  MaxPosts = 3
INVARIANTS PostQueueOK
PROPERTIES KeystrokesPaired DryQuitDropsOnly PumpWakes
CHECK_DEADLOCK FALSE
