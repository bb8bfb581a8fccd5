SPECIFICATION Spec
CONSTANTS
  NSlots = 3
  Spellings = {"a", "A", "ab", "none", "stray"}
  Lower <- TwoSpellings
  Begins <- Beginnings
  NoName = "none"
  Stray = "stray"
  Paths <- SmallPaths
  GuestNames = {"n", "long"}
  GuestDatas = {"x"}
  Names = {"n", "long", "cut"}
  Datas = {"x", "seed", "cut"}
  Cut = "cut"
  Shortened <- FirstUnits
  SeedPath <- SmallSeed
  SeedName = "n"
  SeedData = "seed"
  MaxRuns = 2
  MaxCalls = 4
INVARIANTS KeyTableOK HandlesNameTheirKey
PROPERTIES IsRegistryStore
CHECK_DEADLOCK FALSE
