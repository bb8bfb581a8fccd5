SPECIFICATION Spec
CONSTANTS
  Classes = {"frame", "view"}
  Controls = {"tip"}
  Tooltips = {"tip"}
  Subs = {"mine"}
  NKids = 1
  NTops = 2
  NLongs = 2
  MaxMade = 3
INVARIANTS WindowTablesOK TopsRouteHome
PROPERTIES RegistrationStealsNothing
CHECK_DEADLOCK FALSE
