SPECIFICATION Spec
CONSTANTS
 Users = {u1, u2}
 Paths = {"p"}
 NSlots = 2
 NObjects = 1
 NSections = 1
 NViews = 1
 MaxFiles = 2
 MaxOpens = 2
 MaxSize = 1
 NAttrs = 2
 MaxNamed = 4
 NAddr = 3
 NReg = 2
 NGHandle = 1
 CookieMod = 1
 MaxCookies = 2
 NItems = 3
 NButtons = 2
 NLabels = 2
 NBands = 3
 MaxTexts = 3
 Trees <- MCTrees
 Ids = {2}
 NMenus = 3
 NEntries = 2
 MaxMenus = 3
 Templates <- MCTemplates
 NChild = 2
 NProcs = 1
 MaxShown = 2
 MaxNest = 2
 Handles = {1, 2}
 Tags = {1, 2}
 NAttached = 2
 NHooks = 3
 MaxHooks = 3
 MaxFiring = 2
 Askers = {u1, u2}
 MaxText = 2
 MaxChanges = 1
 NRing = 2
 Pids = {1, 2}
 NInstances = 2
 Starts <- MCStarts
 Pieces <- MCPieces
 Exts <- MCExts
 Texts <- MCTexts
 Urls <- MCUrls
 UrlRooms <- MCUrlRooms
 MaxChars = 10
 MaxCalls = 4
 Directories <- MCDirectories
 Wanted <- MCWanted
 VersionBlocks <- MCVersionBlocks
 VersionPaths <- MCVersionPaths
 Tables <- MCTables
 NAccel = 2
 MaxAccels = 2
 MaxTables = 3
 Sides = {16, 32, 48}
 Rooms = {0, 8}
 MaxGroup = 2
 Shapes <- MCShapes
 ShellFiles <- MCShellFiles
 NIcons = 3
 NCache = 2
 NLists = 2
 ListMax = 3
 MaxIconCalls = 5
 Boxes <- MCBoxes
 BoxLists <- MCBoxLists
 Polygons <- MCPolygons
 NRgn = 2
 NRects = 8
 MaxRegionCalls = 4
 Sizes <- MCSizes
 Formats = {16, 32}
 Rops = {"SRCCOPY", "PATPAINT"}
 Blits <- MCBlits
 Stretches <- MCStretches
 Dibs <- MCDibs
 DibRects <- MCDibRects
 NSurfaces = 2
 NBrushes = 1
 MaxPaintCalls = 3
 CanvasWidth = 5
 CanvasHeight = 4
 Figures <- MCFigures
 StackSize = 8
 FillCap = 60
 MaxFigures = 4
 AtomNames = {"a", "b"}
 NAtoms = 2
 MaxRefs = 3
 NBlocks = 3
 FirstExits = 2
 ClipFormats = {1, 2}
 PipeNames <- MCPipeNames
 NPipes = 2
 MaxCommonCalls = 6
 Folder <- MCFolder
 Patterns <- MCPatterns
 NFinds = 3
 Index <- MCIndex
 IndexRooms = {4, 80, 96, 168}
 Variables <- MCVariables
 BaseVariables <- MCBaseVariables
 OwnVariables <- MCOwnVariables
 Masks = {{"read"}, {"read", "write", "control"}, {"generic_read"}, {"generic_read", "delete"}}
 AceEntries <- MCEntries
 AclRooms = {8, 44}
 MaxListingCalls = 4
SYMMETRY Guests
INVARIANTS   AnswersAreRight PicturesAreRight
CHECK_DEADLOCK FALSE
