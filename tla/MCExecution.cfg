SPECIFICATION Spec
CONSTANTS
 Loaders = {t1, t2}
 Main = t1
 Names = {"a", "alias", "b", "c", "gone", "kernel32"}
 System = {"kernel32"}
 File <- MCFile
 NoFile = "no file"
 Imports <- MCImports
 Exports <- MCExports
 Base <- MCBase
 HasTls = {"exe", "A", "B"}
 Host = {"Sleep"}
 NDlls = 4
 NTls = 4
 MaxLoads = 2
 Prologues <- MCPrologues
 Saved = {"rbx", "rdi"}
 FP = "rbp"
 SmallMax = 2
 Top = 12
 Throwers = {e1, e2}
 Stacks <- MCStacks
 Inners <- MCInners
 Handlers = {h1, h2}
 NVeh = 2
 MaxFrames = 3
 MaxRaises = 2
 MaxChanges = 2
 NoThrower = NoThrower
 B = 2
 NMem = 68
 FsBase = 8
 Values <- MCValues
 Few <- MCFew
 ImportList <- MCImportList
 Crt = {"msvcrt", "ntdll"}
 RegParm = {"PopSList"}
 Arity <- MCArity
 Host32 = {"Sleep", "qsort", "Flush", "unlisted", "GetCommandLineA", "PopSList"}
 MaxDepth = 4
 MaxFrame = 6
 MaxHost = 3
 Layouts <- MCLayouts
 Fixups <- MCFixups
 NSecProt = 2
 NIatPages = 1
 Words <- MCWords
 MaxArgs = 3
 NLine = 8
 NWide = 9
 Guests = {g1, g2}
 Lines <- MCLines
 NProc = 1
 NSpare = 1
 Statuses <- MCStatuses
 MaxChildren = 2
 MaxProcCalls = 4
 Runners = {r1, r2}
 First = r1
 Crashes <- MCCrashes
 Walked <- MCWalked
 NTop = 1
 NScan = 2
 NFast = 3
 RA = 1
 NWatch = 2
 Window = 4
 Far = 8
 NWalk = 4
 NSamples = 2
 NUnique = 2
 NTold = 2
 MaxTold = 2
 Maps <- MCMaps
 Addresses = {0,1,2,3,4,5,6,7}
 NPages = 5
 NArena = 3
 ImagePages = {0}
 StackPages = {4}
 NVAlloc = 2
 Protections = {"noaccess", "readonly", "readwrite"}
 MaxVmCalls = 5
INVARIANTS LoadingBindsImports ProgramsRunWhole UnwindingFindsTheCaller ExceptionsFindTheirCatch ProgramsCompute Calls32Nest
CHECK_DEADLOCK FALSE
