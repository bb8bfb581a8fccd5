------------------------------- MODULE Services -------------------------------
(***************************************************************************)
(* The services the loader offers a guest besides running its code, for    *)
(* model checking in one run.  They share no state; part is the one that   *)
(* takes steps in a behaviour.                                             *)
(***************************************************************************)
EXTENDS Integers, Sequences, FiniteSets, TLC

VARIABLES part

(* Files, kernel objects, sections                                          *)
CONSTANTS Users, Paths, NSlots, NObjects, NSections, NViews, MaxFiles, MaxOpens, MaxSize
VARIABLES dir, size, desc, w3, kobj, section, views, creating, held, overlapped, crossed, shrunk

(* Names and attributes of files                                            *)
CONSTANTS NAttrs, MaxNamed
VARIABLES at, named, cwd, attr, strayed

(* Heaps                                                                    *)
CONSTANTS NAddr, NReg, NGHandle, CookieMod, MaxCookies
VARIABLES mode, owned, reg, todo, blocks, ghandle, minted, cookies, issued, died, lost

(* Common controls                                                          *)
CONSTANTS NItems, NButtons, NLabels, NBands, MaxTexts
VARIABLES cls, list, heads, edit, stream, tree, tab, bar, combo, status, rebar, used, made, inherited, capped

(* Menus                                                                    *)
CONSTANTS Trees, Ids, NMenus, NEntries, MaxMenus
VARIABLES menu, mainMenu, menusMade, rows, onBar, loose, loaded

(* Dialogs                                                                  *)
CONSTANTS Templates, NChild, NProcs, MaxShown, MaxNest
VARIABLES child, running, result, procs, shown, set, shared, answered

(* Properties and hooks of windows                                          *)
CONSTANTS Handles, Tags, NAttached, NHooks, MaxHooks, MaxFiring
VARIABLES attachKind, table, left, given, hook, hooksMade, hooksHeld, misused, firing, fired

(* Answers into the buffers of a guest                                      *)
CONSTANTS Askers, MaxText, MaxChanges, NRing, Pids, NInstances
VARIABLES kind, now, ask, tmp, ring, turns, answer, tangled, alive, scan, arena

(* Texts that are paths, and patterns                                       *)
CONSTANTS Starts, Pieces, Exts, Texts, Urls, UrlRooms, MaxChars, MaxCalls
VARIABLES path, leads, pathStrayed, calls, text, pattern

(* Resources and accelerators                                               *)
CONSTANTS Directories, Wanted, VersionBlocks, VersionPaths, Tables, NAccel, MaxAccels, MaxTables
VARIABLES topic, asked, accel, gave, tables

(* Icons and image lists                                                    *)
CONSTANTS Sides, Rooms, MaxGroup, Shapes, ShellFiles, NIcons, NCache, NLists, ListMax,
          MaxIconCalls
VARIABLES subject, shape, icon, cache, iconHeld, spoilt, imageList, want, iconCalls

(* Regions                                                                  *)
CONSTANTS Boxes, BoxLists, Polygons, NRgn, NRects, MaxRegionCalls
VARIABLES rgn, points, overdrawn, regionCalls

(* Bitmaps, contexts, brushes                                               *)
CONSTANTS Sizes, Formats, Rops, Blits, Stretches, Dibs, DibRects, NSurfaces, NBrushes, MaxPaintCalls
VARIABLES bitmap, dc, brush, nextObject, currentBrush, picture, blurred, chosen, overrun,
          confused, paintCalls

(* Figures                                                                  *)
CONSTANTS CanvasWidth, CanvasHeight, Figures, StackSize, FillCap, MaxFigures
VARIABLES canvas, plan, penAt, figures, origin, ownOrigin

(* Atoms, task memory, exit functions, the clipboard, named pipes           *)
CONSTANTS AtomNames, NAtoms, MaxRefs, NBlocks, FirstExits, ClipFormats, PipeNames, NPipes, MaxCommonCalls
VARIABLES common, atom, atomCount, atomHeld, block, tracked, untold, broken, exit, due, ran, clip, seen, pipe, quit,
          job, clouded, commonCalls

(* Files found, indexes, the environment, access control lists              *)
CONSTANTS Folder, Patterns, NFinds, Index, IndexRooms, Variables, BaseVariables, OwnVariables, Masks,
          AceEntries, AclRooms, MaxListingCalls
VARIABLES listing, find, findCount, finding, listed, crossing, cursor, records, scant, environ, wished,
          acl, order, reserved, dacl, listingCalls

F == INSTANCE Files
N == INSTANCE Names
H == INSTANCE Heap
C == INSTANCE Controls
M == INSTANCE Menus WITH MaxMade <- MaxMenus, bar <- mainMenu, made <- menusMade
D == INSTANCE Dialogs
A == INSTANCE Attachments WITH kind <- attachKind, minted <- hooksMade, held <- hooksHeld
W == INSTANCE Answers
P == INSTANCE Paths WITH strayed <- pathStrayed
R == INSTANCE Resources
I == INSTANCE Icons WITH held <- iconHeld, list <- imageList
G == INSTANCE Regions
B == INSTANCE Painting WITH NSlots <- NSurfaces, current <- currentBrush
S == INSTANCE Drawing WITH Width <- CanvasWidth, Height <- CanvasHeight, own <- ownOrigin
K == INSTANCE Commons
L == INSTANCE Listings

ASSUME ServicesAssumption ==
  {NSlots, NObjects, NSections, NViews, MaxFiles, MaxOpens, MaxSize, NAttrs, MaxNamed, NAddr, NReg, NGHandle, MaxCookies,
   NItems, NButtons, NLabels, NBands, MaxTexts, NMenus, NEntries, MaxMenus, NChild, NProcs, MaxShown, MaxNest,
   NAttached, NHooks, MaxHooks, MaxFiring, MaxText, MaxChanges, NRing, NInstances, MaxChars, MaxCalls, NAccel, MaxAccels, MaxTables,
   MaxGroup, NIcons, NCache, NLists, ListMax, MaxIconCalls, NRgn, NRects, MaxRegionCalls, NSurfaces, NBrushes, MaxPaintCalls,
   CanvasWidth, CanvasHeight, StackSize, FillCap, MaxFigures, NAtoms, MaxRefs, NBlocks, FirstExits, NPipes, MaxCommonCalls,
   NFinds, MaxListingCalls} \subseteq Nat /\ CookieMod \in Nat \ {0}

Parts == {"files", "names", "heap", "controls", "menus", "dialogs", "attachments", "answers",
         "paths", "resources", "icons", "regions", "painting", "drawing",
         "commons", "listings"}

fVars        == <<dir, size, desc, w3, kobj, section, views, creating, held, overlapped, crossed, shrunk>>
nVars        == <<at, named, cwd, attr, strayed>>
hVars        == <<mode, owned, reg, todo, blocks, ghandle, minted, cookies, issued, died, lost>>
cVars        == <<cls, list, heads, edit, stream, tree, tab, bar, combo, status, rebar, used, made, inherited, capped>>
mVars        == <<menu, mainMenu, menusMade, rows, onBar, loose, loaded>>
dVars        == <<child, running, result, procs, shown, set, shared, answered>>
aVars        == <<attachKind, table, left, given, hook, hooksMade, hooksHeld, misused, firing, fired>>
wVars        == <<kind, now, ask, tmp, ring, turns, answer, tangled, alive, scan, arena>>
pVars        == <<path, leads, pathStrayed, calls, text, pattern>>
rVars        == <<topic, asked, accel, gave, tables>>
iVars        == <<subject, shape, icon, cache, iconHeld, spoilt, imageList, want, iconCalls>>
gVars        == <<rgn, points, overdrawn, regionCalls>>
bVars        == <<bitmap, dc, brush, nextObject, currentBrush, picture, blurred, chosen, overrun, confused, paintCalls>>
sVars        == <<canvas, plan, penAt, figures, origin, ownOrigin>>
kVars        == <<common, atom, atomCount, atomHeld, block, tracked, untold, broken, exit, due, ran, clip, seen, pipe, quit, job, clouded, commonCalls>>
lVars        == <<listing, find, findCount, finding, listed, crossing, cursor, records, scant, environ, wished, acl, order, reserved, dacl, listingCalls>>

(* A part that takes no steps has no state either.                           *)
Init ==
  /\ part \in Parts
  /\ IF part = "files" THEN F!Init
     ELSE /\ dir = 0 /\ size = 0 /\ desc = 0 /\ w3 = 0 /\ kobj = 0 /\ section = 0 /\ views = 0
          /\ creating = 0 /\ held = 0 /\ overlapped = 0 /\ crossed = 0 /\ shrunk = 0
  /\ IF part = "names" THEN N!Init
     ELSE /\ at = 0 /\ named = 0 /\ cwd = 0 /\ attr = 0 /\ strayed = 0
  /\ IF part = "heap" THEN H!Init
     ELSE /\ mode = 0 /\ owned = 0 /\ reg = 0 /\ todo = 0 /\ blocks = 0 /\ ghandle = 0 /\ minted = 0
          /\ cookies = 0 /\ issued = 0 /\ died = 0 /\ lost = 0
  /\ IF part = "controls" THEN C!Init
     ELSE /\ cls = 0 /\ list = 0 /\ heads = 0 /\ edit = 0 /\ stream = 0 /\ tree = 0 /\ tab = 0 /\ bar = 0 /\ combo = 0 /\ status = 0
          /\ rebar = 0 /\ used = 0 /\ made = 0 /\ inherited = 0 /\ capped = 0
  /\ IF part = "menus" THEN M!Init
     ELSE /\ menu = 0 /\ mainMenu = 0 /\ menusMade = 0 /\ rows = 0 /\ onBar = 0 /\ loose = 0
          /\ loaded = 0
  /\ IF part = "dialogs" THEN D!Init
     ELSE /\ child = 0 /\ running = 0 /\ result = 0 /\ procs = 0 /\ shown = 0 /\ set = 0
          /\ shared = 0 /\ answered = 0
  /\ IF part = "attachments" THEN A!Init
     ELSE /\ attachKind = 0 /\ table = 0 /\ left = 0 /\ given = 0 /\ hook = 0 /\ hooksMade = 0
          /\ hooksHeld = 0 /\ misused = 0 /\ firing = 0 /\ fired = 0
  /\ IF part = "answers" THEN W!Init
     ELSE /\ kind = 0 /\ now = 0 /\ ask = 0 /\ tmp = 0 /\ ring = 0 /\ turns = 0 /\ answer = 0
          /\ tangled = 0 /\ alive = 0 /\ scan = 0 /\ arena = 0
  /\ IF part = "paths" THEN P!Init
     ELSE /\ path = 0 /\ leads = 0 /\ pathStrayed = 0 /\ calls = 0 /\ text = 0 /\ pattern = 0
  /\ IF part = "resources" THEN R!Init
     ELSE /\ topic = 0 /\ asked = 0 /\ accel = 0 /\ gave = 0 /\ tables = 0
  /\ IF part = "icons" THEN I!Init
     ELSE /\ subject = 0 /\ shape = 0 /\ icon = 0 /\ cache = 0 /\ iconHeld = 0 /\ spoilt = 0
          /\ imageList = 0 /\ want = 0 /\ iconCalls = 0
  /\ IF part = "regions" THEN G!Init
     ELSE /\ rgn = 0 /\ points = 0 /\ overdrawn = 0 /\ regionCalls = 0
  /\ IF part = "painting" THEN B!Init
     ELSE /\ bitmap = 0 /\ dc = 0 /\ brush = 0 /\ nextObject = 0 /\ currentBrush = 0 /\ picture = 0
          /\ blurred = 0 /\ chosen = 0 /\ overrun = 0 /\ confused = 0 /\ paintCalls = 0
  /\ IF part = "drawing" THEN S!Init
     ELSE /\ canvas = 0 /\ plan = 0 /\ penAt = 0 /\ figures = 0 /\ origin = 0 /\ ownOrigin = 0
  /\ IF part = "commons" THEN K!Init
     ELSE /\ common = 0 /\ atom = 0 /\ atomCount = 0 /\ atomHeld = 0 /\ block = 0 /\ tracked = 0 /\ untold = 0 /\ broken = 0
          /\ exit = 0 /\ due = 0 /\ ran = 0 /\ clip = 0 /\ seen = 0 /\ pipe = 0 /\ quit = 0 /\ job = 0
          /\ clouded = 0 /\ commonCalls = 0
  /\ IF part = "listings" THEN L!Init
     ELSE /\ listing = 0 /\ find = 0 /\ findCount = 0 /\ finding = 0 /\ listed = 0 /\ crossing = 0
          /\ cursor = 0 /\ records = 0 /\ scant = 0 /\ environ = 0 /\ wished = 0 /\ acl = 0 /\ order = 0
          /\ reserved = 0 /\ dacl = 0 /\ listingCalls = 0

Next ==
  /\ UNCHANGED part
  /\ \/ part = "files" /\ F!Next /\ UNCHANGED <<nVars, hVars, cVars, mVars, dVars, aVars, wVars, pVars, rVars, iVars, gVars, bVars, sVars, kVars, lVars>>
     \/ part = "names" /\ N!Next /\ UNCHANGED <<fVars, hVars, cVars, mVars, dVars, aVars, wVars, pVars, rVars, iVars, gVars, bVars, sVars, kVars, lVars>>
     \/ part = "heap" /\ H!Next /\ UNCHANGED <<fVars, nVars, cVars, mVars, dVars, aVars, wVars, pVars, rVars, iVars, gVars, bVars, sVars, kVars, lVars>>
     \/ part = "controls" /\ C!Next /\ UNCHANGED <<fVars, nVars, hVars, mVars, dVars, aVars, wVars, pVars, rVars, iVars, gVars, bVars, sVars, kVars, lVars>>
     \/ part = "menus" /\ M!Next /\ UNCHANGED <<fVars, nVars, hVars, cVars, dVars, aVars, wVars, pVars, rVars, iVars, gVars, bVars, sVars, kVars, lVars>>
     \/ part = "dialogs" /\ D!Next /\ UNCHANGED <<fVars, nVars, hVars, cVars, mVars, aVars, wVars, pVars, rVars, iVars, gVars, bVars, sVars, kVars, lVars>>
     \/ part = "attachments" /\ A!Next /\ UNCHANGED <<fVars, nVars, hVars, cVars, mVars, dVars, wVars, pVars, rVars, iVars, gVars, bVars, sVars, kVars, lVars>>
     \/ part = "answers" /\ W!Next /\ UNCHANGED <<fVars, nVars, hVars, cVars, mVars, dVars, aVars, pVars, rVars, iVars, gVars, bVars, sVars, kVars, lVars>>
     \/ part = "paths" /\ P!Next /\ UNCHANGED <<fVars, nVars, hVars, cVars, mVars, dVars, aVars, wVars, rVars, iVars, gVars, bVars, sVars, kVars, lVars>>
     \/ part = "resources" /\ R!Next /\ UNCHANGED <<fVars, nVars, hVars, cVars, mVars, dVars, aVars, wVars, pVars, iVars, gVars, bVars, sVars, kVars, lVars>>
     \/ part = "icons" /\ I!Next /\ UNCHANGED <<fVars, nVars, hVars, cVars, mVars, dVars, aVars, wVars, pVars, rVars, gVars, bVars, sVars, kVars, lVars>>
     \/ part = "regions" /\ G!Next /\ UNCHANGED <<fVars, nVars, hVars, cVars, mVars, dVars, aVars, wVars, pVars, rVars, iVars, bVars, sVars, kVars, lVars>>
     \/ part = "painting" /\ B!Next /\ UNCHANGED <<fVars, nVars, hVars, cVars, mVars, dVars, aVars, wVars, pVars, rVars, iVars, gVars, sVars, kVars, lVars>>
     \/ part = "drawing" /\ S!Next /\ UNCHANGED <<fVars, nVars, hVars, cVars, mVars, dVars, aVars, wVars, pVars, rVars, iVars, gVars, bVars, kVars, lVars>>
     \/ part = "commons" /\ K!Next /\ UNCHANGED <<fVars, nVars, hVars, cVars, mVars, dVars, aVars, wVars, pVars, rVars, iVars, gVars, bVars, sVars, lVars>>
     \/ part = "listings" /\ L!Next /\ UNCHANGED <<fVars, nVars, hVars, cVars, mVars, dVars, aVars, wVars, pVars, rVars, iVars, gVars, bVars, sVars, kVars>>

vars == <<part, fVars, nVars, hVars, cVars, mVars, dVars, aVars, wVars, pVars, rVars, iVars, gVars, bVars, sVars, kVars, lVars>>
Spec == Init /\ [][Next]_vars
-----------------------------------------------------------------------------


(* What a function writes into the guest's buffer, or a listing gives it     *)
(* piece by piece, is the whole answer to what was asked, and fits the room  *)
(* it was given.                                                             *)
AnswersAreRight ==
  /\ part = "answers" => W!AnswersAreWhole
  /\ part = "paths"   => P!PathsAreRight
  /\ part = "resources" => R!ResourcesAreFound
  /\ part = "listings" => L!ListingsAreWhole

(* What a guest draws is what is on its bitmaps, regions hold the points     *)
(* they are made of, and figures have the pixels they should.                *)
PicturesAreRight ==
  /\ part = "regions"  => G!RegionsAreTheirPoints
  /\ part = "painting" => B!PicturesAreDrawn
  /\ part = "drawing"  => S!FiguresAreExact
=============================================================================
