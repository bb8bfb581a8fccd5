------------------------------ MODULE Windows ------------------------------
(***************************************************************************)
(* Windows, their identities and their procedures (loader.c 18150-18305,   *)
(* 20703-21577, 22696-22909, 23001-23155, 23655-23723, 26640-26765,        *)
(* 30221-30330).                                                           *)
(*                                                                         *)
(* There are three kinds of window.  The first top-level one has a fixed   *)
(* handle; later ones, and those created inside a WM_CREATE, have handles  *)
(* minted from a table that only grows; children are slots of a table and  *)
(* their handles are slot numbers.  Creating a window calls the guest back *)
(* (a CBT hook, then WM_NCCREATE, WM_NCCALCSIZE and WM_CREATE), and what   *)
(* the guest does there, creating more windows included, happens before    *)
(* the outer call goes on: the calls in progress form a stack.             *)
(*                                                                         *)
(* A procedure is a name: a class's procedure has the name of the class.   *)
(* The handler of WM_NCCALCSIZE, whose answer is ignored, is taken with    *)
(* that of WM_NCCREATE.  Sizes, styles, menus and painting are left out.   *)
(***************************************************************************)
EXTENDS Integers, Sequences, FiniteSets

CONSTANTS
  Classes,    \* classes the guest registers
  Controls,   \* system control classes (Button, Edit, ...)
  Tooltips,   \* the system classes that are created without messages
  Subs,       \* procedures the guest subclasses windows with
  NKids,      \* MW_CHILD_MAX (512 in the code)
  NTops,      \* MW_TOPLEVEL_MAX (64 in the code)
  NLongs,     \* MW_WNDLONG_MAX (128 in the code)
  MaxMade     \* BOUND: windows created, the id of the youngest

None == "none"

ASSUME TablesAssumption  == {NKids, NTops, NLongs, MaxMade} \subseteq Nat
ASSUME ClassesAssumption == /\ Tooltips \subseteq Controls
                            /\ Classes \intersect Controls = {}
                            /\ None \notin Classes \union Controls \union Subs

VARIABLES
  eventsOn,   \* MW_GUI_EVENTS
  registered, \* classes registered with a procedure
  kid,        \* g_child: live, class_proc
  top,        \* g_toplevel: live, proc
  taken,      \* g_toplvl_main_taken
  mainProc,   \* g_main_class_proc
  lastProc,   \* g_wndproc_fwd
  sub,        \* g_wndlong at GWLP_WNDPROC: procedures by handle
  words,      \* g_wndlong: the entries of all other indices
  depth,      \* g_wm_create_depth
  hooked,     \* a WH_CBT hook is installed
  stack,      \* the CreateWindow calls in progress, innermost last
  win,        \* history, by id: handle, fate; its class's (if top-level) and its own procedure
  crowded     \* history: the table of minted handles was full once

vars == <<eventsOn, registered, kid, top, taken, mainProc, lastProc, sub, words,
          depth, hooked, stack, win, crowded>>

Main   == <<"main", 0>>
Kid(i) == <<"kid", i>>
Top(n) == <<"top", n>>
Handles == {Main} \union {Kid(i) : i \in 1 .. NKids} \union {Top(n) : n \in 1 .. NTops}
Procs  == Classes \union Subs

NoKid == [live |-> FALSE, proc |-> None]

Init == /\ eventsOn \in BOOLEAN
        /\ registered = {} /\ kid = [i \in 1 .. NKids |-> NoKid] /\ top = <<>>
        /\ taken = FALSE /\ mainProc = None /\ lastProc = None
        /\ sub = [h \in Handles |-> None] /\ words = 0
        /\ depth = 0 /\ hooked = FALSE /\ stack = <<>>
        /\ win = <<>> /\ crowded = FALSE

ClassProc(c) == IF c \in registered THEN c ELSE None

(***************************************************************************)
(* mw_window_proc: a subclass procedure, else the window's own, else, for   *)
(* minted windows only, the procedure registered last.                     *)
(***************************************************************************)
WindowProcLast(h) ==   \* the main window falling back with the others
  CASE sub[h] # None -> sub[h]
    [] OTHER -> lastProc
WindowProc(h) ==
  CASE sub[h] # None -> sub[h]
    [] sub[h] = None /\ h = Main -> mainProc
    [] OTHER -> LET n == h[2] IN
         IF n <= Len(top) /\ top[n].live /\ top[n].proc # None THEN top[n].proc
         ELSE IF lastProc # None THEN lastProc ELSE mainProc

-----------------------------------------------------------------------------
Frame(h, id) == [h |-> h, id |-> id, at |-> "nccreate"]
Hook(c, parent) == [at |-> "hook", cls |-> c, parent |-> parent]
NewId == Len(win) + 1
NewWin(h, cls, fate) ==
  win' = Append(win, [h |-> h, cls |-> cls, sub |-> None, fate |-> fate])

FreeKid(i) == ~ kid[i].live /\ \A j \in 1 .. i - 1 : kid[j].live

(* mw_child_register, then the creation messages if the slot has a class    *)
(* procedure: that of the class, or the one an earlier window left there.   *)
(* The procedure is looked up under a wide name, so CreateWindowExA, whose  *)
(* name is not, finds none.                                                 *)
CreateChild(c, wide) ==
  \E i \in 1 .. NKids :
    LET proc == IF wide /\ c \in registered THEN c ELSE kid[i].proc
        silent == proc = None \/ c \in Tooltips
    IN  /\ FreeKid(i)
        /\ kid' = [kid EXCEPT ![i] = [live |-> TRUE, proc |-> proc]]
        /\ NewWin(Kid(i), None, IF silent THEN "alive" ELSE "making")
        /\ stack' = IF silent THEN stack ELSE Append(stack, Frame(Kid(i), NewId))
        /\ UNCHANGED <<eventsOn, registered, top, taken, mainProc, lastProc, sub,
                       words, depth, hooked, crowded>>

(* The rest of CreateWindowEx for a top-level window, once a hook has let   *)
(* it pass; under is the stack without the hook's frame.                    *)
Mints == (depth > 0 \/ taken) /\ Len(top) < NTops
Snapshot(c, parent) ==
  IF ~ parent /\ ~ taken /\ mainProc = None THEN ClassProc(c) ELSE mainProc

CreateMinted(c, under) ==
  LET h == Top(Len(top) + 1)
      proc == IF ClassProc(c) # None THEN ClassProc(c)
              ELSE IF lastProc # None THEN lastProc ELSE mainProc'
      told == eventsOn /\ proc # None
  IN  /\ top' = Append(top, [live |-> TRUE, proc |-> ClassProc(c)])
      /\ NewWin(h, ClassProc(c), IF told THEN "making" ELSE "alive")
      /\ stack' = IF told THEN Append(under, Frame(h, NewId)) ELSE under
      /\ depth' = IF told THEN depth + 1 ELSE depth
      /\ UNCHANGED <<taken, crowded>>

CreateMain(c, under) ==
  LET told == sub[Main] # None \/ mainProc' # None
  IN  /\ crowded' = (crowded \/ Len(top) = NTops)
      /\ NewWin(Main, ClassProc(c), IF told THEN "making" ELSE "alive")
      /\ stack' = IF told THEN Append(under, Frame(Main, NewId)) ELSE under
      /\ depth' = IF told THEN depth + 1 ELSE depth
      /\ taken' = (taken \/ ~ told)
      /\ UNCHANGED top

CreateTop(c, parent, under) ==
  /\ mainProc' = Snapshot(c, parent)
  /\ IF Mints THEN CreateMinted(c, under) ELSE CreateMain(c, under)
  /\ UNCHANGED <<eventsOn, registered, kid, lastProc, sub, words, hooked>>

CreateWindowEx ==
  \E c \in Classes \union Controls, parent, wsChild, wide \in BOOLEAN :
    /\ Len(win) + Cardinality({i \in DOMAIN stack : stack[i].at = "hook"}) < MaxMade
    /\ \/ /\ (parent /\ (wsChild \/ c \in Controls)) \/ c \in Tooltips
          /\ CreateChild(c, wide)
       \/ /\ ~ wsChild /\ ~ (parent /\ c \in Controls) /\ c \notin Tooltips
          /\ ~ hooked /\ CreateTop(c, parent, stack)
       \/ /\ ~ wsChild /\ ~ (parent /\ c \in Controls) /\ c \notin Tooltips
          /\ hooked /\ stack' = Append(stack, Hook(c, parent))
          /\ UNCHANGED <<eventsOn, registered, kid, top, taken, mainProc, lastProc,
                         sub, words, depth, hooked, win, crowded>>

Last  == stack[Len(stack)]
Below == SubSeq(stack, 1, Len(stack) - 1)

(* The guest's hook returns: nonzero cancels the creation.                  *)
HookReturns ==
  /\ stack # <<>> /\ Last.at = "hook"
  /\ \/ CreateTop(Last.cls, Last.parent, Below)
     \/ /\ stack' = Below
        /\ UNCHANGED <<eventsOn, registered, kid, top, taken, mainProc, lastProc,
                       sub, words, depth, hooked, win, crowded>>

(* The creation ends, unless the guest destroyed the window meanwhile.  The  *)
(* history forgets the procedures of a window that is gone.                 *)
Gone(w, fate) == [win EXCEPT ![w] = [h |-> @.h, cls |-> None, sub |-> None, fate |-> fate]]
Made == win' = IF win[Last.id].fate = "making" THEN [win EXCEPT ![Last.id].fate = "alive"] ELSE win
Cancelled == win' = IF win[Last.id].fate = "making" THEN Gone(Last.id, "cancelled") ELSE win
(* Mutant: the depth a minted creation added stays.                          *)
ShallowerIfMain == IF Last.h = Main THEN depth - 1 ELSE depth  
(* The depth without the creation that returns.                              *)
Shallower == IF Last.h[1] = "kid" THEN depth ELSE depth - 1

(* A creation message returns.  FALSE from WM_NCCREATE and -1 from          *)
(* WM_CREATE cancel the creation: a minted handle is unregistered, a        *)
(* child's slot stays live.                                                *)
Unregister == IF Last.h[1] = "top" THEN [top EXCEPT ![Last.h[2]].live = FALSE] ELSE top
MessageReturns ==
  /\ stack # <<>> /\ Last.at # "hook"
  /\ \/ /\ Last.at = "nccreate"
        /\ stack' = [stack EXCEPT ![Len(stack)].at = "create"]
        /\ UNCHANGED <<top, taken, depth, win>>
     \/ /\ Last.at = "create"
        /\ stack' = Below /\ depth' = Shallower /\ Made
        /\ taken' = (taken \/ Last.h = Main)
        /\ UNCHANGED top
     \/ /\ stack' = Below /\ depth' = Shallower /\ Cancelled
        /\ top' = Unregister
        /\ UNCHANGED taken
  /\ UNCHANGED <<eventsOn, registered, kid, mainProc, lastProc, sub, words, hooked, crowded>>

Has(w) == win[w].fate \in {"making", "alive"}

(* DestroyWindow: a child's slot is freed; a top-level window is told       *)
(* WM_DESTROY and stays registered.                                        *)
DestroyWindow ==
  \E w \in DOMAIN win :
    /\ Has(w)
    /\ win' = Gone(w, "destroyed")
    /\ kid' = IF win[w].h[1] = "kid" THEN [kid EXCEPT ![win[w].h[2]].live = FALSE] ELSE kid
    /\ UNCHANGED <<eventsOn, registered, top, taken, mainProc, lastProc, sub, words,
                   depth, hooked, stack, crowded>>

(* mw_wndlong_slot: the words of all windows share one table, and an entry  *)
(* stays for good.  One that finds no room is dropped without a word.       *)
Room(h) == \/ sub[h] # None
           \/ Cardinality({g \in Handles : sub[g] # None}) + words < NLongs

(* SetWindowLong of any other index, which makes an entry of its own.       *)
SetOtherLong ==
  /\ \E w \in DOMAIN win : Has(w) /\ Room(win[w].h) /\ words < NLongs
  /\ words' = words + 1
  /\ UNCHANGED <<eventsOn, registered, kid, top, taken, mainProc, lastProc, sub, depth,
                 hooked, stack, win, crowded>>

(* A subclass procedure kept with the window's class instead of its handle. *)
SetWindowLongPtrOnClass ==
  \E w \in DOMAIN win, p \in Subs :
    /\ Has(w) /\ win[w].h[1] # "kid"
    /\ sub' = [h \in Handles |-> IF \E v \in DOMAIN win : win[v].h = h /\ win[v].cls = win[w].cls
                                 THEN p ELSE sub[h]]
    /\ win' = [win EXCEPT ![w].sub = p]
    /\ mainProc' = p /\ lastProc' = p
    /\ UNCHANGED <<eventsOn, registered, kid, top, taken, words, depth, hooked, stack,
                   crowded>>

(* SetWindowLongPtr(GWLP_WNDPROC) on a window the guest has.  On a          *)
(* top-level window, the minted ones included, it moves the main channel,   *)
(* whether or not there was room to keep the procedure for the window.      *)
SetWindowLongPtr ==
  \E w \in DOMAIN win, p \in Subs :
    LET h == win[w].h
        channel == h[1] # "kid"
    IN  /\ Has(w)
        /\ IF Room(h) THEN sub' = [sub EXCEPT ![h] = p] /\ win' = [win EXCEPT ![w].sub = p]
                      ELSE UNCHANGED <<sub, win>>
        /\ mainProc' = IF channel THEN p ELSE mainProc
        /\ lastProc' = IF channel THEN p ELSE lastProc
        /\ UNCHANGED <<eventsOn, registered, kid, top, taken, words, depth, hooked, stack,
                       crowded>>

RegisterClass ==
  \E c \in Classes \ registered :
    /\ registered' = registered \union {c}
    /\ lastProc' = c
    /\ UNCHANGED <<eventsOn, kid, top, taken, mainProc, sub, words, depth, hooked, stack,
                   win, crowded>>

SetWindowsHookEx ==
  /\ hooked' = ~ hooked
  /\ UNCHANGED <<eventsOn, registered, kid, top, taken, mainProc, lastProc, sub,
                 words, depth, stack, win, crowded>>

Next == \/ RegisterClass \/ CreateWindowEx \/ HookReturns \/ MessageReturns
        \/ DestroyWindow \/ SetWindowLongPtr \/ SetOtherLong \/ SetWindowsHookEx

Spec == Init /\ [][Next]_vars

-----------------------------------------------------------------------------
IsTop(w) == win[w].h[1] = "top"

Frames == [h : Handles, id : 1 .. MaxMade, at : {"nccreate", "create"}]
            \union [at : {"hook"}, cls : Classes \union Controls, parent : BOOLEAN]

(* Types.                                                                  *)
TypeOK ==
  /\ {eventsOn, taken, hooked, crowded} \subseteq BOOLEAN /\ registered \subseteq Classes
  /\ kid \in [1 .. NKids -> [live : BOOLEAN, proc : Classes \union {None}]]
  /\ top \in Seq([live : BOOLEAN, proc : Classes \union {None}]) /\ Len(top) <= NTops
  /\ {mainProc, lastProc} \subseteq Procs \union {None}
  /\ sub \in [Handles -> Subs \union {None}] /\ words \in 0 .. NLongs
  /\ depth \in 0 .. MaxMade
  /\ stack \in Seq(Frames)
  /\ win \in Seq([h : Handles, cls : Classes \union {None}, sub : Subs \union {None},
                  fate : {"making", "alive", "cancelled", "destroyed"}])

(* "Every LATER top-level creation mints a distinct identity": two windows  *)
(* the guest has never share a handle, however creations nest, fail and     *)
(* reuse slots, until the table of minted handles is full.                 *)
DistinctHandles ==
  ~ crowded => \A v, w \in DOMAIN win : Has(v) /\ Has(w) /\ v # w => win[v].h # win[w].h

(* "Each window through ITS class's lpfnWndProc": the messages of a minted  *)
(* window go to the procedure the guest set on that window, else to that of *)
(* its class, whatever was registered, subclassed or cancelled meanwhile.   *)
(* A procedure set when the table of words is full is not kept, and the     *)
(* messages still go where they went.                                       *)
Own(w) == IF win[w].sub # None THEN win[w].sub ELSE win[w].cls
TopsRouteHome ==
  \A w \in DOMAIN win : Has(w) /\ IsTop(w) /\ Own(w) # None => WindowProc(win[w].h) = Own(w)

(* "Later class registrations cannot steal it": registering a class moves   *)
(* no message of a top-level window that has a procedure of its own.       *)
RegistrationStealsNothing ==
  [][RegisterClass =>
       \A w \in DOMAIN win :
         Has(w) /\ Own(w) # None /\ (IsTop(w) \/ (win[w].h = Main /\ mainProc # None)) =>
           WindowProc(win[w].h)' = WindowProc(win[w].h)]_vars

(* The depth that makes nested creations mint is the number of top-level    *)
(* creation messages in progress, on every path out of them.               *)
DepthMatchesStack ==
  depth = Cardinality({i \in DOMAIN stack : stack[i].at # "hook" /\ stack[i].h[1] # "kid"})

(* "The minted identity is unregistered so the handle never leaks": a       *)
(* cancelled top-level creation leaves no window behind, and the main       *)
(* window is taken only by a creation that succeeded.                      *)
CancelledTopsAreGone ==
  /\ \A n \in DOMAIN top : top[n].live =>
       \E w \in DOMAIN win : win[w].h = Top(n) /\ win[w].fate # "cancelled"
  /\ taken => \E w \in DOMAIN win : win[w].h = Main /\ win[w].fate \in {"alive", "destroyed"}

(* A child's creation has no such undo: its slot stays live when the guest  *)
(* cancels it, with no handle in the guest's hands to free it by.  So a     *)
(* slot is in use exactly for a child the guest has and for one whose       *)
(* creation was cancelled, and for one of these only.                       *)
Holds(w) == win[w].fate \in {"making", "alive", "cancelled"}
CancelledKidsLinger ==
  /\ \A i \in 1 .. NKids :
       kid[i].live <=> \E w \in DOMAIN win : win[w].h = Kid(i) /\ Holds(w)
  /\ \A v, w \in DOMAIN win :
       win[v].h[1] = "kid" /\ Holds(v) /\ Holds(w) /\ win[v].h = win[w].h => v = w

(* The window tables hold what their types say; windows have handles of     *)
(* their own, the depth counts the creations in progress, a cancelled       *)
(* top-level creation leaves nothing behind, and a cancelled child exactly  *)
(* its slot.                                                                *)
WindowTablesOK == TypeOK /\ DistinctHandles /\ DepthMatchesStack /\ CancelledTopsAreGone
                    /\ CancelledKidsLinger

=============================================================================
