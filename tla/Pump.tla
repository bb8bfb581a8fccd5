------------------------------- MODULE Pump -------------------------------
(***************************************************************************)
(* The message pump of the main guest thread (loader.c 21578-21640,        *)
(* 22495-22580, 23240-23595, 24253-24388, 26234-26262, 32405-32440).       *)
(*                                                                         *)
(* The pump has no operating system behind it.  Its events are what the    *)
(* guest asked for (posted messages, paints, one timer) and an input       *)
(* script from the environment: keys, clicks on controls and mouse points, *)
(* each let through only on every n-th delivery, so that paints and timers *)
(* get their turn.  GetMessage and PeekMessage share one function that     *)
(* takes the first ready event of a fixed order.                           *)
(*                                                                         *)
(* Everything here is a global without a lock.  The main thread runs the   *)
(* pump; a worker may post, and may ask the program to quit.  Posting is   *)
(* therefore three steps and taking a posted message two, so that the two  *)
(* threads' read-modify-writes of the queue's length can cross.            *)
(*                                                                         *)
(* A key is its place in the script, a posted message its serial number.   *)
(***************************************************************************)
EXTENDS Integers, Sequences, FiniteSets

CONSTANTS
  Keys, Clicks, Points,  \* lengths of the three scripts
  KeyEvery, ClickEvery, MouseEvery,  \* their pacing
  KeyUps,      \* MW_GUI_KEYUP: a key-up follows every key-down
  Printable,   \* the keys TranslateMessage makes a WM_CHAR of
  Kids,        \* children whose window procedure is the guest's
  QueueCap,    \* MW_POSTQ_MAX (64 in the code)
  Modes,       \* "batch" (MW_GUI_EVENTS=0), "run", "park" (..._PARK=1)
  Peeks,       \* the `remove' flags the guest gives PeekMessage
  Timers,      \* kinds of timer the guest sets: "free", "short", "long"
  Budget,      \* g_budget (400 in the code)
  MaxPosts     \* BOUND: messages posted

ASSUME ScriptAssumption == /\ {Keys, Clicks, Points, Kids} \subseteq Nat
                           /\ Printable \subseteq 1 .. Keys
ASSUME PaceAssumption   == {KeyEvery, ClickEvery, MouseEvery} \subseteq Nat \ {0}
ASSUME QueueAssumption  == QueueCap \in Nat \ {0}
ASSUME FlagsAssumption  == /\ KeyUps \in BOOLEAN /\ Peeks \subseteq BOOLEAN
                           /\ Modes \subseteq {"batch", "run", "park"}
                           /\ Timers \subseteq {"free", "short", "long"}
ASSUME BoundsAssumption == Budget \in Nat /\ MaxPosts \in Nat

VARIABLES
  mode,     \* how the program was started
  pump,     \* the events that wait, and g_delivered
  ring,     \* g_postq: its slots, head and length
  quit,     \* g_quit_flag, g_quit_code
  msg,      \* the MSG of the main thread: kind and argument
  call,     \* what each thread is inside, with the locals it holds
  sent,     \* history: messages PostMessage has put in the ring
  heard,    \* history: the last posted message the guest took
  held,     \* history: the key the guest knows to be down
  raced,    \* history: two threads were in the ring at once
  peeked    \* history: the guest looked at the queue without taking

vars == <<mode, pump, ring, quit, msg, call, sent, heard, held, raced, peeked>>

Ring == 0 .. QueueCap - 1
NoTimer == [kind |-> "off", due |-> FALSE]

Init == /\ mode \in Modes
        /\ pump = [delivered |-> 0, char |-> 0, keyup |-> 0, key |-> 0, click |-> 0,
                   point |-> 0, down |-> FALSE, size |-> FALSE, paint |-> FALSE,
                   kid |-> 0, timer |-> NoTimer]
        /\ ring = [at |-> [i \in Ring |-> 0], head |-> 0, n |-> 0]
        /\ quit = [flag |-> FALSE, code |-> 0]
        /\ msg = [m |-> "none", arg |-> 0]
        /\ call = [t \in {"main", "worker"} |-> [pc |-> "idle"]]
        /\ sent = 0 /\ heard = 0 /\ held = 0
        /\ raced = FALSE /\ peeked = FALSE

EventsOn == mode # "batch"
KeysLeft   == EventsOn /\ pump.key < Keys
ClicksLeft == EventsOn /\ pump.click < Clicks
PointsLeft == EventsOn /\ pump.point < Points
TimerLive  == pump.timer.kind # "off"
TurnOf(every) == pump.delivered % every = 0

(***************************************************************************)
(* The order of mw_gui_next_event.                                         *)
(***************************************************************************)
Order == <<"char", "keyup", "key", "click", "mouse", "posted", "size", "paint",
           "kidpaint", "timer">>

ReadyIf(mouse) ==
  [char     |-> pump.char # 0,
   keyup    |-> pump.keyup # 0,
   key      |-> KeysLeft /\ TurnOf(KeyEvery),
   click    |-> ClicksLeft /\ TurnOf(ClickEvery),
   mouse    |-> PointsLeft /\ mouse,
   posted   |-> ring.n > 0,
   size     |-> pump.size,
   paint    |-> pump.paint,
   kidpaint |-> pump.kid # 0,
   timer    |-> pump.timer.kind = "free" \/ pump.timer.due]

(* The release of a mouse button does not wait for its turn.               *)
ReadyPaced == ReadyIf(TurnOf(MouseEvery))   \* a release that does
Ready      == ReadyIf(TurnOf(MouseEvery) \/ pump.down)

First == LET ready == {i \in DOMAIN Order : Ready[Order[i]]}
         IN  IF ready = {} THEN "none"
             ELSE Order[CHOOSE i \in ready : \A j \in ready : i <= j]

(* The gates' bypass: with nothing else to deliver and no timer, the next  *)
(* key or click goes out of turn.                                          *)
Bypass == CASE KeysLeft /\ ~ TimerLive   -> "key"
            [] ~ KeysLeft /\ ClicksLeft /\ ~ TimerLive -> "click"
            [] OTHER -> "none"

Idle == [pc |-> "idle"]
Counted(p) == [p EXCEPT !.delivered = @ + 1]

(* What event k does to the pump when it is taken, and when it is only     *)
(* looked at: keys, clicks and children's paints are gone in both cases.   *)
Taken(k) ==
  CASE k = "char"  -> Counted([pump EXCEPT !.char = 0])
    [] k = "keyup" -> Counted([pump EXCEPT !.keyup = 0])
    [] k = "mouse" -> Counted([pump EXCEPT !.down = ~ @,
                                           !.point = IF pump.down THEN @ + 1 ELSE @])
    [] k = "size"  -> Counted([pump EXCEPT !.size = FALSE])
    [] k = "paint" -> Counted([pump EXCEPT !.paint = FALSE,
                                           !.kid = IF Kids > 0 THEN 1 ELSE 0])
    [] k = "timer" -> Counted([pump EXCEPT !.timer.due = FALSE])
Advanced(k, up) ==
  CASE k = "key"      -> [pump EXCEPT !.key = @ + 1, !.keyup = up]
    [] k = "click"    -> [pump EXCEPT !.click = @ + 1]
    [] k = "kidpaint" -> [pump EXCEPT !.kid = IF @ < Kids THEN @ + 1 ELSE 0]
    [] OTHER          -> pump
LookedNoKeyUp(k) == Advanced(k, pump.keyup)   \* the key-up forgotten
Looked(k) == Advanced(k, IF KeyUps THEN pump.key + 1 ELSE pump.keyup)
After(k) == IF k \in {"key", "click", "kidpaint"} THEN Counted(Looked(k)) ELSE Taken(k)

Argument(k) == CASE k = "char"  -> pump.char
                 [] k = "keyup" -> pump.keyup
                 [] k = "key"   -> pump.key + 1
                 [] k = "click" -> pump.click + 1
                 [] k = "mouse" -> pump.point + 1
                 [] k = "kidpaint" -> pump.kid
                 [] OTHER       -> 0

(***************************************************************************)
(* The posted-message ring.                                                *)
(***************************************************************************)
Poster(t) == call[t].pc \in {"tail", "put", "take"}
Alone(t) == \A u \in DOMAIN call \ {t} : ~ Poster(u)
Enters(t) == raced' = (raced \/ ~ Alone(t))
Goes(t, c) == call' = [call EXCEPT ![t] = c]

(* The bound checked after one message too many.                           *)
PostMessageLate(t) ==
  /\ call[t].pc = "idle" /\ EventsOn
  /\ sent + Cardinality({u \in DOMAIN call : call[u].pc \in {"tail", "put"}}) < MaxPosts
  /\ ring.n <= QueueCap
  /\ Goes(t, [pc |-> "tail", i |-> (ring.head + ring.n) % QueueCap])
  /\ Enters(t)
  /\ UNCHANGED <<mode, pump, ring, quit, msg, sent, heard, held, peeked>>

(* PostMessage: g_postq_n is read for the place and read again to be        *)
(* counted up.  A full ring, or a batch run, drops the message and says     *)
(* TRUE.                                                                   *)
PostMessage(t) ==
  /\ call[t].pc = "idle" /\ EventsOn
  /\ sent + Cardinality({u \in DOMAIN call : call[u].pc \in {"tail", "put"}}) < MaxPosts
  /\ ring.n < QueueCap
  /\ Goes(t, [pc |-> "tail", i |-> (ring.head + ring.n) % QueueCap])
  /\ Enters(t)
  /\ UNCHANGED <<mode, pump, ring, quit, msg, sent, heard, held, peeked>>

PostStores(t) ==
  /\ call[t].pc = "tail"
  /\ ring' = [ring EXCEPT !.at[call[t].i] = sent + 1]
  /\ Goes(t, [pc |-> "put", n |-> ring.n])
  /\ UNCHANGED <<mode, pump, quit, msg, sent, heard, held, raced, peeked>>

PostCounts(t) ==
  /\ call[t].pc = "put"
  /\ ring' = [ring EXCEPT !.n = call[t].n + 1]
  /\ sent' = sent + 1
  /\ Goes(t, Idle)
  /\ UNCHANGED <<mode, pump, quit, msg, heard, held, raced, peeked>>

TakePosted ==
  /\ pump' = Counted(pump)
  /\ msg' = [m |-> "posted", arg |-> ring.at[ring.head]]
  /\ heard' = ring.at[ring.head]
  /\ ring' = [ring EXCEPT !.head = (@ + 1) % QueueCap]
  /\ Goes("main", [pc |-> "take", n |-> ring.n])
  /\ Enters("main")
  /\ UNCHANGED <<quit, held, sent>>

TakeCounts ==
  /\ call["main"].pc = "take"
  /\ ring' = [ring EXCEPT !.n = call["main"].n - 1]
  /\ Goes("main", Idle)
  /\ UNCHANGED <<mode, pump, quit, msg, sent, heard, held, raced, peeked>>

(***************************************************************************)
(* mw_gui_next_event with consume = 1, called by GetMessage ("get"), by    *)
(* GetMessage's parking loop ("park") or by PeekMessage ("peek").          *)
(***************************************************************************)
Name(k) == IF k = "mouse" THEN IF pump.down THEN "up" ELSE "down" ELSE k

Deliver(k) ==
  /\ pump' = After(k)
  /\ msg' = [m |-> Name(k), arg |-> Argument(k)]
  /\ held' = CASE k = "key" -> pump.key + 1 [] k = "keyup" -> 0 [] OTHER -> held
  /\ Goes("main", Idle)
  /\ UNCHANGED <<ring, quit, sent, heard, raced>>

Quits(code) == /\ msg' = [m |-> "quit", arg |-> code]
               /\ Goes("main", Idle)
               /\ UNCHANGED <<pump, ring, sent, heard, held, raced>>

(* No event and nothing to wait for: GetMessage makes up a WM_QUIT, unless  *)
(* the program was started to park.                                        *)
Nothing(from) ==
  \/ /\ from \in {"get", "park"} /\ mode = "park"
     /\ Goes("main", [pc |-> "park"])
     /\ UNCHANGED <<pump, ring, quit, msg, sent, heard, held, raced>>
  \/ /\ from = "get" /\ mode # "park"
     /\ quit' = [quit EXCEPT !.flag = TRUE]
     /\ Quits(0)
  \/ /\ from = "peek"
     /\ Goes("main", Idle)
     /\ UNCHANGED <<pump, ring, quit, msg, sent, heard, held, raced>>

Waits == pump.timer.kind \in {"short", "long"} /\ ~ pump.timer.due

Pick(from) ==
  LET event == First
  IN /\ UNCHANGED <<mode, peeked>>
     /\ \/ event = "posted" /\ TakePosted
        \/ event \notin {"posted", "none"} /\ Deliver(event)
        \/ /\ event = "none" /\ Waits
           /\ Goes("main", [pc |-> "wait", from |-> from])
           /\ UNCHANGED <<pump, ring, quit, msg, sent, heard, held, raced>>
        \/ event = "none" /\ ~ Waits /\ Bypass # "none" /\ Deliver(Bypass)
        \/ event = "none" /\ ~ Waits /\ Bypass = "none" /\ Nothing(from)

(* The wait for the timer: it comes due; or the program is asked to quit,   *)
(* or four seconds pass, and the call ends as if there were no event.       *)
TimerComes ==
  /\ call["main"].pc = "wait" /\ ~ quit.flag /\ pump.timer.due
  /\ Deliver("timer")
  /\ UNCHANGED <<mode, peeked>>
WaitEnds ==
  /\ call["main"].pc = "wait"
  /\ quit.flag \/ (pump.timer.kind = "long" /\ ~ pump.timer.due)
  /\ Nothing(call["main"].from)
  /\ UNCHANGED <<mode, peeked>>

GetMessage ==
  /\ call["main"].pc = "idle"
  /\ \/ /\ mode = "batch" /\ ~ (pump.paint /\ ~ quit.flag /\ pump.delivered < Budget)
        /\ Quits(quit.code) /\ UNCHANGED <<mode, quit, peeked>>
     \/ /\ mode = "batch" /\ pump.paint /\ ~ quit.flag /\ pump.delivered < Budget
        /\ Pick("get")
     \/ /\ EventsOn /\ quit.flag
        /\ Quits(quit.code) /\ UNCHANGED <<mode, quit, peeked>>
     \/ /\ EventsOn /\ ~ quit.flag /\ pump.delivered >= Budget
        /\ quit' = [quit EXCEPT !.flag = TRUE]
        /\ Quits(0) /\ UNCHANGED <<mode, peeked>>
     \/ /\ EventsOn /\ ~ quit.flag /\ pump.delivered < Budget
        /\ Pick("get")

(* A loop that, once parked, answers only to PostQuitMessage.              *)
ParkPollsDeaf ==
  /\ call["main"].pc = "park" /\ quit.flag
  /\ Quits(quit.code) /\ UNCHANGED <<mode, quit, peeked>>

(* The parking loop looks again every 20 ms.                               *)
Stirs == First # "none" \/ Bypass # "none" \/ Waits
ParkPolls ==
  /\ call["main"].pc = "park"
  /\ \/ /\ quit.flag
        /\ Quits(quit.code) /\ UNCHANGED <<mode, quit, peeked>>
     \/ /\ ~ quit.flag /\ pump.delivered >= Budget
        /\ quit' = [quit EXCEPT !.flag = TRUE]
        /\ Quits(quit.code) /\ UNCHANGED <<mode, peeked>>
     \/ /\ ~ quit.flag /\ pump.delivered < Budget /\ Stirs
        /\ Pick("park")

(* PeekMessage, removing or not, and MsgWaitForMultipleObjects, which looks *)
(* whatever the budget.                                                    *)
PeekMessage ==
  /\ call["main"].pc = "idle" /\ ~ quit.flag
  /\ \/ /\ Peeks # {} /\ pump.delivered >= Budget
        /\ quit' = [quit EXCEPT !.flag = TRUE]
        /\ UNCHANGED <<mode, pump, ring, msg, call, sent, heard, held, raced, peeked>>
     \/ /\ TRUE \in Peeks /\ pump.delivered < Budget
        /\ Pick("peek")
Look ==
  /\ call["main"].pc = "idle" /\ ~ quit.flag
  /\ FALSE \in Peeks /\ (pump.delivered < Budget \/ EventsOn)
  /\ LET k == IF First = "none" THEN Bypass ELSE First
     IN  /\ k # "none"
         /\ pump' = Looked(k)
         /\ msg' = [m |-> Name(k), arg |-> IF k = "posted" THEN ring.at[ring.head]
                                           ELSE Argument(k)]
  /\ peeked' = TRUE
  /\ UNCHANGED <<mode, ring, quit, call, sent, heard, held, raced>>

(***************************************************************************)
(* What the guest does between two calls of the pump.                      *)
(***************************************************************************)
Sets(p) == /\ call["main"].pc = "idle"
           /\ pump' = p
           /\ UNCHANGED <<mode, ring, quit, msg, call, sent, heard, held, raced, peeked>>

TranslateMessage == /\ msg.m = "key" /\ msg.arg \in Printable
                    /\ Sets([pump EXCEPT !.char = msg.arg])
InvalidateRect == Sets([pump EXCEPT !.paint = TRUE])
ValidateRect   == Sets([pump EXCEPT !.paint = FALSE])
SetTimer       == \E k \in Timers :
                    Sets([pump EXCEPT !.timer = [kind |-> k, due |-> FALSE]])
KillTimer      == Sets([pump EXCEPT !.timer = NoTimer])

(* The first ShowWindow sends WM_SIZE at once, or has the pump deliver it   *)
(* when the window has no procedure yet.                                   *)
ShowWindow == EventsOn /\ \E bound \in BOOLEAN :
                Sets([pump EXCEPT !.paint = TRUE, !.size = ~ bound])

PostQuitMessage(t) ==
  /\ call[t].pc = "idle"
  /\ quit' = [flag |-> TRUE, code |-> 1]
  /\ UNCHANGED <<mode, pump, ring, msg, call, sent, heard, held, raced, peeked>>

Tick == /\ pump.timer.kind \in {"short", "long"} /\ ~ pump.timer.due
        /\ pump' = [pump EXCEPT !.timer.due = TRUE]
        /\ UNCHANGED <<mode, ring, quit, msg, call, sent, heard, held, raced, peeked>>

Guest == TranslateMessage \/ InvalidateRect \/ ValidateRect \/ SetTimer \/ KillTimer
           \/ ShowWindow
Posts(t) == PostStores(t) \/ PostCounts(t)
Pumps == GetMessage \/ TakeCounts \/ TimerComes \/ WaitEnds \/ ParkPolls

Next == \/ PeekMessage \/ Look
        \/ Guest \/ Pumps \/ Tick
        \/ \E t \in DOMAIN call : PostMessage(t) \/ Posts(t) \/ PostQuitMessage(t)

Spec == Init /\ [][Next]_vars

(* The host runs the thread that is blocked, and the clock.  Nothing is     *)
(* asked of the guest: it may never come back to GetMessage, and the worker *)
(* may stop half way through posting.                                       *)
FairSpec == Spec /\ WF_vars(ParkPolls \/ TimerComes \/ WaitEnds) /\ WF_vars(Tick)

-----------------------------------------------------------------------------
Calls == [pc : {"idle", "park"}] \union [pc : {"wait"}, from : {"get", "park", "peek"}]
           \union [pc : {"tail"}, i : Ring] \union [pc : {"put", "take"}, n : Int]

(* Types.  The script's places stay within the scripts, and no more than    *)
(* the budget is ever delivered.                                           *)
TypeOK ==
  /\ mode \in Modes
  /\ pump \in [delivered : 0 .. Budget, char : 0 .. Keys, keyup : 0 .. Keys,
               key : 0 .. Keys, click : 0 .. Clicks, point : 0 .. Points,
               down : BOOLEAN, size : BOOLEAN, paint : BOOLEAN, kid : 0 .. Kids,
               timer : [kind : Timers \union {"off"}, due : BOOLEAN]]
  /\ ring \in [at : [Ring -> 0 .. MaxPosts], head : Ring, n : Int]
  /\ quit \in [flag : BOOLEAN, code : {0, 1}]
  /\ call \in [{"main", "worker"} -> Calls]
  /\ {raced, peeked} \subseteq BOOLEAN

(* The ring holds, oldest first, the messages posted and not yet taken, and *)
(* the guest takes them in the order they were posted, each once: as long   *)
(* as two threads were never in the unlocked ring together.                *)
PostsInOrder ==
  ~ raced =>
    LET length == ring.n - (IF call["main"].pc = "take" THEN 1 ELSE 0)
    IN  /\ length = sent - heard /\ length \in 0 .. QueueCap
        /\ \A i \in 1 .. length : ring.at[(ring.head + i - 1) % QueueCap] = heard + i

Blocked == call["main"].pc \in {"park", "wait"}

(* The queues and counters hold what their types say, and the ring of posted *)
(* messages is the queue the two threads believe it is.                      *)
PostQueueOK == TypeOK /\ PostsInOrder

(* "a keystroke is DOWN then UP, like a real keyboard": the guest that only *)
(* takes gets the keys in order, no key before the last one was released,   *)
(* and the character of a key while the key is down.                       *)
KeystrokesPaired ==
  [][KeyUps /\ ~ peeked /\ msg' # msg =>
       /\ msg'.m = "key"   => held = 0 /\ msg'.arg = pump.key + 1
       /\ msg'.m = "keyup" => held = msg'.arg
       /\ msg'.m = "char"  => held = msg'.arg]_vars

(* No input is left whose turn has come.                                    *)
GatesShut == /\ KeysLeft   => ~ TurnOf(KeyEvery)
             /\ ClicksLeft => ~ TurnOf(ClickEvery)
             /\ PointsLeft => ~ TurnOf(MouseEvery)

(* What a made-up WM_QUIT leaves behind is never a half of something or a   *)
(* paint: no character or key-up that is due, no mouse button still down    *)
(* ("Real input never strands a pressed button").  And:                     *)
(*   - when the queue is found empty, no key, no click, no posted message   *)
(*     and no timer is left;                                                *)
(*   - when the pump has waited four seconds for a timer that is further    *)
(*     off, keys and clicks may be left whose turn has not come, and        *)
(*     messages that came in during the wait, which looks only at the clock *)
(*     and the quit flag, are dropped;                                      *)
(*   - mouse points whose turn has not come are dropped in both cases: keys *)
(*     and clicks have a way round their gates, points have none.           *)
DryQuitDropsOnly ==
  [][~ quit.flag /\ quit'.flag /\ msg'.m = "quit" /\ pump.delivered < Budget /\ EventsOn =>
       /\ pump.char = 0 /\ pump.keyup = 0 /\ ~ pump.down
       /\ ~ pump.size /\ ~ pump.paint /\ pump.kid = 0
       /\ GatesShut
       /\ IF Blocked THEN pump.timer = [kind |-> "long", due |-> FALSE]
                     ELSE ~ (KeysLeft \/ ClicksLeft \/ ring.n > 0 \/ TimerLive)]_vars

(* A pump that is blocked, parked or waiting for its timer, hears a message *)
(* another thread posts, the timer coming due and a request to quit: it     *)
(* never sleeps on with one of them pending.                               *)
PumpWakes == (Blocked /\ (ring.n > 0 \/ pump.timer.due \/ quit.flag)) ~> ~ Blocked
=============================================================================
