------------------------------ MODULE Threads ------------------------------
(***************************************************************************)
(* Guest threads and their message queues (loader.c 4985-5193, 8546-8592,  *)
(* 10600-10638, 15144-15157, 23509-23530, 36951-36964).                    *)
(*                                                                         *)
(* A thread handle points at a slot of g_mw_threads.  The slot outlives    *)
(* its thread: it keeps `done' and the exit code until CloseHandle finds   *)
(* the thread done.  _beginthreadex claims a slot under g_mw_threads_mu;   *)
(* CreateProcessW, which gives its caller a slot that is done from the     *)
(* start, scans for one without the mutex.  All threads that end broadcast *)
(* on ONE condition variable, t_exit_cv, whoever waits for whichever.      *)
(*                                                                         *)
(* Host threads are numbered by the Windows id minted for them (5678 + i   *)
(* in the code); 0 is the main thread, which has neither slot nor queue.   *)
(* TEBs, TLS blocks and stacks are left out, and alloc_handle is one step  *)
(* here: module WaitObjects has its race.                                  *)
(***************************************************************************)
EXTENDS Integers, Sequences, FiniteSets

CONSTANTS
  GuiModes,    \* whether MW_GUI_EVENTS may be set
  MaxTids,     \* BOUND: thread ids ever minted
  NSlots,      \* slots of g_mw_threads (64 in the code)
  NQueues,     \* slots of g_tqueues (32 in the code)
  QueueCap,    \* messages a queue holds (64 in the code)
  MaxHandles,  \* BOUND: thread handles ever issued
  MaxPosts,    \* BOUND: messages ever posted
  Codes,       \* exit codes threads end with
  Joiners,     \* who waits for ever, and who with a timeout
  TimedJoiners,
  Spawners, Launchers, Closers, Posters  \* who makes those calls

ASSUME SizesAssumption ==
  /\ MaxTids \in Nat /\ NSlots \in Nat /\ NQueues \in Nat /\ QueueCap \in Nat
  /\ MaxHandles \in Nat /\ MaxPosts \in Nat

Tids    == 1 .. MaxTids
Actors  == 0 .. MaxTids
Slots   == 1 .. NSlots
Queues  == 1 .. NQueues
Handles == 1 .. MaxHandles
Nothing == 0
Child   == MaxTids + 1       \* a child process's main thread, opaque to us

ASSUME CodesAssumption == Codes \subseteq Nat /\ (Joiners \union TimedJoiners) \subseteq Actors
ASSUME ModesAssumption == GuiModes \subseteq BOOLEAN

VARIABLES
  slot,      \* g_mw_threads: used, done, exit_code, win_tid
  minted,    \* g_win_tid_next
  host,      \* the host threads: where each is, t_cur_thread, t_win_tid, and
             \* history: the code it ended with
  queue,     \* g_tqueues: used, tid, the messages
  table,     \* g_handle_table: the slot a handle points at
  issued,    \* g_handle_count
  call,      \* the call each actor is inside, with the locals it holds
  quit,      \* g_quit_flag
  gui,       \* mw_gui_events_enabled
  open,      \* history: the thread a handle was issued for, until closed
  posted,    \* history: what was posted to each thread
  got,       \* history: what each thread got
  overlapped,\* history: a scan began while CreateProcessW was in one
  misused    \* history: a handle was closed twice

vars == <<slot, minted, host, queue, table, issued, call, quit, gui, open, posted, got,
          overlapped, misused>>
messaging == <<queue, quit, gui, posted, got>>
history   == <<overlapped, misused>>

Idle == [pc |-> "idle"]

(* All the tables are zero-initialised statics.                              *)
FreeSlot == [used |-> FALSE, done |-> FALSE, code |-> 0, tid |-> 0]

Init ==
  /\ slot = [s \in Slots |-> FreeSlot]
  /\ minted = 0
  /\ host = [i \in Tids |-> [pc |-> "unborn", self |-> Nothing, id |-> 0, code |-> 0]]
  /\ queue = [q \in Queues |-> [used |-> FALSE, tid |-> 0, msgs |-> <<>>]]
  /\ table = [h \in Handles |-> Nothing]
  /\ issued = 0
  /\ call = [a \in Actors |-> Idle]
  /\ quit = FALSE /\ gui \in GuiModes
  /\ open = [h \in Handles |-> Nothing]
  /\ posted = [i \in Tids |-> <<>>] /\ got = [i \in Tids |-> <<>>]
  /\ overlapped = FALSE /\ misused = FALSE

CanCall(a) == call[a] = Idle /\ (a # 0 => host[a].pc = "run")

Enters(a, c) == call' = [call EXCEPT ![a] = c]
Returns(a)   == Enters(a, Idle)

(* Somebody else has chosen a slot in CreateProcessW and not yet taken it.   *)
Racing(a) == \E b \in Actors \ {a} : call[b].pc = "prefill"
-----------------------------------------------------------------------------
(* _beginthreadex, CreateThread                                              *)

FirstFree(s) == ~ slot[s].used /\ \A r \in Slots : r < s => slot[r].used

(* Scan and claim under g_mw_threads_mu; without a free slot the call fails. *)
CreateThread(a) ==
  /\ a \in Spawners /\ CanCall(a) /\ minted < MaxTids
  /\ \E s \in Slots :
       /\ FirstFree(s)
       /\ slot' = [slot EXCEPT ![s] = [used |-> TRUE, done |-> FALSE, code |-> 0,
                                       tid |-> slot[s].tid]]
       /\ Enters(a, [pc |-> "mint", s |-> s])
  /\ overlapped' = (overlapped \/ Racing(a))
  /\ UNCHANGED <<minted, host, messaging, table, issued, open, misused>>

Unclaim(s) == slot' = [slot EXCEPT ![s].used = FALSE]

(* malloc fails, or the next id is minted for the slot.                      *)
MintTid(a) ==
  LET s == call[a].s IN
  /\ call[a].pc = "mint"
  /\ \/ Unclaim(s) /\ Returns(a) /\ UNCHANGED minted
     \/ /\ minted < MaxTids
        /\ minted' = minted + 1
        /\ slot' = [slot EXCEPT ![s].tid = minted + 1]
        /\ Enters(a, [pc |-> "queue", s |-> s, i |-> minted + 1])
  /\ UNCHANGED <<host, messaging, table, issued, open, history>>

HasQueue(i) == \E q \in Queues : queue[q].used /\ queue[q].tid = i

(* mw_tq_slot(tid, 1): a queue of its own if any is left.  Queues are never  *)
(* freed, and the result is not looked at.                                   *)
OpenQueue(a) ==
  LET c == call[a] IN
  /\ c.pc = "queue"
  /\ \/ /\ HasQueue(c.i) \/ \A q \in Queues : queue[q].used
        /\ UNCHANGED queue
     \/ /\ ~ HasQueue(c.i)
        /\ \E q \in Queues :
             /\ ~ queue[q].used /\ \A r \in Queues : r < q => queue[r].used
             /\ queue' = [queue EXCEPT ![q] = [used |-> TRUE, tid |-> c.i, msgs |-> <<>>]]
  /\ Enters(a, [pc |-> "spawn", s |-> c.s, i |-> c.i])
  /\ UNCHANGED <<slot, minted, host, table, issued, quit, gui, open, posted, got, history>>

(* pthread_create fails, or the thread is there.                             *)
Spawn(a) ==
  LET c == call[a] IN
  /\ c.pc = "spawn"
  /\ \/ Unclaim(c.s) /\ Returns(a) /\ UNCHANGED host
     \/ /\ host' = [host EXCEPT ![c.i] = [pc |-> "boot", self |-> c.s, id |-> 0, code |-> 0]]
        /\ Enters(a, [pc |-> "handle", s |-> c.s, i |-> c.i])
        /\ UNCHANGED slot
  /\ UNCHANGED <<minted, messaging, table, issued, open, history>>

(* alloc_handle for slot s, thread i; a full table answers                   *)
(* INVALID_HANDLE_VALUE and the thread runs on without a handle.             *)
AllocHandle(s, i) ==
  IF issued < MaxHandles
  THEN /\ issued' = issued + 1
       /\ table' = [table EXCEPT ![issued + 1] = s]
       /\ open' = [open EXCEPT ![issued + 1] = i]
  ELSE UNCHANGED <<issued, table, open>>

IssueHandle(a) ==
  /\ call[a].pc = "handle"
  /\ AllocHandle(call[a].s, call[a].i)
  /\ Returns(a)
  /\ UNCHANGED <<slot, minted, host, messaging, history>>
-----------------------------------------------------------------------------
(* CreateProcessW: the slot behind hThread                                   *)

CreateProcess(a) ==
  /\ a \in Launchers /\ CanCall(a) /\ issued < MaxHandles
  /\ \E s \in Slots : FirstFree(s) /\ Enters(a, [pc |-> "prefill", s |-> s])
  /\ overlapped' = (overlapped \/ Racing(a))
  /\ UNCHANGED <<slot, minted, host, messaging, table, issued, open, misused>>

Prefill(a) ==
  LET s == call[a].s IN
  /\ call[a].pc = "prefill"
  /\ slot' = [slot EXCEPT ![s] = [used |-> TRUE, done |-> TRUE, code |-> 0, tid |-> 0]]
  /\ Enters(a, [pc |-> "handle", s |-> s, i |-> Child])
  /\ UNCHANGED <<minted, host, messaging, table, issued, open, history>>
-----------------------------------------------------------------------------
(* mw_thread_trampoline, _endthreadex, ExitThread                            *)

(* Mutant: pthread_cond_signal instead of pthread_cond_broadcast.            *)
SignalOne ==
  LET sleepers == {a \in Actors : call[a].pc = "asleep"} IN
  call' = [a \in Actors |->
             IF a \in sleepers /\ \A b \in sleepers : b <= a
             THEN [call[a] EXCEPT !.pc = "awake"] ELSE call[a]]

(* Everybody who sleeps on t_exit_cv, whichever thread he waits for.         *)
Broadcast ==
  call' = [a \in Actors |-> IF call[a].pc = "asleep" THEN [call[a] EXCEPT !.pc = "awake"]
                            ELSE call[a]]

(* t_cur_thread, t_win_tid: read from the slot when the thread gets to run.  *)
Boot(i) ==
  /\ host[i].pc = "boot"
  /\ host' = [host EXCEPT ![i] = [pc |-> "run", self |-> host[i].self,
                                  id |-> slot[host[i].self].tid, code |-> 0]]
  /\ UNCHANGED <<slot, minted, messaging, table, issued, call, open, history>>

Ends(i, code) ==
  host' = [host EXCEPT ![i] = [pc |-> "ended", self |-> Nothing, id |-> host[i].id,
                               code |-> code]]

Finish(s, code) ==
  slot' = [slot EXCEPT ![s] = [used |-> slot[s].used, done |-> TRUE, code |-> code,
                               tid |-> slot[s].tid]]

(* Mutant: the broadcast is forgotten.                                       *)
EndThreadQuietly(i) ==
  /\ i \in Tids /\ CanCall(i)
  /\ \E code \in Codes : Finish(host[i].self, code) /\ Ends(i, code)
  /\ UNCHANGED <<minted, messaging, table, issued, call, open, history>>

EndThreadEx(i) ==
  /\ i \in Tids /\ CanCall(i)
  /\ \E code \in Codes : Finish(host[i].self, code) /\ Ends(i, code)
  /\ Broadcast
  /\ UNCHANGED <<minted, messaging, table, issued, open, history>>

(* The start routine returns: a slot that is done already keeps its code.    *)
StartReturns(i) ==
  /\ i \in Tids /\ CanCall(i)
  /\ \E code \in Codes :
       /\ Ends(i, code)
       /\ IF slot[host[i].self].done THEN UNCHANGED slot ELSE Finish(host[i].self, code)
  /\ Broadcast
  /\ UNCHANGED <<minted, messaging, table, issued, open, history>>
-----------------------------------------------------------------------------
(* mw_thread_lookup; WaitForSingleObject, CloseHandle of a thread            *)

Lookup(h) ==
  IF table[h] # Nothing /\ slot[table[h]].used THEN table[h] ELSE Nothing

(* mw_kobj_wait looks the handle up to see what it is.  (No object: the wait *)
(* succeeds and nothing changes.)                                            *)
WaitForSingleObject(a, h, timed) ==
  /\ a \in (IF timed THEN TimedJoiners ELSE Joiners) /\ CanCall(a) /\ Lookup(h) # Nothing
  /\ Enters(a, [pc |-> "find", h |-> h, timed |-> timed])
  /\ UNCHANGED <<slot, minted, host, messaging, table, issued, open, history>>

(* mw_thread_wait looks it up again; without a thread it has succeeded.      *)
WaitFinds(a) ==
  LET c == call[a] IN
  /\ c.pc = "find"
  /\ IF Lookup(c.h) = Nothing THEN Returns(a)
     ELSE Enters(a, [pc |-> "wait", h |-> c.h, timed |-> c.timed, s |-> Lookup(c.h)])
  /\ UNCHANGED <<slot, minted, host, messaging, table, issued, open, history>>

(* Mutant: `if' for `while': whoever is woken has got what he waited for.    *)
WaitTestsOnce(a) ==
  LET c == call[a] IN
  /\ c.pc \in {"wait", "awake"}
  /\ \/ (c.pc = "awake" \/ slot[c.s].done) /\ Returns(a)
     \/ /\ c.pc = "wait" /\ ~ slot[c.s].done
        /\ Enters(a, [pc |-> "asleep", h |-> c.h, timed |-> c.timed, s |-> c.s])
  /\ UNCHANGED <<slot, minted, host, messaging, table, issued, open, history>>

(* With t_exit_mu held: done, or (back) to sleep on t_exit_cv.               *)
WaitTests(a) ==
  LET c == call[a] IN
  /\ c.pc \in {"wait", "awake"}
  /\ \/ slot[c.s].done /\ Returns(a)
     \/ ~ slot[c.s].done /\ Enters(a, [pc |-> "asleep", h |-> c.h, timed |-> c.timed, s |-> c.s])
  /\ UNCHANGED <<slot, minted, host, messaging, table, issued, open, history>>

(* pthread_cond_wait may return without a signal.                            *)
SpuriousWakeup(a) ==
  /\ call[a].pc = "asleep"
  /\ call' = [call EXCEPT ![a].pc = "awake"]
  /\ UNCHANGED <<slot, minted, host, messaging, table, issued, open, history>>

(* ETIMEDOUT (0 ms is a deadline that has passed): WAIT_TIMEOUT, even if the *)
(* thread ended before the waiter had the mutex again.                       *)
WaitTimesOut(a) ==
  /\ call[a].pc \in {"asleep", "awake"} /\ call[a].timed
  /\ Returns(a)
  /\ UNCHANGED <<slot, minted, host, messaging, table, issued, open, history>>

CloseHandle(a, h) ==
  /\ a \in Closers /\ CanCall(a) /\ h \in 1 .. issued
  /\ open' = [open EXCEPT ![h] = Nothing]
  /\ misused' = (misused \/ open[h] = Nothing)
  /\ IF Lookup(h) = Nothing THEN UNCHANGED call
     ELSE Enters(a, [pc |-> "reap", h |-> h])
  /\ UNCHANGED <<slot, minted, host, messaging, table, issued, overlapped>>

(* Mutant: a thread that still runs loses its slot.                          *)
ReleaseLiving(a) ==
  LET s == Lookup(call[a].h) IN
  /\ call[a].pc = "reap"
  /\ IF s # Nothing THEN Enters(a, [pc |-> "free", s |-> s]) ELSE Returns(a)
  /\ UNCHANGED <<slot, minted, host, messaging, table, issued, open, history>>

(* mw_thread_release: done is read with t_exit_mu held; a thread that is not *)
(* done keeps its slot.                                                      *)
ReleaseReads(a) ==
  LET s == Lookup(call[a].h) IN
  /\ call[a].pc = "reap"
  /\ IF s # Nothing /\ slot[s].done THEN Enters(a, [pc |-> "free", s |-> s])
     ELSE Returns(a)
  /\ UNCHANGED <<slot, minted, host, messaging, table, issued, open, history>>

ReleaseFrees(a) ==
  /\ call[a].pc = "free"
  /\ Unclaim(call[a].s)
  /\ Returns(a)
  /\ UNCHANGED <<minted, host, messaging, table, issued, open, history>>
-----------------------------------------------------------------------------
(* PostThreadMessage, GetMessage of a spawned thread                         *)

Posts == Cardinality({p \in Tids \X (1 .. MaxPosts) : p[2] <= Len(posted[p[1]])})

(* mw_tq_post: to the end of the queue that has the id, unless it is full    *)
(* (then, and without a queue, error 1444).  A queue that is there stays, so *)
(* that looking it up and appending to it act as one step.                   *)
PostThreadMessage(a, i) ==
  /\ a \in Posters /\ CanCall(a) /\ Posts < MaxPosts
  /\ \E q \in Queues :
       /\ queue[q].used /\ queue[q].tid = i /\ Len(queue[q].msgs) < QueueCap
       /\ queue' = [queue EXCEPT ![q] = [used |-> TRUE, tid |-> i,
                                         msgs |-> Append(queue[q].msgs, Posts + 1)]]
  /\ posted' = [posted EXCEPT ![i] = Append(posted[i], Posts + 1)]
  /\ UNCHANGED <<slot, minted, host, table, issued, call, quit, gui, open, got, history>>

(* t_cur_thread is set.  Without MW_GUI_EVENTS the thread parks until quit   *)
(* or a message (unless a paint is pending: it gets that); with it, it takes *)
(* the same way as the main thread.                                          *)
GetMessage(i) ==
  /\ i \in Tids /\ CanCall(i)
  /\ Enters(i, [pc |-> IF gui THEN "pump" ELSE "park"])
  /\ UNCHANGED <<slot, minted, host, messaging, table, issued, open, history>>

GetMessageChecksQuit(i) ==
  /\ call[i].pc = "park"
  /\ IF quit THEN Returns(i) ELSE Enters(i, [pc |-> "drain"])
  /\ UNCHANGED <<slot, minted, host, messaging, table, issued, open, history>>

(* Mutant: the youngest message of the ring.                                 *)
DrainNewest(i) ==
  LET mine == {q \in Queues : /\ queue[q].used /\ queue[q].tid = host[i].id
                              /\ queue[q].msgs # <<>>} IN
  /\ call[i].pc = "drain"
  /\ \/ mine = {} /\ Enters(i, [pc |-> "park"]) /\ UNCHANGED <<queue, got>>
     \/ \E q \in mine :
          LET n == Len(queue[q].msgs) IN
          /\ queue' = [queue EXCEPT ![q].msgs = SubSeq(queue[q].msgs, 1, n - 1)]
          /\ got' = [got EXCEPT ![i] = Append(got[i], queue[q].msgs[n])]
          /\ Returns(i)
  /\ UNCHANGED <<slot, minted, host, table, issued, quit, gui, open, posted, history>>

(* Mutant: a parked thread only looks at the quit flag.                      *)
DrainNothing(i) ==
  /\ call[i].pc = "drain"
  /\ Enters(i, [pc |-> "park"])
  /\ UNCHANGED <<slot, minted, host, messaging, table, issued, open, history>>

(* mw_tq_poll: the oldest message of the thread's own queue, or a 20 ms nap. *)
GetMessageDrains(i) ==
  LET mine == {q \in Queues : /\ queue[q].used /\ queue[q].tid = host[i].id
                              /\ queue[q].msgs # <<>>} IN
  /\ call[i].pc = "drain"
  /\ \/ mine = {} /\ Enters(i, [pc |-> "park"]) /\ UNCHANGED <<queue, got>>
     \/ \E q \in mine :
          /\ queue' = [queue EXCEPT ![q].msgs = Tail(queue[q].msgs)]
          /\ got' = [got EXCEPT ![i] = Append(got[i], Head(queue[q].msgs))]
          /\ Returns(i)
  /\ UNCHANGED <<slot, minted, host, table, issued, quit, gui, open, posted, history>>

(* The pump of module Pump, which never looks at the thread's own queue: an  *)
(* event or the quit flag, or nothing is left and the program is to quit.    *)
(* (With MW_GUI_EVENTS_PARK it naps for ever instead.)                       *)
GetMessagePumps(i) ==
  /\ call[i].pc = "pump"
  /\ quit' \in {quit, TRUE}
  /\ Returns(i)
  /\ UNCHANGED <<slot, minted, host, queue, table, issued, gui, open, posted, got, history>>

(* PostQuitMessage                                                           *)
PostQuitMessage(a) ==
  /\ a \in Posters /\ CanCall(a)
  /\ quit' = TRUE
  /\ UNCHANGED <<slot, minted, host, queue, table, issued, call, gui, open, posted, got, history>>
-----------------------------------------------------------------------------
Step(a) ==
  \/ MintTid(a) \/ OpenQueue(a) \/ Spawn(a) \/ Prefill(a) \/ IssueHandle(a)
  \/ WaitFinds(a) \/ WaitTests(a) \/ WaitTimesOut(a) \/ ReleaseReads(a) \/ ReleaseFrees(a)
  \/ GetMessageChecksQuit(a) \/ GetMessageDrains(a)

Call(a) ==
  \/ CreateThread(a) \/ CreateProcess(a)
  \/ \E h \in Handles : CloseHandle(a, h)
  \/ \E h \in Handles, timed \in BOOLEAN : WaitForSingleObject(a, h, timed)
  \/ \E i \in Tids : PostThreadMessage(a, i)
  \/ PostQuitMessage(a) \/ GetMessage(a) \/ EndThreadEx(a) \/ StartReturns(a)

Next ==
  \/ \E a \in Actors : Step(a) \/ Call(a) \/ SpuriousWakeup(a) \/ GetMessagePumps(a)
  \/ \E i \in Tids : Boot(i)

Spec == Init /\ [][Next]_vars

(* Whoever has been woken is scheduled, and whoever is parked polls; no      *)
(* guest has to make a call or to end, and no pump to find anything.         *)
FairSpec ==
  /\ Spec
  /\ \A a \in Actors : /\ WF_vars(WaitTests(a))
                       /\ WF_vars(GetMessageChecksQuit(a) \/ GetMessageDrains(a))
-----------------------------------------------------------------------------
(* Properties                                                                *)

CallType ==
  {Idle}
  \union [pc : {"mint", "prefill", "free"}, s : Slots]
  \union [pc : {"queue", "spawn"}, s : Slots, i : Tids]
  \union [pc : {"handle"}, s : Slots, i : Tids \union {Child}]
  \union [pc : {"find"}, h : Handles, timed : BOOLEAN]
  \union [pc : {"wait", "asleep", "awake"}, h : Handles, timed : BOOLEAN, s : Slots]
  \union [pc : {"reap"}, h : Handles]
  \union [pc : {"park", "drain", "pump"}]

(* Every variable has the shape the C types give it, and no queue holds more *)
(* than its ring has room for.                                               *)
TypeOK ==
  /\ slot \in [Slots -> [used : BOOLEAN, done : BOOLEAN, code : Nat, tid : 0 .. MaxTids]]
  /\ minted \in 0 .. MaxTids
  /\ host \in [Tids -> [pc : {"unborn", "boot", "run", "ended"}, self : 0 .. NSlots,
                        id : 0 .. MaxTids, code : Nat]]
  /\ queue \in [Queues -> [used : BOOLEAN, tid : 0 .. MaxTids, msgs : Seq(Nat)]]
  /\ \A q \in Queues : Len(queue[q].msgs) <= QueueCap
  /\ table \in [Handles -> 0 .. NSlots]
  /\ issued \in 0 .. MaxHandles
  /\ call \in [Actors -> CallType]
  /\ quit \in BOOLEAN /\ gui \in BOOLEAN
  /\ open \in [Handles -> 0 .. MaxTids + 1]
  /\ posted \in [Tids -> Seq(Nat)] /\ got \in [Tids -> Seq(Nat)]
  /\ overlapped \in BOOLEAN /\ misused \in BOOLEAN

Living(i) == host[i].pc \in {"boot", "run"}
Ended(i)  == i = Child \/ (i \in Tids /\ host[i].pc = "ended")

(* A thread that lives has its slot to itself, not marked done, and the id   *)
(* it runs under is the one its creator was told: no create, close or exit   *)
(* of another thread reaches it, unless CreateProcessW scanned for a slot    *)
(* while another scan was going on, or a handle was closed twice.            *)
LivingThreadsOwnSlots ==
  \/ overlapped \/ misused
  \/ \A i \in Tids : Living(i) =>
       /\ slot[host[i].self].used /\ ~ slot[host[i].self].done
       /\ slot[host[i].self].tid = i
       /\ host[i].pc = "run" => host[i].id = i

(* The tables of threads and queues hold what their types say, and whoever   *)
(* lives owns its entry of them.                                             *)
ThreadTablesOK == TypeOK /\ LivingThreadsOwnSlots

(* While a handle is open the thread behind it stays what it is: alive, or   *)
(* done with the code it ended with, whatever slots were recycled meanwhile. *)
ExitStatusKept ==
  \/ overlapped \/ misused
  \/ \A h \in Handles :
       LET i == open[h]
           s == table[h] IN
       i # Nothing => /\ slot[s].used
                      /\ slot[s].done <=> Ended(i)
                      /\ i \in Tids => slot[s].tid = i /\ slot[s].code = host[i].code
                      /\ i = Child => slot[s].code = 0

(* Nobody sleeps waiting for a thread that is done, although every thread    *)
(* that ends wakes everybody and most of them go back to sleep.              *)
NoLostJoin ==
  \/ overlapped \/ misused
  \/ \A a \in Actors :
       call[a].pc = "asleep" /\ open[call[a].h] # Nothing => ~ slot[call[a].s].done

(* Whoever waits for a thread learns that it has ended, and with which code, *)
(* whatever became of the thread's slot.                                     *)
JoinsLearnTheEnd == ExitStatusKept /\ NoLostJoin

(* A wait without a timeout is over only when the thread its handle was      *)
(* issued for has ended, or the handle was closed under it.                  *)
WaitNeverEarly ==
  [][\A a \in Actors :
       /\ call[a].pc \in {"find", "wait", "asleep", "awake"}
       /\ ~ call[a].timed /\ call'[a] = Idle
       /\ ~ overlapped /\ ~ misused
       => open[call[a].h] = Nothing \/ Ended(open[call[a].h])]_vars

(* What was posted to a thread is what it got and what its queue still       *)
(* holds, in the order of the posts, even to ids whose thread is gone.       *)
MessagesInOrder ==
  overlapped \/ misused \/
  \A i \in Tids :
    \/ \E q \in Queues : /\ queue[q].used /\ queue[q].tid = i
                         /\ posted[i] = got[i] \o queue[q].msgs
    \/ ~ HasQueue(i) /\ posted[i] = <<>> /\ got[i] = <<>>

Waiting(a) == call[a].pc \in {"wait", "asleep", "awake"}

(* Whoever waits for a thread that has ended gets to know.                   *)
JoinReturns ==
  \A a \in Actors :
    (Waiting(a) /\ Ended(open[call[a].h]))
      ~> (~ Waiting(a) \/ open[call[a].h] = Nothing \/ overlapped \/ misused)

(* A message posted to a thread that waits in GetMessage wakes it, but not   *)
(* with MW_GUI_EVENTS set: then nothing reads the queue it was posted to.    *)
(* (The comment above g_tqueues says of every session that "blocked workers  *)
(* drain it each poll slice".)                                               *)
InGetMessage(i) == call[i].pc \in {"park", "drain", "pump"}
PostsWakeTheThread ==
  \A i \in Tids :
    (InGetMessage(i) /\ Len(got[i]) < Len(posted[i]))
      ~> (~ InGetMessage(i) \/ gui \/ overlapped \/ misused)
=============================================================================
