---------------------------- MODULE WaitObjects ----------------------------
(***************************************************************************)
(* Kernel events and semaphores behind guest handles (loader.c 480-495,    *)
(* 764-788, 6091-6200, 6342-6411, 6439-6486 and their callers).            *)
(*                                                                         *)
(* A handle is an index into a table that only grows; its entry points at  *)
(* a slot of the event or the semaphore registry.  CloseHandle frees the   *)
(* SLOT and keeps the entry, so that a stale handle names whatever is      *)
(* created in the slot next.  The table and the `used' flags are read and  *)
(* written without a lock, hence creating is three steps (choose a slot,   *)
(* initialise it, store the handle) and every other call is two: look the  *)
(* handle up, then act on the slot under the slot's own mutex.             *)
(*                                                                         *)
(* An event is a slot with max 1: n is its `signaled' flag, and waits      *)
(* leave n alone when the event is manual-reset.  For a semaphore n is     *)
(* `count'.  Mutexes and waitable timers are events (CreateMutex makes a   *)
(* manual-reset event signalled unless the creator owns it, ReleaseMutex   *)
(* is SetEvent, CancelWaitableTimer is ResetEvent), and                    *)
(* SignalObjectAndWait is SetEvent followed by WaitForSingleObject.  What  *)
(* a wait returns is not recorded: it shows in the slot it took from.      *)
(***************************************************************************)
EXTENDS Integers, Sequences, FiniteSets

(* An array of handles, whether to wait for all of them, and how long.       *)
MultiWait == [hs : Seq(Nat), all : BOOLEAN, ms : {"poll", "timed", "infinite"}]

CONSTANTS
  Threads,     \* guest threads
  Creators, Closers, Signallers, Waiters,  \* the ones that make those calls
  NEvents,     \* slots of g_mw_events (32 in the code)
  NSems,       \* slots of g_mw_sems (32 in the code)
  MaxHandles,  \* entries of g_handle_table (8192 in the code)
  Maxes,       \* maximum counts a guest gives CreateSemaphore
  Inits,       \* initial states and counts a guest gives to a Create call
  Counts,      \* counts a guest gives ReleaseSemaphore
  Wrap,        \* counts are -Wrap .. Wrap - 1 (2^31 in the code: int32_t)
  Timeouts,    \* kinds of timeout a guest waits with
  Pollers,     \* guest threads that wait for several objects,
  MultiWaits,  \* and the array, mode and timeout they give WaitForMultipleObjects
  MaxMade      \* BOUND: objects ever created

ASSUME SlotsAssumption   == NEvents \in Nat /\ NSems \in Nat
ASSUME HandlesAssumption == MaxHandles \in Nat
ASSUME MadeAssumption    == MaxMade \in Nat
ASSUME WaitsAssumption   == /\ Timeouts \subseteq {"poll", "timed", "infinite"}
                            /\ MultiWaits \subseteq MultiWait
ASSUME CountsAssumption  == /\ Wrap \in Nat \ {0, 1}
                            /\ Inits \cup Maxes \cup Counts \subseteq -Wrap .. Wrap - 1

Events  == 1 .. NEvents
Sems    == NEvents + 1 .. NEvents + NSems
Slots   == 1 .. NEvents + NSems
Handles == 1 .. MaxHandles
Nothing == 0                       \* a NULL pointer: no slot, no object

VARIABLES
  obj,      \* the slots: used, manual, n, max; history: id of the object in it,
            \* odd, a semaphore was released by 0, by less, or past an int32
  table,    \* g_handle_table: the slot a handle points at
  issued,   \* g_handle_count
  call,     \* the call each thread is inside, with the locals it holds
  made,     \* history: objects created, the id of the youngest
  open,     \* history: id of the object a handle was issued for, until closed
  raced,    \* history: two threads were inside a Create call at once
  misused   \* history: a handle was closed twice

vars == <<obj, table, issued, call, made, open, raced, misused>>

Idle == [pc |-> "idle"]

(* The registries are zero-initialised statics.                              *)
FreeSlot == [used |-> FALSE, manual |-> FALSE, n |-> 0, max |-> 0, id |-> Nothing,
             odd |-> FALSE]

Init ==
  /\ obj = [s \in Slots |-> FreeSlot]
  /\ table = [h \in Handles |-> Nothing]
  /\ issued = 0
  /\ call = [t \in Threads |-> Idle]
  /\ made = 0
  /\ open = [h \in Handles |-> Nothing]
  /\ raced = FALSE /\ misused = FALSE

WithCount(o, n) ==
  [used |-> o.used, manual |-> o.manual, n |-> n, max |-> o.max, id |-> o.id,
   odd |-> o.odd]

Returns(t) == call' = [call EXCEPT ![t] = Idle]
-----------------------------------------------------------------------------
(* mw_event_create, mw_sem_create, alloc_handle                              *)

Creating(t) == call[t].pc \in {"claim", "store"}

(* Mutant: the used flag is not tested.                                      *)
CreateScanAnySlot(t, kind, manual, n, max) ==
  /\ t \in Creators /\ call[t] = Idle /\ made < MaxMade
  /\ \E s \in kind :
       call' = [call EXCEPT ![t] = [pc |-> "claim", s |-> s, manual |-> manual,
                                    n |-> n, max |-> max, id |-> made + 1]]
  /\ made' = made + 1
  /\ raced' = (raced \/ \E u \in Threads \ {t} : Creating(u))
  /\ UNCHANGED <<obj, table, issued, open, misused>>

(* The first free slot of the registry; with none the call fails (error 8).  *)
CreateScan(t, kind, manual, n, max) ==
  /\ t \in Creators /\ call[t] = Idle /\ made < MaxMade
  /\ \E s \in kind :
       /\ ~ obj[s].used
       /\ \A r \in kind : r < s => obj[r].used
       /\ call' = [call EXCEPT ![t] = [pc |-> "claim", s |-> s, manual |-> manual,
                                       n |-> n, max |-> max, id |-> made + 1]]
  /\ made' = made + 1
  /\ raced' = (raced \/ \E u \in Threads \ {t} : Creating(u))
  /\ UNCHANGED <<obj, table, issued, open, misused>>

CreateEvent(t) ==
  \E manual \in BOOLEAN, n \in Inits \cap {0, 1} : CreateScan(t, Events, manual, n, 1)

(* max <= 0, init < 0 or init > max is refused with error 87.                *)
CreateSemaphore(t) ==
  \E max \in Maxes, n \in Inits :
    max > 0 /\ n >= 0 /\ n <= max /\ CreateScan(t, Sems, FALSE, n, max)

(* memset, the fields, a new mutex and condition variable; alloc_handle then *)
(* reads the counter.  A full table answers INVALID_HANDLE_VALUE and leaves  *)
(* the object behind.                                                        *)
CreateClaim(t) ==
  LET c == call[t] IN
  /\ c.pc = "claim"
  /\ obj' = [obj EXCEPT ![c.s] = [used |-> TRUE, manual |-> c.manual, n |-> c.n,
                                  max |-> c.max, id |-> c.id, odd |-> FALSE]]
  /\ IF issued < MaxHandles
     THEN call' = [call EXCEPT ![t] = [pc |-> "store", s |-> c.s, h |-> issued + 1]]
     ELSE Returns(t)
  /\ UNCHANGED <<table, issued, made, open, raced, misused>>

(* The entry and the counter, from the value read before.                    *)
CreateStore(t) ==
  LET c == call[t] IN
  /\ c.pc = "store"
  /\ table' = [table EXCEPT ![c.h] = c.s]
  /\ issued' = c.h
  /\ open' = [open EXCEPT ![c.h] = obj[c.s].id]
  /\ Returns(t)
  /\ UNCHANGED <<obj, made, raced, misused>>
-----------------------------------------------------------------------------
(* mw_event_lookup, mw_sem_lookup                                            *)
Lookup(h) ==
  IF table[h] # Nothing /\ obj[table[h]].used THEN table[h] ELSE Nothing

Issued == 1 .. issued

(* CloseHandle: of no object, nothing; else free its slot.                   *)
CloseHandle(t, h) ==
  /\ t \in Closers /\ call[t] = Idle /\ h \in Issued
  /\ open' = [open EXCEPT ![h] = Nothing]
  /\ misused' = (misused \/ open[h] = Nothing)
  /\ IF Lookup(h) = Nothing THEN UNCHANGED call
     ELSE call' = [call EXCEPT ![t] = [pc |-> "close", s |-> Lookup(h)]]
  /\ UNCHANGED <<obj, table, issued, made, raced>>

CloseRelease(t) ==
  /\ call[t].pc = "close"
  /\ LET o == obj[call[t].s] IN
     obj' = [obj EXCEPT ![call[t].s] = [used |-> FALSE, manual |-> o.manual, n |-> o.n,
                                        max |-> o.max, id |-> o.id, odd |-> o.odd]]
  /\ Returns(t)
  /\ UNCHANGED <<table, issued, made, open, raced, misused>>
-----------------------------------------------------------------------------
(* mw_event_set, mw_event_reset, mw_sem_release                              *)

Asleep(s) == {t \in Threads : /\ call[t].pc = "asleep" /\ call[t].s = s
                              /\ call[t].cv = obj[s].id}
Awake(s)  == {t \in Threads : /\ call[t].pc = "awake" /\ call[t].s = s}

(* Mutant: nobody is woken.                                                  *)
BroadcastNobody(s, c) == c

(* pthread_cond_broadcast on the slot's condition variable; a thread that    *)
(* sleeps on the variable an earlier object had in this slot is not reached. *)
Broadcast(s, c) == [t \in Threads |-> IF t \in Asleep(s) THEN [c[t] EXCEPT !.pc = "awake"]
                                      ELSE c[t]]

Start(t, h, kind, c) ==
  /\ call[t] = Idle /\ h \in Issued /\ Lookup(h) \in kind
  /\ call' = [call EXCEPT ![t] = c]
  /\ UNCHANGED <<obj, table, issued, made, open, raced, misused>>

SetEvent(t, h) ==
  t \in Signallers /\ Start(t, h, Events, [pc |-> "set", s |-> Lookup(h), h |-> h])
ResetEvent(t, h) ==
  t \in Signallers /\ Start(t, h, Events, [pc |-> "reset", s |-> Lookup(h), h |-> h])
ReleaseSemaphore(t, h, k) ==
  t \in Signallers /\ Start(t, h, Sems, [pc |-> "release", s |-> Lookup(h), h |-> h, k |-> k])

(* c.s becomes o; everybody who sleeps on it wakes if wake holds.            *)
Store(t, o, wake) ==
  LET s == call[t].s
      c == [call EXCEPT ![t] = Idle] IN
  /\ obj' = [obj EXCEPT ![s] = o]
  /\ call' = IF wake THEN Broadcast(s, c) ELSE c
  /\ UNCHANGED <<table, issued, made, open, raced, misused>>

EventSet(t)   == call[t].pc = "set" /\ Store(t, WithCount(obj[call[t].s], 1), TRUE)
EventReset(t) == call[t].pc = "reset" /\ Store(t, WithCount(obj[call[t].s], 0), FALSE)

(* The sum of two int32_t, which wraps around.                               *)
Plus(a, b) ==
  IF a + b >= Wrap THEN a + b - 2 * Wrap
  ELSE IF a + b < -Wrap THEN a + b + 2 * Wrap
  ELSE a + b

Capped(n, max) == IF n > max THEN max ELSE n

(* The count is not validated: 0 changes nothing, less than 0 takes away     *)
(* from the semaphore, and a sum past the largest int32 turns negative.      *)
Released(o, k) ==
  [used |-> o.used, manual |-> o.manual, n |-> Capped(Plus(o.n, k), o.max),
   max |-> o.max, id |-> o.id, odd |-> o.odd \/ k <= 0 \/ o.n + k >= Wrap]

(* Mutant: wake only when the count was zero AND becomes the maximum.        *)
SemReleaseRarelyWakes(t) ==
  /\ call[t].pc = "release"
  /\ LET o == obj[call[t].s] IN
     Store(t, Released(o, call[t].k), o.n = 0 /\ o.n + call[t].k = o.max)

(* Saturates; a release that changes nothing wakes nobody.                   *)
SemRelease(t) ==
  /\ call[t].pc = "release"
  /\ LET o == obj[call[t].s]
         r == Released(o, call[t].k) IN Store(t, r, r.n # o.n)
-----------------------------------------------------------------------------
(* mw_kobj_wait: mw_event_wait, mw_sem_wait                                  *)

WaitForSingleObject(t, h, ms) ==
  t \in Waiters /\ Start(t, h, Slots, [pc |-> "wait", s |-> Lookup(h), h |-> h, ms |-> ms])

(* The signal is consumed unless the event is manual-reset.                  *)
Taken(o) == IF o.manual THEN o ELSE WithCount(o, o.n - 1)

Take(t, s) == obj' = [obj EXCEPT ![s] = Taken(obj[s])] /\ Returns(t)

Sleep(t, pc) ==
  LET c == call[t] IN
  call' = [call EXCEPT ![t] = [pc |-> pc, s |-> c.s, h |-> c.h, ms |-> c.ms,
                               cv |-> obj[c.s].id]]

(* Mutex taken: the object is signalled, or a poll (0 ms) gives up, or the   *)
(* thread goes to sleep on the condition variable.                           *)
WaitBegins(t) ==
  LET c == call[t] IN
  /\ c.pc = "wait"
  /\ \/ obj[c.s].n > 0 /\ Take(t, c.s)
     \/ obj[c.s].n <= 0 /\ c.ms = "poll" /\ Returns(t) /\ UNCHANGED obj
     \/ obj[c.s].n <= 0 /\ c.ms # "poll" /\ Sleep(t, "asleep") /\ UNCHANGED obj
  /\ UNCHANGED <<table, issued, made, open, raced, misused>>

(* Mutant: the waiter does not test again what it waited for.                *)
WaiterResumesUnchecked(t) ==
  LET c == call[t] IN
  /\ c.pc = "awake"
  /\ Take(t, c.s)
  /\ UNCHANGED <<table, issued, made, open, raced, misused>>

(* Back from pthread_cond_wait: the while loop tests again.                  *)
WaiterResumes(t) ==
  LET c == call[t] IN
  /\ c.pc = "awake"
  /\ \/ obj[c.s].n > 0 /\ Take(t, c.s)
     \/ obj[c.s].n <= 0 /\ Sleep(t, "asleep") /\ UNCHANGED obj
  /\ UNCHANGED <<table, issued, made, open, raced, misused>>

(* ETIMEDOUT: WAIT_TIMEOUT, and nothing is taken even if a signal came in    *)
(* the meantime.                                                             *)
WaiterTimesOut(t) ==
  /\ call[t].pc \in {"asleep", "awake"} /\ call[t].ms = "timed"
  /\ Returns(t)
  /\ UNCHANGED <<obj, table, issued, made, open, raced, misused>>

(* pthread_cond_wait may return without a signal.                            *)
SpuriousWakeup(t) ==
  /\ call[t].pc = "asleep"
  /\ call' = [call EXCEPT ![t].pc = "awake"]
  /\ UNCHANGED <<obj, table, issued, made, open, raced, misused>>
-----------------------------------------------------------------------------
(* mw_WaitForMultipleObjects: rounds of polls over the handles hs            *)

Round(pc, hs, i, all, ms, pending) ==
  [pc |-> pc, hs |-> hs, i |-> i, all |-> all, ms |-> ms, pending |-> pending]

WaitForMultipleObjects(t, w) ==
  /\ t \in Pollers /\ call[t] = Idle
  /\ w.hs # <<>> /\ \A i \in DOMAIN w.hs : w.hs[i] \in Issued
  /\ call' = [call EXCEPT ![t] = Round("look", w.hs, 1, w.all, w.ms, FALSE)]
  /\ UNCHANGED <<obj, table, issued, made, open, raced, misused>>

(* After handle i was polled: the next one, or the end of the round.  The    *)
(* wait is over when nothing is pending; a poll gives up, other waits sleep  *)
(* 10 ms.                                                                    *)
NextHandle(t, pending) ==
  LET c == call[t] IN
  IF c.i < Len(c.hs)
  THEN call' = [call EXCEPT ![t] = Round("look", c.hs, c.i + 1, c.all, c.ms, pending)]
  ELSE IF pending /\ c.ms # "poll"
  THEN call' = [call EXCEPT ![t] = Round("nap", c.hs, 1, c.all, c.ms, FALSE)]
  ELSE Returns(t)

(* A handle of no object counts as signalled.                                *)
MultiLookup(t) ==
  LET c == call[t] IN
  /\ c.pc = "look"
  /\ IF Lookup(c.hs[c.i]) = Nothing THEN NextHandle(t, c.pending)
     ELSE call' = [call EXCEPT ![t] =
            [pc |-> "poll", hs |-> c.hs, i |-> c.i, all |-> c.all, ms |-> c.ms,
             pending |-> c.pending, s |-> Lookup(c.hs[c.i])]]
  /\ UNCHANGED <<obj, table, issued, made, open, raced, misused>>

(* mw_kobj_wait(handle, 0): a signalled object is taken there and then, also *)
(* by a wait for all that goes on waiting for the others.  A wait for any    *)
(* returns WAIT_OBJECT_0 when the poll of an object FAILS.                   *)
MultiPoll(t) ==
  LET c == call[t] IN
  /\ c.pc = "poll"
  /\ IF obj[c.s].n > 0
     THEN obj' = [obj EXCEPT ![c.s] = Taken(obj[c.s])] /\ NextHandle(t, c.pending)
     ELSE UNCHANGED obj /\ IF c.all THEN NextHandle(t, TRUE) ELSE Returns(t)
  /\ UNCHANGED <<table, issued, made, open, raced, misused>>

(* The next round, or the deadline has passed.                               *)
MultiAgain(t) ==
  LET c == call[t] IN
  /\ c.pc = "nap"
  /\ \/ call' = [call EXCEPT ![t] = Round("look", c.hs, 1, c.all, c.ms, FALSE)]
     \/ c.ms = "timed" /\ Returns(t)
  /\ UNCHANGED <<obj, table, issued, made, open, raced, misused>>
-----------------------------------------------------------------------------
Step(t) ==
  \/ CreateClaim(t) \/ CreateStore(t) \/ CloseRelease(t)
  \/ EventSet(t) \/ EventReset(t) \/ SemRelease(t)
  \/ WaitBegins(t) \/ WaiterResumes(t) \/ WaiterTimesOut(t)
  \/ MultiLookup(t) \/ MultiPoll(t) \/ MultiAgain(t)

Call(t) ==
  \/ CreateEvent(t) \/ CreateSemaphore(t)
  \/ \E h \in Handles : CloseHandle(t, h) \/ SetEvent(t, h) \/ ResetEvent(t, h)
  \/ \E h \in Handles, k \in Counts : ReleaseSemaphore(t, h, k)
  \/ \E h \in Handles, ms \in Timeouts : WaitForSingleObject(t, h, ms)
  \/ \E w \in MultiWaits : WaitForMultipleObjects(t, w)

Next == \E t \in Threads : Step(t) \/ Call(t) \/ SpuriousWakeup(t)

Spec == Init /\ [][Next]_vars

(* A thread that pthread_cond_wait has woken is scheduled in the end.  No    *)
(* guest has to make a call, nor a call to go on.                            *)
FairSpec == Spec /\ \A t \in Threads : WF_vars(WaiterResumes(t))
-----------------------------------------------------------------------------
(* Properties                                                                *)

CallType ==
  {Idle}
  \union [pc : {"claim"}, s : Slots, manual : BOOLEAN, n : 0 .. Wrap - 1,
          max : 0 .. Wrap - 1, id : 1 .. MaxMade]
  \union [pc : {"store"}, s : Slots, h : Handles]
  \union [pc : {"close"}, s : Slots]
  \union [pc : {"set", "reset"}, s : Slots, h : Handles]
  \union [pc : {"release"}, s : Slots, h : Handles, k : Counts]
  \union [pc : {"wait"}, s : Slots, h : Handles, ms : Timeouts]
  \union [pc : {"asleep", "awake"}, s : Slots, h : Handles, ms : Timeouts, cv : 0 .. MaxMade]
  \union [pc : {"look", "nap"}, hs : Seq(Nat), i : Nat, all : BOOLEAN,
          ms : {"poll", "timed", "infinite"}, pending : BOOLEAN]
  \union [pc : {"poll"}, hs : Seq(Nat), i : Nat, all : BOOLEAN,
          ms : {"poll", "timed", "infinite"}, pending : BOOLEAN, s : Slots]

SlotType == [used : BOOLEAN, manual : BOOLEAN, n : -Wrap .. Wrap - 1, max : 0 .. Wrap - 1,
             id : 0 .. MaxMade, odd : BOOLEAN]

(* Every slot, handle and call has the shape the C types give it.  No count  *)
(* is above its object's maximum: releases saturate, also where the sum of   *)
(* two int32_t wraps.  No count is negative, so that waits never take what   *)
(* is not there, unless a guest released that semaphore by 0 or less or past *)
(* the largest int32_t: ReleaseSemaphore checks nothing.                     *)
TypeOK ==
  /\ obj \in [Slots -> SlotType]
  /\ \A s \in Slots : obj[s].n <= obj[s].max /\ (obj[s].n >= 0 \/ obj[s].odd)
  /\ table \in [Handles -> Slots \union {Nothing}]
  /\ issued \in 0 .. MaxHandles
  /\ call \in [Threads -> CallType]
  /\ made \in 0 .. MaxMade
  /\ open \in [Handles -> 0 .. MaxMade]
  /\ raced \in BOOLEAN /\ misused \in BOOLEAN

(* Nobody sleeps on the condition variable of an object that is signalled:   *)
(* every change that signals it, and every one that lets a sleeper go back   *)
(* to sleep, happens with the mutex held and wakes or re-tests.              *)
NoLostWakeup == \A s \in Slots : obj[s].n > 0 => Asleep(s) = {}

(* Slots are recycled, handles are not: a handle the guest has not closed    *)
(* names the object it was issued for, as long as no two creates overlapped  *)
(* and no handle was closed twice.                                           *)
OpenHandlesNameTheirObject ==
  \/ raced \/ misused
  \/ \A h \in Handles :
       open[h] # Nothing => Lookup(h) # Nothing /\ obj[Lookup(h)].id = open[h]

(* A call that looked its handle up acts on that handle's object, however    *)
(* late it gets the mutex, if nobody closed the handle meanwhile.            *)
CallsReachTheirObject ==
  \/ raced \/ misused
  \/ \A t \in Threads :
       LET c == call[t] IN
       c.pc \in {"set", "reset", "release", "wait", "asleep", "awake"}
         => \/ open[c.h] = Nothing
            \/ obj[c.s].used /\ obj[c.s].id = open[c.h]

(* A signalled object does not keep anybody waiting: the signal is taken or  *)
(* reset, or the waiters are gone.                                           *)
SignalsReachWaiters ==
  \A s \in Slots :
    (obj[s].n > 0 /\ Asleep(s) \union Awake(s) # {})
      ~> (obj[s].n <= 0 \/ Asleep(s) \union Awake(s) = {})

(* The comment in mw_WaitForMultipleObjects: "any-mode: first signaled       *)
(* object wins".  (The code returns when an object is NOT signalled.)        *)
AnyWaitReturnsOnSignal ==
  [][\A t \in Threads :
       call[t].pc = "poll" /\ ~ call[t].all /\ call'[t] = Idle
         => obj[call[t].s].n > 0]_vars

(* For TLC: guests that wait for all or for any of the first two handles,    *)
(* and one that releases a semaphore by 2 or by -1.                          *)
AllAndAny == {[hs |-> <<1, 2>>, all |-> TRUE, ms |-> "timed"],
              [hs |-> <<1, 2>>, all |-> FALSE, ms |-> "infinite"]}
UpAndDown == {-1, 2}
=============================================================================
