-------------------------- MODULE WaitObjects_proof --------------------------
(***************************************************************************)
(* Proofs about WaitObjects for every number of threads, slots, handles    *)
(* and objects.                                                            *)
(***************************************************************************)
EXTENDS WaitObjects, TLAPS

(* What the program counter of a call says of its locals.                    *)
LEMMA CallShape ==
  ASSUME NEW c \in CallType
  PROVE  /\ c.pc = "claim" => c \in [pc : {"claim"}, s : Slots, manual : BOOLEAN,
                                     n : 0 .. Wrap - 1, max : 0 .. Wrap - 1,
                                     id : 1 .. MaxMade]
         /\ c.pc = "store" => c \in [pc : {"store"}, s : Slots, h : Handles]
         /\ c.pc = "close" => c \in [pc : {"close"}, s : Slots]
         /\ c.pc \in {"set", "reset"} => c \in [pc : {"set", "reset"}, s : Slots, h : Handles]
         /\ c.pc = "release" => c \in [pc : {"release"}, s : Slots, h : Handles, k : Counts]
         /\ c.pc = "wait" => c \in [pc : {"wait"}, s : Slots, h : Handles, ms : Timeouts]
         /\ c.pc \in {"asleep", "awake"} =>
              c \in [pc : {"asleep", "awake"}, s : Slots, h : Handles, ms : Timeouts,
                     cv : 0 .. MaxMade]
         /\ c.pc \in {"look", "nap"} =>
              c \in [pc : {"look", "nap"}, hs : Seq(Nat), i : Nat, all : BOOLEAN,
                     ms : {"poll", "timed", "infinite"}, pending : BOOLEAN]
         /\ c.pc = "poll" =>
              c \in [pc : {"poll"}, hs : Seq(Nat), i : Nat, all : BOOLEAN,
                     ms : {"poll", "timed", "infinite"}, pending : BOOLEAN, s : Slots]
BY DEF CallType, Idle

LEMMA IdleType == Idle \in CallType /\ Idle.pc = "idle"
BY DEF CallType, Idle

-----------------------------------------------------------------------------
(* The inductive invariant.  An object has its own identity, no younger than *)
(* the youngest made; an event never counts beyond one, which a thread that  *)
(* is about to signal one relies on; and the identity of an object that is   *)
(* being made is nobody's condition variable yet, so that a sleeper never    *)
(* misses the signal an object is born with.                                 *)

SlotOK(s) ==
  /\ obj[s].used => obj[s].id # Nothing
  /\ obj[s].id <= made
  /\ s \in Events /\ obj[s].id # Nothing => obj[s].max = 1

(* A wait for several handles is at one of them.                             *)
ListOK(c) ==
  c.pc \in {"look", "poll", "nap"} =>
    c.i \in DOMAIN c.hs /\ \A j \in DOMAIN c.hs : c.hs[j] \in Handles

CallOK(c) ==
  /\ c.pc = "claim" => /\ c.n <= c.max
                       /\ c.s \in Events => c.max = 1
                       /\ c.id <= made
                       /\ \A s \in Slots : obj[s].id # c.id
  /\ c.pc = "set" => c.s \in Events /\ obj[c.s].id # Nothing
  /\ c.pc = "asleep" => c.cv <= made
  /\ ListOK(c)

Fresh(t, u) ==
  call[t].pc = "claim" =>
    /\ call[u].pc = "claim" => call[u].id # call[t].id
    /\ call[u].pc = "asleep" => call[u].cv # call[t].id

IInv ==
  /\ TypeOK
  /\ \A s \in Slots : SlotOK(s)
  /\ \A t \in Threads : CallOK(call[t])
  /\ \A t, u \in Threads : t # u => Fresh(t, u)
  /\ NoLostWakeup

LEMMA InitInv == Init => IInv
<1> SUFFICES ASSUME Init PROVE IInv
  OBVIOUS
<1>1. FreeSlot \in SlotType
  BY MadeAssumption, CountsAssumption DEF FreeSlot, SlotType, Nothing
<1>2. TypeOK
  <2>1. obj \in [Slots -> SlotType] /\ call \in [Threads -> CallType]
    BY <1>1, IdleType DEF Init
  <2>2. \A s \in Slots : obj[s].n <= obj[s].max /\ obj[s].n >= 0
    BY DEF Init, FreeSlot
  <2>3. made \in 0 .. MaxMade /\ issued \in 0 .. MaxHandles
    BY MadeAssumption, HandlesAssumption DEF Init
  <2>4. table \in [Handles -> Slots \union {Nothing}] /\ open \in [Handles -> 0 .. MaxMade]
    BY MadeAssumption DEF Init, Nothing
  <2> QED BY <2>1, <2>2, <2>3, <2>4 DEF Init, TypeOK
<1>3. \A s \in Slots : SlotOK(s)
  BY DEF Init, SlotOK, FreeSlot, Nothing
<1>4. \A t \in Threads : call[t].pc = "idle"
  BY IdleType DEF Init
<1> QED BY <1>2, <1>3, <1>4 DEF IInv, CallOK, ListOK, Fresh, NoLostWakeup, Asleep

-----------------------------------------------------------------------------
(* Steps that leave the objects alone and give a thread a call that is       *)
(* neither about to create nor asleep.                                       *)
Tables == <<table, issued, made, open, raced, misused>>

Harmless(c) ==
  /\ c \in CallType
  /\ c.pc \notin {"claim", "asleep"}
  /\ c.pc = "set" => c.s \in Events /\ obj[c.s].id # Nothing
  /\ ListOK(c)

LEMMA QuietStep ==
  ASSUME IInv, NEW t \in Threads, NEW c, Harmless(c),
         call' = [call EXCEPT ![t] = c], obj' = obj, made' = made,
         table' \in [Handles -> Slots \union {Nothing}], issued' \in 0 .. MaxHandles,
         open' \in [Handles -> 0 .. MaxMade], raced' \in BOOLEAN, misused' \in BOOLEAN
  PROVE  IInv'
<1>1. call' \in [Threads -> CallType]
  BY DEF IInv, TypeOK, Harmless
<1>2. TypeOK'
  BY <1>1 DEF IInv, TypeOK
<1>3. \A s \in Slots : SlotOK(s)'
  BY DEF IInv, SlotOK
<1>4. \A u \in Threads : u # t => call'[u] = call[u]
  BY DEF IInv, TypeOK
<1>5. call'[t] = c
  BY DEF IInv, TypeOK
<1>6. \A u \in Threads : CallOK(call[u])'
  BY <1>4, <1>5 DEF IInv, CallOK, ListOK, Harmless
<1>7. \A u, v \in Threads : u # v => Fresh(u, v)'
  BY <1>4, <1>5 DEF IInv, Fresh, Harmless
<1>8. NoLostWakeup'
  BY <1>4, <1>5 DEF IInv, NoLostWakeup, Asleep, Harmless
<1> QED BY <1>2, <1>3, <1>6, <1>7, <1>8 DEF IInv

(* Steps that lower the count of a slot that is signalled, or leave it.      *)
LEMMA TakenType ==
  ASSUME NEW o \in SlotType, o.n > 0
  PROVE  /\ Taken(o) \in SlotType
         /\ Taken(o).n <= o.n /\ Taken(o).max = o.max /\ Taken(o).id = o.id
         /\ Taken(o).used = o.used /\ Taken(o).n >= 0
BY CountsAssumption DEF SlotType, Taken, WithCount

(* What ReleaseSemaphore makes of a count, whatever number a guest gives it. *)
LEMMA ReleasedType ==
  ASSUME NEW o \in SlotType, NEW k \in -Wrap .. Wrap - 1, o.n <= o.max, o.n >= 0 \/ o.odd
  PROVE  /\ Released(o, k) \in SlotType
         /\ Released(o, k).n <= Released(o, k).max
         /\ Released(o, k).n >= 0 \/ Released(o, k).odd
         /\ Released(o, k).max = o.max /\ Released(o, k).id = o.id
         /\ Released(o, k).used = o.used
<1> DEFINE n == Capped(Plus(o.n, k), o.max)
           odd == o.odd \/ k <= 0 \/ o.n + k >= Wrap
<1>1. /\ o.n \in -Wrap .. Wrap - 1 /\ o.max \in 0 .. Wrap - 1 /\ Wrap \in Nat \ {0, 1}
      /\ o.odd \in BOOLEAN
  BY CountsAssumption DEF SlotType
<1>2. Plus(o.n, k) \in -Wrap .. Wrap - 1
  BY <1>1 DEF Plus
<1>3. n \in -Wrap .. Wrap - 1 /\ n <= o.max
  BY <1>1, <1>2 DEF Capped
<1>4. ~ odd => n >= 0
  BY <1>1 DEF Plus, Capped
<1>5. odd \in BOOLEAN
  OBVIOUS
<1>6. Released(o, k) = [used |-> o.used, manual |-> o.manual, n |-> n, max |-> o.max,
                       id |-> o.id, odd |-> odd]
  BY DEF Released
<1> HIDE DEF n, odd
<1> QED BY <1>1, <1>3, <1>4, <1>5, <1>6 DEF SlotType

LEMMA TakeStep ==
  ASSUME IInv, NEW t \in Threads, NEW c, Harmless(c), NEW s \in Slots, obj[s].n > 0,
         call' = [call EXCEPT ![t] = c], obj' = [obj EXCEPT ![s] = Taken(obj[s])],
         UNCHANGED Tables
  PROVE  IInv'
<1>0. obj[s] \in SlotType
  BY DEF IInv, TypeOK
<1>1. /\ obj'[s] \in SlotType /\ obj'[s].n <= obj[s].n /\ obj'[s].max = obj[s].max
      /\ obj'[s].id = obj[s].id /\ obj'[s].used = obj[s].used /\ obj'[s].n >= 0
  BY <1>0, TakenType DEF IInv, TypeOK
<1>2. \A r \in Slots : r # s => obj'[r] = obj[r]
  BY DEF IInv, TypeOK
<1>3. \A r \in Slots : obj'[r].id = obj[r].id /\ obj'[r].max = obj[r].max
                       /\ obj'[r].used = obj[r].used /\ obj'[r].n <= obj[r].n
                       /\ obj'[r] \in SlotType
  BY <1>1, <1>2 DEF IInv, TypeOK, SlotType
<1>4. call' \in [Threads -> CallType]
  BY DEF IInv, TypeOK, Harmless
<1>5. \A r \in Slots : obj'[r].n <= obj'[r].max /\ (obj'[r].n >= 0 \/ obj'[r].odd)
  <2> TAKE r \in Slots
  <2>1. obj[r] \in SlotType /\ obj[r].n <= obj[r].max /\ (obj[r].n >= 0 \/ obj[r].odd)
    BY DEF IInv, TypeOK
  <2>2. obj'[r].n <= obj'[r].max
    BY <1>3, <2>1 DEF SlotType
  <2>3. CASE r = s
    BY <1>1, <2>2, <2>3
  <2>4. CASE r # s
    BY <1>2, <2>1, <2>2, <2>4
  <2> QED BY <2>3, <2>4
<1>6. TypeOK'
  <2>1. obj' \in [Slots -> SlotType]
    BY <1>3 DEF IInv, TypeOK
  <2> QED BY <2>1, <1>4, <1>5 DEF IInv, TypeOK, Tables
<1>7. \A r \in Slots : SlotOK(r)'
  BY <1>3 DEF IInv, SlotOK, Tables
<1>8. call'[t] = c /\ \A u \in Threads : u # t => call'[u] = call[u]
  BY DEF IInv, TypeOK
<1>9. \A u \in Threads : CallOK(call[u])'
  <2> TAKE u \in Threads
  <2>1. CallOK(call[u]) /\ call[u] \in CallType
    BY DEF IInv, TypeOK
  <2>2. call'[u].pc = "claim" => call'[u] = call[u]
    BY <1>8 DEF Harmless
  <2>3. CASE u = t
    BY <1>3, <1>8, <2>3 DEF CallOK, ListOK, Harmless, Events, Slots
  <2>4. CASE u # t
    BY <1>3, <1>8, <2>1, <2>4 DEF CallOK, ListOK, Tables, Events, Slots
  <2> QED BY <2>3, <2>4
<1>10. \A u, v \in Threads : u # v => Fresh(u, v)'
  BY <1>8 DEF IInv, Fresh, Harmless
<1>11. NoLostWakeup'
  <2> SUFFICES ASSUME NEW r \in Slots, obj'[r].n > 0 PROVE Asleep(r)' = {}
    BY DEF NoLostWakeup
  <2>1. obj[r].n > 0
    BY <1>3 DEF IInv, TypeOK, SlotType
  <2> QED BY <1>3, <1>8, <2>1 DEF IInv, NoLostWakeup, Asleep, Harmless
<1> QED BY <1>6, <1>7, <1>9, <1>10, <1>11 DEF IInv

-----------------------------------------------------------------------------
(* SetEvent, ResetEvent and ReleaseSemaphore.                                *)

LEMMA BroadcastKeepsCalls ==
  ASSUME IInv, NEW s \in Slots, NEW t \in Threads
  PROVE  LET c == [call EXCEPT ![t] = Idle]
             d == Broadcast(s, c) IN
         call[t].pc # "asleep" =>
         /\ d \in [Threads -> CallType]
         /\ d[t] = Idle
         /\ \A u \in Threads :
              /\ d[u].pc # "awake" => d[u] = c[u]
              /\ u \in Asleep(s) => d[u].pc = "awake"
<1> DEFINE c == [call EXCEPT ![t] = Idle]
           d == Broadcast(s, c)
<1> SUFFICES ASSUME call[t].pc # "asleep"
             PROVE  /\ d \in [Threads -> CallType]
                    /\ d[t] = Idle
                    /\ \A u \in Threads :
                         /\ d[u].pc # "awake" => d[u] = c[u]
                         /\ u \in Asleep(s) => d[u].pc = "awake"
  OBVIOUS
<1>1. c \in [Threads -> CallType] /\ c[t] = Idle
  BY IdleType DEF IInv, TypeOK
<1>2. \A u \in Asleep(s) : u # t /\ c[u] = call[u] /\ c[u].pc = "asleep"
  BY DEF Asleep, IInv, TypeOK
<1>3. \A u \in Asleep(s) : [c[u] EXCEPT !.pc = "awake"] \in CallType
  <2> TAKE u \in Asleep(s)
  <2>1. c[u] \in [pc : {"asleep", "awake"}, s : Slots, h : Handles, ms : Timeouts,
                  cv : 0 .. MaxMade]
    BY <1>1, <1>2, CallShape DEF Asleep
  <2>2. [c[u] EXCEPT !.pc = "awake"] \in
          [pc : {"asleep", "awake"}, s : Slots, h : Handles, ms : Timeouts, cv : 0 .. MaxMade]
    BY <2>1
  <2> QED BY <2>2 DEF CallType
<1>4. \A u \in Threads :
        d[u] = IF u \in Asleep(s) THEN [c[u] EXCEPT !.pc = "awake"] ELSE c[u]
  BY DEF Broadcast
<1>5. d \in [Threads -> CallType]
  BY <1>1, <1>3 DEF Broadcast
<1>6. \A u \in Asleep(s) : [c[u] EXCEPT !.pc = "awake"].pc = "awake"
  <2> TAKE u \in Asleep(s)
  <2>1. c[u] \in [pc : {"asleep", "awake"}, s : Slots, h : Handles, ms : Timeouts,
                  cv : 0 .. MaxMade]
    BY <1>1, <1>2, CallShape DEF Asleep
  <2> QED BY <2>1
<1> HIDE DEF d, c
<1> QED BY <1>1, <1>2, <1>4, <1>5, <1>6

LEMMA StoreStep ==
  ASSUME IInv, NEW t \in Threads, call[t].pc \in {"set", "reset", "release"},
         NEW o \in SlotType, o.n <= o.max, o.n >= 0 \/ o.odd,
         o.max = obj[call[t].s].max, o.id = obj[call[t].s].id, o.used = obj[call[t].s].used,
         NEW wake \in BOOLEAN,
         wake \/ o.n <= 0 \/ o.n = obj[call[t].s].n, Store(t, o, wake)
  PROVE  IInv'
<1> DEFINE s == call[t].s
           c == [call EXCEPT ![t] = Idle]
           Kept == {"claim", "set", "asleep", "look", "poll", "nap"}
<1>1. s \in Slots /\ obj[s] \in SlotType /\ call[t] \in CallType
  BY CallShape DEF IInv, TypeOK
<1>2. obj' = [obj EXCEPT ![s] = o]
  BY DEF Store
<1>3. \A r \in Slots : /\ obj'[r] \in SlotType /\ obj'[r].n <= obj'[r].max
                       /\ obj'[r].n >= 0 \/ obj'[r].odd
                       /\ obj'[r].id = obj[r].id /\ obj'[r].max = obj[r].max
                       /\ obj'[r].used = obj[r].used
                       /\ r # s => obj'[r].n = obj[r].n
                       /\ r = s => obj'[r].n = o.n
  BY <1>1, <1>2 DEF IInv, TypeOK
<1>4. /\ call' \in [Threads -> CallType] /\ call'[t] = Idle
      /\ \A u \in Threads : /\ call'[u].pc # "awake" => call'[u] = c[u]
                            /\ wake /\ u \in Asleep(s) => call'[u].pc = "awake"
  <2>1. CASE wake
    <3>1. call' = Broadcast(s, c)
      BY <2>1 DEF Store
    <3>2. call[t].pc # "asleep"
      OBVIOUS
    <3>3. LET d == Broadcast(s, c) IN
          /\ d \in [Threads -> CallType]
          /\ d[t] = Idle
          /\ \A u \in Threads :
               /\ d[u].pc # "awake" => d[u] = c[u]
               /\ u \in Asleep(s) => d[u].pc = "awake"
      BY <1>1, <3>2, BroadcastKeepsCalls
    <3> HIDE DEF c
    <3> QED BY <3>1, <3>3
  <2>2. CASE ~ wake
    <3>1. call' = c
      BY <2>2 DEF Store
    <3>2. c \in [Threads -> CallType] /\ c[t] = Idle
      BY IdleType DEF IInv, TypeOK
    <3> QED BY <2>2, <3>1, <3>2
  <2> QED BY <2>1, <2>2
<1>5. \A u \in Threads : call'[u].pc \in Kept => u # t /\ call'[u] = call[u]
  BY <1>4, IdleType DEF IInv, TypeOK
<1>6. TypeOK'
  <2>1. obj' \in [Slots -> SlotType]
    BY <1>2, <1>3 DEF IInv, TypeOK
  <2> QED BY <2>1, <1>3, <1>4 DEF IInv, TypeOK, Store
<1>7. \A r \in Slots : SlotOK(r)'
  BY <1>3 DEF IInv, SlotOK, Store
<1>8. \A u \in Threads : CallOK(call[u])'
  <2> TAKE u \in Threads
  <2>1. CallOK(call[u]) /\ call[u] \in CallType
    BY DEF IInv, TypeOK
  <2>2. call'[u].pc \in Kept => call'[u] = call[u]
    BY <1>5
  <2>3. made' = made /\ \A r \in Slots : obj'[r].id = obj[r].id
    BY <1>3 DEF Store
  <2>4. \A r \in Events : r \in Slots
    BY SlotsAssumption DEF Events, Slots
  <2>5. CASE call'[u].pc \in Kept
    <3>1. CallOK(call'[u])
      BY <2>1, <2>2, <2>5
    <3> QED BY <2>3, <2>4, <3>1 DEF CallOK, ListOK
  <2>6. CASE call'[u].pc \notin Kept
    BY <2>6 DEF CallOK, ListOK
  <2> QED BY <2>5, <2>6
<1>9. \A u, v \in Threads : u # v => Fresh(u, v)'
  BY <1>5 DEF IInv, Fresh
<1>10. NoLostWakeup'
  <2> SUFFICES ASSUME NEW r \in Slots, obj'[r].n > 0, NEW u \in Threads, u \in Asleep(r)'
               PROVE  FALSE
    BY DEF NoLostWakeup, Asleep
  <2>1. call'[u].pc = "asleep" /\ call'[u] = call[u]
    BY <1>5 DEF Asleep
  <2>2. u \in Asleep(r)
    BY <1>3, <2>1 DEF Asleep
  <2>3. CASE r # s
    BY <1>3, <2>2, <2>3 DEF IInv, NoLostWakeup
  <2>4. CASE r = s /\ wake
    BY <1>4, <2>1, <2>2, <2>4
  <2>5. CASE r = s /\ ~ wake
    <3>1. obj[s].n > 0
      BY <1>1, <1>3, <2>5 DEF SlotType
    <3> QED BY <1>1, <2>2, <2>5, <3>1 DEF IInv, NoLostWakeup
  <2> QED BY <2>3, <2>4, <2>5
<1> QED BY <1>6, <1>7, <1>8, <1>9, <1>10 DEF IInv

(* Going to sleep on an object that is not signalled.                        *)
LEMMA SleepStep ==
  ASSUME IInv, NEW t \in Threads, call[t].pc \in {"wait", "awake"},
         obj[call[t].s].n <= 0, Sleep(t, "asleep"), obj' = obj, UNCHANGED Tables
  PROVE  IInv'
<1> DEFINE s == call[t].s
           c == [pc |-> "asleep", s |-> s, h |-> call[t].h, ms |-> call[t].ms,
                 cv |-> obj[s].id]
<1>1. s \in Slots /\ call[t].h \in Handles /\ call[t].ms \in Timeouts
  <2>1. call[t] \in CallType
    BY DEF IInv, TypeOK
  <2>2. CASE call[t].pc = "wait"
    BY <2>1, <2>2, CallShape
  <2>3. CASE call[t].pc = "awake"
    BY <2>1, <2>3, CallShape
  <2> QED BY <2>2, <2>3
<1>2. obj[s] \in SlotType /\ obj[s].id \in 0 .. MaxMade
  BY <1>1 DEF IInv, TypeOK, SlotType
<1>3. c \in CallType
  BY <1>1, <1>2 DEF CallType
<1>4. call' = [call EXCEPT ![t] = c]
  BY DEF Sleep
<1>5. /\ c.pc = "asleep" /\ c.s = s /\ c.cv = obj[s].id
  OBVIOUS
<1> HIDE DEF c
<1>6. call' \in [Threads -> CallType] /\ call'[t] = c
      /\ \A u \in Threads : u # t => call'[u] = call[u]
  BY <1>3, <1>4 DEF IInv, TypeOK
<1>7. TypeOK'
  BY <1>6 DEF IInv, TypeOK, Tables
<1>8. \A r \in Slots : SlotOK(r)'
  BY DEF IInv, SlotOK, Tables
<1>9. \A u \in Threads : CallOK(call[u])'
  BY <1>1, <1>5, <1>6 DEF IInv, CallOK, ListOK, SlotOK, Tables
<1>10. \A u, v \in Threads : u # v => Fresh(u, v)'
  BY <1>1, <1>5, <1>6 DEF IInv, Fresh, CallOK, ListOK
<1>11. NoLostWakeup'
  <2> SUFFICES ASSUME NEW r \in Slots, obj[r].n > 0, NEW u \in Threads, u \in Asleep(r)'
               PROVE  FALSE
    BY DEF NoLostWakeup, Asleep
  <2>1. CASE u = t
    <3>1. r = s
      BY <1>5, <1>6, <2>1 DEF Asleep
    <3> QED BY <1>2, <3>1 DEF SlotType
  <2>2. CASE u # t
    BY <1>6, <2>2 DEF IInv, NoLostWakeup, Asleep
  <2> QED BY <2>1, <2>2
<1> QED BY <1>7, <1>8, <1>9, <1>10, <1>11 DEF IInv

-----------------------------------------------------------------------------
(* CreateEvent and CreateSemaphore.                                          *)

LEMMA KindsAreSlots == Events \subseteq Slots /\ Sems \subseteq Slots /\ Events \cap Sems = {}
BY SlotsAssumption DEF Events, Sems, Slots

(* The identity the object will have is new: nobody has it, sleeps on it or  *)
(* is about to give it to another object.                                    *)
LEMMA CreateScanStep ==
  ASSUME IInv, NEW t \in Threads, NEW kind \in {Events, Sems}, NEW manual \in BOOLEAN,
         NEW max \in 0 .. Wrap - 1, NEW n \in 0 .. Wrap - 1, n <= max, kind = Events => max = 1,
         CreateScan(t, kind, manual, n, max)
  PROVE  IInv'
<1>1. PICK s \in kind : call' = [call EXCEPT ![t] =
                          [pc |-> "claim", s |-> s, manual |-> manual,
                           n |-> n, max |-> max, id |-> made + 1]]
  BY DEF CreateScan
<1> DEFINE c == [pc |-> "claim", s |-> s, manual |-> manual, n |-> n, max |-> max,
                 id |-> made + 1]
<1>2. made \in 0 .. MaxMade /\ made < MaxMade /\ made' = made + 1 /\ MaxMade \in Nat
  BY MadeAssumption DEF IInv, TypeOK, CreateScan
<1>3. s \in Slots /\ (s \in Events => max = 1)
  BY KindsAreSlots
<1>4. c \in CallType
  BY <1>2, <1>3 DEF CallType
<1>5. c.pc = "claim" /\ c.n = n /\ c.max = max /\ c.s = s /\ c.id = made + 1
  OBVIOUS
<1>6. call' = [call EXCEPT ![t] = c]
  BY <1>1
<1> HIDE DEF c
<1>7. call' \in [Threads -> CallType] /\ call'[t] = c
      /\ \A u \in Threads : u # t => call'[u] = call[u]
  BY <1>4, <1>6 DEF IInv, TypeOK
<1>8. TypeOK'
  BY <1>2, <1>7 DEF IInv, TypeOK, CreateScan
<1>9. \A r \in Slots : obj[r].id \in 0 .. MaxMade /\ obj[r].id <= made
  BY DEF IInv, TypeOK, SlotType, SlotOK
<1>10. \A r \in Slots : SlotOK(r)'
  <2> TAKE r \in Slots
  <2>1. SlotOK(r) /\ obj' = obj
    BY DEF IInv, CreateScan
  <2>2. obj[r].id <= made + 1
    BY <1>2, <1>9
  <2> QED BY <1>2, <2>1, <2>2 DEF SlotOK
<1>11. \A u \in Threads : CallOK(call[u])'
  <2> TAKE u \in Threads
  <2>1. obj' = obj
    BY DEF CreateScan
  <2>2. CASE u = t
    <3>1. \A r \in Slots : obj[r].id # made + 1
      BY <1>2, <1>9
    <3> QED BY <1>2, <1>3, <1>5, <1>7, <2>1, <2>2, <3>1 DEF CallOK, ListOK
  <2>3. CASE u # t
    <3>1. call'[u] = call[u] /\ CallOK(call[u]) /\ call[u] \in CallType
      BY <1>7, <2>3 DEF IInv, TypeOK
    <3>2. call[u].pc = "claim" => call[u].id \in 1 .. MaxMade
      BY <3>1, CallShape
    <3>3. call[u].pc = "asleep" => call[u].cv \in 0 .. MaxMade
      BY <3>1, CallShape
    <3> QED BY <1>2, <2>1, <3>1, <3>2, <3>3 DEF CallOK, ListOK
  <2> QED BY <2>2, <2>3
<1>12. \A u, v \in Threads : u # v => Fresh(u, v)'
  <2> SUFFICES ASSUME NEW u \in Threads, NEW v \in Threads, u # v
               PROVE  Fresh(u, v)'
    OBVIOUS
  <2>1. \A w \in Threads : /\ call[w].pc = "claim" => call[w].id \in 1 .. made
                           /\ call[w].pc = "asleep" => call[w].cv \in 0 .. made
    <3> TAKE w \in Threads
    <3>1. CallOK(call[w]) /\ call[w] \in CallType
      BY DEF IInv, TypeOK
    <3>2. call[w].pc = "claim" => call[w].id \in 1 .. MaxMade
      BY <3>1, CallShape
    <3>3. call[w].pc = "asleep" => call[w].cv \in 0 .. MaxMade
      BY <3>1, CallShape
    <3> QED BY <1>2, <3>1, <3>2, <3>3 DEF CallOK, ListOK
  <2>2. CASE u = t
    BY <1>2, <1>5, <1>7, <2>1, <2>2 DEF Fresh
  <2>3. CASE v = t
    BY <1>2, <1>5, <1>7, <2>1, <2>3 DEF Fresh
  <2>4. CASE u # t /\ v # t
    BY <1>7, <2>4 DEF IInv, Fresh
  <2> QED BY <2>2, <2>3, <2>4
<1>13. NoLostWakeup'
  <2>1. obj' = obj
    BY DEF CreateScan
  <2> QED BY <1>5, <1>7, <2>1 DEF IInv, NoLostWakeup, Asleep
<1> QED BY <1>8, <1>10, <1>11, <1>12, <1>13 DEF IInv

(* The new object has the slot; whoever still sleeps there sleeps on the     *)
(* condition variable of the object that was in it before.                   *)
LEMMA CreateClaimStep ==
  ASSUME IInv, NEW t \in Threads, CreateClaim(t)
  PROVE  IInv'
<1> DEFINE c == call[t]
           o == [used |-> TRUE, manual |-> c.manual, n |-> c.n, max |-> c.max, id |-> c.id,
                 odd |-> FALSE]
<1>1. /\ c.pc = "claim" /\ obj' = [obj EXCEPT ![c.s] = o] /\ made' = made
      /\ UNCHANGED <<table, issued, open, raced, misused>>
  BY DEF CreateClaim
<1>2. /\ c.s \in Slots /\ c.manual \in BOOLEAN /\ c.n \in 0 .. Wrap - 1 /\ c.max \in 0 .. Wrap - 1
      /\ c.id \in 1 .. MaxMade
  BY <1>1, CallShape DEF IInv, TypeOK
<1>3. CallOK(c)
  BY DEF IInv
<1>4. o \in SlotType /\ o.n <= o.max /\ o.n >= 0 /\ o.id # Nothing /\ o.id <= made
      /\ (c.s \in Events => o.max = 1) /\ o.id = c.id
  BY <1>1, <1>2, <1>3, CountsAssumption DEF SlotType, CallOK, ListOK, Nothing
<1> HIDE DEF o
<1>5. PICK d : call' = [call EXCEPT ![t] = d] /\ d \in CallType /\ d.pc \in {"store", "idle"}
  <2>1. CASE issued < MaxHandles
    <3>1. call' = [call EXCEPT ![t] = [pc |-> "store", s |-> c.s, h |-> issued + 1]]
      BY <2>1 DEF CreateClaim
    <3>2. issued + 1 \in Handles
      BY <2>1, HandlesAssumption DEF IInv, TypeOK, Handles
    <3>3. [pc |-> "store", s |-> c.s, h |-> issued + 1] \in CallType
          /\ [pc |-> "store", s |-> c.s, h |-> issued + 1].pc = "store"
      BY <1>2, <3>2 DEF CallType
    <3> QED BY <3>1, <3>3
  <2>2. CASE ~ (issued < MaxHandles)
    <3>1. call' = [call EXCEPT ![t] = Idle]
      BY <2>2 DEF CreateClaim, Returns
    <3> QED BY <3>1, IdleType
  <2> QED BY <2>1, <2>2
<1>6. call' \in [Threads -> CallType] /\ call'[t] = d
      /\ \A u \in Threads : u # t => call'[u] = call[u]
  BY <1>5 DEF IInv, TypeOK
<1>7. obj' \in [Slots -> SlotType] /\ obj'[c.s] = o
      /\ \A r \in Slots : r # c.s => obj'[r] = obj[r]
  BY <1>1, <1>2, <1>4 DEF IInv, TypeOK
<1>8. TypeOK'
  BY <1>1, <1>4, <1>6, <1>7 DEF IInv, TypeOK
<1>9. \A r \in Slots : SlotOK(r)'
  BY <1>1, <1>4, <1>7 DEF IInv, SlotOK
<1>10. \A u \in Threads : CallOK(call[u])'
  <2> TAKE u \in Threads
  <2>1. CASE u = t
    BY <1>5, <1>6, <2>1 DEF CallOK, ListOK
  <2>2. CASE u # t
    <3>1. CallOK(call[u]) /\ Fresh(u, t) /\ call'[u] = call[u]
      BY <1>6, <2>2 DEF IInv
    <3>2. call[u].pc = "claim" => call[u].id # o.id
      BY <1>1, <1>4, <3>1 DEF Fresh
    <3>3. \A r \in Events : r \in Slots
      BY KindsAreSlots
    <3> QED BY <1>1, <1>4, <1>7, <3>1, <3>2, <3>3 DEF CallOK, ListOK
  <2> QED BY <2>1, <2>2
<1>11. \A u, v \in Threads : u # v => Fresh(u, v)'
  BY <1>5, <1>6 DEF IInv, Fresh
<1>12. NoLostWakeup'
  <2> SUFFICES ASSUME NEW r \in Slots, obj'[r].n > 0, NEW u \in Threads, u \in Asleep(r)'
               PROVE  FALSE
    BY DEF NoLostWakeup, Asleep
  <2>1. u # t /\ call'[u] = call[u] /\ call[u].pc = "asleep" /\ call[u].s = r
        /\ call[u].cv = obj'[r].id
    BY <1>5, <1>6 DEF Asleep
  <2>2. CASE r = c.s
    BY <1>1, <1>4, <1>7, <2>1, <2>2 DEF IInv, Fresh
  <2>3. CASE r # c.s
    BY <1>7, <2>1, <2>3 DEF IInv, NoLostWakeup, Asleep
  <2> QED BY <2>2, <2>3
<1> QED BY <1>8, <1>9, <1>10, <1>11, <1>12 DEF IInv

LEMMA CloseReleaseStep ==
  ASSUME IInv, NEW t \in Threads, CloseRelease(t)
  PROVE  IInv'
<1> DEFINE s == call[t].s
           o == obj[s]
<1>1. s \in Slots /\ o \in SlotType
  BY CallShape DEF IInv, TypeOK, CloseRelease
<1>2. obj' = [obj EXCEPT ![s] = [used |-> FALSE, manual |-> o.manual, n |-> o.n,
                                 max |-> o.max, id |-> o.id, odd |-> o.odd]]
      /\ call' = [call EXCEPT ![t] = Idle] /\ UNCHANGED Tables
  BY DEF CloseRelease, Returns, Tables
<1>3. \A r \in Slots : /\ obj'[r] \in SlotType /\ obj'[r].n = obj[r].n
                       /\ obj'[r].max = obj[r].max /\ obj'[r].id = obj[r].id
                       /\ obj'[r].used => obj[r].used
                       /\ obj'[r].odd = obj[r].odd
  BY <1>1, <1>2 DEF IInv, TypeOK, SlotType
<1>4. call' \in [Threads -> CallType] /\ call'[t] = Idle
      /\ \A u \in Threads : u # t => call'[u] = call[u]
  BY <1>2, IdleType DEF IInv, TypeOK
<1>5. TypeOK'
  <2>1. obj' \in [Slots -> SlotType]
    BY <1>2, <1>3 DEF IInv, TypeOK
  <2>2. \A r \in Slots : obj'[r].n <= obj'[r].max /\ (obj'[r].n >= 0 \/ obj'[r].odd)
    BY <1>3 DEF IInv, TypeOK
  <2> QED BY <1>2, <1>4, <2>1, <2>2 DEF IInv, TypeOK, Tables
<1>6. \A r \in Slots : SlotOK(r)'
  BY <1>2, <1>3 DEF IInv, SlotOK, Tables
<1>7. \A u \in Threads : CallOK(call[u])'
  <2> TAKE u \in Threads
  <2>1. \A r \in Events : r \in Slots
    BY KindsAreSlots
  <2>2. CASE u = t
    BY <1>4, <2>2, IdleType DEF CallOK, ListOK
  <2>3. CASE u # t
    BY <1>2, <1>3, <1>4, <2>1, <2>3 DEF IInv, CallOK, ListOK, Tables
  <2> QED BY <2>2, <2>3
<1>8. \A u, v \in Threads : u # v => Fresh(u, v)'
  BY <1>4, IdleType DEF IInv, Fresh
<1>9. NoLostWakeup'
  BY <1>3, <1>4, IdleType DEF IInv, NoLostWakeup, Asleep
<1> QED BY <1>5, <1>6, <1>7, <1>8, <1>9 DEF IInv

-----------------------------------------------------------------------------
LEMMA HarmlessIdle == Harmless(Idle)
BY IdleType DEF Harmless, ListOK

LEMMA LookupType ==
  ASSUME IInv, NEW h \in Handles, Lookup(h) # Nothing
  PROVE  Lookup(h) \in Slots /\ obj[Lookup(h)].used /\ table[h] = Lookup(h)
BY DEF Lookup, IInv, TypeOK

(* A call that starts by looking its handle up.                              *)
LEMMA StartStep ==
  ASSUME IInv, NEW t \in Threads, NEW h \in Handles, NEW kind, NEW c,
         Start(t, h, kind, c), Lookup(h) \in Slots => Harmless(c), kind \subseteq Slots
  PROVE  IInv'
<1>1. Harmless(c) /\ call' = [call EXCEPT ![t] = c]
      /\ UNCHANGED <<obj, table, issued, made, open, raced, misused>>
  BY DEF Start
<1> QED BY <1>1, QuietStep DEF IInv, TypeOK

LEMMA NextHandleCall ==
  ASSUME IInv, NEW t \in Threads, call[t].pc \in {"look", "poll"}, NEW p \in BOOLEAN,
         NextHandle(t, p)
  PROVE  \E c : Harmless(c) /\ call' = [call EXCEPT ![t] = c]
<1> DEFINE c == call[t]
<1>1. /\ c.hs \in Seq(Nat) /\ c.i \in Nat /\ c.all \in BOOLEAN
      /\ c.ms \in {"poll", "timed", "infinite"}
  <2>1. c \in CallType
    BY DEF IInv, TypeOK
  <2>2. CASE c.pc = "look"
    BY <2>1, <2>2, CallShape
  <2>3. CASE c.pc = "poll"
    BY <2>1, <2>3, CallShape
  <2> QED BY <2>2, <2>3
<1>2. DOMAIN c.hs = 1 .. Len(c.hs) /\ Len(c.hs) \in Nat
  BY <1>1
<1>3. c.i \in DOMAIN c.hs /\ \A j \in DOMAIN c.hs : c.hs[j] \in Handles
  BY DEF IInv, CallOK, ListOK
<1>4. ASSUME NEW pc \in {"look", "nap"}, NEW i \in DOMAIN c.hs, NEW pending \in BOOLEAN
      PROVE  Harmless(Round(pc, c.hs, i, c.all, c.ms, pending))
  <2> DEFINE d == Round(pc, c.hs, i, c.all, c.ms, pending)
  <2>1. i \in Nat
    BY <1>2
  <2>2. d \in CallType
    BY <1>1, <2>1 DEF Round, CallType
  <2>3. d.pc = pc /\ d.hs = c.hs /\ d.i = i
    BY DEF Round
  <2> HIDE DEF d
  <2>4. Harmless(d)
    BY <1>3, <2>2, <2>3 DEF Harmless, ListOK
  <2> QED BY <2>4 DEF d
<1>5. 1 \in DOMAIN c.hs /\ (c.i < Len(c.hs) => c.i + 1 \in DOMAIN c.hs)
  BY <1>1, <1>2, <1>3
<1>6. c.i < Len(c.hs) => Harmless(Round("look", c.hs, c.i + 1, c.all, c.ms, p))
  BY <1>4, <1>5
<1>7. Harmless(Round("nap", c.hs, 1, c.all, c.ms, FALSE))
  BY <1>4, <1>5
<1> HIDE DEF c
<1> QED BY <1>6, <1>7, HarmlessIdle DEF NextHandle, Returns, c

LEMMA NextInv == IInv /\ [Next]_vars => IInv'
<1> SUFFICES ASSUME IInv, [Next]_vars PROVE IInv'
  OBVIOUS
<1>a. \A t \in Threads : call[t] \in CallType
  BY DEF IInv, TypeOK
<1>b. \A s \in Slots : /\ obj[s] \in SlotType /\ obj[s].n <= obj[s].max /\ SlotOK(s)
                       /\ obj[s].n >= 0 \/ obj[s].odd
  BY DEF IInv, TypeOK
<1>1. CASE vars' = vars
  <2>1. UNCHANGED <<obj, table, issued, call, made, open, raced, misused>>
    BY <1>1 DEF vars
  <2>2. TypeOK' /\ NoLostWakeup'
    BY <2>1 DEF IInv, TypeOK, NoLostWakeup, Asleep
  <2> QED BY <2>1, <2>2 DEF IInv, SlotOK, CallOK, ListOK, Fresh
<1>2. ASSUME NEW t \in Threads, CreateEvent(t) PROVE IInv'
  <2>1. PICK manual \in BOOLEAN, n \in Inits \cap {0, 1} : CreateScan(t, Events, manual, n, 1)
    BY <1>2 DEF CreateEvent
  <2>2. n \in 0 .. Wrap - 1 /\ n <= 1 /\ 1 \in 0 .. Wrap - 1
    BY CountsAssumption
  <2> QED BY <2>1, <2>2, CreateScanStep
<1>3. ASSUME NEW t \in Threads, CreateSemaphore(t) PROVE IInv'
  <2>2. PICK max \in Maxes, n \in Inits :
          max > 0 /\ n >= 0 /\ n <= max /\ CreateScan(t, Sems, FALSE, n, max)
    BY <1>3 DEF CreateSemaphore
  <2>3. max \in 0 .. Wrap - 1 /\ n \in 0 .. Wrap - 1 /\ n <= max
    <3>1. max \in -Wrap .. Wrap - 1 /\ n \in -Wrap .. Wrap - 1 /\ Wrap \in Nat
      BY CountsAssumption
    <3> QED BY <2>2, <3>1
  <2>4. CASE Sems = Events
    <3>1. \A s \in Sems : FALSE
      BY <2>4, KindsAreSlots
    <3> QED BY <2>2, <3>1 DEF CreateScan
  <2>5. CASE Sems # Events
    BY <2>2, <2>3, <2>5, CreateScanStep
  <2> QED BY <2>4, <2>5
<1>4. ASSUME NEW t \in Threads, CreateClaim(t) PROVE IInv'
  BY <1>4, CreateClaimStep
<1>5. ASSUME NEW t \in Threads, CreateStore(t) PROVE IInv'
  <2>1. call[t].s \in Slots /\ call[t].h \in Handles
    BY <1>5, <1>a, CallShape DEF CreateStore
  <2>2. obj[call[t].s].id \in 0 .. MaxMade
    BY <1>b, <2>1 DEF SlotType
  <2>3. /\ table' = [table EXCEPT ![call[t].h] = call[t].s]
        /\ open' = [open EXCEPT ![call[t].h] = obj[call[t].s].id]
        /\ issued' = call[t].h /\ call' = [call EXCEPT ![t] = Idle]
        /\ UNCHANGED <<obj, made, raced, misused>>
    BY <1>5 DEF CreateStore, Returns
  <2>4. table' \in [Handles -> Slots \union {Nothing}] /\ open' \in [Handles -> 0 .. MaxMade]
        /\ issued' \in 0 .. MaxHandles
    BY <2>1, <2>2, <2>3 DEF IInv, TypeOK, Handles
  <2> QED BY <2>3, <2>4, HarmlessIdle, QuietStep DEF IInv, TypeOK
<1>6. ASSUME NEW t \in Threads, NEW h \in Handles, CloseHandle(t, h) PROVE IInv'
  <2>1. open' \in [Handles -> 0 .. MaxMade] /\ misused' \in BOOLEAN
    BY <1>6, MadeAssumption DEF CloseHandle, IInv, TypeOK, Nothing
  <2>2. CASE Lookup(h) = Nothing
    <3>1. call' = [call EXCEPT ![t] = Idle]
      BY <1>6, <2>2 DEF CloseHandle, IInv, TypeOK
    <3> QED BY <1>6, <2>1, <3>1, HarmlessIdle, QuietStep DEF CloseHandle, IInv, TypeOK
  <2>3. CASE Lookup(h) # Nothing
    <3>1. Lookup(h) \in Slots
      BY <2>3, LookupType
    <3>2. Harmless([pc |-> "close", s |-> Lookup(h)])
      BY <3>1 DEF Harmless, ListOK, CallType
    <3>3. call' = [call EXCEPT ![t] = [pc |-> "close", s |-> Lookup(h)]]
      BY <1>6, <2>3 DEF CloseHandle
    <3> QED BY <1>6, <2>1, <3>2, <3>3, QuietStep DEF CloseHandle, IInv, TypeOK
  <2> QED BY <2>2, <2>3
<1>7. ASSUME NEW t \in Threads, CloseRelease(t) PROVE IInv'
  BY <1>7, CloseReleaseStep
<1>8. ASSUME NEW t \in Threads, NEW h \in Handles,
             SetEvent(t, h) \/ ResetEvent(t, h)
      PROVE  IInv'
  <2>0. Lookup(h) \in Events /\ Lookup(h) \in Slots
    BY <1>8, KindsAreSlots DEF SetEvent, ResetEvent, Start
  <2>1. obj[Lookup(h)].id # Nothing
    <3>1. Lookup(h) # Nothing
      BY <2>0, SlotsAssumption DEF Events, Nothing
    <3> QED BY <1>b, <3>1, LookupType DEF SlotOK
  <2>2. Harmless([pc |-> "set", s |-> Lookup(h), h |-> h])
    BY <2>0, <2>1 DEF Harmless, ListOK, CallType
  <2>3. Harmless([pc |-> "reset", s |-> Lookup(h), h |-> h])
    BY <2>0 DEF Harmless, ListOK, CallType
  <2> QED BY <1>8, <2>2, <2>3, KindsAreSlots, StartStep DEF SetEvent, ResetEvent
<1>9. ASSUME NEW t \in Threads, NEW h \in Handles, NEW k \in Counts, ReleaseSemaphore(t, h, k)
      PROVE  IInv'
  <2>0. Lookup(h) \in Slots
    BY <1>9, KindsAreSlots DEF ReleaseSemaphore, Start
  <2>1. Harmless([pc |-> "release", s |-> Lookup(h), h |-> h, k |-> k])
    BY <2>0 DEF Harmless, ListOK, CallType
  <2> QED BY <1>9, <2>1, KindsAreSlots, StartStep DEF ReleaseSemaphore
<1>10. ASSUME NEW t \in Threads, NEW h \in Handles, NEW ms \in Timeouts,
              WaitForSingleObject(t, h, ms)
       PROVE  IInv'
  <2>0. Lookup(h) \in Slots
    BY <1>10 DEF WaitForSingleObject, Start
  <2>1. Harmless([pc |-> "wait", s |-> Lookup(h), h |-> h, ms |-> ms])
    BY <2>0 DEF Harmless, ListOK, CallType
  <2> QED BY <1>10, <2>1, StartStep DEF WaitForSingleObject
<1>11. ASSUME NEW t \in Threads, EventSet(t) \/ EventReset(t) PROVE IInv'
  <2>1. call[t].s \in Slots
    BY <1>11, <1>a, CallShape DEF EventSet, EventReset
  <2> DEFINE o == obj[call[t].s]
             p == WithCount(o, 1)
             q == WithCount(o, 0)
  <2>2. o \in SlotType /\ Wrap \in Nat \ {0, 1}
    BY <1>b, <2>1, CountsAssumption
  <2>3. call[t].pc = "set" => 1 <= o.max
    BY <1>b, <2>1 DEF IInv, CallOK, ListOK, SlotOK
  <2>4. CASE EventSet(t)
    <3>1. p \in SlotType /\ p.n = 1 /\ p.max = o.max /\ p.id = o.id /\ p.used = o.used
      BY <2>2 DEF WithCount, SlotType
    <3>3. call[t].pc = "set" /\ Store(t, p, TRUE)
      BY <2>4 DEF EventSet
    <3>2. p.n <= p.max /\ p.n >= 0
      BY <2>3, <3>1, <3>3
    <3> HIDE DEF p
    <3> QED BY <3>1, <3>2, <3>3, StoreStep
  <2>5. CASE EventReset(t)
    <3>1. q \in SlotType /\ q.n = 0 /\ q.max = o.max /\ q.id = o.id /\ q.used = o.used
      BY <2>2 DEF WithCount, SlotType
    <3>3. call[t].pc = "reset" /\ Store(t, q, FALSE)
      BY <2>5 DEF EventReset
    <3>2. q.n <= q.max /\ q.n >= 0 /\ q.n <= 0
      BY <2>2, <3>1 DEF SlotType
    <3> HIDE DEF q
    <3> QED BY <3>1, <3>2, <3>3, StoreStep
  <2> QED BY <1>11, <2>4, <2>5
<1>12. ASSUME NEW t \in Threads, SemRelease(t) PROVE IInv'
  <2> DEFINE o == obj[call[t].s]
             r == Released(o, call[t].k)
  <2>1. call[t].s \in Slots /\ call[t].k \in Counts /\ call[t].pc = "release"
    BY <1>12, <1>a, CallShape DEF SemRelease
  <2>2. o \in SlotType /\ o.n <= o.max /\ (o.n >= 0 \/ o.odd) /\ call[t].k \in -Wrap .. Wrap - 1
    BY <1>b, <2>1, CountsAssumption
  <2>3. /\ r \in SlotType /\ r.n <= r.max /\ (r.n >= 0 \/ r.odd)
        /\ r.max = o.max /\ r.id = o.id /\ r.used = o.used
    BY <2>2, ReleasedType
  <2>4. Store(t, r, r.n # o.n)
    BY <1>12 DEF SemRelease
  <2>5. (r.n # o.n) \in BOOLEAN /\ ((r.n # o.n) \/ r.n = o.n)
    OBVIOUS
  <2> HIDE DEF r
  <2> QED BY <2>1, <2>3, <2>4, <2>5, StoreStep
<1>13. ASSUME NEW t \in Threads, WaitBegins(t) \/ WaiterResumes(t) PROVE IInv'
  <2>1. call[t].s \in Slots /\ call[t].pc \in {"wait", "awake"}
    BY <1>13, <1>a, CallShape DEF WaitBegins, WaiterResumes
  <2>2. UNCHANGED Tables
    BY <1>13 DEF WaitBegins, WaiterResumes, Tables
  <2>3. CASE obj[call[t].s].n > 0 /\ Take(t, call[t].s)
    BY <2>1, <2>2, <2>3, HarmlessIdle, TakeStep DEF Take, Returns
  <2>4. CASE obj[call[t].s].n <= 0 /\ Sleep(t, "asleep") /\ UNCHANGED obj
    BY <2>1, <2>2, <2>4, SleepStep
  <2>5. CASE Returns(t) /\ UNCHANGED obj
    BY <2>2, <2>5, HarmlessIdle, QuietStep DEF Returns, Tables, IInv, TypeOK
  <2> QED BY <1>13, <2>3, <2>4, <2>5 DEF WaitBegins, WaiterResumes
<1>14. ASSUME NEW t \in Threads, WaiterTimesOut(t) PROVE IInv'
  BY <1>14, HarmlessIdle, QuietStep DEF WaiterTimesOut, Returns, IInv, TypeOK
<1>15. ASSUME NEW t \in Threads, SpuriousWakeup(t) PROVE IInv'
  <2>1. call[t] \in [pc : {"asleep", "awake"}, s : Slots, h : Handles, ms : Timeouts,
                     cv : 0 .. MaxMade]
    BY <1>15, <1>a, CallShape DEF SpuriousWakeup
  <2>2. [call[t] EXCEPT !.pc = "awake"] \in
          [pc : {"asleep", "awake"}, s : Slots, h : Handles, ms : Timeouts, cv : 0 .. MaxMade]
        /\ [call[t] EXCEPT !.pc = "awake"].pc = "awake"
    BY <2>1
  <2>3. Harmless([call[t] EXCEPT !.pc = "awake"])
    BY <2>2 DEF Harmless, ListOK, CallType
  <2>4. call' = [call EXCEPT ![t] = [call[t] EXCEPT !.pc = "awake"]]
    BY <1>15 DEF SpuriousWakeup
  <2> QED BY <1>15, <2>3, <2>4, QuietStep DEF SpuriousWakeup, IInv, TypeOK
<1>16. ASSUME NEW t \in Threads, NEW w \in MultiWaits, WaitForMultipleObjects(t, w)
       PROVE  IInv'
  <2> DEFINE hs == w.hs
  <2>1. /\ hs \in Seq(Nat) /\ hs # <<>>
        /\ \A j \in DOMAIN hs : hs[j] \in Handles
    <3>1. hs # <<>> /\ \A j \in DOMAIN hs : hs[j] \in 1 .. issued
      BY <1>16 DEF WaitForMultipleObjects, Issued
    <3>2. issued \in 0 .. MaxHandles /\ MaxHandles \in Nat
      BY HandlesAssumption DEF IInv, TypeOK
    <3>3. w \in MultiWait
      BY WaitsAssumption
    <3> QED BY <3>1, <3>2, <3>3 DEF Handles, MultiWait
  <2>2. 1 \in DOMAIN hs
    BY <2>1
  <2>3. w.all \in BOOLEAN /\ w.ms \in {"poll", "timed", "infinite"}
    <3>1. w \in MultiWait
      BY WaitsAssumption
    <3> QED BY <3>1 DEF MultiWait
  <2>4. Harmless(Round("look", hs, 1, w.all, w.ms, FALSE))
    BY <2>1, <2>2, <2>3 DEF Harmless, ListOK, Round, CallType
  <2> QED BY <1>16, <2>4, QuietStep DEF WaitForMultipleObjects, IInv, TypeOK
<1>17. ASSUME NEW t \in Threads, MultiLookup(t) PROVE IInv'
  <2>1. call[t] \in [pc : {"look", "nap"}, hs : Seq(Nat), i : Nat, all : BOOLEAN,
                     ms : {"poll", "timed", "infinite"}, pending : BOOLEAN]
    BY <1>17, <1>a, CallShape DEF MultiLookup
  <2>2. PICK c : Harmless(c) /\ call' = [call EXCEPT ![t] = c]
    <3>1. CASE Lookup(call[t].hs[call[t].i]) = Nothing
      BY <1>17, <2>1, <3>1, NextHandleCall DEF MultiLookup
    <3>2. CASE Lookup(call[t].hs[call[t].i]) # Nothing
      <4> DEFINE s == Lookup(call[t].hs[call[t].i])
                 c == [pc |-> "poll", hs |-> call[t].hs, i |-> call[t].i, all |-> call[t].all,
                       ms |-> call[t].ms, pending |-> call[t].pending, s |-> s]
      <4>1. s \in Slots
        BY <1>17, <3>2, LookupType DEF MultiLookup, IInv, CallOK, ListOK
      <4> HIDE DEF s
      <4>2. Harmless(c)
        <5>1. c \in CallType /\ c.pc = "poll"
          BY <2>1, <4>1 DEF CallType
        <5>2. ListOK(call[t]) /\ call[t].pc = "look"
          BY <1>17 DEF MultiLookup, IInv, CallOK
        <5> QED BY <5>1, <5>2 DEF Harmless, ListOK
      <4>3. call' = [call EXCEPT ![t] = c]
        BY <1>17, <3>2 DEF MultiLookup, s
      <4> QED BY <4>2, <4>3
    <3> QED BY <3>1, <3>2
  <2> QED BY <1>17, <2>2, QuietStep DEF MultiLookup, IInv, TypeOK
<1>18. ASSUME NEW t \in Threads, MultiPoll(t) PROVE IInv'
  <2>1. call[t].pc = "poll" /\ call[t].s \in Slots /\ call[t].pending \in BOOLEAN
        /\ UNCHANGED Tables
    BY <1>18, <1>a, CallShape DEF MultiPoll, Tables
  <2>2. CASE obj[call[t].s].n > 0
    <3>1. PICK c : Harmless(c) /\ call' = [call EXCEPT ![t] = c]
      BY <1>18, <2>1, <2>2, NextHandleCall DEF MultiPoll
    <3> QED BY <1>18, <2>1, <2>2, <3>1, TakeStep DEF MultiPoll
  <2>3. CASE ~ (obj[call[t].s].n > 0)
    <3>1. PICK c : Harmless(c) /\ call' = [call EXCEPT ![t] = c]
      BY <1>18, <2>1, <2>3, NextHandleCall, HarmlessIdle DEF MultiPoll, Returns
    <3> QED BY <1>18, <2>1, <2>3, <3>1, QuietStep DEF MultiPoll, Tables, IInv, TypeOK
  <2> QED BY <2>2, <2>3
<1>19. ASSUME NEW t \in Threads, MultiAgain(t) PROVE IInv'
  <2>1. call[t] \in [pc : {"look", "nap"}, hs : Seq(Nat), i : Nat, all : BOOLEAN,
                     ms : {"poll", "timed", "infinite"}, pending : BOOLEAN]
    BY <1>19, <1>a, CallShape DEF MultiAgain
  <2>2. Harmless(Round("look", call[t].hs, 1, call[t].all, call[t].ms, FALSE))
    <3>1. ListOK(call[t]) /\ call[t].pc = "nap"
      BY <1>19 DEF MultiAgain, IInv, CallOK
    <3>2. 1 \in DOMAIN call[t].hs
      BY <2>1, <3>1 DEF ListOK
    <3> QED BY <2>1, <3>1, <3>2 DEF Harmless, ListOK, Round, CallType
  <2> QED BY <1>19, <2>2, HarmlessIdle, QuietStep DEF MultiAgain, Returns, IInv, TypeOK
<1> QED
  BY <1>1, <1>2, <1>3, <1>4, <1>5, <1>6, <1>7, <1>8, <1>9, <1>10, <1>11, <1>12, <1>13,
     <1>14, <1>15, <1>16, <1>17, <1>18, <1>19 DEF Next, Step, Call

(* Everything has the shape the C types give it.  No count is above its      *)
(* maximum in any state of the system, and none is negative but that of a    *)
(* semaphore a guest released by 0 or less or past the largest int32_t.      *)
THEOREM TypesAndCounts == Spec => []TypeOK
<1>1. IInv => TypeOK
  BY DEF IInv
<1> QED BY <1>1, InitInv, NextInv, PTL DEF Spec

(* No thread ever sleeps on the condition variable of an object that is      *)
(* signalled: for any number of threads, whatever is closed, recycled,       *)
(* reset or polled meanwhile.                                                *)
THEOREM SleepersMissNothing == Spec => []NoLostWakeup
<1>1. IInv => NoLostWakeup
  BY DEF IInv
<1> QED BY <1>1, InitInv, NextInv, PTL DEF Spec

-----------------------------------------------------------------------------
(* Who owns a slot, while no two creates overlapped and no handle was closed *)
(* twice: at most one open handle, or the one thread that is storing its     *)
(* handle, or the one thread that is closing it.                             *)
OpPcs == {"set", "reset", "release", "wait", "asleep", "awake"}

OpenOK(h) ==
  open[h] # Nothing =>
    /\ h \in 1 .. issued /\ table[h] \in Slots
    /\ obj[table[h]].used /\ obj[table[h]].id = open[h]

NotOpen(s) == \A h \in Handles : open[h] # Nothing => table[h] # s

OpOK(c) == c.h \in 1 .. issued /\ (open[c.h] = Nothing \/ table[c.h] = c.s)

Owner(t) ==
  LET c == call[t] IN
  /\ c.pc = "claim" => ~ obj[c.s].used
  /\ c.pc = "store" => obj[c.s].used /\ c.h = issued + 1 /\ NotOpen(c.s)
  /\ c.pc = "close" => /\ obj[c.s].used /\ NotOpen(c.s)
                       /\ \A u \in Threads \ {t} :
                            call[u].pc \in {"store", "close"} => call[u].s # c.s
  /\ c.pc \in OpPcs => OpOK(c)

Owned ==
  /\ \A h \in Handles : OpenOK(h)
  /\ \A g, h \in Handles : open[g] # Nothing /\ open[h] # Nothing /\ table[g] = table[h]
                             => g = h
  /\ \A t, u \in Threads : Creating(t) /\ Creating(u) => t = u
  /\ \A t \in Threads : Owner(t)

OwnedInv == raced \/ misused \/ Owned

LEMMA InitOwned == Init => OwnedInv
<1> SUFFICES ASSUME Init PROVE Owned
  BY DEF OwnedInv
<1>1. \A t \in Threads : call[t].pc = "idle"
  BY IdleType DEF Init
<1> QED BY <1>1 DEF Init, Owned, OpenOK, Owner, Creating, OpPcs, Nothing

(* Steps that neither create nor close.                                      *)
LEMMA OwnedQuiet ==
  ASSUME Owned,
         \A r \in Slots : obj'[r].used = obj[r].used /\ obj'[r].id = obj[r].id,
         UNCHANGED <<table, issued, open>>,
         \A u \in Threads : call[u] \in CallType,
         \A u \in Threads : call'[u].pc \in {"claim", "store", "close"} => call'[u] = call[u],
         \A u \in Threads : call'[u].pc \in OpPcs => OpOK(call'[u])
  PROVE  Owned'
<1>1. \A h \in Handles : OpenOK(h)'
  BY DEF Owned, OpenOK
<1>2. \A g, h \in Handles : (open[g] # Nothing /\ open[h] # Nothing /\ table[g] = table[h]
                               => g = h)'
  BY DEF Owned
<1>3. \A t, u \in Threads : (Creating(t) /\ Creating(u) => t = u)'
  BY DEF Owned, Creating
<1>4. \A s : NotOpen(s)' <=> NotOpen(s)
  BY DEF NotOpen
<1>5. \A t \in Threads : Owner(t)'
  <2> TAKE t \in Threads
  <2>1. CASE call'[t].pc \in {"claim", "store", "close"}
    <3>1. call'[t] = call[t] /\ Owner(t) /\ call[t].s \in Slots
      BY <2>1, CallShape DEF Owned
    <3>2. \A u \in Threads \ {t} :
            call'[u].pc \in {"store", "close"} => call'[u] = call[u]
      OBVIOUS
    <3> QED BY <1>4, <2>1, <3>1, <3>2 DEF Owner, OpPcs
  <2>2. CASE call'[t].pc \notin {"claim", "store", "close"}
    BY <2>2 DEF Owner, OpOK
  <2> QED BY <2>1, <2>2
<1> QED BY <1>1, <1>2, <1>3, <1>5 DEF Owned

(* A thread that looks a handle up acts on the slot the handle names.        *)
LEMMA OwnedStart ==
  ASSUME IInv, Owned, NEW t \in Threads, NEW h \in Handles, NEW kind, NEW c,
         Start(t, h, kind, c), kind \subseteq Slots,
         c.pc \in OpPcs, c.h = h, c.s = Lookup(h)
  PROVE  Owned'
<1>1. Lookup(h) \in Slots /\ h \in 1 .. issued /\ call' = [call EXCEPT ![t] = c]
      /\ UNCHANGED <<obj, table, issued, made, open, raced, misused>>
  BY DEF Start, Issued
<1>2. table[h] = Lookup(h)
  BY <1>1, SlotsAssumption, LookupType DEF Slots, Nothing
<1>3. OpOK(c)
  BY <1>1, <1>2 DEF OpOK
<1>4. call'[t] = c /\ \A u \in Threads : u # t => call'[u] = call[u]
  BY <1>1 DEF IInv, TypeOK
<1>5. \A u \in Threads : call'[u].pc \in OpPcs => OpOK(call'[u])
  BY <1>3, <1>4 DEF Owned, Owner
<1>6. \A u \in Threads : call'[u].pc \in {"claim", "store", "close"} => call'[u] = call[u]
  BY <1>4 DEF OpPcs
<1> QED BY <1>1, <1>5, <1>6, OwnedQuiet DEF IInv, TypeOK

(* A thread that goes on with something else than creating or closing.       *)
LEMMA OwnedMove ==
  ASSUME IInv, Owned, NEW t \in Threads, NEW c, call' = [call EXCEPT ![t] = c],
         c.pc \notin {"claim", "store", "close"}, c.pc \in OpPcs => OpOK(c),
         \A r \in Slots : obj'[r].used = obj[r].used /\ obj'[r].id = obj[r].id,
         UNCHANGED <<table, issued, open>>
  PROVE  Owned'
<1>1. call'[t] = c /\ \A u \in Threads : u # t => call'[u] = call[u]
  BY DEF IInv, TypeOK
<1>2. \A u \in Threads : call'[u].pc \in OpPcs => OpOK(call'[u])
  BY <1>1 DEF Owned, Owner
<1> QED BY <1>1, <1>2, OwnedQuiet DEF IInv, TypeOK

LEMMA OwnedScan ==
  ASSUME IInv, Owned, NEW t \in Threads, NEW kind \in {Events, Sems}, NEW manual,
         NEW n, NEW max, CreateScan(t, kind, manual, n, max), ~ raced'
  PROVE  Owned'
<1>1. PICK s \in kind : /\ ~ obj[s].used
                        /\ call' = [call EXCEPT ![t] =
                             [pc |-> "claim", s |-> s, manual |-> manual,
                              n |-> n, max |-> max, id |-> made + 1]]
  BY DEF CreateScan
<1>2. /\ call[t] = Idle /\ \A u \in Threads \ {t} : ~ Creating(u)
      /\ UNCHANGED <<obj, table, issued, open>>
  BY DEF CreateScan
<1>3. /\ call'[t].pc = "claim" /\ call'[t].s = s
      /\ \A u \in Threads : u # t => call'[u] = call[u]
  BY <1>1 DEF IInv, TypeOK
<1>4. \A h \in Handles : OpenOK(h)'
  BY <1>2 DEF Owned, OpenOK
<1>5. \A g, h \in Handles : (open[g] # Nothing /\ open[h] # Nothing /\ table[g] = table[h]
                               => g = h)'
  BY <1>2 DEF Owned
<1>6. \A u, v \in Threads : (Creating(u) /\ Creating(v) => u = v)'
  BY <1>2, <1>3 DEF Owned, Creating
<1>7. \A u \in Threads : Owner(u)'
  <2> TAKE u \in Threads
  <2>1. CASE u = t
    BY <1>1, <1>2, <1>3, <2>1 DEF Owner, OpPcs
  <2>2. CASE u # t
    <3>1. Owner(u) /\ call'[u] = call[u]
      BY <1>3, <2>2 DEF Owned
    <3>2. \A v \in Threads \ {u} :
            call'[v].pc \in {"store", "close"} => call'[v] = call[v]
      BY <1>3
    <3>3. NotOpen(call[u].s)' <=> NotOpen(call[u].s)
      BY <1>2, <3>1 DEF NotOpen
    <3> QED BY <1>2, <3>1, <3>2, <3>3 DEF Owner, OpOK, NotOpen
  <2> QED BY <2>1, <2>2
<1> QED BY <1>4, <1>5, <1>6, <1>7 DEF Owned

(* The slot that is initialised was free, so no handle names it.             *)
LEMMA OwnedClaim ==
  ASSUME IInv, Owned, NEW t \in Threads, CreateClaim(t)
  PROVE  Owned'
<1> DEFINE c == call[t]
<1>1. /\ c.pc = "claim" /\ c.s \in Slots /\ ~ obj[c.s].used
      /\ \A u \in Threads : u # t => ~ Creating(u)
  BY CallShape DEF CreateClaim, IInv, TypeOK, Owned, Owner, Creating
<1>2. /\ \A r \in Slots : r # c.s => obj'[r] = obj[r]
      /\ obj'[c.s].used
      /\ UNCHANGED <<table, issued, open>>
  BY <1>1 DEF CreateClaim, IInv, TypeOK
<1>3. /\ \/ call'[t].pc = "store" /\ call'[t].s = c.s /\ call'[t].h = issued + 1
         \/ call'[t] = Idle
      /\ \A u \in Threads : u # t => call'[u] = call[u]
  BY DEF CreateClaim, Returns, IInv, TypeOK
<1>4. NotOpen(c.s)
  BY <1>1 DEF Owned, OpenOK, NotOpen
<1>5. \A h \in Handles : OpenOK(h)'
  BY <1>2, <1>4 DEF Owned, OpenOK, NotOpen
<1>6. \A g, h \in Handles : (open[g] # Nothing /\ open[h] # Nothing /\ table[g] = table[h]
                               => g = h)'
  BY <1>2 DEF Owned
<1>7. \A u, v \in Threads : (Creating(u) /\ Creating(v) => u = v)'
  BY <1>1, <1>3, IdleType DEF Creating
<1>8. \A u \in Threads : Owner(u)'
  <2> TAKE u \in Threads
  <2>1. CASE u = t
    BY <1>2, <1>3, <1>4, <2>1, IdleType DEF Owner, OpPcs, NotOpen
  <2>2. CASE u # t
    <3>1. /\ Owner(u) /\ call'[u] = call[u] /\ call[u] \in CallType
          /\ call[u].pc \notin {"claim", "store"}
      BY <1>1, <1>3, <2>2 DEF Owned, Creating, IInv, TypeOK
    <3>2. CASE call[u].pc = "close"
      <4>1. call[u].s \in Slots /\ obj[call[u].s].used /\ call[u].s # c.s
        BY <1>1, <3>1, <3>2, CallShape DEF Owner
      <4>2. \A v \in Threads \ {u} :
              call'[v].pc \in {"store", "close"} => call'[v].s # call[u].s
        BY <1>3, <3>1, <3>2, <4>1, IdleType DEF Owner
      <4> QED BY <1>2, <3>1, <3>2, <4>1, <4>2 DEF Owner, OpPcs, NotOpen
    <3>3. CASE call[u].pc # "close"
      BY <1>2, <3>1, <3>3 DEF Owner, OpOK
    <3> QED BY <3>2, <3>3
  <2> QED BY <2>1, <2>2
<1> QED BY <1>5, <1>6, <1>7, <1>8 DEF Owned

(* The new handle becomes the one open handle of its slot.                   *)
LEMMA OwnedStore ==
  ASSUME IInv, Owned, NEW t \in Threads, CreateStore(t)
  PROVE  Owned'
<1> DEFINE c == call[t]
<1>1. /\ c.pc = "store" /\ c.s \in Slots /\ c.h \in Handles /\ obj[c.s].used
      /\ c.h = issued + 1 /\ NotOpen(c.s) /\ issued \in Nat
      /\ \A u \in Threads : u # t => ~ Creating(u)
  BY CallShape DEF CreateStore, IInv, TypeOK, Owned, Owner, Creating
<1>2. /\ table' = [table EXCEPT ![c.h] = c.s] /\ issued' = issued + 1
      /\ open' = [open EXCEPT ![c.h] = obj[c.s].id]
      /\ call' = [call EXCEPT ![t] = Idle] /\ obj' = obj
  BY <1>1 DEF CreateStore, Returns
<1> HIDE DEF c
<1>3. /\ table'[c.h] = c.s /\ open'[c.h] = obj[c.s].id
      /\ \A h \in Handles : h # c.h => table'[h] = table[h] /\ open'[h] = open[h]
      /\ call'[t] = Idle /\ \A u \in Threads : u # t => call'[u] = call[u]
  BY <1>1, <1>2 DEF IInv, TypeOK
<1>4. open[c.h] = Nothing
  BY <1>1 DEF Owned, OpenOK
<1>5. \A h \in Handles : OpenOK(h)'
  <2> TAKE h \in Handles
  <2>1. CASE h = c.h
    BY <1>1, <1>2, <1>3, <2>1 DEF OpenOK
  <2>2. CASE h # c.h
    <3>1. OpenOK(h)
      BY DEF Owned
    <3> QED BY <1>1, <1>2, <1>3, <2>2, <3>1 DEF OpenOK
  <2> QED BY <2>1, <2>2
<1>6. \A g, h \in Handles : (open[g] # Nothing /\ open[h] # Nothing /\ table[g] = table[h]
                               => g = h)'
  BY <1>1, <1>3 DEF Owned, NotOpen
<1>7. \A u, v \in Threads : (Creating(u) /\ Creating(v) => u = v)'
  BY <1>1, <1>3, IdleType DEF Creating
<1>8. \A u \in Threads : Owner(u)'
  <2> TAKE u \in Threads
  <2>1. CASE u = t
    BY <1>3, <2>1, IdleType DEF Owner, OpPcs
  <2>2. CASE u # t
    <3>1. /\ Owner(u) /\ call'[u] = call[u] /\ call[u] \in CallType
          /\ call[u].pc \notin {"claim", "store"}
      BY <1>1, <1>3, <2>2 DEF Owned, Creating, IInv, TypeOK
    <3>2. CASE call[u].pc = "close"
      <4>1. call[u].s \in Slots /\ obj[call[u].s].used /\ call[u].s # c.s
        BY <1>1, <2>2, <3>1, <3>2, CallShape DEF Owner, c
      <4>2. \A v \in Threads \ {u} :
              call'[v].pc \in {"store", "close"} => call'[v].s # call[u].s
        BY <1>3, <3>1, <3>2, IdleType DEF Owner
      <4>3. NotOpen(call[u].s)'
        BY <1>3, <3>1, <3>2, <4>1 DEF Owner, NotOpen
      <4> QED BY <1>2, <3>1, <3>2, <4>1, <4>2, <4>3 DEF Owner, OpPcs
    <3>3. CASE call[u].pc \in OpPcs
      <4>1. call[u].h \in 1 .. issued /\ OpOK(call[u])
        BY <3>1, <3>3 DEF Owner, OpOK
      <4>2. call[u].h \in Handles
        <5>1. issued \in 0 .. MaxHandles /\ MaxHandles \in Nat
          BY HandlesAssumption DEF IInv, TypeOK
        <5> QED BY <4>1, <5>1 DEF Handles
      <4>3. call[u].h # c.h /\ call[u].h \in 1 .. issued + 1
        BY <1>1, <4>1
      <4> QED BY <1>2, <1>3, <3>1, <3>3, <4>1, <4>2, <4>3 DEF Owner, OpOK, OpPcs
    <3>4. CASE call[u].pc \notin OpPcs \union {"close"}
      BY <3>1, <3>4 DEF Owner
    <3> QED BY <3>2, <3>3, <3>4
  <2> QED BY <2>1, <2>2
<1> QED BY <1>5, <1>6, <1>7, <1>8 DEF Owned

(* The slot of a handle that is closed, once, is nobody else's.              *)
LEMMA OwnedClose ==
  ASSUME IInv, Owned, NEW t \in Threads, NEW h \in Handles, CloseHandle(t, h), ~ misused'
  PROVE  Owned'
<1>1. /\ open[h] # Nothing /\ open' = [open EXCEPT ![h] = Nothing]
      /\ UNCHANGED <<obj, table, issued>> /\ call[t] = Idle
  BY DEF CloseHandle
<1>2. /\ OpenOK(h) /\ h \in 1 .. issued /\ table[h] \in Slots /\ obj[table[h]].used
  BY <1>1 DEF Owned, OpenOK
<1>3. Lookup(h) = table[h] /\ Lookup(h) # Nothing
  BY <1>2, SlotsAssumption DEF Lookup, Slots, Nothing
<1>4. /\ call'[t].pc = "close" /\ call'[t].s = table[h]
      /\ \A u \in Threads : u # t => call'[u] = call[u]
  BY <1>3 DEF CloseHandle, IInv, TypeOK
<1>5. open'[h] = Nothing /\ \A g \in Handles : g # h => open'[g] = open[g]
  BY <1>1 DEF IInv, TypeOK
<1>6. \A g \in Handles : OpenOK(g)'
  BY <1>1, <1>5 DEF Owned, OpenOK
<1>7. \A f, g \in Handles : (open[f] # Nothing /\ open[g] # Nothing /\ table[f] = table[g]
                               => f = g)'
  BY <1>1, <1>5 DEF Owned
<1>8. \A u, v \in Threads : (Creating(u) /\ Creating(v) => u = v)'
  BY <1>4 DEF Owned, Creating
<1>9. \A u \in Threads : u # t /\ call[u].pc \in {"store", "close"} => call[u].s # table[h]
  BY <1>1 DEF Owned, Owner, NotOpen
<1>10. \A u \in Threads : Owner(u)'
  <2> TAKE u \in Threads
  <2>1. CASE u = t
    <3>1. NotOpen(table[h])'
      BY <1>1, <1>5 DEF Owned, NotOpen
    <3>2. \A v \in Threads \ {t} : call'[v].pc \in {"store", "close"} => call'[v].s # table[h]
      BY <1>4, <1>9
    <3> QED BY <1>1, <1>2, <1>4, <2>1, <3>1, <3>2 DEF Owner, OpPcs
  <2>2. CASE u # t
    <3>1. Owner(u) /\ call'[u] = call[u] /\ call[u] \in CallType
      BY <1>4, <2>2 DEF Owned, IInv, TypeOK
    <3>2. NotOpen(call[u].s) => NotOpen(call[u].s)'
      BY <1>1, <1>5, <3>1 DEF NotOpen
    <3>3. CASE call[u].pc = "close"
      <4>1. \A v \in Threads \ {u} :
              call'[v].pc \in {"store", "close"} => call'[v].s # call[u].s
        BY <1>4, <1>9, <3>1, <3>3, <2>2 DEF Owner
      <4> QED BY <1>1, <3>1, <3>2, <3>3, <4>1 DEF Owner, OpPcs
    <3>4. CASE call[u].pc \in OpPcs
      <4>1. call[u].h \in 1 .. issued /\ OpOK(call[u])
        BY <3>1, <3>4 DEF Owner, OpOK
      <4>2. call[u].h \in Handles
        <5>1. issued \in 0 .. MaxHandles /\ MaxHandles \in Nat
          BY HandlesAssumption DEF IInv, TypeOK
        <5> QED BY <4>1, <5>1 DEF Handles
      <4> QED BY <1>1, <1>5, <3>1, <3>4, <4>1, <4>2 DEF Owner, OpOK, OpPcs
    <3>5. CASE call[u].pc \notin OpPcs \union {"close"}
      BY <1>1, <3>1, <3>2, <3>5 DEF Owner
    <3> QED BY <3>3, <3>4, <3>5
  <2> QED BY <2>1, <2>2
<1> QED BY <1>6, <1>7, <1>8, <1>10 DEF Owned

LEMMA OwnedRelease ==
  ASSUME IInv, Owned, NEW t \in Threads, CloseRelease(t)
  PROVE  Owned'
<1> DEFINE s == call[t].s
<1>1. /\ call[t].pc = "close" /\ s \in Slots /\ NotOpen(s)
      /\ \A u \in Threads \ {t} : call[u].pc \in {"store", "close"} => call[u].s # s
  BY CallShape DEF CloseRelease, IInv, TypeOK, Owned, Owner
<1>2. /\ \A r \in Slots : r # s => obj'[r] = obj[r]
      /\ ~ obj'[s].used
      /\ UNCHANGED <<table, issued, open>>
      /\ call'[t] = Idle /\ \A u \in Threads : u # t => call'[u] = call[u]
  BY <1>1 DEF CloseRelease, Returns, IInv, TypeOK
<1> HIDE DEF s
<1>3. \A h \in Handles : OpenOK(h)'
  BY <1>1, <1>2 DEF Owned, OpenOK, NotOpen
<1>4. \A g, h \in Handles : (open[g] # Nothing /\ open[h] # Nothing /\ table[g] = table[h]
                               => g = h)'
  BY <1>2 DEF Owned
<1>5. \A u, v \in Threads : (Creating(u) /\ Creating(v) => u = v)'
  BY <1>2, IdleType DEF Owned, Creating
<1>6. \A u \in Threads : Owner(u)'
  <2> TAKE u \in Threads
  <2>1. CASE u = t
    BY <1>2, <2>1, IdleType DEF Owner, OpPcs
  <2>2. CASE u # t
    <3>1. /\ Owner(u) /\ call'[u] = call[u] /\ call[u] \in CallType
          /\ call[u].pc \in {"claim", "store", "close"} => call[u].s \in Slots
      BY <1>2, <2>2, CallShape DEF Owned, IInv, TypeOK
    <3>2. NotOpen(call[u].s)' <=> NotOpen(call[u].s)
      BY <1>2, <3>1 DEF NotOpen
    <3>3. CASE call[u].pc = "close"
      <4>1. \A v \in Threads \ {u} :
              call'[v].pc \in {"store", "close"} => call'[v].s # call[u].s
        BY <1>2, <3>1, <3>3, IdleType DEF Owner
      <4> QED BY <1>1, <1>2, <2>2, <3>1, <3>2, <3>3, <4>1 DEF Owner, OpPcs
    <3>4. CASE call[u].pc # "close"
      BY <1>1, <1>2, <2>2, <3>1, <3>2, <3>4 DEF Owner, OpOK
    <3> QED BY <3>3, <3>4
  <2> QED BY <2>1, <2>2
<1> QED BY <1>3, <1>4, <1>5, <1>6 DEF Owned

LEMMA NextOwned == IInv /\ OwnedInv /\ [Next]_vars => OwnedInv'
<1> SUFFICES ASSUME IInv, OwnedInv, [Next]_vars, ~ raced', ~ misused'
             PROVE  Owned'
  BY DEF OwnedInv
<1>a. ~ raced /\ ~ misused
  <2>1. CASE vars' = vars
    BY <2>1 DEF vars
  <2>2. CASE Next
    <3>1. \A t \in Threads : Step(t) \/ SpuriousWakeup(t) => UNCHANGED <<raced, misused>>
      BY DEF Step, CreateClaim, CreateStore, CloseRelease, EventSet, EventReset, SemRelease,
             Store, WaitBegins, WaiterResumes, WaiterTimesOut, SpuriousWakeup, MultiLookup,
             MultiPoll, MultiAgain
    <3>2. \A t \in Threads, kind \in {Events, Sems} : \A manual, n, max :
            CreateScan(t, kind, manual, n, max) => (raced => raced') /\ UNCHANGED misused
      BY DEF CreateScan
    <3>3. \A t \in Threads, h \in Handles :
            CloseHandle(t, h) => UNCHANGED raced /\ (misused => misused')
      BY DEF CloseHandle
    <3>4. \A t \in Threads :
            (CreateEvent(t) \/ CreateSemaphore(t)) => (raced => raced') /\ UNCHANGED misused
      BY <3>2 DEF CreateEvent, CreateSemaphore
    <3>5. \A t \in Threads, h \in Handles :
            SetEvent(t, h) \/ ResetEvent(t, h) => UNCHANGED <<raced, misused>>
      BY DEF SetEvent, ResetEvent, Start
    <3>6. \A t \in Threads, h \in Handles, k \in Counts :
            ReleaseSemaphore(t, h, k) => UNCHANGED <<raced, misused>>
      BY DEF ReleaseSemaphore, Start
    <3>7. \A t \in Threads, h \in Handles, ms \in Timeouts :
            WaitForSingleObject(t, h, ms) => UNCHANGED <<raced, misused>>
      BY DEF WaitForSingleObject, Start
    <3>8. \A t \in Threads, w \in MultiWaits :
            WaitForMultipleObjects(t, w) => UNCHANGED <<raced, misused>>
      BY DEF WaitForMultipleObjects
    <3>9. PICK t \in Threads : Step(t) \/ Call(t) \/ SpuriousWakeup(t)
      BY <2>2 DEF Next
    <3> QED BY <3>1, <3>3, <3>4, <3>5, <3>6, <3>7, <3>8, <3>9 DEF Call
  <2> QED BY <2>1, <2>2
<1>b. Owned
  BY <1>a DEF OwnedInv
<1>c. \A t \in Threads : call[t] \in CallType /\ (call[t].pc \in OpPcs => OpOK(call[t]))
  BY <1>b DEF IInv, TypeOK, Owned, Owner
<1>d. Idle.pc \notin {"claim", "store", "close"} /\ Idle.pc \notin OpPcs
  BY IdleType DEF OpPcs
<1>e. \A s \in Slots : obj[s] \in SlotType
  BY DEF IInv, TypeOK
<1>1. CASE vars' = vars
  <2>1. UNCHANGED <<obj, table, issued, call, made, open, raced, misused>>
    BY <1>1 DEF vars
  <2> QED BY <1>b, <1>c, <2>1, OwnedQuiet
<1>2. ASSUME NEW t \in Threads, CreateEvent(t) PROVE Owned'
  <2>1. PICK manual \in BOOLEAN, n \in Inits \cap {0, 1} : CreateScan(t, Events, manual, n, 1)
    BY <1>2 DEF CreateEvent
  <2> QED BY <1>b, <2>1, OwnedScan
<1>3. ASSUME NEW t \in Threads, CreateSemaphore(t) PROVE Owned'
  <2>2. PICK max \in Maxes, n \in Inits : CreateScan(t, Sems, FALSE, n, max)
    BY <1>3 DEF CreateSemaphore
  <2> QED BY <1>b, <2>2, OwnedScan
<1>4. ASSUME NEW t \in Threads, CreateClaim(t) PROVE Owned'
  BY <1>b, <1>4, OwnedClaim
<1>5. ASSUME NEW t \in Threads, CreateStore(t) PROVE Owned'
  BY <1>b, <1>5, OwnedStore
<1>6. ASSUME NEW t \in Threads, NEW h \in Handles, CloseHandle(t, h) PROVE Owned'
  BY <1>b, <1>6, OwnedClose
<1>7. ASSUME NEW t \in Threads, CloseRelease(t) PROVE Owned'
  BY <1>b, <1>7, OwnedRelease
<1>8. ASSUME NEW t \in Threads, NEW h \in Handles, SetEvent(t, h) \/ ResetEvent(t, h)
      PROVE  Owned'
  BY <1>b, <1>8, KindsAreSlots, OwnedStart DEF SetEvent, ResetEvent, OpPcs
<1>9. ASSUME NEW t \in Threads, NEW h \in Handles, NEW k \in Counts, ReleaseSemaphore(t, h, k)
      PROVE  Owned'
  BY <1>b, <1>9, KindsAreSlots, OwnedStart DEF ReleaseSemaphore, OpPcs
<1>10. ASSUME NEW t \in Threads, NEW h \in Handles, NEW ms \in Timeouts,
              WaitForSingleObject(t, h, ms)
       PROVE  Owned'
  BY <1>b, <1>10, OwnedStart DEF WaitForSingleObject, OpPcs
<1>11. ASSUME NEW t \in Threads, EventSet(t) \/ EventReset(t) \/ SemRelease(t) PROVE Owned'
  <2>1. call[t].s \in Slots /\ call[t].pc \in {"set", "reset", "release"}
    BY <1>11, <1>c, CallShape DEF EventSet, EventReset, SemRelease
  <2>2. PICK o, wake : /\ Store(t, o, wake)
                       /\ o.used = obj[call[t].s].used /\ o.id = obj[call[t].s].id
    <3> DEFINE o == obj[call[t].s]
               p == WithCount(o, 1)
               q == WithCount(o, 0)
               r == Released(o, call[t].k)
    <3>1. p.used = o.used /\ p.id = o.id /\ q.used = o.used /\ q.id = o.id
      BY DEF WithCount
    <3>2. r.used = o.used /\ r.id = o.id
      BY DEF Released
    <3>3. Store(t, p, TRUE) \/ Store(t, q, FALSE) \/ Store(t, r, r.n # o.n)
      BY <1>11 DEF EventSet, EventReset, SemRelease
    <3> HIDE DEF p, q, r, o
    <3>4. \E x, wake : Store(t, x, wake) /\ x.used = o.used /\ x.id = o.id
      BY <3>1, <3>2, <3>3
    <3> QED BY <3>4 DEF o
  <2>3. \A r \in Slots : obj'[r].used = obj[r].used /\ obj'[r].id = obj[r].id
    BY <1>e, <2>1, <2>2 DEF Store, IInv, TypeOK
  <2> DEFINE c == [call EXCEPT ![t] = Idle]
  <2>4. c[t] = Idle /\ \A u \in Threads : u # t => c[u] = call[u]
    BY DEF IInv, TypeOK
  <2>5. call' = c \/ call' = Broadcast(call[t].s, c)
    BY <2>2 DEF Store
  <2> HIDE DEF c
  <2>6. \A u \in Threads : \/ call'[u] = call[u] \/ call'[u] = Idle
                           \/ /\ call'[u] = [call[u] EXCEPT !.pc = "awake"]
                              /\ call[u].pc = "asleep"
    BY <2>1, <2>4, <2>5 DEF Broadcast, Asleep
  <2>7. \A u \in Threads : call[u].pc = "asleep" =>
          LET w == [call[u] EXCEPT !.pc = "awake"] IN
          w.pc = "awake" /\ w.h = call[u].h /\ w.s = call[u].s
    <3> TAKE u \in Threads
    <3>1. call[u].pc = "asleep" =>
            call[u] \in [pc : {"asleep", "awake"}, s : Slots, h : Handles, ms : Timeouts,
                         cv : 0 .. MaxMade]
      BY <1>c, CallShape
    <3> QED BY <3>1
  <2>8. \A u \in Threads : call'[u].pc \in OpPcs => OpOK(call'[u])
    <3> TAKE u \in Threads
    <3>1. CASE call'[u] = call[u]
      BY <1>c, <3>1
    <3>2. CASE call'[u] = Idle
      BY <1>d, <3>2
    <3>3. CASE call'[u] = [call[u] EXCEPT !.pc = "awake"] /\ call[u].pc = "asleep"
      <4>1. call'[u].h = call[u].h /\ call'[u].s = call[u].s
        BY <2>7, <3>3
      <4>2. OpOK(call[u])
        BY <1>c, <3>3 DEF OpPcs
      <4> QED BY <4>1, <4>2 DEF OpOK
    <3> QED BY <2>6, <3>1, <3>2, <3>3
  <2>9. \A u \in Threads : call'[u].pc \in {"claim", "store", "close"} => call'[u] = call[u]
    BY <1>d, <2>6, <2>7
  <2>10. UNCHANGED <<table, issued, open>>
    BY <2>2 DEF Store
  <2> QED BY <1>b, <1>c, <2>3, <2>8, <2>9, <2>10, OwnedQuiet
<1>12. ASSUME NEW t \in Threads, WaitBegins(t) \/ WaiterResumes(t) PROVE Owned'
  <2>1. call[t].s \in Slots /\ call[t].pc \in {"wait", "awake"}
    BY <1>12, <1>c, CallShape DEF WaitBegins, WaiterResumes
  <2>2. UNCHANGED <<table, issued, open>>
    BY <1>12 DEF WaitBegins, WaiterResumes
  <2>3. CASE obj[call[t].s].n > 0 /\ Take(t, call[t].s)
    <3>1. \A r \in Slots : obj'[r].used = obj[r].used /\ obj'[r].id = obj[r].id
      BY <1>e, <2>1, <2>3, TakenType DEF Take, IInv, TypeOK
    <3>2. call' = [call EXCEPT ![t] = Idle]
      BY <2>3 DEF Take, Returns
    <3> QED BY <1>b, <1>d, <2>2, <3>1, <3>2, OwnedMove
  <2>4. CASE Sleep(t, "asleep") /\ UNCHANGED obj
    <3> DEFINE c == [pc |-> "asleep", s |-> call[t].s, h |-> call[t].h, ms |-> call[t].ms,
                     cv |-> obj[call[t].s].id]
    <3>1. call' = [call EXCEPT ![t] = c]
      BY <2>4 DEF Sleep
    <3>2. OpOK(c) /\ c.pc = "asleep"
      BY <1>c, <2>1 DEF OpOK, OpPcs
    <3> HIDE DEF c
    <3> QED BY <1>b, <2>2, <2>4, <3>1, <3>2, OwnedMove
  <2>5. CASE Returns(t) /\ UNCHANGED obj
    BY <1>b, <1>d, <2>2, <2>5, OwnedMove DEF Returns
  <2> QED BY <1>12, <2>3, <2>4, <2>5 DEF WaitBegins, WaiterResumes
<1>13. ASSUME NEW t \in Threads, WaiterTimesOut(t) PROVE Owned'
  BY <1>b, <1>d, <1>13, OwnedMove DEF WaiterTimesOut, Returns
<1>14. ASSUME NEW t \in Threads, SpuriousWakeup(t) PROVE Owned'
  <2> DEFINE c == [call[t] EXCEPT !.pc = "awake"]
  <2>1. call[t] \in [pc : {"asleep", "awake"}, s : Slots, h : Handles, ms : Timeouts,
                     cv : 0 .. MaxMade] /\ call[t].pc = "asleep"
    BY <1>14, <1>c, CallShape DEF SpuriousWakeup
  <2>2. c.pc = "awake" /\ c.h = call[t].h /\ c.s = call[t].s
    BY <2>1
  <2>3. OpOK(c)
    BY <1>c, <2>1, <2>2 DEF OpOK, OpPcs
  <2>4. call' = [call EXCEPT ![t] = c] /\ UNCHANGED <<obj, table, issued, open>>
    BY <1>14 DEF SpuriousWakeup
  <2> HIDE DEF c
  <2> QED BY <1>b, <2>2, <2>3, <2>4, OwnedMove
<1>15. ASSUME NEW t \in Threads,
              \/ \E w \in MultiWaits : WaitForMultipleObjects(t, w)
              \/ MultiLookup(t) \/ MultiPoll(t) \/ MultiAgain(t)
       PROVE  Owned'
  <2>1. UNCHANGED <<table, issued, open>>
    BY <1>15 DEF WaitForMultipleObjects, MultiLookup, MultiPoll, MultiAgain
  <2>2. PICK c : call' = [call EXCEPT ![t] = c] /\ c.pc \in {"idle", "look", "nap", "poll"}
    <3>1. \A p : NextHandle(t, p) =>
            \E c : call' = [call EXCEPT ![t] = c] /\ c.pc \in {"idle", "look", "nap", "poll"}
      BY IdleType DEF NextHandle, Round, Returns
    <3>2. Returns(t) =>
            \E c : call' = [call EXCEPT ![t] = c] /\ c.pc \in {"idle", "look", "nap", "poll"}
      BY IdleType DEF Returns
    <3>3. ASSUME NEW w, WaitForMultipleObjects(t, w)
          PROVE \E c : call' = [call EXCEPT ![t] = c] /\ c.pc \in {"idle", "look", "nap", "poll"}
      <4> DEFINE c == Round("look", w.hs, 1, w.all, w.ms, FALSE)
      <4>1. c.pc = "look"
        BY DEF Round
      <4>2. call' = [call EXCEPT ![t] = c]
        BY <3>3 DEF WaitForMultipleObjects
      <4> HIDE DEF c
      <4> QED BY <4>1, <4>2
    <3>4. CASE MultiLookup(t)
      <4> DEFINE s == Lookup(call[t].hs[call[t].i])
                 c == [pc |-> "poll", hs |-> call[t].hs, i |-> call[t].i, all |-> call[t].all,
                       ms |-> call[t].ms, pending |-> call[t].pending, s |-> s]
      <4>1. NextHandle(t, call[t].pending) \/ call' = [call EXCEPT ![t] = c]
        BY <3>4 DEF MultiLookup
      <4>2. c.pc = "poll"
        OBVIOUS
      <4> HIDE DEF c
      <4> QED BY <3>1, <4>1, <4>2
    <3>5. CASE MultiPoll(t)
      <4>1. NextHandle(t, call[t].pending) \/ NextHandle(t, TRUE) \/ Returns(t)
        BY <3>5 DEF MultiPoll
      <4> QED BY <3>1, <3>2, <4>1
    <3>6. CASE MultiAgain(t)
      <4> DEFINE c == Round("look", call[t].hs, 1, call[t].all, call[t].ms, FALSE)
      <4>1. c.pc = "look"
        BY DEF Round
      <4>2. call' = [call EXCEPT ![t] = c] \/ Returns(t)
        BY <3>6 DEF MultiAgain
      <4> HIDE DEF c
      <4> QED BY <3>2, <4>1, <4>2
    <3> QED BY <1>15, <3>3, <3>4, <3>5, <3>6
  <2>3. \A r \in Slots : obj'[r].used = obj[r].used /\ obj'[r].id = obj[r].id
    <3>1. CASE MultiPoll(t) /\ obj[call[t].s].n > 0
      <4>1. call[t].s \in Slots
        BY <1>c, <3>1, CallShape DEF MultiPoll
      <4>2. obj' = [obj EXCEPT ![call[t].s] = Taken(obj[call[t].s])]
        BY <3>1 DEF MultiPoll
      <4> QED BY <1>e, <3>1, <4>1, <4>2, TakenType DEF IInv, TypeOK
    <3>2. CASE obj' = obj
      BY <3>2
    <3> QED BY <1>15, <3>1, <3>2 DEF WaitForMultipleObjects, MultiLookup, MultiPoll, MultiAgain
  <2> QED BY <1>b, <2>1, <2>2, <2>3, OwnedMove DEF OpPcs
<1> QED
  BY <1>1, <1>2, <1>3, <1>4, <1>5, <1>6, <1>7, <1>8, <1>9, <1>10, <1>11, <1>12, <1>13,
     <1>14, <1>15 DEF Next, Step, Call

LEMMA OwnedAlways == Spec => [](IInv /\ OwnedInv)
BY InitInv, InitOwned, NextInv, NextOwned, PTL DEF Spec

(* A handle that is open names the object it was issued for, however often   *)
(* slots were recycled, unless creates overlapped or a handle was closed     *)
(* twice.                                                                    *)
THEOREM HandlesStayValid == Spec => []OpenHandlesNameTheirObject
<1>1. IInv /\ OwnedInv => OpenHandlesNameTheirObject
  BY SlotsAssumption DEF OwnedInv, Owned, OpenOK, OpenHandlesNameTheirObject, Lookup, Slots,
                         Nothing
<1> QED BY <1>1, OwnedAlways, PTL

(* A call acts on the object its handle names, however long it took from the *)
(* lookup to the mutex, under the same conditions.                           *)
THEOREM PointersStayValid == Spec => []CallsReachTheirObject
<1>1. IInv /\ OwnedInv => CallsReachTheirObject
  <2> SUFFICES ASSUME IInv, Owned, NEW t \in Threads, call[t].pc \in OpPcs,
                      open[call[t].h] # Nothing
               PROVE  obj[call[t].s].used /\ obj[call[t].s].id = open[call[t].h]
    BY DEF OwnedInv, CallsReachTheirObject, OpPcs
  <2>1. call[t].h \in 1 .. issued /\ table[call[t].h] = call[t].s
    BY DEF Owned, Owner, OpOK
  <2>2. issued \in 0 .. MaxHandles /\ MaxHandles \in Nat
    BY HandlesAssumption DEF IInv, TypeOK
  <2>3. call[t].h \in Handles
    BY <2>1, <2>2 DEF Handles
  <2> QED BY <2>1, <2>3 DEF Owned, OpenOK
<1> QED BY <1>1, OwnedAlways, PTL
=============================================================================
