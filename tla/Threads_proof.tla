---------------------------- MODULE Threads_proof ----------------------------
(***************************************************************************)
(* Proofs about Threads for every number of threads, slots, queues and     *)
(* handles: living threads own their slots, joins learn how a thread ended *)
(* and are never early, and messages arrive in order.                      *)
(***************************************************************************)
EXTENDS Threads, FiniteSetTheorems, SequenceTheorems, TLAPS

(* What the program counter of a call says of its locals.                    *)
LEMMA CallShape ==
  ASSUME NEW c \in CallType
  PROVE  /\ c.pc = "idle" => c = Idle
         /\ c.pc \in {"mint", "prefill", "free"} => c \in [pc : {"mint", "prefill", "free"}, s : Slots]
         /\ c.pc \in {"queue", "spawn"} => c \in [pc : {"queue", "spawn"}, s : Slots, i : Tids]
         /\ c.pc = "handle" => c \in [pc : {"handle"}, s : Slots, i : Tids \union {Child}]
         /\ c.pc = "find" => c \in [pc : {"find"}, h : Handles, timed : BOOLEAN]
         /\ c.pc \in {"wait", "asleep", "awake"} =>
              c \in [pc : {"wait", "asleep", "awake"}, h : Handles, timed : BOOLEAN, s : Slots]
         /\ c.pc = "reap" => c \in [pc : {"reap"}, h : Handles]
BY DEF CallType, Idle

LEMMA IdleType == Idle \in CallType /\ Idle.pc = "idle"
BY DEF CallType, Idle

-----------------------------------------------------------------------------
(* The inductive invariant.  A slot that is in use has at most one holder:   *)
(* an open handle, or a call that is creating the thread in it, issuing its  *)
(* handle or giving it back.                                                 *)

Creating == {"mint", "queue", "spawn"}

SlotIn(c, tab) ==
  CASE c.pc \in Creating \union {"handle", "free"} -> c.s
    [] c.pc = "reap" -> tab[c.h]
    [] OTHER -> Nothing

SlotOf(a) == SlotIn(call[a], table)

(* What is true whatever guests do: only threads that run make calls; no two *)
(* calls create a thread of the same id; a thread that has begun has a slot  *)
(* and an id that was minted; handles are issued in order; a wait looks at   *)
(* the slot of its handle.                                                   *)
AlwaysOK ==
  /\ \A a \in Actors : /\ call[a].pc # "idle" /\ a # 0 => host[a].pc = "run"
                       /\ call[a].pc \in {"park", "drain", "pump"} => a # 0
                       /\ call[a].pc \in {"queue", "spawn"} =>
                            /\ call[a].i <= minted /\ host[call[a].i].pc = "unborn"
                            /\ \A b \in Actors \ {a} :
                                 call[b].pc \in {"queue", "spawn"} => call[b].i # call[a].i
                       /\ call[a].pc \in {"find", "reap"} => table[call[a].h] # Nothing
                       /\ call[a].pc \in {"wait", "asleep", "awake"} => table[call[a].h] = call[a].s
  /\ \A i \in Tids : /\ Living(i) => host[i].self # Nothing
                     /\ host[i].pc # "unborn" => i <= minted
                     /\ host[i].pc = "boot" => host[i].code = 0
  /\ \A h \in Handles : /\ table[h] # Nothing => h <= issued
                        /\ open[h] # Nothing => table[h] # Nothing

HoldersOK ==
  /\ \A a \in Actors : SlotOf(a) # Nothing =>
       /\ slot[SlotOf(a)].used
       /\ \A b \in Actors \ {a} : SlotOf(b) # SlotOf(a)
  /\ \A h \in Handles : open[h] # Nothing =>
       /\ slot[table[h]].used
       /\ \A g \in Handles \ {h} : open[g] # Nothing => table[g] # table[h]
       /\ \A a \in Actors : SlotOf(a) # table[h]
  /\ \A a \in Actors : call[a].pc = "prefill" =>
       /\ ~ slot[call[a].s].used
       /\ \A b \in Actors \ {a} : call[b].pc # "prefill"

(* What the calls that create a thread have put in its slot so far.          *)
CreatingOK ==
  /\ \A a \in Actors : call[a].pc \in Creating =>
       ~ slot[call[a].s].done /\ slot[call[a].s].code = 0
  /\ \A a \in Actors : call[a].pc = "mint" => \A i \in Tids : Living(i) => host[i].self # call[a].s
  /\ \A a \in Actors : call[a].pc \in {"queue", "spawn"} =>
       slot[call[a].s].tid = call[a].i
  /\ \A a \in Actors : call[a].pc = "free" => slot[call[a].s].done

(* Slot s tells how thread i is doing.                                       *)
Tells(s, i) ==
  /\ slot[s].done <=> Ended(i)
  /\ i \in Tids => /\ slot[s].tid = i /\ slot[s].code = host[i].code
                   /\ host[i].pc # "unborn" /\ (Living(i) => host[i].self = s)
  /\ i = Child => slot[s].code = 0

StatusOK ==
  /\ \A h \in Handles : open[h] # Nothing => Tells(table[h], open[h])
  /\ \A a \in Actors : call[a].pc = "handle" => Tells(call[a].s, call[a].i)

LivingOK ==
  \A i \in Tids : Living(i) =>
    /\ slot[host[i].self].used /\ ~ slot[host[i].self].done
    /\ slot[host[i].self].tid = i
    /\ host[i].pc = "run" => host[i].id = i

JoinsOK ==
  \A a \in Actors : call[a].pc = "asleep" /\ open[call[a].h] # Nothing => ~ slot[call[a].s].done

QueuesOK ==
  /\ \A q, r \in Queues : queue[q].used /\ queue[r].used /\ queue[q].tid = queue[r].tid => q = r
  /\ \A i \in Tids :
       \/ \E q \in Queues : /\ queue[q].used /\ queue[q].tid = i
                            /\ posted[i] = got[i] \o queue[q].msgs
       \/ ~ HasQueue(i) /\ posted[i] = <<>> /\ got[i] = <<>>

Orderly == HoldersOK /\ CreatingOK /\ StatusOK /\ LivingOK /\ JoinsOK /\ QueuesOK

IInv == TypeOK /\ AlwaysOK /\ (overlapped \/ misused \/ Orderly)

-----------------------------------------------------------------------------
(* The helpers.                                                              *)

LEMMA SlotInIs ==
  ASSUME NEW c, NEW tab
  PROVE  /\ c.pc \in Creating \union {"handle", "free"} => SlotIn(c, tab) = c.s
         /\ c.pc = "reap" => SlotIn(c, tab) = tab[c.h]
         /\ c.pc \notin Creating \union {"handle", "free", "reap"} => SlotIn(c, tab) = Nothing
BY DEF SlotIn, Creating

(* The calls that the actions enter are calls.                               *)
LEMMA NewCalls ==
  /\ \A s \in Slots : /\ [pc |-> "mint", s |-> s] \in CallType
                      /\ [pc |-> "prefill", s |-> s] \in CallType
                      /\ [pc |-> "free", s |-> s] \in CallType
                      /\ [pc |-> "handle", s |-> s, i |-> Child] \in CallType
  /\ \A s \in Slots, i \in Tids : /\ [pc |-> "queue", s |-> s, i |-> i] \in CallType
                                  /\ [pc |-> "spawn", s |-> s, i |-> i] \in CallType
                                  /\ [pc |-> "handle", s |-> s, i |-> i] \in CallType
  /\ \A h \in Handles : /\ [pc |-> "reap", h |-> h] \in CallType
                        /\ \A b \in BOOLEAN : [pc |-> "find", h |-> h, timed |-> b] \in CallType
  /\ \A h \in Handles, b \in BOOLEAN, s \in Slots :
       /\ [pc |-> "wait", h |-> h, timed |-> b, s |-> s] \in CallType
       /\ [pc |-> "asleep", h |-> h, timed |-> b, s |-> s] \in CallType
       /\ [pc |-> "awake", h |-> h, timed |-> b, s |-> s] \in CallType
  /\ [pc |-> "park"] \in CallType /\ [pc |-> "drain"] \in CallType
  /\ [pc |-> "pump"] \in CallType
BY DEF CallType

LEMMA Entered ==
  ASSUME call \in [Actors -> CallType], NEW a \in Actors, NEW c \in CallType, Enters(a, c)
  PROVE  /\ call' \in [Actors -> CallType]
         /\ call'[a] = c
         /\ \A b \in Actors \ {a} : call'[b] = call[b]
BY DEF Enters

LEMMA Wakes ==
  ASSUME NEW c \in CallType, c.pc = "asleep"
  PROVE  /\ [c EXCEPT !.pc = "awake"] \in CallType
         /\ [c EXCEPT !.pc = "awake"] = [pc |-> "awake", h |-> c.h, timed |-> c.timed, s |-> c.s]
<1>1. c \in [pc : {"wait", "asleep", "awake"}, h : Handles, timed : BOOLEAN, s : Slots]
  BY CallShape
<1>3. c.h \in Handles /\ c.timed \in BOOLEAN /\ c.s \in Slots
  BY <1>1
<1>2. [c EXCEPT !.pc = "awake"] = [pc |-> "awake", h |-> c.h, timed |-> c.timed, s |-> c.s]
  BY <1>1
<1>4. [pc |-> "awake", h |-> c.h, timed |-> c.timed, s |-> c.s] \in CallType
  BY <1>3, NewCalls, Zenon
<1> QED BY <1>2, <1>4, Zenon

LEMMA Broadcasts ==
  ASSUME call \in [Actors -> CallType], Broadcast
  PROVE  /\ call' \in [Actors -> CallType]
         /\ \A a \in Actors : /\ call[a].pc # "asleep" => call'[a] = call[a]
                              /\ call[a].pc = "asleep" => call'[a] = [pc |-> "awake", h |-> call[a].h,
                                        timed |-> call[a].timed, s |-> call[a].s]
                              /\ call'[a].pc # "asleep"
<1> DEFINE W(a) == IF call[a].pc = "asleep" THEN [call[a] EXCEPT !.pc = "awake"] ELSE call[a]
<1>1. call' = [a \in Actors |-> W(a)]
  BY DEF Broadcast
<1>2. \A a \in Actors : /\ W(a) \in CallType
                        /\ call[a].pc = "asleep" => W(a) = [pc |-> "awake", h |-> call[a].h,
                              timed |-> call[a].timed, s |-> call[a].s]
  BY Wakes
<1>3. \A a \in Actors : call'[a] = W(a)
  BY <1>1
<1> HIDE DEF W
<1>4. call' \in [Actors -> CallType]
  BY <1>1, <1>2
<1>5. \A a \in Actors : /\ call[a].pc # "asleep" => W(a) = call[a]
                        /\ W(a).pc # "asleep"
  BY <1>2 DEF W
<1> QED BY <1>2, <1>3, <1>4, <1>5

(* The posts are counted by a number.                                        *)
LEMMA PostsIsNat == TypeOK => Posts \in Nat
<1> DEFINE P == {p \in Tids \X (1 .. MaxPosts) : p[2] <= Len(posted[p[1]])}
<1>1. IsFiniteSet(Tids) /\ IsFiniteSet(1 .. MaxPosts)
  BY FS_Interval, SizesAssumption DEF Tids
<1>2. IsFiniteSet(Tids \X (1 .. MaxPosts))
  BY <1>1, FS_Product
<1>3. P \subseteq Tids \X (1 .. MaxPosts)
  OBVIOUS
<1>4. IsFiniteSet(P)
  BY <1>2, <1>3, FS_Subset
<1> QED BY <1>4, FS_CardinalityType DEF Posts

LEMMA PostedLast ==
  ASSUME NEW g \in Seq(Nat), NEW m \in Seq(Nat), NEW n \in Nat
  PROVE  Append(g \o m, n) = g \o Append(m, n)
<1>1. Append(g \o m, n) = (g \o m) \o <<n>> /\ Append(m, n) = m \o <<n>>
  BY ConcatProperties, AppendIsConcat
<1>2. <<n>> \in Seq(Nat)
  OBVIOUS
<1> QED BY <1>1, <1>2, ConcatAssociative

LEMMA GotFirst ==
  ASSUME NEW g \in Seq(Nat), NEW m \in Seq(Nat), m # <<>>
  PROVE  g \o m = Append(g, Head(m)) \o Tail(m)
<1>1. Head(m) \in Nat /\ Tail(m) \in Seq(Nat) /\ <<Head(m)>> \in Seq(Nat)
  BY HeadTailProperties
<1>2. m = <<Head(m)>> \o Tail(m)
  <2>1. Len(m) \in Nat \ {0}
    BY EmptySeq
  <2>2. <<Head(m)>> \o Tail(m) \in Seq(Nat) /\ Len(<<Head(m)>> \o Tail(m)) = Len(m)
    BY <1>1, <2>1, ConcatProperties, HeadTailProperties
  <2>3. \A k \in 1 .. Len(m) : m[k] = (<<Head(m)>> \o Tail(m))[k]
    BY <1>1, <2>1, ConcatProperties, HeadTailProperties
  <2> QED BY <2>2, <2>3, SeqEqual
<1>3. Append(g, Head(m)) = g \o <<Head(m)>>
  BY <1>1, AppendIsConcat
<1>4. (g \o <<Head(m)>>) \o Tail(m) = g \o (<<Head(m)>> \o Tail(m))
  BY <1>1, ConcatAssociative
<1> QED BY <1>2, <1>3, <1>4

-----------------------------------------------------------------------------
LEMMA InitInv == Init => IInv
<1> SUFFICES ASSUME Init PROVE IInv
  OBVIOUS
<1>1. \A a \in Actors : call[a] = Idle /\ SlotOf(a) = Nothing
  BY IdleType, SlotInIs DEF Init, SlotOf, Creating
<1>2. TypeOK
  <2>1. slot \in [Slots -> [used : BOOLEAN, done : BOOLEAN, code : Nat, tid : 0 .. MaxTids]]
    BY SizesAssumption DEF Init, FreeSlot
  <2>2. host \in [Tids -> [pc : {"unborn", "boot", "run", "ended"}, self : 0 .. NSlots,
                           id : 0 .. MaxTids, code : Nat]]
    BY SizesAssumption DEF Init, Nothing
  <2>3. queue \in [Queues -> [used : BOOLEAN, tid : 0 .. MaxTids, msgs : Seq(Nat)]]
    BY SizesAssumption DEF Init
  <2>4. \A q \in Queues : Len(queue[q].msgs) <= QueueCap
    BY SizesAssumption, EmptySeq DEF Init
  <2>5. call \in [Actors -> CallType] /\ posted \in [Tids -> Seq(Nat)] /\ got \in [Tids -> Seq(Nat)]
    BY IdleType, EmptySeq DEF Init
  <2>6. minted \in 0 .. MaxTids /\ issued \in 0 .. MaxHandles
    BY SizesAssumption DEF Init
  <2>7. table \in [Handles -> 0 .. NSlots] /\ open \in [Handles -> 0 .. MaxTids + 1]
    BY SizesAssumption DEF Init, Nothing
  <2>8. quit \in BOOLEAN /\ gui \in BOOLEAN /\ overlapped \in BOOLEAN /\ misused \in BOOLEAN
    BY ModesAssumption DEF Init
  <2> QED BY <2>1, <2>2, <2>3, <2>4, <2>5, <2>6, <2>7, <2>8, Zenon DEF TypeOK
<1>3. AlwaysOK
  BY <1>1, IdleType DEF Init, AlwaysOK, Living, Nothing
<1>4. HoldersOK
  BY <1>1, IdleType DEF Init, HoldersOK, Nothing
<1>5. CreatingOK
  BY <1>1, IdleType DEF Init, CreatingOK, Creating
<1>6. StatusOK /\ LivingOK /\ JoinsOK
  BY <1>1, IdleType DEF Init, StatusOK, LivingOK, JoinsOK, Living, Nothing
<1>7. QueuesOK
  BY DEF Init, QueuesOK, HasQueue
<1> QED BY <1>2, <1>3, <1>4, <1>5, <1>6, <1>7 DEF IInv, Orderly

-----------------------------------------------------------------------------
(* The steps that change nothing but the call of one actor: it starts or     *)
(* tests a wait, gives up, waits for messages, or turns from the handle it   *)
(* closes to the slot behind it.                                             *)

LEMMA OnlyTheCall ==
  ASSUME IInv, NEW a \in Actors, NEW c \in CallType, Enters(a, c),
         UNCHANGED <<slot, minted, host, table, issued, open, history>>,
         UNCHANGED messaging \/ (UNCHANGED <<queue, gui, posted, got>> /\ quit' = TRUE),
         c.pc \in {"idle", "find", "wait", "asleep", "awake", "free", "park", "drain", "pump"},
         c.pc # "idle" /\ a # 0 => host[a].pc = "run",
         c.pc \in {"park", "drain", "pump"} => a # 0,
         c.pc = "find" => table[c.h] # Nothing,
         c.pc \in {"wait", "asleep", "awake"} => table[c.h] = c.s,
         c.pc = "asleep" => ~ slot[c.s].done,
         c.pc = "free" => call[a].pc = "reap" /\ c.s = table[call[a].h] /\ slot[c.s].done
  PROVE  IInv'
<1>1. /\ call' \in [Actors -> CallType]
      /\ call'[a] = c
      /\ \A b \in Actors \ {a} : call'[b] = call[b]
  BY Entered DEF IInv, TypeOK
<1>2. TypeOK'
  BY <1>1 DEF IInv, TypeOK, messaging, history
<1>3. AlwaysOK'
  BY <1>1 DEF IInv, AlwaysOK, messaging, history, Living
<1>4. ASSUME Orderly
      PROVE  Orderly'
  <2>1. /\ SlotOf(a)' \in {Nothing, SlotOf(a)}
        /\ \A b \in Actors \ {a} : SlotOf(b)' = SlotOf(b)
    <3>1. c.pc = "free" => SlotIn(c, table') = SlotIn(call[a], table)
      BY SlotInIs
    <3>2. c.pc # "free" => SlotIn(c, table') = Nothing
      BY SlotInIs DEF Creating
    <3> QED BY <1>1, <3>1, <3>2 DEF SlotOf
  <2>2. HoldersOK'
    <3>1. HoldersOK
      BY <1>4 DEF Orderly
    <3>2. \A b \in Actors : SlotOf(b)' # Nothing => SlotOf(b)' = SlotOf(b)
      BY <2>1
    <3>3. \A b \in Actors : call'[b].pc = "prefill" => call'[b] = call[b]
      BY <1>1
    <3>4. \A b \in Actors : SlotOf(b)' # Nothing =>
            /\ slot[SlotOf(b)'].used
            /\ \A d \in Actors \ {b} : SlotOf(d)' # SlotOf(b)'
      BY <3>1, <3>2 DEF HoldersOK
    <3>5. \A h \in Handles : open[h] # Nothing =>
            \A b \in Actors : SlotOf(b)' # table[h]
      BY <3>1, <3>2 DEF HoldersOK, IInv, AlwaysOK
    <3> QED BY <3>1, <3>3, <3>4, <3>5 DEF HoldersOK
  <2>3. CreatingOK'
    BY <1>1, <1>4 DEF Orderly, CreatingOK, Creating, Living
  <2>4. StatusOK'
    BY <1>1, <1>4 DEF Orderly, StatusOK, Tells, Ended, Living
  <2>5. LivingOK'
    BY <1>4 DEF Orderly, LivingOK, Living
  <2>6. JoinsOK'
    BY <1>1, <1>4 DEF Orderly, JoinsOK
  <2>7. QueuesOK'
    <3>1. UNCHANGED <<queue, posted, got>>
      BY DEF messaging
    <3> QED BY <1>4, <3>1 DEF Orderly, QueuesOK, HasQueue
  <2> QED BY <2>2, <2>3, <2>4, <2>5, <2>6, <2>7 DEF Orderly
<1> QED BY <1>2, <1>3, <1>4 DEF IInv, history

LEMMA WaitSteps ==
  ASSUME IInv, NEW a \in Actors,
         \/ \E h \in Handles, timed \in BOOLEAN : WaitForSingleObject(a, h, timed)
         \/ WaitFinds(a) \/ WaitTests(a) \/ WaitTimesOut(a) \/ SpuriousWakeup(a)
  PROVE  IInv'
<1>0. /\ call \in [Actors -> CallType] /\ call[a] \in CallType
      /\ table \in [Handles -> 0 .. NSlots]
  BY DEF IInv, TypeOK
<1>a. call[a].pc # "idle" /\ a # 0 => host[a].pc = "run"
  BY DEF IInv, AlwaysOK
<1>1. ASSUME NEW h \in Handles, NEW timed \in BOOLEAN, WaitForSingleObject(a, h, timed)
      PROVE  IInv'
  <2> DEFINE c == [pc |-> "find", h |-> h, timed |-> timed]
  <2>1. c \in CallType /\ c.pc = "find" /\ c.h = h
    BY NewCalls
  <2>2. Enters(a, c) /\ table[h] # Nothing /\ (a # 0 => host[a].pc = "run")
    BY <1>1 DEF WaitForSingleObject, CanCall, Lookup
  <2> HIDE DEF c
  <2> QED BY <1>1, <2>1, <2>2, OnlyTheCall DEF WaitForSingleObject
<1>2. ASSUME WaitFinds(a)
      PROVE  IInv'
  <2>1. call[a].h \in Handles /\ call[a].timed \in BOOLEAN
    BY <1>0, <1>2, CallShape DEF WaitFinds
  <2>2. CASE Lookup(call[a].h) = Nothing
    <3>1. Enters(a, Idle)
      BY <1>2, <2>2 DEF WaitFinds, Returns
    <3> QED BY <1>2, <3>1, IdleType, OnlyTheCall DEF WaitFinds
  <2>3. CASE Lookup(call[a].h) # Nothing
    <3> DEFINE c == [pc |-> "wait", h |-> call[a].h, timed |-> call[a].timed, s |-> table[call[a].h]]
    <3>1. table[call[a].h] \in Slots
      BY <1>0, <2>1, <2>3 DEF Lookup, Slots, Nothing
    <3>2. c \in CallType /\ c.pc = "wait" /\ table[c.h] = c.s
      BY <2>1, <3>1, NewCalls
    <3>3. Enters(a, c)
      BY <1>2, <2>3 DEF WaitFinds, Lookup
    <3> HIDE DEF c
    <3> QED BY <1>a, <1>2, <3>2, <3>3, OnlyTheCall DEF WaitFinds
  <2> QED BY <2>2, <2>3
<1>3. ASSUME WaitTests(a)
      PROVE  IInv'
  <2>1. call[a].h \in Handles /\ call[a].timed \in BOOLEAN /\ call[a].s \in Slots
    BY <1>0, <1>3, CallShape DEF WaitTests
  <2>2. CASE slot[call[a].s].done /\ Enters(a, Idle)
    BY <1>3, <2>2, IdleType, OnlyTheCall DEF WaitTests
  <2>3. CASE /\ ~ slot[call[a].s].done
             /\ Enters(a, [pc |-> "asleep", h |-> call[a].h, timed |-> call[a].timed, s |-> call[a].s])
    <3> DEFINE c == [pc |-> "asleep", h |-> call[a].h, timed |-> call[a].timed, s |-> call[a].s]
    <3>1. c \in CallType /\ c.pc = "asleep" /\ c.s = call[a].s /\ c.h = call[a].h
      BY <2>1, NewCalls
    <3>2. table[c.h] = c.s
      BY <1>3, <3>1 DEF WaitTests, IInv, AlwaysOK
    <3>3. ~ slot[c.s].done /\ (a # 0 => host[a].pc = "run")
      BY <1>a, <1>3, <2>3, <3>1 DEF WaitTests
    <3>4. Enters(a, c)
      BY <2>3
    <3> HIDE DEF c
    <3> QED BY <1>3, <3>1, <3>2, <3>3, <3>4, OnlyTheCall DEF WaitTests
  <2> QED BY <1>3, <2>2, <2>3 DEF WaitTests, Returns
<1>4. ASSUME WaitTimesOut(a)
      PROVE  IInv'
  <2>1. Enters(a, Idle)
    BY <1>4 DEF WaitTimesOut, Returns
  <2> QED BY <1>4, <2>1, IdleType, OnlyTheCall DEF WaitTimesOut
<1>5. ASSUME SpuriousWakeup(a)
      PROVE  IInv'
  <2> DEFINE c == [call[a] EXCEPT !.pc = "awake"]
  <2>1. c \in CallType
        /\ c = [pc |-> "awake", h |-> call[a].h, timed |-> call[a].timed, s |-> call[a].s]
    BY <1>0, <1>5, Wakes DEF SpuriousWakeup
  <2>2. c.pc = "awake" /\ c.h = call[a].h /\ c.s = call[a].s
    BY <2>1
  <2>3. Enters(a, c)
    BY <1>5 DEF SpuriousWakeup, Enters
  <2>4. table[c.h] = c.s
    BY <1>5, <2>2 DEF SpuriousWakeup, IInv, AlwaysOK
  <2> HIDE DEF c
  <2> QED BY <1>a, <1>5, <2>1, <2>2, <2>3, <2>4, OnlyTheCall DEF SpuriousWakeup
<1> QED BY <1>1, <1>2, <1>3, <1>4, <1>5

LEMMA ReleaseReadsStep ==
  ASSUME IInv, NEW a \in Actors, ReleaseReads(a)
  PROVE  IInv'
<1>0. /\ call \in [Actors -> CallType] /\ call[a] \in CallType
      /\ table \in [Handles -> 0 .. NSlots]
  BY DEF IInv, TypeOK
<1>1. call[a].h \in Handles /\ call[a].pc = "reap" /\ (a # 0 => host[a].pc = "run")
  BY <1>0, CallShape DEF ReleaseReads, IInv, AlwaysOK
<1>2. CASE Enters(a, Idle)
  BY <1>2, IdleType, OnlyTheCall DEF ReleaseReads
<1>3. CASE ~ Enters(a, Idle)
  <2> DEFINE c == [pc |-> "free", s |-> table[call[a].h]]
  <2>1. Lookup(call[a].h) # Nothing /\ slot[table[call[a].h]].done /\ Enters(a, c)
    BY <1>3 DEF ReleaseReads, Returns, Lookup
  <2>2. table[call[a].h] \in Slots
    BY <1>0, <1>1, <2>1 DEF Lookup, Slots, Nothing
  <2>3. c \in CallType /\ c.pc = "free" /\ c.s = table[call[a].h]
    BY <2>2, NewCalls
  <2> HIDE DEF c
  <2> QED BY <1>1, <2>1, <2>3, OnlyTheCall DEF ReleaseReads
<1> QED BY <1>2, <1>3

LEMMA GetMessageSteps ==
  ASSUME IInv, NEW a \in Actors, GetMessage(a) \/ GetMessageChecksQuit(a)
  PROVE  IInv'
<1>1. CASE Enters(a, Idle)
  BY <1>1, IdleType, OnlyTheCall DEF GetMessage, GetMessageChecksQuit
<1>2. CASE ~ Enters(a, Idle)
  <2>1. PICK c \in {[pc |-> "park"], [pc |-> "drain"], [pc |-> "pump"]} : Enters(a, c)
    BY <1>2 DEF GetMessage, GetMessageChecksQuit, Returns
  <2>2. c \in CallType /\ c.pc \in {"park", "drain", "pump"}
    BY NewCalls
  <2>3. a # 0 /\ host[a].pc = "run"
    BY DEF GetMessage, GetMessageChecksQuit, CanCall, Tids, IInv, AlwaysOK
  <2> QED BY <2>1, <2>2, <2>3, OnlyTheCall DEF GetMessage, GetMessageChecksQuit
<1> QED BY <1>1, <1>2

LEMMA GetMessagePumpsStep ==
  ASSUME IInv, NEW a \in Actors, GetMessagePumps(a)
  PROVE  IInv'
<1>1. /\ Enters(a, Idle) /\ UNCHANGED <<slot, minted, host, table, issued, open, history>>
      /\ UNCHANGED <<queue, gui, posted, got>> /\ quit' \in {quit, TRUE}
  BY DEF GetMessagePumps, Returns
<1>2. UNCHANGED messaging \/ (UNCHANGED <<queue, gui, posted, got>> /\ quit' = TRUE)
  BY <1>1 DEF messaging
<1> QED BY <1>1, <1>2, IdleType, OnlyTheCall

-----------------------------------------------------------------------------
(* CloseHandle takes the slot over from the handle it closes, and            *)
(* alloc_handle hands it over to a new one.                                  *)

LEMMA CloseHandleStep ==
  ASSUME IInv, NEW a \in Actors, NEW h \in Handles, CloseHandle(a, h)
  PROVE  IInv'
<1> DEFINE c == [pc |-> "reap", h |-> h]
<1>0. /\ c \in CallType /\ c.pc = "reap" /\ c.h = h
      /\ call[a] = Idle /\ Idle.pc = "idle" /\ (a # 0 => host[a].pc = "run")
  BY NewCalls, IdleType DEF CloseHandle, CanCall
<1> HIDE DEF c
<1>1. /\ Lookup(h) = Nothing => call' = call
      /\ Lookup(h) # Nothing => Enters(a, c)
  BY DEF CloseHandle, c
<1>2. /\ open \in [Handles -> 0 .. MaxTids + 1] /\ open' \in [Handles -> 0 .. MaxTids + 1]
      /\ open'[h] = Nothing /\ \A g \in Handles \ {h} : open'[g] = open[g]
  BY SizesAssumption DEF CloseHandle, IInv, TypeOK, Nothing
<1>3. /\ call' \in [Actors -> CallType]
      /\ \A b \in Actors \ {a} : call'[b] = call[b]
      /\ Lookup(h) = Nothing => call'[a] = call[a]
      /\ Lookup(h) # Nothing => call'[a] = c
  BY <1>0, <1>1, Entered DEF IInv, TypeOK
<1>4. UNCHANGED <<slot, minted, host, queue, quit, gui, posted, got, table, issued, overlapped>>
  BY DEF CloseHandle, messaging
<1>5. TypeOK'
  BY <1>2, <1>3, <1>4 DEF IInv, TypeOK, CloseHandle
<1>6. AlwaysOK'
  <2>1. Lookup(h) # Nothing => table[h] # Nothing
    BY DEF Lookup
  <2> QED BY <1>0, <1>2, <1>3, <1>4, <2>1 DEF IInv, AlwaysOK, Living
<1>7. ASSUME Orderly, ~ misused'
      PROVE  Orderly'
  <2>1. open[h] # Nothing /\ table[h] # Nothing /\ Lookup(h) = table[h] /\ call'[a] = c
    BY <1>3, <1>7 DEF CloseHandle, Lookup, IInv, AlwaysOK, Orderly, HoldersOK
  <2>2. /\ SlotOf(a) = Nothing /\ SlotOf(a)' = table[h]
        /\ \A b \in Actors \ {a} : SlotOf(b)' = SlotOf(b)
    BY <1>0, <1>3, <1>4, <2>1, SlotInIs DEF SlotOf, Creating
  <2>3. HoldersOK'
    <3>1. HoldersOK
      BY <1>7 DEF Orderly
    <3>2. slot[table[h]].used /\ \A b \in Actors : SlotOf(b) # table[h]
      BY <2>1, <3>1 DEF HoldersOK
    <3>3. \A b \in Actors : SlotOf(b)' # Nothing =>
            /\ slot[SlotOf(b)'].used
            /\ \A d \in Actors \ {b} : SlotOf(d)' # SlotOf(b)'
      BY <2>2, <3>1, <3>2 DEF HoldersOK
    <3>4. \A g \in Handles : open'[g] # Nothing =>
            /\ slot[table[g]].used
            /\ \A f \in Handles \ {g} : open'[f] # Nothing => table[f] # table[g]
            /\ \A b \in Actors : SlotOf(b)' # table[g]
      BY <1>2, <2>1, <2>2, <3>1 DEF HoldersOK
    <3>5. \A b \in Actors : call'[b].pc = "prefill" => call'[b] = call[b]
      BY <1>0, <1>3, <2>1
    <3> QED BY <1>4, <3>1, <3>3, <3>4, <3>5 DEF HoldersOK
  <2>4. CreatingOK'
    BY <1>0, <1>3, <1>4, <1>7, <2>1 DEF Orderly, CreatingOK, Creating, Living
  <2>5. StatusOK'
    BY <1>0, <1>2, <1>3, <1>4, <1>7, <2>1 DEF Orderly, StatusOK, Tells, Ended, Living
  <2>6. LivingOK'
    BY <1>4, <1>7 DEF Orderly, LivingOK, Living
  <2>7. JoinsOK'
    <3>1. \A b \in Actors : call'[b].pc = "asleep" => b # a /\ call'[b] = call[b]
      BY <1>0, <1>3, <2>1
    <3>2. \A b \in Actors : call[b].pc = "asleep" => call[b].h \in Handles
      BY CallShape DEF IInv, TypeOK
    <3> QED BY <1>2, <1>4, <1>7, <3>1, <3>2 DEF Orderly, JoinsOK
  <2>8. QueuesOK'
    BY <1>4, <1>7 DEF Orderly, QueuesOK, HasQueue
  <2> QED BY <2>3, <2>4, <2>5, <2>6, <2>7, <2>8 DEF Orderly
<1>8. overlapped' = overlapped /\ (misused => misused')
  BY DEF CloseHandle
<1> QED BY <1>5, <1>6, <1>7, <1>8 DEF IInv

LEMMA IssueHandleStep ==
  ASSUME IInv, NEW a \in Actors, IssueHandle(a)
  PROVE  IInv'
<1>0. /\ call[a].pc = "handle" /\ Idle.pc = "idle"
      /\ call[a].s \in Slots /\ call[a].i \in Tids \union {Child}
      /\ call[a].s # Nothing /\ call[a].i # Nothing /\ call[a].i \in 0 .. MaxTids + 1
  <2>1. call[a].pc = "handle" /\ call[a] \in CallType
    BY DEF IssueHandle, IInv, TypeOK
  <2>2. call[a].s \in Slots /\ call[a].i \in Tids \union {Child}
    BY <2>1, CallShape
  <2> QED BY <2>1, <2>2, IdleType, SizesAssumption DEF Slots, Tids, Child, Nothing
<1>1. /\ call' \in [Actors -> CallType] /\ call'[a] = Idle
      /\ \A b \in Actors \ {a} : call'[b] = call[b]
  BY IdleType, Entered DEF IssueHandle, Returns, IInv, TypeOK
<1>2. UNCHANGED <<slot, minted, host, queue, quit, gui, posted, got, overlapped, misused>>
  BY DEF IssueHandle, messaging, history
<1> DEFINE n == issued + 1
<1>3. /\ table \in [Handles -> 0 .. NSlots] /\ open \in [Handles -> 0 .. MaxTids + 1]
      /\ issued \in 0 .. MaxHandles
  BY DEF IInv, TypeOK
<1>4. \/ /\ n \in Handles /\ issued' = n
         /\ table' = [table EXCEPT ![n] = call[a].s] /\ open' = [open EXCEPT ![n] = call[a].i]
      \/ UNCHANGED <<issued, table, open>>
  <2>1. AllocHandle(call[a].s, call[a].i)
    BY DEF IssueHandle
  <2>2. CASE issued < MaxHandles
    <3>1. n \in Handles
      BY <1>3, <2>2, SizesAssumption DEF Handles
    <3> QED BY <2>1, <2>2, <3>1 DEF AllocHandle
  <2>3. CASE ~ (issued < MaxHandles)
    BY <2>1, <2>3 DEF AllocHandle
  <2> QED BY <2>2, <2>3
<1>5. (table[n] = Nothing /\ open[n] = Nothing) \/ n \notin Handles
  BY <1>3 DEF IInv, AlwaysOK, Handles
<1>6. /\ table' \in [Handles -> 0 .. NSlots] /\ open' \in [Handles -> 0 .. MaxTids + 1]
      /\ issued' \in 0 .. MaxHandles /\ issued <= issued'
      /\ \A h \in Handles : h # n \/ UNCHANGED <<table, open>> => table'[h] = table[h] /\ open'[h] = open[h]
      /\ \/ UNCHANGED <<issued, table, open>>
         \/ n \in Handles /\ issued' = n /\ table'[n] = call[a].s /\ open'[n] = call[a].i
  <2>1. CASE UNCHANGED <<issued, table, open>>
    BY <1>3, <2>1
  <2>2. CASE /\ n \in Handles /\ issued' = n
             /\ table' = [table EXCEPT ![n] = call[a].s] /\ open' = [open EXCEPT ![n] = call[a].i]
    <3>1. call[a].s \in 0 .. NSlots /\ call[a].i \in 0 .. MaxTids + 1
      BY <1>0, SizesAssumption DEF Slots
    <3>2. issued' \in 0 .. MaxHandles /\ issued <= issued'
      BY <1>3, <2>2, SizesAssumption DEF Handles
    <3>3. table' \in [Handles -> 0 .. NSlots] /\ table'[n] = call[a].s
          /\ \A h \in Handles \ {n} : table'[h] = table[h]
      BY <1>3, <2>2, <3>1
    <3>4. open' \in [Handles -> 0 .. MaxTids + 1] /\ open'[n] = call[a].i
          /\ \A h \in Handles \ {n} : open'[h] = open[h]
      BY <1>3, <2>2, <3>1
    <3> QED BY <2>2, <3>2, <3>3, <3>4
  <2> QED BY <1>4, <2>1, <2>2
<1>7. \A h \in Handles : table[h] # Nothing => h # n
  BY <1>5
<1> HIDE DEF n
<1>8. TypeOK'
  BY <1>1, <1>2, <1>6 DEF IInv, TypeOK
<1>9. \A b \in Actors : call[b].pc \in {"find", "reap", "wait", "asleep", "awake"} =>
        /\ call[b].h \in Handles /\ table'[call[b].h] = table[call[b].h]
        /\ table[call[b].h] # Nothing /\ open'[call[b].h] = open[call[b].h]
  <2> SUFFICES ASSUME NEW b \in Actors, call[b].pc \in {"find", "reap", "wait", "asleep", "awake"}
               PROVE  /\ call[b].h \in Handles /\ table'[call[b].h] = table[call[b].h]
                      /\ table[call[b].h] # Nothing /\ open'[call[b].h] = open[call[b].h]
    OBVIOUS
  <2>1. call[b] \in CallType
    BY DEF IInv, TypeOK
  <2>2. call[b].h \in Handles /\ (call[b].pc \in {"wait", "asleep", "awake"} => call[b].s \in Slots)
    BY <2>1, CallShape
  <2>3. table[call[b].h] # Nothing
    BY <2>2 DEF IInv, AlwaysOK, Slots, Nothing
  <2> QED BY <1>6, <1>7, <2>2, <2>3
<1>10. AlwaysOK'
  <2>1. \A h \in Handles : /\ table'[h] # Nothing => h <= issued'
                           /\ open'[h] # Nothing => table'[h] # Nothing
    BY <1>0, <1>3, <1>6 DEF IInv, AlwaysOK, Handles
  <2> QED BY <1>0, <1>1, <1>2, <1>9, <2>1 DEF IInv, AlwaysOK, Living
<1>11. ASSUME Orderly
       PROVE  Orderly'
  <2>1. /\ SlotOf(a) = call[a].s /\ SlotOf(a)' = Nothing
        /\ \A b \in Actors \ {a} : SlotOf(b)' = SlotOf(b)
    <3>1. SlotOf(a) = call[a].s /\ SlotOf(a)' = Nothing
      BY <1>0, <1>1, SlotInIs DEF SlotOf, Creating
    <3>2. \A b \in Actors \ {a} : SlotIn(call[b], table') = SlotIn(call[b], table)
      BY <1>9, SlotInIs
    <3> QED BY <1>1, <3>1, <3>2 DEF SlotOf
  <2>2. \A h \in Handles : open[h] # Nothing => open'[h] = open[h] /\ table'[h] = table[h]
    BY <1>6, <1>7 DEF IInv, AlwaysOK
  <2>3. HoldersOK /\ Tells(call[a].s, call[a].i)
    BY <1>0, <1>11 DEF Orderly, StatusOK
  <2>4. /\ slot[call[a].s].used
        /\ \A b \in Actors \ {a} : SlotOf(b) # call[a].s
        /\ \A h \in Handles : open[h] # Nothing => table[h] # call[a].s
    BY <1>0, <2>1, <2>3 DEF HoldersOK
  <2>5. HoldersOK'
    <3>1. \A b \in Actors : SlotOf(b)' # Nothing =>
            /\ slot[SlotOf(b)'].used
            /\ \A d \in Actors \ {b} : SlotOf(d)' # SlotOf(b)'
      BY <2>1, <2>3 DEF HoldersOK
    <3>2. \A g \in Handles : open'[g] # Nothing =>
            \/ open[g] # Nothing /\ table'[g] = table[g]
            \/ g = n /\ open[g] = Nothing /\ table'[g] = call[a].s
      BY <1>5, <1>6, <2>2
    <3>3. \A g \in Handles : open'[g] # Nothing =>
            /\ slot[table'[g]].used
            /\ \A b \in Actors : SlotOf(b)' # table'[g]
      <4>1. \A g \in Handles : open[g] # Nothing => table[g] # Nothing
        BY DEF IInv, AlwaysOK
      <4> QED BY <1>0, <2>1, <2>3, <2>4, <3>2, <4>1 DEF HoldersOK
    <3>4. \A g \in Handles : open'[g] # Nothing =>
             \A f \in Handles \ {g} : open'[f] # Nothing => table'[f] # table'[g]
      BY <2>3, <2>4, <3>2 DEF HoldersOK
    <3>5. \A b \in Actors : call'[b].pc = "prefill" => call'[b] = call[b]
      BY <1>0, <1>1
    <3> QED BY <1>2, <2>3, <3>1, <3>3, <3>4, <3>5 DEF HoldersOK
  <2>6. CreatingOK'
    BY <1>0, <1>1, <1>2, <1>11 DEF Orderly, CreatingOK, Creating, Living
  <2>7. StatusOK'
    <3>1. \A g \in Handles : open'[g] # Nothing =>
            \/ open[g] # Nothing /\ open'[g] = open[g] /\ table'[g] = table[g]
            \/ table'[g] = call[a].s /\ open'[g] = call[a].i
      BY <1>5, <1>6, <2>2
    <3> QED BY <1>0, <1>1, <1>2, <1>11, <2>3, <3>1 DEF Orderly, StatusOK, Tells, Ended, Living
  <2>8. LivingOK'
    BY <1>2, <1>11 DEF Orderly, LivingOK, Living
  <2>9. JoinsOK'
    <3>1. \A b \in Actors : call'[b].pc = "asleep" => call'[b] = call[b]
      BY <1>0, <1>1
    <3> QED BY <1>2, <1>9, <1>11, <3>1 DEF Orderly, JoinsOK
  <2>10. QueuesOK'
    BY <1>2, <1>11 DEF Orderly, QueuesOK, HasQueue
  <2> QED BY <2>5, <2>6, <2>7, <2>8, <2>9, <2>10 DEF Orderly
<1> QED BY <1>2, <1>8, <1>10, <1>11 DEF IInv

-----------------------------------------------------------------------------
(* CreateProcessW and _beginthreadex take slots that are free.               *)

(* Nobody holds a slot that is free, and nobody lives in it or waits for it. *)
LEMMA NobodyHasAFreeSlot ==
  ASSUME IInv, Orderly, NEW s \in Slots, ~ slot[s].used
  PROVE  /\ \A b \in Actors : SlotOf(b) # s
         /\ \A h \in Handles : open[h] # Nothing => table[h] # s
         /\ \A i \in Tids : Living(i) => host[i].self # s
         /\ \A b \in Actors : call[b].pc = "asleep" /\ open[call[b].h] # Nothing => call[b].s # s
<1>0. s # Nothing
  BY DEF Slots, Nothing
<1>1. \A b \in Actors : SlotOf(b) # s
  BY <1>0 DEF Orderly, HoldersOK
<1>2. \A h \in Handles : open[h] # Nothing => table[h] # s
  BY DEF Orderly, HoldersOK
<1>3. \A i \in Tids : Living(i) => host[i].self # s
  BY DEF Orderly, LivingOK
<1>4. ASSUME NEW b \in Actors, call[b].pc = "asleep", open[call[b].h] # Nothing
      PROVE  call[b].s # s
  <2>1. call[b].h \in Handles
    BY <1>4, CallShape DEF IInv, TypeOK
  <2>2. table[call[b].h] = call[b].s
    BY <1>4 DEF IInv, AlwaysOK
  <2> QED BY <1>2, <1>4, <2>1, <2>2
<1> QED BY <1>1, <1>2, <1>3, <1>4

(* The slots of the calls that are creating, issuing or freeing.             *)
LEMMA CallsSlot ==
  ASSUME TypeOK, NEW b \in Actors, call[b].pc \in Creating \union {"handle", "free"}
  PROVE  call[b].s = SlotOf(b) /\ call[b].s \in Slots /\ SlotOf(b) # Nothing
<1>1. call[b].s \in Slots
  BY CallShape DEF TypeOK, Creating
<1> QED BY <1>1, SlotInIs DEF SlotOf, Slots, Nothing

LEMMA SlotOfType ==
  ASSUME TypeOK, AlwaysOK
  PROVE  \A b \in Actors : SlotOf(b) # Nothing => SlotOf(b) \in Slots
<1>1. \A b \in Actors : SlotIn(call[b], table) # Nothing =>
        \/ call[b].pc \in Creating \union {"handle", "free"}
        \/ call[b].pc = "reap" /\ SlotIn(call[b], table) = table[call[b].h]
  BY SlotInIs
<1>2. \A b \in Actors : call[b].pc = "reap" => call[b].h \in Handles
  BY CallShape DEF TypeOK
<1>3. \A b \in Actors : call[b].pc = "reap" => table[call[b].h] \in Slots
  BY <1>2 DEF TypeOK, AlwaysOK, Slots, Nothing
<1> QED BY <1>1, <1>3, CallsSlot DEF SlotOf

(* One slot changes, and only the caller has to do with it.                  *)
LEMMA OneSlotChanges ==
  ASSUME IInv, Orderly, TypeOK', NEW a \in Actors, NEW s \in Slots, NEW c \in CallType,
         UNCHANGED <<host, queue, posted, got, table, open>>,
         call'[a] = c, \A b \in Actors \ {a} : call'[b] = call[b],
         \A r \in Slots \ {s} : slot'[r] = slot[r],
         \A b \in Actors \ {a} : SlotOf(b) # s,
         \A h \in Handles : open[h] # Nothing => table[h] # s,
         \A i \in Tids : Living(i) => host[i].self # s,
         \A b \in Actors \ {a} : call[b].pc = "prefill" => call[b].s # s \/ ~ slot'[s].used,
         c.pc \in {"idle", "mint", "queue", "handle"},
         c.pc # "idle" => c.s = s /\ slot'[s].used,
         c.pc \in {"mint", "queue"} => ~ slot'[s].done /\ slot'[s].code = 0,
         c.pc = "queue" => slot'[s].tid = c.i,
         c.pc = "handle" => c.i = Child /\ slot'[s].done /\ slot'[s].code = 0
  PROVE  Orderly'
<1>1. /\ SlotOf(a)' \in {Nothing, s} /\ s # Nothing
      /\ SlotOf(a)' = s => slot'[s].used
      /\ \A b \in Actors \ {a} : SlotOf(b)' = SlotOf(b)
  BY SlotInIs DEF SlotOf, Creating, Slots, Nothing
<1>2. \A b \in Actors : SlotOf(b) # Nothing => SlotOf(b) \in Slots
  BY SlotOfType DEF IInv
<1>3. \A h \in Handles : open[h] # Nothing =>
        /\ table[h] \in Slots \ {s} /\ open[h] \in Tids \union {Child}
        /\ slot'[table[h]] = slot[table[h]]
  <2>1. \A h \in Handles : open[h] # Nothing => open[h] \in Tids \union {Child}
    BY SizesAssumption DEF IInv, TypeOK, Nothing, Tids, Child
  <2>2. \A h \in Handles : open[h] # Nothing => table[h] \in Slots
    BY DEF IInv, AlwaysOK, TypeOK, Slots, Nothing
  <2> QED BY <2>1, <2>2
<1>4. \A b \in Actors \ {a} : call[b].pc \in Creating \union {"handle", "free"} =>
        call[b].s \in Slots \ {s} /\ slot'[call[b].s] = slot[call[b].s]
  BY CallsSlot DEF IInv
<1>5. \A i \in Tids : Living(i) => slot'[host[i].self] = slot[host[i].self]
  BY DEF IInv, TypeOK, AlwaysOK, Slots, Nothing
<1>6. HoldersOK
  BY DEF Orderly
<1>7. HoldersOK'
  <2>1. \A b \in Actors : SlotOf(b)' # Nothing =>
          /\ slot'[SlotOf(b)'].used
          /\ \A d \in Actors \ {b} : SlotOf(d)' # SlotOf(b)'
    BY <1>1, <1>2, <1>6 DEF HoldersOK
  <2>2. \A h \in Handles : open[h] # Nothing =>
          /\ slot'[table[h]].used
          /\ \A b \in Actors : SlotOf(b)' # table[h]
    BY <1>1, <1>3, <1>6 DEF HoldersOK, Slots, Nothing
  <2>3. \A b \in Actors \ {a} : call[b].pc = "prefill" => call[b].s \in Slots
    BY CallShape DEF IInv, TypeOK
  <2>4. \A b \in Actors : call'[b].pc = "prefill" =>
          /\ ~ slot'[call'[b].s].used
          /\ \A d \in Actors \ {b} : call'[d].pc # "prefill"
    BY <1>6, <2>3 DEF HoldersOK
  <2> QED BY <1>6, <2>1, <2>2, <2>4 DEF HoldersOK
<1>8. CreatingOK'
  BY <1>4 DEF Orderly, CreatingOK, Creating, Living
<1>9. StatusOK'
  <2>1. \A h \in Handles : open'[h] # Nothing => Tells(table[h], open[h])'
    <3>1. \A h \in Handles : open[h] # Nothing => Tells(table[h], open[h])
      BY DEF Orderly, StatusOK
    <3> QED BY <1>3, <3>1 DEF Tells, Ended, Living
  <2>2. \A b \in Actors \ {a} : call[b].pc = "handle" => Tells(call[b].s, call[b].i)'
    <3>1. \A b \in Actors \ {a} : call[b].pc = "handle" => Tells(call[b].s, call[b].i)
      BY DEF Orderly, StatusOK
    <3> QED BY <1>4, <3>1 DEF Tells, Ended, Living
  <2>3. c.pc = "handle" => Tells(call[a].s, call[a].i)'
    BY SizesAssumption DEF Tells, Ended, Child, Tids
  <2> QED BY <2>1, <2>2, <2>3 DEF StatusOK
<1>10. LivingOK'
  BY <1>5 DEF Orderly, LivingOK, Living
<1>11. JoinsOK'
  <2>1. \A b \in Actors : call'[b].pc = "asleep" => b # a /\ call'[b] = call[b]
    OBVIOUS
  <2>2. \A b \in Actors : call[b].pc = "asleep" => call[b].h \in Handles /\ table[call[b].h] = call[b].s
    BY CallShape DEF IInv, TypeOK, AlwaysOK
  <2> QED BY <1>3, <2>1, <2>2 DEF Orderly, JoinsOK
<1>12. QueuesOK'
  BY DEF Orderly, QueuesOK, HasQueue
<1> QED BY <1>7, <1>8, <1>9, <1>10, <1>11, <1>12 DEF Orderly

LEMMA CreateProcessStep ==
  ASSUME IInv, NEW a \in Actors, CreateProcess(a)
  PROVE  IInv'
<1>1. PICK s \in Slots : FirstFree(s) /\ Enters(a, [pc |-> "prefill", s |-> s])
  BY DEF CreateProcess
<1> DEFINE c == [pc |-> "prefill", s |-> s]
<1>2. /\ c \in CallType /\ c.pc = "prefill" /\ c.s = s /\ ~ slot[s].used
      /\ call[a] = Idle /\ Idle.pc = "idle" /\ (a # 0 => host[a].pc = "run")
  BY <1>1, NewCalls, IdleType DEF CreateProcess, CanCall, FirstFree
<1> HIDE DEF c
<1>3. /\ call' \in [Actors -> CallType] /\ call'[a] = c
      /\ \A b \in Actors \ {a} : call'[b] = call[b]
  BY <1>1, <1>2, Entered DEF IInv, TypeOK, c
<1>4. /\ UNCHANGED <<slot, minted, host, queue, quit, gui, posted, got, table, issued, open, misused>>
      /\ overlapped' = (overlapped \/ Racing(a))
  BY DEF CreateProcess, messaging
<1>5. TypeOK'
  BY <1>3, <1>4 DEF IInv, TypeOK
<1>6. AlwaysOK'
  BY <1>2, <1>3, <1>4 DEF IInv, AlwaysOK, Living
<1>7. ASSUME Orderly, ~ overlapped'
      PROVE  Orderly'
  <2>1. \A b \in Actors \ {a} : call[b].pc # "prefill"
    BY <1>4, <1>7 DEF Racing
  <2>2. \A b \in Actors : SlotOf(b)' = SlotOf(b)
    BY <1>2, <1>3, <1>4, SlotInIs DEF SlotOf, Creating
  <2>3. HoldersOK'
    BY <1>2, <1>3, <1>4, <1>7, <2>1, <2>2 DEF Orderly, HoldersOK
  <2>4. CreatingOK' /\ StatusOK'
    <3>1. CreatingOK'
      BY <1>2, <1>3, <1>4, <1>7 DEF Orderly, CreatingOK, Creating, Living
    <3>2. StatusOK'
      BY <1>2, <1>3, <1>4, <1>7 DEF Orderly, StatusOK, Tells, Ended, Living
    <3> QED BY <3>1, <3>2
  <2>5. LivingOK' /\ JoinsOK'
    BY <1>2, <1>3, <1>4, <1>7 DEF Orderly, LivingOK, JoinsOK, Living
  <2>6. QueuesOK'
    BY <1>4, <1>7 DEF Orderly, QueuesOK, HasQueue
  <2> QED BY <2>3, <2>4, <2>5, <2>6 DEF Orderly
<1> QED BY <1>4, <1>5, <1>6, <1>7 DEF IInv

LEMMA PrefillStep ==
  ASSUME IInv, NEW a \in Actors, Prefill(a)
  PROVE  IInv'
<1> DEFINE s == call[a].s
           c == [pc |-> "handle", s |-> s, i |-> Child]
           new == [used |-> TRUE, done |-> TRUE, code |-> 0, tid |-> 0]
<1>1. call[a].pc = "prefill" /\ s \in Slots /\ (a # 0 => host[a].pc = "run")
  BY CallShape DEF Prefill, IInv, TypeOK, AlwaysOK
<1>2. c \in CallType /\ c.pc = "handle" /\ c.s = s /\ c.i = Child
  BY <1>1, NewCalls
<1>3. /\ call' \in [Actors -> CallType] /\ call'[a] = c
      /\ \A b \in Actors \ {a} : call'[b] = call[b]
  BY <1>2, Entered DEF IInv, TypeOK, Prefill
<1>4. UNCHANGED <<minted, host, queue, quit, gui, posted, got, table, issued, open, overlapped, misused>>
  BY DEF Prefill, messaging, history
<1>5. /\ slot' \in [Slots -> [used : BOOLEAN, done : BOOLEAN, code : Nat, tid : 0 .. MaxTids]]
      /\ slot'[s] = new /\ \A r \in Slots \ {s} : slot'[r] = slot[r]
  BY <1>1, SizesAssumption DEF Prefill, IInv, TypeOK
<1> HIDE DEF c, s
<1>6. TypeOK'
  BY <1>3, <1>4, <1>5 DEF IInv, TypeOK
<1>7. AlwaysOK'
  BY <1>1, <1>2, <1>3, <1>4 DEF IInv, AlwaysOK, Living
<1>8. ASSUME Orderly
      PROVE  Orderly'
  <2>1. ~ slot[s].used /\ \A b \in Actors \ {a} : call[b].pc # "prefill"
    BY <1>1, <1>8 DEF Orderly, HoldersOK, s
  <2>2. /\ \A b \in Actors : SlotOf(b) # s
        /\ \A h \in Handles : open[h] # Nothing => table[h] # s
        /\ \A i \in Tids : Living(i) => host[i].self # s
    BY <1>1, <1>8, <2>1, NobodyHasAFreeSlot
  <2>3. slot'[s].used /\ slot'[s].done /\ slot'[s].code = 0
    BY <1>5
  <2> QED BY <1>1, <1>2, <1>3, <1>4, <1>5, <1>6, <1>8, <2>1, <2>2, <2>3, OneSlotChanges
<1> QED BY <1>4, <1>6, <1>7, <1>8 DEF IInv

LEMMA CreateThreadStep ==
  ASSUME IInv, NEW a \in Actors, CreateThread(a)
  PROVE  IInv'
<1>1. PICK s \in Slots :
        /\ FirstFree(s)
        /\ slot' = [slot EXCEPT ![s] = [used |-> TRUE, done |-> FALSE, code |-> 0,
                                        tid |-> slot[s].tid]]
        /\ Enters(a, [pc |-> "mint", s |-> s])
  BY DEF CreateThread
<1> DEFINE c == [pc |-> "mint", s |-> s]
<1>2. /\ c \in CallType /\ c.pc = "mint" /\ c.s = s /\ ~ slot[s].used
      /\ call[a] = Idle /\ Idle.pc = "idle" /\ (a # 0 => host[a].pc = "run")
  BY <1>1, NewCalls, IdleType DEF CreateThread, CanCall, FirstFree
<1>3. /\ call' \in [Actors -> CallType] /\ call'[a] = c
      /\ \A b \in Actors \ {a} : call'[b] = call[b]
  BY <1>1, <1>2, Entered DEF IInv, TypeOK
<1>4. /\ UNCHANGED <<minted, host, queue, quit, gui, posted, got, table, issued, open, misused>>
      /\ overlapped' = (overlapped \/ Racing(a))
  BY DEF CreateThread, messaging
<1>5. /\ slot' \in [Slots -> [used : BOOLEAN, done : BOOLEAN, code : Nat, tid : 0 .. MaxTids]]
      /\ slot'[s] = [used |-> TRUE, done |-> FALSE, code |-> 0, tid |-> slot[s].tid]
      /\ \A r \in Slots \ {s} : slot'[r] = slot[r]
  BY <1>1, SizesAssumption DEF IInv, TypeOK
<1> HIDE DEF c
<1>6. TypeOK'
  BY <1>3, <1>4, <1>5 DEF IInv, TypeOK
<1>7. AlwaysOK'
  BY <1>2, <1>3, <1>4 DEF IInv, AlwaysOK, Living
<1>8. ASSUME Orderly, ~ overlapped'
      PROVE  Orderly'
  <2>1. \A b \in Actors \ {a} : call[b].pc # "prefill"
    BY <1>4, <1>8 DEF Racing
  <2>2. /\ \A b \in Actors : SlotOf(b) # s
        /\ \A h \in Handles : open[h] # Nothing => table[h] # s
        /\ \A i \in Tids : Living(i) => host[i].self # s
    BY <1>2, <1>8, NobodyHasAFreeSlot
  <2>3. slot'[s].used /\ ~ slot'[s].done /\ slot'[s].code = 0
    BY <1>5
  <2> QED BY <1>2, <1>3, <1>4, <1>5, <1>6, <1>8, <2>1, <2>2, <2>3, OneSlotChanges
<1> QED BY <1>4, <1>6, <1>7, <1>8 DEF IInv

-----------------------------------------------------------------------------
(* The rest of _beginthreadex, and the end of CloseHandle.                   *)

(* A slot that a call holds has no other holder.                             *)
LEMMA OneHolder ==
  ASSUME IInv, Orderly, NEW a \in Actors, SlotOf(a) # Nothing
  PROVE  /\ slot[SlotOf(a)].used
         /\ \A b \in Actors \ {a} : SlotOf(b) # SlotOf(a)
         /\ \A h \in Handles : open[h] # Nothing => table[h] # SlotOf(a)
         /\ \A b \in Actors \ {a} : call[b].pc = "prefill" => call[b].s # SlotOf(a)
BY DEF Orderly, HoldersOK

(* malloc or pthread_create fails, or CloseHandle gives the slot back.       *)
LEMMA UnclaimStep ==
  ASSUME IInv, NEW a \in Actors, call[a].pc \in Creating \union {"free"},
         Unclaim(call[a].s), Returns(a),
         UNCHANGED <<minted, host, messaging, table, issued, open, history>>
  PROVE  IInv'
<1> DEFINE s == call[a].s
<1>1. call[a].s = SlotOf(a) /\ s \in Slots /\ SlotOf(a) # Nothing
  BY CallsSlot DEF IInv
<1>2. /\ call' \in [Actors -> CallType] /\ call'[a] = Idle /\ Idle.pc = "idle" /\ Idle \in CallType
      /\ \A b \in Actors \ {a} : call'[b] = call[b]
  BY IdleType, Entered DEF Returns, IInv, TypeOK
<1>3. UNCHANGED <<minted, host, queue, quit, gui, posted, got, table, issued, open, overlapped, misused>>
  BY DEF messaging, history
<1>4. /\ slot' \in [Slots -> [used : BOOLEAN, done : BOOLEAN, code : Nat, tid : 0 .. MaxTids]]
      /\ ~ slot'[s].used /\ \A r \in Slots \ {s} : slot'[r] = slot[r]
  <2> DEFINE SlotType == [used : BOOLEAN, done : BOOLEAN, code : Nat, tid : 0 .. MaxTids]
  <2>1. slot \in [Slots -> SlotType] /\ slot[s] \in SlotType
    BY <1>1 DEF IInv, TypeOK
  <2>2. [slot[s] EXCEPT !.used = FALSE] \in SlotType /\ ~ [slot[s] EXCEPT !.used = FALSE].used
    BY <2>1
  <2>3. slot' = [slot EXCEPT ![s].used = FALSE]
    BY DEF Unclaim
  <2> HIDE DEF SlotType, s
  <2>4. slot' \in [Slots -> SlotType] /\ ~ slot'[s].used /\ \A r \in Slots \ {s} : slot'[r] = slot[r]
    BY <1>1, <2>1, <2>2, <2>3 DEF s
  <2> QED BY <2>4 DEF SlotType
<1>5. TypeOK'
  BY <1>2, <1>3, <1>4 DEF IInv, TypeOK
<1>6. AlwaysOK'
  BY <1>2, <1>3 DEF IInv, AlwaysOK, Living
<1>7. ASSUME Orderly
      PROVE  Orderly'
  <2>1. \A i \in Tids : Living(i) => host[i].self # s
    <3>1. CASE call[a].pc = "mint"
      BY <1>7, <3>1 DEF Orderly, CreatingOK
    <3>2. CASE call[a].pc = "free"
      BY <1>7, <3>2 DEF Orderly, CreatingOK, LivingOK
    <3>3. CASE call[a].pc \in {"queue", "spawn"}
      <4>1. slot[s].tid = call[a].i /\ host[call[a].i].pc = "unborn"
        BY <1>7, <3>3 DEF Orderly, CreatingOK, IInv, AlwaysOK
      <4> QED BY <1>7, <4>1 DEF Orderly, LivingOK, Living
    <3> QED BY <3>1, <3>2, <3>3 DEF Creating
  <2>2. /\ \A b \in Actors \ {a} : SlotOf(b) # s
        /\ \A h \in Handles : open[h] # Nothing => table[h] # s
    BY <1>1, <1>7, OneHolder
  <2> HIDE DEF s
  <2> QED BY <1>1, <1>2, <1>3, <1>4, <1>5, <1>7, <2>1, <2>2, OneSlotChanges DEF s
<1> QED BY <1>3, <1>5, <1>6, <1>7 DEF IInv

LEMMA ReleaseFreesStep ==
  ASSUME IInv, NEW a \in Actors, ReleaseFrees(a)
  PROVE  IInv'
BY UnclaimStep DEF ReleaseFrees

LEMMA MintTidStep ==
  ASSUME IInv, NEW a \in Actors, MintTid(a)
  PROVE  IInv'
<1> DEFINE s == call[a].s
           i == minted + 1
           c == [pc |-> "queue", s |-> s, i |-> i]
<1>1. CASE Unclaim(s) /\ Returns(a) /\ UNCHANGED minted
  BY <1>1, UnclaimStep DEF MintTid, Creating
<1>2. CASE /\ minted < MaxTids /\ minted' = i
           /\ slot' = [slot EXCEPT ![s].tid = i] /\ Enters(a, c)
  <2>1. call[a].pc = "mint" /\ call[a].s = SlotOf(a) /\ s \in Slots /\ SlotOf(a) # Nothing
    BY CallsSlot DEF IInv, MintTid, Creating
  <2>2. i \in Tids /\ minted \in Nat /\ i \in 0 .. MaxTids /\ minted <= i
    BY <1>2, SizesAssumption DEF IInv, TypeOK, Tids
  <2>3. c \in CallType /\ c.pc = "queue" /\ c.s = s /\ c.i = i
    BY <2>1, <2>2, NewCalls
  <2>4. /\ call' \in [Actors -> CallType] /\ call'[a] = c
        /\ \A b \in Actors \ {a} : call'[b] = call[b]
    BY <1>2, <2>3, Entered DEF IInv, TypeOK
  <2>5. UNCHANGED <<host, queue, quit, gui, posted, got, table, issued, open, overlapped, misused>>
    BY DEF MintTid, messaging, history
  <2>6. /\ slot' \in [Slots -> [used : BOOLEAN, done : BOOLEAN, code : Nat, tid : 0 .. MaxTids]]
        /\ slot'[s] = [slot[s] EXCEPT !.tid = i] /\ \A r \in Slots \ {s} : slot'[r] = slot[r]
    <3> DEFINE SlotType == [used : BOOLEAN, done : BOOLEAN, code : Nat, tid : 0 .. MaxTids]
    <3>1. slot \in [Slots -> SlotType] /\ slot[s] \in SlotType
      BY <2>1 DEF IInv, TypeOK
    <3>2. [slot[s] EXCEPT !.tid = i] \in SlotType
      BY <2>2, <3>1
    <3> HIDE DEF SlotType, s, i
    <3>3. /\ slot' \in [Slots -> SlotType] /\ slot'[s] = [slot[s] EXCEPT !.tid = i]
          /\ \A r \in Slots \ {s} : slot'[r] = slot[r]
      BY <1>2, <2>1, <3>1, <3>2
    <3> QED BY <3>3 DEF SlotType
  <2>7. /\ slot'[s].used = slot[s].used /\ slot'[s].done = slot[s].done
        /\ slot'[s].code = slot[s].code /\ slot'[s].tid = i
    <3>1. slot[s] \in [used : BOOLEAN, done : BOOLEAN, code : Nat, tid : 0 .. MaxTids]
      BY <2>1 DEF IInv, TypeOK
    <3> QED BY <2>6, <3>1
  <2>8. minted' \in 0 .. MaxTids
    BY <1>2, <2>2
  <2> HIDE DEF c, s, i
  <2>9. TypeOK'
    BY <2>4, <2>5, <2>6, <2>8 DEF IInv, TypeOK
  <2>10. host[i].pc = "unborn" /\ \A b \in Actors : call[b].pc \in {"queue", "spawn"} => call[b].i # i
    <3>1. ~ (i <= minted)
      BY <2>2 DEF i
    <3>2. host[i].pc = "unborn"
      BY <2>2, <3>1 DEF IInv, AlwaysOK
    <3> QED BY <3>1, <3>2 DEF IInv, AlwaysOK
  <2>11. AlwaysOK'
    <3>1. \A b \in Actors \ {a} : call[b].pc \in {"queue", "spawn"} => call[b].i <= minted'
      <4>1. \A b \in Actors : call[b].pc \in {"queue", "spawn"} => call[b].i \in Tids /\ call[b].i <= minted
        BY CallShape DEF IInv, TypeOK, AlwaysOK
      <4> QED BY <1>2, <2>2, <4>1, SizesAssumption DEF Tids
    <3>2. \A j \in Tids : host[j].pc # "unborn" => j <= minted'
      BY <1>2, <2>2, SizesAssumption DEF IInv, AlwaysOK, Tids
    <3>3. c.i <= minted'
      BY <1>2, <2>2, <2>3
    <3> QED BY <2>1, <2>3, <2>4, <2>5, <2>10, <3>1, <3>2, <3>3 DEF IInv, AlwaysOK, Living
  <2>12. ASSUME Orderly
         PROVE  Orderly'
    <3>1. /\ slot[s].used /\ ~ slot[s].done /\ slot[s].code = 0
          /\ \A b \in Actors \ {a} : SlotOf(b) # s
          /\ \A h \in Handles : open[h] # Nothing => table[h] # s
          /\ \A b \in Actors \ {a} : call[b].pc = "prefill" => call[b].s # s
      BY <2>1, <2>12, OneHolder DEF Orderly, CreatingOK, Creating, s
    <3>2. \A j \in Tids : Living(j) => host[j].self # s
      BY <2>1, <2>12 DEF Orderly, CreatingOK, s
    <3> QED BY <2>1, <2>3, <2>4, <2>5, <2>6, <2>7, <2>9, <2>12, <3>1, <3>2, OneSlotChanges DEF s
  <2> QED BY <2>5, <2>9, <2>11, <2>12 DEF IInv
<1> QED BY <1>1, <1>2 DEF MintTid

LEMMA OpenQueueStep ==
  ASSUME IInv, NEW a \in Actors, OpenQueue(a)
  PROVE  IInv'
<1> DEFINE s == call[a].s
           i == call[a].i
           c == [pc |-> "spawn", s |-> s, i |-> i]
<1>1. call[a].pc = "queue" /\ s \in Slots /\ i \in Tids
  BY CallShape DEF OpenQueue, IInv, TypeOK
<1>2. c \in CallType /\ c.pc = "spawn" /\ c.s = s /\ c.i = i
  BY <1>1, NewCalls
<1>3. /\ call' \in [Actors -> CallType] /\ call'[a] = c
      /\ \A b \in Actors \ {a} : call'[b] = call[b]
  BY <1>2, Entered DEF IInv, TypeOK, OpenQueue
<1>4. UNCHANGED <<slot, minted, host, table, issued, quit, gui, open, posted, got, overlapped, misused>>
  BY DEF OpenQueue, history
<1>5. \/ UNCHANGED queue
      \/ /\ ~ HasQueue(i)
         /\ \E q \in Queues :
              /\ ~ queue[q].used
              /\ queue' = [queue EXCEPT ![q] = [used |-> TRUE, tid |-> i, msgs |-> <<>>]]
  BY DEF OpenQueue
<1> HIDE DEF c
<1>6. /\ queue' \in [Queues -> [used : BOOLEAN, tid : 0 .. MaxTids, msgs : Seq(Nat)]]
      /\ \A q \in Queues : Len(queue'[q].msgs) <= QueueCap
  <2>1. i \in 0 .. MaxTids /\ <<>> \in Seq(Nat) /\ Len(<<>>) <= QueueCap
    BY <1>1, SizesAssumption, EmptySeq DEF Tids
  <2>2. CASE UNCHANGED queue
    BY <2>2 DEF IInv, TypeOK
  <2>3. ASSUME NEW q \in Queues, queue' = [queue EXCEPT ![q] = [used |-> TRUE, tid |-> i, msgs |-> <<>>]]
        PROVE  /\ queue' \in [Queues -> [used : BOOLEAN, tid : 0 .. MaxTids, msgs : Seq(Nat)]]
               /\ \A p \in Queues : Len(queue'[p].msgs) <= QueueCap
    <3>1. /\ queue \in [Queues -> [used : BOOLEAN, tid : 0 .. MaxTids, msgs : Seq(Nat)]]
          /\ \A p \in Queues : Len(queue[p].msgs) <= QueueCap
      BY DEF IInv, TypeOK
    <3> HIDE DEF i
    <3>2. queue' \in [Queues -> [used : BOOLEAN, tid : 0 .. MaxTids, msgs : Seq(Nat)]]
      BY <2>1, <2>3, <3>1
    <3>3. \A p \in Queues : queue'[p].msgs = <<>> \/ queue'[p] = queue[p]
      BY <2>3, <3>1
    <3> QED BY <2>1, <3>1, <3>2, <3>3
  <2> QED BY <1>5, <2>2, <2>3
<1>7. TypeOK'
  BY <1>3, <1>4, <1>6 DEF IInv, TypeOK
<1>8. AlwaysOK'
  BY <1>1, <1>2, <1>3, <1>4 DEF IInv, AlwaysOK, Living
<1>9. ASSUME Orderly
      PROVE  Orderly'
  <2>1. \A b \in Actors : SlotOf(b)' = SlotOf(b)
    BY <1>1, <1>2, <1>3, <1>4, SlotInIs DEF SlotOf, Creating
  <2>2. HoldersOK'
    BY <1>1, <1>2, <1>3, <1>4, <1>9, <2>1 DEF Orderly, HoldersOK
  <2>3. CreatingOK' /\ StatusOK'
    <3>1. CreatingOK'
      BY <1>1, <1>2, <1>3, <1>4, <1>9 DEF Orderly, CreatingOK, Creating, Living
    <3>2. StatusOK'
      BY <1>1, <1>2, <1>3, <1>4, <1>9 DEF Orderly, StatusOK, Tells, Ended, Living
    <3> QED BY <3>1, <3>2
  <2>4. LivingOK' /\ JoinsOK'
    BY <1>1, <1>2, <1>3, <1>4, <1>9 DEF Orderly, LivingOK, JoinsOK, Living
  <2>5. QueuesOK'
    <3>1. CASE UNCHANGED queue
      BY <1>4, <1>9, <3>1 DEF Orderly, QueuesOK, HasQueue
    <3>2. ASSUME ~ HasQueue(i), NEW q \in Queues, ~ queue[q].used,
                 queue' = [queue EXCEPT ![q] = [used |-> TRUE, tid |-> i, msgs |-> <<>>]]
          PROVE  QueuesOK'
      <4>1. /\ queue'[q].used /\ queue'[q].tid = i /\ queue'[q].msgs = <<>>
            /\ \A p \in Queues \ {q} : queue'[p] = queue[p]
        BY <3>2 DEF IInv, TypeOK
      <4>2. \A p \in Queues \ {q} : queue[p].used => queue[p].tid # i
        BY <3>2 DEF HasQueue
      <4>3. posted[i] = got[i] \o queue'[q].msgs
        <5>1. posted[i] = <<>> /\ got[i] = <<>>
          BY <1>1, <1>9, <3>2 DEF Orderly, QueuesOK, HasQueue
        <5> QED BY <4>1, <5>1, EmptySeq, ConcatEmptySeq
      <4> HIDE DEF i
      <4>4. \A p, r \in Queues : queue'[p].used /\ queue'[r].used /\ queue'[p].tid = queue'[r].tid => p = r
        BY <1>9, <4>1, <4>2 DEF Orderly, QueuesOK
      <4>5. ASSUME NEW j \in Tids
            PROVE  \/ \E p \in Queues : /\ queue'[p].used /\ queue'[p].tid = j
                                        /\ posted[j] = got[j] \o queue'[p].msgs
                   \/ ~ HasQueue(j)' /\ posted[j] = <<>> /\ got[j] = <<>>
        <5>1. CASE j = i
          BY <4>1, <4>3, <5>1
        <5>2. CASE j # i
          <6>1. ASSUME NEW p \in Queues, queue[p].used, queue[p].tid = j, posted[j] = got[j] \o queue[p].msgs
                PROVE  queue'[p].used /\ queue'[p].tid = j /\ posted[j] = got[j] \o queue'[p].msgs
            BY <3>2, <4>1, <6>1
          <6>2. ~ HasQueue(j) => ~ HasQueue(j)'
            BY <4>1, <5>2 DEF HasQueue
          <6> QED BY <1>9, <6>1, <6>2 DEF Orderly, QueuesOK
        <5> QED BY <5>1, <5>2
      <4> QED BY <1>4, <4>4, <4>5 DEF QueuesOK
    <3> QED BY <1>5, <3>1, <3>2
  <2> QED BY <2>2, <2>3, <2>4, <2>5 DEF Orderly
<1> QED BY <1>4, <1>7, <1>8, <1>9 DEF IInv

LEMMA SpawnStep ==
  ASSUME IInv, NEW a \in Actors, Spawn(a)
  PROVE  IInv'
<1> DEFINE s == call[a].s
           i == call[a].i
           c == [pc |-> "handle", s |-> s, i |-> i]
           new == [pc |-> "boot", self |-> s, id |-> 0, code |-> 0]
<1>1. CASE Unclaim(s) /\ Returns(a) /\ UNCHANGED host
  BY <1>1, UnclaimStep DEF Spawn, Creating
<1>2. CASE host' = [host EXCEPT ![i] = new] /\ Enters(a, c) /\ UNCHANGED slot
  <2>1. call[a].pc = "spawn" /\ s \in Slots /\ i \in Tids /\ s # Nothing
    BY CallShape DEF Spawn, IInv, TypeOK, Slots, Nothing
  <2>2. c \in CallType /\ c.pc = "handle" /\ c.s = s /\ c.i = i
    BY <2>1, NewCalls
  <2>3. /\ call' \in [Actors -> CallType] /\ call'[a] = c
        /\ \A b \in Actors \ {a} : call'[b] = call[b]
    BY <1>2, <2>2, Entered DEF IInv, TypeOK
  <2>4. UNCHANGED <<slot, minted, queue, quit, gui, posted, got, table, issued, open, overlapped, misused>>
    BY <1>2 DEF Spawn, messaging, history
  <2>5. /\ host' \in [Tids -> [pc : {"unborn", "boot", "run", "ended"}, self : 0 .. NSlots,
                               id : 0 .. MaxTids, code : Nat]]
        /\ host'[i].pc = "boot" /\ host'[i].self = s /\ host'[i].code = 0
        /\ \A j \in Tids \ {i} : host'[j] = host[j]
    <3> DEFINE HostType == [pc : {"unborn", "boot", "run", "ended"}, self : 0 .. NSlots,
                            id : 0 .. MaxTids, code : Nat]
    <3>1. host \in [Tids -> HostType]
      BY DEF IInv, TypeOK
    <3>2. new \in HostType /\ new.pc = "boot" /\ new.self = s /\ new.code = 0
      BY <2>1, SizesAssumption DEF Slots
    <3> HIDE DEF HostType, new, s, i
    <3>3. host' \in [Tids -> HostType] /\ host'[i] = new /\ \A j \in Tids \ {i} : host'[j] = host[j]
      BY <1>2, <2>1, <3>1, <3>2
    <3> QED BY <3>2, <3>3 DEF HostType
  <2>6. /\ host[i].pc = "unborn" /\ i <= minted /\ (a # 0 => host[a].pc = "run")
        /\ \A b \in Actors \ {a} : call[b].pc \in {"queue", "spawn"} => call[b].i # i
    BY <2>1 DEF IInv, AlwaysOK
  <2> HIDE DEF c, s, i
  <2>7. TypeOK'
    BY <2>3, <2>4, <2>5 DEF IInv, TypeOK
  <2>8. AlwaysOK'
    <3>1. \A b \in Actors : b # 0 /\ call'[b].pc # "idle" => b \in Tids /\ host'[b].pc = "run"
      <4>1. \A b \in Actors : b # 0 => b \in Tids
        BY SizesAssumption DEF Actors, Tids
      <4>2. \A b \in Actors : b # 0 /\ call'[b].pc # "idle" => host[b].pc = "run"
        BY <2>3, <2>6 DEF IInv, AlwaysOK
      <4> QED BY <2>5, <2>6, <4>1, <4>2
    <3>2. \A b \in Actors : call[b].pc \in {"queue", "spawn"} => call[b].i \in Tids
      BY CallShape DEF IInv, TypeOK
    <3> QED BY <2>1, <2>2, <2>3, <2>4, <2>5, <2>6, <3>1, <3>2 DEF IInv, AlwaysOK, Living
  <2>9. ASSUME Orderly
        PROVE  Orderly'
    <3>1. slot[s].used /\ ~ slot[s].done /\ slot[s].code = 0 /\ slot[s].tid = i
      BY <2>1, <2>9, OneHolder, CallsSlot DEF Orderly, CreatingOK, Creating, IInv, s, i
    <3>2. \A b \in Actors : SlotOf(b)' = SlotOf(b)
      BY <2>1, <2>2, <2>3, <2>4, SlotInIs DEF SlotOf, Creating, s
    <3>3. HoldersOK'
      BY <2>1, <2>2, <2>3, <2>4, <2>9, <3>2 DEF Orderly, HoldersOK
    <3>4. CreatingOK'
      <4>1. \A b \in Actors \ {a} : call[b].pc \in Creating => call[b].s # s
        BY <2>1, <2>9, OneHolder, CallsSlot DEF IInv, Creating, s
      <4>2. \A b \in Actors : call'[b].pc \in {"mint", "queue", "spawn", "free"} => b # a /\ call'[b] = call[b]
        BY <2>2, <2>3
      <4>3. \A b \in Actors : call'[b].pc = "mint" => \A j \in Tids : Living(j)' => host'[j].self # call'[b].s
        BY <2>5, <2>9, <4>1, <4>2 DEF Orderly, CreatingOK, Creating, Living
      <4> QED BY <2>4, <2>9, <4>2, <4>3 DEF Orderly, CreatingOK, Creating
    <3>5. StatusOK'
      <4>1. Tells(call[a].s, call[a].i)'
        <5>1. call'[a].s = s /\ call'[a].i = i /\ i # Child
          BY <2>1, <2>2, <2>3, SizesAssumption DEF Child, Tids
        <5>2. ~ Ended(call[a].i)' /\ Living(call[a].i)'
          BY <2>5, <5>1 DEF Ended, Living
        <5>3. slot'[s].tid = i /\ slot'[s].code = host'[i].code /\ ~ slot'[s].done
          BY <2>4, <2>5, <3>1
        <5> QED BY <2>1, <2>5, <5>1, <5>2, <5>3 DEF Tells
      <4>2. \A b \in Actors \ {a} : call[b].pc = "handle" => Tells(call[b].s, call[b].i)'
        <5>1. \A b \in Actors \ {a} : call[b].pc = "handle" => Tells(call[b].s, call[b].i) /\ call[b].i # i
          BY <2>1, <2>6, <2>9 DEF Orderly, StatusOK, Tells
        <5> QED BY <2>3, <2>4, <2>5, <5>1 DEF Tells, Ended, Living
      <4>3. \A h \in Handles : open[h] # Nothing => Tells(table[h], open[h])'
        <5>1. \A h \in Handles : open[h] # Nothing => Tells(table[h], open[h]) /\ open[h] # i
          BY <2>1, <2>6, <2>9 DEF Orderly, StatusOK, Tells
        <5> QED BY <2>4, <2>5, <5>1 DEF Tells, Ended, Living
      <4> QED BY <2>3, <2>4, <4>1, <4>2, <4>3 DEF StatusOK
    <3>6. LivingOK'
      BY <2>1, <2>4, <2>5, <2>9, <3>1 DEF Orderly, LivingOK, Living
    <3>7. JoinsOK'
      BY <2>2, <2>3, <2>4, <2>9 DEF Orderly, JoinsOK
    <3>8. QueuesOK'
      BY <2>4, <2>9 DEF Orderly, QueuesOK, HasQueue
    <3> QED BY <3>3, <3>4, <3>5, <3>6, <3>7, <3>8 DEF Orderly
  <2> QED BY <2>4, <2>7, <2>8, <2>9 DEF IInv
<1> QED BY <1>1, <1>2 DEF Spawn

-----------------------------------------------------------------------------
(* A thread begins and ends.                                                 *)

LEMMA BootStep ==
  ASSUME IInv, NEW i \in Tids, Boot(i)
  PROVE  IInv'
<1> DEFINE new == [pc |-> "run", self |-> host[i].self, id |-> slot[host[i].self].tid, code |-> 0]
<1>1. UNCHANGED <<slot, minted, queue, quit, gui, posted, got, table, issued, call, open, overlapped, misused>>
  BY DEF Boot, messaging, history
<1>2. host[i].pc = "boot" /\ host[i].code = 0 /\ host[i].self \in Slots
  BY DEF Boot, IInv, AlwaysOK, TypeOK, Living, Slots, Nothing
<1>3. new \in [pc : {"unborn", "boot", "run", "ended"}, self : 0 .. NSlots,
               id : 0 .. MaxTids, code : Nat]
  BY <1>2 DEF IInv, TypeOK
<1>4. /\ host' \in [Tids -> [pc : {"unborn", "boot", "run", "ended"}, self : 0 .. NSlots,
                             id : 0 .. MaxTids, code : Nat]]
      /\ host'[i].pc = "run" /\ host'[i].self = host[i].self /\ host'[i].code = 0
      /\ host'[i].id = slot[host[i].self].tid
      /\ \A j \in Tids \ {i} : host'[j] = host[j]
  BY <1>3 DEF Boot, IInv, TypeOK
<1>5. \A j \in Tids : Living(j)' <=> Living(j)
  BY <1>2, <1>4 DEF Living
<1>6. \A j \in Tids : /\ host'[j].self = host[j].self /\ host'[j].code = host[j].code
                      /\ host'[j].pc = "unborn" <=> host[j].pc = "unborn"
                      /\ host'[j].pc = "ended" <=> host[j].pc = "ended"
  BY <1>2, <1>4
<1>7. TypeOK'
  BY <1>1, <1>4 DEF IInv, TypeOK
<1>8. AlwaysOK'
  <2>1. \A a \in Actors : call[a].pc # "idle" /\ a # 0 => host'[a].pc = "run"
    <3>1. \A a \in Actors : a # 0 => a \in Tids
      BY SizesAssumption DEF Actors, Tids
    <3> QED BY <1>4, <3>1 DEF IInv, AlwaysOK
  <2>2. \A a \in Actors : call[a].pc \in {"queue", "spawn"} => call[a].i \in Tids
    BY CallShape DEF IInv, TypeOK
  <2>3. \A j \in Tids : host'[j].pc = "boot" => host'[j].code = 0
    BY <1>4 DEF IInv, AlwaysOK
  <2>4. \A a \in Actors : call[a].pc \in {"queue", "spawn"} => host'[call[a].i].pc = "unborn"
    BY <1>6, <2>2 DEF IInv, AlwaysOK
  <2>5. \A j \in Tids : /\ Living(j)' => host'[j].self # Nothing
                        /\ host'[j].pc # "unborn" => j <= minted
    BY <1>5, <1>6 DEF IInv, AlwaysOK
  <2> QED BY <1>1, <2>1, <2>3, <2>4, <2>5 DEF IInv, AlwaysOK
<1>9. ASSUME Orderly
      PROVE  Orderly'
  <2>1. HoldersOK' /\ JoinsOK' /\ QueuesOK'
    BY <1>1, <1>9 DEF Orderly, HoldersOK, JoinsOK, QueuesOK, HasQueue, SlotOf
  <2>2. CreatingOK'
    BY <1>1, <1>5, <1>6, <1>9 DEF Orderly, CreatingOK
  <2>3. StatusOK'
    <3>1. \A s, j : Tells(s, j) => Tells(s, j)'
      BY <1>1, <1>5, <1>6 DEF Tells, Ended
    <3> QED BY <1>1, <1>9, <3>1 DEF Orderly, StatusOK
  <2>4. LivingOK'
    BY <1>1, <1>4, <1>5, <1>9 DEF Orderly, LivingOK, Living
  <2> QED BY <2>1, <2>2, <2>3, <2>4 DEF Orderly
<1> QED BY <1>1, <1>7, <1>8, <1>9 DEF IInv

(* A thread marks its slot done, or leaves it done, and wakes everybody.     *)
LEMMA EndSteps ==
  ASSUME IInv, NEW i \in Actors, EndThreadEx(i) \/ StartReturns(i)
  PROVE  IInv'
<1> DEFINE s == host[i].self
<1>1. /\ i \in Tids /\ call[i] = Idle /\ Idle.pc = "idle" /\ host[i].pc = "run" /\ s \in Slots
  BY IdleType DEF EndThreadEx, StartReturns, CanCall, Tids, IInv, TypeOK, AlwaysOK, Living, Slots, Nothing
<1>2. PICK code \in Codes :
        /\ Ends(i, code)
        /\ Finish(s, code) \/ (slot[s].done /\ UNCHANGED slot)
  BY DEF EndThreadEx, StartReturns
<1>3. code \in Nat
  BY CodesAssumption
<1>4. UNCHANGED <<minted, queue, quit, gui, posted, got, table, issued, open, overlapped, misused>>
  BY DEF EndThreadEx, StartReturns, messaging, history
<1>5. /\ call' \in [Actors -> CallType]
      /\ \A a \in Actors : /\ call[a].pc # "asleep" => call'[a] = call[a]
                           /\ call[a].pc = "asleep" => call'[a] = [pc |-> "awake", h |-> call[a].h,
                                     timed |-> call[a].timed, s |-> call[a].s]
                           /\ call'[a].pc # "asleep"
  BY Broadcasts DEF EndThreadEx, StartReturns, IInv, TypeOK
<1>6. /\ host' \in [Tids -> [pc : {"unborn", "boot", "run", "ended"}, self : 0 .. NSlots,
                             id : 0 .. MaxTids, code : Nat]]
      /\ host'[i].pc = "ended" /\ host'[i].code = code
      /\ \A j \in Tids \ {i} : host'[j] = host[j]
  BY <1>1, <1>2, <1>3, SizesAssumption DEF Ends, IInv, TypeOK, Nothing
<1>7. /\ slot' \in [Slots -> [used : BOOLEAN, done : BOOLEAN, code : Nat, tid : 0 .. MaxTids]]
      /\ \A r \in Slots : slot'[r].used = slot[r].used /\ slot'[r].tid = slot[r].tid
      /\ \A r \in Slots \ {s} : slot'[r] = slot[r]
      /\ slot'[s].done /\ (slot[s].done \/ slot'[s].code = code)
  <2>1. slot \in [Slots -> [used : BOOLEAN, done : BOOLEAN, code : Nat, tid : 0 .. MaxTids]]
    BY DEF IInv, TypeOK
  <2>2. CASE slot[s].done /\ UNCHANGED slot
    BY <2>1, <2>2
  <2>3. CASE Finish(s, code)
    BY <1>1, <1>3, <2>1, <2>3 DEF Finish
  <2> QED BY <1>2, <2>2, <2>3
<1> HIDE DEF s
<1>8. TypeOK'
  BY <1>4, <1>5, <1>6, <1>7 DEF IInv, TypeOK
<1>9. \A a \in Actors : /\ call'[a].pc # "idle" => call[a].pc # "idle"
                        /\ call'[a].pc \in {"mint", "queue", "spawn", "handle", "free", "find", "reap",
                                            "park", "drain", "pump", "prefill"} => call'[a] = call[a]
                        /\ call'[a].pc \in {"wait", "asleep", "awake"} =>
                             call'[a].h = call[a].h /\ call'[a].s = call[a].s
                             /\ call[a].pc \in {"wait", "asleep", "awake"}
  BY <1>5
<1>10. AlwaysOK'
  <2>1. \A a \in Actors : call'[a].pc # "idle" /\ a # 0 => host'[a].pc = "run"
    <3>1. \A a \in Actors : a # 0 => a \in Tids
      BY SizesAssumption DEF Actors, Tids
    <3>2. \A a \in Actors : call'[a].pc # "idle" => a # i
      BY <1>1, <1>9
    <3> QED BY <1>6, <1>9, <3>1, <3>2 DEF IInv, AlwaysOK
  <2>2. \A a \in Actors : call[a].pc \in {"queue", "spawn"} => call[a].i \in Tids /\ call[a].i # i
    BY <1>1, CallShape DEF IInv, TypeOK, AlwaysOK
  <2>3. \A j \in Tids : /\ Living(j)' => host'[j].self # Nothing
                        /\ host'[j].pc # "unborn" => j <= minted
                        /\ host'[j].pc = "boot" => host'[j].code = 0
    BY <1>1, <1>6 DEF IInv, AlwaysOK, Living
  <2> QED BY <1>4, <1>6, <1>9, <2>1, <2>2, <2>3 DEF IInv, AlwaysOK
<1>11. ASSUME Orderly
       PROVE  Orderly'
  <2>1. /\ slot[s].used /\ ~ slot[s].done /\ slot[s].tid = i
        /\ slot'[s].code = code
    BY <1>1, <1>7, <1>11 DEF Orderly, LivingOK, Living, s
  <2>2. \A a \in Actors : SlotOf(a)' = SlotOf(a)
    <3>1. \A a \in Actors : call[a].pc = "asleep" =>
            SlotIn(call[a], table) = Nothing /\ SlotIn(call'[a], table) = Nothing
      BY <1>5, SlotInIs DEF Creating
    <3> QED BY <1>4, <1>5, <3>1 DEF SlotOf
  <2>3. HoldersOK'
    <3>1. HoldersOK
      BY <1>11 DEF Orderly
    <3>2. \A a \in Actors : SlotOf(a)' # Nothing =>
            /\ slot'[SlotOf(a)'].used
            /\ \A b \in Actors \ {a} : SlotOf(b)' # SlotOf(a)'
      BY <1>7, <2>2, <3>1, SlotOfType DEF HoldersOK, IInv
    <3>3. \A h \in Handles : open[h] # Nothing => slot'[table[h]].used
      <4>1. \A h \in Handles : open[h] # Nothing => table[h] \in Slots
        BY DEF IInv, AlwaysOK, TypeOK, Slots, Nothing
      <4> QED BY <1>7, <3>1, <4>1 DEF HoldersOK
    <3>4. \A a \in Actors : call'[a].pc = "prefill" => call'[a] = call[a] /\ call[a].s \in Slots
      BY <1>9, CallShape DEF IInv, TypeOK
    <3>5. \A a \in Actors : call'[a].pc = "prefill" =>
            /\ ~ slot'[call'[a].s].used
            /\ \A b \in Actors \ {a} : call'[b].pc # "prefill"
      BY <1>7, <1>9, <3>1, <3>4 DEF HoldersOK
    <3> QED BY <1>4, <2>2, <3>1, <3>2, <3>3, <3>5 DEF HoldersOK
  <2>4. CreatingOK'
    <3>1. \A a \in Actors : call'[a].pc \in Creating \union {"free"} =>
            call'[a] = call[a] /\ call[a].s \in Slots
      BY <1>9, CallsSlot DEF Creating, IInv
    <3>2. \A a \in Actors : call[a].pc \in Creating => call[a].s # s
      <4>1. \A a \in Actors : call[a].pc = "mint" => call[a].s # s
        BY <1>1, <1>11 DEF Orderly, CreatingOK, Living, s
      <4>2. \A a \in Actors : call[a].pc \in {"queue", "spawn"} => call[a].i # i /\ slot[call[a].s].tid = call[a].i
        BY <1>1, <1>11 DEF Orderly, CreatingOK, IInv, AlwaysOK
      <4> QED BY <2>1, <4>1, <4>2 DEF Creating
    <3>3. \A a \in Actors : call'[a].pc \in Creating =>
            ~ slot'[call'[a].s].done /\ slot'[call'[a].s].code = 0
      BY <1>7, <1>11, <3>1, <3>2 DEF Orderly, CreatingOK
    <3>4. \A a \in Actors : call'[a].pc = "mint" => \A j \in Tids : Living(j)' => host'[j].self # call'[a].s
      BY <1>6, <1>9, <1>11 DEF Orderly, CreatingOK, Living
    <3>5. \A a \in Actors : call'[a].pc \in {"queue", "spawn"} => slot'[call'[a].s].tid = call'[a].i
      BY <1>7, <1>11, <3>1 DEF Orderly, CreatingOK, Creating
    <3>6. \A a \in Actors : call'[a].pc = "free" => slot'[call'[a].s].done
      BY <1>7, <1>11, <3>1 DEF Orderly, CreatingOK
    <3> QED BY <3>3, <3>4, <3>5, <3>6 DEF CreatingOK
  <2>5. ASSUME NEW r \in Slots, NEW j \in Tids \union {Child}, Tells(r, j)
        PROVE  Tells(r, j)'
    <3>1. Child \notin Tids
      BY SizesAssumption DEF Child, Tids
    <3>2. CASE r = s
      <4>1. j = i
        BY <1>1, <2>1, <2>5, <3>2 DEF Tells, Ended
      <4> QED BY <1>1, <1>6, <1>7, <2>1, <3>1, <3>2, <4>1 DEF Tells, Ended, Living
    <3>3. CASE r # s
      <4>1. j # i
        BY <1>1, <2>5, <3>3 DEF Tells, Living, s
      <4> QED BY <1>6, <1>7, <2>5, <3>1, <3>3, <4>1 DEF Tells, Ended, Living
    <3> QED BY <3>2, <3>3
  <2>6. StatusOK'
    <3>1. \A h \in Handles : open[h] # Nothing => table[h] \in Slots /\ open[h] \in Tids \union {Child}
      <4>1. \A h \in Handles : open[h] # Nothing => open[h] \in Tids \union {Child}
        <5>1. \A h \in Handles : open[h] \in 0 .. MaxTids + 1
          BY DEF IInv, TypeOK
        <5> QED BY <5>1, SizesAssumption DEF Nothing, Tids, Child
      <4>2. \A h \in Handles : open[h] # Nothing => table[h] \in Slots
        BY DEF IInv, AlwaysOK, TypeOK, Slots, Nothing
      <4> QED BY <4>1, <4>2
    <3>2. \A h \in Handles : open[h] # Nothing => Tells(table[h], open[h])'
      BY <1>4, <1>11, <2>5, <3>1 DEF Orderly, StatusOK, Tells, Ended, Living
    <3>3. \A a \in Actors : call[a].pc = "handle" => call[a].s \in Slots /\ call[a].i \in Tids \union {Child}
      BY CallShape DEF IInv, TypeOK
    <3>4. \A a \in Actors : call'[a].pc = "handle" => Tells(call[a].s, call[a].i)'
      BY <1>9, <1>11, <2>5, <3>3 DEF Orderly, StatusOK, Tells, Ended, Living
    <3> QED BY <1>4, <3>2, <3>4 DEF StatusOK
  <2>7. LivingOK'
    <3>1. \A j \in Tids : Living(j) => host[j].self \in Slots
      BY DEF IInv, AlwaysOK, TypeOK, Slots, Nothing
    <3>2. \A j \in Tids \ {i} : Living(j) => host[j].self # s
      BY <1>11, <2>1 DEF Orderly, LivingOK
    <3> QED BY <1>6, <1>7, <1>11, <3>1, <3>2 DEF Orderly, LivingOK, Living
  <2>8. JoinsOK'
    BY <1>5 DEF JoinsOK
  <2>9. QueuesOK'
    BY <1>4, <1>11 DEF Orderly, QueuesOK, HasQueue
  <2> QED BY <2>3, <2>4, <2>6, <2>7, <2>8, <2>9 DEF Orderly
<1> QED BY <1>4, <1>8, <1>10, <1>11 DEF IInv

-----------------------------------------------------------------------------
(* Messages.                                                                 *)

LEMMA PostThreadMessageStep ==
  ASSUME IInv, NEW a \in Actors, NEW i \in Tids, PostThreadMessage(a, i)
  PROVE  IInv'
<1> DEFINE n == Posts + 1
<1>1. PICK q \in Queues :
        /\ queue[q].used /\ queue[q].tid = i /\ Len(queue[q].msgs) < QueueCap
        /\ queue' = [queue EXCEPT ![q] = [used |-> TRUE, tid |-> i,
                                          msgs |-> Append(queue[q].msgs, n)]]
  BY DEF PostThreadMessage
<1>2. n \in Nat
  BY PostsIsNat DEF IInv
<1>3. /\ posted' = [posted EXCEPT ![i] = Append(posted[i], n)]
      /\ UNCHANGED <<slot, minted, host, table, issued, call, quit, gui, open, got, overlapped, misused>>
  BY DEF PostThreadMessage, history
<1> HIDE DEF n
<1>4. /\ queue \in [Queues -> [used : BOOLEAN, tid : 0 .. MaxTids, msgs : Seq(Nat)]]
      /\ \A p \in Queues : Len(queue[p].msgs) <= QueueCap
      /\ posted \in [Tids -> Seq(Nat)] /\ got \in [Tids -> Seq(Nat)]
  BY DEF IInv, TypeOK
<1>5. /\ queue[q].msgs \in Seq(Nat) /\ posted[i] \in Seq(Nat) /\ got[i] \in Seq(Nat)
      /\ Append(queue[q].msgs, n) \in Seq(Nat) /\ Append(posted[i], n) \in Seq(Nat)
      /\ Len(Append(queue[q].msgs, n)) = Len(queue[q].msgs) + 1
      /\ Len(queue[q].msgs) \in Nat
  <2>1. queue[q].msgs \in Seq(Nat) /\ posted[i] \in Seq(Nat) /\ got[i] \in Seq(Nat)
    BY <1>4
  <2> QED BY <1>2, <2>1, AppendProperties, LenProperties
<1>6. /\ queue' \in [Queues -> [used : BOOLEAN, tid : 0 .. MaxTids, msgs : Seq(Nat)]]
      /\ queue'[q].used /\ queue'[q].tid = i /\ queue'[q].msgs = Append(queue[q].msgs, n)
      /\ \A p \in Queues \ {q} : queue'[p] = queue[p]
  BY <1>1, <1>4, <1>5, SizesAssumption DEF Tids
<1>7. /\ posted' \in [Tids -> Seq(Nat)] /\ posted'[i] = Append(posted[i], n)
      /\ \A j \in Tids \ {i} : posted'[j] = posted[j]
  BY <1>3, <1>4, <1>5
<1>8. \A p \in Queues : Len(queue'[p].msgs) <= QueueCap
  BY <1>1, <1>4, <1>5, <1>6, SizesAssumption
<1>9. TypeOK'
  BY <1>3, <1>6, <1>7, <1>8 DEF IInv, TypeOK
<1>10. AlwaysOK'
  BY <1>3 DEF IInv, AlwaysOK, Living
<1>11. ASSUME Orderly
       PROVE  Orderly'
  <2>1. HoldersOK' /\ CreatingOK' /\ StatusOK' /\ LivingOK' /\ JoinsOK'
    <3>1. HoldersOK' /\ CreatingOK'
      BY <1>3, <1>11 DEF Orderly, HoldersOK, SlotOf, CreatingOK, Living
    <3>2. StatusOK'
      BY <1>3, <1>11 DEF Orderly, StatusOK, Tells, Ended, Living
    <3>3. LivingOK' /\ JoinsOK'
      BY <1>3, <1>11 DEF Orderly, LivingOK, Living, JoinsOK
    <3> QED BY <3>1, <3>2, <3>3
  <2>2. QueuesOK
    BY <1>11 DEF Orderly
  <2>3. \A p, r \in Queues : queue'[p].used /\ queue'[r].used /\ queue'[p].tid = queue'[r].tid => p = r
    BY <1>1, <1>6, <2>2 DEF QueuesOK
  <2>4. posted[i] = got[i] \o queue[q].msgs
    BY <1>1, <2>2 DEF QueuesOK, HasQueue
  <2>5. posted'[i] = got[i] \o queue'[q].msgs
    <3>1. Append(got[i] \o queue[q].msgs, n) = got[i] \o Append(queue[q].msgs, n)
      BY <1>2, <1>5, PostedLast, Zenon
    <3> QED BY <1>6, <1>7, <2>4, <3>1, Zenon
  <2>6. ASSUME NEW j \in Tids
        PROVE  \/ \E p \in Queues : /\ queue'[p].used /\ queue'[p].tid = j
                                    /\ posted'[j] = got[j] \o queue'[p].msgs
               \/ ~ HasQueue(j)' /\ posted'[j] = <<>> /\ got[j] = <<>>
    <3>1. CASE j = i
      BY <1>6, <2>5, <3>1
    <3>2. CASE j # i
      <4>1. ASSUME NEW p \in Queues, queue[p].used, queue[p].tid = j, posted[j] = got[j] \o queue[p].msgs
            PROVE  queue'[p].used /\ queue'[p].tid = j /\ posted'[j] = got[j] \o queue'[p].msgs
        BY <1>1, <1>6, <1>7, <3>2, <4>1
      <4>2. ~ HasQueue(j) => ~ HasQueue(j)'
        BY <1>6, <3>2 DEF HasQueue
      <4> QED BY <1>7, <2>2, <3>2, <4>1, <4>2 DEF QueuesOK
    <3> QED BY <3>1, <3>2
  <2>7. QueuesOK'
    BY <1>3, <2>3, <2>6 DEF QueuesOK
  <2> QED BY <2>1, <2>7 DEF Orderly
<1> QED BY <1>3, <1>9, <1>10, <1>11 DEF IInv

LEMMA GetMessageDrainsStep ==
  ASSUME IInv, NEW i \in Actors, GetMessageDrains(i)
  PROVE  IInv'
<1>1. /\ call[i].pc = "drain" /\ i \in Tids /\ host[i].pc = "run"
  BY SizesAssumption DEF GetMessageDrains, IInv, AlwaysOK, Actors, Tids
<1>2. CASE Enters(i, [pc |-> "park"]) /\ UNCHANGED <<queue, got>>
  <2>1. [pc |-> "park"] \in CallType /\ [pc |-> "park"].pc = "park" /\ i # 0
    BY <1>1, NewCalls DEF Tids
  <2>2. UNCHANGED <<slot, minted, host, messaging, table, issued, open, history>>
    BY <1>2 DEF GetMessageDrains, messaging
  <2> QED BY <1>1, <1>2, <2>1, <2>2, OnlyTheCall
<1>3. ASSUME NEW q \in Queues, queue[q].used, queue[q].tid = host[i].id, queue[q].msgs # <<>>,
             queue' = [queue EXCEPT ![q].msgs = Tail(queue[q].msgs)],
             got' = [got EXCEPT ![i] = Append(got[i], Head(queue[q].msgs))],
             Returns(i)
      PROVE  IInv'
  <2>1. /\ call' \in [Actors -> CallType] /\ call'[i] = Idle /\ Idle.pc = "idle"
        /\ \A b \in Actors \ {i} : call'[b] = call[b]
    BY <1>3, IdleType, Entered DEF Returns, IInv, TypeOK
  <2>2. UNCHANGED <<slot, minted, host, table, issued, quit, gui, open, posted, overlapped, misused>>
    BY DEF GetMessageDrains, history
  <2>3. /\ queue \in [Queues -> [used : BOOLEAN, tid : 0 .. MaxTids, msgs : Seq(Nat)]]
        /\ \A p \in Queues : Len(queue[p].msgs) <= QueueCap
        /\ posted \in [Tids -> Seq(Nat)] /\ got \in [Tids -> Seq(Nat)]
    BY DEF IInv, TypeOK
  <2> DEFINE m == queue[q].msgs
  <2>4. m \in Seq(Nat) /\ m # <<>> /\ got[i] \in Seq(Nat)
    BY <1>1, <1>3, <2>3
  <2> HIDE DEF m
  <2>5. /\ Tail(m) \in Seq(Nat) /\ Head(m) \in Nat /\ Append(got[i], Head(m)) \in Seq(Nat)
        /\ Len(Tail(m)) = Len(m) - 1 /\ Len(m) \in Nat
    BY <2>4, HeadTailProperties, AppendProperties, LenProperties
  <2>6. /\ queue' = [queue EXCEPT ![q].msgs = Tail(m)]
        /\ got' = [got EXCEPT ![i] = Append(got[i], Head(m))]
    BY <1>3 DEF m
  <2>7. /\ queue' \in [Queues -> [used : BOOLEAN, tid : 0 .. MaxTids, msgs : Seq(Nat)]]
        /\ queue'[q].used = queue[q].used /\ queue'[q].tid = queue[q].tid /\ queue'[q].msgs = Tail(m)
        /\ \A p \in Queues \ {q} : queue'[p] = queue[p]
    BY <2>3, <2>5, <2>6
  <2>8. /\ got' \in [Tids -> Seq(Nat)] /\ got'[i] = Append(got[i], Head(m))
        /\ \A j \in Tids \ {i} : got'[j] = got[j]
    BY <1>1, <2>3, <2>5, <2>6
  <2>9. \A p \in Queues : Len(queue'[p].msgs) <= QueueCap
    <3>1. Len(m) <= QueueCap
      BY <2>3 DEF m
    <3>2. Len(Tail(m)) <= QueueCap
      BY <2>5, <3>1, SizesAssumption
    <3> QED BY <2>3, <2>7, <3>2
  <2>10. TypeOK'
    BY <2>1, <2>2, <2>7, <2>8, <2>9 DEF IInv, TypeOK
  <2>11. AlwaysOK'
    BY <2>1, <2>2 DEF IInv, AlwaysOK, Living
  <2>12. ASSUME Orderly
         PROVE  Orderly'
    <3>1. \A b \in Actors : SlotOf(b)' = SlotOf(b)
      BY <1>1, <2>1, <2>2, SlotInIs DEF SlotOf, Creating
    <3>2. HoldersOK'
      BY <2>1, <2>2, <2>12, <3>1 DEF Orderly, HoldersOK
    <3>3. CreatingOK' /\ StatusOK' /\ LivingOK' /\ JoinsOK'
      <4>1. CreatingOK'
        BY <2>1, <2>2, <2>12 DEF Orderly, CreatingOK, Creating, Living
      <4>2. StatusOK'
        BY <2>1, <2>2, <2>12 DEF Orderly, StatusOK, Tells, Ended, Living
      <4>3. LivingOK' /\ JoinsOK'
        BY <2>1, <2>2, <2>12 DEF Orderly, LivingOK, Living, JoinsOK
      <4> QED BY <4>1, <4>2, <4>3
    <3>4. QueuesOK /\ host[i].id = i
      BY <1>1, <2>12 DEF Orderly, LivingOK, Living
    <3>5. \A p, r \in Queues : queue'[p].used /\ queue'[r].used /\ queue'[p].tid = queue'[r].tid => p = r
      <4>1. \A p \in Queues : queue'[p].used = queue[p].used /\ queue'[p].tid = queue[p].tid
        BY <2>7
      <4> QED BY <3>4, <4>1 DEF QueuesOK
    <3>6. posted[i] = got[i] \o m
      <4>1. queue[q].used /\ queue[q].tid = i
        BY <1>3, <3>4
      <4>2. HasQueue(i)
        BY <4>1 DEF HasQueue
      <4>3. PICK r \in Queues : queue[r].used /\ queue[r].tid = i /\ posted[i] = got[i] \o queue[r].msgs
        BY <1>1, <3>4, <4>2 DEF QueuesOK
      <4>4. r = q
        BY <3>4, <4>1, <4>3 DEF QueuesOK
      <4> QED BY <4>3, <4>4 DEF m
    <3>7. posted[i] = got'[i] \o queue'[q].msgs
      BY <2>4, <2>7, <2>8, <3>6, GotFirst
    <3>8. ASSUME NEW j \in Tids
          PROVE  \/ \E p \in Queues : /\ queue'[p].used /\ queue'[p].tid = j
                                      /\ posted[j] = got'[j] \o queue'[p].msgs
                 \/ ~ HasQueue(j)' /\ posted[j] = <<>> /\ got'[j] = <<>>
      <4>1. CASE j = i
        BY <1>3, <2>7, <3>4, <3>7, <4>1
      <4>2. CASE j # i
        <5>1. ASSUME NEW p \in Queues, queue[p].used, queue[p].tid = j, posted[j] = got[j] \o queue[p].msgs
              PROVE  queue'[p].used /\ queue'[p].tid = j /\ posted[j] = got'[j] \o queue'[p].msgs
          BY <1>3, <2>7, <2>8, <3>4, <4>2, <5>1
        <5>2. ~ HasQueue(j) => ~ HasQueue(j)'
          BY <2>7 DEF HasQueue
        <5> QED BY <2>8, <3>4, <4>2, <5>1, <5>2 DEF QueuesOK
      <4> QED BY <4>1, <4>2
    <3>9. QueuesOK'
      BY <2>2, <3>5, <3>8 DEF QueuesOK
    <3> QED BY <3>2, <3>3, <3>9 DEF Orderly
  <2> QED BY <2>2, <2>10, <2>11, <2>12 DEF IInv
<1> QED BY <1>2, <1>3 DEF GetMessageDrains

LEMMA OrderlyKept ==
  ASSUME Orderly, UNCHANGED <<slot, host, queue, table, call, open, posted, got>>
  PROVE  Orderly'
<1>1. HoldersOK' /\ CreatingOK'
  BY DEF Orderly, HoldersOK, SlotOf, CreatingOK, Living
<1>2. StatusOK' /\ LivingOK' /\ JoinsOK'
  <2>1. StatusOK'
    BY DEF Orderly, StatusOK, Tells, Ended, Living
  <2>2. LivingOK' /\ JoinsOK'
    BY DEF Orderly, LivingOK, Living, JoinsOK
  <2> QED BY <2>1, <2>2
<1>3. QueuesOK'
  BY DEF Orderly, QueuesOK, HasQueue
<1> QED BY <1>1, <1>2, <1>3 DEF Orderly

LEMMA PostQuitMessageStep ==
  ASSUME IInv, NEW a \in Actors, PostQuitMessage(a)
  PROVE  IInv'
<1>1. quit' = TRUE /\ UNCHANGED <<slot, minted, host, queue, table, issued, call, gui, open, posted, got,
                                  overlapped, misused>>
  BY DEF PostQuitMessage, history
<1>2. TypeOK' /\ AlwaysOK'
  BY <1>1 DEF IInv, TypeOK, AlwaysOK, Living
<1>3. Orderly => Orderly'
  BY <1>1, OrderlyKept
<1> QED BY <1>1, <1>2, <1>3 DEF IInv

-----------------------------------------------------------------------------
LEMMA NextInv == IInv /\ [Next]_vars => IInv'
<1> SUFFICES ASSUME IInv, [Next]_vars PROVE IInv'
  OBVIOUS
<1>1. CASE UNCHANGED vars
  <2>1. Orderly => Orderly'
    BY <1>1, OrderlyKept DEF vars
  <2>2. TypeOK' /\ AlwaysOK'
    BY <1>1 DEF vars, IInv, TypeOK, AlwaysOK, Living
  <2> QED BY <1>1, <2>1, <2>2 DEF vars, IInv
<1>2. ASSUME NEW a \in Actors, Step(a)
      PROVE  IInv'
  BY <1>2, MintTidStep, OpenQueueStep, SpawnStep, PrefillStep, IssueHandleStep, WaitSteps,
     ReleaseReadsStep, ReleaseFreesStep, GetMessageSteps, GetMessageDrainsStep DEF Step
<1>3. ASSUME NEW a \in Actors, Call(a)
      PROVE  IInv'
  BY <1>3, CreateThreadStep, CreateProcessStep, CloseHandleStep, WaitSteps, PostThreadMessageStep,
     PostQuitMessageStep, GetMessageSteps, EndSteps DEF Call
<1>4. ASSUME NEW a \in Actors, SpuriousWakeup(a)
      PROVE  IInv'
  BY <1>4, WaitSteps
<1>5. ASSUME NEW i \in Tids, Boot(i)
      PROVE  IInv'
  BY <1>5, BootStep
<1>6. ASSUME NEW a \in Actors, GetMessagePumps(a)
      PROVE  IInv'
  BY <1>6, GetMessagePumpsStep
<1> QED BY <1>1, <1>2, <1>3, <1>4, <1>5, <1>6 DEF Next

LEMMA AlwaysInv == Spec => []IInv
BY InitInv, NextInv, PTL DEF Spec

(* The tables of threads and queues keep their types, and a thread that      *)
(* lives has its slot to itself whatever others create, close or end: for    *)
(* every number of threads, slots, queues and handles.                       *)
THEOREM ThreadsOwnTheirSlots == Spec => []ThreadTablesOK
<1>1. IInv => ThreadTablesOK
  BY DEF IInv, ThreadTablesOK, LivingThreadsOwnSlots, Orderly, LivingOK
<1> QED BY <1>1, AlwaysInv, PTL

(* Whoever holds a handle reads from its slot whether the thread has ended   *)
(* and with which code, and nobody sleeps on for a thread that is done.      *)
THEOREM JoinsAlwaysLearnTheEnd == Spec => []JoinsLearnTheEnd
<1>1. IInv => ExitStatusKept
  BY DEF IInv, ExitStatusKept, Orderly, HoldersOK, StatusOK, Tells
<1>2. IInv => NoLostJoin
  BY DEF IInv, NoLostJoin, Orderly, JoinsOK
<1> QED BY <1>1, <1>2, AlwaysInv, PTL DEF JoinsLearnTheEnd

(* What was posted to a thread is what it got followed by what its queue     *)
(* holds: nothing is lost, doubled or overtaken in the ring.                 *)
THEOREM MessagesStayInOrder == Spec => []MessagesInOrder
<1>1. IInv => MessagesInOrder
  BY DEF IInv, MessagesInOrder, Orderly, QueuesOK
<1> QED BY <1>1, AlwaysInv, PTL

(* A wait without a timeout is over only when its thread has ended or its    *)
(* handle was closed under it, however often its sleep was interrupted.      *)
THEOREM WaitsAreNeverEarly == Spec => WaitNeverEarly
<1> DEFINE NotEarly(a) ==
      /\ call[a].pc \in {"find", "wait", "asleep", "awake"}
      /\ ~ call[a].timed /\ call'[a] = Idle
      /\ ~ overlapped /\ ~ misused
      => open[call[a].h] = Nothing \/ Ended(open[call[a].h])
<1>1. IInv /\ [Next]_vars => [\A a \in Actors : NotEarly(a)]_vars
  <2> SUFFICES ASSUME IInv, [Next]_vars, vars' # vars, NEW a \in Actors,
                      call[a].pc \in {"find", "wait", "asleep", "awake"},
                      ~ call[a].timed, call'[a] = Idle, ~ overlapped, ~ misused,
                      open[call[a].h] # Nothing
               PROVE  Ended(open[call[a].h])
    OBVIOUS
  <2>1. /\ Orderly /\ call \in [Actors -> CallType] /\ call[a] \in CallType
        /\ Idle.pc = "idle" /\ call[a].pc # "idle"
    BY IdleType DEF IInv, TypeOK
  <2>2. call[a].h \in Handles
    BY <2>1, CallShape
  <2>3. /\ slot[table[call[a].h]].used /\ table[call[a].h] # Nothing
        /\ slot[table[call[a].h]].done <=> Ended(open[call[a].h])
    BY <2>1, <2>2 DEF Orderly, HoldersOK, StatusOK, Tells, IInv, AlwaysOK
  <2>4. CASE WaitFinds(a)
    BY <2>1, <2>3, <2>4 DEF WaitFinds, Lookup, Enters, Returns
  <2>5. CASE WaitTests(a)
    <3>1. slot[call[a].s].done
      BY <2>1, <2>5 DEF WaitTests, Enters, Returns
    <3>2. table[call[a].h] = call[a].s
      BY <2>5 DEF WaitTests, IInv, AlwaysOK
    <3> QED BY <2>3, <3>1, <3>2
  <2>6. CASE WaitTimesOut(a)
    BY <2>6 DEF WaitTimesOut
  <2>7. CASE ~ (WaitFinds(a) \/ WaitTests(a) \/ WaitTimesOut(a))
    <3>1. \A b \in Actors : \A c : Enters(b, c) /\ b # a => call'[a] = call[a]
      BY <2>1 DEF Enters
    <3>2. \A b \in Actors : CanCall(b) => b # a
      BY <2>1 DEF CanCall
    <3>3. ASSUME NEW b \in Actors, Step(b)
          PROVE  call'[a] # Idle
      <4>1. b # a
        BY <2>7, <3>3 DEF Step, MintTid, OpenQueue, Spawn, Prefill, IssueHandle, ReleaseReads,
                          ReleaseFrees, GetMessageChecksQuit, GetMessageDrains
      <4>2. UNCHANGED call \/ \E c : Enters(b, c)
        BY <3>3, Zenon DEF Step, MintTid, OpenQueue, Spawn, Prefill, IssueHandle, WaitFinds, WaitTests,
             WaitTimesOut, ReleaseReads, ReleaseFrees, GetMessageChecksQuit, GetMessageDrains, Returns
      <4> QED BY <2>1, <3>1, <4>1, <4>2
    <3>4. ASSUME NEW b \in Actors, Call(b)
          PROVE  call'[a] # Idle
      <4>1. CASE EndThreadEx(b) \/ StartReturns(b)
        <5>1. Broadcast
          BY <4>1 DEF EndThreadEx, StartReturns
        <5>2. /\ call[a].pc # "asleep" => call'[a] = call[a]
              /\ call[a].pc = "asleep" => call'[a] = [pc |-> "awake", h |-> call[a].h,
                                                    timed |-> call[a].timed, s |-> call[a].s]
          BY <2>1, <5>1, Broadcasts
        <5> QED BY <2>1, <5>2
      <4>2. CASE ~ (EndThreadEx(b) \/ StartReturns(b))
        <5>1. b # a \/ UNCHANGED call
          BY <3>2, <3>4, <4>2 DEF Call, CreateThread, CreateProcess, CloseHandle, WaitForSingleObject,
               PostThreadMessage, PostQuitMessage, GetMessage
        <5>2. UNCHANGED call \/ \E c : Enters(b, c)
          BY <3>4, <4>2, Zenon DEF Call, CreateThread, CreateProcess, CloseHandle, WaitForSingleObject,
               PostThreadMessage, PostQuitMessage, GetMessage
        <5> QED BY <2>1, <3>1, <5>1, <5>2
      <4> QED BY <4>1, <4>2
    <3>5. ASSUME NEW b \in Actors, SpuriousWakeup(b)
          PROVE  call'[a] # Idle
      <4>1. CASE b # a
        BY <2>1, <3>5, <4>1 DEF SpuriousWakeup
      <4>2. CASE b = a
        <5>1. call'[a] = [call[a] EXCEPT !.pc = "awake"] /\ call[a].pc = "asleep"
          BY <2>1, <3>5, <4>2 DEF SpuriousWakeup
        <5>2. call'[a].pc = "awake"
          BY <2>1, <5>1, Wakes
        <5> QED BY <2>1, <5>2
      <4> QED BY <4>1, <4>2
    <3>6. ASSUME NEW i \in Tids, Boot(i)
          PROVE  call'[a] # Idle
      BY <2>1, <3>6 DEF Boot
    <3>7. ASSUME NEW b \in Actors, GetMessagePumps(b)
          PROVE  call'[a] # Idle
      <4>1. b # a /\ Enters(b, Idle)
        BY <2>1, <3>7 DEF GetMessagePumps, Returns
      <4> QED BY <2>1, <3>1, <4>1
    <3> QED BY <3>3, <3>4, <3>5, <3>6, <3>7 DEF Next, vars
  <2> QED BY <2>4, <2>5, <2>6, <2>7
<1> QED BY <1>1, AlwaysInv, PTL DEF WaitNeverEarly, Spec

=============================================================================
