----------------------------- MODULE Locks_proof -----------------------------
(***************************************************************************)
(* Proofs about Locks for every number of threads, locks, condition        *)
(* variables and table entries: the tables keep their types, whatever is   *)
(* initialised is initialised once, and the locks exclude.                 *)
(***************************************************************************)
EXTENDS Locks, FiniteSetTheorems, TLAPS

(* What the program counter of a call says of its locals.                    *)
LEMMA CallShape ==
  ASSUME NEW c \in CallType
  PROVE  /\ c.pc = "idle" => c = Idle
         /\ c.pc \in {"test", "init", "mark", "lock"} =>
              c \in [pc : {"test", "init", "mark", "lock"}, for : {"enter", "try", "initialise"}]
         /\ c.pc = "write" => c \in [pc : {"write"}, k : Srws, try : BOOLEAN]
         /\ c.pc \in {"released", "asleep", "awake"} =>
              c \in [pc : {"released", "asleep", "awake"}, v : Cvs, lock : Srws \union {"cs"},
                     timed : BOOLEAN]
BY DEF CallType, Idle

LEMMA IdleType == Idle \in CallType /\ Idle.pc = "idle"
BY DEF CallType, Idle

-----------------------------------------------------------------------------
(* The inductive invariant.                                                  *)

(* The mutex of the critical section has an owner exactly while it is        *)
(* locked.  A section that is not initialised has nobody inside or on the    *)
(* way in; as long as two threads did not initialise it at once, only one is *)
(* doing so and the section is not ready yet; and what each thread believes  *)
(* to hold is what the mutex counts for it.                                  *)
CsInv ==
  /\ cs.owner = None <=> cs.depth = 0
  /\ ~ cs.ready => \A t \in Threads : /\ has[t].cs = 0 /\ call[t].pc # "lock"
                                      /\ Sleeping(t) => call[t].lock # "cs"
  /\ ~ blurred =>
       /\ \A t \in Threads : call[t].pc \in {"init", "mark"} =>
            /\ ~ cs.ready
            /\ \A u \in Threads \ {t} : call[u].pc \notin {"init", "mark"}
       /\ \A t \in Threads : has[t].cs = IF cs.owner = t THEN cs.depth ELSE 0

(* Whoever holds a lock with an entry is its writer; one without an entry is *)
(* held only once the table is full; who is about to lock, or will lock      *)
(* again after a sleep, has an entry; and the cell counts the readers.       *)
Readers(k) == {t \in Threads : k \in has[t].r}

SrwInv ==
  /\ \A t \in Threads : \A k \in has[t].w :
       IF k \in srws THEN writer[k] = t ELSE Cardinality(srws) = NSrws
  /\ \A t \in Threads :
       /\ call[t].pc = "write" => call[t].k \in srws
       /\ Sleeping(t) /\ call[t].lock # "cs" => call[t].lock \in srws
  /\ \A k \in Srws : cell[k] = Cardinality(Readers(k))

(* One thread initialises while the word is busy; the word says done only    *)
(* after a success.                                                          *)
OnceInv ==
  /\ \A t \in Initialising : once = "busy" /\ \A u \in Initialising : t = u
  /\ finished <=> once \in {"done", "donectx"}
  /\ told \ early # {} => finished

IInv == TypeOK /\ CsInv /\ SrwInv /\ OnceInv

LEMMA InitInv == Init => IInv
<1> SUFFICES ASSUME Init PROVE IInv
  OBVIOUS
<1> USE IdleType, TablesAssumption, ThreadsAssumption DEF Init
<1>1. \A t \in Threads : call[t].pc = "idle"
  OBVIOUS
<1>2. Cardinality({}) = 0 /\ \A k \in Srws : Readers(k) = {}
  BY FS_EmptySet DEF Readers
<1>3. TypeOK
  <2>1. has \in [Threads -> [cs : Nat, w : SUBSET Srws, r : SUBSET Srws]]
    OBVIOUS
  <2>2. srws \subseteq Srws /\ Cardinality(srws) <= NSrws /\ cvs \subseteq Cvs /\ Cardinality(cvs) <= NCvs
    BY <1>2
  <2> QED BY <2>1, <2>2 DEF TypeOK
<1>4. CsInv
  BY <1>1 DEF CsInv, Sleeping
<1>5. SrwInv
  BY <1>1, <1>2 DEF SrwInv, Sleeping
<1>6. OnceInv
  BY <1>1 DEF OnceInv, Initialising
<1> QED BY <1>3, <1>4, <1>5, <1>6 DEF IInv

-----------------------------------------------------------------------------
(* What the steps have in common                                             *)

(* A call of one thread: the others' stay.                                   *)
LEMMA Went ==
  ASSUME TypeOK, NEW t \in Threads, NEW c \in CallType, Goes(t, c)
  PROVE  /\ call' \in [Threads -> CallType] /\ call'[t] = c
         /\ \A u \in Threads \ {t} : call'[u] = call[u]
BY DEF TypeOK, Goes

(* Sleepers that are woken keep their locals.                                *)
LEMMA WokenCalls ==
  ASSUME TypeOK, NEW v \in Cvs, NEW ts \in SUBSET Asleep(v)
  PROVE  /\ Woken(ts) \in [Threads -> CallType]
         /\ \A u \in Threads :
              \/ Woken(ts)[u] = call[u]
              \/ /\ call[u].pc = "asleep" /\ Woken(ts)[u].pc = "awake"
                 /\ Woken(ts)[u].lock = call[u].lock
<1> SUFFICES ASSUME NEW u \in Threads
             PROVE  /\ Woken(ts)[u] \in CallType
                    /\ \/ Woken(ts)[u] = call[u]
                       \/ /\ call[u].pc = "asleep" /\ Woken(ts)[u].pc = "awake"
                          /\ Woken(ts)[u].lock = call[u].lock
  BY DEF Woken
<1>1. CASE u \in ts
  <2>1. call[u] \in CallType /\ call[u].pc = "asleep"
    BY <1>1 DEF TypeOK, Asleep, At
  <2>2. call[u] \in [pc : {"released", "asleep", "awake"}, v : Cvs, lock : Srws \union {"cs"},
                     timed : BOOLEAN]
    BY <2>1, CallShape
  <2>3. Woken(ts)[u] = [call[u] EXCEPT !.pc = "awake"]
    BY <1>1 DEF Woken
  <2> QED BY <2>1, <2>2, <2>3 DEF CallType
<1>2. CASE u \notin ts
  BY <1>2 DEF Woken, TypeOK
<1> QED BY <1>1, <1>2

(* The table of SRW locks grows by the address looked up, until it is full.  *)
LEMMA SrwGrows ==
  ASSUME TypeOK, NEW k \in Srws, SrwGet(k)
  PROVE  /\ srws' \subseteq Srws /\ Cardinality(srws') <= NSrws
         /\ srws \subseteq srws' /\ srws' \subseteq srws \union {k}
         /\ Cardinality(srws) = NSrws => srws' = srws
         /\ k \notin srws' => Cardinality(srws') = NSrws
<1>1. IsFiniteSet(srws) /\ Cardinality(srws) \in Nat
  BY AddressAssumption, FS_Subset, FS_CardinalityType DEF TypeOK
<1>2. k \notin srws => Cardinality(srws \union {k}) = Cardinality(srws) + 1
  BY <1>1, FS_AddElement
<1>3. k \in srws => srws \union {k} = srws
  OBVIOUS
<1>4. CASE Cardinality(srws) < NSrws
  <2>1. srws' = srws \union {k}
    BY <1>4 DEF SrwGet
  <2>2. Cardinality(srws') \in {Cardinality(srws), Cardinality(srws) + 1}
    BY <1>2, <1>3, <2>1, Zenon
  <2> QED BY <1>1, <1>4, <2>1, <2>2, TablesAssumption DEF TypeOK
<1>5. CASE ~ Cardinality(srws) < NSrws
  <2>1. srws' = srws
    BY <1>5 DEF SrwGet
  <2>2. Cardinality(srws) <= NSrws
    BY DEF TypeOK
  <2>3. Cardinality(srws) = NSrws
    BY <1>1, <1>5, <2>2, TablesAssumption
  <2> QED BY <2>1, <2>3 DEF TypeOK
<1> QED BY <1>4, <1>5

LEMMA CvGrows ==
  ASSUME TypeOK, NEW v \in Cvs, CvGet(v)
  PROVE  cvs' \subseteq Cvs /\ Cardinality(cvs') <= NCvs
<1>1. IsFiniteSet(cvs) /\ Cardinality(cvs) \in Nat
  BY AddressAssumption, FS_Subset, FS_CardinalityType DEF TypeOK
<1>2. v \notin cvs => Cardinality(cvs \union {v}) = Cardinality(cvs) + 1
  BY <1>1, FS_AddElement
<1>3. v \in cvs => cvs \union {v} = cvs
  OBVIOUS
<1>4. CASE Cardinality(cvs) < NCvs
  <2>1. cvs' = cvs \union {v}
    BY <1>4 DEF CvGet
  <2>2. Cardinality(cvs') \in {Cardinality(cvs), Cardinality(cvs) + 1}
    BY <1>2, <1>3, <2>1, Zenon
  <2> QED BY <1>1, <1>4, <2>1, <2>2, TablesAssumption DEF TypeOK
<1>5. CASE ~ Cardinality(cvs) < NCvs
  BY <1>5 DEF CvGet, TypeOK
<1> QED BY <1>4, <1>5

(* Locking and unlocking the recursive mutex.                                *)
LEMMA MutexSteps ==
  ASSUME TypeOK, CsInv, NEW t \in Threads
  PROVE  /\ cs.owner \in {None, t} =>
              /\ Locked(t) \in [ready : BOOLEAN, owner : Threads \union {None}, depth : Nat]
              /\ Locked(t).owner = t /\ Locked(t).depth = cs.depth + 1 /\ Locked(t).depth # 0
              /\ Locked(t).ready = cs.ready
         /\ Unlocked(t) \in [ready : BOOLEAN, owner : Threads \union {None}, depth : Nat]
         /\ Unlocked(t).ready = cs.ready
         /\ Unlocked(t).owner = None <=> Unlocked(t).depth = 0
         /\ cs.owner # t => Unlocked(t) = cs
         /\ cs.owner = t => /\ Unlocked(t).depth = cs.depth - 1
                            /\ Unlocked(t).owner \in {None, t}
<1>1. t # None
  BY ThreadsAssumption
<1> QED BY <1>1 DEF TypeOK, CsInv, Locked, Unlocked

(* A reader more, a reader less.                                             *)
LEMMA ReaderSteps ==
  ASSUME TypeOK, SrwInv, NEW t \in Threads, NEW k \in Srws
  PROVE  /\ k \notin has[t].r => Cardinality(Readers(k) \union {t}) = cell[k] + 1
         /\ k \in has[t].r => /\ cell[k] - 1 \in Nat
                              /\ Cardinality(Readers(k) \ {t}) = cell[k] - 1
<1>1. IsFiniteSet(Readers(k)) /\ cell[k] = Cardinality(Readers(k)) /\ cell[k] \in Nat
  BY ThreadsAssumption, FS_Subset DEF Readers, SrwInv, TypeOK
<1>2. CASE k \notin has[t].r
  BY <1>1, <1>2, FS_AddElement DEF Readers
<1>3. CASE k \in has[t].r
  <2>1. t \in Readers(k)
    BY <1>3 DEF Readers
  <2>2. IsFiniteSet(Readers(k) \ {t}) /\ Cardinality(Readers(k) \ {t}) = Cardinality(Readers(k)) - 1
    BY <1>1, <2>1, FS_RemoveElement
  <2>3. Cardinality(Readers(k) \ {t}) \in Nat
    BY <2>2, FS_CardinalityType
  <2> QED BY <1>1, <1>3, <2>2, <2>3
<1> QED BY <1>2, <1>3

-----------------------------------------------------------------------------
(* Types: one step for each action.                                          *)

HasType == [Threads -> [cs : Nat, w : SUBSET Srws, r : SUBSET Srws]]

LEMMA CsTypes ==
  ASSUME IInv, NEW t \in Threads,
         \/ CsTest(t) \/ CsInit(t) \/ CsMark(t) \/ CsLock(t) \/ LeaveCriticalSection(t)
         \/ DeleteCriticalSection(t)
  PROVE  TypeOK'
<1> USE DEF csVars, srwVars, cvVars, onceVars
<1>0. TypeOK /\ CsInv /\ call[t] \in CallType
  BY DEF IInv, TypeOK
<1>1. ASSUME NEW c \in CallType, Goes(t, c), has' \in HasType, blurred' \in BOOLEAN, UNCHANGED uses,
             cs' \in [ready : BOOLEAN, owner : Threads \union {None}, depth : Nat],
             UNCHANGED <<srwVars, cvVars, onceVars>>
      PROVE  TypeOK'
  BY <1>0, <1>1, Went DEF TypeOK, HasType
<1>2. has \in HasType
  BY <1>0 DEF TypeOK, HasType
<1>3. At(t, "test") \/ At(t, "init") \/ At(t, "mark") \/ At(t, "lock") =>
        /\ call[t].for \in {"enter", "try", "initialise"}
        /\ Tested(t) \in CallType
  BY <1>0, CallShape, IdleType DEF At, Tested, CallType
<1>4. \A for \in {"enter", "try", "initialise"}, pc \in {"test", "init", "mark", "lock"} :
        [pc |-> pc, for |-> for] \in CallType
  BY DEF CallType
<1>5. CASE CsTest(t)
  BY <1>0, <1>1, <1>2, <1>3, <1>4, <1>5 DEF CsTest, TypeOK
<1>6. CASE CsInit(t)
  BY <1>0, <1>1, <1>2, <1>3, <1>4, <1>6 DEF CsInit, TypeOK
<1>7. CASE CsMark(t)
  BY <1>0, <1>1, <1>2, <1>3, <1>7 DEF CsMark, TypeOK
<1>8. CASE CsLock(t)
  <2>1. cs' \in [ready : BOOLEAN, owner : Threads \union {None}, depth : Nat]
    BY <1>0, <1>8, MutexSteps DEF CsLock, TypeOK
  <2>2. has' \in HasType
    BY <1>2, <1>8 DEF CsLock, HasType
  <2> QED BY <1>0, <1>1, <1>8, <2>1, <2>2, IdleType DEF CsLock, TypeOK
<1>9. CASE LeaveCriticalSection(t)
  <2>1. cs' \in [ready : BOOLEAN, owner : Threads \union {None}, depth : Nat]
    BY <1>0, <1>9, MutexSteps DEF LeaveCriticalSection, TypeOK
  <2>2. has' \in HasType
    BY <1>2, <1>9 DEF LeaveCriticalSection, HasType
  <2> QED BY <1>0, <1>9, <2>1, <2>2 DEF LeaveCriticalSection, TypeOK, HasType
<1>10. CASE DeleteCriticalSection(t)
  BY <1>0, <1>10 DEF DeleteCriticalSection, TypeOK
<1> QED BY <1>5, <1>6, <1>7, <1>8, <1>9, <1>10

LEMMA SrwTypes ==
  ASSUME IInv, NEW t \in Threads,
         \/ SrwLock(t)
         \/ \E k \in Srws : \/ ReleaseSRWLockExclusive(t, k) \/ ReleaseSRWLockShared(t, k)
                            \/ AcquireSRWLockShared(t, k)
                            \/ \E try \in BOOLEAN : AcquireSRWLockExclusive(t, k, try)
  PROVE  TypeOK'
<1> USE DEF csVars, srwVars, cvVars, onceVars
<1>0. TypeOK /\ SrwInv /\ call[t] \in CallType /\ has \in HasType
  BY DEF IInv, TypeOK, HasType
<1>1. ASSUME call' \in [Threads -> CallType], has' \in HasType, srws' \subseteq Srws,
             Cardinality(srws') <= NSrws, writer' \in [Srws -> Threads \union {None}],
             cell' \in [Srws -> Nat], UNCHANGED <<csVars, cvVars, onceVars>>
      PROVE  TypeOK'
  BY <1>0, <1>1 DEF TypeOK, HasType
<1>2. CASE SrwLock(t)
  <2>1. call[t].k \in Srws
    BY <1>0, <1>2, CallShape DEF SrwLock, At
  <2>2. writer' \in [Srws -> Threads \union {None}]
    BY <1>0, <1>2, <2>1 DEF SrwLock, TypeOK
  <2>3. has' \in HasType
    BY <1>0, <1>2, <2>1 DEF SrwLock, HasType
  <2>4. call' \in [Threads -> CallType]
    BY <1>0, <1>2, Went, IdleType DEF SrwLock
  <2> QED BY <1>0, <1>1, <1>2, <2>2, <2>3, <2>4 DEF SrwLock, TypeOK
<1>3. ASSUME NEW k \in Srws, ReleaseSRWLockExclusive(t, k)
      PROVE  TypeOK'
  <2>1. srws' \subseteq Srws /\ Cardinality(srws') <= NSrws
    BY <1>0, <1>3, SrwGrows DEF ReleaseSRWLockExclusive
  <2>2. writer' \in [Srws -> Threads \union {None}]
    BY <1>0, <1>3 DEF ReleaseSRWLockExclusive, Freed, TypeOK
  <2>3. has' \in HasType
    BY <1>0, <1>3 DEF ReleaseSRWLockExclusive, HasType
  <2> QED BY <1>0, <1>1, <1>3, <2>1, <2>2, <2>3 DEF ReleaseSRWLockExclusive, TypeOK
<1>4. ASSUME NEW k \in Srws, ReleaseSRWLockShared(t, k)
      PROVE  TypeOK'
  <2>1. cell' \in [Srws -> Nat]
    BY <1>0, <1>4, ReaderSteps DEF ReleaseSRWLockShared, TypeOK
  <2>2. has' \in HasType
    BY <1>0, <1>4 DEF ReleaseSRWLockShared, HasType
  <2> QED BY <1>0, <1>1, <1>4, <2>1, <2>2 DEF ReleaseSRWLockShared, TypeOK
<1>5. ASSUME NEW k \in Srws, AcquireSRWLockShared(t, k)
      PROVE  TypeOK'
  <2>1. cell' \in [Srws -> Nat]
    BY <1>0, <1>5 DEF AcquireSRWLockShared, TypeOK
  <2>2. has' \in HasType
    BY <1>0, <1>5 DEF AcquireSRWLockShared, HasType
  <2> QED BY <1>0, <1>1, <1>5, <2>1, <2>2 DEF AcquireSRWLockShared, TypeOK
<1>6. ASSUME NEW k \in Srws, NEW try \in BOOLEAN, AcquireSRWLockExclusive(t, k, try)
      PROVE  TypeOK'
  <2>1. srws' \subseteq Srws /\ Cardinality(srws') <= NSrws
    BY <1>0, <1>6, SrwGrows DEF AcquireSRWLockExclusive
  <2>2. [pc |-> "write", k |-> k, try |-> try] \in CallType
    BY DEF CallType
  <2>3. call' \in [Threads -> CallType]
    BY <1>0, <1>6, <2>2, Went DEF AcquireSRWLockExclusive, TypeOK
  <2>4. has' \in HasType
    BY <1>0, <1>6 DEF AcquireSRWLockExclusive, HasType
  <2> QED BY <1>0, <1>1, <1>6, <2>1, <2>3, <2>4 DEF AcquireSRWLockExclusive, TypeOK
<1> QED BY <1>2, <1>3, <1>4, <1>5, <1>6

LEMMA CvTypes ==
  ASSUME IInv, NEW t \in Threads,
         \/ CvWait(t) \/ CvTimesOut(t) \/ SpuriousWakeup(t) \/ CvRegains(t)
         \/ \E v \in Cvs : \/ WakeConditionVariable(t, v) \/ WakeAllConditionVariable(t, v)
                           \/ \E timed \in BOOLEAN :
                                \/ SleepConditionVariableCS(t, v, timed)
                                \/ \E k \in Srws : SleepConditionVariableSRW(t, v, k, timed)
  PROVE  TypeOK'
<1> USE DEF csVars, srwVars, cvVars, onceVars
<1>0. TypeOK /\ CsInv /\ SrwInv /\ call[t] \in CallType /\ has \in HasType
  BY DEF IInv, TypeOK, HasType
<1>1. ASSUME call' \in [Threads -> CallType], has' \in HasType, srws' \subseteq Srws,
             Cardinality(srws') <= NSrws, writer' \in [Srws -> Threads \union {None}],
             cs' \in [ready : BOOLEAN, owner : Threads \union {None}, depth : Nat],
             cvs' \subseteq Cvs, Cardinality(cvs') <= NCvs, owed' \subseteq Threads,
             UNCHANGED <<uses, blurred, cell, onceVars>>
      PROVE  TypeOK'
  BY <1>0, <1>1 DEF TypeOK, HasType
<1>2. At(t, "released") \/ At(t, "asleep") \/ At(t, "awake") =>
        /\ call[t].lock \in Srws \union {"cs"}
        /\ [call[t] EXCEPT !.pc = "asleep"] \in CallType
        /\ [call[t] EXCEPT !.pc = "awake"] \in CallType
  BY <1>0, CallShape DEF At, CallType
<1>3. CASE CvWait(t)
  BY <1>0, <1>1, <1>2, <1>3, Went DEF CvWait, TypeOK
<1>4. CASE CvTimesOut(t)
  BY <1>0, <1>1, <1>2, <1>4, Went DEF CvTimesOut, TypeOK
<1>5. CASE SpuriousWakeup(t)
  BY <1>0, <1>1, <1>2, <1>5, Went DEF SpuriousWakeup, TypeOK
<1>6. CASE CvRegains(t)
  <2>1. cs' \in [ready : BOOLEAN, owner : Threads \union {None}, depth : Nat]
    BY <1>0, <1>6, MutexSteps DEF CvRegains, TypeOK
  <2>2. writer' \in [Srws -> Threads \union {None}]
    BY <1>0, <1>2, <1>6 DEF CvRegains, TypeOK
  <2>3. has' \in HasType
    BY <1>0, <1>2, <1>6 DEF CvRegains, HasType
  <2>4. call' \in [Threads -> CallType]
    BY <1>0, <1>6, Went, IdleType DEF CvRegains
  <2> QED BY <1>0, <1>1, <1>6, <2>1, <2>2, <2>3, <2>4 DEF CvRegains, TypeOK
<1>7. ASSUME NEW v \in Cvs, WakeConditionVariable(t, v)
      PROVE  TypeOK'
  <2>1. CASE UNCHANGED call
    BY <1>0, <1>1, <1>7, <2>1, CvGrows DEF WakeConditionVariable, TypeOK
  <2>2. ASSUME NEW u \in Asleep(v), call' = Woken({u})
        PROVE  call' \in [Threads -> CallType]
    <3>1. {u} \in SUBSET Asleep(v)
      OBVIOUS
    <3> QED BY <1>0, <2>2, <3>1, WokenCalls, Zenon
  <2> QED BY <1>0, <1>1, <1>7, <2>1, <2>2, CvGrows DEF WakeConditionVariable, TypeOK
<1>8. ASSUME NEW v \in Cvs, WakeAllConditionVariable(t, v)
      PROVE  TypeOK'
  <2>1. call' \in [Threads -> CallType]
    BY <1>0, <1>8, WokenCalls DEF WakeAllConditionVariable, TypeOK
  <2> QED BY <1>0, <1>1, <1>8, <2>1, CvGrows DEF WakeAllConditionVariable, TypeOK
<1>9. ASSUME NEW v \in Cvs, NEW timed \in BOOLEAN, SleepConditionVariableCS(t, v, timed)
      PROVE  TypeOK'
  <2>1. Sleeps(t, v, "cs", timed) \in CallType
    BY DEF Sleeps, CallType
  <2>2. call' \in [Threads -> CallType]
    BY <1>0, <1>9, <2>1, Went DEF SleepConditionVariableCS, TypeOK
  <2>3. cs' \in [ready : BOOLEAN, owner : Threads \union {None}, depth : Nat]
    BY <1>0, <1>9, MutexSteps DEF SleepConditionVariableCS, TypeOK
  <2>4. has' \in HasType
    BY <1>0, <1>9 DEF SleepConditionVariableCS, HasType
  <2> QED BY <1>0, <1>1, <1>9, <2>2, <2>3, <2>4, CvGrows DEF SleepConditionVariableCS, TypeOK
<1>10. ASSUME NEW v \in Cvs, NEW timed \in BOOLEAN, NEW k \in Srws,
              SleepConditionVariableSRW(t, v, k, timed)
       PROVE  TypeOK'
  <2>1. Sleeps(t, v, k, timed) \in CallType
    BY DEF Sleeps, CallType
  <2>2. call' \in [Threads -> CallType]
    BY <1>0, <1>10, <2>1, Went DEF SleepConditionVariableSRW, TypeOK
  <2>3. writer' \in [Srws -> Threads \union {None}]
    BY <1>0, <1>10 DEF SleepConditionVariableSRW, Freed, TypeOK
  <2>4. has' \in HasType
    BY <1>0, <1>10 DEF SleepConditionVariableSRW, HasType
  <2>5. srws' \subseteq Srws /\ Cardinality(srws') <= NSrws
    BY <1>0, <1>10, SrwGrows DEF SleepConditionVariableSRW
  <2> QED BY <1>0, <1>1, <1>10, <2>2, <2>3, <2>4, <2>5, CvGrows DEF SleepConditionVariableSRW, TypeOK
<1> QED BY <1>3, <1>4, <1>5, <1>6, <1>7, <1>8, <1>9, <1>10

(* Calls that start or end without touching a lock.                          *)
Begins(t) ==
  \/ EnterCriticalSection(t) \/ TryEnterCriticalSection(t) \/ InitializeCriticalSection(t)
OnceStep(t) ==
  \/ InitOnceExecuteOnce(t) \/ CallbackReturns(t) \/ SpinEnds(t)
  \/ InitOnceBeginInitialize(t) \/ InitOnceCheckOnly(t) \/ InitOnceComplete(t)

LEMMA OnceTypes ==
  ASSUME IInv, NEW t \in Threads, Begins(t) \/ OnceStep(t)
  PROVE  TypeOK'
<1> USE DEF csVars, srwVars, cvVars, onceVars
<1>0. TypeOK
  BY DEF IInv
<1>1. ASSUME call' \in [Threads -> CallType], once' \in {"fresh", "busy", "done", "donectx"},
             early' \subseteq told', told' \subseteq Threads, finished' \in BOOLEAN,
             UNCHANGED <<csVars, srwVars, cvVars, has>>
      PROVE  TypeOK'
  BY <1>0, <1>1 DEF TypeOK
<1>2. \A for \in {"enter", "try", "initialise"} : [pc |-> "test", for |-> for] \in CallType
  BY DEF CallType
<1>3. \A pc \in {"callback", "spin", "begun"} : [pc |-> pc] \in CallType
  BY DEF CallType
<1>4. CASE Begins(t)
  BY <1>0, <1>1, <1>2, <1>4, Went
  DEF Begins, EnterCriticalSection, TryEnterCriticalSection, InitializeCriticalSection, StartCs, TypeOK
<1>5. CASE InitOnceExecuteOnce(t)
  BY <1>0, <1>1, <1>3, <1>5, Went DEF InitOnceExecuteOnce, TypeOK
<1>6. CASE CallbackReturns(t)
  BY <1>0, <1>1, <1>6, Went, IdleType DEF CallbackReturns, TypeOK
<1>7. CASE SpinEnds(t)
  BY <1>0, <1>1, <1>7, Went, IdleType DEF SpinEnds, TypeOK
<1>8. CASE InitOnceBeginInitialize(t)
  BY <1>0, <1>1, <1>3, <1>8, Went DEF InitOnceBeginInitialize, TypeOK
<1>9. CASE InitOnceComplete(t)
  BY <1>0, <1>1, <1>9, Went, IdleType DEF InitOnceComplete, TypeOK
<1>10. CASE InitOnceCheckOnly(t)
  BY <1>0, <1>1, <1>10 DEF InitOnceCheckOnly, TypeOK
<1> QED BY <1>4, <1>5, <1>6, <1>7, <1>8, <1>9, <1>10 DEF OnceStep

-----------------------------------------------------------------------------
(* The critical section                                                      *)

LEMMA CsFrame ==
  ASSUME CsInv, UNCHANGED <<cs, blurred>>, \A u \in Threads : has'[u].cs = has[u].cs,
         \A u \in Threads : call'[u].pc \in {"init", "mark", "lock"} => call'[u].pc = call[u].pc,
         \A u \in Threads : Sleeping(u)' /\ call'[u].lock = "cs" => Sleeping(u) /\ call[u].lock = "cs"
  PROVE  CsInv'
BY DEF CsInv

LEMMA CsKept ==
  ASSUME IInv, NEW t \in Threads,
         \/ Begins(t) \/ OnceStep(t) \/ SrwLock(t)
         \/ CvWait(t) \/ CvTimesOut(t) \/ SpuriousWakeup(t)
         \/ \E k \in Srws : \/ ReleaseSRWLockExclusive(t, k) \/ ReleaseSRWLockShared(t, k)
                            \/ AcquireSRWLockShared(t, k)
                            \/ \E try \in BOOLEAN : AcquireSRWLockExclusive(t, k, try)
         \/ \E v \in Cvs : \/ WakeConditionVariable(t, v) \/ WakeAllConditionVariable(t, v)
                           \/ \E timed \in BOOLEAN, k \in Srws : SleepConditionVariableSRW(t, v, k, timed)
  PROVE  CsInv'
<1> USE DEF csVars, srwVars, cvVars, onceVars
<1>0. TypeOK /\ CsInv /\ call[t] \in CallType /\ has \in HasType
  BY DEF IInv, TypeOK, HasType
<1>1. ASSUME NEW c, call' = [call EXCEPT ![t] = c], c.pc \notin {"init", "mark", "lock"},
             c.pc \in {"released", "asleep", "awake"} /\ c.lock = "cs" => Sleeping(t) /\ call[t].lock = "cs",
             UNCHANGED <<cs, blurred>>, \A u \in Threads : has'[u].cs = has[u].cs
      PROVE  CsInv'
  <2>1. call'[t] = c /\ \A u \in Threads \ {t} : call'[u] = call[u]
    BY <1>0, <1>1 DEF TypeOK
  <2> QED BY <1>0, <1>1, <2>1, CsFrame DEF Sleeping
<1>2. ASSUME UNCHANGED <<cs, blurred, call>>, \A u \in Threads : has'[u].cs = has[u].cs
      PROVE  CsInv'
  BY <1>0, <1>2, CsFrame DEF Sleeping
<1>3. CASE Begins(t)
  BY <1>0, <1>1, <1>3
  DEF Begins, EnterCriticalSection, TryEnterCriticalSection, InitializeCriticalSection, StartCs, Goes
<1>4. CASE OnceStep(t)
  BY <1>0, <1>1, <1>2, <1>4, IdleType
  DEF OnceStep, InitOnceExecuteOnce, CallbackReturns, SpinEnds, InitOnceBeginInitialize, InitOnceCheckOnly, InitOnceComplete, Goes
<1>5. CASE SrwLock(t)
  <2>1. \A u \in Threads : has'[u].cs = has[u].cs
    BY <1>0, <1>5 DEF SrwLock, HasType
  <2> QED BY <1>1, <1>5, <2>1, IdleType DEF SrwLock, Goes
<1>6. CASE CvWait(t) \/ CvTimesOut(t) \/ SpuriousWakeup(t)
  <2>1. At(t, "released") \/ At(t, "asleep")
    BY <1>6 DEF CvWait, CvTimesOut, SpuriousWakeup
  <2>2. Sleeping(t)
    BY <2>1 DEF At, Sleeping
  <2>3. \A pc \in {"asleep", "awake"} : /\ [call[t] EXCEPT !.pc = pc].pc = pc
                                        /\ [call[t] EXCEPT !.pc = pc].lock = call[t].lock
    BY <1>0, <2>1, CallShape DEF At
  <2> QED BY <1>1, <1>6, <2>2, <2>3 DEF CvWait, CvTimesOut, SpuriousWakeup, Goes
<1>7. ASSUME NEW k \in Srws, ReleaseSRWLockExclusive(t, k) \/ ReleaseSRWLockShared(t, k) \/ AcquireSRWLockShared(t, k)
      PROVE  CsInv'
  BY <1>0, <1>2, <1>7 DEF ReleaseSRWLockExclusive, ReleaseSRWLockShared, AcquireSRWLockShared, HasType
<1>8. ASSUME NEW k \in Srws, NEW try \in BOOLEAN, AcquireSRWLockExclusive(t, k, try)
      PROVE  CsInv'
  <2>1. UNCHANGED <<cs, blurred>> /\ \A u \in Threads : has'[u].cs = has[u].cs
    BY <1>0, <1>8 DEF AcquireSRWLockExclusive, HasType
  <2>2. UNCHANGED call \/ Goes(t, [pc |-> "write", k |-> k, try |-> try])
    BY <1>8 DEF AcquireSRWLockExclusive
  <2> QED BY <1>1, <1>2, <2>1, <2>2 DEF Goes
<1>9. ASSUME NEW v \in Cvs, NEW ts \in SUBSET Asleep(v), call' = Woken(ts), UNCHANGED <<csVars, has>>
      PROVE  CsInv'
  BY <1>0, <1>9, WokenCalls, CsFrame DEF Sleeping
<1>10. ASSUME NEW v \in Cvs, WakeConditionVariable(t, v) \/ WakeAllConditionVariable(t, v)
       PROVE  CsInv'
  <2>1. \A u \in Asleep(v) : {u} \in SUBSET Asleep(v)
    OBVIOUS
  <2> QED BY <1>2, <1>9, <1>10, <2>1 DEF WakeConditionVariable, WakeAllConditionVariable
<1>11. ASSUME NEW v \in Cvs, NEW timed \in BOOLEAN, NEW k \in Srws, SleepConditionVariableSRW(t, v, k, timed)
       PROVE  CsInv'
  <2>1. k # "cs"
    BY AddressAssumption
  <2>2. UNCHANGED <<cs, blurred>> /\ \A u \in Threads : has'[u].cs = has[u].cs
    BY <1>0, <1>11 DEF SleepConditionVariableSRW, HasType
  <2>3. UNCHANGED call \/ Goes(t, Sleeps(t, v, k, timed))
    BY <1>11 DEF SleepConditionVariableSRW
  <2> QED BY <1>1, <1>2, <2>1, <2>2, <2>3 DEF Goes, Sleeps
<1> QED BY <1>3, <1>4, <1>5, <1>6, <1>7, <1>8, <1>10, <1>11

(* One case for each step of the section's own.                              *)
LEMMA CsSteps ==
  ASSUME IInv, NEW t \in Threads,
         \/ CsTest(t) \/ CsInit(t) \/ CsMark(t) \/ CsLock(t) \/ LeaveCriticalSection(t)
         \/ DeleteCriticalSection(t) \/ CvRegains(t)
         \/ \E v \in Cvs, timed \in BOOLEAN : SleepConditionVariableCS(t, v, timed)
  PROVE  CsInv'
<1> USE DEF csVars, srwVars, cvVars, onceVars
<1>0. TypeOK /\ CsInv /\ call[t] \in CallType /\ has \in HasType /\ t # None
  BY ThreadsAssumption DEF IInv, TypeOK, HasType
<1>1. \A c : Goes(t, c) => call'[t] = c /\ \A u \in Threads \ {t} : call'[u] = call[u]
  BY <1>0 DEF Goes, TypeOK
<1>2. Tested(t).pc \in {"idle", "lock"} /\ Idle.pc = "idle"
  BY IdleType DEF Tested
<1>3. CASE CsTest(t)
  <2>1. /\ cs.ready => call'[t].pc \in {"idle", "lock"}
        /\ ~ cs.ready => call'[t].pc = "init"
    BY <1>1, <1>2, <1>3 DEF CsTest
  <2>2. ~ blurred' => ~ blurred /\ (cs.ready \/ \A u \in Threads \ {t} : call[u].pc \notin {"init", "mark"})
    BY <1>3 DEF CsTest
  <2>3. cs' = cs /\ has' = has /\ \A u \in Threads \ {t} : call'[u] = call[u]
    BY <1>1, <1>3 DEF CsTest
  <2> QED BY <1>0, <2>1, <2>2, <2>3 DEF CsInv, Sleeping
<1>4. CASE CsInit(t)
  <2>1. call[t].pc = "init" /\ call'[t].pc = "mark"
    BY <1>1, <1>4 DEF CsInit, At
  <2>2. cs' = [ready |-> cs.ready, owner |-> None, depth |-> 0] /\ has' = has /\ blurred' = blurred
    BY <1>4 DEF CsInit
  <2>3. \A u \in Threads \ {t} : call'[u] = call[u]
    BY <1>1, <1>4 DEF CsInit
  <2>4. ~ blurred => \A u \in Threads : has[u].cs = 0
    BY <1>0, <2>1 DEF CsInv
  <2> QED BY <1>0, <2>1, <2>2, <2>3, <2>4, ThreadsAssumption DEF CsInv, Sleeping
<1>5. CASE CsMark(t)
  <2>1. call[t].pc = "mark" /\ call'[t].pc \in {"idle", "lock"}
    BY <1>1, <1>2, <1>5 DEF CsMark, At
  <2>2. cs'.ready /\ cs'.owner = cs.owner /\ cs'.depth = cs.depth /\ has' = has /\ blurred' = blurred
    BY <1>0, <1>5 DEF CsMark, TypeOK
  <2>3. \A u \in Threads \ {t} : call'[u] = call[u]
    BY <1>1, <1>5 DEF CsMark
  <2> QED BY <1>0, <2>1, <2>2, <2>3 DEF CsInv
<1>6. CASE CsLock(t)
  <2>1. call[t].pc = "lock" /\ call'[t].pc = "idle" /\ \A u \in Threads \ {t} : call'[u] = call[u]
    BY <1>1, <1>2, <1>6 DEF CsLock, At
  <2>2. cs.ready /\ blurred' = blurred
    BY <1>0, <1>6, <2>1 DEF CsInv, CsLock
  <2>3. CASE cs' = cs /\ has' = has
    BY <1>0, <2>1, <2>2, <2>3 DEF CsInv, Sleeping
  <2>4. CASE cs.owner \in {None, t} /\ cs' = Locked(t) /\ has' = [has EXCEPT ![t].cs = @ + 1]
    <3>1. /\ cs'.owner = t /\ cs'.depth = cs.depth + 1 /\ cs'.depth # 0 /\ cs'.ready
      BY <1>0, <2>2, <2>4, MutexSteps
    <3>2. has'[t].cs = has[t].cs + 1 /\ \A u \in Threads \ {t} : has'[u].cs = has[u].cs
      BY <1>0, <2>4 DEF HasType
    <3>3. ~ blurred => has[t].cs = cs.depth /\ \A u \in Threads \ {t} : has[u].cs = 0
      BY <1>0, <2>4, ThreadsAssumption DEF CsInv
    <3> QED BY <1>0, <2>1, <2>2, <3>1, <3>2, <3>3 DEF CsInv
  <2> QED BY <1>6, <2>3, <2>4 DEF CsLock
<1>7. CASE LeaveCriticalSection(t)
  <2>1. call' = call /\ blurred' = blurred /\ has[t].cs > 0
    BY <1>7 DEF LeaveCriticalSection
  <2>2. cs.ready /\ cs' = Unlocked(t)
    BY <1>0, <1>7, <2>1 DEF CsInv, LeaveCriticalSection
  <2>3. has'[t].cs = has[t].cs - 1 /\ \A u \in Threads \ {t} : has'[u].cs = has[u].cs
    BY <1>0, <1>7 DEF LeaveCriticalSection, HasType
  <2>4. ~ blurred => /\ cs.owner = t /\ cs.depth = has[t].cs
                     /\ \A u \in Threads \ {t} : has[u].cs = 0
    BY <1>0, <2>1 DEF CsInv
  <2>5. cs'.ready /\ (cs'.owner = None <=> cs'.depth = 0)
    BY <1>0, <2>2, MutexSteps
  <2>6. ~ blurred => cs'.depth = has'[t].cs /\ cs'.owner \in {None, t}
    <3> SUFFICES ASSUME ~ blurred PROVE cs'.depth = has'[t].cs /\ cs'.owner \in {None, t}
      OBVIOUS
    <3>1. cs.owner = t /\ cs.depth = has[t].cs
      BY <2>4
    <3>2. cs'.depth = cs.depth - 1 /\ cs'.owner \in {None, t}
      BY <1>0, <2>1, <2>2, <3>1, MutexSteps
    <3> QED BY <2>3, <3>1, <3>2
  <2> QED BY <1>0, <2>1, <2>2, <2>3, <2>4, <2>5, <2>6, ThreadsAssumption DEF CsInv
<1>8. CASE DeleteCriticalSection(t)
  <2>1. call' = call /\ has' = has /\ blurred' = blurred /\ Unused
    BY <1>8 DEF DeleteCriticalSection
  <2>2. ~ cs'.ready /\ cs'.owner = cs.owner /\ cs'.depth = cs.depth
    BY <1>0, <1>8 DEF DeleteCriticalSection, TypeOK
  <2>3. \A u \in Threads : /\ has[u].cs = 0 /\ call[u].pc \notin {"init", "mark", "lock"}
                           /\ Sleeping(u) => call[u].lock # "cs"
    BY <2>1 DEF Unused, InCsCall
  <2> QED BY <1>0, <2>1, <2>2, <2>3 DEF CsInv, Sleeping
<1>9. CASE CvRegains(t)
  <2>1. call[t].pc = "awake" /\ call'[t].pc = "idle" /\ \A u \in Threads \ {t} : call'[u] = call[u]
    BY <1>1, <1>2, <1>9 DEF CvRegains, At
  <2>2. blurred' = blurred
    BY <1>9 DEF CvRegains
  <2>3. CASE call[t].lock = "cs"
    <3>1. cs.owner = None /\ cs' = Locked(t) /\ has' = [has EXCEPT ![t].cs = 1]
      BY <1>9, <2>3 DEF CvRegains
    <3>2. cs.ready /\ cs.depth = 0
      BY <1>0, <2>1, <2>3, <3>1 DEF CsInv, Sleeping
    <3>3. cs'.owner = t /\ cs'.depth = 1 /\ cs'.ready
      BY <1>0, <3>1, <3>2 DEF Locked
    <3>4. has'[t].cs = 1 /\ \A u \in Threads \ {t} : has'[u].cs = has[u].cs
      BY <1>0, <3>1 DEF HasType
    <3>5. ~ blurred => \A u \in Threads : has[u].cs = 0
      BY <1>0, <3>1, ThreadsAssumption DEF CsInv
    <3>6. ~ blurred => \A u \in Threads : call'[u].pc \notin {"init", "mark"}
      BY <1>0, <2>1, <3>2 DEF CsInv
    <3> QED BY <1>0, <2>2, <3>3, <3>4, <3>5, <3>6 DEF CsInv
  <2>4. CASE call[t].lock # "cs"
    <3>1. cs' = cs /\ \A u \in Threads : has'[u].cs = has[u].cs
      BY <1>0, <1>9, <2>4 DEF CvRegains, HasType
    <3> QED BY <1>0, <2>1, <2>2, <3>1, CsFrame DEF Sleeping
  <2> QED BY <2>3, <2>4
<1>10. ASSUME NEW v \in Cvs, NEW timed \in BOOLEAN, SleepConditionVariableCS(t, v, timed)
       PROVE  CsInv'
  <2>1. CASE UNCHANGED <<cs, has, call>>
    BY <1>0, <1>10, <2>1, CsFrame DEF SleepConditionVariableCS, Sleeping
  <2>2. CASE v \in cvs'
    <3>1. /\ cs' = Unlocked(t) /\ has' = [has EXCEPT ![t].cs = 0] /\ Goes(t, Sleeps(t, v, "cs", timed))
          /\ has[t].cs = 1 /\ blurred' = blurred
      BY <1>10, <2>2 DEF SleepConditionVariableCS
    <3>2. call'[t].pc = "released" /\ \A u \in Threads \ {t} : call'[u] = call[u]
      BY <1>1, <3>1 DEF Sleeps
    <3>3. cs.ready
      BY <1>0, <3>1 DEF CsInv
    <3>4. has'[t].cs = 0 /\ \A u \in Threads \ {t} : has'[u].cs = has[u].cs
      BY <1>0, <3>1 DEF HasType
    <3>5. ~ blurred => /\ cs.owner = t /\ cs.depth = 1
                       /\ \A u \in Threads \ {t} : has[u].cs = 0
      BY <1>0, <3>1 DEF CsInv
    <3>6. cs'.ready /\ (cs'.owner = None <=> cs'.depth = 0)
      BY <1>0, <3>1, <3>3, MutexSteps
    <3>7. ~ blurred => cs'.owner = None
      BY <1>0, <3>1, <3>5, <3>6, MutexSteps
    <3> QED BY <1>0, <3>1, <3>2, <3>3, <3>4, <3>5, <3>6, <3>7, ThreadsAssumption DEF CsInv
  <2> QED BY <1>10, <2>1, <2>2 DEF SleepConditionVariableCS
<1> QED BY <1>3, <1>4, <1>5, <1>6, <1>7, <1>8, <1>9, <1>10

-----------------------------------------------------------------------------
(* The SRW locks                                                             *)

LEMMA SrwFrame ==
  ASSUME SrwInv, UNCHANGED srwVars,
         \A u \in Threads : has'[u].w = has[u].w /\ has'[u].r = has[u].r,
         \A u \in Threads : call'[u].pc = "write" => call[u].pc = "write" /\ call'[u].k = call[u].k,
         \A u \in Threads : Sleeping(u)' => \/ call'[u].lock = "cs"
                                            \/ Sleeping(u) /\ call'[u].lock = call[u].lock
  PROVE  SrwInv'
<1>1. \A k \in Srws : Readers(k)' = Readers(k)
  BY DEF Readers
<1>2. srws' = srws /\ writer' = writer /\ cell' = cell
  BY DEF srwVars
<1>3. \A k \in Srws : (cell[k] = Cardinality(Readers(k)))'
  BY <1>1, <1>2 DEF SrwInv
<1>4. \A u \in Threads : \A k \in has'[u].w :
        IF k \in srws' THEN writer'[k] = u ELSE Cardinality(srws') = NSrws
  BY <1>2 DEF SrwInv
<1>5. \A u \in Threads : /\ call'[u].pc = "write" => call'[u].k \in srws'
                         /\ Sleeping(u)' /\ call'[u].lock # "cs" => call'[u].lock \in srws'
  BY <1>2 DEF SrwInv
<1> QED BY <1>3, <1>4, <1>5 DEF SrwInv

LEMMA SrwKept ==
  ASSUME IInv, NEW t \in Threads,
         \/ Begins(t) \/ OnceStep(t)
         \/ CsTest(t) \/ CsInit(t) \/ CsMark(t) \/ CsLock(t) \/ LeaveCriticalSection(t)
         \/ DeleteCriticalSection(t) \/ CvWait(t) \/ CvTimesOut(t) \/ SpuriousWakeup(t)
         \/ \E v \in Cvs : \/ WakeConditionVariable(t, v) \/ WakeAllConditionVariable(t, v)
                           \/ \E timed \in BOOLEAN : SleepConditionVariableCS(t, v, timed)
  PROVE  SrwInv'
<1> USE DEF csVars, srwVars, cvVars, onceVars
<1>0. TypeOK /\ SrwInv /\ call[t] \in CallType /\ has \in HasType
  BY DEF IInv, TypeOK, HasType
<1>1. ASSUME NEW c, Goes(t, c), c.pc # "write",
             c.pc \in {"released", "asleep", "awake"} =>
               c.lock = "cs" \/ (Sleeping(t) /\ c.lock = call[t].lock),
             UNCHANGED srwVars, \A u \in Threads : has'[u].w = has[u].w /\ has'[u].r = has[u].r
      PROVE  SrwInv'
  <2>1. call'[t] = c /\ \A u \in Threads \ {t} : call'[u] = call[u]
    BY <1>0, <1>1 DEF TypeOK, Goes
  <2>2. \A u \in Threads : Sleeping(u)' => \/ call'[u].lock = "cs"
                                           \/ Sleeping(u) /\ call'[u].lock = call[u].lock
    BY <1>1, <2>1 DEF Sleeping
  <2> QED BY <1>0, <1>1, <2>1, <2>2, SrwFrame
<1>2. ASSUME UNCHANGED <<srwVars, call>>, \A u \in Threads : has'[u].w = has[u].w /\ has'[u].r = has[u].r
      PROVE  SrwInv'
  BY <1>0, <1>2, SrwFrame DEF Sleeping
<1>3. \A n : has' = [has EXCEPT ![t].cs = n] => \A u \in Threads : has'[u].w = has[u].w /\ has'[u].r = has[u].r
  BY <1>0 DEF HasType
<1>4. Tested(t).pc \in {"idle", "lock"} /\ Idle.pc = "idle"
  BY IdleType DEF Tested
<1>5. CASE Begins(t)
  BY <1>1, <1>5
  DEF Begins, EnterCriticalSection, TryEnterCriticalSection, InitializeCriticalSection, StartCs
<1>6. CASE OnceStep(t)
  BY <1>1, <1>2, <1>4, <1>6
  DEF OnceStep, InitOnceExecuteOnce, CallbackReturns, SpinEnds, InitOnceBeginInitialize, InitOnceCheckOnly, InitOnceComplete
<1>7. CASE CsTest(t)
  BY <1>1, <1>4, <1>7 DEF CsTest
<1>8. CASE CsInit(t)
  BY <1>1, <1>8 DEF CsInit
<1>9. CASE CsMark(t)
  BY <1>1, <1>4, <1>9 DEF CsMark
<1>10. CASE CsLock(t)
  <2>1. \A u \in Threads : has'[u].w = has[u].w /\ has'[u].r = has[u].r
    BY <1>3, <1>10 DEF CsLock
  <2> QED BY <1>1, <1>4, <1>10, <2>1 DEF CsLock
<1>11. CASE LeaveCriticalSection(t)
  BY <1>2, <1>3, <1>11 DEF LeaveCriticalSection
<1>12. CASE DeleteCriticalSection(t)
  BY <1>2, <1>12 DEF DeleteCriticalSection
<1>13. CASE CvWait(t) \/ CvTimesOut(t) \/ SpuriousWakeup(t)
  <2>1. At(t, "released") \/ At(t, "asleep")
    BY <1>13 DEF CvWait, CvTimesOut, SpuriousWakeup
  <2>2. Sleeping(t)
    BY <2>1 DEF At, Sleeping
  <2>3. \A pc \in {"asleep", "awake"} : /\ [call[t] EXCEPT !.pc = pc].pc = pc
                                        /\ [call[t] EXCEPT !.pc = pc].lock = call[t].lock
    BY <1>0, <2>1, CallShape DEF At
  <2> QED BY <1>1, <1>13, <2>2, <2>3 DEF CvWait, CvTimesOut, SpuriousWakeup
<1>14. ASSUME NEW v \in Cvs, NEW ts \in SUBSET Asleep(v), call' = Woken(ts), UNCHANGED <<srwVars, has>>
       PROVE  SrwInv'
  BY <1>0, <1>14, WokenCalls, SrwFrame DEF Sleeping
<1>15. ASSUME NEW v \in Cvs, WakeConditionVariable(t, v) \/ WakeAllConditionVariable(t, v)
       PROVE  SrwInv'
  <2>1. \A u \in Asleep(v) : {u} \in SUBSET Asleep(v)
    OBVIOUS
  <2> QED BY <1>2, <1>14, <1>15, <2>1 DEF WakeConditionVariable, WakeAllConditionVariable
<1>16. ASSUME NEW v \in Cvs, NEW timed \in BOOLEAN, SleepConditionVariableCS(t, v, timed)
       PROVE  SrwInv'
  <2>1. \A u \in Threads : has'[u].w = has[u].w /\ has'[u].r = has[u].r
    BY <1>3, <1>16 DEF SleepConditionVariableCS
  <2>2. UNCHANGED call \/ Goes(t, Sleeps(t, v, "cs", timed))
    BY <1>16 DEF SleepConditionVariableCS
  <2> QED BY <1>1, <1>2, <1>16, <2>1, <2>2 DEF SleepConditionVariableCS, Sleeps
<1> QED BY <1>5, <1>6, <1>7, <1>8, <1>9, <1>10, <1>11, <1>12, <1>13, <1>15, <1>16

(* Releasing k for t, in a table that may just have got an entry for it.     *)
LEMMA WriterGone ==
  ASSUME TypeOK, SrwInv, NEW t \in Threads, NEW k \in Srws, SrwGet(k), k \in has[t].w,
         writer' = IF k \in srws' THEN Freed(t, k) ELSE writer,
         has' = [has EXCEPT ![t].w = @ \ {k}]
  PROVE  \A u \in Threads : \A j \in has'[u].w :
           IF j \in srws' THEN writer'[j] = u ELSE Cardinality(srws') = NSrws
<1> SUFFICES ASSUME NEW u \in Threads, NEW j \in has'[u].w
             PROVE  IF j \in srws' THEN writer'[j] = u ELSE Cardinality(srws') = NSrws
  OBVIOUS
<1>1. j \in has[u].w /\ j \in Srws /\ ~ (j = k /\ u = t)
  BY DEF TypeOK
<1>2. IF j \in srws THEN writer[j] = u ELSE Cardinality(srws) = NSrws
  BY <1>1 DEF SrwInv
<1>3. srws \subseteq srws' /\ (Cardinality(srws) = NSrws => srws' = srws)
  BY SrwGrows
<1>4. writer[j] = u => writer'[j] = u
  BY <1>1 DEF Freed, TypeOK
<1> QED BY <1>2, <1>3, <1>4

(* An entry more changes nothing for those who hold a lock.                  *)
LEMMA TableGrown ==
  ASSUME TypeOK, SrwInv, NEW k \in Srws, SrwGet(k), writer' = writer
  PROVE  \A u \in Threads : \A j \in has[u].w :
           IF j \in srws' THEN writer'[j] = u ELSE Cardinality(srws') = NSrws
BY SrwGrows DEF SrwInv

LEMMA SrwSteps ==
  ASSUME IInv, NEW t \in Threads,
         \/ SrwLock(t) \/ CvRegains(t)
         \/ \E k \in Srws : \/ ReleaseSRWLockExclusive(t, k) \/ ReleaseSRWLockShared(t, k)
                            \/ AcquireSRWLockShared(t, k)
                            \/ \E try \in BOOLEAN : AcquireSRWLockExclusive(t, k, try)
         \/ \E v \in Cvs, timed \in BOOLEAN, k \in Srws : SleepConditionVariableSRW(t, v, k, timed)
  PROVE  SrwInv'
<1> USE DEF csVars, srwVars, cvVars, onceVars
<1>0. TypeOK /\ SrwInv /\ call[t] \in CallType /\ has \in HasType
  BY DEF IInv, TypeOK, HasType
<1>1. \A c : Goes(t, c) => call'[t] = c /\ \A u \in Threads \ {t} : call'[u] = call[u]
  BY <1>0 DEF Goes, TypeOK
<1> DEFINE HoldersOK == \A u \in Threads : \A k \in has[u].w :
                          IF k \in srws THEN writer[k] = u ELSE Cardinality(srws) = NSrws
           CallsOK   == \A u \in Threads :
                          /\ call[u].pc = "write" => call[u].k \in srws
                          /\ Sleeping(u) /\ call[u].lock # "cs" => call[u].lock \in srws
           CellsOK   == \A k \in Srws : cell[k] = Cardinality(Readers(k))
<1>2. (HoldersOK /\ CallsOK /\ CellsOK)' => SrwInv'
  BY DEF SrwInv
<1>3. HoldersOK /\ CallsOK /\ CellsOK
  BY <1>0 DEF SrwInv
<1>4. cell' = cell /\ (\A u \in Threads : has'[u].r = has[u].r) => CellsOK'
  <2>1. (\A u \in Threads : has'[u].r = has[u].r) => \A k \in Srws : Readers(k)' = Readers(k)
    BY DEF Readers
  <2> QED BY <1>3, <2>1
<1>5. \A S : has' = [has EXCEPT ![t].w = S] =>
        /\ \A u \in Threads : has'[u].r = has[u].r
        /\ has'[t].w = S /\ \A u \in Threads \ {t} : has'[u].w = has[u].w
  BY <1>0 DEF HasType
<1>6. ASSUME NEW c, Goes(t, c), srws \subseteq srws',
             c = Idle \/ (c.pc = "write" /\ c.k \in srws') \/ (c.pc = "released" /\ c.lock \in srws')
      PROVE  CallsOK'
  BY <1>1, <1>3, <1>6, IdleType DEF Sleeping
<1>7. srws \subseteq srws' /\ call' = call => CallsOK'
  BY <1>3 DEF Sleeping
<1>8. CASE SrwLock(t)
  <2>1. call[t].pc = "write" /\ Goes(t, Idle) /\ srws' = srws /\ cell' = cell
    BY <1>8 DEF SrwLock, At
  <2>2. call[t].k \in Srws /\ call[t].k \in srws
    BY <1>0, <1>3, <2>1, CallShape
  <2>3. CallsOK'
    BY <1>6, <2>1
  <2>4. CASE writer' = writer /\ has' = has
    BY <1>2, <1>3, <1>4, <2>1, <2>3, <2>4
  <2>5. CASE /\ writer[call[t].k] = None
             /\ writer' = [writer EXCEPT ![call[t].k] = t]
             /\ has' = [has EXCEPT ![t].w = @ \union {call[t].k}]
    <3>1. \A u \in Threads : call[t].k \notin has[u].w
      BY <1>3, <2>2, <2>5, ThreadsAssumption
    <3>2. \A u \in Threads : has'[u].r = has[u].r
      BY <1>5, <2>5
    <3>3. has'[t].w = has[t].w \union {call[t].k} /\ \A u \in Threads \ {t} : has'[u].w = has[u].w
      BY <1>5, <2>5
    <3>4. writer'[call[t].k] = t /\ \A k \in srws \ {call[t].k} : writer'[k] = writer[k]
      BY <1>0, <2>2, <2>5 DEF TypeOK
    <3>5. HoldersOK'
      BY <1>3, <2>1, <2>2, <3>1, <3>3, <3>4
    <3> QED BY <1>2, <1>4, <2>1, <2>3, <3>2, <3>5
  <2> QED BY <1>8, <2>4, <2>5 DEF SrwLock
<1>9. CASE CvRegains(t)
  <2>1. call[t].pc = "awake" /\ Goes(t, Idle) /\ srws' = srws /\ cell' = cell
    BY <1>9 DEF CvRegains, At
  <2>2. CallsOK'
    BY <1>6, <2>1
  <2>3. CASE call[t].lock = "cs" /\ has' = [has EXCEPT ![t].cs = 1] /\ writer' = writer
    <3>1. \A u \in Threads : has'[u].r = has[u].r /\ has'[u].w = has[u].w
      BY <1>0, <2>3 DEF HasType
    <3> QED BY <1>2, <1>3, <1>4, <2>1, <2>2, <2>3, <3>1
  <2>4. CASE /\ call[t].lock # "cs" /\ writer[call[t].lock] = None
             /\ writer' = [writer EXCEPT ![call[t].lock] = t]
             /\ has' = [has EXCEPT ![t].w = @ \union {call[t].lock}]
    <3>0. call[t].lock \in srws
      BY <1>3, <2>1, <2>4 DEF Sleeping
    <3>1. \A u \in Threads : call[t].lock \notin has[u].w
      BY <1>3, <2>4, <3>0, ThreadsAssumption
    <3>2. \A u \in Threads : has'[u].r = has[u].r
      BY <1>5, <2>4
    <3>3. has'[t].w = has[t].w \union {call[t].lock} /\ \A u \in Threads \ {t} : has'[u].w = has[u].w
      BY <1>5, <2>4
    <3>4. writer'[call[t].lock] = t /\ \A k \in srws \ {call[t].lock} : writer'[k] = writer[k]
      BY <1>0, <2>4, <3>0 DEF TypeOK
    <3>5. HoldersOK'
      BY <1>3, <2>1, <3>0, <3>1, <3>3, <3>4
    <3> QED BY <1>2, <1>4, <2>1, <2>2, <3>2, <3>5
  <2> QED BY <1>9, <2>3, <2>4 DEF CvRegains
<1>10. ASSUME NEW k \in Srws, ReleaseSRWLockExclusive(t, k)
       PROVE  SrwInv'
  <2>1. /\ k \in has[t].w /\ SrwGet(k) /\ call' = call /\ cell' = cell
        /\ writer' = IF k \in srws' THEN Freed(t, k) ELSE writer
        /\ has' = [has EXCEPT ![t].w = @ \ {k}]
    BY <1>10 DEF ReleaseSRWLockExclusive
  <2>2. HoldersOK'
    BY <1>0, <2>1, WriterGone
  <2>3. srws \subseteq srws'
    BY <1>0, <2>1, SrwGrows
  <2> QED BY <1>2, <1>4, <1>5, <1>7, <2>1, <2>2, <2>3
<1>11. ASSUME NEW k \in Srws, ReleaseSRWLockShared(t, k) \/ AcquireSRWLockShared(t, k)
       PROVE  SrwInv'
  <2>1. /\ srws' = srws /\ writer' = writer /\ call' = call
        /\ \/ /\ k \in has[t].r /\ cell' = [cell EXCEPT ![k] = @ - 1]
              /\ has' = [has EXCEPT ![t].r = @ \ {k}]
           \/ /\ k \notin has[t].r /\ cell' = [cell EXCEPT ![k] = @ + 1]
              /\ has' = [has EXCEPT ![t].r = @ \union {k}]
    BY <1>11 DEF ReleaseSRWLockShared, AcquireSRWLockShared
  <2>2. \A u \in Threads : has'[u].w = has[u].w
    BY <1>0, <2>1 DEF HasType
  <2>3. HoldersOK' /\ CallsOK'
    BY <1>3, <1>7, <2>1, <2>2
  <2>4. ASSUME NEW j \in Srws
        PROVE  cell'[j] = Cardinality(Readers(j)')
    <3>1. CASE j # k
      <4>1. cell'[j] = cell[j] /\ Readers(j)' = Readers(j)
        BY <1>0, <2>1, <3>1 DEF TypeOK, Readers
      <4> QED BY <1>3, <4>1
    <3>2. CASE j = k /\ k \in has[t].r
      <4>1. cell'[j] = cell[j] - 1 /\ Readers(j)' = Readers(j) \ {t}
        BY <1>0, <2>1, <3>2 DEF TypeOK, Readers
      <4> QED BY <1>0, <3>2, <4>1, ReaderSteps, Zenon
    <3>3. CASE j = k /\ k \notin has[t].r
      <4>1. cell'[j] = cell[j] + 1 /\ Readers(j)' = Readers(j) \union {t}
        BY <1>0, <2>1, <3>3 DEF TypeOK, Readers
      <4> QED BY <1>0, <3>3, <4>1, ReaderSteps, Zenon
    <3> QED BY <3>1, <3>2, <3>3
  <2> QED BY <1>2, <2>3, <2>4
<1>12. ASSUME NEW k \in Srws, NEW try \in BOOLEAN, AcquireSRWLockExclusive(t, k, try)
       PROVE  SrwInv'
  <2>1. SrwGet(k) /\ writer' = writer /\ cell' = cell
    BY <1>12 DEF AcquireSRWLockExclusive
  <2>2. /\ srws \subseteq srws' /\ (k \notin srws' => Cardinality(srws') = NSrws)
        /\ \A u \in Threads : \A j \in has[u].w :
             IF j \in srws' THEN writer'[j] = u ELSE Cardinality(srws') = NSrws
    BY <1>0, <2>1, SrwGrows, TableGrown
  <2>3. CASE k \in srws' /\ Goes(t, [pc |-> "write", k |-> k, try |-> try]) /\ has' = has
    <3>1. CallsOK'
      BY <1>6, <2>2, <2>3
    <3> QED BY <1>2, <1>4, <2>1, <2>2, <2>3, <3>1
  <2>4. CASE k \notin srws' /\ has' = [has EXCEPT ![t].w = @ \union {k}] /\ call' = call
    <3>1. HoldersOK'
      BY <1>5, <2>2, <2>4
    <3> QED BY <1>2, <1>4, <1>5, <1>7, <2>1, <2>2, <2>4, <3>1
  <2> QED BY <1>12, <2>3, <2>4 DEF AcquireSRWLockExclusive
<1>13. ASSUME NEW v \in Cvs, NEW timed \in BOOLEAN, NEW k \in Srws, SleepConditionVariableSRW(t, v, k, timed)
       PROVE  SrwInv'
  <2>1. k \in has[t].w /\ SrwGet(k) /\ cell' = cell
    BY <1>13 DEF SleepConditionVariableSRW
  <2>2. srws \subseteq srws'
    BY <1>0, <2>1, SrwGrows
  <2>3. CASE writer' = writer /\ has' = has /\ call' = call
    <3>1. HoldersOK'
      BY <1>0, <2>1, <2>3, TableGrown
    <3> QED BY <1>2, <1>4, <1>7, <2>1, <2>2, <2>3, <3>1
  <2>4. CASE /\ k \in srws' /\ writer' = Freed(t, k) /\ has' = [has EXCEPT ![t].w = @ \ {k}]
             /\ Goes(t, Sleeps(t, v, k, timed))
    <3>1. HoldersOK'
      BY <1>0, <2>1, <2>4, WriterGone
    <3>2. CallsOK'
      BY <1>6, <2>2, <2>4 DEF Sleeps
    <3> QED BY <1>2, <1>4, <1>5, <2>1, <2>4, <3>1, <3>2
  <2> QED BY <1>13, <2>3, <2>4 DEF SleepConditionVariableSRW
<1> QED BY <1>8, <1>9, <1>10, <1>11, <1>12, <1>13

-----------------------------------------------------------------------------
(* One-time initialisation                                                   *)

LEMMA OnceFrame ==
  ASSUME OnceInv, UNCHANGED onceVars, \A u \in Initialising' : u \in Initialising
  PROVE  OnceInv'
BY DEF OnceInv, onceVars

(* Steps of the locks start no initialisation.                               *)
LEMMA OnceKept ==
  ASSUME IInv, NEW t \in Threads, UNCHANGED onceVars,
         \/ call' = call
         \/ \E c : Goes(t, c) /\ c.pc \notin {"callback", "begun"}
         \/ \E v \in Cvs : \E ts \in SUBSET Asleep(v) : call' = Woken(ts)
  PROVE  OnceInv'
<1>0. TypeOK /\ OnceInv
  BY DEF IInv
<1>1. CASE call' = call
  BY <1>0, <1>1, OnceFrame DEF Initialising
<1>2. ASSUME NEW c, Goes(t, c), c.pc \notin {"callback", "begun"}
      PROVE  OnceInv'
  <2>1. call'[t] = c /\ \A u \in Threads \ {t} : call'[u] = call[u]
    BY <1>0, <1>2 DEF Goes, TypeOK
  <2> QED BY <1>0, <1>2, <2>1, OnceFrame DEF Initialising
<1>3. ASSUME NEW v \in Cvs, NEW ts \in SUBSET Asleep(v), call' = Woken(ts)
      PROVE  OnceInv'
  <2>1. \A u \in Threads : call'[u] = call[u] \/ call'[u].pc = "awake"
    BY <1>0, <1>3, WokenCalls
  <2> QED BY <1>0, <2>1, OnceFrame DEF Initialising
<1> QED BY <1>1, <1>2, <1>3

LEMMA OnceSteps ==
  ASSUME IInv, NEW t \in Threads, OnceStep(t)
  PROVE  OnceInv'
<1>0. TypeOK /\ OnceInv
  BY DEF IInv
<1>1. \A c : Goes(t, c) => call'[t] = c /\ \A u \in Threads \ {t} : call'[u] = call[u]
  BY <1>0 DEF Goes, TypeOK
<1>2. CASE InitOnceExecuteOnce(t)
  <2>1. CASE UNCHANGED <<once, call>> /\ told' = told \union {t} /\ once = "done" /\ UNCHANGED <<early, finished>>
    BY <1>0, <2>1 DEF OnceInv, Initialising
  <2>2. CASE Goes(t, [pc |-> "callback"]) /\ once = "fresh" /\ once' = "busy" /\ UNCHANGED <<told, early, finished>>
    <3>1. Initialising = {} /\ Initialising' \subseteq {t}
      BY <1>0, <1>1, <2>2 DEF OnceInv, Initialising
    <3> QED BY <1>0, <2>2, <3>1 DEF OnceInv
  <2>3. CASE Goes(t, [pc |-> "spin"]) /\ UNCHANGED <<once, told, early, finished>>
    <3>1. Initialising' \subseteq Initialising
      BY <1>1, <2>3 DEF Initialising
    <3> QED BY <1>0, <2>3, <3>1 DEF OnceInv
  <2> QED BY <1>2, <2>1, <2>2, <2>3 DEF InitOnceExecuteOnce
<1>3. CASE CallbackReturns(t)
  <2>1. t \in Initialising /\ Goes(t, Idle)
    BY <1>3 DEF CallbackReturns, At, Initialising
  <2>2. once = "busy" /\ Initialising = {t}
    BY <1>0, <2>1 DEF OnceInv
  <2>3. Initialising' = {}
    BY <1>1, <2>1, <2>2, IdleType DEF Initialising
  <2> QED BY <1>0, <1>3, <2>2, <2>3 DEF CallbackReturns, OnceInv
<1>4. CASE SpinEnds(t)
  <2>1. Goes(t, Idle) /\ UNCHANGED <<once, finished>>
    BY <1>4 DEF SpinEnds
  <2>2. Initialising' \subseteq Initialising
    BY <1>1, <2>1, IdleType DEF Initialising
  <2> QED BY <1>0, <1>4, <2>1, <2>2 DEF SpinEnds, OnceInv
<1>5. CASE InitOnceBeginInitialize(t)
  <2>1. CASE once = "fresh"
    <3>1. Initialising = {} /\ Initialising' \subseteq {t}
      BY <1>0, <1>1, <1>5, <2>1 DEF InitOnceBeginInitialize, OnceInv, Initialising
    <3> QED BY <1>0, <1>5, <2>1, <3>1 DEF InitOnceBeginInitialize, OnceInv
  <2>2. CASE once # "fresh"
    <3>1. Initialising' = Initialising
      BY <1>5, <2>2 DEF InitOnceBeginInitialize, Initialising
    <3>2. once \in {"busy", "done", "donectx"}
      BY <1>0, <2>2 DEF TypeOK
    <3> QED BY <1>0, <1>5, <2>2, <3>1, <3>2 DEF InitOnceBeginInitialize, OnceInv
  <2> QED BY <2>1, <2>2
<1>6. CASE InitOnceComplete(t)
  <2>1. t \in Initialising /\ Goes(t, Idle)
    BY <1>6 DEF InitOnceComplete, At, Initialising
  <2>2. once = "busy" /\ Initialising = {t}
    BY <1>0, <2>1 DEF OnceInv
  <2>3. Initialising' = {}
    BY <1>1, <2>1, <2>2, IdleType DEF Initialising
  <2> QED BY <1>0, <1>6, <2>2, <2>3 DEF InitOnceComplete, OnceInv
<1>7. CASE InitOnceCheckOnly(t)
  <2>1. Initialising' = Initialising
    BY <1>7 DEF InitOnceCheckOnly, Initialising
  <2> QED BY <1>0, <1>7, <2>1 DEF InitOnceCheckOnly, OnceInv
<1> QED BY <1>2, <1>3, <1>4, <1>5, <1>6, <1>7 DEF OnceStep

LEMMA OnceUntouched ==
  ASSUME IInv, NEW t \in Threads,
         \/ Begins(t)
         \/ CsTest(t) \/ CsInit(t) \/ CsMark(t) \/ CsLock(t) \/ LeaveCriticalSection(t)
         \/ DeleteCriticalSection(t) \/ SrwLock(t)
         \/ CvWait(t) \/ CvTimesOut(t) \/ SpuriousWakeup(t) \/ CvRegains(t)
         \/ \E k \in Srws : \/ ReleaseSRWLockExclusive(t, k) \/ ReleaseSRWLockShared(t, k)
                            \/ AcquireSRWLockShared(t, k)
                            \/ \E try \in BOOLEAN : AcquireSRWLockExclusive(t, k, try)
         \/ \E v \in Cvs : \/ WakeConditionVariable(t, v) \/ WakeAllConditionVariable(t, v)
                           \/ \E timed \in BOOLEAN :
                                \/ SleepConditionVariableCS(t, v, timed)
                                \/ \E k \in Srws : SleepConditionVariableSRW(t, v, k, timed)
  PROVE  OnceInv'
<1>0. TypeOK /\ call[t] \in CallType
  BY DEF IInv, TypeOK
<1>1. Tested(t).pc \in {"idle", "lock"} /\ Idle.pc = "idle"
  BY IdleType DEF Tested
<1>2. CASE Begins(t)
  BY <1>2, OnceKept DEF Begins, EnterCriticalSection, TryEnterCriticalSection, InitializeCriticalSection, StartCs
<1>3. CASE CsTest(t) \/ CsInit(t) \/ CsMark(t) \/ CsLock(t)
  BY <1>1, <1>3, OnceKept DEF CsTest, CsInit, CsMark, CsLock
<1>4. CASE LeaveCriticalSection(t) \/ DeleteCriticalSection(t)
  BY <1>4, OnceKept DEF LeaveCriticalSection, DeleteCriticalSection
<1>5. CASE SrwLock(t) \/ CvRegains(t)
  BY <1>1, <1>5, OnceKept DEF SrwLock, CvRegains
<1>6. CASE CvWait(t) \/ CvTimesOut(t) \/ SpuriousWakeup(t)
  <2>1. At(t, "released") \/ At(t, "asleep")
    BY <1>6 DEF CvWait, CvTimesOut, SpuriousWakeup
  <2>2. \A pc \in {"asleep", "awake"} : [call[t] EXCEPT !.pc = pc].pc = pc
    BY <1>0, <2>1, CallShape DEF At
  <2> QED BY <1>6, <2>2, OnceKept DEF CvWait, CvTimesOut, SpuriousWakeup
<1>7. ASSUME NEW k \in Srws,
             \/ ReleaseSRWLockExclusive(t, k) \/ ReleaseSRWLockShared(t, k)
             \/ AcquireSRWLockShared(t, k)
      PROVE  OnceInv'
  BY <1>7, OnceKept DEF ReleaseSRWLockExclusive, ReleaseSRWLockShared, AcquireSRWLockShared
<1>8. ASSUME NEW k \in Srws, NEW try \in BOOLEAN, AcquireSRWLockExclusive(t, k, try)
      PROVE  OnceInv'
  BY <1>8, OnceKept DEF AcquireSRWLockExclusive
<1>9. ASSUME NEW v \in Cvs, WakeConditionVariable(t, v) \/ WakeAllConditionVariable(t, v)
      PROVE  OnceInv'
  <2>1. \A u \in Asleep(v) : {u} \in SUBSET Asleep(v)
    OBVIOUS
  <2> QED BY <1>9, <2>1, OnceKept DEF WakeConditionVariable, WakeAllConditionVariable
<1>10. ASSUME NEW v \in Cvs, NEW timed \in BOOLEAN, SleepConditionVariableCS(t, v, timed)
       PROVE  OnceInv'
  BY <1>10, OnceKept DEF SleepConditionVariableCS, Sleeps
<1>11. ASSUME NEW v \in Cvs, NEW timed \in BOOLEAN, NEW k \in Srws, SleepConditionVariableSRW(t, v, k, timed)
       PROVE  OnceInv'
  BY <1>11, OnceKept DEF SleepConditionVariableSRW, Sleeps
<1> QED BY <1>2, <1>3, <1>4, <1>5, <1>6, <1>7, <1>8, <1>9, <1>10, <1>11

-----------------------------------------------------------------------------
(* The theorems                                                              *)

LEMMA NextInv ==
  ASSUME IInv, [Next]_vars
  PROVE  IInv'
<1>1. CASE UNCHANGED vars
  <2>1. TypeOK'
    BY <1>1 DEF IInv, vars, TypeOK
  <2>2. CsInv'
    BY <1>1 DEF IInv, vars, CsInv, Sleeping
  <2>3. SrwInv'
    BY <1>1 DEF IInv, vars, SrwInv, Sleeping, Readers
  <2>4. OnceInv'
    BY <1>1 DEF IInv, vars, OnceInv, Initialising
  <2> QED BY <2>1, <2>2, <2>3, <2>4 DEF IInv
<1>2. ASSUME NEW t \in Threads, Step(t)
      PROVE  IInv'
  <2>1. TypeOK'
    BY <1>2, CsTypes, SrwTypes, CvTypes, OnceTypes DEF Step, OnceStep
  <2>2. CsInv'
    BY <1>2, CsKept, CsSteps DEF Step, OnceStep
  <2>3. SrwInv'
    BY <1>2, SrwKept, SrwSteps DEF Step, OnceStep
  <2>4. OnceInv'
    BY <1>2, OnceSteps, OnceUntouched DEF Step, OnceStep
  <2> QED BY <2>1, <2>2, <2>3, <2>4 DEF IInv
<1>3. ASSUME NEW t \in Threads, Releases(t)
      PROVE  IInv'
  <2>1. TypeOK'
    BY <1>3, CsTypes, SrwTypes DEF Releases
  <2>2. CsInv'
    BY <1>3, CsKept, CsSteps DEF Releases
  <2>3. SrwInv'
    BY <1>3, SrwKept, SrwSteps DEF Releases
  <2>4. OnceInv'
    BY <1>3, OnceUntouched DEF Releases
  <2> QED BY <2>1, <2>2, <2>3, <2>4 DEF IInv
<1>4. ASSUME NEW t \in Threads, Call(t)
      PROVE  IInv'
  <2>1. TypeOK'
    BY <1>4, CsTypes, SrwTypes, CvTypes, OnceTypes DEF Call, Begins, OnceStep
  <2>2. CsInv'
    BY <1>4, CsKept, CsSteps DEF Call, Begins, OnceStep
  <2>3. SrwInv'
    BY <1>4, SrwKept, SrwSteps DEF Call, Begins, OnceStep
  <2>4. OnceInv'
    BY <1>4, OnceSteps, OnceUntouched DEF Call, Begins, OnceStep
  <2> QED BY <2>1, <2>2, <2>3, <2>4 DEF IInv
<1>5. ASSUME NEW t \in Threads, SpuriousWakeup(t) \/ CallbackReturns(t) \/ InitOnceComplete(t)
      PROVE  IInv'
  <2>1. TypeOK'
    BY <1>5, CvTypes, OnceTypes DEF OnceStep
  <2>2. CsInv'
    BY <1>5, CsKept DEF OnceStep
  <2>3. SrwInv'
    BY <1>5, SrwKept DEF OnceStep
  <2>4. OnceInv'
    BY <1>5, OnceSteps, OnceUntouched DEF OnceStep
  <2> QED BY <2>1, <2>2, <2>3, <2>4 DEF IInv
<1> QED BY <1>1, <1>2, <1>3, <1>4, <1>5 DEF Next

LEMMA AlwaysInv == Spec => []IInv
BY InitInv, NextInv, PTL DEF Spec

(* The tables of locks never outgrow their arrays and no count is negative;  *)
(* a thread is told that initialisation is done only after it succeeded or   *)
(* by an InitOnceBeginInitialize that came while another thread was at it,   *)
(* one thread initialises at a time, and none after a success: for every     *)
(* number of threads, locks and entries.                                     *)
THEOREM InitialisedOnce == Spec => []OnceTableOK
<1>1. IInv => OnceTableOK
  <2> SUFFICES ASSUME IInv PROVE OnceTableOK
    OBVIOUS
  <2>1. IsFiniteSet(Initialising)
    BY ThreadsAssumption, FS_Subset DEF Initialising
  <2>2. CASE Initialising = {}
    BY <2>2, FS_EmptySet DEF IInv, OnceInv, OnceTableOK, OnceMeansDone
  <2>3. ASSUME NEW t \in Initialising
        PROVE  OnceTableOK
    <3>1. Initialising = {t} /\ once = "busy"
      BY DEF IInv, OnceInv
    <3>2. Cardinality(Initialising) = 1
      BY <3>1, FS_Singleton
    <3> QED BY <3>1, <3>2 DEF IInv, OnceInv, OnceTableOK, OnceMeansDone
  <2> QED BY <2>2, <2>3
<1> QED BY <1>1, AlwaysInv, PTL

(* At most one thread is in the critical section, as often as it entered,    *)
(* unless two threads initialised it at once; and two threads hold one SRW   *)
(* lock exclusively only if its table was full.                              *)
THEOREM LocksAlwaysExclude == Spec => []LocksExclude
<1>1. IInv => CriticalSectionsExclude
  BY DEF IInv, CsInv, CriticalSectionsExclude
<1>2. IInv => WritersExclude
  BY DEF IInv, SrwInv, WritersExclude
<1> QED BY <1>1, <1>2, AlwaysInv, PTL DEF LocksExclude

=============================================================================
