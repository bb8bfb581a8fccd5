-------------------------------- MODULE Locks --------------------------------
(***************************************************************************)
(* Critical sections, SRW locks, condition variables and one-time          *)
(* initialisation (loader.c 797-854, 8007-8133, 8160-8180, 10482-10538).   *)
(*                                                                         *)
(* A critical section is a recursive mutex inside the guest's own memory,  *)
(* followed by a word that says whether it has been initialised; the first *)
(* Enter does that, without a lock.  SRW locks and condition variables     *)
(* are looked up by address in two tables that only grow, and are not      *)
(* there once their table is full.  The two modes of an SRW lock live in   *)
(* different places: writers in the table, readers in the guest's cell.    *)
(* A sleep on a condition variable releases the guest's lock, and only     *)
(* then takes the mutex of the variable.                                   *)
(*                                                                         *)
(* Guests keep Windows' rules: they release what they hold, sleep with the *)
(* lock held once and exclusively, do not recurse into an SRW lock, and    *)
(* initialise or delete a critical section nobody is in.  Left out: a      *)
(* sleep that held an SRW lock shared, the Initialize calls that only      *)
(* write a zero or initialise without a test, WaitOnAddress, the SList.    *)
(***************************************************************************)
EXTENDS Integers, FiniteSets

CONSTANTS
  Threads,     \* guest threads
  Programs,    \* the kinds of object ("cs", "srw", "once") a program may use
  Srws, Cvs,   \* addresses of SRW locks and of condition variables
  NSrws, NCvs, \* entries of g_srw_tab and g_cv_tab (256 in the code)
  MaxDepth,    \* BOUND: nested Enters of the critical section by one thread
  None         \* nobody

ASSUME TablesAssumption  == NSrws \in Nat /\ NCvs \in Nat /\ MaxDepth \in Nat
ASSUME ThreadsAssumption == /\ IsFiniteSet(Threads) /\ None \notin Threads
                            /\ Programs \subseteq SUBSET {"cs", "srw", "once"}
ASSUME AddressAssumption == IsFiniteSet(Srws) /\ IsFiniteSet(Cvs) /\ "cs" \notin Srws

VARIABLES
  uses,     \* the kinds of object this program uses
  cs,       \* the critical section: its sentinel, its mutex
  srws,     \* g_srw_tab: the addresses in it
  writer,   \* the thread that has the lock of a table entry
  cell,     \* the reader count in the guest's SRWLOCK
  cvs,      \* g_cv_tab: the addresses in it
  once,     \* the INIT_ONCE: "fresh", "busy", "done" (2) or "donectx" (Complete's)
  call,     \* the call each thread is inside, with the locals it holds
  has,      \* what each guest thread believes it holds
  told,     \* history: threads that were told initialisation is done
  early,    \* history: the ones Begin told so while another thread initialised
  finished, \* history: an initialisation succeeded
  blurred,  \* history: two threads initialised the critical section at once
  owed      \* history: threads that slept, or were about to, at a WakeAll

vars == <<uses, cs, srws, writer, cell, cvs, once, call, has, told, early, finished,
          blurred, owed>>
csVars   == <<uses, cs, blurred>>
srwVars  == <<srws, writer, cell>>
cvVars   == <<cvs, owed>>
onceVars == <<once, told, early, finished>>

Idle == [pc |-> "idle"]

Init ==
  /\ uses \in Programs
  /\ cs = [ready |-> FALSE, owner |-> None, depth |-> 0]
  /\ srws = {} /\ writer = [k \in Srws |-> None] /\ cell = [k \in Srws |-> 0]
  /\ cvs = {} /\ once = "fresh"
  /\ call = [t \in Threads |-> Idle]
  /\ has = [t \in Threads |-> [cs |-> 0, w |-> {}, r |-> {}]]
  /\ told = {} /\ early = {} /\ finished = FALSE /\ blurred = FALSE /\ owed = {}

Goes(t, c) == call' = [call EXCEPT ![t] = c]
At(t, pc)  == call[t].pc = pc
-----------------------------------------------------------------------------
(* Critical sections                                                         *)

(* for: what the caller wants once the section is initialised.               *)
StartCs(t, for) ==
  /\ "cs" \in uses /\ call[t] = Idle
  /\ Goes(t, [pc |-> "test", for |-> for])
  /\ UNCHANGED <<csVars, srwVars, cvVars, onceVars, has>>

Sleeping(t) == call[t].pc \in {"released", "asleep", "awake"}
InCsCall(t) == \/ call[t].pc \in {"test", "init", "mark", "lock"}
               \/ Sleeping(t) /\ call[t].lock = "cs"
Unused == \A t \in Threads : has[t].cs = 0 /\ ~ InCsCall(t)

EnterCriticalSection(t)    == has[t].cs < MaxDepth /\ StartCs(t, "enter")
TryEnterCriticalSection(t) == has[t].cs < MaxDepth /\ StartCs(t, "try")
InitializeCriticalSection(t) == Unused /\ StartCs(t, "initialise")

Tested(t) == IF call[t].for = "initialise" THEN Idle ELSE [pc |-> "lock", for |-> call[t].for]

(* Mutant: the sentinel is written before the mutex is there.                *)
CsTestMarks(t) ==
  /\ At(t, "test")
  /\ Goes(t, IF cs.ready THEN Tested(t) ELSE [pc |-> "init", for |-> call[t].for])
  /\ cs' = [cs EXCEPT !.ready = TRUE]
  /\ UNCHANGED <<uses, blurred, srwVars, cvVars, onceVars, has>>

CsTest(t) ==
  /\ At(t, "test")
  /\ Goes(t, IF cs.ready THEN Tested(t) ELSE [pc |-> "init", for |-> call[t].for])
  /\ blurred' = (blurred \/ (~ cs.ready /\ \E u \in Threads \ {t} :
                                             call[u].pc \in {"init", "mark"}))
  /\ UNCHANGED <<uses, cs, srwVars, cvVars, onceVars, has>>

(* pthread_mutex_init: whoever had the mutex has it no longer.               *)
CsInit(t) ==
  /\ At(t, "init")
  /\ cs' = [ready |-> cs.ready, owner |-> None, depth |-> 0]
  /\ Goes(t, [pc |-> "mark", for |-> call[t].for])
  /\ UNCHANGED <<uses, blurred, srwVars, cvVars, onceVars, has>>

CsMark(t) ==
  /\ At(t, "mark")
  /\ cs' = [cs EXCEPT !.ready = TRUE]
  /\ Goes(t, Tested(t))
  /\ UNCHANGED <<uses, blurred, srwVars, cvVars, onceVars, has>>

Locked(t) == [ready |-> cs.ready, owner |-> t, depth |-> cs.depth + 1]

(* pthread_mutex_lock of the recursive mutex, or trylock.                    *)
CsLock(t) ==
  /\ At(t, "lock")
  /\ \/ /\ cs.owner \in {None, t}
        /\ cs' = Locked(t)
        /\ has' = [has EXCEPT ![t].cs = @ + 1]
     \/ cs.owner \notin {None, t} /\ call[t].for = "try" /\ UNCHANGED <<cs, has>>
  /\ Goes(t, Idle)
  /\ UNCHANGED <<uses, blurred, srwVars, cvVars, onceVars>>

(* pthread_mutex_unlock refuses anybody but the owner (EPERM).               *)
Unlocked(t) ==
  IF cs.owner # t THEN cs
  ELSE [ready |-> cs.ready, owner |-> IF cs.depth = 1 THEN None ELSE t, depth |-> cs.depth - 1]

LeaveCriticalSection(t) ==
  /\ call[t] = Idle /\ has[t].cs > 0
  /\ cs' = IF cs.ready THEN Unlocked(t) ELSE cs
  /\ has' = [has EXCEPT ![t].cs = @ - 1]
  /\ UNCHANGED <<uses, call, blurred, srwVars, cvVars, onceVars>>

DeleteCriticalSection(t) ==
  /\ "cs" \in uses /\ call[t] = Idle /\ Unused
  /\ cs' = [cs EXCEPT !.ready = FALSE]
  /\ UNCHANGED <<uses, call, has, blurred, srwVars, cvVars, onceVars>>
-----------------------------------------------------------------------------
(* SRW locks                                                                 *)

(* srw_get: the entry of k, which is made unless the table is full.          *)
SrwGet(k) ==
  srws' = IF Cardinality(srws) < NSrws THEN srws \union {k} ELSE srws

(* Without an entry there is nothing to lock, and the guest is told it has   *)
(* the lock.                                                                 *)
AcquireSRWLockExclusive(t, k, try) ==
  /\ "srw" \in uses /\ call[t] = Idle /\ k \notin has[t].w \union has[t].r
  /\ SrwGet(k)
  /\ IF k \in srws'
     THEN Goes(t, [pc |-> "write", k |-> k, try |-> try]) /\ UNCHANGED has
     ELSE has' = [has EXCEPT ![t].w = @ \union {k}] /\ UNCHANGED call
  /\ UNCHANGED <<writer, cell, csVars, cvVars, onceVars>>

SrwLock(t) ==
  LET k == call[t].k IN
  /\ At(t, "write")
  /\ \/ /\ writer[k] = None
        /\ writer' = [writer EXCEPT ![k] = t]
        /\ has' = [has EXCEPT ![t].w = @ \union {k}]
     \/ writer[k] # None /\ call[t].try /\ UNCHANGED <<writer, has>>
  /\ Goes(t, Idle)
  /\ UNCHANGED <<srws, cell, csVars, cvVars, onceVars>>

Freed(t, k) == IF writer[k] = t THEN [writer EXCEPT ![k] = None] ELSE writer

ReleaseSRWLockExclusive(t, k) ==
  /\ call[t] = Idle /\ k \in has[t].w
  /\ SrwGet(k)
  /\ writer' = IF k \in srws' THEN Freed(t, k) ELSE writer
  /\ has' = [has EXCEPT ![t].w = @ \ {k}]
  /\ UNCHANGED <<call, cell, csVars, cvVars, onceVars>>

(* Readers wait for a cell below zero, and no writer makes it one; the       *)
(* Try variant is the same.                                                  *)
AcquireSRWLockShared(t, k) ==
  /\ "srw" \in uses /\ call[t] = Idle /\ k \notin has[t].w \union has[t].r
  /\ cell[k] >= 0
  /\ cell' = [cell EXCEPT ![k] = @ + 1]
  /\ has' = [has EXCEPT ![t].r = @ \union {k}]
  /\ UNCHANGED <<call, srws, writer, csVars, cvVars, onceVars>>

ReleaseSRWLockShared(t, k) ==
  /\ call[t] = Idle /\ k \in has[t].r
  /\ cell' = [cell EXCEPT ![k] = @ - 1]
  /\ has' = [has EXCEPT ![t].r = @ \ {k}]
  /\ UNCHANGED <<call, srws, writer, csVars, cvVars, onceVars>>
-----------------------------------------------------------------------------
(* Condition variables                                                       *)

CvGet(v) == cvs' = IF Cardinality(cvs) < NCvs THEN cvs \union {v} ELSE cvs

Sleeps(t, v, lock, timed) == [pc |-> "released", v |-> v, lock |-> lock, timed |-> timed]

(* Both entries are there, or the call fails at once with the lock held;     *)
(* then the guest's lock is released.                                        *)
SleepConditionVariableCS(t, v, timed) ==
  /\ "cs" \in uses /\ call[t] = Idle /\ has[t].cs = 1
  /\ CvGet(v)
  /\ IF v \in cvs'
     THEN /\ cs' = Unlocked(t)
          /\ has' = [has EXCEPT ![t].cs = 0]
          /\ Goes(t, Sleeps(t, v, "cs", timed))
     ELSE UNCHANGED <<cs, has, call>>
  /\ UNCHANGED <<uses, blurred, owed, srwVars, onceVars>>

SleepConditionVariableSRW(t, v, k, timed) ==
  /\ call[t] = Idle /\ k \in has[t].w
  /\ CvGet(v) /\ SrwGet(k)
  /\ IF v \in cvs' /\ k \in srws'
     THEN /\ writer' = Freed(t, k)
          /\ has' = [has EXCEPT ![t].w = @ \ {k}]
          /\ Goes(t, Sleeps(t, v, k, timed))
     ELSE UNCHANGED <<writer, has, call>>
  /\ UNCHANGED <<cell, owed, csVars, onceVars>>

(* The variable's mutex, and pthread_cond_wait on it.                        *)
CvWait(t) ==
  /\ At(t, "released")
  /\ Goes(t, [call[t] EXCEPT !.pc = "asleep"])
  /\ UNCHANGED <<csVars, srwVars, cvVars, onceVars, has>>

(* A timeout, or no reason at all.                                           *)
CvTimesOut(t) ==
  /\ At(t, "asleep") /\ call[t].timed
  /\ Goes(t, [call[t] EXCEPT !.pc = "awake"])
  /\ UNCHANGED <<csVars, srwVars, cvVars, onceVars, has>>
SpuriousWakeup(t) ==
  /\ At(t, "asleep")
  /\ Goes(t, [call[t] EXCEPT !.pc = "awake"])
  /\ UNCHANGED <<csVars, srwVars, cvVars, onceVars, has>>

(* The guest's lock is taken again, and the call returns.                    *)
CvRegains(t) ==
  LET k == call[t].lock IN
  /\ At(t, "awake")
  /\ \/ /\ k = "cs" /\ cs.owner = None
        /\ cs' = Locked(t) /\ has' = [has EXCEPT ![t].cs = 1]
        /\ UNCHANGED writer
     \/ /\ k # "cs" /\ writer[k] = None
        /\ writer' = [writer EXCEPT ![k] = t]
        /\ has' = [has EXCEPT ![t].w = @ \union {k}]
        /\ UNCHANGED cs
  /\ Goes(t, Idle)
  /\ owed' = owed \ {t}
  /\ UNCHANGED <<uses, blurred, srws, cell, cvs, onceVars>>

Asleep(v) == {t \in Threads : At(t, "asleep") /\ call[t].v = v}
Woken(ts) == [t \in Threads |-> IF t \in ts THEN [call[t] EXCEPT !.pc = "awake"] ELSE call[t]]

WakeConditionVariable(t, v) ==
  /\ uses \cap {"cs", "srw"} # {} /\ call[t] = Idle
  /\ CvGet(v)
  /\ \/ Asleep(v) = {} /\ UNCHANGED call
     \/ \E u \in Asleep(v) : call' = Woken({u})
  /\ UNCHANGED <<owed, csVars, srwVars, onceVars, has>>

WakeAllConditionVariable(t, v) ==
  /\ uses \cap {"cs", "srw"} # {} /\ call[t] = Idle
  /\ CvGet(v)
  /\ call' = Woken(Asleep(v))
  /\ owed' = owed \union {u \in Threads : call[u].pc \in {"released", "asleep"} /\ call[u].v = v}
  /\ UNCHANGED <<csVars, srwVars, onceVars, has>>
-----------------------------------------------------------------------------
(* InitOnce                                                                  *)

InitOnceExecuteOnce(t) ==
  /\ "once" \in uses /\ call[t] = Idle
  /\ \/ once = "done" /\ told' = told \union {t} /\ UNCHANGED <<once, call>>
     \/ /\ once = "fresh"
        /\ once' = "busy"
        /\ Goes(t, [pc |-> "callback"])
        /\ UNCHANGED told
     \/ once \in {"busy", "donectx"} /\ Goes(t, [pc |-> "spin"]) /\ UNCHANGED <<once, told>>
  /\ UNCHANGED <<early, finished, csVars, srwVars, cvVars, has>>

(* Mutant: an initialisation that failed is not tried again.                 *)
CallbackNeverFails(t) ==
  /\ At(t, "callback")
  /\ \E ok \in BOOLEAN : finished' = (finished \/ ok)
  /\ once' = "done" /\ told' = told \union {t}
  /\ Goes(t, Idle)
  /\ UNCHANGED <<early, csVars, srwVars, cvVars, has>>

CallbackReturns(t) ==
  /\ At(t, "callback")
  /\ \E ok \in BOOLEAN :
       /\ once' = IF ok THEN "done" ELSE "fresh"
       /\ told' = IF ok THEN told \union {t} ELSE told
       /\ finished' = (finished \/ ok)
  /\ Goes(t, Idle)
  /\ UNCHANGED <<early, csVars, srwVars, cvVars, has>>

(* Mutant: wait for success.                                                 *)
SpinUntilDone(t) ==
  /\ At(t, "spin") /\ once = "done"
  /\ told' = told \union {t}
  /\ Goes(t, Idle)
  /\ UNCHANGED <<once, early, finished, csVars, srwVars, cvVars, has>>

(* FALSE if the initialisation failed, or was Complete's.                    *)
SpinEnds(t) ==
  /\ At(t, "spin") /\ once # "busy"
  /\ told' = IF once = "done" THEN told \union {t} ELSE told
  /\ Goes(t, Idle)
  /\ UNCHANGED <<once, early, finished, csVars, srwVars, cvVars, has>>

(* The first is to initialise.  Everybody else is told TRUE and that nothing *)
(* is pending, also while the first is still busy.                           *)
InitOnceBeginInitialize(t) ==
  /\ "once" \in uses /\ call[t] = Idle
  /\ \/ /\ once = "fresh"
        /\ once' = "busy"
        /\ Goes(t, [pc |-> "begun"])
        /\ UNCHANGED <<told, early>>
     \/ /\ once # "fresh"
        /\ told' = told \union {t}
        /\ early' = IF once = "busy" THEN early \union {t} ELSE early
        /\ UNCHANGED <<once, call>>
  /\ UNCHANGED <<finished, csVars, srwVars, cvVars, has>>

(* With INIT_ONCE_CHECK_ONLY: TRUE after InitOnceComplete; else error 347,   *)
(* also when InitOnceExecuteOnce has initialised, and nothing changes.       *)
InitOnceCheckOnly(t) ==
  /\ "once" \in uses /\ call[t] = Idle /\ once = "donectx"
  /\ told' = told \union {t}
  /\ UNCHANGED <<once, call, early, finished, csVars, srwVars, cvVars, has>>

InitOnceComplete(t) ==
  /\ At(t, "begun")
  /\ once' = IF once = "busy" THEN "donectx" ELSE once
  /\ finished' = (finished \/ once = "busy")
  /\ Goes(t, Idle)
  /\ UNCHANGED <<told, early, csVars, srwVars, cvVars, has>>
-----------------------------------------------------------------------------
Step(t) ==
  \/ CsTest(t) \/ CsInit(t) \/ CsMark(t) \/ CsLock(t) \/ SrwLock(t)
  \/ CvWait(t) \/ CvTimesOut(t) \/ CvRegains(t) \/ SpinEnds(t)

Releases(t) ==
  \/ LeaveCriticalSection(t)
  \/ \E k \in Srws : ReleaseSRWLockExclusive(t, k) \/ ReleaseSRWLockShared(t, k)

Call(t) ==
  \/ EnterCriticalSection(t) \/ TryEnterCriticalSection(t)
  \/ InitializeCriticalSection(t) \/ DeleteCriticalSection(t)
  \/ \E k \in Srws : \/ AcquireSRWLockShared(t, k)
                     \/ \E try \in BOOLEAN : AcquireSRWLockExclusive(t, k, try)
  \/ \E v \in Cvs, timed \in BOOLEAN :
       \/ SleepConditionVariableCS(t, v, timed)
       \/ \E k \in Srws : SleepConditionVariableSRW(t, v, k, timed)
  \/ \E v \in Cvs : WakeConditionVariable(t, v) \/ WakeAllConditionVariable(t, v)
  \/ InitOnceExecuteOnce(t) \/ InitOnceBeginInitialize(t) \/ InitOnceCheckOnly(t)

Next ==
  \E t \in Threads : \/ Step(t) \/ Releases(t) \/ Call(t) \/ SpuriousWakeup(t)
                     \/ CallbackReturns(t) \/ InitOnceComplete(t)

Spec == Init /\ [][Next]_vars

(* A thread inside the loader is scheduled; no guest has to call, to release *)
(* what it holds, to wake anybody or to finish initialising.                 *)
FairSpec == Spec /\ \A t \in Threads : WF_vars(Step(t))
-----------------------------------------------------------------------------
(* Properties                                                                *)

CallType ==
  {Idle}
  \union [pc : {"test", "init", "mark", "lock"}, for : {"enter", "try", "initialise"}]
  \union [pc : {"write"}, k : Srws, try : BOOLEAN]
  \union [pc : {"released", "asleep", "awake"}, v : Cvs, lock : Srws \union {"cs"},
          timed : BOOLEAN]
  \union [pc : {"callback", "spin", "begun"}]

(* Types; the tables never outgrow their arrays, and no reader count and no  *)
(* recursion count is ever negative.                                         *)
TypeOK ==
  /\ uses \in Programs
  /\ cs \in [ready : BOOLEAN, owner : Threads \union {None}, depth : Nat]
  /\ srws \subseteq Srws /\ Cardinality(srws) <= NSrws
  /\ writer \in [Srws -> Threads \union {None}] /\ cell \in [Srws -> Nat]
  /\ cvs \subseteq Cvs /\ Cardinality(cvs) <= NCvs
  /\ once \in {"fresh", "busy", "done", "donectx"}
  /\ call \in [Threads -> CallType]
  /\ has \in [Threads -> [cs : Nat, w : SUBSET Srws, r : SUBSET Srws]]
  /\ early \subseteq told /\ told \subseteq Threads /\ finished \in BOOLEAN /\ blurred \in BOOLEAN
  /\ owed \subseteq Threads

(* The mutex lives in the guest's memory and is initialised by whoever comes *)
(* first: as long as two threads did not do that at once, at most one thread *)
(* is inside, as often as it entered, and a sleeper that wakes up is inside  *)
(* again.                                                                    *)
CriticalSectionsExclude ==
  ~ blurred =>
    \A t \in Threads : has[t].cs > 0 => cs.owner = t /\ cs.depth = has[t].cs

(* Two threads hold one SRW lock exclusively only if its table was full.     *)
WritersExclude ==
  \A t, u \in Threads :
    \A k \in has[t].w \cap has[u].w :
      t # u => k \notin srws /\ Cardinality(srws) = NSrws

(* What a lock admits one thread to has one thread in it, of either kind of  *)
(* lock, up to these exceptions.                                             *)
LocksExclude == CriticalSectionsExclude /\ WritersExclude

(* The comment on the SRWLOCK: "single-writer flag + shared count packed in  *)
(* the pointer cell", so that a reader and a writer exclude each other.      *)
(* (The writers' flag is in the table, the readers' count in the cell.)      *)
ReadersExcludeWriters ==
  \A t, u \in Threads : has[t].r \cap has[u].w = {}

(* Whoever is told that initialisation is done, by InitOnceExecuteOnce, by   *)
(* InitOnceBeginInitialize or by its CHECK_ONLY, is told so after one        *)
(* succeeded, except by an InitOnceBeginInitialize that came while another   *)
(* thread was initialising: nothing makes that one wait.  Nobody initialises *)
(* after a success, and never two at once.                                   *)
Initialising == {t \in Threads : call[t].pc \in {"callback", "begun"}}
OnceMeansDone ==
  /\ told \ early # {} => finished
  /\ Cardinality(Initialising) <= 1
  /\ finished => Initialising = {}

(* The lock tables hold what their types say, and one-time initialisation    *)
(* happened once.                                                           *)
OnceTableOK == TypeOK /\ OnceMeansDone

(* Whoever waits for another thread's initialisation does not wait for       *)
(* nobody: when it is over, whether or not it succeeded, the wait ends or    *)
(* somebody is trying again.                                                 *)
OnceSettles ==
  \A t \in Threads :
    (At(t, "spin") /\ Initialising = {}) ~> (~ At(t, "spin") \/ Initialising # {})

(* The comment on SleepConditionVariableCS: the guest's lock "is released    *)
(* while waiting and re-acquired on wake, matching Windows semantics", where *)
(* release and sleep are one step: whoever had released its lock for the     *)
(* variable when WakeAll was called is not asleep afterwards.  (Here WakeAll *)
(* can come between the release and the sleep, and is not heard.)            *)
WakeAllReachesEverySleeper == \A t \in owed : ~ At(t, "asleep")
=============================================================================
