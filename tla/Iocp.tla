-------------------------------- MODULE Iocp --------------------------------
(***************************************************************************)
(* I/O completion ports of the loader (loader.c 5196-5365 and ConnectEx).  *)
(*                                                                         *)
(* A port is a ring of Cap entries guarded by a mutex and one condition    *)
(* variable.  PostQueuedCompletionStatus appends and SIGNALS (one waiter); *)
(* GetQueuedCompletionStatus removes the oldest entry,                     *)
(* GetQueuedCompletionStatusEx removes a batch.  Everything between        *)
(* pthread_mutex_lock and the unlock, or the pthread_cond_wait that        *)
(* releases the mutex, is one step.                                        *)
(*                                                                         *)
(* The port table and the table that associates a file handle with a port  *)
(* and a key are read and written WITHOUT a lock, so                       *)
(* CreateIoCompletionPort is four steps: choose a slot, claim it, choose   *)
(* an association entry, store it; ConnectEx is a lookup and a post.       *)
(***************************************************************************)
EXTENDS Integers, Sequences, FiniteSets

CONSTANTS
  Threads,    \* guest threads that post and wait
  Creators,   \* those of them that call CreateIoCompletionPort
  NPorts,     \* slots of g_iocp_tab (16 in the code)
  Cap,        \* entries of a port's ring (256 in the code)
  AssocCap,   \* entries of g_iocp_assoc (64 in the code)
  Files,      \* file or socket handles, none of them NULL
  Keys,       \* completion keys
  Ovls,       \* OVERLAPPED pointers, the payload of an entry
  MaxBatch,   \* largest array a guest passes to ...StatusEx
  None        \* "no file", "no port chosen", "nothing promised"

ASSUME CapAssumption    == Cap \in Nat \ {0}
ASSUME PortsAssumption  == NPorts \in Nat
ASSUME AssocAssumption  == AssocCap \in Nat
ASSUME BatchAssumption  == MaxBatch \in Nat \ {0}
ASSUME ThreadsAssumption == IsFiniteSet(Threads)
ASSUME CreatorAssumption == Creators \subseteq Threads
ASSUME NoneAssumption   == None \notin Files \union (1 .. NPorts) \union [key : Keys, ovl : Ovls]

Ports   == 1 .. NPorts
Slots   == 0 .. Cap - 1
Entry   == [key : Keys, ovl : Ovls]

VARIABLES
  port,      \* g_iocp_tab: used, ring q, head, tail, cnt
  assoc,     \* g_iocp_assoc: h, p, key
  call,      \* the call each thread is inside, with the locals it holds
  got,       \* what the last Get call to return gave its caller (<<>>: FALSE)
  promised,  \* history: port and key of the last successful create per file
  raced      \* history: two threads were inside CreateIoCompletionPort at once

vars == <<port, assoc, call, got, promised, raced>>

Idle == [pc |-> "idle"]

(* g_iocp_assoc is zero-initialised; entry i is free while h is NULL.  The   *)
(* key of a free entry is never read.                                        *)
FreeAssoc == [h |-> None, p |-> None, key |-> None]

(* A slot of g_iocp_tab after memset.                                        *)
EmptyPort(used) == [used |-> used, q |-> [i \in Slots |-> None],
                    head |-> 0, tail |-> 0, cnt |-> 0]

Init ==
  /\ port = [p \in Ports |-> EmptyPort(FALSE)]
  /\ assoc = [i \in 1 .. AssocCap |-> FreeAssoc]
  /\ call = [t \in Threads |-> Idle]
  /\ got = <<>>
  /\ promised = [f \in Files |-> None]
  /\ raced = FALSE

-----------------------------------------------------------------------------
(* CreateIoCompletionPort                                                    *)

Creating(t) == call[t].pc \in {"claim", "assocScan", "assocStore"}

(* Mutant: the used flag of the slot is not tested.                          *)
CreatePortScanAnySlot(t, f, k) ==
  /\ t \in Creators /\ call[t] = Idle
  /\ \E p \in Ports : call' = [call EXCEPT ![t] =
                          [pc |-> "claim", file |-> f, key |-> k, p |-> p]]
  /\ raced' = (raced \/ \E u \in Threads \ {t} : Creating(u))
  /\ UNCHANGED <<port, assoc, got, promised>>

(* The first free slot for a new port, or the port passed as `existing`.     *)
(* With no free slot the call fails with ERROR_NOT_ENOUGH_MEMORY, and with   *)
(* an `existing` that is no open port with ERROR_INVALID_PARAMETER: neither  *)
(* changes the tables.                                                       *)
CreatePortScan(t, f, k) ==
  /\ t \in Creators /\ call[t] = Idle
  /\ \/ \E p \in Ports :
          /\ ~ port[p].used
          /\ \A r \in 1 .. p - 1 : port[r].used
          /\ call' = [call EXCEPT ![t] =
                        [pc |-> "claim", file |-> f, key |-> k, p |-> p]]
     \/ \E p \in Ports :
          /\ port[p].used
          /\ call' = [call EXCEPT ![t] =
                        [pc |-> "assocScan", file |-> f, key |-> k, p |-> p]]
  /\ raced' = (raced \/ \E u \in Threads \ {t} : Creating(u))
  /\ UNCHANGED <<port, assoc, got, promised>>

(* Threads inside pthread_cond_wait on the port: asleep, or awake and on     *)
(* their way to the mutex.  Lost(p) sleep on a condition variable that was   *)
(* erased under them.                                                        *)
Blocked(p) == {t \in Threads : call[t].pc = "blocked" /\ call[t].p = p}
Woken(p)   == {t \in Threads : call[t].pc = "woken" /\ call[t].p = p}
Waiters(p) == Blocked(p) \union Woken(p)
Lost(p)    == {t \in Threads : call[t].pc = "erased" /\ call[t].p = p}

(* memset, used = 1 and a fresh mutex and condition variable, none of it     *)
(* with the port's mutex held.  When the slot was claimed by another thread  *)
(* in between, the new condition variable knows nothing of the threads that  *)
(* sleep on it; nor, perhaps, of one whose signal was not consumed yet.      *)
CreatePortClaim(t) ==
  LET q == call[t].p IN
  /\ call[t].pc = "claim"
  /\ port' = [port EXCEPT ![q] = EmptyPort(TRUE)]
  /\ \E forgotten \in SUBSET Woken(q) :
       call' = [u \in Threads |->
                  IF u = t THEN [call[u] EXCEPT !.pc = "assocScan"]
                  ELSE IF u \in Blocked(q) \union forgotten
                       THEN [call[u] EXCEPT !.pc = "erased"]
                  ELSE call[u]]
  /\ UNCHANGED <<assoc, got, promised, raced>>

(* Mutant: a file that is associated already is not looked for.              *)
AssocIndexFreeOnly(f, i) ==
  IF i = 0 THEN \A j \in 1 .. AssocCap : assoc[j].h # None
  ELSE assoc[i].h = None /\ \A j \in 1 .. i - 1 : assoc[j].h # None

(* i is the first association entry that is this file's or free; 0: none is. *)
AssocIndex(f, i) ==
  IF i = 0 THEN \A j \in 1 .. AssocCap : assoc[j].h \notin {f, None}
  ELSE /\ assoc[i].h \in {f, None}
       /\ \A j \in 1 .. i - 1 : assoc[j].h \notin {f, None}

AssocScan(t) ==
  LET c == call[t] IN
  /\ c.pc = "assocScan"
  /\ \E i \in 0 .. AssocCap :
       /\ AssocIndex(c.file, i)
       /\ call' = [call EXCEPT ![t] =
                     [pc |-> "assocStore", file |-> c.file, key |-> c.key, p |-> c.p,
                      at |-> i]]
  /\ UNCHANGED <<port, assoc, got, promised, raced>>

(* A full table is not reported: the call still returns the port.            *)
AssocStore(t) ==
  LET c == call[t] IN
  /\ c.pc = "assocStore"
  /\ assoc' = IF c.at = 0 THEN assoc
              ELSE [assoc EXCEPT ![c.at] = [h |-> c.file, p |-> c.p, key |-> c.key]]
  /\ promised' = [promised EXCEPT ![c.file] = <<c.p, c.key>>]
  /\ call' = [call EXCEPT ![t] = Idle]
  /\ UNCHANGED <<port, got, raced>>

-----------------------------------------------------------------------------
(* PostQueuedCompletionStatus and ConnectEx                                  *)

(* Mutant: nobody is signalled.                                              *)
SignalledNobody(p, c) == {c}

(* pthread_cond_signal: one thread blocked on the port becomes runnable.  A  *)
(* thread on an erased condition variable sleeps at the same address and may *)
(* take the signal; a signal nobody is counted for does nothing.             *)
Signalled(p, c) ==
  {[c EXCEPT ![u].pc = "woken"] : u \in Blocked(p) \union Lost(p)}
  \union (IF Blocked(p) = {} THEN {c} ELSE {})

(* Mutant: the tail stays where it is.                                       *)
PushEntryTailStays(r, e) == [r EXCEPT !.q[r.tail] = e, !.cnt = @ + 1]

PushEntry(r, e) ==
  [used |-> r.used, q |-> [r.q EXCEPT ![r.tail] = e], head |-> r.head,
   tail |-> (r.tail + 1) % Cap, cnt |-> r.cnt + 1]

(* Mutant: one entry too many fits.                                          *)
PostOffByOne(p, e, c) ==
  IF port[p].cnt > Cap
  THEN call' = c /\ UNCHANGED port
  ELSE /\ port' = [port EXCEPT ![p] = PushEntry(port[p], e)]
       /\ call' \in Signalled(p, c)

(* c is the calls of the threads once the poster's own call is over.         *)
Post(p, e, c) ==
  IF port[p].cnt >= Cap
  THEN call' = c /\ UNCHANGED port             \* FALSE, error 1385
  ELSE /\ port' = [port EXCEPT ![p] = PushEntry(port[p], e)]
       /\ call' \in Signalled(p, c)

PostQueuedCompletionStatus(t, p, e) ==
  /\ call[t] = Idle /\ port[p].used
  /\ Post(p, e, call)
  /\ UNCHANGED <<assoc, got, promised, raced>>

(* A socket that connects looks its association up ...                       *)
ConnectExLookup(t, f, o) ==
  /\ call[t] = Idle
  /\ \E i \in 1 .. AssocCap :
       /\ assoc[i].h = f
       /\ \A j \in 1 .. i - 1 : assoc[j].h # f
       /\ call' = [call EXCEPT ![t] = [pc |-> "connected", p |-> assoc[i].p,
                                       e |-> [key |-> assoc[i].key, ovl |-> o]]]
  /\ UNCHANGED <<port, assoc, got, promised, raced>>

(* ... and posts its completion there; ConnectEx returns TRUE even when the  *)
(* ring is full and the completion is dropped.                               *)
ConnectExPost(t) ==
  /\ call[t].pc = "connected"
  /\ IF port[call[t].p].used
     THEN Post(call[t].p, call[t].e, [call EXCEPT ![t] = Idle])
     ELSE call' = [call EXCEPT ![t] = Idle] /\ UNCHANGED port
  /\ UNCHANGED <<assoc, got, promised, raced>>

-----------------------------------------------------------------------------
(* GetQueuedCompletionStatus (n = 1) and GetQueuedCompletionStatusEx         *)

Smaller(a, b) == IF a < b THEN a ELSE b

(* The ring's oldest n entries, and the ring without them.                   *)
Oldest(r, n) == [i \in 1 .. n |-> r.q[(r.head + i - 1) % Cap]]
Popped(r, n) ==
  [used |-> r.used, q |-> r.q, head |-> (r.head + n) % Cap, tail |-> r.tail,
   cnt |-> r.cnt - n]

(* The end of a Get call with the mutex held: take up to n entries, or none  *)
(* and FALSE with error 258.                                                 *)
Take(t, p, n) ==
  LET k == Smaller(n, port[p].cnt) IN
  /\ port' = [port EXCEPT ![p] = Popped(port[p], k)]
  /\ got' = Oldest(port[p], k)
  /\ call' = [call EXCEPT ![t] = Idle]

(* timed is FALSE for INFINITE.  A poll (0 ms) never waits.                  *)
GetQueuedCompletionStatus(t, p, n) ==
  /\ call[t] = Idle /\ port[p].used
  /\ \/ Take(t, p, n) /\ port[p].cnt > 0
     \/ Take(t, p, n) /\ port[p].cnt = 0            \* ms = 0
     \/ /\ port[p].cnt = 0                          \* ms > 0: wait
        /\ \E timed \in BOOLEAN :
             call' = [call EXCEPT ![t] = [pc |-> "blocked", p |-> p, n |-> n,
                                          timed |-> timed]]
        /\ UNCHANGED <<port, got>>
  /\ UNCHANGED <<assoc, promised, raced>>

(* A signalled waiter re-acquires the mutex; the while loop re-tests cnt.    *)
WaiterResumes(t) ==
  /\ call[t].pc = "woken"
  /\ IF port[call[t].p].cnt = 0
     THEN call' = [call EXCEPT ![t].pc = "blocked"] /\ UNCHANGED <<port, got>>
     ELSE Take(t, call[t].p, call[t].n)
  /\ UNCHANGED <<assoc, promised, raced>>

(* ETIMEDOUT, also for a waiter that was signalled meanwhile: break, then    *)
(* the entries that arrived are still taken.                                 *)
WaiterTimesOut(t) ==
  /\ call[t].pc \in {"blocked", "woken", "erased"} /\ call[t].timed
  /\ Take(t, call[t].p, call[t].n)
  /\ UNCHANGED <<assoc, promised, raced>>

(* pthread_cond_wait may return without a signal.                            *)
SpuriousWakeup(t) ==
  /\ call[t].pc \in {"blocked", "erased"}
  /\ call' = [call EXCEPT ![t].pc = "woken"]
  /\ UNCHANGED <<port, assoc, got, promised, raced>>

-----------------------------------------------------------------------------
Step(t) ==
  \/ CreatePortClaim(t) \/ AssocScan(t) \/ AssocStore(t)
  \/ ConnectExPost(t) \/ WaiterResumes(t) \/ WaiterTimesOut(t)

Start(t) ==
  \/ \E f \in Files, k \in Keys : CreatePortScan(t, f, k)
  \/ \E p \in Ports, e \in Entry : PostQueuedCompletionStatus(t, p, e)
  \/ \E f \in Files, o \in Ovls : ConnectExLookup(t, f, o)
  \/ \E p \in Ports, n \in 1 .. MaxBatch : GetQueuedCompletionStatus(t, p, n)

Next == \E t \in Threads : Step(t) \/ Start(t) \/ SpuriousWakeup(t)

Spec == Init /\ [][Next]_vars

(* A thread that pthread_cond_wait has woken is scheduled in the end.  No    *)
(* guest has to start a call, no timeout to elapse.                          *)
FairSpec == Spec /\ \A t \in Threads : WF_vars(WaiterResumes(t))
-----------------------------------------------------------------------------
(* Properties                                                                *)

CallType ==
  {Idle}
  \union [pc : {"claim", "assocScan"}, file : Files, key : Keys, p : Ports]
  \union [pc : {"assocStore"}, file : Files, key : Keys, p : Ports, at : 0 .. AssocCap]
  \union [pc : {"connected"}, p : Ports, e : Entry]
  \union [pc : {"blocked", "woken", "erased"}, p : Ports, n : 1 .. MaxBatch,
          timed : BOOLEAN]

PortType == [used : BOOLEAN, q : [Slots -> Entry \union {None}],
             head : Slots, tail : Slots, cnt : 0 .. Cap]

(* Every table, call and result has the shape the C types give it.           *)
TypeOK ==
  /\ port \in [Ports -> PortType]
  /\ assoc \in [1 .. AssocCap -> [h : Files, p : Ports, key : Keys] \union {FreeAssoc}]
  /\ call \in [Threads -> CallType]
  /\ got \in Seq(Entry)
  /\ promised \in [Files -> (Ports \X Keys) \union {None}]
  /\ raced \in BOOLEAN

(* The ring of a port always holds exactly cnt entries that were posted: the *)
(* tail is cnt places after the head, and none of the live places is an      *)
(* entry nobody wrote.  Post moves tail and cnt, Get and GetEx move head and *)
(* cnt, a create resets all three.                                           *)
RingOK(r) ==
  /\ r.tail = (r.head + r.cnt) % Cap
  /\ \A i \in 0 .. r.cnt - 1 : r.q[(r.head + i) % Cap] \in Entry
RingInv == \A p \in Ports : RingOK(port[p])

(* SIGNAL is enough: while k entries lie in a port that threads wait on, at  *)
(* least k of them (or all of them) are awake and on their way to the mutex, *)
(* whoever stole entries, timed out or went back to sleep in between.  A     *)
(* sleeper is cut off from the signals, on an erased condition variable,     *)
(* only when two creates overlapped.                                         *)
NoLostWakeup ==
  \A p \in Ports :
    /\ Cardinality(Woken(p)) >= Smaller(port[p].cnt, Cardinality(Waiters(p)))
    /\ Lost(p) = {} \/ raced

(* One port is handed to two callers only if their creates overlapped: a     *)
(* create that claims a slot finds it unused, unless it raced with another.  *)
ClaimsFreshSlot ==
  [][\A p \in Ports :
       (\E t \in Threads : call[t].pc = "claim" /\ call[t].p = p /\ CreatePortClaim(t))
         => ~ port[p].used \/ raced]_vars

Assoc(f) ==
  IF \E i \in 1 .. AssocCap : assoc[i].h = f
  THEN LET i == CHOOSE j \in 1 .. AssocCap :
                  assoc[j].h = f /\ \A k \in 1 .. j - 1 : assoc[k].h # f
       IN <<assoc[i].p, assoc[i].key>>
  ELSE None

(* What the last successful create of a file promised is what ConnectEx will *)
(* find, unless creates overlapped or every entry belongs to another file.   *)
AssocKeptUnlessFull ==
  \A f \in Files :
    promised[f] # None =>
      \/ Assoc(f) = promised[f]
      \/ raced
      \/ \E t \in Threads : call[t].pc = "assocStore" /\ call[t].file = f
      \/ \A i \in 1 .. AssocCap : assoc[i].h \notin {f, None}

(* The two tables hold what their types say, and the association of a file is  *)
(* kept, through overlapped creates and a table of associations that fills.  *)
PortTablesOK == TypeOK /\ AssocKeptUnlessFull

(* A thread that waits on a port with entries, or the port's entries, do not *)
(* stay: either the entries are taken or nobody waits any more.  Waiters     *)
(* does not count the threads in Lost: one whose condition variable a racing *)
(* create erased may sleep on beside its entries for ever.                   *)
EntriesReachWaiters ==
  \A p \in Ports :
    (port[p].cnt > 0 /\ Waiters(p) # {}) ~> (port[p].cnt = 0 \/ Waiters(p) = {})

(* The entries of a port, oldest first.                                      *)
Contents(p) == Oldest(port[p], port[p].cnt)

(* A port is a FIFO queue: every entry is received once, in the order posted,*)
(* and a Get returns nothing only when the queue is empty; a create that     *)
(* overlapped another may empty a port that was already in use.              *)
FifoQueue == INSTANCE CompletionQueue WITH
               queue <- [p \in Ports |-> Contents(p)],
               open <- {p \in Ports : port[p].used}
IsFifoQueue == FifoQueue!Spec
=============================================================================
