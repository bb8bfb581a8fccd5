----------------------------- MODULE Iocp_proof -----------------------------
(***************************************************************************)
(* Proofs about Iocp for every number of threads, ports and entries.       *)
(***************************************************************************)
EXTENDS Iocp, FiniteSetTheorems, TLAPS

-----------------------------------------------------------------------------
(* Arithmetic of the ring.                                                   *)

(* An index one or more places on wraps around at most once.                 *)
LEMMA WrapOnce ==
  ASSUME NEW C \in Nat, C > 0, NEW x \in Nat, x < C + C
  PROVE  x % C = IF x < C THEN x ELSE x - C
<1>1. CASE x < C
  BY <1>1
<1>2. CASE x >= C
  <2>1. x - C \in 0 .. C - 1
    BY <1>2
  <2>2. x % C = (x - C) % C
    BY <1>2, <2>1
  <2> QED BY <1>2, <2>1, <2>2
<1> QED BY <1>1, <1>2

LEMMA WrapSum ==
  ASSUME NEW h \in Slots, NEW i \in 0 .. Cap
  PROVE  /\ (h + i) % Cap = IF h + i < Cap THEN h + i ELSE h + i - Cap
         /\ (h + i) % Cap \in Slots
<1>1. Cap \in Nat /\ Cap > 0 /\ h + i \in Nat /\ h + i < Cap + Cap /\ h \in 0 .. Cap - 1
  BY CapAssumption DEF Slots
<1>2. (h + i) % Cap = IF h + i < Cap THEN h + i ELSE h + i - Cap
  BY <1>1, WrapOnce
<1> QED BY <1>1, <1>2 DEF Slots

(* Two live places of a ring are different slots.                            *)
LEMMA WrapInjective ==
  ASSUME NEW h \in Slots, NEW c \in 0 .. Cap - 1, NEW i \in 0 .. c - 1
  PROVE  (h + i) % Cap # (h + c) % Cap
<1>1. i \in 0 .. Cap /\ c \in 0 .. Cap /\ h \in 0 .. Cap - 1 /\ Cap \in Nat
  BY CapAssumption DEF Slots
<1>2. (h + i) % Cap = IF h + i < Cap THEN h + i ELSE h + i - Cap
  BY <1>1, WrapSum
<1>3. (h + c) % Cap = IF h + c < Cap THEN h + c ELSE h + c - Cap
  BY <1>1, WrapSum
<1> QED BY <1>1, <1>2, <1>3

(* n places on and then i places on is n + i places on.                      *)
LEMMA WrapShift ==
  ASSUME NEW h \in Slots, NEW n \in 0 .. Cap, NEW i \in 0 .. Cap, n + i \in 0 .. Cap
  PROVE  (((h + n) % Cap) + i) % Cap = (h + (n + i)) % Cap
<1> DEFINE g == (h + n) % Cap
<1>1. g = (IF h + n < Cap THEN h + n ELSE h + n - Cap) /\ g \in Slots
  BY WrapSum
<1>2. (h + (n + i)) % Cap = IF h + (n + i) < Cap THEN h + (n + i) ELSE h + (n + i) - Cap
  BY WrapSum
<1> HIDE DEF g
<1>3. (g + i) % Cap = IF g + i < Cap THEN g + i ELSE g + i - Cap
  BY <1>1, WrapSum
<1>4. (g + i) % Cap = (h + (n + i)) % Cap
  BY <1>1, <1>2, <1>3, CapAssumption DEF Slots
<1> QED BY <1>4 DEF g

-----------------------------------------------------------------------------
(* The operations on one ring keep its shape.                                *)

LEMMA EmptyKeepsRing ==
  ASSUME NEW b \in BOOLEAN
  PROVE  EmptyPort(b) \in PortType /\ RingOK(EmptyPort(b))
BY CapAssumption DEF EmptyPort, PortType, RingOK, Slots

(* Appending to a ring that is not full writes the first free place: the     *)
(* cnt older entries are where they were.                                    *)
LEMMA PushKeepsRing ==
  ASSUME NEW r \in PortType, NEW e \in Entry, RingOK(r), r.cnt < Cap
  PROVE  LET s == PushEntry(r, e) IN
         /\ s \in PortType
         /\ RingOK(s)
         /\ s.used = r.used
         /\ s.cnt = r.cnt + 1
         /\ s.head = r.head
         /\ \A i \in 0 .. r.cnt - 1 :
              s.q[(r.head + i) % Cap] = r.q[(r.head + i) % Cap]
         /\ s.q[(r.head + r.cnt) % Cap] = e
<1> DEFINE s == PushEntry(r, e)
<1>1. /\ r.head \in 0 .. Cap - 1 /\ r.tail \in 0 .. Cap - 1 /\ r.cnt \in 0 .. Cap - 1
      /\ Cap \in Nat \ {0} /\ r.used \in BOOLEAN
      /\ r.q \in [Slots -> Entry \union {None}]
      /\ r.head \in Slots /\ r.tail \in Slots
  BY CapAssumption DEF PortType, Slots
<1>2. /\ s.used = r.used /\ s.cnt = r.cnt + 1 /\ s.head = r.head
      /\ s.tail = (r.tail + 1) % Cap /\ s.q = [r.q EXCEPT ![r.tail] = e]
  BY DEF PushEntry
<1>3. s \in PortType
  <2>a. 1 \in 0 .. Cap
    BY <1>1
  <2>1. (r.tail + 1) % Cap \in Slots
    BY <1>1, <2>a, WrapSum
  <2>2. [r.q EXCEPT ![r.tail] = e] \in [Slots -> Entry \union {None}]
    BY <1>1 DEF Slots
  <2>3. r.cnt + 1 \in 0 .. Cap
    BY <1>1
  <2>4. s = [used |-> r.used, q |-> [r.q EXCEPT ![r.tail] = e], head |-> r.head,
             tail |-> (r.tail + 1) % Cap, cnt |-> r.cnt + 1]
    BY DEF PushEntry
  <2>5. r.head \in Slots
    BY DEF PortType
  <2> HIDE DEF s
  <2> QED BY <1>1, <2>1, <2>2, <2>3, <2>4, <2>5 DEF PortType
<1>4. r.tail = (r.head + r.cnt) % Cap
  BY DEF RingOK
<1>5. \A i \in 0 .. r.cnt - 1 : (r.head + i) % Cap # r.tail
  BY <1>1, <1>4, WrapInjective
<1>6. \A i \in 0 .. r.cnt - 1 : s.q[(r.head + i) % Cap] = r.q[(r.head + i) % Cap]
  <2> TAKE i \in 0 .. r.cnt - 1
  <2>a. i \in 0 .. Cap
    BY <1>1
  <2>1. (r.head + i) % Cap \in Slots
    BY <1>1, <2>a, WrapSum
  <2> QED BY <1>1, <1>2, <1>5, <2>1
<1>7. s.q[(r.head + r.cnt) % Cap] = e
  BY <1>1, <1>2, <1>4 DEF Slots
<1>8. s.tail = (s.head + s.cnt) % Cap
  <2>a. 1 \in 0 .. Cap /\ r.cnt \in 0 .. Cap /\ r.cnt + 1 \in 0 .. Cap
    BY <1>1
  <2>1. (((r.head + r.cnt) % Cap) + 1) % Cap = (r.head + (r.cnt + 1)) % Cap
    BY <1>1, <2>a, WrapShift
  <2> QED BY <1>2, <1>4, <2>1
<1>9. RingOK(s)
  <2> SUFFICES ASSUME NEW i \in 0 .. s.cnt - 1
               PROVE  s.q[(s.head + i) % Cap] \in Entry
    BY <1>8 DEF RingOK
  <2>1. CASE i = r.cnt
    BY <1>2, <1>7, <2>1
  <2>2. CASE i # r.cnt
    <3>1. i \in 0 .. r.cnt - 1
      BY <1>1, <1>2, <2>2
    <3> QED BY <1>2, <1>6, <3>1 DEF RingOK
  <2> QED BY <2>1, <2>2
<1> QED BY <1>2, <1>3, <1>6, <1>7, <1>9

(* Removing the n oldest entries leaves the others, in their order.          *)
LEMMA PopKeepsRing ==
  ASSUME NEW r \in PortType, RingOK(r), NEW n \in 0 .. r.cnt
  PROVE  LET s == Popped(r, n) IN
         /\ s \in PortType
         /\ RingOK(s)
         /\ s.used = r.used
         /\ s.cnt = r.cnt - n
         /\ \A i \in 0 .. s.cnt - 1 :
              s.q[(s.head + i) % Cap] = r.q[(r.head + (n + i)) % Cap]
<1> DEFINE s == Popped(r, n)
<1>1. /\ r.head \in 0 .. Cap - 1 /\ r.tail \in 0 .. Cap - 1 /\ r.cnt \in 0 .. Cap
      /\ Cap \in Nat \ {0} /\ r.used \in BOOLEAN /\ n \in 0 .. Cap
      /\ r.q \in [Slots -> Entry \union {None}]
      /\ r.head \in Slots /\ r.tail \in Slots
  BY CapAssumption DEF PortType, Slots
<1>2. /\ s.used = r.used /\ s.cnt = r.cnt - n /\ s.head = (r.head + n) % Cap
      /\ s.tail = r.tail /\ s.q = r.q
  BY DEF Popped
<1>3. s \in PortType
  <2>1. (r.head + n) % Cap \in Slots
    BY <1>1, WrapSum
  <2>2. r.cnt - n \in 0 .. Cap
    BY <1>1
  <2>3. s = [used |-> r.used, q |-> r.q, head |-> (r.head + n) % Cap,
             tail |-> r.tail, cnt |-> r.cnt - n]
    BY DEF Popped
  <2>4. r.tail \in Slots
    BY DEF PortType
  <2> HIDE DEF s
  <2> QED BY <1>1, <2>1, <2>2, <2>3, <2>4 DEF PortType
<1>4. \A i \in 0 .. r.cnt - n : (s.head + i) % Cap = (r.head + (n + i)) % Cap
  <2> TAKE i \in 0 .. r.cnt - n
  <2>1. i \in 0 .. Cap /\ n + i \in 0 .. Cap /\ r.head \in Slots
    BY <1>1 DEF Slots
  <2> QED BY <1>1, <1>2, <2>1, WrapShift
<1>5. \A i \in 0 .. s.cnt - 1 : s.q[(s.head + i) % Cap] = r.q[(r.head + (n + i)) % Cap]
  BY <1>1, <1>2, <1>4
<1>6. s.tail = (s.head + s.cnt) % Cap
  <2>1. (s.head + (r.cnt - n)) % Cap = (r.head + (n + (r.cnt - n))) % Cap
    BY <1>1, <1>4
  <2>2. n + (r.cnt - n) = r.cnt
    BY <1>1
  <2> QED BY <1>2, <2>1, <2>2 DEF RingOK
<1>7. RingOK(s)
  <2> SUFFICES ASSUME NEW i \in 0 .. s.cnt - 1
               PROVE  s.q[(s.head + i) % Cap] \in Entry
    BY <1>6 DEF RingOK
  <2>1. n + i \in 0 .. r.cnt - 1
    BY <1>1, <1>2
  <2> QED BY <1>5, <2>1 DEF RingOK
<1> QED BY <1>2, <1>3, <1>5, <1>7

LEMMA OldestType ==
  ASSUME NEW r \in PortType, RingOK(r), NEW n \in 0 .. r.cnt
  PROVE  Oldest(r, n) \in Seq(Entry) /\ Len(Oldest(r, n)) = n
<1>1. \A i \in 1 .. n : r.q[(r.head + i - 1) % Cap] \in Entry
  <2> TAKE i \in 1 .. n
  <2>1. i - 1 \in 0 .. r.cnt - 1 /\ r.head + i - 1 = r.head + (i - 1)
    BY CapAssumption DEF PortType, Slots
  <2> QED BY <2>1 DEF RingOK
<1>2. n \in Nat
  BY CapAssumption DEF PortType
<1> QED BY <1>1, <1>2 DEF Oldest

-----------------------------------------------------------------------------
(* The inductive invariant: TypeOK alone is not inductive, for a result is   *)
(* a sequence of entries only if the live places of the ring hold entries.   *)
IInv == TypeOK /\ RingInv

(* What the program counter of a call says of its locals.                    *)
LEMMA CallShape ==
  ASSUME NEW c \in CallType
  PROVE  /\ c.pc \in {"claim", "assocScan"} =>
              c \in [pc : {"claim", "assocScan"}, file : Files, key : Keys, p : Ports]
         /\ c.pc = "assocStore" =>
              c \in [pc : {"assocStore"}, file : Files, key : Keys, p : Ports,
                     at : 0 .. AssocCap]
         /\ c.pc = "connected" => c \in [pc : {"connected"}, p : Ports, e : Entry]
         /\ c.pc \in {"blocked", "woken", "erased"} =>
              c \in [pc : {"blocked", "woken", "erased"}, p : Ports, n : 1 .. MaxBatch,
                     timed : BOOLEAN]
BY DEF CallType, Idle

(* pthread_cond_signal changes only the state of calls, not their shape.     *)
LEMMA SignalKeepsType ==
  ASSUME TypeOK, NEW p \in Ports, NEW t \in Threads, call[t].pc \notin {"blocked", "erased"},
         NEW c, c = call \/ c = [call EXCEPT ![t] = Idle],
         NEW d \in Signalled(p, c)
  PROVE  d \in [Threads -> CallType]
<1>1. Idle \in CallType
  BY DEF CallType
<1>2. c \in [Threads -> CallType]
  BY <1>1 DEF TypeOK
<1>3. CASE d = c
  BY <1>2, <1>3
<1>4. CASE d # c
  <2>1. PICK u \in Blocked(p) \union Lost(p) : d = [c EXCEPT ![u].pc = "woken"]
    BY <1>4 DEF Signalled
  <2>2. u \in Threads /\ call[u].pc \in {"blocked", "erased"} /\ u # t
    BY DEF Blocked, Lost
  <2>3. c[u] = call[u] /\ call[u] \in CallType
    BY <2>2 DEF TypeOK
  <2>4. c[u] \in [pc : {"blocked", "woken", "erased"}, p : Ports, n : 1 .. MaxBatch,
                  timed : BOOLEAN]
    BY <2>2, <2>3, CallShape
  <2>5. [c[u] EXCEPT !.pc = "woken"] \in CallType
    <3>1. [c[u] EXCEPT !.pc = "woken"] \in
            [pc : {"blocked", "woken", "erased"}, p : Ports, n : 1 .. MaxBatch,
             timed : BOOLEAN]
      BY <2>4
    <3> QED BY <3>1 DEF CallType
  <2> QED BY <1>2, <2>1, <2>2, <2>5
<1> QED BY <1>3, <1>4

(* A claim moves its own call on, and cuts off threads that wait on the port.*)
LEMMA ClaimShape ==
  ASSUME TypeOK, NEW t \in Threads, CreatePortClaim(t)
  PROVE  /\ call[t] \in [pc : {"claim", "assocScan"}, file : Files, key : Keys, p : Ports]
         /\ call'[t].pc = "assocScan"
         /\ call' \in [Threads -> CallType]
         /\ \A u \in Threads \ {t} :
              \/ call'[u] = call[u]
              \/ /\ call[u].pc \in {"blocked", "woken"} /\ call[u].p = call[t].p
                 /\ call'[u].pc = "erased" /\ call'[u].p = call[u].p
<1>1. call[t] \in [pc : {"claim", "assocScan"}, file : Files, key : Keys, p : Ports]
  BY CallShape DEF CreatePortClaim, TypeOK
<1>2. PICK forgotten \in SUBSET Woken(call[t].p) :
        call' = [u \in Threads |->
                   IF u = t THEN [call[u] EXCEPT !.pc = "assocScan"]
                   ELSE IF u \in Blocked(call[t].p) \union forgotten
                        THEN [call[u] EXCEPT !.pc = "erased"]
                   ELSE call[u]]
  BY DEF CreatePortClaim
<1>3. call'[t] = [call[t] EXCEPT !.pc = "assocScan"]
  BY <1>2
<1>4. call'[t].pc = "assocScan" /\ call'[t] \in CallType
  <2>1. call'[t] \in [pc : {"claim", "assocScan"}, file : Files, key : Keys, p : Ports]
    BY <1>1, <1>3
  <2> QED BY <1>1, <1>3, <2>1 DEF CallType
<1>5. ASSUME NEW u \in Threads \ {t}
      PROVE  /\ call'[u] \in CallType
             /\ \/ call'[u] = call[u]
                \/ /\ call[u].pc \in {"blocked", "woken"} /\ call[u].p = call[t].p
                   /\ call'[u].pc = "erased" /\ call'[u].p = call[u].p
  <2>1. CASE u \in Blocked(call[t].p) \union forgotten
    <3>1. call[u].pc \in {"blocked", "woken"} /\ call[u].p = call[t].p
      BY <1>2, <2>1 DEF Blocked, Woken
    <3>2. call[u] \in [pc : {"blocked", "woken", "erased"}, p : Ports, n : 1 .. MaxBatch,
                       timed : BOOLEAN]
      BY <3>1, CallShape DEF TypeOK
    <3>3. call'[u] = [call[u] EXCEPT !.pc = "erased"]
      BY <1>2, <1>5, <2>1
    <3>4. call'[u] \in [pc : {"blocked", "woken", "erased"}, p : Ports, n : 1 .. MaxBatch,
                        timed : BOOLEAN]
      BY <3>2, <3>3
    <3>5. call'[u].pc = "erased" /\ call'[u].p = call[u].p
      BY <3>2, <3>3
    <3> QED BY <3>1, <3>4, <3>5 DEF CallType
  <2>2. CASE u \notin Blocked(call[t].p) \union forgotten
    <3>1. call'[u] = call[u]
      BY <1>2, <1>5, <2>2
    <3> QED BY <3>1 DEF TypeOK
  <2> QED BY <2>1, <2>2
<1>6. call' \in [Threads -> CallType]
  <2> DEFINE f == call'
  <2>1. f = [u \in Threads |-> f[u]]
    BY <1>2
  <2>2. \A u \in Threads : f[u] \in CallType
    BY <1>4, <1>5
  <2> HIDE DEF f
  <2>3. f \in [Threads -> CallType]
    BY <2>1, <2>2
  <2> QED BY <2>3 DEF f
<1> QED BY <1>1, <1>4, <1>5, <1>6

LEMMA InitInv == Init => IInv
<1> SUFFICES ASSUME Init PROVE IInv
  OBVIOUS
<1>1. \A p \in Ports : port[p] \in PortType /\ RingOK(port[p])
  BY EmptyKeepsRing DEF Init
<1>2. Idle \in CallType /\ FreeAssoc \in {FreeAssoc} /\ <<>> \in Seq(Entry)
  BY DEF CallType
<1> QED BY <1>1, <1>2 DEF Init, IInv, TypeOK, RingInv

(* A post leaves every port well formed and every call of its type, whether  *)
(* the ring was full or not.                                                 *)
LEMMA PostKeepsInv ==
  ASSUME IInv, NEW p \in Ports, NEW e \in Entry, NEW t \in Threads,
         call[t].pc \notin {"blocked", "erased"},
         NEW c, c = call \/ c = [call EXCEPT ![t] = Idle],
         Post(p, e, c), UNCHANGED <<assoc, got, promised, raced>>
  PROVE  IInv'
<1>1. CASE port[p].cnt >= Cap
  <2>1. call' = c /\ port' = port
    BY <1>1 DEF Post
  <2>2. c \in [Threads -> CallType]
    BY DEF IInv, TypeOK, CallType
  <2> QED BY <2>1, <2>2 DEF IInv, TypeOK, RingInv
<1>2. CASE ~ (port[p].cnt >= Cap)
  <2>1. port' = [port EXCEPT ![p] = PushEntry(port[p], e)] /\ call' \in Signalled(p, c)
    BY <1>2 DEF Post
  <2>2. call' \in [Threads -> CallType]
    BY <2>1, SignalKeepsType DEF IInv
  <2>3. port[p] \in PortType /\ RingOK(port[p]) /\ port[p].cnt < Cap
    BY <1>2, CapAssumption DEF IInv, TypeOK, RingInv, PortType
  <2>4. PushEntry(port[p], e) \in PortType /\ RingOK(PushEntry(port[p], e))
    BY <2>3, PushKeepsRing
  <2> QED BY <2>1, <2>2, <2>4 DEF IInv, TypeOK, RingInv
<1> QED BY <1>1, <1>2

(* So does the end of a Get call.                                            *)
LEMMA TakeKeepsInv ==
  ASSUME IInv, NEW t \in Threads, NEW p \in Ports, NEW n \in 1 .. MaxBatch,
         Take(t, p, n), UNCHANGED <<assoc, promised, raced>>
  PROVE  IInv'
<1> DEFINE k == Smaller(n, port[p].cnt)
<1>1. port[p] \in PortType /\ RingOK(port[p])
  BY DEF IInv, TypeOK, RingInv
<1>2. k \in 0 .. port[p].cnt
  BY <1>1, BatchAssumption, CapAssumption DEF Smaller, PortType
<1>3. Popped(port[p], k) \in PortType /\ RingOK(Popped(port[p], k))
  BY <1>1, <1>2, PopKeepsRing
<1>4. Oldest(port[p], k) \in Seq(Entry)
  BY <1>1, <1>2, OldestType
<1>5. /\ port' = [port EXCEPT ![p] = Popped(port[p], k)]
      /\ got' = Oldest(port[p], k)
      /\ call' = [call EXCEPT ![t] = Idle]
  BY DEF Take
<1>6. Idle \in CallType
  BY DEF CallType
<1> HIDE DEF k
<1> QED BY <1>3, <1>4, <1>5, <1>6 DEF IInv, TypeOK, RingInv

LEMMA NextInv == IInv /\ [Next]_vars => IInv'
<1> SUFFICES ASSUME IInv, [Next]_vars PROVE IInv'
  OBVIOUS
<1> USE DEF IInv
<1>1. ASSUME NEW t \in Threads, NEW f \in Files, NEW k \in Keys, CreatePortScan(t, f, k)
      PROVE  IInv'
  <2>1. PICK p \in Ports, s \in {"claim", "assocScan"} :
          call' = [call EXCEPT ![t] = [pc |-> s, file |-> f, key |-> k, p |-> p]]
    BY <1>1 DEF CreatePortScan
  <2>2. [pc |-> s, file |-> f, key |-> k, p |-> p] \in CallType
    BY DEF CallType
  <2>3. call' \in [Threads -> CallType]
    BY <2>1, <2>2 DEF TypeOK
  <2>4. raced' \in BOOLEAN
    BY <1>1 DEF CreatePortScan, TypeOK
  <2> QED BY <1>1, <2>3, <2>4 DEF CreatePortScan, TypeOK, RingInv
<1>2. ASSUME NEW t \in Threads, CreatePortClaim(t)
      PROVE  IInv'
  <2>1. call' \in [Threads -> CallType]
    /\ call[t] \in [pc : {"claim", "assocScan"}, file : Files, key : Keys, p : Ports]
    BY <1>2, ClaimShape
  <2>2. EmptyPort(TRUE) \in PortType /\ RingOK(EmptyPort(TRUE))
    BY EmptyKeepsRing
  <2> QED BY <1>2, <2>1, <2>2 DEF CreatePortClaim, TypeOK, RingInv
<1>3. ASSUME NEW t \in Threads, AssocScan(t)
      PROVE  IInv'
  <2>1. call[t] \in [pc : {"claim", "assocScan"}, file : Files, key : Keys, p : Ports]
    BY <1>3, CallShape DEF AssocScan, TypeOK
  <2>2. PICK i \in 0 .. AssocCap :
          call' = [call EXCEPT ![t] =
                     [pc |-> "assocStore", file |-> call[t].file, key |-> call[t].key,
                      p |-> call[t].p, at |-> i]]
    BY <1>3 DEF AssocScan
  <2>3. [pc |-> "assocStore", file |-> call[t].file, key |-> call[t].key, p |-> call[t].p,
         at |-> i] \in CallType
    BY <2>1, <2>2 DEF CallType
  <2> QED BY <1>3, <2>2, <2>3 DEF AssocScan, TypeOK, RingInv
<1>4. ASSUME NEW t \in Threads, AssocStore(t)
      PROVE  IInv'
  <2>1. call[t] \in [pc : {"assocStore"}, file : Files, key : Keys, p : Ports,
                     at : 0 .. AssocCap]
    BY <1>4, CallShape DEF AssocStore, TypeOK
  <2>2. assoc' \in [1 .. AssocCap -> [h : Files, p : Ports, key : Keys] \union {FreeAssoc}]
    BY <1>4, <2>1 DEF AssocStore, TypeOK
  <2>3. promised' \in [Files -> (Ports \X Keys) \union {None}]
    BY <1>4, <2>1 DEF AssocStore, TypeOK
  <2>4. call' \in [Threads -> CallType]
    BY <1>4 DEF AssocStore, TypeOK, CallType
  <2> QED BY <1>4, <2>2, <2>3, <2>4 DEF AssocStore, TypeOK, RingInv
<1>5. ASSUME NEW t \in Threads, NEW p \in Ports, NEW e \in Entry,
             PostQueuedCompletionStatus(t, p, e)
      PROVE  IInv'
  BY <1>5, PostKeepsInv DEF PostQueuedCompletionStatus, Idle
<1>6. ASSUME NEW t \in Threads, NEW f \in Files, NEW o \in Ovls, ConnectExLookup(t, f, o)
      PROVE  IInv'
  <2>1. PICK i \in 1 .. AssocCap :
          /\ assoc[i].h = f
          /\ call' = [call EXCEPT ![t] = [pc |-> "connected", p |-> assoc[i].p,
                                         e |-> [key |-> assoc[i].key, ovl |-> o]]]
    BY <1>6 DEF ConnectExLookup
  <2>2. assoc[i] \in [h : Files, p : Ports, key : Keys]
    BY <2>1, NoneAssumption DEF TypeOK, FreeAssoc
  <2>3. [pc |-> "connected", p |-> assoc[i].p,
         e |-> [key |-> assoc[i].key, ovl |-> o]] \in CallType
    BY <2>2 DEF CallType, Entry
  <2> QED BY <1>6, <2>1, <2>3 DEF ConnectExLookup, TypeOK, RingInv
<1>7. ASSUME NEW t \in Threads, ConnectExPost(t)
      PROVE  IInv'
  <2>1. /\ call[t] \in [pc : {"connected"}, p : Ports, e : Entry]
        /\ call[t].pc \notin {"blocked", "erased"}
    BY <1>7, CallShape DEF ConnectExPost, TypeOK
  <2>2. CASE port[call[t].p].used
    BY <1>7, <2>1, <2>2, PostKeepsInv DEF ConnectExPost
  <2>3. CASE ~ port[call[t].p].used
    BY <1>7, <2>3 DEF ConnectExPost, TypeOK, RingInv, CallType
  <2> QED BY <2>2, <2>3
<1>8. ASSUME NEW t \in Threads, NEW p \in Ports, NEW n \in 1 .. MaxBatch,
             GetQueuedCompletionStatus(t, p, n)
      PROVE  IInv'
  <2>1. CASE Take(t, p, n)
    BY <1>8, <2>1, TakeKeepsInv DEF GetQueuedCompletionStatus
  <2>2. CASE ~ Take(t, p, n)
    <3>1. PICK timed \in BOOLEAN :
            call' = [call EXCEPT ![t] = [pc |-> "blocked", p |-> p, n |-> n, timed |-> timed]]
      BY <1>8, <2>2 DEF GetQueuedCompletionStatus
    <3>2. [pc |-> "blocked", p |-> p, n |-> n, timed |-> timed] \in CallType
      BY DEF CallType
    <3>3. UNCHANGED <<port, got, assoc, promised, raced>>
      BY <1>8, <2>2 DEF GetQueuedCompletionStatus
    <3> QED BY <3>1, <3>2, <3>3 DEF TypeOK, RingInv
  <2> QED BY <2>1, <2>2
<1>9. ASSUME NEW t \in Threads, WaiterResumes(t)
      PROVE  IInv'
  <2>1. call[t] \in [pc : {"blocked", "woken", "erased"}, p : Ports, n : 1 .. MaxBatch,
                     timed : BOOLEAN]
    BY <1>9, CallShape DEF WaiterResumes, TypeOK
  <2>2. CASE port[call[t].p].cnt = 0
    <3>1. [call[t] EXCEPT !.pc = "blocked"] \in CallType
      <4>1. [call[t] EXCEPT !.pc = "blocked"] \in
              [pc : {"blocked", "woken", "erased"}, p : Ports, n : 1 .. MaxBatch,
               timed : BOOLEAN]
        BY <2>1
      <4> QED BY <4>1 DEF CallType
    <3> QED BY <1>9, <2>2, <3>1 DEF WaiterResumes, TypeOK, RingInv
  <2>3. CASE port[call[t].p].cnt # 0
    BY <1>9, <2>1, <2>3, TakeKeepsInv DEF WaiterResumes
  <2> QED BY <2>2, <2>3
<1>10. ASSUME NEW t \in Threads, WaiterTimesOut(t)
       PROVE  IInv'
  <2>1. call[t] \in [pc : {"blocked", "woken", "erased"}, p : Ports, n : 1 .. MaxBatch,
                     timed : BOOLEAN]
    BY <1>10, CallShape DEF WaiterTimesOut, TypeOK
  <2> QED BY <1>10, <2>1, TakeKeepsInv DEF WaiterTimesOut
<1>11. ASSUME NEW t \in Threads, SpuriousWakeup(t)
       PROVE  IInv'
  <2>1. call[t] \in [pc : {"blocked", "woken", "erased"}, p : Ports, n : 1 .. MaxBatch,
                     timed : BOOLEAN]
    BY <1>11, CallShape DEF SpuriousWakeup, TypeOK
  <2>2. [call[t] EXCEPT !.pc = "woken"] \in CallType
    <3>1. [call[t] EXCEPT !.pc = "woken"] \in
            [pc : {"blocked", "woken", "erased"}, p : Ports, n : 1 .. MaxBatch,
             timed : BOOLEAN]
      BY <2>1
    <3> QED BY <3>1 DEF CallType
  <2> QED BY <1>11, <2>2 DEF SpuriousWakeup, TypeOK, RingInv
<1>12. CASE UNCHANGED vars
  BY <1>12 DEF vars, TypeOK, RingInv
<1> QED BY <1>1, <1>2, <1>3, <1>4, <1>5, <1>6, <1>7, <1>8, <1>9, <1>10, <1>11, <1>12
        DEF Next, Step, Start

-----------------------------------------------------------------------------
(* Every table, call and result of the I/O completion ports keeps its type,  *)
(* and each ring always holds cnt posted entries between head and tail.      *)
THEOREM RingCorrect == Spec => [](TypeOK /\ RingInv)
<1>1. Init => IInv
  BY InitInv
<1>2. IInv /\ [Next]_vars => IInv'
  BY NextInv
<1> QED BY <1>1, <1>2, PTL DEF Spec, IInv

-----------------------------------------------------------------------------
(* A create that overlapped no other claims a slot that is still unused.     *)
ClaimInv ==
  ~ raced =>
    /\ \A t, u \in Threads : Creating(t) /\ Creating(u) => t = u
    /\ \A t \in Threads : call[t].pc = "claim" => ~ port[call[t].p].used

(* Posts, receives and wakeups open no port and start no create.             *)
LEMMA QuietKeepsClaim ==
  ASSUME TypeOK, ClaimInv, UNCHANGED raced,
         \A p \in Ports : port'[p].used => port[p].used,
         \A t \in Threads : call'[t].pc \in {"claim", "assocScan", "assocStore"} =>
           /\ Creating(t)
           /\ call'[t].pc = "claim" => call[t].pc = "claim" /\ call'[t].p = call[t].p
  PROVE  ClaimInv'
<1> SUFFICES ASSUME ~ raced PROVE ClaimInv'
  BY DEF ClaimInv
<1>1. \A t, u \in Threads : Creating(t)' /\ Creating(u)' => t = u
  BY DEF ClaimInv, Creating
<1>2. ASSUME NEW t \in Threads, call'[t].pc = "claim"
      PROVE  ~ port'[call'[t].p].used
  <2>1. call[t].pc = "claim" /\ call'[t].p = call[t].p
    BY <1>2
  <2>2. call[t].p \in Ports
    BY <2>1, CallShape DEF TypeOK
  <2> QED BY <2>1, <2>2 DEF ClaimInv
<1> QED BY <1>1, <1>2 DEF ClaimInv

(* What a signal does to the calls: at most one of them becomes woken.       *)
LEMMA SignalShape ==
  ASSUME TypeOK, NEW p \in Ports, NEW t \in Threads,
         NEW c, c = call \/ c = [call EXCEPT ![t] = Idle],
         NEW d \in Signalled(p, c)
  PROVE  \A u \in Threads : d[u].pc = "woken" \/ d[u] = c[u]
<1>1. CASE d = c
  BY <1>1
<1>2. CASE d # c
  <2>1. PICK u \in Blocked(p) \union Lost(p) : d = [c EXCEPT ![u].pc = "woken"]
    BY <1>2 DEF Signalled
  <2>2. CASE u = t /\ c = [call EXCEPT ![t] = Idle]
    <3>1. c[u] = Idle
      BY <2>2 DEF TypeOK
    <3>2. [c[u] EXCEPT !.pc = "woken"].pc = "woken"
      BY <3>1 DEF Idle
    <3> QED BY <2>1, <2>2, <3>2 DEF TypeOK, Blocked, Lost
  <2>3. CASE ~ (u = t /\ c = [call EXCEPT ![t] = Idle])
    <3>1. c[u] = call[u] /\ call[u].pc \in {"blocked", "erased"} /\ call[u] \in CallType
      BY <2>3 DEF TypeOK, Blocked, Lost
    <3>2. c[u] \in [pc : {"blocked", "woken", "erased"}, p : Ports, n : 1 .. MaxBatch,
                    timed : BOOLEAN]
      BY <3>1, CallShape
    <3>3. [c[u] EXCEPT !.pc = "woken"].pc = "woken"
      BY <3>2
    <3> QED BY <2>1, <3>3 DEF TypeOK, Blocked, Lost
  <2> QED BY <2>2, <2>3
<1> QED BY <1>1, <1>2

LEMMA ClaimNext == IInv /\ ClaimInv /\ [Next]_vars => ClaimInv'
<1> SUFFICES ASSUME IInv, ClaimInv, [Next]_vars PROVE ClaimInv'
  OBVIOUS
<1> USE DEF IInv
<1>0. \A p \in Ports : port[p] \in PortType /\ RingOK(port[p])
  BY DEF TypeOK, RingInv
<1>a. ASSUME NEW p \in Ports, NEW e \in Entry, NEW t \in Threads,
             NEW c, c = call \/ c = [call EXCEPT ![t] = Idle],
             Post(p, e, c), UNCHANGED raced
      PROVE  ClaimInv'
  <2>1. \A u \in Threads : call'[u].pc = "woken" \/ call'[u] = c[u]
    BY <1>a, SignalShape DEF Post
  <2>2. \A u \in Threads : c[u] = call[u] \/ c[u].pc = "idle"
    BY <1>a DEF TypeOK, Idle
  <2>3. \A r \in Ports : port'[r].used => port[r].used
    BY <1>0, <1>a DEF Post, PushEntry, TypeOK
  <2> QED BY <1>a, <2>1, <2>2, <2>3, QuietKeepsClaim DEF Creating
<1>b. ASSUME NEW p \in Ports, NEW t \in Threads, NEW n \in 1 .. MaxBatch,
             Take(t, p, n), UNCHANGED raced
      PROVE  ClaimInv'
  <2>1. \A u \in Threads : call'[u] = call[u] \/ call'[u].pc = "idle"
    BY <1>b DEF Take, TypeOK, Idle
  <2>2. \A r \in Ports : port'[r].used => port[r].used
    BY <1>b DEF Take, Popped, TypeOK
  <2> QED BY <1>b, <2>1, <2>2, QuietKeepsClaim DEF Creating
<1>c. ASSUME NEW t \in Threads, UNCHANGED <<port, raced>>,
             \A u \in Threads \ {t} : call'[u] = call[u],
             call'[t].pc \in {"idle", "connected", "blocked", "woken"}
      PROVE  ClaimInv'
  BY <1>c, QuietKeepsClaim DEF Creating
<1>1. ASSUME NEW t \in Threads, NEW f \in Files, NEW k \in Keys, CreatePortScan(t, f, k)
      PROVE  ClaimInv'
  <2>1. CASE \E u \in Threads \ {t} : Creating(u)
    BY <1>1, <2>1 DEF CreatePortScan, ClaimInv, TypeOK
  <2>2. CASE ~ \E u \in Threads \ {t} : Creating(u)
    <3>1. \A u \in Threads \ {t} : call'[u] = call[u]
      BY <1>1 DEF CreatePortScan, TypeOK
    <3>2. \A u \in Threads \ {t} : call'[u].pc \notin {"claim", "assocScan", "assocStore"}
      BY <2>2, <3>1 DEF Creating
    <3>3. call'[t].pc = "claim" => ~ port[call'[t].p].used
      BY <1>1 DEF CreatePortScan, TypeOK
    <3>4. port' = port
      BY <1>1 DEF CreatePortScan
    <3> QED BY <3>2, <3>3, <3>4 DEF ClaimInv, Creating
  <2> QED BY <2>1, <2>2
<1>2. ASSUME NEW t \in Threads, CreatePortClaim(t)
      PROVE  ClaimInv'
  <2> SUFFICES ASSUME ~ raced PROVE ClaimInv'
    BY <1>2 DEF ClaimInv, CreatePortClaim
  <2>1. call'[t].pc = "assocScan"
    BY <1>2, ClaimShape
  <2>2. \A u \in Threads \ {t} : ~ Creating(u) /\ (call'[u] = call[u] \/ call'[u].pc = "erased")
    BY <1>2, ClaimShape DEF CreatePortClaim, ClaimInv, Creating
  <2>3. raced' = raced
    BY <1>2 DEF CreatePortClaim
  <2> QED BY <2>1, <2>2, <2>3 DEF ClaimInv, Creating
<1>3. ASSUME NEW t \in Threads, AssocScan(t) \/ AssocStore(t)
      PROVE  ClaimInv'
  <2>1. call'[t].pc \in {"assocStore", "idle"} /\ Creating(t)
    BY <1>3 DEF AssocScan, AssocStore, TypeOK, Idle, Creating
  <2>2. \A u \in Threads \ {t} : call'[u] = call[u]
    BY <1>3 DEF AssocScan, AssocStore, TypeOK
  <2>3. UNCHANGED <<port, raced>>
    BY <1>3 DEF AssocScan, AssocStore
  <2> QED BY <2>1, <2>2, <2>3, QuietKeepsClaim DEF Creating
<1>4. ASSUME NEW t \in Threads, NEW p \in Ports, NEW e \in Entry,
             PostQueuedCompletionStatus(t, p, e)
      PROVE  ClaimInv'
  BY <1>4, <1>a DEF PostQueuedCompletionStatus
<1>5. ASSUME NEW t \in Threads, NEW f \in Files, NEW o \in Ovls, ConnectExLookup(t, f, o)
      PROVE  ClaimInv'
  BY <1>5, <1>c DEF ConnectExLookup, TypeOK
<1>6. ASSUME NEW t \in Threads, ConnectExPost(t)
      PROVE  ClaimInv'
  <2>1. call[t] \in [pc : {"connected"}, p : Ports, e : Entry]
    BY <1>6, CallShape DEF ConnectExPost, TypeOK
  <2>2. CASE port[call[t].p].used
    BY <1>6, <1>a, <2>1, <2>2 DEF ConnectExPost
  <2>3. CASE ~ port[call[t].p].used
    BY <1>6, <1>c, <2>3 DEF ConnectExPost, TypeOK, Idle
  <2> QED BY <2>2, <2>3
<1>7. ASSUME NEW t \in Threads, NEW p \in Ports, NEW n \in 1 .. MaxBatch,
             GetQueuedCompletionStatus(t, p, n)
      PROVE  ClaimInv'
  <2>1. CASE Take(t, p, n)
    BY <1>7, <1>b, <2>1 DEF GetQueuedCompletionStatus
  <2>2. CASE ~ Take(t, p, n)
    BY <1>7, <1>c, <2>2 DEF GetQueuedCompletionStatus, TypeOK
  <2> QED BY <2>1, <2>2
<1>8. ASSUME NEW t \in Threads,
             WaiterResumes(t) \/ WaiterTimesOut(t) \/ SpuriousWakeup(t)
      PROVE  ClaimInv'
  <2>1. call[t] \in [pc : {"blocked", "woken", "erased"}, p : Ports, n : 1 .. MaxBatch,
                     timed : BOOLEAN]
    BY <1>8, CallShape DEF WaiterResumes, WaiterTimesOut, SpuriousWakeup, TypeOK
  <2>2. CASE Take(t, call[t].p, call[t].n)
    BY <1>8, <1>b, <2>1, <2>2 DEF WaiterResumes, WaiterTimesOut, SpuriousWakeup
  <2>3. CASE ~ Take(t, call[t].p, call[t].n)
    <3>1. PICK s \in {"blocked", "woken"} : call' = [call EXCEPT ![t].pc = s]
      BY <1>8, <2>3 DEF WaiterResumes, WaiterTimesOut, SpuriousWakeup
    <3>2. call'[t].pc = s /\ \A u \in Threads \ {t} : call'[u] = call[u]
      BY <2>1, <3>1 DEF TypeOK
    <3>3. UNCHANGED <<port, raced>>
      BY <1>8, <2>3 DEF WaiterResumes, WaiterTimesOut, SpuriousWakeup
    <3> QED BY <1>c, <3>2, <3>3
  <2> QED BY <2>2, <2>3
<1>9. CASE UNCHANGED vars
  BY <1>9 DEF vars, ClaimInv, Creating
<1> QED BY <1>1, <1>2, <1>3, <1>4, <1>5, <1>6, <1>7, <1>8, <1>9 DEF Next, Step, Start

LEMMA ClaimCorrect == Spec => []ClaimInv
<1>1. Init => ClaimInv
  <2> SUFFICES ASSUME Init PROVE ClaimInv
    OBVIOUS
  <2>1. \A t \in Threads : call[t].pc = "idle"
    BY DEF Init, Idle
  <2> QED BY <2>1 DEF ClaimInv, Creating
<1>2. IInv /\ ClaimInv /\ [Next]_vars => ClaimInv'
  BY ClaimNext
<1>3. Spec => []IInv
  BY RingCorrect DEF IInv
<1> QED BY <1>1, <1>2, <1>3, PTL DEF Spec

(* A create that overlapped no other never takes over a port in use.         *)
THEOREM ClaimsFresh == Spec => ClaimsFreshSlot
<1>1. ClaimInv => [\A p \in Ports :
         (\E t \in Threads : call[t].pc = "claim" /\ call[t].p = p /\ CreatePortClaim(t))
           => ~ port[p].used \/ raced]_vars
  BY DEF ClaimInv
<1> QED BY <1>1, ClaimCorrect, PTL DEF ClaimsFreshSlot

-----------------------------------------------------------------------------
(* While no two creates have overlapped, the association entries are filled  *)
(* from the front and no file has two; a create that is about to store holds *)
(* an index the scan would still find; and what a create promised is in the  *)
(* table, unless every entry belongs to another file.                        *)
NoSecondEntry ==
  \A i \in 1 .. AssocCap : \A j \in 1 .. i - 1 :
    assoc[i].h # None => assoc[j].h \notin {None, assoc[i].h}

ScanStillHolds ==
  \A t \in Threads : call[t].pc = "assocStore" => AssocIndex(call[t].file, call[t].at)

Promised(f) ==
  \/ promised[f] = None
  \/ \E i \in 1 .. AssocCap : assoc[i].h = f /\ <<assoc[i].p, assoc[i].key>> = promised[f]
  \/ \A i \in 1 .. AssocCap : assoc[i].h \notin {f, None}

AssocInv == ~ raced => NoSecondEntry /\ ScanStillHolds /\ \A f \in Files : Promised(f)

(* Only the last step of a create touches the associations.                  *)
LEMMA QuietKeepsAssoc ==
  ASSUME AssocInv, UNCHANGED <<assoc, promised, raced>>,
         \A t \in Threads : call'[t].pc = "assocStore" =>
           call[t].pc = "assocStore" /\ call'[t] = call[t]
  PROVE  AssocInv'
BY DEF AssocInv, NoSecondEntry, ScanStillHolds, Promised, AssocIndex

(* The scan finds the entry that the store will fill.                        *)
LEMMA ScanKeepsAssoc ==
  ASSUME TypeOK, AssocInv, NEW t \in Threads, AssocScan(t)
  PROVE  AssocInv'
<1>1. PICK i \in 0 .. AssocCap :
        /\ AssocIndex(call[t].file, i)
        /\ call' = [call EXCEPT ![t] = [pc |-> "assocStore", file |-> call[t].file,
                                        key |-> call[t].key, p |-> call[t].p, at |-> i]]
  BY DEF AssocScan
<1>2. UNCHANGED <<assoc, promised, raced>>
  BY DEF AssocScan
<1>3. call'[t].file = call[t].file /\ call'[t].at = i
  BY <1>1 DEF TypeOK
<1>4. \A u \in Threads \ {t} : call'[u] = call[u]
  BY <1>1 DEF TypeOK
<1>5. AssocIndex(call[t].file, call[t].at)'
  BY <1>1, <1>2, <1>3 DEF AssocIndex
<1>6. ~ raced => ScanStillHolds'
  <2> SUFFICES ASSUME ~ raced, NEW u \in Threads, call'[u].pc = "assocStore"
               PROVE  AssocIndex(call[u].file, call[u].at)'
    BY DEF ScanStillHolds
  <2>1. CASE u = t
    BY <1>5, <2>1
  <2>2. CASE u # t
    <3>1. call'[u] = call[u]
      BY <1>4, <2>2
    <3>2. AssocIndex(call[u].file, call[u].at)
      BY <3>1 DEF AssocInv, ScanStillHolds
    <3> QED BY <1>2, <3>1, <3>2 DEF AssocIndex
  <2> QED BY <2>1, <2>2
<1> QED BY <1>2, <1>6 DEF AssocInv, NoSecondEntry, Promised

(* The store keeps the entries of all other files, and it is alone.          *)
LEMMA StoreKeepsAssoc ==
  ASSUME TypeOK, ClaimInv, AssocInv, NEW t \in Threads, AssocStore(t)
  PROVE  AssocInv'
<1> SUFFICES ASSUME ~ raced PROVE AssocInv'
  BY DEF AssocInv, AssocStore
<1> DEFINE f == call[t].file
           at == call[t].at
           new == [h |-> f, p |-> call[t].p, key |-> call[t].key]
<1>0. NoSecondEntry /\ ScanStillHolds /\ \A g \in Files : Promised(g)
  BY DEF AssocInv
<1>1. /\ call[t] \in [pc : {"assocStore"}, file : Files, key : Keys, p : Ports,
                      at : 0 .. AssocCap]
      /\ AssocIndex(f, at)
  BY <1>0, CallShape DEF AssocStore, TypeOK, ScanStillHolds
<1>2. f \in Files /\ f # None /\ at \in 0 .. AssocCap
  BY <1>1, NoneAssumption
<1>3. /\ at = 0 => assoc' = assoc
      /\ at # 0 => assoc' = [assoc EXCEPT ![at] = new]
      /\ promised' = [promised EXCEPT ![f] = <<call[t].p, call[t].key>>]
      /\ call' = [call EXCEPT ![t] = Idle]
  BY DEF AssocStore
<1>4. ScanStillHolds'
  <2> SUFFICES ASSUME NEW u \in Threads PROVE call'[u].pc # "assocStore"
    BY DEF ScanStillHolds
  <2>1. CASE u = t
    BY <1>3, <2>1 DEF Idle, TypeOK
  <2>2. CASE u # t
    BY <1>3, <2>2 DEF ClaimInv, Creating, AssocStore, TypeOK
  <2> QED BY <2>1, <2>2
<1>5. CASE at = 0
  <2>1. \A i \in 1 .. AssocCap : assoc[i].h \notin {f, None}
    BY <1>1, <1>5 DEF AssocIndex
  <2>2. ASSUME NEW g \in Files PROVE Promised(g)'
    <3>1. CASE g = f
      BY <1>3, <1>5, <2>1, <3>1 DEF Promised
    <3>2. CASE g # f
      <4>1. promised'[g] = promised[g]
        BY <1>3, <3>2 DEF TypeOK
      <4> QED BY <1>0, <1>3, <1>5, <4>1 DEF Promised
    <3> QED BY <3>1, <3>2
  <2>3. NoSecondEntry'
    BY <1>0, <1>3, <1>5 DEF NoSecondEntry
  <2> QED BY <1>4, <2>2, <2>3 DEF AssocInv
<1>6. CASE at # 0
  <2>1. at \in 1 .. AssocCap
    BY <1>2, <1>6, AssocAssumption
  <2>2. assoc[at].h \in {f, None} /\ \A j \in 1 .. at - 1 : assoc[j].h \notin {f, None}
    BY <1>1, <1>6 DEF AssocIndex
  <2>3. assoc'[at] = new /\ \A i \in 1 .. AssocCap : i # at => assoc'[i] = assoc[i]
    BY <1>3, <1>6, <2>1 DEF TypeOK
  <2>4. new.h = f /\ new.p = call[t].p /\ new.key = call[t].key
    OBVIOUS
  <2> HIDE DEF new
  <2>5. ASSUME NEW g \in Files PROVE Promised(g)'
    <3>1. CASE g = f
      <4>1. promised'[g] = <<call[t].p, call[t].key>>
        BY <1>2, <1>3, <3>1 DEF TypeOK
      <4>2. assoc'[at].h = g /\ <<assoc'[at].p, assoc'[at].key>> = promised'[g]
        BY <2>3, <2>4, <3>1, <4>1
      <4> QED BY <2>1, <4>2 DEF Promised
    <3>2. CASE g # f
      <4>1. promised'[g] = promised[g]
        BY <1>3, <3>2 DEF TypeOK
      <4>2. g # None
        BY NoneAssumption
      <4>3. CASE \E i \in 1 .. AssocCap :
                   assoc[i].h = g /\ <<assoc[i].p, assoc[i].key>> = promised[g]
        <5>1. PICK i \in 1 .. AssocCap :
                assoc[i].h = g /\ <<assoc[i].p, assoc[i].key>> = promised[g]
          BY <4>3
        <5>2. i # at
          BY <2>2, <3>2, <4>2, <5>1
        <5> QED BY <2>3, <4>1, <5>1, <5>2 DEF Promised
      <4>4. CASE \A i \in 1 .. AssocCap : assoc[i].h \notin {g, None}
        <5>1. \A i \in 1 .. AssocCap : assoc'[i].h \notin {g, None}
          BY <1>2, <2>3, <2>4, <3>2, <4>4
        <5> QED BY <5>1 DEF Promised
      <4> QED BY <1>0, <4>1, <4>3, <4>4 DEF Promised
    <3> QED BY <3>1, <3>2
  <2>6. ASSUME NEW i \in 1 .. AssocCap, NEW j \in 1 .. i - 1, assoc'[i].h # None
        PROVE  assoc'[j].h \notin {None, assoc'[i].h}
    <3>0. j \in 1 .. AssocCap /\ j # i
      BY AssocAssumption
    <3>1. CASE i = at
      BY <1>2, <2>2, <2>3, <2>4, <3>0, <3>1
    <3>2. CASE j = at
      <4>1. assoc'[j].h = f /\ assoc'[i] = assoc[i]
        BY <2>3, <2>4, <3>0, <3>2
      <4>2. assoc[j].h \notin {None, assoc[i].h}
        BY <1>0, <2>6, <4>1 DEF NoSecondEntry
      <4> QED BY <1>2, <2>2, <3>2, <4>1, <4>2
    <3>3. CASE i # at /\ j # at
      BY <1>0, <2>3, <2>6, <3>0, <3>3 DEF NoSecondEntry
    <3> QED BY <3>1, <3>2, <3>3
  <2> QED BY <1>4, <2>5, <2>6 DEF AssocInv, NoSecondEntry
<1> QED BY <1>5, <1>6

LEMMA AssocNext == IInv /\ ClaimInv /\ AssocInv /\ [Next]_vars => AssocInv'
<1> SUFFICES ASSUME IInv, ClaimInv, AssocInv, [Next]_vars PROVE AssocInv'
  OBVIOUS
<1> USE DEF IInv
<1>a. ASSUME NEW p \in Ports, NEW e \in Entry, NEW t \in Threads,
             NEW c, c = call \/ c = [call EXCEPT ![t] = Idle],
             Post(p, e, c), UNCHANGED <<assoc, promised, raced>>
      PROVE  AssocInv'
  <2>1. \A u \in Threads : call'[u].pc = "woken" \/ call'[u] = c[u]
    BY <1>a, SignalShape DEF Post
  <2>2. \A u \in Threads : c[u] = call[u] \/ c[u].pc = "idle"
    BY <1>a DEF TypeOK, Idle
  <2> QED BY <1>a, <2>1, <2>2, QuietKeepsAssoc
<1>b. ASSUME NEW t \in Threads, UNCHANGED <<assoc, promised, raced>>,
             \A u \in Threads \ {t} : call'[u] = call[u],
             call'[t].pc # "assocStore"
      PROVE  AssocInv'
  BY <1>b, QuietKeepsAssoc
<1>c. ASSUME NEW p \in Ports, NEW t \in Threads, NEW n \in 1 .. MaxBatch,
             Take(t, p, n), UNCHANGED <<assoc, promised, raced>>
      PROVE  AssocInv'
  BY <1>b, <1>c DEF Take, TypeOK, Idle
<1>1. ASSUME NEW t \in Threads, NEW f \in Files, NEW k \in Keys, CreatePortScan(t, f, k)
      PROVE  AssocInv'
  <2>1. UNCHANGED <<assoc, promised>> /\ \A u \in Threads \ {t} : call'[u] = call[u]
    BY <1>1 DEF CreatePortScan, TypeOK
  <2>2. call'[t].pc # "assocStore"
    BY <1>1 DEF CreatePortScan, TypeOK
  <2>3. \A u \in Threads : call'[u].pc = "assocStore" =>
          call[u].pc = "assocStore" /\ call'[u] = call[u]
    BY <2>1, <2>2
  <2>4. CASE raced'
    BY <2>4 DEF AssocInv
  <2>5. CASE ~ raced'
    <3>1. raced' = raced
      BY <1>1, <2>5 DEF CreatePortScan, TypeOK
    <3> QED BY <2>1, <2>3, <3>1, QuietKeepsAssoc
  <2> QED BY <2>4, <2>5
<1>2. ASSUME NEW t \in Threads, CreatePortClaim(t)
      PROVE  AssocInv'
  <2>1. \A u \in Threads : call'[u] = call[u] \/ call'[u].pc # "assocStore"
    BY <1>2, ClaimShape
  <2> QED BY <1>2, <2>1, QuietKeepsAssoc DEF CreatePortClaim
<1>3. ASSUME NEW t \in Threads, AssocScan(t)
      PROVE  AssocInv'
  BY <1>3, ScanKeepsAssoc
<1>4. ASSUME NEW t \in Threads, AssocStore(t)
      PROVE  AssocInv'
  BY <1>4, StoreKeepsAssoc
<1>5. ASSUME NEW t \in Threads, NEW p \in Ports, NEW e \in Entry,
             PostQueuedCompletionStatus(t, p, e)
      PROVE  AssocInv'
  BY <1>5, <1>a DEF PostQueuedCompletionStatus
<1>6. ASSUME NEW t \in Threads, NEW f \in Files, NEW o \in Ovls, ConnectExLookup(t, f, o)
      PROVE  AssocInv'
  BY <1>6, <1>b DEF ConnectExLookup, TypeOK
<1>7. ASSUME NEW t \in Threads, ConnectExPost(t)
      PROVE  AssocInv'
  <2>1. call[t] \in [pc : {"connected"}, p : Ports, e : Entry]
    BY <1>7, CallShape DEF ConnectExPost, TypeOK
  <2>2. CASE port[call[t].p].used
    BY <1>7, <1>a, <2>1, <2>2 DEF ConnectExPost
  <2>3. CASE ~ port[call[t].p].used
    BY <1>7, <1>b, <2>3 DEF ConnectExPost, TypeOK, Idle
  <2> QED BY <2>2, <2>3
<1>8. ASSUME NEW t \in Threads, NEW p \in Ports, NEW n \in 1 .. MaxBatch,
             GetQueuedCompletionStatus(t, p, n)
      PROVE  AssocInv'
  <2>1. CASE Take(t, p, n)
    BY <1>8, <1>c, <2>1 DEF GetQueuedCompletionStatus
  <2>2. CASE ~ Take(t, p, n)
    BY <1>8, <1>b, <2>2 DEF GetQueuedCompletionStatus, TypeOK
  <2> QED BY <2>1, <2>2
<1>9. ASSUME NEW t \in Threads,
             WaiterResumes(t) \/ WaiterTimesOut(t) \/ SpuriousWakeup(t)
      PROVE  AssocInv'
  <2>1. call[t] \in [pc : {"blocked", "woken", "erased"}, p : Ports, n : 1 .. MaxBatch,
                     timed : BOOLEAN]
    BY <1>9, CallShape DEF WaiterResumes, WaiterTimesOut, SpuriousWakeup, TypeOK
  <2>2. UNCHANGED <<assoc, promised, raced>>
    BY <1>9 DEF WaiterResumes, WaiterTimesOut, SpuriousWakeup
  <2>3. CASE Take(t, call[t].p, call[t].n)
    BY <1>c, <2>1, <2>2, <2>3
  <2>4. CASE ~ Take(t, call[t].p, call[t].n)
    <3>1. PICK s \in {"blocked", "woken"} : call' = [call EXCEPT ![t].pc = s]
      BY <1>9, <2>4 DEF WaiterResumes, WaiterTimesOut, SpuriousWakeup
    <3>2. call'[t].pc = s /\ \A u \in Threads \ {t} : call'[u] = call[u]
      BY <2>1, <3>1 DEF TypeOK
    <3> QED BY <1>b, <2>2, <3>2
  <2> QED BY <2>3, <2>4
<1>10. CASE UNCHANGED vars
  BY <1>10, QuietKeepsAssoc DEF vars
<1> QED BY <1>1, <1>2, <1>3, <1>4, <1>5, <1>6, <1>7, <1>8, <1>9, <1>10
        DEF Next, Step, Start

(* With one entry per file, the lookup of ConnectEx finds that entry.        *)
LEMMA PromiseIsFound ==
  ASSUME TypeOK, NoSecondEntry, NEW f \in Files, promised[f] # None, Promised(f)
  PROVE  \/ Assoc(f) = promised[f]
         \/ \A i \in 1 .. AssocCap : assoc[i].h \notin {f, None}
<1> SUFFICES ASSUME NEW i \in 1 .. AssocCap, assoc[i].h = f,
                    <<assoc[i].p, assoc[i].key>> = promised[f]
             PROVE  Assoc(f) = promised[f]
  BY DEF Promised
<1>1. f # None
  BY NoneAssumption
<1>2. \A j, k \in 1 .. AssocCap : assoc[j].h = f /\ assoc[k].h = f => j = k
  <2> SUFFICES ASSUME NEW j \in 1 .. AssocCap, NEW k \in 1 .. AssocCap, j < k,
                      assoc[j].h = f, assoc[k].h = f
               PROVE  FALSE
    BY AssocAssumption
  <2>1. j \in 1 .. k - 1
    BY AssocAssumption
  <2> QED BY <1>1, <2>1 DEF NoSecondEntry
<1>3. \A k \in 1 .. i - 1 : k \in 1 .. AssocCap /\ k # i
  BY AssocAssumption
<1>4. \A k \in 1 .. i - 1 : assoc[k].h # f
  BY <1>2, <1>3
<1> DEFINE j == CHOOSE j \in 1 .. AssocCap :
                  assoc[j].h = f /\ \A k \in 1 .. j - 1 : assoc[k].h # f
<1>5. j \in 1 .. AssocCap /\ assoc[j].h = f
  BY <1>4
<1>6. Assoc(f) = <<assoc[j].p, assoc[j].key>>
  BY DEF Assoc
<1> HIDE DEF j
<1>7. j = i
  BY <1>2, <1>5
<1> QED BY <1>6, <1>7

(* The two tables keep their types, and ConnectEx finds for a file what its  *)
(* last create promised: unless two creates overlapped, one of this file is  *)
(* about to store, or all entries belong to other files.                     *)
THEOREM AssociationsAreKept == Spec => []PortTablesOK
<1>1. Init => AssocInv
  <2> SUFFICES ASSUME Init PROVE AssocInv
    OBVIOUS
  <2>1. \A t \in Threads : call[t].pc = "idle"
    BY DEF Init, Idle
  <2>2. \A i \in 1 .. AssocCap : assoc[i].h = None
    BY DEF Init, FreeAssoc
  <2>3. \A f \in Files : promised[f] = None
    BY DEF Init
  <2> QED BY <2>1, <2>2, <2>3 DEF AssocInv, NoSecondEntry, ScanStillHolds, Promised
<1>2. IInv /\ ClaimInv /\ AssocInv /\ [Next]_vars => AssocInv'
  BY AssocNext
<1>3. IInv /\ AssocInv => PortTablesOK
  BY PromiseIsFound DEF IInv, AssocInv, PortTablesOK, AssocKeptUnlessFull
<1>4. Spec => []IInv
  BY RingCorrect DEF IInv
<1> QED BY <1>1, <1>2, <1>3, <1>4, ClaimCorrect, PTL DEF Spec

-----------------------------------------------------------------------------
(* The ports implement FIFO queues.                                          *)

LEMMA ContentsEmpty ==
  ASSUME NEW b \in BOOLEAN
  PROVE  Oldest(EmptyPort(b), EmptyPort(b).cnt) = <<>>
BY DEF Oldest, EmptyPort

(* A push appends to the contents ...                                        *)
LEMMA ContentsPush ==
  ASSUME NEW r \in PortType, NEW e \in Entry, RingOK(r), r.cnt < Cap
  PROVE  Oldest(PushEntry(r, e), PushEntry(r, e).cnt) = Append(Oldest(r, r.cnt), e)
<1> DEFINE s == PushEntry(r, e)
           x == Oldest(r, r.cnt)
           y == Oldest(s, s.cnt)
<1>1. /\ s.cnt = r.cnt + 1 /\ s.head = r.head
      /\ \A i \in 0 .. r.cnt - 1 : s.q[(r.head + i) % Cap] = r.q[(r.head + i) % Cap]
      /\ s.q[(r.head + r.cnt) % Cap] = e
      /\ s \in PortType /\ RingOK(s)
  BY PushKeepsRing
<1>2. r.cnt \in Nat /\ r.head \in Nat
  BY CapAssumption DEF PortType, Slots
<1>3. r.cnt \in 0 .. r.cnt /\ s.cnt \in 0 .. s.cnt
  BY <1>1, <1>2
<1>4. x \in Seq(Entry) /\ Len(x) = r.cnt
  BY <1>3, OldestType
<1>5. y \in Seq(Entry) /\ Len(y) = r.cnt + 1
  BY <1>1, <1>3, OldestType
<1>6. \A i \in 1 .. r.cnt : y[i] = x[i]
  <2> TAKE i \in 1 .. r.cnt
  <2>1. i - 1 \in 0 .. r.cnt - 1 /\ r.head + i - 1 = r.head + (i - 1)
    BY <1>2
  <2>2. x[i] = r.q[(r.head + i - 1) % Cap]
    BY <1>2 DEF Oldest
  <2>3. y[i] = s.q[(s.head + i - 1) % Cap]
    BY <1>1, <1>2 DEF Oldest
  <2> QED BY <1>1, <2>1, <2>2, <2>3
<1>7. y[r.cnt + 1] = e
  <2>1. y[r.cnt + 1] = s.q[(s.head + (r.cnt + 1) - 1) % Cap]
    BY <1>1, <1>2 DEF Oldest
  <2>2. s.head + (r.cnt + 1) - 1 = r.head + r.cnt
    BY <1>1, <1>2
  <2> QED BY <1>1, <2>1, <2>2
<1> HIDE DEF x, y
<1>8. y = Append(x, e)
  BY <1>4, <1>5, <1>6, <1>7, <1>2
<1> QED BY <1>8 DEF x, y

(* ... and a pop cuts off the oldest entries, which are what it returns.     *)
LEMMA ContentsPop ==
  ASSUME NEW r \in PortType, RingOK(r), NEW k \in 0 .. r.cnt
  PROVE  /\ Oldest(r, k) = SubSeq(Oldest(r, r.cnt), 1, k)
         /\ Oldest(Popped(r, k), Popped(r, k).cnt)
              = SubSeq(Oldest(r, r.cnt), k + 1, r.cnt)
<1> DEFINE s == Popped(r, k)
           x == Oldest(r, r.cnt)
           y == Oldest(s, s.cnt)
           z == Oldest(r, k)
<1>1. /\ s.cnt = r.cnt - k
      /\ \A i \in 0 .. s.cnt - 1 : s.q[(s.head + i) % Cap] = r.q[(r.head + (k + i)) % Cap]
      /\ s \in PortType /\ RingOK(s)
  BY PopKeepsRing
<1>2. r.cnt \in Nat /\ r.head \in Nat /\ s.head \in Nat /\ k \in Nat /\ s.cnt \in Nat
  BY <1>1, CapAssumption DEF PortType, Slots
<1>3. r.cnt \in 0 .. r.cnt /\ s.cnt \in 0 .. s.cnt
  BY <1>2
<1>4. x \in Seq(Entry) /\ Len(x) = r.cnt
  BY <1>3, OldestType
<1>5. y \in Seq(Entry) /\ Len(y) = r.cnt - k
  BY <1>1, <1>3, OldestType
<1>6. z \in Seq(Entry) /\ Len(z) = k
  BY OldestType
<1>7. \A i \in 1 .. k : z[i] = x[i]
  BY <1>2 DEF Oldest
<1>8. \A i \in 1 .. r.cnt - k : y[i] = x[k + i]
  <2> TAKE i \in 1 .. r.cnt - k
  <2>1. i - 1 \in 0 .. s.cnt - 1 /\ s.head + i - 1 = s.head + (i - 1)
    BY <1>1, <1>2
  <2>2. y[i] = s.q[(s.head + i - 1) % Cap]
    BY <1>1, <1>2 DEF Oldest
  <2>3. x[k + i] = r.q[(r.head + (k + i) - 1) % Cap]
    BY <1>2 DEF Oldest
  <2>4. r.head + (k + i) - 1 = r.head + (k + (i - 1))
    BY <1>2
  <2> QED BY <1>1, <2>1, <2>2, <2>3, <2>4
<1> HIDE DEF x, y, z
<1>9. z = SubSeq(x, 1, k)
  BY <1>2, <1>4, <1>6, <1>7
<1>10. y = SubSeq(x, k + 1, r.cnt)
  BY <1>2, <1>4, <1>5, <1>8
<1> QED BY <1>9, <1>10 DEF x, y, z

(* The state a FIFO queue has, and a step that leaves all of it alone.       *)
Queue == [p \in Ports |-> Contents(p)]
OpenPorts == {p \in Ports : port[p].used}
Stutter == UNCHANGED <<Queue, OpenPorts, got, raced>>

LEMMA PostRefines ==
  ASSUME IInv, NEW p \in Ports, port[p].used, NEW e \in Entry, NEW c, Post(p, e, c),
         UNCHANGED <<got, raced>>
  PROVE  FifoQueue!Post(p, e) \/ Stutter
<1>1. CASE port[p].cnt >= Cap
  BY <1>1 DEF Post, Stutter, Queue, OpenPorts, Contents
<1>2. CASE ~ (port[p].cnt >= Cap)
  <2>1. port' = [port EXCEPT ![p] = PushEntry(port[p], e)]
    BY <1>2 DEF Post
  <2>2. port[p] \in PortType /\ RingOK(port[p]) /\ port[p].cnt < Cap
    BY <1>2, CapAssumption DEF IInv, TypeOK, RingInv, PortType
  <2>3. Contents(p)' = Append(Contents(p), e)
    BY <2>1, <2>2, ContentsPush DEF Contents, IInv, TypeOK
  <2>4. \A r \in Ports \ {p} : port'[r] = port[r]
    BY <2>1 DEF IInv, TypeOK
  <2>5. port'[p].used = port[p].used
    BY <2>1, <2>2, PushKeepsRing DEF IInv, TypeOK
  <2>6. Queue' = [Queue EXCEPT ![p] = Append(Queue[p], e)]
    BY <2>3, <2>4 DEF Queue, Contents
  <2>7. OpenPorts' = OpenPorts /\ p \in OpenPorts
    BY <2>4, <2>5 DEF OpenPorts
  <2>8. Len(Queue[p]) < Cap
    <3>1. port[p].cnt \in 0 .. port[p].cnt
      BY <2>2 DEF PortType
    <3> QED BY <2>2, <3>1, OldestType DEF Queue, Contents
  <2> QED BY <2>6, <2>7, <2>8 DEF FifoQueue!Post, Queue, OpenPorts
<1> QED BY <1>1, <1>2

LEMMA TakeRefines ==
  ASSUME IInv, NEW p \in Ports, port[p].used, NEW t \in Threads,
         NEW n \in 1 .. MaxBatch, Take(t, p, n), UNCHANGED raced
  PROVE  FifoQueue!Receive(p, n)
<1> DEFINE k == Smaller(n, port[p].cnt)
<1>1. port[p] \in PortType /\ RingOK(port[p]) /\ port[p].cnt \in Nat
  BY CapAssumption DEF IInv, TypeOK, RingInv, PortType
<1>2. k \in 0 .. port[p].cnt
  BY <1>1, BatchAssumption DEF Smaller
<1>3. port[p].cnt \in 0 .. port[p].cnt
  BY <1>1
<1>4. Queue[p] \in Seq(Entry) /\ Len(Queue[p]) = port[p].cnt
  BY <1>1, <1>3, OldestType DEF Queue, Contents
<1>5. k = IF n < Len(Queue[p]) THEN n ELSE Len(Queue[p])
  BY <1>4 DEF Smaller
<1>6. /\ port' = [port EXCEPT ![p] = Popped(port[p], k)]
      /\ got' = Oldest(port[p], k)
  BY DEF Take
<1> HIDE DEF k
<1>7. /\ Oldest(port[p], k) = SubSeq(Queue[p], 1, k)
      /\ Oldest(Popped(port[p], k), Popped(port[p], k).cnt)
           = SubSeq(Queue[p], k + 1, Len(Queue[p]))
  BY <1>1, <1>2, <1>4, ContentsPop DEF Queue, Contents
<1>8. \A r \in Ports \ {p} : port'[r] = port[r]
  BY <1>6 DEF IInv, TypeOK
<1>9. port'[p] = Popped(port[p], k)
  BY <1>6 DEF IInv, TypeOK
<1>10. Queue' = [Queue EXCEPT ![p] = SubSeq(Queue[p], k + 1, Len(Queue[p]))]
  BY <1>7, <1>8, <1>9 DEF Queue, Contents
<1>11. OpenPorts' = OpenPorts /\ p \in OpenPorts
  BY <1>8, <1>9 DEF OpenPorts, Popped
<1> QED BY <1>5, <1>6, <1>7, <1>10, <1>11 DEF FifoQueue!Receive, Queue, OpenPorts

(* A thread waits only on a port that was opened, and ports stay open.       *)
OpenInv ==
  \A t \in Threads : call[t].pc \in {"blocked", "woken", "erased"} => port[call[t].p].used

LEMMA OpenNext == IInv /\ OpenInv /\ [Next]_vars => OpenInv'
<1> SUFFICES ASSUME IInv, OpenInv, [Next]_vars PROVE OpenInv'
  OBVIOUS
<1> USE DEF IInv
(* It is enough that ports stay open and that a thread starts to wait on an  *)
(* open one.                                                                 *)
<1>a. ASSUME \A p \in Ports : port[p].used => port'[p].used,
             \A t \in Threads : call'[t].pc \in {"blocked", "woken", "erased"} =>
               \/ call[t].pc \in {"blocked", "woken", "erased"} /\ call'[t].p = call[t].p
               \/ call'[t].p \in Ports /\ port[call'[t].p].used
      PROVE  OpenInv'
  <2>1. \A t \in Threads : call[t].pc \in {"blocked", "woken", "erased"} => call[t].p \in Ports
    BY CallShape DEF TypeOK
  <2> QED BY <1>a, <2>1 DEF OpenInv
<1>b. \A p \in Ports : port[p] \in PortType /\ RingOK(port[p])
  BY DEF TypeOK, RingInv
<1>c. \A t \in Threads : call[t].pc \in {"blocked", "woken", "erased"} =>
        call[t] \in [pc : {"blocked", "woken", "erased"}, p : Ports, n : 1 .. MaxBatch,
                     timed : BOOLEAN]
  BY CallShape DEF TypeOK
<1>d. ASSUME NEW p \in Ports, NEW e \in Entry, NEW t \in Threads,
             call[t].pc \notin {"blocked", "erased"},
             NEW c, c = call \/ c = [call EXCEPT ![t] = Idle], Post(p, e, c)
      PROVE  OpenInv'
  <2>1. \A r \in Ports : port[r].used => port'[r].used
    BY <1>b, <1>d DEF Post, PushEntry, TypeOK
  <2>2. CASE call' = c
    <3>1. \A u \in Threads : call'[u] = call[u] \/ call'[u].pc = "idle"
      BY <1>d, <2>2 DEF TypeOK, Idle
    <3> QED BY <1>a, <2>1, <3>1
  <2>3. CASE call' # c
    <3>1. PICK u \in Blocked(p) \union Lost(p) : call' = [c EXCEPT ![u].pc = "woken"]
      BY <1>d, <2>3 DEF Post, Signalled
    <3>2. u \in Threads /\ c[u] = call[u] /\ call[u].pc \in {"blocked", "erased"}
      BY <1>d, <3>1 DEF Blocked, Lost, TypeOK
    <3>3. call'[u].p = call[u].p
      BY <1>c, <1>d, <3>1, <3>2 DEF TypeOK
    <3>4. \A v \in Threads \ {u} : call'[v] = c[v]
      BY <1>d, <3>1 DEF TypeOK
    <3>5. \A v \in Threads \ {u} : call'[v] = call[v] \/ call'[v].pc = "idle"
      BY <1>d, <3>4 DEF TypeOK, Idle
    <3> QED BY <1>a, <2>1, <3>2, <3>3, <3>5
  <2> QED BY <2>2, <2>3
<1>e. ASSUME NEW p \in Ports, NEW t \in Threads, NEW n, Take(t, p, n)
      PROVE  OpenInv'
  <2>1. \A r \in Ports : port[r].used => port'[r].used
    BY <1>e DEF Take, Popped, TypeOK
  <2>2. \A u \in Threads : call'[u] = call[u] \/ call'[u].pc = "idle"
    BY <1>e DEF Take, TypeOK, Idle
  <2> QED BY <1>a, <2>1, <2>2
<1>1. ASSUME NEW t \in Threads, NEW f \in Files, NEW k \in Keys, CreatePortScan(t, f, k)
      PROVE  OpenInv'
  BY <1>1, <1>a DEF CreatePortScan, TypeOK
<1>2. ASSUME NEW t \in Threads, CreatePortClaim(t)
      PROVE  OpenInv'
  <2>1. \A p \in Ports : port[p].used => port'[p].used
    BY <1>2 DEF CreatePortClaim, EmptyPort, TypeOK
  <2>2. \A u \in Threads : call'[u].pc \in {"blocked", "woken", "erased"} =>
          call[u].pc \in {"blocked", "woken", "erased"} /\ call'[u].p = call[u].p
    BY <1>2, ClaimShape
  <2> QED BY <1>a, <2>1, <2>2
<1>3. ASSUME NEW t \in Threads, AssocScan(t) \/ AssocStore(t)
      PROVE  OpenInv'
  BY <1>3, <1>a DEF AssocScan, AssocStore, TypeOK, Idle
<1>4. ASSUME NEW t \in Threads, NEW p \in Ports, NEW e \in Entry,
             PostQueuedCompletionStatus(t, p, e)
      PROVE  OpenInv'
  BY <1>4, <1>d DEF PostQueuedCompletionStatus, Idle
<1>5. ASSUME NEW t \in Threads, NEW f \in Files, NEW o \in Ovls, ConnectExLookup(t, f, o)
      PROVE  OpenInv'
  BY <1>5, <1>a DEF ConnectExLookup, TypeOK
<1>6. ASSUME NEW t \in Threads, ConnectExPost(t)
      PROVE  OpenInv'
  <2>1. /\ call[t] \in [pc : {"connected"}, p : Ports, e : Entry]
        /\ call[t].pc \notin {"blocked", "erased"}
    BY <1>6, CallShape DEF ConnectExPost, TypeOK
  <2>2. CASE port[call[t].p].used
    BY <1>6, <1>d, <2>1, <2>2 DEF ConnectExPost
  <2>3. CASE ~ port[call[t].p].used
    BY <1>6, <1>a, <2>3 DEF ConnectExPost, TypeOK, Idle
  <2> QED BY <2>2, <2>3
<1>7. ASSUME NEW t \in Threads, NEW p \in Ports, NEW n \in 1 .. MaxBatch,
             GetQueuedCompletionStatus(t, p, n)
      PROVE  OpenInv'
  <2>1. CASE Take(t, p, n)
    BY <1>e, <2>1
  <2>2. CASE ~ Take(t, p, n)
    BY <1>7, <1>a, <2>2 DEF GetQueuedCompletionStatus, TypeOK
  <2> QED BY <2>1, <2>2
<1>8. ASSUME NEW t \in Threads,
             WaiterResumes(t) \/ WaiterTimesOut(t) \/ SpuriousWakeup(t)
      PROVE  OpenInv'
  <2>1. call[t] \in [pc : {"blocked", "woken", "erased"}, p : Ports, n : 1 .. MaxBatch,
                     timed : BOOLEAN]
    BY <1>8, <1>c DEF WaiterResumes, WaiterTimesOut, SpuriousWakeup
  <2>2. CASE Take(t, call[t].p, call[t].n)
    BY <1>e, <2>1, <2>2
  <2>3. CASE ~ Take(t, call[t].p, call[t].n)
    <3>1. PICK s \in {"blocked", "woken"} : call' = [call EXCEPT ![t].pc = s]
      BY <1>8, <2>3 DEF WaiterResumes, WaiterTimesOut, SpuriousWakeup
    <3>2. call'[t].p = call[t].p /\ \A u \in Threads \ {t} : call'[u] = call[u]
      BY <2>1, <3>1 DEF TypeOK
    <3>3. UNCHANGED port
      BY <1>8, <2>3 DEF WaiterResumes, WaiterTimesOut, SpuriousWakeup
    <3> QED BY <1>a, <2>1, <3>2, <3>3
  <2> QED BY <2>2, <2>3
<1>9. CASE UNCHANGED vars
  BY <1>9 DEF vars, OpenInv
<1> QED BY <1>1, <1>2, <1>3, <1>4, <1>5, <1>6, <1>7, <1>8, <1>9 DEF Next, Step, Start

(* Every step of the ports is a step of the queues, or leaves them alone.    *)
LEMMA StepRefines ==
  IInv /\ ClaimInv /\ OpenInv /\ [Next]_vars => FifoQueue!Next \/ Stutter
<1> SUFFICES ASSUME IInv, ClaimInv, OpenInv, [Next]_vars
             PROVE  FifoQueue!Next \/ Stutter
  OBVIOUS
<1>a. ASSUME UNCHANGED <<port, got, raced>> PROVE Stutter
  BY <1>a DEF Stutter, Queue, OpenPorts, Contents, Oldest
<1>1. ASSUME NEW t \in Threads, NEW f \in Files, NEW k \in Keys, CreatePortScan(t, f, k)
      PROVE  FifoQueue!Next \/ Stutter
  <2>1. CASE raced' = raced
    BY <1>1, <1>a, <2>1 DEF CreatePortScan
  <2>2. CASE raced' # raced
    <3>1. raced' = TRUE
      BY <1>1, <2>2 DEF CreatePortScan, IInv, TypeOK
    <3>2. UNCHANGED <<Queue, OpenPorts, got>>
      BY <1>1 DEF CreatePortScan, Queue, OpenPorts, Contents, Oldest
    <3>3. FifoQueue!Race
      BY <3>1, <3>2 DEF FifoQueue!Race, Queue, OpenPorts
    <3> QED BY <3>3 DEF FifoQueue!Next
  <2> QED BY <2>1, <2>2
<1>2. ASSUME NEW t \in Threads, CreatePortClaim(t)
      PROVE  FifoQueue!Next \/ Stutter
  <2>1. PICK p \in Ports : p = call[t].p
    BY <1>2, CallShape DEF CreatePortClaim, IInv, TypeOK
  <2>2. p \notin OpenPorts \/ raced
    BY <1>2, <2>1 DEF ClaimInv, CreatePortClaim, OpenPorts
  <2>3. port' = [port EXCEPT ![p] = EmptyPort(TRUE)]
    BY <1>2, <2>1 DEF CreatePortClaim
  <2>4. port'[p] = EmptyPort(TRUE) /\ \A r \in Ports \ {p} : port'[r] = port[r]
    BY <2>1, <2>3 DEF IInv, TypeOK
  <2>5. Contents(p)' = <<>>
    BY <2>4, ContentsEmpty DEF Contents
  <2>6. Queue' = [Queue EXCEPT ![p] = <<>>]
    BY <2>4, <2>5 DEF Queue, Contents
  <2>7. OpenPorts' = OpenPorts \union {p}
    BY <2>1, <2>4 DEF OpenPorts, EmptyPort
  <2>8. FifoQueue!Open(p)
    BY <1>2, <2>2, <2>6, <2>7 DEF FifoQueue!Open, Queue, OpenPorts, CreatePortClaim
  <2> QED BY <2>1, <2>8 DEF FifoQueue!Next
<1>3. ASSUME NEW t \in Threads, AssocScan(t) \/ AssocStore(t)
      PROVE  FifoQueue!Next \/ Stutter
  BY <1>3, <1>a DEF AssocScan, AssocStore
<1>4. ASSUME NEW t \in Threads, NEW p \in Ports, NEW e \in Entry,
             PostQueuedCompletionStatus(t, p, e)
      PROVE  FifoQueue!Next \/ Stutter
  BY <1>4, PostRefines DEF PostQueuedCompletionStatus, FifoQueue!Next
<1>5. ASSUME NEW t \in Threads, NEW f \in Files, NEW o \in Ovls, ConnectExLookup(t, f, o)
      PROVE  FifoQueue!Next \/ Stutter
  BY <1>5, <1>a DEF ConnectExLookup
<1>6. ASSUME NEW t \in Threads, ConnectExPost(t)
      PROVE  FifoQueue!Next \/ Stutter
  <2>1. call[t] \in [pc : {"connected"}, p : Ports, e : Entry]
    BY <1>6, CallShape DEF ConnectExPost, IInv, TypeOK
  <2>2. CASE port[call[t].p].used
    <3>1. FifoQueue!Post(call[t].p, call[t].e) \/ Stutter
      BY <1>6, <2>1, <2>2, PostRefines DEF ConnectExPost
    <3> QED BY <2>1, <3>1 DEF FifoQueue!Next
  <2>3. CASE ~ port[call[t].p].used
    BY <1>6, <1>a, <2>3 DEF ConnectExPost
  <2> QED BY <2>2, <2>3
<1>7. ASSUME NEW t \in Threads, NEW p \in Ports, NEW n \in 1 .. MaxBatch,
             GetQueuedCompletionStatus(t, p, n)
      PROVE  FifoQueue!Next \/ Stutter
  <2>1. CASE Take(t, p, n)
    BY <1>7, <2>1, TakeRefines DEF GetQueuedCompletionStatus, FifoQueue!Next
  <2>2. CASE ~ Take(t, p, n)
    BY <1>7, <1>a, <2>2 DEF GetQueuedCompletionStatus
  <2> QED BY <2>1, <2>2
<1>8. ASSUME NEW t \in Threads,
             WaiterResumes(t) \/ WaiterTimesOut(t) \/ SpuriousWakeup(t)
      PROVE  FifoQueue!Next \/ Stutter
  <2>1. /\ call[t] \in [pc : {"blocked", "woken", "erased"}, p : Ports, n : 1 .. MaxBatch,
                        timed : BOOLEAN]
        /\ port[call[t].p].used
    BY <1>8, CallShape
    DEF WaiterResumes, WaiterTimesOut, SpuriousWakeup, IInv, TypeOK, OpenInv
  <2>2. CASE Take(t, call[t].p, call[t].n)
    <3>1. raced' = raced
      BY <1>8 DEF WaiterResumes, WaiterTimesOut, SpuriousWakeup
    <3>2. FifoQueue!Receive(call[t].p, call[t].n)
      BY <2>1, <2>2, <3>1, TakeRefines
    <3> QED BY <2>1, <3>2 DEF FifoQueue!Next
  <2>3. CASE ~ Take(t, call[t].p, call[t].n)
    BY <1>8, <1>a, <2>3 DEF WaiterResumes, WaiterTimesOut, SpuriousWakeup
  <2> QED BY <2>2, <2>3
<1>9. CASE UNCHANGED vars
  BY <1>9, <1>a DEF vars
<1> QED BY <1>1, <1>2, <1>3, <1>4, <1>5, <1>6, <1>7, <1>8, <1>9 DEF Next, Step, Start

(* The ring of every port, for every capacity and number of threads, is a    *)
(* bounded FIFO queue: no entry is lost, duplicated or reordered, and a      *)
(* receive comes back empty only from an empty port.                         *)
THEOREM PortsAreFifoQueues == Spec => IsFifoQueue
<1>1. Init => OpenInv
  <2> SUFFICES ASSUME Init PROVE OpenInv
    OBVIOUS
  <2>1. \A t \in Threads : call[t].pc = "idle"
    BY DEF Init, Idle
  <2> QED BY <2>1 DEF OpenInv
<1>2. Init => FifoQueue!Init
  <2> SUFFICES ASSUME Init PROVE FifoQueue!Init
    OBVIOUS
  <2>1. \A p \in Ports : Contents(p) = <<>>
    BY ContentsEmpty DEF Init, Contents
  <2> QED BY <2>1 DEF Init, FifoQueue!Init, EmptyPort
<1>3. IInv /\ OpenInv /\ [Next]_vars => OpenInv'
  BY OpenNext
<1>4. IInv /\ ClaimInv /\ OpenInv /\ [Next]_vars =>
        [FifoQueue!Next]_<<[p \in Ports |-> Contents(p)], {p \in Ports : port[p].used},
                           got, raced>>
  BY StepRefines DEF Stutter, Queue, OpenPorts
<1>5. Spec => []IInv
  BY RingCorrect DEF IInv
<1> QED BY <1>1, <1>2, <1>3, <1>4, <1>5, ClaimCorrect, PTL
        DEF Spec, IsFifoQueue, FifoQueue!Spec

-----------------------------------------------------------------------------
(* One signal per post is enough.                                            *)

(* W of the A waiters are awake, c entries wait: the five things a step can  *)
(* do to these numbers keep enough waiters awake.                            *)
LEMMA EnoughAwake ==
  ASSUME NEW A, IsFiniteSet(A), NEW W \in SUBSET A, NEW c \in Nat,
         NEW A2, IsFiniteSet(A2), NEW W2 \in SUBSET A2, NEW c2 \in Nat,
         Cardinality(W) >= Smaller(c, Cardinality(A)),
         \/ c2 = 0
         \/ W2 = A2
         \/ W \subseteq W2 /\ A2 \subseteq A /\ c2 <= c
         \/ \E t \in W : W2 = W \ {t} /\ A2 = A \ {t} /\ c2 < c
         \/ \E u : u \notin W /\ W2 = W \union {u} /\ A2 = A \union {u} /\ c2 <= c + 1
  PROVE  Cardinality(W2) >= Smaller(c2, Cardinality(A2))
<1>1. /\ IsFiniteSet(W) /\ IsFiniteSet(W2)
      /\ Cardinality(A) \in Nat /\ Cardinality(W) \in Nat
      /\ Cardinality(A2) \in Nat /\ Cardinality(W2) \in Nat
  BY FS_Subset, FS_CardinalityType
<1>2. CASE c2 = 0
  BY <1>1, <1>2 DEF Smaller
<1>3. CASE W2 = A2
  BY <1>1, <1>3 DEF Smaller
<1>4. CASE W \subseteq W2 /\ A2 \subseteq A /\ c2 <= c
  <2>1. Cardinality(W) <= Cardinality(W2) /\ Cardinality(A2) <= Cardinality(A)
    BY <1>1, <1>4, FS_Subset
  <2> QED BY <1>1, <1>4, <2>1 DEF Smaller
<1>5. CASE \E t \in W : W2 = W \ {t} /\ A2 = A \ {t} /\ c2 < c
  <2>1. PICK t \in W : W2 = W \ {t} /\ A2 = A \ {t} /\ c2 < c
    BY <1>5
  <2>2. Cardinality(W2) = Cardinality(W) - 1
    BY <1>1, <2>1, FS_RemoveElement
  <2>3. Cardinality(A2) = Cardinality(A) - 1
    BY <1>1, <2>1, FS_RemoveElement
  <2> QED BY <1>1, <2>1, <2>2, <2>3 DEF Smaller
<1>6. CASE \E u : u \notin W /\ W2 = W \union {u} /\ A2 = A \union {u} /\ c2 <= c + 1
  <2>1. PICK u : u \notin W /\ W2 = W \union {u} /\ A2 = A \union {u} /\ c2 <= c + 1
    BY <1>6
  <2>2. Cardinality(W2) = Cardinality(W) + 1
    BY <1>1, <2>1, FS_AddElement
  <2>3. Cardinality(A2) = Cardinality(A) \/ Cardinality(A2) = Cardinality(A) + 1
    BY <1>1, <2>1, FS_AddElement
  <2> QED BY <1>1, <2>1, <2>2, <2>3 DEF Smaller
<1> QED BY <1>2, <1>3, <1>4, <1>5, <1>6

(* What a step may do to the waiters and entries of a port.                  *)
Balanced(p) ==
  \/ port'[p].cnt = 0
  \/ Woken(p)' = Waiters(p)'
  \/ /\ Woken(p) \subseteq Woken(p)' /\ Waiters(p)' \subseteq Waiters(p)
     /\ port'[p].cnt <= port[p].cnt
  \/ \E t \in Woken(p) : /\ Woken(p)' = Woken(p) \ {t}
                         /\ Waiters(p)' = Waiters(p) \ {t}
                         /\ port'[p].cnt < port[p].cnt
  \/ \E u : /\ u \notin Woken(p)
            /\ Woken(p)' = Woken(p) \union {u}
            /\ Waiters(p)' = Waiters(p) \union {u}
            /\ port'[p].cnt <= port[p].cnt + 1

(* The counting half of NoLostWakeup.                                        *)
Enough ==
  \A p \in Ports : Cardinality(Woken(p)) >= Smaller(port[p].cnt, Cardinality(Waiters(p)))

LEMMA BalancedKeeps ==
  ASSUME TypeOK, TypeOK', Enough, \A p \in Ports : Balanced(p)
  PROVE  Enough'
<1> SUFFICES ASSUME NEW p \in Ports
             PROVE  Cardinality(Woken(p)') >= Smaller(port'[p].cnt, Cardinality(Waiters(p)'))
  BY DEF Enough
<1>1. /\ Woken(p) \subseteq Waiters(p) /\ Woken(p)' \subseteq Waiters(p)'
      /\ Blocked(p) = Waiters(p) \ Woken(p)
      /\ Waiters(p) \subseteq Threads /\ Waiters(p)' \subseteq Threads
  BY DEF Woken, Waiters, Blocked
<1>2. IsFiniteSet(Waiters(p)) /\ IsFiniteSet(Waiters(p)')
  BY <1>1, ThreadsAssumption, FS_Subset
<1>3. port[p].cnt \in Nat /\ port'[p].cnt \in Nat
  BY CapAssumption DEF TypeOK, PortType
<1>4. Cardinality(Woken(p)) >= Smaller(port[p].cnt, Cardinality(Waiters(p)))
  BY DEF Enough
<1>5. Balanced(p)
  OBVIOUS
<1> QED BY <1>1, <1>2, <1>3, <1>4, <1>5, EnoughAwake DEF Balanced

LEMMA WakeNext == IInv /\ IInv' /\ Enough /\ [Next]_vars => Enough'
<1> SUFFICES ASSUME IInv, IInv', Enough, [Next]_vars PROVE \A p \in Ports : Balanced(p)
  BY BalancedKeeps DEF IInv
<1>0. /\ \A p \in Ports : port[p].cnt \in Nat
      /\ port \in [Ports -> PortType] /\ call \in [Threads -> CallType]
  BY CapAssumption DEF IInv, TypeOK, PortType
(* Nobody starts or stops waiting, no port gains an entry.                   *)
<1>a. ASSUME NEW t \in Threads,
             \A p \in Ports : port'[p].cnt <= port[p].cnt,
             \A u \in Threads \ {t} : call'[u] = call[u],
             call[t].pc \notin {"blocked", "woken", "erased"},
             call'[t].pc \notin {"blocked", "woken", "erased"}
      PROVE  \A p \in Ports : Balanced(p)
  <2> TAKE p \in Ports
  <2>1. Woken(p)' = Woken(p) /\ Waiters(p)' = Waiters(p)
    BY <1>a DEF Woken, Waiters, Blocked
  <2> QED BY <1>a, <2>1 DEF Balanced
(* Only the waiting thread's own call and its port change: what it finds.    *)
<1>b. ASSUME NEW t \in Threads, NEW q \in Ports, NEW n \in 1 .. MaxBatch, Take(t, q, n),
             call[t].pc \in {"blocked", "woken", "erased"} => call[t].p = q
      PROVE  \A p \in Ports : Balanced(p)
  <2> DEFINE k == Smaller(n, port[q].cnt)
  <2>1. k \in 0 .. port[q].cnt /\ (port[q].cnt > 0 => k > 0)
    BY <1>0, BatchAssumption DEF Smaller
  <2>2. port' = [port EXCEPT ![q] = Popped(port[q], k)]
    BY <1>b DEF Take
  <2> HIDE DEF k
  <2>3. port'[q].cnt = port[q].cnt - k
    BY <1>0, <2>2 DEF Popped
  <2>4. \A p \in Ports : port'[p].cnt <= port[p].cnt
    <3> TAKE p \in Ports
    <3>1. p # q => port'[p] = port[p]
      BY <1>0, <2>2
    <3> QED BY <1>0, <2>1, <2>3, <3>1
  <2>5. call'[t].pc = "idle" /\ \A u \in Threads \ {t} : call'[u] = call[u]
    BY <1>0, <1>b DEF Take, Idle
  <2> TAKE p \in Ports
  <2>6. Woken(p)' = Woken(p) \ {t} /\ Waiters(p)' = Waiters(p) \ {t}
    BY <2>5 DEF Woken, Waiters, Blocked
  <2>7. CASE t \in Woken(p)
    <3>1. p = q
      BY <1>b, <2>7 DEF Woken
    <3>2. port'[p].cnt = 0 \/ port'[p].cnt < port[p].cnt
      BY <1>0, <2>1, <2>3, <3>1
    <3> QED BY <2>6, <2>7, <3>2 DEF Balanced
  <2>8. CASE t \notin Woken(p)
    BY <2>4, <2>6, <2>8 DEF Balanced
  <2> QED BY <2>7, <2>8
(* A post adds an entry and wakes one of the blocked threads, if there is one.*)
<1>c. ASSUME NEW t \in Threads, NEW q \in Ports, NEW e \in Entry,
             call[t].pc \in {"idle", "connected"},
             NEW c, c = call \/ c = [call EXCEPT ![t] = Idle], Post(q, e, c)
      PROVE  \A p \in Ports : Balanced(p)
  <2>1. CASE port[q].cnt >= Cap
    <3>1. call' = c /\ port' = port
      BY <1>c, <2>1 DEF Post
    <3>2. call'[t].pc \in {"idle", "connected"} /\ \A u \in Threads \ {t} : call'[u] = call[u]
      BY <1>0, <1>c, <3>1 DEF Idle
    <3> QED BY <1>0, <1>a, <1>c, <3>1, <3>2
  <2>2. CASE ~ (port[q].cnt >= Cap)
    <3>1. port' = [port EXCEPT ![q] = PushEntry(port[q], e)] /\ call' \in Signalled(q, c)
      BY <1>c, <2>2 DEF Post
    <3>2. port'[q].cnt = port[q].cnt + 1 /\ \A p \in Ports \ {q} : port'[p] = port[p]
      BY <1>0, <3>1 DEF PushEntry
    <3>3. c[t].pc \in {"idle", "connected"} /\ \A u \in Threads \ {t} : c[u] = call[u]
      BY <1>0, <1>c DEF Idle
    <3> TAKE p \in Ports
    <3>4. CASE call' = c /\ Blocked(q) = {}
      <4>1. Woken(p)' = Woken(p) /\ Waiters(p)' = Waiters(p)
        BY <1>c, <3>3, <3>4 DEF Woken, Waiters, Blocked
      <4>2. p = q => Woken(p) = Waiters(p)
        BY <3>4 DEF Waiters
      <4> QED BY <1>0, <3>2, <4>1, <4>2 DEF Balanced
    <3>5. CASE ~ (call' = c /\ Blocked(q) = {})
      <4>1. PICK u \in Blocked(q) \union Lost(q) : call' = [c EXCEPT ![u].pc = "woken"]
        BY <3>1, <3>5 DEF Signalled
      <4>2. /\ u \in Threads /\ u # t /\ c[u] = call[u]
            /\ call[u].pc \in {"blocked", "erased"} /\ call[u].p = q
        BY <1>c, <3>3, <4>1 DEF Blocked, Lost
      <4>3. c[u] \in [pc : {"blocked", "woken", "erased"}, p : Ports, n : 1 .. MaxBatch,
                      timed : BOOLEAN]
        BY <1>0, <4>2, CallShape
      <4>4. call'[u].pc = "woken" /\ call'[u].p = q
        BY <1>0, <1>c, <4>1, <4>2, <4>3
      <4>5. \A v \in Threads \ {u} : call'[v] = c[v]
        BY <1>0, <1>c, <4>1
      <4>6. CASE p = q
        <5>1. Woken(p)' = Woken(p) \union {u} /\ u \notin Woken(p)
          BY <1>c, <3>3, <4>2, <4>4, <4>5, <4>6 DEF Woken
        <5>2. Waiters(p)' = Waiters(p) \union {u}
          BY <1>c, <3>3, <4>2, <4>4, <4>5, <4>6 DEF Woken, Waiters, Blocked
        <5> QED BY <1>0, <3>2, <4>6, <5>1, <5>2 DEF Balanced
      <4>7. CASE p # q
        <5>1. Woken(p)' = Woken(p) /\ Waiters(p)' = Waiters(p)
          BY <1>c, <3>3, <4>2, <4>4, <4>5, <4>7 DEF Woken, Waiters, Blocked
        <5> QED BY <1>0, <3>2, <4>7, <5>1 DEF Balanced
      <4> QED BY <4>6, <4>7
    <3> QED BY <3>4, <3>5
  <2> QED BY <2>1, <2>2
(* A thread goes to sleep, or back to sleep, on an empty port, or wakes.     *)
<1>d. ASSUME NEW t \in Threads, port' = port, \A u \in Threads \ {t} : call'[u] = call[u],
             call'[t].pc = "blocked", call[t].pc # "woken" \/ call[t].p = call'[t].p,
             call[t].pc # "blocked", port[call'[t].p].cnt = 0
      PROVE  \A p \in Ports : Balanced(p)
  <2> TAKE p \in Ports
  <2>1. CASE p = call'[t].p
    BY <1>d, <2>1 DEF Balanced
  <2>2. CASE p # call'[t].p
    <3>1. Woken(p)' = Woken(p) /\ Waiters(p)' = Waiters(p)
      BY <1>d, <2>2 DEF Woken, Waiters, Blocked
    <3> QED BY <1>0, <1>d, <3>1 DEF Balanced
  <2> QED BY <2>1, <2>2
<1>1. ASSUME NEW t \in Threads, NEW f \in Files, NEW k \in Keys, CreatePortScan(t, f, k)
      PROVE  \A p \in Ports : Balanced(p)
  BY <1>0, <1>1, <1>a DEF CreatePortScan, Idle
<1>2. ASSUME NEW t \in Threads, CreatePortClaim(t)
      PROVE  \A p \in Ports : Balanced(p)
  <2> TAKE p \in Ports
  <2>1. CASE p = call[t].p
    BY <1>0, <1>2, <2>1 DEF CreatePortClaim, EmptyPort, Balanced
  <2>2. CASE p # call[t].p
    <3>1. port'[p] = port[p]
      BY <1>0, <1>2, <2>2 DEF CreatePortClaim
    <3>2. call[t].pc = "claim"
      BY <1>2 DEF CreatePortClaim
    <3>3. Woken(p)' = Woken(p) /\ Waiters(p)' = Waiters(p)
      BY <1>2, <2>2, <3>2, ClaimShape DEF IInv, Woken, Waiters, Blocked
    <3> QED BY <1>0, <3>1, <3>3 DEF Balanced
  <2> QED BY <2>1, <2>2
<1>3. ASSUME NEW t \in Threads, AssocScan(t) \/ AssocStore(t)
      PROVE  \A p \in Ports : Balanced(p)
  BY <1>0, <1>3, <1>a DEF AssocScan, AssocStore, Idle
<1>4. ASSUME NEW t \in Threads, NEW p \in Ports, NEW e \in Entry,
             PostQueuedCompletionStatus(t, p, e)
      PROVE  \A r \in Ports : Balanced(r)
  <2>1. call[t].pc = "idle"
    BY <1>4 DEF PostQueuedCompletionStatus, Idle
  <2> QED BY <1>4, <1>c, <2>1 DEF PostQueuedCompletionStatus
<1>5. ASSUME NEW t \in Threads, NEW f \in Files, NEW o \in Ovls, ConnectExLookup(t, f, o)
      PROVE  \A p \in Ports : Balanced(p)
  BY <1>0, <1>5, <1>a DEF ConnectExLookup, Idle
<1>6. ASSUME NEW t \in Threads, ConnectExPost(t)
      PROVE  \A p \in Ports : Balanced(p)
  <2>1. call[t] \in [pc : {"connected"}, p : Ports, e : Entry] /\ call[t].pc = "connected"
    BY <1>0, <1>6, CallShape DEF ConnectExPost
  <2>2. CASE port[call[t].p].used
    BY <1>6, <1>c, <2>1, <2>2 DEF ConnectExPost
  <2>3. CASE ~ port[call[t].p].used
    BY <1>0, <1>6, <1>a, <2>1, <2>3 DEF ConnectExPost, Idle
  <2> QED BY <2>2, <2>3
<1>7. ASSUME NEW t \in Threads, NEW p \in Ports, NEW n \in 1 .. MaxBatch,
             GetQueuedCompletionStatus(t, p, n)
      PROVE  \A r \in Ports : Balanced(r)
  <2>1. call[t].pc = "idle"
    BY <1>7 DEF GetQueuedCompletionStatus, Idle
  <2>2. CASE Take(t, p, n)
    BY <1>b, <2>1, <2>2
  <2>3. CASE ~ Take(t, p, n)
    <3>1. /\ port[p].cnt = 0 /\ port' = port
          /\ \E timed \in BOOLEAN :
               call' = [call EXCEPT ![t] = [pc |-> "blocked", p |-> p, n |-> n, timed |-> timed]]
      BY <1>7, <2>3 DEF GetQueuedCompletionStatus
    <3>2. call'[t].pc = "blocked" /\ call'[t].p = p /\ \A u \in Threads \ {t} : call'[u] = call[u]
      BY <1>0, <3>1
    <3> QED BY <1>d, <2>1, <3>1, <3>2
  <2> QED BY <2>2, <2>3
<1>8. ASSUME NEW t \in Threads, WaiterResumes(t)
      PROVE  \A p \in Ports : Balanced(p)
  <2>1. call[t] \in [pc : {"blocked", "woken", "erased"}, p : Ports, n : 1 .. MaxBatch,
                     timed : BOOLEAN] /\ call[t].pc = "woken"
    BY <1>0, <1>8, CallShape DEF WaiterResumes
  <2>2. CASE port[call[t].p].cnt = 0
    <3>1. call' = [call EXCEPT ![t].pc = "blocked"] /\ port' = port
      BY <1>8, <2>2 DEF WaiterResumes
    <3>2. /\ call'[t].pc = "blocked" /\ call'[t].p = call[t].p
          /\ \A u \in Threads \ {t} : call'[u] = call[u]
      BY <1>0, <2>1, <3>1
    <3> QED BY <1>d, <2>1, <2>2, <3>1, <3>2
  <2>3. CASE port[call[t].p].cnt # 0
    BY <1>8, <1>b, <2>1, <2>3 DEF WaiterResumes
  <2> QED BY <2>2, <2>3
<1>9. ASSUME NEW t \in Threads, WaiterTimesOut(t)
      PROVE  \A p \in Ports : Balanced(p)
  <2>1. call[t] \in [pc : {"blocked", "woken", "erased"}, p : Ports, n : 1 .. MaxBatch,
                     timed : BOOLEAN]
    BY <1>0, <1>9, CallShape DEF WaiterTimesOut
  <2> QED BY <1>9, <1>b, <2>1 DEF WaiterTimesOut
<1>10. ASSUME NEW t \in Threads, SpuriousWakeup(t)
       PROVE  \A p \in Ports : Balanced(p)
  <2>1. call[t] \in [pc : {"blocked", "woken", "erased"}, p : Ports, n : 1 .. MaxBatch,
                     timed : BOOLEAN] /\ call[t].pc \in {"blocked", "erased"}
    BY <1>0, <1>10, CallShape DEF SpuriousWakeup
  <2>2. /\ call'[t].pc = "woken" /\ call'[t].p = call[t].p
        /\ \A u \in Threads \ {t} : call'[u] = call[u]
    BY <1>0, <1>10, <2>1 DEF SpuriousWakeup
  <2> TAKE p \in Ports
  <2>3. port'[p] = port[p]
    BY <1>10 DEF SpuriousWakeup
  <2>4. CASE p = call[t].p
    <3>1. Woken(p)' = Woken(p) \union {t} /\ t \notin Woken(p)
      BY <2>1, <2>2, <2>4 DEF Woken
    <3>2. Waiters(p)' = Waiters(p) \union {t}
      BY <2>1, <2>2, <2>4 DEF Woken, Waiters, Blocked
    <3> QED BY <1>0, <2>3, <3>1, <3>2 DEF Balanced
  <2>5. CASE p # call[t].p
    <3>1. Woken(p)' = Woken(p) /\ Waiters(p)' = Waiters(p)
      BY <2>1, <2>2, <2>5 DEF Woken, Waiters, Blocked
    <3> QED BY <1>0, <2>3, <3>1 DEF Balanced
  <2> QED BY <2>4, <2>5
<1>11. CASE UNCHANGED vars
  BY <1>0, <1>11 DEF vars, Balanced, Woken, Waiters, Blocked
<1> QED BY <1>1, <1>2, <1>3, <1>4, <1>5, <1>6, <1>7, <1>8, <1>9, <1>10, <1>11
        DEF Next, Step, Start

(* Only a race of two creates cuts a sleeper off: a port that is claimed     *)
(* alone was not in use, and nobody waits on a port that is not.             *)
CutOffByRace == \A p \in Ports : Lost(p) = {} \/ raced

LEMMA CutOffNext ==
  IInv /\ ClaimInv /\ OpenInv /\ CutOffByRace /\ [Next]_vars => CutOffByRace'
<1> SUFFICES ASSUME IInv, ClaimInv, OpenInv, CutOffByRace, [Next]_vars, ~ raced',
                    NEW p \in Ports, NEW u \in Threads, call'[u].pc = "erased"
             PROVE  FALSE
  BY DEF CutOffByRace, Lost
<1>1. ~ raced
  BY DEF Next, Step, Start, CreatePortScan, CreatePortClaim, AssocScan, AssocStore,
         PostQueuedCompletionStatus, ConnectExLookup, ConnectExPost,
         GetQueuedCompletionStatus, WaiterResumes, WaiterTimesOut, SpuriousWakeup, vars
<1>2. \A t \in Threads : call[t].pc # "erased"
  <2>1. \A t \in Threads : call[t].pc = "erased" => call[t].p \in Ports
    BY CallShape DEF IInv, TypeOK
  <2> QED BY <1>1, <2>1 DEF CutOffByRace, Lost
<1>a. ASSUME NEW t \in Threads, call' = [call EXCEPT ![t] = Idle]
      PROVE  FALSE
  BY <1>2, <1>a DEF Idle, IInv, TypeOK
<1>b. ASSUME NEW t \in Threads, NEW s \in {"blocked", "woken"},
             call' = [call EXCEPT ![t].pc = s],
             call[t].pc \in {"blocked", "woken", "erased"}
      PROVE  FALSE
  <2>1. call[t] \in [pc : {"blocked", "woken", "erased"}, p : Ports, n : 1 .. MaxBatch,
                     timed : BOOLEAN]
    BY <1>b, CallShape DEF IInv, TypeOK
  <2>2. call'[t].pc = s /\ \A v \in Threads \ {t} : call'[v] = call[v]
    BY <1>b, <2>1 DEF IInv, TypeOK
  <2> QED BY <1>2, <2>2
<1>c. ASSUME NEW q \in Ports, NEW e \in Entry, NEW t \in Threads,
             NEW c, c = call \/ c = [call EXCEPT ![t] = Idle], Post(q, e, c)
      PROVE  FALSE
  <2>1. \A v \in Threads : call'[v].pc = "woken" \/ call'[v] = c[v]
    BY <1>c, SignalShape DEF Post, IInv
  <2>2. \A v \in Threads : c[v] = call[v] \/ c[v].pc = "idle"
    BY <1>c DEF IInv, TypeOK, Idle
  <2> QED BY <1>2, <2>1, <2>2
<1>d. ASSUME NEW t \in Threads, CreatePortClaim(t)
      PROVE  FALSE
  <2>1. /\ call[t].pc = "claim" /\ call[t].p \in Ports
        /\ ~ port[call[t].p].used
    BY <1>1, <1>d, ClaimShape DEF CreatePortClaim, ClaimInv, IInv
  <2>2. \A v \in Threads : call[v].pc \in {"blocked", "woken"} => call[v].p # call[t].p
    BY <2>1 DEF OpenInv
  <2> QED BY <1>2, <1>d, <2>2, ClaimShape DEF IInv
<1>e. ASSUME NEW t \in Threads, AssocScan(t) \/ AssocStore(t)
      PROVE  FALSE
  BY <1>2, <1>e DEF AssocScan, AssocStore, Idle, IInv, TypeOK
<1>f. ASSUME NEW t \in Threads, ConnectExPost(t)
      PROVE  FALSE
  <2>1. call[t] \in [pc : {"connected"}, p : Ports, e : Entry]
    BY <1>f, CallShape DEF ConnectExPost, IInv, TypeOK
  <2> QED BY <1>a, <1>c, <1>f, <2>1 DEF ConnectExPost
<1>g. ASSUME NEW t \in Threads,
             WaiterResumes(t) \/ WaiterTimesOut(t) \/ SpuriousWakeup(t)
      PROVE  FALSE
  BY <1>a, <1>b, <1>g DEF WaiterResumes, WaiterTimesOut, SpuriousWakeup, Take
<1>h. ASSUME NEW t \in Threads, Start(t)
      PROVE  FALSE
  <2>1. CASE \E f \in Files, k \in Keys : CreatePortScan(t, f, k)
    BY <1>2, <2>1 DEF CreatePortScan, IInv, TypeOK
  <2>2. CASE \E q \in Ports, e \in Entry : PostQueuedCompletionStatus(t, q, e)
    BY <1>c, <2>2 DEF PostQueuedCompletionStatus
  <2>3. CASE \E f \in Files, o \in Ovls : ConnectExLookup(t, f, o)
    BY <1>2, <2>3 DEF ConnectExLookup, IInv, TypeOK
  <2>4. CASE \E q \in Ports, n \in 1 .. MaxBatch : GetQueuedCompletionStatus(t, q, n)
    BY <1>2, <1>a, <2>4 DEF GetQueuedCompletionStatus, Take, IInv, TypeOK
  <2> QED BY <1>h, <2>1, <2>2, <2>3, <2>4 DEF Start
<1>i. CASE UNCHANGED vars
  BY <1>2, <1>i DEF vars
<1> QED BY <1>d, <1>e, <1>f, <1>g, <1>h, <1>i DEF Next, Step

(* For every number of waiting threads: while a port holds k entries, k of   *)
(* its waiters, or all of them, have been woken; and no signal passes a      *)
(* sleeper by, on a condition variable that was erased under it, unless two  *)
(* creates overlapped.                                                       *)
THEOREM SignalsSuffice == Spec => []NoLostWakeup
<1>1. Init => Enough /\ CutOffByRace /\ OpenInv
  <2> SUFFICES ASSUME Init PROVE Enough /\ CutOffByRace /\ OpenInv
    OBVIOUS
  <2>1. \A t \in Threads : call[t].pc = "idle"
    BY DEF Init, Idle
  <2>2. \A p \in Ports : Woken(p) = {} /\ Waiters(p) = {} /\ Lost(p) = {} /\ port[p].cnt = 0
    BY <2>1 DEF Init, EmptyPort, Woken, Waiters, Blocked, Lost
  <2> QED BY <2>1, <2>2, FS_EmptySet DEF Smaller, Enough, CutOffByRace, OpenInv
<1>2. IInv /\ IInv' /\ Enough /\ [Next]_vars => Enough'
  BY WakeNext
<1>3. IInv /\ OpenInv /\ [Next]_vars => OpenInv'
  BY OpenNext
<1>4. IInv /\ ClaimInv /\ OpenInv /\ CutOffByRace /\ [Next]_vars => CutOffByRace'
  BY CutOffNext
<1>5. Spec => []IInv
  BY RingCorrect DEF IInv
<1>6. Enough /\ CutOffByRace => NoLostWakeup
  BY DEF Enough, CutOffByRace, NoLostWakeup
<1> QED BY <1>1, <1>2, <1>3, <1>4, <1>5, <1>6, ClaimCorrect, PTL DEF Spec
=============================================================================
