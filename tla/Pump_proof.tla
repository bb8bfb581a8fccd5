------------------------------ MODULE Pump_proof ------------------------------
(***************************************************************************)
(* Proofs about Pump for every length of the scripts, every pacing, ring   *)
(* and budget: the ring of posted messages is a queue unless two threads   *)
(* meet in it, keystrokes come in pairs, and a made-up WM_QUIT leaves      *)
(* nothing behind.                                                         *)
(***************************************************************************)
EXTENDS Pump, FiniteSetTheorems, TLAPS

Threads  == {"main", "worker"}
PumpType == [delivered : 0 .. Budget, char : 0 .. Keys, keyup : 0 .. Keys,
             key : 0 .. Keys, click : 0 .. Clicks, point : 0 .. Points,
             down : BOOLEAN, size : BOOLEAN, paint : BOOLEAN, kid : 0 .. Kids,
             timer : [kind : Timers \union {"off"}, due : BOOLEAN]]
RingType == [at : [Ring -> 0 .. MaxPosts], head : Ring, n : Int]

-----------------------------------------------------------------------------
(* The inductive invariant.                                                  *)

(* Every message under way has its number, and there are enough of them.     *)
Posting(t) == IF call[t].pc \in {"tail", "put"} THEN 1 ELSE 0

NumbersOK ==
  /\ sent \in Nat /\ heard \in 0 .. MaxPosts
  /\ sent + Posting("main") + Posting("worker") <= MaxPosts

(* The worker only posts.  The main thread waits for its timer only when it  *)
(* has nothing else to deliver.  A button is down only while the script has  *)
(* a point whose release is due.  WM_QUIT is told only to who is quitting.   *)
MainOK ==
  /\ call["worker"].pc \in {"idle", "tail", "put"}
  /\ call["main"].pc = "wait" =>
       /\ pump.delivered < Budget /\ TimerLive
       /\ pump.char = 0 /\ pump.keyup = 0 /\ ~ pump.down
       /\ ~ pump.size /\ ~ pump.paint /\ pump.kid = 0
       /\ GatesShut
  /\ pump.down => PointsLeft
  /\ EventsOn /\ msg.m = "quit" => quit.flag

(* The key whose release is still to come is the one the guest holds; a      *)
(* character on its way, or about to be made, is that key's.                 *)
KeysOK ==
  KeyUps /\ ~ peeked =>
    /\ held = pump.keyup
    /\ msg.m = "key" => msg.arg = held
    /\ pump.char # 0 => pump.char = held

(* As long as two threads were never in the ring together: what one of them  *)
(* has read of it is still so, and the message it stored is in its place.    *)
Place(i) == (ring.head + i) % QueueCap
Length == ring.n - (IF call["main"].pc = "take" THEN 1 ELSE 0)

RingOK ==
  /\ ~ (Poster("main") /\ Poster("worker"))
  /\ Length = sent - heard /\ Length \in 0 .. QueueCap
  /\ \A i \in 0 .. Length - 1 : ring.at[Place(i)] = heard + 1 + i
  /\ \A t \in Threads :
       /\ call[t].pc = "tail" => ring.n < QueueCap /\ call[t].i = Place(ring.n)
       /\ call[t].pc = "put"  => /\ ring.n < QueueCap /\ call[t].n = ring.n
                                 /\ ring.at[Place(ring.n)] = sent + 1
       /\ call[t].pc = "take" => ring.n > 0 /\ call[t].n = ring.n

IInv == TypeOK /\ NumbersOK /\ MainOK /\ KeysOK /\ (raced \/ RingOK)

-----------------------------------------------------------------------------
(* The helpers.                                                              *)

LEMMA CallShape ==
  ASSUME NEW c \in Calls
  PROVE  /\ c.pc \in {"idle", "park", "wait", "tail", "put", "take"}
         /\ c.pc = "wait" => c.from \in {"get", "park", "peek"}
         /\ c.pc = "tail" => c.i \in Ring
         /\ c.pc \in {"put", "take"} => c.n \in Int
BY DEF Calls

LEMMA NewCalls ==
  /\ Idle \in Calls /\ Idle.pc = "idle"
  /\ [pc |-> "park"] \in Calls
  /\ \A f \in {"get", "park", "peek"} : [pc |-> "wait", from |-> f] \in Calls
  /\ \A i \in Ring : [pc |-> "tail", i |-> i] \in Calls
  /\ \A n \in Int : [pc |-> "put", n |-> n] \in Calls /\ [pc |-> "take", n |-> n] \in Calls
BY DEF Calls, Idle

LEMMA Went ==
  ASSUME TypeOK, NEW t \in Threads, NEW c \in Calls, Goes(t, c)
  PROVE  /\ call' \in [Threads -> Calls] /\ call'[t] = c
         /\ \A u \in Threads \ {t} : call'[u] = call[u]
BY DEF TypeOK, Threads, Goes

(* An index one or more places on wraps around at most once.                 *)
LEMMA WrapOnce ==
  ASSUME NEW C \in Nat, C > 0, NEW x \in Nat, x < C + C
  PROVE  x % C = IF x < C THEN x ELSE x - C
<1>1. CASE x < C
  BY <1>1
<1>2. CASE x >= C
  <2>1. x - C \in 0 .. C - 1
    BY <1>2
  <2>2. x % C = (x - C) % C
    BY <1>2, <2>1
  <2> QED BY <1>2, <2>1, <2>2
<1> QED BY <1>1, <1>2

LEMMA PlaceIs ==
  ASSUME NEW h \in Ring, NEW i \in 0 .. QueueCap
  PROVE  /\ (h + i) % QueueCap = IF h + i < QueueCap THEN h + i ELSE h + i - QueueCap
         /\ (h + i) % QueueCap \in Ring
<1>1. /\ QueueCap \in Nat /\ QueueCap > 0 /\ h \in 0 .. QueueCap - 1
      /\ h + i \in Nat /\ h + i < QueueCap + QueueCap
  BY QueueAssumption DEF Ring
<1>2. (h + i) % QueueCap = IF h + i < QueueCap THEN h + i ELSE h + i - QueueCap
  BY <1>1, WrapOnce
<1> QED BY <1>1, <1>2 DEF Ring

(* Wherever a stale head and length point, it is in the ring.                *)
LEMMA AlwaysInRing ==
  ASSUME NEW x \in Int
  PROVE  x % QueueCap \in Ring
BY QueueAssumption DEF Ring

(* The place after the last of n messages is none of theirs.                 *)
LEMMA PlacesDiffer ==
  ASSUME NEW h \in Ring, NEW n \in 0 .. QueueCap - 1, NEW i \in 0 .. n - 1
  PROVE  (h + i) % QueueCap # (h + n) % QueueCap
<1>1. i \in 0 .. QueueCap /\ n \in 0 .. QueueCap /\ h \in 0 .. QueueCap - 1 /\ QueueCap \in Nat
  BY QueueAssumption DEF Ring
<1>2. (h + i) % QueueCap = IF h + i < QueueCap THEN h + i ELSE h + i - QueueCap
  BY <1>1, PlaceIs
<1>3. (h + n) % QueueCap = IF h + n < QueueCap THEN h + n ELSE h + n - QueueCap
  BY <1>1, PlaceIs
<1> QED BY <1>1, <1>2, <1>3

(* Counted from the next head, a place is one less far away.                 *)
LEMMA PlaceShift ==
  ASSUME NEW h \in Ring, NEW i \in 0 .. QueueCap - 1
  PROVE  (((h + 1) % QueueCap) + i) % QueueCap = (h + (i + 1)) % QueueCap
<1> DEFINE g == (h + 1) % QueueCap
<1>0. QueueCap \in Nat /\ QueueCap > 0 /\ h \in 0 .. QueueCap - 1
  BY QueueAssumption DEF Ring
<1>1. g = (IF h + 1 < QueueCap THEN h + 1 ELSE h + 1 - QueueCap) /\ g \in Ring
  BY <1>0, PlaceIs
<1>2. (h + (i + 1)) % QueueCap = IF h + (i + 1) < QueueCap THEN h + (i + 1) ELSE h + (i + 1) - QueueCap
  BY <1>0, PlaceIs
<1> HIDE DEF g
<1>3. (g + i) % QueueCap = IF g + i < QueueCap THEN g + i ELSE g + i - QueueCap
  BY <1>0, <1>1, PlaceIs
<1>4. (g + i) % QueueCap = (h + (i + 1)) % QueueCap
  BY <1>0, <1>1, <1>2, <1>3
<1> QED BY <1>4 DEF g

(* The first ready event, and that there was none before it.                 *)
LEMMA FirstIs ==
  /\ First \in {"none", "char", "keyup", "key", "click", "mouse", "posted", "size", "paint",
                "kidpaint", "timer"}
  /\ First = "none" => /\ ~ Ready.char /\ ~ Ready.keyup /\ ~ Ready.key /\ ~ Ready.click
                       /\ ~ Ready.mouse /\ ~ Ready.posted /\ ~ Ready.size /\ ~ Ready.paint
                       /\ ~ Ready.kidpaint /\ ~ Ready.timer
  /\ First = "char" => Ready.char
  /\ First = "keyup" => Ready.keyup /\ ~ Ready.char
  /\ First = "key" => Ready.key /\ ~ Ready.char /\ ~ Ready.keyup
  /\ First = "click" => Ready.click
  /\ First = "mouse" => Ready.mouse
  /\ First = "posted" => Ready.posted
  /\ First = "kidpaint" => Ready.kidpaint
<1> DEFINE ready == {i \in DOMAIN Order : Ready[Order[i]]}
<1>1. /\ DOMAIN Order = 1 .. 10
      /\ Order[1] = "char" /\ Order[2] = "keyup" /\ Order[3] = "key" /\ Order[4] = "click"
      /\ Order[5] = "mouse" /\ Order[6] = "posted" /\ Order[7] = "size" /\ Order[8] = "paint"
      /\ Order[9] = "kidpaint" /\ Order[10] = "timer"
  BY DEF Order
<1>2. CASE ready = {}
  <2>1. First = "none"
    BY <1>2 DEF First
  <2>2. \A i \in 1 .. 10 : ~ Ready[Order[i]]
    BY <1>1, <1>2
  <2> QED BY <1>1, <2>1, <2>2
<1>3. CASE ready # {}
  <2> DEFINE i == CHOOSE i \in ready : \A j \in ready : i <= j
  <2>1. ready \subseteq 1 .. 10
    BY <1>1
  <2>2. \E m \in ready : \A j \in ready : m <= j
    <3> SUFFICES ASSUME \A m \in ready : \E j \in ready : j < m
                 PROVE  FALSE
      BY <2>1
    <3> HIDE DEF ready
    <3>1. 1 \notin ready
      BY <2>1
    <3>2. 2 \notin ready /\ 3 \notin ready
      <4>1. 2 \notin ready
        BY <2>1, <3>1
      <4> QED BY <2>1, <3>1, <4>1
    <3>3. 4 \notin ready /\ 5 \notin ready
      <4>1. 4 \notin ready
        BY <2>1, <3>1, <3>2
      <4> QED BY <2>1, <3>1, <3>2, <4>1
    <3>4. 6 \notin ready /\ 7 \notin ready
      <4>1. 6 \notin ready
        BY <2>1, <3>1, <3>2, <3>3
      <4> QED BY <2>1, <3>1, <3>2, <3>3, <4>1
    <3>5. 8 \notin ready /\ 9 \notin ready
      <4>1. 8 \notin ready
        BY <2>1, <3>1, <3>2, <3>3, <3>4
      <4> QED BY <2>1, <3>1, <3>2, <3>3, <3>4, <4>1
    <3>6. 10 \notin ready
      BY <2>1, <3>1, <3>2, <3>3, <3>4, <3>5
    <3>7. PICK m : m \in ready
      BY <1>3
    <3>8. m \in 1 .. 10
      BY <2>1, <3>7
    <3>9. \/ m = 1 \/ m = 2 \/ m = 3 \/ m = 4 \/ m = 5
          \/ m = 6 \/ m = 7 \/ m = 8 \/ m = 9 \/ m = 10
      BY <3>8
    <3> QED BY <3>1, <3>2, <3>3, <3>4, <3>5, <3>6, <3>7, <3>9
  <2>3. i \in ready /\ \A j \in ready : i <= j
    BY <2>2
  <2>4. First = Order[i]
    BY <1>3 DEF First
  <2> HIDE DEF i
  <2>5. i \in 1 .. 10 /\ Ready[Order[i]] /\ \A j \in 1 .. 10 : j < i => ~ Ready[Order[j]]
    BY <1>1, <2>3
  <2> QED BY <1>1, <2>4, <2>5
<1> QED BY <1>2, <1>3

LEMMA ReadyIs ==
  /\ Ready.char <=> pump.char # 0
  /\ Ready.keyup <=> pump.keyup # 0
  /\ Ready.key => KeysLeft
  /\ Ready.click => ClicksLeft
  /\ Ready.mouse => PointsLeft
  /\ PointsLeft /\ pump.down => Ready.mouse
  /\ Ready.posted <=> ring.n > 0
  /\ Ready.size <=> pump.size
  /\ Ready.paint <=> pump.paint
  /\ Ready.kidpaint <=> pump.kid # 0
BY DEF Ready, ReadyIf

(* The pump's own calls.                                                     *)
Pumping == {"idle", "park", "wait"}
Stays(t) == \/ call'[t] = call[t]
            \/ call[t].pc \in Pumping /\ call'[t].pc \in Pumping

(* What leaves the ring, its counts and whoever is inside it alone.          *)
LEMMA Quiet ==
  ASSUME IInv, UNCHANGED <<ring, sent, heard, raced>>, \A t \in Threads : Stays(t)
  PROVE  NumbersOK' /\ (raced \/ RingOK)'
<1>1. \A t \in Threads : /\ Posting(t)' = Posting(t)
                         /\ Poster(t)' <=> Poster(t)
                         /\ call'[t] = call[t] \/ (~ Poster(t) /\ call'[t].pc \in Pumping)
  BY DEF Stays, Pumping, Posting, Poster
<1>2. NumbersOK'
  <2>1. Posting("main")' = Posting("main") /\ Posting("worker")' = Posting("worker")
    BY <1>1 DEF Threads
  <2> QED BY <2>1 DEF IInv, NumbersOK
<1>3. ASSUME RingOK PROVE RingOK'
  <2>1. Length' = Length
    BY <1>1 DEF Length, Stays, Pumping, Threads
  <2>2. \A i : Place(i)' = Place(i)
    BY DEF Place
  <2>3. ~ (Poster("main") /\ Poster("worker"))'
    BY <1>1, <1>3 DEF RingOK, Threads
  <2>4. (Length = sent - heard /\ Length \in 0 .. QueueCap)'
    BY <1>3, <2>1 DEF RingOK
  <2>5. (\A i \in 0 .. Length - 1 : ring.at[Place(i)] = heard + 1 + i)'
    BY <1>3, <2>1, <2>2 DEF RingOK
  <2>6. ASSUME NEW t \in Threads
        PROVE  /\ call'[t].pc = "tail" => ring'.n < QueueCap /\ call'[t].i = Place(ring.n)'
               /\ call'[t].pc = "put"  => /\ ring'.n < QueueCap /\ call'[t].n = ring'.n
                                          /\ ring'.at[Place(ring.n)'] = sent' + 1
               /\ call'[t].pc = "take" => ring'.n > 0 /\ call'[t].n = ring'.n
    <3>1. CASE call'[t] = call[t]
      BY <1>3, <2>2, <2>6, <3>1 DEF RingOK, Place
    <3>2. CASE call'[t].pc \in Pumping
      BY <3>2 DEF Pumping
    <3> QED BY <1>1, <2>6, <3>1, <3>2
  <2> QED BY <2>3, <2>4, <2>5, <2>6 DEF RingOK, Place
<1>4. CASE raced
  BY <1>2, <1>4
<1>5. CASE ~ raced
  BY <1>2, <1>3, <1>5 DEF IInv
<1> QED BY <1>4, <1>5

(* When the main thread alone goes on to c.                                  *)
LEMMA MainGoes ==
  ASSUME IInv, NEW c \in Calls, Goes("main", c), call["main"].pc \in Pumping, c.pc \in Pumping
  PROVE  /\ call' \in [Threads -> Calls] /\ call'["main"] = c /\ call'["worker"] = call["worker"]
         /\ \A t \in Threads : Stays(t)
<1>1. TypeOK /\ "main" \in Threads /\ "worker" \in Threads \ {"main"}
  BY DEF IInv, Threads
<1>2. /\ call' \in [Threads -> Calls] /\ call'["main"] = c
      /\ \A u \in Threads \ {"main"} : call'[u] = call[u]
  BY <1>1, Went
<1> QED BY <1>1, <1>2 DEF Stays, Threads

LEMMA IdleGoes ==
  /\ Idle \in Calls /\ Idle.pc \in Pumping
  /\ [pc |-> "park"] \in Calls /\ [pc |-> "park"].pc \in Pumping
BY NewCalls DEF Pumping

LEMMA TypesOf ==
  ASSUME TypeOK
  PROVE  /\ pump \in PumpType /\ ring \in RingType /\ call \in [Threads -> Calls]
         /\ Keys \in Nat /\ Clicks \in Nat /\ Points \in Nat /\ Kids \in Nat
         /\ QueueCap \in Nat /\ QueueCap > 0 /\ Budget \in Nat /\ MaxPosts \in Nat
         /\ KeyUps \in BOOLEAN
BY ScriptAssumption, QueueAssumption, BoundsAssumption, FlagsAssumption
   DEF TypeOK, PumpType, RingType, Threads

LEMMA TypesAre ==
  ASSUME mode \in Modes, pump \in PumpType, ring \in RingType, call \in [Threads -> Calls],
         quit \in [flag : BOOLEAN, code : {0, 1}], raced \in BOOLEAN, peeked \in BOOLEAN
  PROVE  TypeOK
BY DEF TypeOK, PumpType, RingType, Threads

LEMMA InitInv == Init => IInv
<1> SUFFICES ASSUME Init PROVE IInv
  OBVIOUS
<1>0. /\ Keys \in Nat /\ Clicks \in Nat /\ Points \in Nat /\ Kids \in Nat
      /\ QueueCap \in Nat /\ QueueCap > 0 /\ Budget \in Nat /\ MaxPosts \in Nat
  BY ScriptAssumption, QueueAssumption, BoundsAssumption
<1>1. TypeOK
  <2>1. pump \in PumpType
    BY <1>0 DEF Init, PumpType, NoTimer
  <2>2. ring \in RingType
    BY <1>0 DEF Init, RingType, Ring
  <2>3. call \in [Threads -> Calls]
    BY DEF Init, Threads, Calls
  <2>4. mode \in Modes /\ quit \in [flag : BOOLEAN, code : {0, 1}]
    BY DEF Init
  <2>5. raced \in BOOLEAN /\ peeked \in BOOLEAN
    BY DEF Init
  <2> QED BY <2>1, <2>2, <2>3, <2>4, <2>5, TypesAre
<1>2. call["main"].pc = "idle" /\ call["worker"].pc = "idle"
  BY DEF Init
<1>3. NumbersOK
  BY <1>0, <1>2 DEF Init, NumbersOK, Posting
<1>4. MainOK
  BY <1>2 DEF Init, MainOK
<1>5. KeysOK
  BY DEF Init, KeysOK
<1>6. RingOK
  BY <1>0, <1>2 DEF Init, RingOK, Length, Poster, Threads
<1> QED BY <1>1, <1>3, <1>4, <1>5, <1>6 DEF IInv

-----------------------------------------------------------------------------
(* Delivering an event.                                                      *)

Events == {"char", "keyup", "key", "click", "mouse", "size", "paint", "kidpaint", "timer"}

(* What it takes for event k to be delivered.                                *)
Deliverable(k) ==
  /\ k = "char"  => pump.char # 0
  /\ k = "keyup" => pump.keyup # 0 /\ pump.char = 0
  /\ k = "key"   => KeysLeft /\ pump.char = 0 /\ pump.keyup = 0
  /\ k = "click" => ClicksLeft
  /\ k = "mouse" => PointsLeft

LEMMA CountedIs ==
  ASSUME NEW p \in PumpType, p.delivered < Budget
  PROVE  /\ Counted(p) \in PumpType /\ Counted(p).keyup = p.keyup /\ Counted(p).char = p.char
         /\ Counted(p).down = p.down /\ Counted(p).point = p.point
<1>1. p.delivered + 1 \in 0 .. Budget
  BY BoundsAssumption DEF PumpType
<1> QED BY <1>1 DEF PumpType, Counted

(* The pump after the delivery, field by field.                              *)
LEMMA AfterIs ==
  ASSUME TypeOK, NEW k \in Events, Deliverable(k), pump.delivered < Budget
  PROVE  /\ After(k) \in PumpType
         /\ After(k).keyup = CASE k = "keyup" -> 0
                               [] k = "key"   -> IF KeyUps THEN pump.key + 1 ELSE pump.keyup
                               [] OTHER       -> pump.keyup
         /\ After(k).char = IF k = "char" THEN 0 ELSE pump.char
         /\ k # "mouse" => After(k).down = pump.down /\ After(k).point = pump.point
         /\ k = "mouse" => /\ After(k).down = ~ pump.down
                           /\ ~ pump.down => After(k).point = pump.point
<1>0. /\ pump \in PumpType /\ Keys \in Nat /\ Clicks \in Nat /\ Points \in Nat /\ Kids \in Nat
      /\ Budget \in Nat /\ KeyUps \in BOOLEAN
  BY TypesOf
<1> DEFINE Change(q) == /\ q \in PumpType /\ q.delivered = pump.delivered
                        /\ q.keyup = CASE k = "keyup" -> 0
                               [] k = "key"   -> IF KeyUps THEN pump.key + 1 ELSE pump.keyup
                               [] OTHER       -> pump.keyup
                        /\ q.char = IF k = "char" THEN 0 ELSE pump.char
                        /\ k # "mouse" => q.down = pump.down /\ q.point = pump.point
                        /\ k = "mouse" => /\ q.down = ~ pump.down
                                          /\ ~ pump.down => q.point = pump.point
<1> SUFFICES \E q : Change(q) /\ After(k) = Counted(q)
  BY <1>0, CountedIs
<1>1. CASE k = "char"
  <2> DEFINE q == [pump EXCEPT !.char = 0]
  <2>2. After(k) = Counted(q)
    BY <1>1 DEF After, Taken
  <2>3. Change(q)
    BY <1>0, <1>1 DEF PumpType
  <2> HIDE DEF q, Change
  <2> QED BY <2>2, <2>3
<1>2. CASE k = "keyup"
  <2> DEFINE q == [pump EXCEPT !.keyup = 0]
  <2>2. After(k) = Counted(q)
    BY <1>2 DEF After, Taken
  <2>3. Change(q)
    BY <1>0, <1>2 DEF PumpType
  <2> HIDE DEF q, Change
  <2> QED BY <2>2, <2>3
<1>3. CASE k = "key"
  <2> DEFINE q == [pump EXCEPT !.key = @ + 1, !.keyup = IF KeyUps THEN pump.key + 1 ELSE pump.keyup]
  <2>1. pump.key < Keys
    BY <1>3 DEF Deliverable, KeysLeft
  <2>2. After(k) = Counted(q)
    BY <1>3 DEF After, Looked, Advanced
  <2>4. pump.key + 1 \in 0 .. Keys
    BY <2>1, <1>0 DEF PumpType
  <2>5. q \in PumpType
    BY <1>0, <2>4 DEF PumpType
  <2>6. /\ q.delivered = pump.delivered /\ q.char = pump.char
        /\ q.down = pump.down /\ q.point = pump.point
        /\ q.keyup = IF KeyUps THEN pump.key + 1 ELSE pump.keyup
    BY <1>0 DEF PumpType
  <2> HIDE DEF q
  <2>3. Change(q)
    BY <1>3, <2>5, <2>6
  <2> HIDE DEF q, Change
  <2> QED BY <2>2, <2>3
<1>4. CASE k = "click"
  <2> DEFINE q == [pump EXCEPT !.click = @ + 1]
  <2>1. pump.click < Clicks
    BY <1>4 DEF Deliverable, ClicksLeft
  <2>2. After(k) = Counted(q)
    BY <1>4 DEF After, Looked, Advanced
  <2>3. Change(q)
    BY <1>0, <1>4, <2>1 DEF PumpType
  <2> HIDE DEF q, Change
  <2> QED BY <2>2, <2>3
<1>5. CASE k = "mouse"
  <2> DEFINE q == [pump EXCEPT !.down = ~ @, !.point = IF pump.down THEN @ + 1 ELSE @]
  <2>1. pump.point < Points
    BY <1>5 DEF Deliverable, PointsLeft
  <2>2. After(k) = Counted(q)
    BY <1>5 DEF After, Taken
  <2>4. pump.point + 1 \in 0 .. Points /\ pump.down \in BOOLEAN
    BY <2>1, <1>0 DEF PumpType
  <2>5. q \in PumpType
    BY <1>0, <2>4 DEF PumpType
  <2>6. q.delivered = pump.delivered /\ q.keyup = pump.keyup /\ q.char = pump.char
    BY <1>0 DEF PumpType
  <2>7. q.down = ~ pump.down /\ (~ pump.down => q.point = pump.point)
    BY <1>0 DEF PumpType
  <2> HIDE DEF q
  <2>3. Change(q)
    BY <1>5, <2>5, <2>6, <2>7
  <2> HIDE DEF q, Change
  <2> QED BY <2>2, <2>3
<1>6. CASE k = "size"
  <2> DEFINE q == [pump EXCEPT !.size = FALSE]
  <2>2. After(k) = Counted(q)
    BY <1>6 DEF After, Taken
  <2>3. Change(q)
    BY <1>0, <1>6 DEF PumpType
  <2> HIDE DEF q, Change
  <2> QED BY <2>2, <2>3
<1>7. CASE k = "paint"
  <2> DEFINE q == [pump EXCEPT !.paint = FALSE, !.kid = IF Kids > 0 THEN 1 ELSE 0]
  <2>2. After(k) = Counted(q)
    BY <1>7 DEF After, Taken
  <2>4. (IF Kids > 0 THEN 1 ELSE 0) \in 0 .. Kids
    BY <1>0 DEF PumpType
  <2>5. q \in PumpType
    BY <1>0, <2>4 DEF PumpType
  <2>6. /\ q.delivered = pump.delivered /\ q.char = pump.char /\ q.keyup = pump.keyup
        /\ q.down = pump.down /\ q.point = pump.point
    BY <1>0 DEF PumpType
  <2> HIDE DEF q
  <2>3. Change(q)
    BY <1>7, <2>5, <2>6
  <2> HIDE DEF q, Change
  <2> QED BY <2>2, <2>3
<1>8. CASE k = "kidpaint"
  <2> DEFINE q == [pump EXCEPT !.kid = IF @ < Kids THEN @ + 1 ELSE 0]
  <2>2. After(k) = Counted(q)
    BY <1>8 DEF After, Looked, Advanced
  <2>4. pump.kid < Kids => pump.kid + 1 \in 0 .. Kids
    BY <1>0 DEF PumpType
  <2>5. q \in PumpType
    BY <1>0, <2>4 DEF PumpType
  <2>3. Change(q)
    BY <1>0, <1>8, <2>5 DEF PumpType
  <2> HIDE DEF q, Change
  <2> QED BY <2>2, <2>3
<1>9. CASE k = "timer"
  <2> DEFINE q == [pump EXCEPT !.timer.due = FALSE]
  <2>2. After(k) = Counted(q)
    BY <1>9 DEF After, Taken
  <2>4. [pump.timer EXCEPT !.due = FALSE] \in [kind : Timers \union {"off"}, due : BOOLEAN]
    BY <1>0 DEF PumpType
  <2>5. q \in PumpType
    BY <1>0, <2>4 DEF PumpType
  <2>6. q.delivered = pump.delivered /\ q.keyup = pump.keyup /\ q.char = pump.char
    BY <1>0 DEF PumpType
  <2>7. q.down = pump.down /\ q.point = pump.point
    BY <1>0 DEF PumpType
  <2> HIDE DEF q
  <2>3. Change(q)
    BY <1>9, <2>5, <2>6, <2>7
  <2> HIDE DEF q, Change
  <2> QED BY <2>2, <2>3
<1> QED BY <1>1, <1>2, <1>3, <1>4, <1>5, <1>6, <1>7, <1>8, <1>9 DEF Events

LEMMA Delivers ==
  ASSUME IInv, NEW k \in Events, Deliver(k), Deliverable(k), pump.delivered < Budget,
         UNCHANGED <<mode, peeked>>, call["main"].pc \in Pumping
  PROVE  IInv'
<1>0. /\ TypeOK /\ NumbersOK /\ MainOK /\ KeysOK /\ pump \in PumpType
      /\ UNCHANGED <<ring, quit, sent, heard, raced>> /\ Goes("main", Idle)
      /\ pump' = After(k) /\ msg' = [m |-> Name(k), arg |-> Argument(k)]
  BY TypesOf DEF IInv, Deliver
<1>1. /\ call' \in [Threads -> Calls] /\ call'["main"] = Idle /\ call'["worker"] = call["worker"]
      /\ \A t \in Threads : Stays(t)
  BY <1>0, MainGoes, IdleGoes
<1>2. NumbersOK' /\ (raced \/ RingOK)'
  BY <1>0, <1>1, Quiet
<1>3. TypeOK'
  <2>1. pump' \in PumpType
    BY <1>0, AfterIs
  <2>2. ring' \in RingType
    BY <1>0, TypesOf
  <2>3. /\ mode' \in Modes /\ quit' \in [flag : BOOLEAN, code : {0, 1}]
        /\ raced' \in BOOLEAN /\ peeked' \in BOOLEAN
    BY <1>0 DEF TypeOK
  <2> QED BY <1>1, <2>1, <2>2, <2>3 DEF TypeOK, PumpType, RingType, Threads
<1>4. MainOK'
  <2>1. call'["worker"].pc \in {"idle", "tail", "put"} /\ call'["main"].pc # "wait"
    BY <1>0, <1>1, NewCalls DEF MainOK
  <2>2. (pump.down => PointsLeft)'
    <3>1. EventsOn' = EventsOn
      BY DEF EventsOn
    <3>2. CASE k = "mouse"
      <4>1. PointsLeft /\ pump.down \in BOOLEAN
        BY <1>0, <3>2 DEF Deliverable, PumpType
      <4> QED BY <1>0, <3>1, <3>2, <4>1, AfterIs DEF PointsLeft
    <3>3. CASE k # "mouse"
      BY <1>0, <3>1, <3>3, AfterIs DEF PointsLeft, MainOK
    <3> QED BY <3>2, <3>3
  <2>3. msg'.m # "quit"
    BY <1>0 DEF Name, Events
  <2> QED BY <2>1, <2>2, <2>3 DEF MainOK
<1>5. KeysOK'
  <2> SUFFICES ASSUME KeyUps, ~ peeked
               PROVE  /\ held' = pump'.keyup
                      /\ msg'.m = "key" => msg'.arg = held'
                      /\ pump'.char # 0 => pump'.char = held'
    BY <1>0 DEF KeysOK
  <2>1. held = pump.keyup /\ (pump.char # 0 => pump.char = held)
    BY <1>0 DEF KeysOK
  <2>2. held' = CASE k = "key" -> pump.key + 1 [] k = "keyup" -> 0 [] OTHER -> held
    BY DEF Deliver
  <2>3. /\ pump'.keyup = CASE k = "keyup" -> 0 [] k = "key" -> pump.key + 1 [] OTHER -> pump.keyup
        /\ pump'.char = IF k = "char" THEN 0 ELSE pump.char
    BY <1>0, AfterIs
  <2>4. k \in {"key", "keyup"} => pump.char = 0
    BY DEF Deliverable
  <2>5. held' = pump'.keyup
    BY <2>1, <2>2, <2>3
  <2>6. msg'.m = "key" => msg'.arg = held'
    BY <1>0, <2>2 DEF Name, Argument, Events
  <2>7. pump'.char # 0 => pump'.char = held'
    BY <2>1, <2>2, <2>3, <2>4
  <2> QED BY <2>5, <2>6, <2>7
<1> QED BY <1>2, <1>3, <1>4, <1>5 DEF IInv

(* What stands first may be delivered; what goes out of turn, too.           *)
LEMMA FirstDelivers ==
  /\ First \in Events => Deliverable(First)
  /\ First = "none" /\ Bypass # "none" => Bypass \in Events /\ Deliverable(Bypass)
<1>1. First \in Events => Deliverable(First)
  BY FirstIs, ReadyIs DEF Deliverable, Events
<1>2. First = "none" => pump.char = 0 /\ pump.keyup = 0
  BY FirstIs, ReadyIs
<1>3. /\ Bypass = "key" => KeysLeft
      /\ Bypass = "click" => ClicksLeft
      /\ Bypass \in {"key", "click", "none"}
  BY DEF Bypass
<1> QED BY <1>1, <1>2, <1>3 DEF Deliverable, Events

-----------------------------------------------------------------------------
(* Steps that leave the pump and the ring alone.                             *)

(* The gates depend on the script's places and on what was delivered.        *)
LEMMA GatesStay ==
  ASSUME mode' = mode, pump'.delivered = pump.delivered, pump'.key = pump.key,
         pump'.click = pump.click, pump'.point = pump.point
  PROVE  GatesShut' <=> GatesShut
<1>1. \A every : TurnOf(every)' <=> TurnOf(every)
  BY DEF TurnOf
<1>2. (KeysLeft' <=> KeysLeft) /\ (ClicksLeft' <=> ClicksLeft) /\ (PointsLeft' <=> PointsLeft)
  BY DEF KeysLeft, ClicksLeft, PointsLeft, EventsOn
<1> HIDE DEF TurnOf
<1> QED BY <1>1, <1>2 DEF GatesShut

LEMMA PumpStays ==
  ASSUME IInv, UNCHANGED <<mode, pump, ring, sent, heard, held, raced, peeked>>,
         call' \in [Threads -> Calls], \A t \in Threads : Stays(t),
         call'["worker"] = call["worker"],
         call'["main"].pc = "wait" => call["main"].pc = "wait",
         quit' \in [flag : BOOLEAN, code : {0, 1}], quit.flag => quit'.flag,
         msg' = msg \/ (msg'.m = "quit" /\ (EventsOn => quit'.flag))
  PROVE  IInv'
<1>0. TypeOK /\ MainOK /\ KeysOK
  BY DEF IInv
<1>1. NumbersOK' /\ (raced \/ RingOK)'
  BY Quiet
<1>2. TypeOK'
  BY <1>0 DEF TypeOK, Threads
<1>3. MainOK'
  BY <1>0, GatesStay DEF MainOK, EventsOn, PointsLeft, TimerLive
<1>4. KeysOK'
  <2>1. msg'.m = "key" => msg' = msg
    OBVIOUS
  <2> QED BY <1>0, <2>1 DEF KeysOK
<1> QED BY <1>1, <1>2, <1>3, <1>4 DEF IInv

LEMMA QuitTypes ==
  ASSUME TypeOK
  PROVE  /\ quit \in [flag : BOOLEAN, code : {0, 1}]
         /\ [quit EXCEPT !.flag = TRUE] \in [flag : BOOLEAN, code : {0, 1}]
         /\ [quit EXCEPT !.flag = TRUE].flag
         /\ [flag |-> TRUE, code |-> 1] \in [flag : BOOLEAN, code : {0, 1}]
BY DEF TypeOK

LEMMA TellsQuit ==
  ASSUME IInv, NEW code, Quits(code), UNCHANGED <<mode, peeked>>,
         call["main"].pc \in Pumping,
         quit' = quit \/ quit' = [quit EXCEPT !.flag = TRUE],
         EventsOn => quit'.flag
  PROVE  IInv'
<1>0. TypeOK /\ Idle.pc = "idle"
  BY NewCalls DEF IInv
<1>1. /\ Goes("main", Idle) /\ msg'.m = "quit"
      /\ UNCHANGED <<pump, ring, sent, heard, held, raced>>
  BY DEF Quits
<1>2. /\ call' \in [Threads -> Calls] /\ call'["main"] = Idle /\ call'["worker"] = call["worker"]
      /\ \A t \in Threads : Stays(t)
  BY <1>1, MainGoes, IdleGoes
<1>3. quit' \in [flag : BOOLEAN, code : {0, 1}] /\ (quit.flag => quit'.flag)
  BY <1>0, QuitTypes
<1> QED BY <1>0, <1>1, <1>2, <1>3, PumpStays

LEMMA NothingKeeps ==
  ASSUME IInv, NEW from, Nothing(from), UNCHANGED <<mode, peeked>>, call["main"].pc \in Pumping
  PROVE  IInv'
<1>0. TypeOK /\ Idle.pc = "idle"
  BY NewCalls DEF IInv
<1> DEFINE Rests(c) == Goes("main", c) /\ UNCHANGED <<pump, ring, quit, msg, sent, heard, held, raced>>
<1>1. CASE Rests([pc |-> "park"])
  <2>1. /\ call' \in [Threads -> Calls] /\ call'["main"] = [pc |-> "park"]
        /\ call'["worker"] = call["worker"] /\ \A t \in Threads : Stays(t)
    BY <1>1, MainGoes, IdleGoes
  <2> QED BY <1>0, <1>1, <2>1, PumpStays, QuitTypes
<1>2. CASE Rests(Idle)
  <2>1. /\ call' \in [Threads -> Calls] /\ call'["main"] = Idle
        /\ call'["worker"] = call["worker"] /\ \A t \in Threads : Stays(t)
    BY <1>2, MainGoes, IdleGoes
  <2> QED BY <1>0, <1>2, <2>1, PumpStays, QuitTypes
<1>3. CASE quit' = [quit EXCEPT !.flag = TRUE] /\ Quits(0)
  BY <1>0, <1>3, TellsQuit, QuitTypes
<1> QED BY <1>1, <1>2, <1>3 DEF Nothing

-----------------------------------------------------------------------------
(* Taking the first ready event.                                             *)

LEMMA NoneReady ==
  ASSUME IInv, First = "none"
  PROVE  /\ pump.char = 0 /\ pump.keyup = 0 /\ ~ pump.down
         /\ ~ pump.size /\ ~ pump.paint /\ pump.kid = 0 /\ ~ (ring.n > 0)
         /\ GatesShut /\ ~ Ready.timer
<1>1. ~ Ready.key /\ ~ Ready.click /\ ~ Ready.mouse
  BY FirstIs
<1>2. GatesShut
  BY <1>1 DEF GatesShut, Ready, ReadyIf
<1> QED BY <1>2, FirstIs, ReadyIs DEF IInv, MainOK

LEMMA WaitBegins ==
  ASSUME IInv, NEW from \in {"get", "park", "peek"}, First = "none", Waits,
         pump.delivered < Budget, call["main"].pc \in Pumping,
         Goes("main", [pc |-> "wait", from |-> from]), UNCHANGED <<mode, peeked>>,
         UNCHANGED <<pump, ring, quit, msg, sent, heard, held, raced>>
  PROVE  IInv'
<1>0. TypeOK /\ MainOK /\ KeysOK
  BY DEF IInv
<1>1. [pc |-> "wait", from |-> from] \in Calls /\ [pc |-> "wait", from |-> from].pc \in Pumping
  BY NewCalls DEF Pumping
<1>2. /\ call' \in [Threads -> Calls] /\ call'["worker"] = call["worker"]
      /\ \A t \in Threads : Stays(t)
  BY <1>1, MainGoes
<1>3. NumbersOK' /\ (raced \/ RingOK)'
  BY <1>2, Quiet
<1>4. TypeOK'
  BY <1>0, <1>2 DEF TypeOK, Threads
<1>5. MainOK'
  <2>1. TimerLive
    BY DEF Waits, TimerLive
  <2>2. GatesShut'
    BY NoneReady, GatesStay
  <2> QED BY <1>0, <1>2, <2>1, <2>2, NoneReady DEF MainOK, EventsOn, PointsLeft, TimerLive
<1>6. KeysOK'
  BY <1>0 DEF KeysOK
<1> QED BY <1>3, <1>4, <1>5, <1>6 DEF IInv

LEMMA TakesPosted ==
  ASSUME IInv, TakePosted, UNCHANGED <<mode, peeked>>, pump.delivered < Budget, ring.n > 0,
         call["main"].pc \in Pumping
  PROVE  IInv'
<1>0. /\ TypeOK /\ NumbersOK /\ MainOK /\ KeysOK /\ (raced \/ RingOK)
      /\ pump \in PumpType /\ ring \in RingType /\ ring.head \in Ring /\ ring.n \in Int
      /\ ring.at[ring.head] \in 0 .. MaxPosts /\ QueueCap \in Nat /\ QueueCap > 0
  BY TypesOf DEF IInv, RingType
<1>1. /\ pump' = Counted(pump) /\ msg'.m = "posted"
      /\ heard' = ring.at[ring.head]
      /\ ring' = [ring EXCEPT !.head = (@ + 1) % QueueCap]
      /\ Goes("main", [pc |-> "take", n |-> ring.n])
      /\ Enters("main") /\ UNCHANGED <<quit, held, sent>>
  BY DEF TakePosted
<1>2. /\ call' \in [Threads -> Calls] /\ call'["main"] = [pc |-> "take", n |-> ring.n]
      /\ call'["worker"] = call["worker"]
  <2>1. "main" \in Threads /\ "worker" \in Threads \ {"main"}
    BY DEF Threads
  <2>2. [pc |-> "take", n |-> ring.n] \in Calls
    BY <1>0, NewCalls
  <2> QED BY <1>0, <1>1, <2>1, <2>2, Went
<1>3. /\ ring'.at = ring.at /\ ring'.n = ring.n /\ ring'.head = (ring.head + 1) % QueueCap
      /\ ring'.head \in Ring /\ ring' \in RingType
  <2>1. (ring.head + 1) % QueueCap \in Ring
    BY <1>0, PlaceIs
  <2> QED BY <1>0, <1>1, <2>1 DEF RingType
<1>4. TypeOK'
  <2>1. pump' \in PumpType
    BY <1>0, <1>1, CountedIs
  <2>2. /\ mode' \in Modes /\ quit' \in [flag : BOOLEAN, code : {0, 1}]
        /\ raced' \in BOOLEAN /\ peeked' \in BOOLEAN
    BY <1>0, <1>1 DEF TypeOK, Enters
  <2> QED BY <1>2, <1>3, <2>1, <2>2 DEF TypeOK, PumpType, RingType, Threads
<1>5. NumbersOK'
  <2>1. Posting("main")' = 0 /\ Posting("main") = 0 /\ Posting("worker")' = Posting("worker")
    BY <1>2 DEF Posting, Pumping
  <2> QED BY <1>0, <1>1, <2>1 DEF NumbersOK
<1>6. MainOK'
  <2>1. pump'.down = pump.down /\ pump'.point = pump.point
    BY <1>0, <1>1, CountedIs
  <2> QED BY <1>0, <1>1, <1>2, <2>1 DEF MainOK, EventsOn, PointsLeft
<1>7. KeysOK'
  <2>1. pump'.keyup = pump.keyup /\ pump'.char = pump.char
    BY <1>0, <1>1, CountedIs
  <2> QED BY <1>0, <1>1, <2>1 DEF KeysOK
<1>8. ASSUME ~ raced' PROVE RingOK'
  <2>1. ~ raced /\ Alone("main") /\ RingOK
    BY <1>0, <1>1, <1>8 DEF Enters
  <2>2. ~ Poster("worker") /\ call["worker"].pc \notin {"tail", "put", "take"}
    BY <1>0, <2>1 DEF Alone, TypeOK, Poster
  <2>3. Length = ring.n /\ Length' = ring.n - 1
    BY <1>0, <1>2, <1>3 DEF Length, Pumping
  <2>4. Length = sent - heard /\ Length \in 0 .. QueueCap
        /\ \A i \in 0 .. Length - 1 : ring.at[Place(i)] = heard + 1 + i
    BY <2>1 DEF RingOK
  <2>5. heard' = heard + 1
    <3>1. Place(0) = ring.head
      BY <1>0, PlaceIs DEF Place, Ring
    <3>2. 0 \in 0 .. Length - 1
      BY <1>0, <2>3
    <3>3. ring.at[Place(0)] = heard + 1 + 0
      BY <2>4, <3>2
    <3> QED BY <1>0, <1>1, <3>1, <3>3 DEF NumbersOK
  <2>6. ~ (Poster("main") /\ Poster("worker"))'
    BY <1>2, <2>2 DEF Poster
  <2>7. (Length = sent - heard /\ Length \in 0 .. QueueCap)'
    BY <1>0, <1>1, <2>3, <2>4, <2>5 DEF NumbersOK
  <2>8. ASSUME NEW i \in 0 .. ring.n - 2
        PROVE  ring'.at[(ring'.head + i) % QueueCap] = heard' + 1 + i
    <3>1. i \in 0 .. QueueCap - 1 /\ i + 1 \in 0 .. Length - 1
      BY <1>0, <2>3, <2>4, <2>8
    <3>2. ring.at[Place(i + 1)] = heard + 1 + (i + 1)
      BY <2>4, <3>1
    <3>3. (ring'.head + i) % QueueCap = Place(i + 1)
      BY <1>0, <1>3, <3>1, PlaceShift DEF Place
    <3>4. heard \in Nat /\ i \in Nat
      BY <1>0, <3>1 DEF NumbersOK
    <3> QED BY <1>3, <2>5, <3>2, <3>3, <3>4
  <2>9. (\A i \in 0 .. Length - 1 : ring.at[Place(i)] = heard + 1 + i)'
    <3>1. 0 .. Length' - 1 = 0 .. ring.n - 2
      BY <1>0, <2>3
    <3> QED BY <2>8, <3>1 DEF Place
  <2>10. \A t \in Threads : /\ call'[t].pc \notin {"tail", "put"}
                            /\ call'[t].pc = "take" => ring'.n > 0 /\ call'[t].n = ring'.n
    BY <1>2, <1>3, <2>2 DEF Threads
  <2> QED BY <2>6, <2>7, <2>9, <2>10 DEF RingOK
<1> QED BY <1>4, <1>5, <1>6, <1>7, <1>8 DEF IInv

LEMMA Picks ==
  ASSUME IInv, NEW from \in {"get", "park", "peek"}, Pick(from), pump.delivered < Budget,
         call["main"].pc \in Pumping
  PROVE  IInv'
<1>0. UNCHANGED <<mode, peeked>>
  BY DEF Pick
<1>1. CASE First = "posted" /\ TakePosted
  <2>1. ring.n > 0
    BY <1>1, FirstIs, ReadyIs
  <2> QED BY <1>0, <1>1, <2>1, TakesPosted
<1>2. CASE First \notin {"posted", "none"} /\ Deliver(First)
  <2>1. First \in Events
    BY <1>2, FirstIs DEF Events
  <2> QED BY <1>0, <1>2, <2>1, FirstDelivers, Delivers
<1>3. CASE First = "none" /\ Waits /\ Goes("main", [pc |-> "wait", from |-> from])
           /\ UNCHANGED <<pump, ring, quit, msg, sent, heard, held, raced>>
  BY <1>0, <1>3, WaitBegins
<1>4. CASE First = "none" /\ Bypass # "none" /\ Deliver(Bypass)
  BY <1>0, <1>4, FirstDelivers, Delivers
<1>5. CASE Nothing(from)
  BY <1>0, <1>5, NothingKeeps
<1> QED BY <1>1, <1>2, <1>3, <1>4, <1>5 DEF Pick

-----------------------------------------------------------------------------
(* The ring's steps.                                                         *)

LEMMA UnderWay ==
  ASSUME TypeOK
  PROVE  Cardinality({u \in DOMAIN call : call[u].pc \in {"tail", "put"}})
           = Posting("main") + Posting("worker")
<1> DEFINE S == {u \in DOMAIN call : call[u].pc \in {"tail", "put"}}
<1>0. DOMAIN call = {"main", "worker"}
  BY DEF TypeOK
<1>1. ASSUME call["main"].pc \in {"tail", "put"} /\ call["worker"].pc \in {"tail", "put"}
      PROVE  Cardinality(S) = Posting("main") + Posting("worker")
  <2>1. S = {"main", "worker"}
    BY <1>0, <1>1
  <2>2. IsFiniteSet({"main"}) /\ Cardinality({"main"}) = 1
    BY FS_Singleton
  <2>3. Cardinality({"main"} \union {"worker"}) = Cardinality({"main"}) + 1
    BY <2>2, FS_AddElement
  <2>4. {"main"} \union {"worker"} = {"main", "worker"}
    OBVIOUS
  <2>5. Cardinality(S) = 2
    BY <2>1, <2>2, <2>3, <2>4
  <2> HIDE DEF S
  <2> QED BY <1>1, <2>5 DEF Posting
<1>2. ASSUME call["main"].pc \in {"tail", "put"} /\ call["worker"].pc \notin {"tail", "put"}
      PROVE  Cardinality(S) = Posting("main") + Posting("worker")
  <2>1. S = {"main"}
    BY <1>0, <1>2
  <2>2. Cardinality(S) = 1
    BY <2>1, FS_Singleton
  <2> HIDE DEF S
  <2> QED BY <1>2, <2>2 DEF Posting
<1>3. ASSUME call["main"].pc \notin {"tail", "put"} /\ call["worker"].pc \in {"tail", "put"}
      PROVE  Cardinality(S) = Posting("main") + Posting("worker")
  <2>1. S = {"worker"}
    BY <1>0, <1>3
  <2>2. Cardinality(S) = 1
    BY <2>1, FS_Singleton
  <2> HIDE DEF S
  <2> QED BY <1>3, <2>2 DEF Posting
<1>4. ASSUME call["main"].pc \notin {"tail", "put"} /\ call["worker"].pc \notin {"tail", "put"}
      PROVE  Cardinality(S) = Posting("main") + Posting("worker")
  <2>1. S = {}
    BY <1>0, <1>4
  <2>2. Cardinality(S) = 0
    BY <2>1, FS_EmptySet
  <2> HIDE DEF S
  <2> QED BY <1>4, <2>2 DEF Posting
<1> HIDE DEF S
<1>5. Cardinality(S) = Posting("main") + Posting("worker")
  BY <1>1, <1>2, <1>3, <1>4
<1> QED BY <1>5 DEF S

(* The part of the invariant a posting thread cannot disturb.                *)
LEMMA PosterQuiet ==
  ASSUME IInv, UNCHANGED <<mode, pump, msg, quit, held, peeked>>,
         call'["worker"].pc \in {"idle", "tail", "put"},
         call'["main"].pc = "wait" => call["main"].pc = "wait"
  PROVE  MainOK' /\ KeysOK'
BY GatesStay DEF IInv, MainOK, KeysOK, EventsOn, PointsLeft, TimerLive

LEMMA PostMessageStep ==
  ASSUME IInv, NEW t \in Threads, PostMessage(t)
  PROVE  IInv'
<1>0. /\ TypeOK /\ NumbersOK /\ MainOK /\ (raced \/ RingOK) /\ call[t].pc = "idle"
      /\ ring \in RingType /\ ring.head \in Ring /\ ring.n \in Int /\ QueueCap \in Nat
      /\ call \in [Threads -> Calls]
      /\ UNCHANGED <<mode, pump, ring, quit, msg, sent, heard, held, peeked>>
  BY TypesOf DEF IInv, PostMessage, RingType
<1> DEFINE c == [pc |-> "tail", i |-> (ring.head + ring.n) % QueueCap]
<1>1. c \in Calls /\ c.pc = "tail" /\ c.i = Place(ring.n)
  <2>1. ring.head + ring.n \in Int
    BY <1>0 DEF Ring
  <2>2. (ring.head + ring.n) % QueueCap \in Ring
    BY <2>1, AlwaysInRing
  <2> QED BY <2>2, NewCalls DEF Place
<1>2. Goes(t, c) /\ Enters(t) /\ ring.n < QueueCap
  BY DEF PostMessage
<1> HIDE DEF c
<1>3. /\ call' \in [Threads -> Calls] /\ call'[t] = c
      /\ \A u \in Threads \ {t} : call'[u] = call[u]
  BY <1>0, <1>1, <1>2, Went
<1>4. TypeOK'
  BY <1>0, <1>2, <1>3 DEF TypeOK, Threads, Enters
<1>5. NumbersOK'
  <2>1. sent + Posting("main") + Posting("worker") < MaxPosts
    BY <1>0, UnderWay DEF PostMessage, NumbersOK, Posting
  <2>2. Posting(t) = 0 /\ Posting(t)' = 1 /\ \A u \in Threads \ {t} : Posting(u)' = Posting(u)
    BY <1>0, <1>1, <1>3 DEF Posting
  <2>3. Posting("main")' + Posting("worker")' = Posting("main") + Posting("worker") + 1
    BY <2>2 DEF Threads, Posting
  <2>4. /\ Posting("main") \in Nat /\ Posting("worker") \in Nat
        /\ Posting("main")' \in Nat /\ Posting("worker")' \in Nat
    BY DEF Posting
  <2> QED BY <1>0, <2>1, <2>3, <2>4, BoundsAssumption DEF NumbersOK
<1>6. MainOK' /\ KeysOK'
  BY <1>0, <1>1, <1>3, PosterQuiet DEF MainOK, Threads
<1>7. ASSUME ~ raced' PROVE RingOK'
  <2>1. ~ raced /\ Alone(t) /\ RingOK
    BY <1>0, <1>2, <1>7 DEF Enters
  <2>2. \A u \in Threads \ {t} : call[u].pc \notin {"tail", "put", "take"}
    BY <1>0, <2>1 DEF Alone, TypeOK, Poster, Threads
  <2>3. Length' = Length
    BY <1>0, <1>1, <1>3 DEF Length, Threads
  <2>4. ~ (Poster("main") /\ Poster("worker"))'
    BY <1>3, <2>2 DEF Poster, Threads
  <2>5. (Length = sent - heard /\ Length \in 0 .. QueueCap)'
    BY <1>0, <2>1, <2>3 DEF RingOK
  <2>6. (\A i \in 0 .. Length - 1 : ring.at[Place(i)] = heard + 1 + i)'
    BY <1>0, <2>1, <2>3 DEF RingOK, Place
  <2>7. call'[t].pc = "tail" /\ ring'.n < QueueCap /\ call'[t].i = Place(ring.n)'
    BY <1>0, <1>1, <1>2, <1>3 DEF Place
  <2>8. \A u \in Threads \ {t} : call'[u].pc \notin {"tail", "put", "take"}
    BY <1>3, <2>2
  <2> QED BY <2>4, <2>5, <2>6, <2>7, <2>8 DEF RingOK, Place
<1> QED BY <1>4, <1>5, <1>6, <1>7 DEF IInv

LEMMA PostStoresStep ==
  ASSUME IInv, NEW t \in Threads, PostStores(t)
  PROVE  IInv'
<1>0. /\ TypeOK /\ NumbersOK /\ MainOK /\ (raced \/ RingOK) /\ call[t].pc = "tail"
      /\ ring \in RingType /\ ring.head \in Ring /\ ring.n \in Int /\ QueueCap \in Nat
      /\ QueueCap > 0 /\ MaxPosts \in Nat /\ call \in [Threads -> Calls] /\ call[t].i \in Ring
      /\ UNCHANGED <<mode, pump, quit, msg, sent, heard, held, raced, peeked>>
  BY TypesOf, CallShape DEF IInv, PostStores, RingType
<1>1. [pc |-> "put", n |-> ring.n] \in Calls
  BY <1>0, NewCalls
<1>2. /\ call' \in [Threads -> Calls] /\ call'[t] = [pc |-> "put", n |-> ring.n]
      /\ \A u \in Threads \ {t} : call'[u] = call[u]
  BY <1>0, <1>1, Went DEF PostStores
<1>3. sent + 1 \in 0 .. MaxPosts
  <2>1. Posting(t) = 1 /\ Posting("main") \in Nat /\ Posting("worker") \in Nat
    BY <1>0 DEF Posting
  <2> QED BY <1>0, <2>1 DEF NumbersOK, Threads
<1>4. /\ ring'.head = ring.head /\ ring'.n = ring.n /\ ring' \in RingType
      /\ ring'.at[call[t].i] = sent + 1
      /\ \A i \in Ring \ {call[t].i} : ring'.at[i] = ring.at[i]
  BY <1>0, <1>3 DEF PostStores, RingType
<1>5. TypeOK'
  BY <1>0, <1>2, <1>4 DEF TypeOK, Threads, RingType
<1>6. NumbersOK'
  <2>1. Posting("main")' = Posting("main") /\ Posting("worker")' = Posting("worker")
    BY <1>0, <1>2 DEF Posting, Threads
  <2> QED BY <1>0, <2>1 DEF NumbersOK
<1>7. MainOK' /\ KeysOK'
  BY <1>0, <1>2, PosterQuiet DEF MainOK, Threads
<1>8. ASSUME ~ raced' PROVE RingOK'
  <2>1. RingOK
    BY <1>0, <1>8
  <2>2. \A u \in Threads \ {t} : call[u].pc \notin {"tail", "put", "take"}
    BY <1>0, <2>1 DEF RingOK, Poster, Threads
  <2>3. Length = ring.n /\ Length' = ring.n
    BY <1>0, <1>2, <1>4, <2>2 DEF Length, Threads
  <2>4. /\ Length = sent - heard /\ Length \in 0 .. QueueCap
        /\ \A i \in 0 .. Length - 1 : ring.at[Place(i)] = heard + 1 + i
        /\ ring.n < QueueCap /\ call[t].i = Place(ring.n)
    BY <1>0, <2>1 DEF RingOK
  <2>5. ~ (Poster("main") /\ Poster("worker"))'
    BY <1>2, <2>2 DEF Poster, Threads
  <2>6. (Length = sent - heard /\ Length \in 0 .. QueueCap)'
    BY <1>0, <2>3, <2>4
  <2>7. \A i : Place(i)' = Place(i)
    BY <1>4 DEF Place
  <2>8. ASSUME NEW i \in 0 .. ring.n - 1
        PROVE  ring'.at[Place(i)] = heard + 1 + i
    <3>1. ring.n \in 0 .. QueueCap - 1 /\ i \in 0 .. QueueCap
      BY <1>0, <2>3, <2>4, <2>8
    <3>2. Place(i) # Place(ring.n) /\ Place(i) \in Ring
      BY <1>0, <3>1, PlacesDiffer, PlaceIs DEF Place
    <3> QED BY <1>4, <2>3, <2>4, <3>2
  <2>9. (\A i \in 0 .. Length - 1 : ring.at[Place(i)] = heard + 1 + i)'
    BY <1>0, <2>3, <2>7, <2>8
  <2>10. \A u \in Threads :
           /\ call'[u].pc = "put"  => /\ ring'.n < QueueCap /\ call'[u].n = ring'.n
                                      /\ ring'.at[Place(ring.n)'] = sent' + 1
           /\ call'[u].pc \notin {"tail", "take"}
    <3>1. Place(ring.n)' = Place(ring.n)
      BY <1>4 DEF Place
    <3>2. ASSUME NEW u \in Threads, u # t
          PROVE  call'[u].pc \notin {"tail", "put", "take"}
      BY <1>2, <2>2, <3>2
    <3>3. /\ call'[t].pc = "put" /\ ring'.n < QueueCap /\ call'[t].n = ring'.n
          /\ ring'.at[Place(ring.n)'] = sent' + 1
      BY <1>0, <1>2, <1>4, <2>4, <3>1
    <3> QED BY <3>2, <3>3
  <2> QED BY <2>5, <2>6, <2>9, <2>10 DEF RingOK, Place
<1> QED BY <1>0, <1>5, <1>6, <1>7, <1>8 DEF IInv

LEMMA PostCountsStep ==
  ASSUME IInv, NEW t \in Threads, PostCounts(t)
  PROVE  IInv'
<1>0. /\ TypeOK /\ NumbersOK /\ MainOK /\ (raced \/ RingOK) /\ call[t].pc = "put"
      /\ ring \in RingType /\ ring.head \in Ring /\ ring.n \in Int /\ QueueCap \in Nat
      /\ QueueCap > 0 /\ call \in [Threads -> Calls] /\ call[t].n \in Int
      /\ UNCHANGED <<mode, pump, quit, msg, heard, held, raced, peeked>> /\ sent' = sent + 1
  BY TypesOf, CallShape DEF IInv, PostCounts, RingType
<1>1. Idle \in Calls /\ Idle.pc = "idle"
  BY NewCalls
<1>2. /\ call' \in [Threads -> Calls] /\ call'[t] = Idle
      /\ \A u \in Threads \ {t} : call'[u] = call[u]
  BY <1>0, <1>1, Went DEF PostCounts
<1>3. /\ ring'.head = ring.head /\ ring'.at = ring.at /\ ring'.n = call[t].n + 1
      /\ ring' \in RingType
  BY <1>0 DEF PostCounts, RingType
<1>4. TypeOK'
  BY <1>0, <1>2, <1>3 DEF TypeOK, Threads, RingType
<1>5. NumbersOK'
  <2>1. Posting(t) = 1 /\ Posting(t)' = 0 /\ \A u \in Threads \ {t} : Posting(u)' = Posting(u)
    BY <1>0, <1>1, <1>2 DEF Posting
  <2>2. Posting("main")' + Posting("worker")' + 1 = Posting("main") + Posting("worker")
    BY <2>1 DEF Threads, Posting
  <2>3. /\ Posting("main") \in Nat /\ Posting("worker") \in Nat
        /\ Posting("main")' \in Nat /\ Posting("worker")' \in Nat
    BY DEF Posting
  <2> QED BY <1>0, <2>2, <2>3, BoundsAssumption DEF NumbersOK
<1>6. MainOK' /\ KeysOK'
  BY <1>0, <1>1, <1>2, PosterQuiet DEF MainOK, Threads
<1>7. ASSUME ~ raced' PROVE RingOK'
  <2>1. RingOK
    BY <1>0, <1>7
  <2>2. \A u \in Threads \ {t} : call[u].pc \notin {"tail", "put", "take"}
    BY <1>0, <2>1 DEF RingOK, Poster, Threads
  <2>3. /\ Length = sent - heard /\ Length \in 0 .. QueueCap
        /\ \A i \in 0 .. Length - 1 : ring.at[Place(i)] = heard + 1 + i
        /\ ring.n < QueueCap /\ call[t].n = ring.n /\ ring.at[Place(ring.n)] = sent + 1
    BY <1>0, <2>1 DEF RingOK
  <2>4. Length = ring.n /\ Length' = ring.n + 1
    BY <1>0, <1>1, <1>2, <1>3, <2>2, <2>3 DEF Length, Threads
  <2>5. \A u \in Threads : call'[u].pc \notin {"tail", "put", "take"}
    BY <1>1, <1>2, <2>2
  <2>6. ~ (Poster("main") /\ Poster("worker"))'
    BY <2>5 DEF Poster, Threads
  <2>7. (Length = sent - heard /\ Length \in 0 .. QueueCap)'
    BY <1>0, <2>3, <2>4 DEF NumbersOK
  <2>8. (\A i \in 0 .. Length - 1 : ring.at[Place(i)] = heard + 1 + i)'
    <3>1. \A i : Place(i)' = Place(i)
      BY <1>3 DEF Place
    <3>2. ASSUME NEW i \in 0 .. ring.n
          PROVE  ring.at[Place(i)] = heard + 1 + i
      <4>1. CASE i = ring.n
        BY <1>0, <2>3, <2>4, <4>1 DEF NumbersOK
      <4>2. CASE i # ring.n
        BY <1>0, <2>3, <2>4, <3>2, <4>2
      <4> QED BY <4>1, <4>2
    <3>3. 0 .. Length' - 1 = 0 .. ring.n
      BY <1>0, <2>4
    <3> QED BY <1>0, <1>3, <3>1, <3>2, <3>3
  <2> QED BY <2>5, <2>6, <2>7, <2>8 DEF RingOK
<1> QED BY <1>0, <1>4, <1>5, <1>6, <1>7 DEF IInv

LEMMA TakeCountsStep ==
  ASSUME IInv, TakeCounts
  PROVE  IInv'
<1>0. /\ TypeOK /\ NumbersOK /\ MainOK /\ (raced \/ RingOK) /\ call["main"].pc = "take"
      /\ ring \in RingType /\ ring.n \in Int /\ call \in [Threads -> Calls]
      /\ call["main"] \in Calls /\ call["main"].n \in Int
      /\ UNCHANGED <<mode, pump, quit, msg, sent, heard, held, raced, peeked>>
  BY TypesOf, CallShape DEF IInv, TakeCounts, RingType, Threads
<1>1. Idle \in Calls /\ Idle.pc = "idle" /\ "main" \in Threads /\ "worker" \in Threads \ {"main"}
  BY NewCalls DEF Threads
<1>2. /\ call' \in [Threads -> Calls] /\ call'["main"] = Idle /\ call'["worker"] = call["worker"]
  BY <1>0, <1>1, Went DEF TakeCounts
<1>3. /\ ring'.head = ring.head /\ ring'.at = ring.at /\ ring'.n = call["main"].n - 1
      /\ ring' \in RingType
  BY <1>0 DEF TakeCounts, RingType
<1>4. TypeOK'
  BY <1>0, <1>2, <1>3 DEF TypeOK, Threads, RingType
<1>5. NumbersOK'
  <2>1. Posting("main")' = Posting("main") /\ Posting("worker")' = Posting("worker")
    BY <1>0, <1>1, <1>2 DEF Posting
  <2> QED BY <1>0, <2>1 DEF NumbersOK
<1>6. MainOK' /\ KeysOK'
  BY <1>0, <1>1, <1>2, PosterQuiet DEF MainOK
<1>7. ASSUME ~ raced' PROVE RingOK'
  <2>1. RingOK
    BY <1>0, <1>7
  <2>2. call["worker"].pc \notin {"tail", "put", "take"} /\ call["main"].n = ring.n
    BY <1>0, <1>1, <2>1 DEF RingOK, Poster
  <2>3. Length' = Length
    BY <1>0, <1>1, <1>2, <1>3, <2>2 DEF Length
  <2>4. \A u \in Threads : call'[u].pc \notin {"tail", "put", "take"}
    BY <1>1, <1>2, <2>2 DEF Threads
  <2>5. ~ (Poster("main") /\ Poster("worker"))'
    BY <1>1, <2>4 DEF Poster
  <2>6. (Length = sent - heard /\ Length \in 0 .. QueueCap)'
    BY <1>0, <2>1, <2>3 DEF RingOK
  <2>7. (\A i \in 0 .. Length - 1 : ring.at[Place(i)] = heard + 1 + i)'
    BY <1>0, <1>3, <2>1, <2>3 DEF RingOK, Place
  <2> QED BY <2>4, <2>5, <2>6, <2>7 DEF RingOK
<1> QED BY <1>0, <1>4, <1>5, <1>6, <1>7 DEF IInv

-----------------------------------------------------------------------------
(* The guest's steps, and the whole.                                         *)

LEMMA LookedIs ==
  ASSUME TypeOK, NEW k \in Events \union {"posted"}, Deliverable(k)
  PROVE  /\ Looked(k) \in PumpType /\ Looked(k).down = pump.down /\ Looked(k).point = pump.point
<1>0. /\ pump \in PumpType /\ Keys \in Nat /\ Clicks \in Nat /\ Points \in Nat /\ Kids \in Nat
      /\ Budget \in Nat /\ KeyUps \in BOOLEAN
  BY TypesOf
<1>1. CASE k = "key"
  <2>1. pump.key + 1 \in 0 .. Keys
    BY <1>0, <1>1 DEF Deliverable, KeysLeft, PumpType
  <2>2. Looked(k) = [pump EXCEPT !.key = @ + 1,
                                 !.keyup = IF KeyUps THEN pump.key + 1 ELSE pump.keyup]
    BY <1>1 DEF Looked, Advanced
  <2> QED BY <1>0, <2>1, <2>2 DEF PumpType
<1>2. CASE k = "click"
  <2>1. pump.click + 1 \in 0 .. Clicks
    BY <1>0, <1>2 DEF Deliverable, ClicksLeft, PumpType
  <2>2. Looked(k) = [pump EXCEPT !.click = @ + 1]
    BY <1>2 DEF Looked, Advanced
  <2> QED BY <1>0, <2>1, <2>2 DEF PumpType
<1>3. CASE k = "kidpaint"
  <2>1. (IF pump.kid < Kids THEN pump.kid + 1 ELSE 0) \in 0 .. Kids
    BY <1>0 DEF PumpType
  <2>2. Looked(k) = [pump EXCEPT !.kid = IF pump.kid < Kids THEN pump.kid + 1 ELSE 0]
    BY <1>3 DEF Looked, Advanced
  <2> QED BY <1>0, <2>1, <2>2 DEF PumpType
<1>4. CASE k \notin {"key", "click", "kidpaint"}
  BY <1>0, <1>4 DEF Looked, Advanced
<1> QED BY <1>1, <1>2, <1>3, <1>4

LEMMA LookStep ==
  ASSUME IInv, Look
  PROVE  IInv'
<1> DEFINE k == IF First = "none" THEN Bypass ELSE First
<1>0. /\ TypeOK /\ MainOK /\ call["main"].pc = "idle" /\ peeked'
      /\ UNCHANGED <<mode, ring, quit, call, sent, heard, held, raced>>
  BY DEF IInv, Look
<1>1. k \in Events \union {"posted"} /\ Deliverable(k)
  <2>1. k # "none"
    BY DEF Look
  <2> QED BY <2>1, FirstIs, FirstDelivers DEF Events, Deliverable
<1>2. pump' = Looked(k) /\ msg'.m = Name(k)
  BY DEF Look
<1> HIDE DEF k
<1>3. /\ pump' \in PumpType /\ pump'.down = pump.down /\ pump'.point = pump.point
  BY <1>0, <1>1, <1>2, LookedIs
<1>4. NumbersOK' /\ (raced \/ RingOK)'
  BY <1>0, Quiet DEF Stays
<1>5. TypeOK'
  <2>1. peeked' \in BOOLEAN
    BY DEF Look
  <2> QED BY <1>0, <1>3, <2>1 DEF TypeOK, PumpType
<1>6. MainOK'
  <2>1. msg'.m # "quit"
    BY <1>1, <1>2 DEF Name, Events
  <2> QED BY <1>0, <1>3, <2>1 DEF MainOK, EventsOn, PointsLeft
<1>7. KeysOK'
  BY <1>0 DEF KeysOK
<1> QED BY <1>4, <1>5, <1>6, <1>7 DEF IInv

(* A step that changes the pump's flags, its timer or the character to come. *)
LEMMA PumpSet ==
  ASSUME IInv, UNCHANGED <<mode, ring, quit, msg, call, sent, heard, held, raced, peeked>>,
         pump' \in PumpType, pump'.keyup = pump.keyup, pump'.down = pump.down,
         pump'.point = pump.point, pump'.delivered = pump.delivered,
         pump'.key = pump.key, pump'.click = pump.click,
         pump'.char = pump.char \/ (msg.m = "key" /\ pump'.char = msg.arg),
         call["main"].pc = "wait" =>
           /\ pump'.char = pump.char /\ pump'.size = pump.size /\ pump'.paint = pump.paint
           /\ pump'.kid = pump.kid /\ pump'.timer.kind = pump.timer.kind
  PROVE  IInv'
<1>0. TypeOK /\ MainOK /\ KeysOK
  BY DEF IInv
<1>1. NumbersOK' /\ (raced \/ RingOK)'
  BY Quiet DEF Stays
<1>2. TypeOK'
  BY <1>0 DEF TypeOK, PumpType
<1>3. MainOK'
  BY <1>0, GatesStay DEF MainOK, EventsOn, PointsLeft, TimerLive
<1>4. KeysOK'
  BY <1>0 DEF KeysOK
<1> QED BY <1>1, <1>2, <1>3, <1>4 DEF IInv

LEMMA GuestStep ==
  ASSUME IInv, Guest
  PROVE  IInv'
<1>0. pump \in PumpType /\ Keys \in Nat
  BY TypesOf DEF IInv
<1> USE DEF Sets
<1>1. CASE TranslateMessage
  <2>1. msg.m = "key" /\ msg.arg \in 0 .. Keys
    BY <1>1, ScriptAssumption DEF TranslateMessage
  <2>2. pump' = [pump EXCEPT !.char = msg.arg] /\ call["main"].pc = "idle"
    BY <1>1 DEF TranslateMessage
  <2>3. /\ pump' \in PumpType /\ pump'.keyup = pump.keyup /\ pump'.down = pump.down
        /\ pump'.point = pump.point /\ pump'.delivered = pump.delivered /\ pump'.char = msg.arg
        /\ pump'.key = pump.key /\ pump'.click = pump.click
    BY <1>0, <2>1, <2>2 DEF PumpType
  <2> QED BY <1>1, <2>1, <2>2, <2>3, PumpSet DEF TranslateMessage
<1>2. ASSUME NEW p, Sets(p), p \in PumpType, p.keyup = pump.keyup, p.down = pump.down,
             p.point = pump.point, p.delivered = pump.delivered, p.char = pump.char,
             p.key = pump.key, p.click = pump.click
      PROVE  IInv'
  BY <1>2, PumpSet
<1>3. CASE InvalidateRect \/ ValidateRect
  <2>1. PICK b \in BOOLEAN : Sets([pump EXCEPT !.paint = b])
    BY <1>3 DEF InvalidateRect, ValidateRect
  <2> DEFINE p == [pump EXCEPT !.paint = b]
  <2>2. /\ p \in PumpType /\ p.keyup = pump.keyup /\ p.down = pump.down
        /\ p.point = pump.point /\ p.delivered = pump.delivered /\ p.char = pump.char
        /\ p.key = pump.key /\ p.click = pump.click
    BY <1>0 DEF PumpType
  <2>3. Sets(p)
    BY <2>1
  <2> HIDE DEF p
  <2> QED BY <1>2, <2>2, <2>3
<1>4. CASE SetTimer \/ KillTimer
  <2>1. PICK t \in [kind : Timers \union {"off"}, due : BOOLEAN] : Sets([pump EXCEPT !.timer = t])
    BY <1>4 DEF SetTimer, KillTimer, NoTimer
  <2> DEFINE p == [pump EXCEPT !.timer = t]
  <2>2. /\ p \in PumpType /\ p.keyup = pump.keyup /\ p.down = pump.down
        /\ p.point = pump.point /\ p.delivered = pump.delivered /\ p.char = pump.char
        /\ p.key = pump.key /\ p.click = pump.click
    BY <1>0 DEF PumpType
  <2>3. Sets(p)
    BY <2>1
  <2> HIDE DEF p
  <2> QED BY <1>2, <2>2, <2>3
<1>5. CASE ShowWindow
  <2>1. PICK b \in BOOLEAN : Sets([pump EXCEPT !.paint = TRUE, !.size = ~ b])
    BY <1>5 DEF ShowWindow
  <2> DEFINE p == [pump EXCEPT !.paint = TRUE, !.size = ~ b]
  <2>2. /\ p \in PumpType /\ p.keyup = pump.keyup /\ p.down = pump.down
        /\ p.point = pump.point /\ p.delivered = pump.delivered /\ p.char = pump.char
        /\ p.key = pump.key /\ p.click = pump.click
    BY <1>0 DEF PumpType
  <2>3. Sets(p)
    BY <2>1
  <2> HIDE DEF p
  <2> QED BY <1>2, <2>2, <2>3
<1> QED BY <1>1, <1>3, <1>4, <1>5 DEF Guest

LEMMA TickStep ==
  ASSUME IInv, Tick
  PROVE  IInv'
<1>0. pump \in PumpType /\ pump' = [pump EXCEPT !.timer.due = TRUE]
  BY TypesOf DEF IInv, Tick
<1>1. pump.timer \in [kind : Timers \union {"off"}, due : BOOLEAN]
  BY <1>0 DEF PumpType
<1>2. [pump.timer EXCEPT !.due = TRUE] \in [kind : Timers \union {"off"}, due : BOOLEAN]
  BY <1>1
<1>3. pump' = [pump EXCEPT !.timer = [pump.timer EXCEPT !.due = TRUE]]
  BY <1>0
<1>4. pump' \in PumpType
  BY <1>0, <1>2, <1>3 DEF PumpType
<1>5. /\ pump'.keyup = pump.keyup /\ pump'.down = pump.down /\ pump'.point = pump.point
      /\ pump'.delivered = pump.delivered /\ pump'.char = pump.char /\ pump'.size = pump.size
      /\ pump'.paint = pump.paint /\ pump'.kid = pump.kid
      /\ pump'.key = pump.key /\ pump'.click = pump.click
      /\ pump'.timer = [pump.timer EXCEPT !.due = TRUE]
  BY <1>0, <1>3 DEF PumpType
<1>6. pump'.timer.kind = pump.timer.kind
  BY <1>1, <1>5
<1> QED BY <1>4, <1>5, <1>6, PumpSet DEF Tick

LEMMA PumpsStep ==
  ASSUME IInv, GetMessage \/ TimerComes \/ WaitEnds \/ ParkPolls
  PROVE  IInv'
<1>0. TypeOK /\ MainOK
  BY DEF IInv
<1>q. quit \in [flag : BOOLEAN, code : {0, 1}] /\ [quit EXCEPT !.flag = TRUE].flag
  BY <1>0, QuitTypes
<1> USE DEF Pumping
<1>1. CASE GetMessage
  <2>1. call["main"].pc = "idle"
    BY <1>1 DEF GetMessage
  <2>2. CASE Pick("get") /\ pump.delivered < Budget
    BY <2>1, <2>2, Picks
  <2>3. CASE Quits(quit.code) /\ UNCHANGED <<mode, quit, peeked>> /\ (EventsOn => quit.flag)
    BY <2>1, <2>3, TellsQuit
  <2>4. CASE quit' = [quit EXCEPT !.flag = TRUE] /\ Quits(0) /\ UNCHANGED <<mode, peeked>>
    BY <1>q, <2>1, <2>4, TellsQuit
  <2> QED BY <1>1, <2>2, <2>3, <2>4 DEF GetMessage, EventsOn
<1>2. CASE TimerComes
  <2>1. pump.delivered < Budget /\ call["main"].pc = "wait"
    BY <1>0, <1>2 DEF TimerComes, MainOK
  <2> QED BY <1>2, <2>1, Delivers DEF TimerComes, Deliverable, Events
<1>3. CASE WaitEnds
  BY <1>3, NothingKeeps DEF WaitEnds
<1>4. CASE ParkPolls
  <2>1. call["main"].pc = "park"
    BY <1>4 DEF ParkPolls
  <2>2. CASE Pick("park") /\ pump.delivered < Budget
    BY <2>1, <2>2, Picks
  <2>3. CASE Quits(quit.code) /\ UNCHANGED <<mode, quit, peeked>> /\ quit.flag
    BY <2>1, <2>3, TellsQuit
  <2>4. CASE quit' = [quit EXCEPT !.flag = TRUE] /\ Quits(quit.code) /\ UNCHANGED <<mode, peeked>>
    BY <1>q, <2>1, <2>4, TellsQuit
  <2> QED BY <1>4, <2>2, <2>3, <2>4 DEF ParkPolls
<1> QED BY <1>1, <1>2, <1>3, <1>4

LEMMA FlagStep ==
  ASSUME IInv, quit' \in [flag : BOOLEAN, code : {0, 1}], quit'.flag,
         UNCHANGED <<mode, pump, ring, msg, call, sent, heard, held, raced, peeked>>
  PROVE  IInv'
<1>1. call' \in [Threads -> Calls] /\ \A t \in Threads : Stays(t)
  BY DEF IInv, TypeOK, Threads, Stays
<1> QED BY <1>1, PumpStays

LEMMA NextInv == IInv /\ [Next]_vars => IInv'
<1> SUFFICES ASSUME IInv, [Next]_vars PROVE IInv'
  OBVIOUS
<1>0. TypeOK /\ DOMAIN call = Threads
  BY DEF IInv, TypeOK, Threads
<1>1. CASE PeekMessage
  <2>1. CASE Pick("peek") /\ pump.delivered < Budget
    BY <1>1, <2>1, Picks DEF PeekMessage, Pumping
  <2>2. CASE /\ quit' = [quit EXCEPT !.flag = TRUE]
             /\ UNCHANGED <<mode, pump, ring, msg, call, sent, heard, held, raced, peeked>>
    BY <1>0, <2>2, QuitTypes, FlagStep
  <2> QED BY <1>1, <2>1, <2>2 DEF PeekMessage
<1>2. CASE Look
  BY <1>2, LookStep
<1>3. CASE Guest
  BY <1>3, GuestStep
<1>4. CASE Pumps
  BY <1>4, PumpsStep, TakeCountsStep DEF Pumps
<1>5. CASE Tick
  BY <1>5, TickStep
<1>6. ASSUME NEW t \in DOMAIN call, PostMessage(t) \/ Posts(t) \/ PostQuitMessage(t)
      PROVE  IInv'
  <2>1. t \in Threads
    BY <1>0
  <2>2. CASE PostMessage(t)
    BY <2>1, <2>2, PostMessageStep
  <2>3. CASE Posts(t)
    BY <2>1, <2>3, PostStoresStep, PostCountsStep DEF Posts
  <2>4. CASE PostQuitMessage(t)
    BY <1>0, <2>4, QuitTypes, FlagStep DEF PostQuitMessage
  <2> QED BY <1>6, <2>2, <2>3, <2>4
<1>7. CASE UNCHANGED vars
  <2>1. quit \in [flag : BOOLEAN, code : {0, 1}] /\ call' \in [Threads -> Calls]
        /\ \A t \in Threads : Stays(t)
    BY <1>0, <1>7 DEF vars, TypeOK, Threads, Stays
  <2> QED BY <1>7, <2>1, PumpStays DEF vars
<1> QED BY <1>1, <1>2, <1>3, <1>4, <1>5, <1>6, <1>7 DEF Next

LEMMA AlwaysInv == Spec => []IInv
BY InitInv, NextInv, PTL DEF Spec

-----------------------------------------------------------------------------
(* The posted messages the ring holds are, oldest first, those sent and not  *)
(* yet heard, whatever the two threads do, unless they were in it together.  *)
THEOREM PostedMessagesQueue == Spec => []PostQueueOK
<1>1. IInv => PostQueueOK
  <2> SUFFICES ASSUME IInv, ~ raced, NEW i \in 1 .. Length
               PROVE  ring.at[(ring.head + i - 1) % QueueCap] = heard + i
    BY DEF IInv, PostQueueOK, PostsInOrder, RingOK, Length
  <2>1. RingOK /\ ring.head \in Int /\ Length \in Int /\ heard \in Int
    BY DEF IInv, RingOK, TypeOK, NumbersOK, Ring
  <2>2. i - 1 \in 0 .. Length - 1 /\ ring.head + i - 1 = ring.head + (i - 1)
    BY <2>1
  <2>3. ring.at[Place(i - 1)] = heard + 1 + (i - 1)
    BY <2>1, <2>2 DEF RingOK
  <2> QED BY <2>1, <2>2, <2>3 DEF Place
<1> QED BY <1>1, AlwaysInv, PTL

(* The event a step tells the guest of, when it tells it of one.             *)
LEMMA ToldOf ==
  ASSUME IInv, Next, msg' # msg, msg'.m \in {"key", "keyup", "char"}
  PROVE  \E k \in Events : Deliverable(k) /\ msg' = [m |-> Name(k), arg |-> Argument(k)]
<1> DEFINE Told == \E k \in Events : Deliverable(k) /\ msg' = [m |-> Name(k), arg |-> Argument(k)]
<1>1. ASSUME NEW k \in Events, Deliverable(k), Deliver(k) PROVE Told
  BY <1>1 DEF Deliver
<1>2. ASSUME NEW from, Pick(from) PROVE Told
  <2>1. CASE First \notin {"posted", "none"} /\ Deliver(First)
    <3>1. First \in Events
      BY <2>1, FirstIs DEF Events
    <3> QED BY <1>1, <2>1, <3>1, FirstDelivers
  <2>2. CASE First = "none" /\ Bypass # "none" /\ Deliver(Bypass)
    BY <1>1, <2>2, FirstDelivers
  <2>3. ~ TakePosted /\ ~ Nothing(from) /\ msg' # msg
    BY DEF TakePosted, Nothing, Quits
  <2> QED BY <1>2, <2>1, <2>2, <2>3 DEF Pick
<1>3. \A code : ~ Quits(code)
  BY DEF Quits
<1>4. CASE GetMessage \/ ParkPolls \/ PeekMessage
  BY <1>2, <1>3, <1>4 DEF GetMessage, ParkPolls, PeekMessage
<1>5. CASE TimerComes
  BY <1>1, <1>5 DEF TimerComes, Deliverable, Events
<1>6. CASE WaitEnds
  BY <1>6 DEF WaitEnds, Nothing, Quits
<1>7. CASE Look
  <2> DEFINE k == IF First = "none" THEN Bypass ELSE First
  <2>1. /\ k # "none"
        /\ msg' = [m |-> Name(k), arg |-> IF k = "posted" THEN ring.at[ring.head] ELSE Argument(k)]
    BY <1>7 DEF Look
  <2>2. k # "posted"
    BY <2>1 DEF Name
  <2>3. k \in Events /\ Deliverable(k)
    BY <2>1, <2>2, FirstIs, FirstDelivers DEF Events
  <2> HIDE DEF k
  <2> QED BY <2>1, <2>2, <2>3
<1>8. CASE Guest \/ Tick \/ TakeCounts
           \/ \E t \in DOMAIN call : PostMessage(t) \/ Posts(t) \/ PostQuitMessage(t)
  BY <1>8 DEF Guest, TranslateMessage, InvalidateRect, ValidateRect, SetTimer, KillTimer,
              ShowWindow, Sets, Tick, TakeCounts, PostMessage, Posts, PostStores, PostCounts,
              PostQuitMessage
<1> QED BY <1>4, <1>5, <1>6, <1>7, <1>8 DEF Next, Pumps

(* The guest that only takes is told the keys in order, each released before *)
(* the next, and the character of a key while the key is down: with paints,  *)
(* clicks, timers and messages in any order between them.                    *)
THEOREM KeysComeInPairs == Spec => KeystrokesPaired
<1> DEFINE Paired == KeyUps /\ ~ peeked /\ msg' # msg =>
       /\ msg'.m = "key"   => held = 0 /\ msg'.arg = pump.key + 1
       /\ msg'.m = "keyup" => held = msg'.arg
       /\ msg'.m = "char"  => held = msg'.arg
<1>1. IInv /\ [Next]_vars => [Paired]_vars
  <2> SUFFICES ASSUME IInv, Next, KeyUps, ~ peeked, msg' # msg,
                      msg'.m \in {"key", "keyup", "char"}
               PROVE  /\ msg'.m = "key"   => held = 0 /\ msg'.arg = pump.key + 1
                      /\ msg'.m = "keyup" => held = msg'.arg
                      /\ msg'.m = "char"  => held = msg'.arg
    BY DEF vars
  <2>1. PICK k \in Events : Deliverable(k) /\ msg' = [m |-> Name(k), arg |-> Argument(k)]
    BY ToldOf
  <2>2. k = msg'.m
    BY <2>1 DEF Name, Events
  <2>3. held = pump.keyup /\ (pump.char # 0 => pump.char = held)
    BY DEF IInv, KeysOK
  <2> QED BY <2>1, <2>2, <2>3 DEF Deliverable, Argument
<1>2. Spec => [][Paired]_vars
  BY <1>1, AlwaysInv, PTL DEF Spec
<1> QED BY <1>2 DEF KeystrokesPaired

(* What a WM_QUIT made up for want of an event may leave behind: mouse       *)
(* points whose turn has not come; and after the wait for a timer more than  *)
(* four seconds off also keys and clicks whose turn has not come, that       *)
(* timer, and messages posted during the wait.  Nothing else, for every      *)
(* script, pacing, ring and budget.                                          *)
THEOREM QuitLeavesOnly == Spec => DryQuitDropsOnly
<1> DEFINE Dry == ~ quit.flag /\ quit'.flag /\ msg'.m = "quit" /\ pump.delivered < Budget /\ EventsOn =>
       /\ pump.char = 0 /\ pump.keyup = 0 /\ ~ pump.down
       /\ ~ pump.size /\ ~ pump.paint /\ pump.kid = 0
       /\ GatesShut
       /\ IF Blocked THEN pump.timer = [kind |-> "long", due |-> FALSE]
                     ELSE ~ (KeysLeft \/ ClicksLeft \/ ring.n > 0 \/ TimerLive)
<1>1. IInv /\ [Next]_vars => [Dry]_vars
  <2> SUFFICES ASSUME IInv, Next, ~ quit.flag, quit'.flag, msg'.m = "quit",
                      pump.delivered < Budget, EventsOn
               PROVE  /\ pump.char = 0 /\ pump.keyup = 0 /\ ~ pump.down
                      /\ ~ pump.size /\ ~ pump.paint /\ pump.kid = 0
                      /\ GatesShut
                      /\ IF Blocked THEN pump.timer = [kind |-> "long", due |-> FALSE]
                                    ELSE ~ (KeysLeft \/ ClicksLeft \/ ring.n > 0 \/ TimerLive)
    BY DEF vars
  <2>0. quit' # quit /\ msg.m # "quit" /\ Budget \in Nat /\ pump.delivered \in Int
    BY BoundsAssumption DEF IInv, MainOK, TypeOK
  <2>1. ASSUME NEW from, Pick(from)
        PROVE  First = "none" /\ Bypass = "none" /\ ~ Waits /\ from = "get"
    BY <2>0, <2>1 DEF Pick, TakePosted, Deliver, Nothing
  <2>2. ASSUME First = "none", Bypass = "none", call["main"].pc = "idle", ~ Waits
        PROVE  /\ GatesShut /\ ~ Blocked
               /\ ~ (KeysLeft \/ ClicksLeft \/ ring.n > 0 \/ TimerLive)
    <3>1. ~ TimerLive
      <4>1. /\ ~ (pump.timer.kind = "free") /\ ~ pump.timer.due
        BY <2>2, NoneReady DEF Ready, ReadyIf
      <4>2. pump.timer \in [kind : Timers \union {"off"}, due : BOOLEAN]
        BY DEF IInv, TypeOK
      <4> QED BY <2>2, <4>1, <4>2, FlagsAssumption DEF Waits, TimerLive
    <3>2. ~ (KeysLeft \/ ClicksLeft)
      BY <2>2, <3>1 DEF Bypass
    <3> QED BY <2>2, <3>1, <3>2, NoneReady DEF Blocked
  <2>3. CASE GetMessage
    <3>1. Pick("get") /\ call["main"].pc = "idle"
      BY <2>0, <2>3 DEF GetMessage, EventsOn
    <3> QED BY <2>1, <2>2, <3>1, NoneReady
  <2>4. CASE WaitEnds
    <3>1. call["main"].pc = "wait" /\ pump.timer.kind = "long" /\ ~ pump.timer.due
      BY <2>4 DEF WaitEnds
    <3>2. pump.timer \in [kind : Timers \union {"off"}, due : BOOLEAN]
      BY DEF IInv, TypeOK
    <3>3. pump.timer = [kind |-> "long", due |-> FALSE]
      BY <3>1, <3>2
    <3> QED BY <3>1, <3>3 DEF IInv, MainOK, Blocked
  <2>5. ~ TimerComes
    BY <2>0 DEF TimerComes, Deliver
  <2>6. ~ ParkPolls /\ ~ PeekMessage
    <3>1. ~ Pick("park") /\ ~ Pick("peek")
      <4>1. "park" # "get" /\ "peek" # "get"
        OBVIOUS
      <4> QED BY <2>1, <4>1
    <3>2. ~ (pump.delivered >= Budget)
      BY <2>0
    <3>3. ~ ParkPolls
      BY <3>1, <3>2 DEF ParkPolls
    <3>4. ~ PeekMessage
      BY <3>1, <3>2 DEF PeekMessage
    <3> QED BY <3>3, <3>4
  <2>7. ~ (Guest \/ Tick \/ TakeCounts \/ Look
           \/ \E t \in DOMAIN call : PostMessage(t) \/ Posts(t) \/ PostQuitMessage(t))
    BY <2>0 DEF Guest, TranslateMessage, InvalidateRect, ValidateRect, SetTimer, KillTimer,
              ShowWindow, Sets, Tick, TakeCounts, Look, PostMessage, Posts, PostStores, PostCounts,
              PostQuitMessage
  <2> QED BY <2>3, <2>4, <2>5, <2>6, <2>7 DEF Next, Pumps
<1>2. Spec => [][Dry]_vars
  BY <1>1, AlwaysInv, PTL DEF Spec
<1> QED BY <1>2 DEF DryQuitDropsOnly
=============================================================================
