--------------------------- MODULE Registry_proof ---------------------------
(***************************************************************************)
(* The table of the registry and its handles stay right, and the slots,    *)
(* the snapshot file and the code that keeps them implement the map of     *)
(* RegistryStore.                                                          *)
(***************************************************************************)
EXTENDS Registry, SequenceTheorems, WellFoundedInduction, TLAPS

Frames == [slot : 0 .. NSlots, path : Seq(Spellings), self : BOOLEAN]
Table  == [0 .. NSlots -> KeyType]
ValueType == [name : Names, data : Datas]

TypeInv ==
  /\ reg \in Table /\ file \in Seq(KeyType) /\ Len(file) <= NSlots
  /\ life \in {"run", "atexit"} /\ ready \in BOOLEAN /\ twins \in BOOLEAN
  /\ given \subseteq Slots /\ names \subseteq given \X Seq(Spellings)
  /\ tree \in Seq(Frames)

(* Before its first call a process has no key and no handle.                 *)
FreshOK == ~ ready => reg = Empty /\ names = {} /\ given = {} /\ tree = <<>>

OnePlace(r) ==
  /\ \A s, t \in Slots : s # t /\ r[s].live /\ r[t].live => ~ Same(r[s].path, r[t].path)
  /\ \A s \in 0 .. NSlots : Distinct(r[s].vals)

IInv == TypeInv /\ FreshOK /\ OneSlotPerKey /\ HandlesNameTheirKey
-----------------------------------------------------------------------------
(* Numbers, sequences and spellings                                          *)

(* A set of numbers that is not empty has a least one.                       *)
LEMMA Least ==
  ASSUME NEW T \in SUBSET Nat, T # {}
  PROVE  \E x \in T : \A y \in T : x <= y
<1>1. IsWellFoundedOn(OpToRel(<, Nat), Nat)
  BY NatLessThanWellFounded
<1>2. PICK x \in T : \A y \in T : ~ (<<y, x>> \in OpToRel(<, Nat))
  BY <1>1, WFMin
<1>3. \A y \in T : ~ (y < x)
  <2> TAKE y \in T
  <2>1. y < x => <<y, x>> \in OpToRel(<, Nat)
    BY DEF OpToRel
  <2> QED BY <1>2, <2>1
<1>4. \A y \in T : x \in Nat /\ y \in Nat
  BY <1>2
<1>5. \A y \in T : x <= y
  BY <1>3, <1>4
<1> QED BY <1>2, <1>5

LEMMA FoldIs ==
  ASSUME NEW p \in Seq(Spellings)
  PROVE  /\ Fold(p) \in Seq(Spellings) /\ Len(Fold(p)) = Len(p) /\ Len(p) \in Nat
         /\ DOMAIN Fold(p) = 1 .. Len(p) /\ \A i \in 1 .. Len(p) : Fold(p)[i] = Lower[p[i]]
<1>1. \A i \in 1 .. Len(p) : Lower[p[i]] \in Spellings
  BY LowerAssumption
<1> QED BY <1>1 DEF Fold

LEMMA Slots1 ==
  /\ NSlots \in Nat /\ Slots \subseteq 0 .. NSlots /\ Slots \subseteq Nat
  /\ \A s \in 0 .. NSlots : s = 0 \/ s \in Slots
  /\ 0 \notin Slots
BY NSlotsAssumption DEF Slots

LEMMA KeyIs ==
  ASSUME NEW p \in Seq(Spellings)
  PROVE  /\ Key(p) \in KeyType /\ Key(p).live /\ Key(p).path = p /\ Key(p).vals = <<>>
         /\ Distinct(Key(p).vals)
<1>1. <<>> \in Seq(ValueType)
  OBVIOUS
<1>2. Key(p) = [live |-> TRUE, path |-> p, vals |-> <<>>]
  BY DEF Key
<1>3. Distinct(<<>>)
  BY DEF Distinct
<1> QED BY <1>1, <1>2, <1>3 DEF KeyType, ValueType

LEMMA EmptyIs ==
  /\ Empty \in Table /\ OnePlace(Empty) /\ FreeSlot \in KeyType
  /\ \A s \in Slots : ~ Empty[s].live
<1>1. FreeSlot \in KeyType /\ FreeSlot.vals = <<>> /\ FreeSlot.live = FALSE
  <2>1. <<>> \in Seq(ValueType) /\ <<>> \in Seq(Spellings)
    OBVIOUS
  <2> QED BY <2>1 DEF FreeSlot, Root, KeyType, ValueType
<1>2. /\ Empty \in Table /\ \A s \in 0 .. NSlots : Empty[s].vals = <<>>
      /\ \A s \in 0 .. NSlots : Empty[s].live = (s = 0)
  BY <1>1 DEF Empty, Table, KeyType
<1>3. Distinct(<<>>)
  BY DEF Distinct
<1> QED BY <1>1, <1>2, <1>3, Slots1 DEF OnePlace
-----------------------------------------------------------------------------
(* Values                                                                    *)

LEMMA FirstIs ==
  ASSUME NEW vs \in Seq(ValueType), NEW n, Has(vs, n)
  PROVE  \E i \in DOMAIN vs : IsFirst(vs, i, n)
<1> DEFINE T == {i \in DOMAIN vs : vs[i].name = n}
<1>1. T \in SUBSET Nat /\ T # {} /\ DOMAIN vs = 1 .. Len(vs) /\ Len(vs) \in Nat
  BY DEF Has
<1>2. PICK i \in T : \A j \in T : i <= j
  BY <1>1, Least
<1>3. \A j \in 1 .. i - 1 : j \in DOMAIN vs /\ ~ (i <= j)
  BY <1>1, <1>2
<1> QED BY <1>2, <1>3 DEF IsFirst

LEMMA ValuesAre ==
  /\ SeedName \in Names /\ Cut \in Names /\ \A n \in GuestNames : n \in Names
  /\ SeedData \in Datas /\ Cut \in Datas /\ \A d \in GuestDatas : d \in Datas
  /\ Shortened[SeedName] = SeedName /\ \A n \in Names : Shortened[n] \in Names
BY ValuesAssumption

LEMMA PutIs ==
  ASSUME NEW vs \in Seq(ValueType), NEW n \in Names, NEW d \in Datas
  PROVE  /\ Put(vs, n, d) \in Seq(ValueType)
         /\ (Distinct(vs) /\ (Has(vs, n) \/ ~ Has(vs, Shortened[n]))) => Distinct(Put(vs, n, d))
<1>1. /\ Value(n, d) \in ValueType /\ Value(n, d).name = n
      /\ Value(Shortened[n], d) \in ValueType /\ Value(Shortened[n], d).name = Shortened[n]
  BY ValuesAre DEF Value, ValueType
<1>2. DOMAIN vs = 1 .. Len(vs) /\ Len(vs) \in Nat /\ \A i \in DOMAIN vs : vs[i] \in ValueType
  OBVIOUS
<1>3. CASE Has(vs, n)
  <2> DEFINE w == [i \in DOMAIN vs |-> IF IsFirst(vs, i, n) THEN Value(n, d) ELSE vs[i]]
  <2>1. Put(vs, n, d) = w
    BY <1>3 DEF Put
  <2>2. w \in Seq(ValueType)
    BY <1>1, <1>2
  <2>3. DOMAIN w = DOMAIN vs /\ \A i \in DOMAIN vs : w[i].name = vs[i].name
    BY <1>1 DEF IsFirst
  <2>4. Distinct(vs) => Distinct(w)
    BY <2>3 DEF Distinct
  <2> QED BY <2>1, <2>2, <2>4
<1>4. CASE ~ Has(vs, n)
  <2> DEFINE w == Append(vs, Value(Shortened[n], d))
  <2>1. Put(vs, n, d) = w
    BY <1>4 DEF Put
  <2>2. /\ w \in Seq(ValueType) /\ DOMAIN w = 1 .. Len(vs) + 1
        /\ \A i \in 1 .. Len(vs) : w[i] = vs[i]
        /\ w[Len(vs) + 1] = Value(Shortened[n], d)
    BY <1>1, <1>2
  <2>3. \A i \in 1 .. Len(vs) + 1 : i = Len(vs) + 1 \/ i \in 1 .. Len(vs)
    BY <1>2
  <2>4. ~ Has(vs, Shortened[n]) => \A i \in 1 .. Len(vs) : vs[i].name # Shortened[n]
    BY <1>2 DEF Has
  <2> HIDE DEF w
  <2>5. Distinct(vs) /\ ~ Has(vs, Shortened[n]) => Distinct(w)
    BY <1>1, <1>2, <2>2, <2>3, <2>4 DEF Distinct
  <2> QED BY <1>4, <2>1, <2>2, <2>5
<1> QED BY <1>3, <1>4

LEMMA DropIs ==
  ASSUME NEW vs \in Seq(ValueType), NEW n, Has(vs, n)
  PROVE  \E i \in DOMAIN vs :
           /\ IsFirst(vs, i, n)
           /\ Drop(vs, n) \in Seq(ValueType) /\ Len(Drop(vs, n)) = Len(vs) - 1
           /\ \A j \in 1 .. Len(vs) - 1 : Drop(vs, n)[j] = vs[IF j < i THEN j ELSE j + 1]
<1> DEFINE i == CHOOSE j \in DOMAIN vs : IsFirst(vs, j, n)
<1>1. i \in DOMAIN vs /\ IsFirst(vs, i, n)
  BY FirstIs
<1>2. Drop(vs, n) = SubSeq(vs, 1, i - 1) \o SubSeq(vs, i + 1, Len(vs))
  BY DEF Drop
<1> HIDE DEF i
<1>3. DOMAIN vs = 1 .. Len(vs) /\ Len(vs) \in Nat /\ i \in 1 .. Len(vs)
  BY <1>1
<1> DEFINE a == SubSeq(vs, 1, i - 1)
           b == SubSeq(vs, i + 1, Len(vs))
<1>4. /\ a \in Seq(ValueType) /\ Len(a) = i - 1 /\ \A j \in 1 .. i - 1 : a[j] = vs[j]
  BY <1>3
<1>5. /\ b \in Seq(ValueType) /\ Len(b) = Len(vs) - i
      /\ \A j \in 1 .. Len(vs) - i : b[j] = vs[i + j]
  <2>1. /\ i + 1 \in Int /\ Len(vs) \in Int
        /\ \A k \in i + 1 .. Len(vs) : vs[k] \in ValueType
    BY <1>3
  <2>2. /\ b \in Seq(ValueType)
        /\ Len(b) = IF i + 1 <= Len(vs) THEN Len(vs) - (i + 1) + 1 ELSE 0
        /\ \A k \in 1 .. Len(vs) - (i + 1) + 1 : b[k] = vs[(i + 1) + k - 1]
    BY <2>1, SubSeqProperties
  <2>3. i \in Int /\ Len(vs) \in Int /\ i <= Len(vs)
    BY <1>3
  <2>4. Len(vs) - (i + 1) + 1 = Len(vs) - i
    BY <2>3
  <2>5. \A k \in 1 .. Len(vs) - i : (i + 1) + k - 1 = i + k
    BY <2>3
  <2>6. ~ (i + 1 <= Len(vs)) => Len(vs) - i = 0
    BY <2>3
  <2> QED BY <2>2, <2>4, <2>5, <2>6
<1> HIDE DEF a, b
<1>6. /\ a \o b \in Seq(ValueType) /\ Len(a \o b) = Len(vs) - 1
      /\ \A j \in 1 .. Len(vs) - 1 : (a \o b)[j] = IF j <= i - 1 THEN a[j] ELSE b[j - (i - 1)]
  <2>1. /\ a \o b \in Seq(ValueType) /\ Len(a \o b) = Len(a) + Len(b)
        /\ \A j \in 1 .. Len(a) + Len(b) :
             (a \o b)[j] = IF j <= Len(a) THEN a[j] ELSE b[j - Len(a)]
    BY <1>4, <1>5, ConcatProperties
  <2>2. Len(a) + Len(b) = Len(vs) - 1
    BY <1>3, <1>4, <1>5
  <2> QED BY <1>4, <2>1, <2>2
<1>7. \A j \in 1 .. Len(vs) - 1 : (a \o b)[j] = vs[IF j < i THEN j ELSE j + 1]
  <2> TAKE j \in 1 .. Len(vs) - 1
  <2>1. CASE j < i
    BY <1>3, <1>4, <1>6, <2>1
  <2>2. CASE ~ (j < i)
    <3>1. j - (i - 1) \in 1 .. Len(vs) - i /\ i + (j - (i - 1)) = j + 1
      BY <1>3, <2>2
    <3> QED BY <1>3, <1>5, <1>6, <2>2, <3>1
  <2> QED BY <2>1, <2>2
<1> QED BY <1>1, <1>2, <1>6, <1>7 DEF a, b

LEMMA DropDistinct ==
  ASSUME NEW vs \in Seq(ValueType), NEW n, Has(vs, n), Distinct(vs)
  PROVE  Distinct(Drop(vs, n))
<1>1. PICK i \in DOMAIN vs :
           /\ IsFirst(vs, i, n)
           /\ Drop(vs, n) \in Seq(ValueType) /\ Len(Drop(vs, n)) = Len(vs) - 1
           /\ \A j \in 1 .. Len(vs) - 1 : Drop(vs, n)[j] = vs[IF j < i THEN j ELSE j + 1]
  BY DropIs
<1>2. DOMAIN vs = 1 .. Len(vs) /\ Len(vs) \in Nat /\ DOMAIN Drop(vs, n) = 1 .. Len(vs) - 1
  BY <1>1
<1>3. ASSUME NEW j \in 1 .. Len(vs) - 1, NEW k \in 1 .. Len(vs) - 1,
             Drop(vs, n)[j].name = Drop(vs, n)[k].name
      PROVE  j = k
  <2> DEFINE f == IF j < i THEN j ELSE j + 1
             g == IF k < i THEN k ELSE k + 1
  <2>1. f \in DOMAIN vs /\ g \in DOMAIN vs /\ vs[f].name = vs[g].name
    BY <1>1, <1>2, <1>3
  <2>2. f = g
    BY <2>1 DEF Distinct
  <2> QED BY <1>1, <1>2, <2>2
<1> QED BY <1>2, <1>3 DEF Distinct
-----------------------------------------------------------------------------
(* Slots                                                                     *)

LEMMA NewKeyIs ==
  ASSUME NEW r \in Table, NEW s \in Slots, NEW p \in Seq(Spellings)
  PROVE  /\ NewKey(r, s, p) \in Table /\ NewKey(r, s, p)[s] = Key(p)
         /\ \A t \in 0 .. NSlots \ {s} : NewKey(r, s, p)[t] = r[t]
BY KeyIs, Slots1 DEF NewKey, Table

LEMMA OpenedIs ==
  ASSUME NEW r \in Table, NEW p \in Seq(Spellings), NEW o \in Opened(r, p) \union Created(r, p)
  PROVE  /\ o = <<o[1], o[2]>> /\ o[1] \in Slots
         /\ \/ /\ o[2] = r /\ Finds(r, o[1], p)
            \/ /\ o[2] = NewKey(r, o[1], p) /\ ~ Known(r, p) /\ ~ r[o[1]].live
BY DEF Opened, Created, Free

(* What opening or creating does to the table.                               *)
LEMMA Opening ==
  ASSUME NEW r \in Table, NEW p \in Seq(Spellings), NEW o \in Opened(r, p) \union Created(r, p)
  PROVE  /\ o[1] \in Slots /\ o[2] \in Table
         /\ o[2][o[1]].live /\ Same(o[2][o[1]].path, p)
         /\ \A s \in 0 .. NSlots : s # o[1] \/ r[s].live => o[2][s] = r[s]
         /\ OnePlace(r) => OnePlace(o[2])
<1> DEFINE s == o[1]
<1>1. /\ s \in Slots
      /\ \/ /\ o[2] = r /\ Finds(r, s, p)
         \/ /\ o[2] = NewKey(r, s, p) /\ ~ Known(r, p) /\ ~ r[s].live
  BY OpenedIs
<1> HIDE DEF s
<1>2. CASE o[2] = r /\ Finds(r, s, p)
  BY <1>1, <1>2 DEF Finds, s
<1>3. CASE o[2] = NewKey(r, s, p) /\ ~ Known(r, p) /\ ~ r[s].live
  <2>1. /\ o[2] \in Table /\ o[2][s] = Key(p) /\ s \in 0 .. NSlots
        /\ \A t \in 0 .. NSlots \ {s} : o[2][t] = r[t]
    BY <1>1, <1>3, NewKeyIs, Slots1
  <2>2. o[2][s].live /\ Same(o[2][s].path, p) /\ Distinct(o[2][s].vals)
    BY <2>1, KeyIs DEF Same
  <2>3. ASSUME OnePlace(r) PROVE OnePlace(o[2])
    <3>1. ASSUME NEW t \in Slots, NEW u \in Slots, t # u, o[2][t].live, o[2][u].live
          PROVE  ~ Same(o[2][t].path, o[2][u].path)
      <4>0. \A v \in Slots : v \in 0 .. NSlots
        BY Slots1
      <4>1. \A v \in Slots \ {s} : o[2][v].live => ~ Same(r[v].path, p)
        BY <1>3, <2>1, <4>0 DEF Known
      <4>2. CASE t = s
        <5>1. o[2][u] = r[u] /\ u \in Slots \ {s}
          BY <2>1, <3>1, <4>0, <4>2
        <5> QED BY <2>2, <3>1, <4>1, <4>2, <5>1 DEF Same
      <4>3. CASE u = s
        <5>1. o[2][t] = r[t] /\ t \in Slots \ {s}
          BY <2>1, <3>1, <4>0, <4>3
        <5> QED BY <2>2, <3>1, <4>1, <4>3, <5>1 DEF Same
      <4>4. CASE t # s /\ u # s
        BY <2>1, <2>3, <3>1, <4>0, <4>4 DEF OnePlace
      <4> QED BY <4>2, <4>3, <4>4
    <3>2. \A t \in 0 .. NSlots : Distinct(o[2][t].vals)
      BY <2>1, <2>2, <2>3 DEF OnePlace
    <3> QED BY <3>1, <3>2 DEF OnePlace
  <2> QED BY <1>1, <1>3, <2>1, <2>2, <2>3 DEF s
<1> QED BY <1>1, <1>2, <1>3

WithValues(r, s, vs) == [r EXCEPT ![s].vals = vs]
WithoutKey(r, s) == [r EXCEPT ![s].live = FALSE]

(* A key's values change, nothing else.                                      *)
LEMMA Revalued ==
  ASSUME NEW r \in Table, NEW s \in 0 .. NSlots, NEW vs \in Seq(ValueType),
         NEW q, q = WithValues(r, s, vs)
  PROVE  /\ q \in Table /\ q[s].vals = vs
         /\ \A t \in 0 .. NSlots : /\ q[t].live = r[t].live /\ q[t].path = r[t].path
                                   /\ t # s => q[t] = r[t]
         /\ OnePlace(r) /\ Distinct(vs) => OnePlace(q)
<1>1. r[s] \in KeyType
  BY DEF Table
<1>2. [r[s] EXCEPT !.vals = vs] \in KeyType
  BY <1>1 DEF KeyType, ValueType
<1>3. /\ q \in Table /\ q[s] = [r[s] EXCEPT !.vals = vs]
      /\ \A t \in 0 .. NSlots \ {s} : q[t] = r[t]
  BY <1>2 DEF Table, WithValues
<1>4. q[s].vals = vs /\ q[s].live = r[s].live /\ q[s].path = r[s].path
  BY <1>1, <1>3 DEF KeyType
<1>5. \A t \in 0 .. NSlots : q[t].live = r[t].live /\ q[t].path = r[t].path
  BY <1>3, <1>4
<1>6. OnePlace(r) /\ Distinct(vs) => OnePlace(q)
  BY <1>3, <1>4, <1>5, Slots1 DEF OnePlace
<1> QED BY <1>3, <1>4, <1>5, <1>6

(* q is r with slot s free and everything else as it was.                    *)
IsFreed(r, s, q) ==
  /\ q \in Table /\ q[s].live = FALSE
  /\ \A t \in 0 .. NSlots : /\ q[t].path = r[t].path /\ q[t].vals = r[t].vals
                            /\ t # s => q[t] = r[t]
  /\ OnePlace(r) => OnePlace(q)

(* Deleting a key does just that.                                            *)
LEMMA Freed ==
  ASSUME NEW r \in Table, NEW s \in Slots, NEW q, q = WithoutKey(r, s)
  PROVE  IsFreed(r, s, q)
<1>0. s \in 0 .. NSlots /\ r[s] \in KeyType
  BY Slots1 DEF Table
<1>2. /\ [r[s] EXCEPT !.live = FALSE] \in KeyType
      /\ [r[s] EXCEPT !.live = FALSE].live = FALSE
      /\ [r[s] EXCEPT !.live = FALSE].path = r[s].path
      /\ [r[s] EXCEPT !.live = FALSE].vals = r[s].vals
  BY <1>0 DEF KeyType
<1>3. /\ q \in Table /\ q[s] = [r[s] EXCEPT !.live = FALSE]
      /\ \A t \in 0 .. NSlots \ {s} : q[t] = r[t]
  BY <1>0, <1>2 DEF Table, WithoutKey
<1>4. \A t \in 0 .. NSlots : q[t].path = r[t].path /\ q[t].vals = r[t].vals
  BY <1>2, <1>3
<1>5. OnePlace(r) => OnePlace(q)
  BY <1>2, <1>3, <1>4, Slots1 DEF OnePlace
<1> QED BY <1>2, <1>3, <1>4, <1>5 DEF IsFreed

(* A path that ends too early has its components, but for the last one.      *)
LEMMA CutPathIs ==
  ASSUME NEW p \in Seq(Spellings), NEW c \in CutPaths(p)
  PROVE  /\ c \in Seq(Spellings)
         /\ \A i \in 1 .. Len(c) - 1 : i <= Len(p) /\ c[i] = p[i]
<1>0. Len(p) \in Nat /\ DOMAIN p = 1 .. Len(p) /\ \A i \in 1 .. Len(p) : p[i] \in Spellings
  OBVIOUS
<1>1. CASE c = <<Stray>>
  <2>1. c \in Seq(Spellings) /\ Len(c) = 1
    BY <1>1, PathsAssumption
  <2> QED BY <2>1
<1>2. ASSUME NEW j \in 0 .. Len(p), c = SubSeq(p, 1, j)
      PROVE  /\ c \in Seq(Spellings)
             /\ \A i \in 1 .. Len(c) - 1 : i <= Len(p) /\ c[i] = p[i]
  <2>1. c \in Seq(Spellings) /\ Len(c) = j /\ \A i \in 1 .. j : c[i] = p[i]
    BY <1>0, <1>2, SubSeqProperties
  <2> QED BY <1>0, <2>1
<1>3. ASSUME NEW j \in DOMAIN p, NEW b \in Begins[p[j]], c = Append(SubSeq(p, 1, j - 1), b)
      PROVE  /\ c \in Seq(Spellings)
             /\ \A i \in 1 .. Len(c) - 1 : i <= Len(p) /\ c[i] = p[i]
  <2> DEFINE q == SubSeq(p, 1, j - 1)
  <2>1. b \in Spellings
    BY <1>0, <1>3, PathsAssumption
  <2>2. q \in Seq(Spellings) /\ Len(q) = j - 1 /\ \A i \in 1 .. j - 1 : q[i] = p[i]
    BY <1>0, SubSeqProperties
  <2> HIDE DEF q
  <2>3. c = Append(q, b)
    BY <1>3 DEF q
  <2>4. c \in Seq(Spellings) /\ Len(c) = j /\ \A i \in 1 .. j - 1 : c[i] = q[i]
    BY <1>0, <2>1, <2>2, <2>3
  <2> QED BY <1>0, <2>2, <2>4
<1>4. \/ c = <<Stray>>
      \/ \E j \in 0 .. Len(p) : c = SubSeq(p, 1, j)
      \/ \E j \in DOMAIN p : \E b \in Begins[p[j]] : c = Append(SubSeq(p, 1, j - 1), b)
  <2>1. CASE c \in UNION {EndsIn(p, j) : j \in DOMAIN p}
    <3>1. PICK j \in DOMAIN p : c \in EndsIn(p, j)
      BY <2>1
    <3> QED BY <3>1 DEF EndsIn
  <2> QED BY <2>1 DEF CutPaths
<1> QED BY <1>1, <1>2, <1>3, <1>4

(* A record that ends too early is a key's whose path begins like its own.   *)
LEMMA CutIs ==
  ASSUME NEW k \in KeyType, NEW c \in CutShort(k)
  PROVE  /\ c \in KeyType /\ (k.live => c.live)
         /\ \A i \in 1 .. Len(c.path) - 1 : i <= Len(k.path) /\ c.path[i] = k.path[i]
<1>0. k.path \in Seq(Spellings) /\ Len(k.path) \in Nat /\ k.vals \in Seq(ValueType)
  BY DEF KeyType, ValueType
<1>1. ASSUME NEW p \in CutPaths(k.path), c = Key(p)
      PROVE  /\ c \in KeyType /\ c.live
             /\ \A i \in 1 .. Len(c.path) - 1 : i <= Len(k.path) /\ c.path[i] = k.path[i]
  <2>1. p \in Seq(Spellings) /\ \A i \in 1 .. Len(p) - 1 : i <= Len(k.path) /\ p[i] = k.path[i]
    BY <1>0, CutPathIs
  <2>2. c \in KeyType /\ c.live /\ c.path = p
    BY <1>1, <2>1, KeyIs
  <2> QED BY <2>1, <2>2
<1>2. ASSUME NEW j \in DOMAIN k.vals, NEW n \in NamesIn(k.vals),
             c = [k EXCEPT !.vals = CutValues(@, j, n)]
      PROVE  c \in KeyType /\ c.live = k.live /\ c.path = k.path
  <2> DEFINE vs == CutValues(k.vals, j, n)
  <2>1. \A i \in DOMAIN k.vals : k.vals[i] \in ValueType
    BY <1>0
  <2>2. n \in Names
    BY <2>1, ValuesAre DEF ValueType, NamesIn
  <2>3. Value(n, Cut) \in ValueType /\ Value(Cut, Cut) \in ValueType
    BY <2>2, ValuesAre DEF Value, ValueType
  <2>4. vs \in Seq(ValueType)
    BY <1>0, <2>1, <2>3 DEF CutValues
  <2>5. c = [k EXCEPT !.vals = vs]
    BY <1>2
  <2> HIDE DEF vs
  <2> QED BY <2>4, <2>5 DEF KeyType, ValueType
<1>4. CASE c \in {Key(p) : p \in CutPaths(k.path)}
  <2>1. PICK p \in CutPaths(k.path) : c = Key(p)
    BY <1>4
  <2> QED BY <1>1, <2>1
<1>5. CASE c \notin {Key(p) : p \in CutPaths(k.path)}
  <2>1. PICK n \in NamesIn(k.vals) :
             c \in {[k EXCEPT !.vals = CutValues(@, j, n)] : j \in DOMAIN k.vals}
    BY <1>5 DEF CutShort
  <2>3. PICK j \in DOMAIN k.vals : c = [k EXCEPT !.vals = CutValues(@, j, n)]
    BY <2>1
  <2>2. c \in KeyType /\ c.live = k.live /\ c.path = k.path
    BY <1>2, <2>3
  <2> QED BY <1>0, <2>2
<1> QED BY <1>4, <1>5

LEMMA RecordsAre ==
  ASSUME reg \in Table
  PROVE  /\ Records \in Seq(KeyType) /\ Len(Records) = NSlots /\ DOMAIN Records = Slots
         /\ \A i \in Slots : Records[i] = reg[i]
<1>1. \A i \in 1 .. NSlots : reg[i] \in KeyType
  BY Slots1 DEF Table
<1> QED BY <1>1, Slots1 DEF Records, Slots

(* What has been written when the writing stops.                             *)
LEMMA StoppedAt ==
  ASSUME reg \in Table, NEW i \in Slots
  PROVE  /\ SubSeq(Records, 1, i - 1) \in Seq(KeyType)
         /\ Len(SubSeq(Records, 1, i - 1)) = i - 1
         /\ \A j \in 1 .. i - 1 : SubSeq(Records, 1, i - 1)[j] = reg[j]
<1>1. i \in 1 .. NSlots /\ NSlots \in Nat /\ i - 1 \in Nat
  BY Slots1 DEF Slots
<1>2. \A j \in 1 .. i - 1 : Records[j] \in KeyType /\ Records[j] = reg[j]
  <2>1. \A j \in 1 .. i - 1 : j \in Slots
    BY <1>1 DEF Slots
  <2> QED BY <2>1, RecordsAre, Slots1 DEF Table
<1>3. /\ SubSeq(Records, 1, i - 1) \in Seq(KeyType)
      /\ Len(SubSeq(Records, 1, i - 1)) = IF 1 <= i - 1 THEN i - 1 - 1 + 1 ELSE 0
      /\ \A j \in 1 .. i - 1 - 1 + 1 : SubSeq(Records, 1, i - 1)[j] = Records[1 + j - 1]
  BY <1>1, <1>2, SubSeqProperties
<1>4. i - 1 - 1 + 1 = i - 1 /\ \A j \in 1 .. i - 1 : 1 + j - 1 = j
  BY <1>1
<1>5. ~ (1 <= i - 1) => i - 1 = 0
  BY <1>1
<1> QED BY <1>2, <1>3, <1>4, <1>5

(* The table as the file gives it.                                           *)
LEMMA LoadedIs ==
  ASSUME TypeInv, FreshOK, ~ ready
  PROVE  /\ Loaded \in Table
         /\ \A s \in Slots : IF s \in DOMAIN file /\ file[s].live
                               THEN Loaded[s] = file[s]
                               ELSE Loaded[s] = FreeSlot
         /\ Loaded[0] = Empty[0]
         /\ DOMAIN file \subseteq Slots
<1>1. reg = Empty /\ Len(file) \in Nat /\ DOMAIN file = 1 .. Len(file)
  BY DEF TypeInv, FreshOK
<1>2. \A s \in DOMAIN file : file[s] \in KeyType
  BY <1>1 DEF TypeInv
<1>3. DOMAIN file \subseteq Slots
  BY <1>1, Slots1 DEF TypeInv, Slots
<1>4. \A s \in Slots : Empty[s] = FreeSlot
  <2>1. \A s \in Slots : s # 0 /\ s \in 0 .. NSlots
    BY Slots1
  <2>2. [FreeSlot EXCEPT !.live = FALSE] = FreeSlot
    BY EmptyIs DEF FreeSlot, KeyType
  <2> QED BY <2>1, <2>2 DEF Empty
<1>5. /\ Loaded \in Table
      /\ \A s \in 0 .. NSlots : Loaded[s] = IF s \in DOMAIN file /\ file[s].live THEN file[s]
                                            ELSE Empty[s]
  BY <1>1, <1>2, EmptyIs DEF Loaded, Table
<1>6. 0 \notin DOMAIN file /\ 0 \in 0 .. NSlots
  BY <1>1, Slots1
<1> QED BY <1>3, <1>4, <1>5, <1>6, Slots1

LEMMA LoadedOnce ==
  ASSUME TypeInv, FreshOK, Load, ~ twins'
  PROVE  OnePlace(Loaded)
<1>0. ~ ready
  BY DEF Load
<1>1. ASSUME NEW s \in Slots, NEW t \in Slots, s # t, Loaded[s].live, Loaded[t].live
      PROVE  ~ Same(Loaded[s].path, Loaded[t].path)
  <2>1. FreeSlot.live = FALSE
    BY DEF FreeSlot
  <2>2. /\ s \in DOMAIN file /\ file[s].live /\ Loaded[s] = file[s]
        /\ t \in DOMAIN file /\ file[t].live /\ Loaded[t] = file[t]
    BY <1>0, <1>1, <2>1, LoadedIs
  <2>3. ~ Repeated(s)
    BY <2>2 DEF Load
  <2> QED BY <1>1, <2>2, <2>3 DEF Repeated
<1>2. ASSUME NEW s \in 0 .. NSlots PROVE Distinct(Loaded[s].vals)
  <2>1. Distinct(Empty[0].vals) /\ Distinct(FreeSlot.vals)
    <3>1. Distinct(<<>>)
      BY DEF Distinct
    <3> QED BY <3>1, EmptyIs, Slots1 DEF OnePlace, FreeSlot
  <2>2. CASE s \in DOMAIN file /\ file[s].live
    <3>1. Loaded[s] = file[s]
      BY <1>0, <2>2, LoadedIs
    <3>2. Distinct(file[s].vals)
      BY <2>2 DEF Load
    <3> QED BY <3>1, <3>2
  <2>3. CASE ~ (s \in DOMAIN file /\ file[s].live)
    BY <1>0, <2>1, <2>3, LoadedIs, Slots1
  <2> QED BY <2>2, <2>3
<1> QED BY <1>1, <1>2 DEF OnePlace
-----------------------------------------------------------------------------
(* Every step keeps the table and the handles right                          *)

LEMMA IInvIs ==
  IInv <=> TypeInv /\ FreshOK /\ (~ twins => OnePlace(reg)) /\ HandlesNameTheirKey
BY DEF IInv, OneSlotPerKey, OnePlace

LEMMA StartsOK == Init => IInv
<1> SUFFICES ASSUME Init PROVE IInv
  OBVIOUS
<1>0. <<>> \in Seq(KeyType) /\ Len(<<>>) = 0 /\ <<>> \in Seq(Frames) /\ 0 <= NSlots
  BY Slots1
<1>1. TypeInv
  BY <1>0, EmptyIs DEF Init, TypeInv
<1> QED BY <1>1, EmptyIs, IInvIs DEF Init, FreshOK, HandlesNameTheirKey

LEMMA ProcessOK ==
  ASSUME IInv, NEW f \in Seq(KeyType), Len(f) <= NSlots, NewProcess(f)
  PROVE  IInv'
<1>1. /\ reg' = Empty /\ ready' = FALSE /\ tree' = <<>> /\ given' = {} /\ names' = {}
      /\ life' = "run" /\ file' = f /\ twins' = twins
  BY DEF NewProcess
<1>2. TypeInv'
  <2>1. <<>> \in Seq(Frames)
    OBVIOUS
  <2> QED BY <1>1, <2>1, EmptyIs DEF IInv, TypeInv
<1>3. FreshOK' /\ HandlesNameTheirKey'
  BY <1>1 DEF FreshOK, HandlesNameTheirKey
<1>4. OneSlotPerKey'
  BY <1>1, EmptyIs DEF OneSlotPerKey, OnePlace
<1> QED BY <1>2, <1>3, <1>4 DEF IInv

LEMMA LoadOK == ASSUME IInv, Load PROVE IInv'
<1>0. ~ ready /\ reg = Empty /\ names = {} /\ given = {} /\ tree = <<>>
  BY DEF Load, IInv, FreshOK
<1>1. Loaded \in Table /\ (~ twins' => OnePlace(Loaded))
  BY <1>0, LoadedIs, LoadedOnce DEF IInv
<1>2. reg' \in Table /\ (~ twins' => OnePlace(reg'))
  <2>0. SeedPath \in Seq(Spellings) /\ SeedName \in Names /\ SeedData \in Datas
    BY PathsAssumption, ValuesAre
  <2>1. CASE reg' = Loaded
    BY <1>1, <2>1
  <2>2. CASE reg' # Loaded /\ Opened(Loaded, SeedPath) # {}
    <3>1. PICK o \in Opened(Loaded, SeedPath) : reg' = o[2]
      BY <2>2 DEF Load, Seeded
    <3> QED BY <1>1, <2>0, <3>1, Opening
  <2>3. CASE reg' # Loaded /\ Opened(Loaded, SeedPath) = {}
    <3>1. PICK o \in Created(Loaded, SeedPath) : reg' = Filled(o[2], o[1])
      BY <2>3 DEF Load, Seeded
    <3>2. o[1] \in 0 .. NSlots /\ o[2] \in Table /\ (~ twins' => OnePlace(o[2]))
      BY <1>1, <2>0, Opening, Slots1
    <3> DEFINE vs == Put(o[2][o[1]].vals, SeedName, SeedData)
    <3>3. o[2][o[1]].vals \in Seq(ValueType)
      BY <3>2 DEF Table, KeyType, ValueType
    <3>4. vs \in Seq(ValueType) /\ (~ twins' => Distinct(vs))
      BY <2>0, <3>2, <3>3, PutIs, ValuesAre DEF OnePlace
    <3>5. reg' = WithValues(o[2], o[1], vs)
      BY <3>1 DEF Filled, WithValues
    <3> HIDE DEF vs
    <3> QED BY <3>2, <3>4, <3>5, Revalued
  <2> QED BY <2>1, <2>2, <2>3
<1>3. TypeInv'
  BY <1>0, <1>2 DEF Load, IInv, TypeInv
<1>4. FreshOK' /\ HandlesNameTheirKey'
  BY <1>0 DEF Load, FreshOK, HandlesNameTheirKey
<1> QED BY <1>2, <1>3, <1>4 DEF IInv, OneSlotPerKey, OnePlace

(* What all calls share, and the frames of a tree's deletion.                *)
InCall == ready /\ ready' = ready /\ file' = file /\ life' = life /\ twins' = twins

LEMMA TypedCall ==
  ASSUME IInv, InCall, reg' \in Table, given' \subseteq Slots,
         names' \subseteq given' \X Seq(Spellings), tree' \in Seq(Frames),
         ~ twins => OnePlace(reg'), HandlesNameTheirKey'
  PROVE  IInv'
<1>1. TypeInv' /\ FreshOK'
  BY DEF IInv, InCall, TypeInv, FreshOK
<1> QED BY <1>1 DEF IInv, InCall, OneSlotPerKey, OnePlace

LEMMA HandsOK ==
  ASSUME IInv, InCall, UNCHANGED tree,
         NEW p \in Seq(Spellings), NEW o \in Opened(reg, p) \union Created(reg, p),
         reg' = o[2], Hands(o[1], p)
  PROVE  IInv'
<1>0. reg \in Table /\ given \subseteq Slots /\ names \subseteq given \X Seq(Spellings)
  BY DEF IInv, TypeInv
<1>1. /\ o[1] \in Slots /\ o[2] \in Table
      /\ o[2][o[1]].live /\ Same(o[2][o[1]].path, p)
      /\ \A s \in 0 .. NSlots : s # o[1] \/ reg[s].live => o[2][s] = reg[s]
      /\ OnePlace(reg) => OnePlace(o[2])
  BY <1>0, Opening
<1>2. names' \subseteq given' \X Seq(Spellings) /\ given' \subseteq Slots
  BY <1>0, <1>1, FoldIs DEF Hands
<1>3. HandlesNameTheirKey'
  <2> SUFFICES ASSUME ~ twins, NEW h \in names'
               PROVE  reg'[h[1]].live /\ Fold(reg'[h[1]].path) = h[2]
    BY DEF HandlesNameTheirKey, InCall
  <2>1. CASE h \in names
    <3>1. reg[h[1]].live /\ Fold(reg[h[1]].path) = h[2]
      BY <2>1 DEF IInv, HandlesNameTheirKey
    <3>2. h[1] \in 0 .. NSlots
      BY <1>0, <2>1, Slots1
    <3> QED BY <1>1, <3>1, <3>2
  <2>2. CASE h = <<o[1], Fold(p)>>
    BY <1>1, <2>2 DEF Same
  <2> QED BY <2>1, <2>2 DEF Hands
<1>4. tree' \in Seq(Frames)
  BY DEF IInv, TypeInv
<1>5. ~ twins => OnePlace(reg')
  BY <1>1, IInvIs
<1> QED BY <1>1, <1>2, <1>3, <1>4, <1>5, TypedCall

LEMMA ValuesOK ==
  ASSUME IInv, InCall, UNCHANGED <<tree, given, names>>,
         NEW s \in 0 .. NSlots, NEW vs \in Seq(ValueType), ~ twins => Distinct(vs),
         reg' = [reg EXCEPT ![s].vals = vs]
  PROVE  IInv'
<1>0. reg \in Table /\ given \subseteq Slots /\ names \subseteq given \X Seq(Spellings)
      /\ tree \in Seq(Frames)
  BY DEF IInv, TypeInv
<1>1. /\ reg' \in Table /\ reg'[s].vals = vs
      /\ \A t \in 0 .. NSlots : /\ reg'[t].live = reg[t].live /\ reg'[t].path = reg[t].path
                                /\ t # s => reg'[t] = reg[t]
      /\ OnePlace(reg) /\ Distinct(vs) => OnePlace(reg')
  <2>1. reg' = WithValues(reg, s, vs)
    BY DEF WithValues
  <2> QED BY <1>0, <2>1, Revalued
<1>2. HandlesNameTheirKey'
  BY <1>0, <1>1, Slots1 DEF IInv, InCall, HandlesNameTheirKey
<1> QED BY <1>0, <1>1, <1>2, IInvIs, TypedCall

(* Nothing is kept right once a value has a name twice, but types are.       *)
LEMMA TwinOK ==
  ASSUME IInv, ready, UNCHANGED <<ready, file, life, tree, given, names>>, twins' = TRUE,
         NEW s \in 0 .. NSlots, NEW vs \in Seq(ValueType), reg' = [reg EXCEPT ![s].vals = vs]
  PROVE  IInv'
<1>1. reg \in Table /\ reg' = WithValues(reg, s, vs)
  BY DEF IInv, TypeInv, WithValues
<1>2. reg' \in Table
  <2>1. \A q : q = WithValues(reg, s, vs) => q \in Table
    BY <1>1, Revalued
  <2> QED BY <1>1, <2>1
<1>3. TypeInv' /\ FreshOK'
  BY <1>2 DEF IInv, TypeInv, FreshOK
<1> QED BY <1>3 DEF IInv, OneSlotPerKey, HandlesNameTheirKey

LEMMA ForgetOK ==
  ASSUME IInv, InCall, UNCHANGED given, tree' \in Seq(Frames),
         NEW p \in Seq(Spellings), Forget(p)
  PROVE  IInv'
<1>0. reg \in Table /\ given \subseteq Slots /\ names \subseteq given \X Seq(Spellings)
  BY DEF IInv, TypeInv
<1>1. PICK s \in Slots : Finds(reg, s, p) /\ reg' = [reg EXCEPT ![s].live = FALSE]
  BY DEF Forget
<1>2. /\ reg' \in Table /\ reg'[s].live = FALSE
      /\ \A t \in 0 .. NSlots : /\ reg'[t].path = reg[t].path /\ reg'[t].vals = reg[t].vals
                                /\ t # s => reg'[t] = reg[t]
      /\ OnePlace(reg) => OnePlace(reg')
  <2>1. reg' = WithoutKey(reg, s)
    BY <1>1 DEF WithoutKey
  <2>2. IsFreed(reg, s, reg')
    BY <1>0, <2>1, Freed
  <2> QED BY <2>2 DEF IsFreed
<1>3. HandlesNameTheirKey'
  <2> SUFFICES ASSUME ~ twins, NEW h \in names'
               PROVE  reg'[h[1]].live /\ Fold(reg'[h[1]].path) = h[2]
    BY DEF HandlesNameTheirKey, InCall
  <2>1. h \in names /\ h[2] # Fold(p)
    BY DEF Forget
  <2>2. reg[h[1]].live /\ Fold(reg[h[1]].path) = h[2] /\ h[1] \in 0 .. NSlots
    BY <1>0, <2>1, Slots1 DEF IInv, HandlesNameTheirKey
  <2>3. h[1] # s
    BY <1>1, <2>1, <2>2 DEF Finds, Same
  <2> QED BY <1>2, <2>2, <2>3
<1>4. names' \subseteq given' \X Seq(Spellings) /\ given' \subseteq Slots
  BY <1>0 DEF Forget
<1> QED BY <1>2, <1>3, <1>4, IInvIs, TypedCall

LEMMA FrameIs ==
  ASSUME NEW s \in 0 .. NSlots, NEW p \in Seq(Spellings), NEW self \in BOOLEAN
  PROVE  /\ Frame(s, p, self) \in Frames
         /\ <<Frame(s, p, self)>> \in Seq(Frames)
         /\ \A t \in Seq(Frames) : Append(t, Frame(s, p, self)) \in Seq(Frames)
<1>1. Frame(s, p, self) \in Frames
  BY DEF Frame, Frames
<1> QED BY <1>1

(* Where a tree's deletion is, and the child it takes next.                  *)
LEMMA TopIs ==
  ASSUME IInv, tree # <<>>
  PROVE  /\ Top \in Frames /\ Len(tree) \in Nat
         /\ SubSeq(tree, 1, Len(tree) - 1) \in Seq(Frames)
<1>1. tree \in Seq(Frames) /\ Len(tree) \in Nat /\ Len(tree) # 0
  BY EmptySeq DEF IInv, TypeInv
<1>2. \A i \in 1 .. Len(tree) - 1 : tree[i] \in Frames
  BY <1>1
<1>3. SubSeq(tree, 1, Len(tree) - 1) \in Seq(Frames)
  BY <1>1, <1>2, SubSeqProperties
<1>4. Top \in Frames
  BY <1>1 DEF Top
<1> QED BY <1>1, <1>3, <1>4

LEMMA FirstChildIs ==
  ASSUME NEW s, NEW p, Children(s, p) # {}
  PROVE  FirstChild(s, p) \in Slots /\ FirstChild(s, p) \in Children(s, p)
<1>1. Children(s, p) \in SUBSET Slots /\ Slots \in SUBSET Nat
  BY Slots1 DEF Children
<1>2. \E t \in Children(s, p) : \A u \in Children(s, p) : t <= u
  BY <1>1, Least
<1> QED BY <1>1, <1>2 DEF FirstChild

LEMMA CallOK == ASSUME IInv, Call PROVE IInv'
<1>0. /\ reg \in Table /\ given \subseteq Slots /\ names \subseteq given \X Seq(Spellings)
      /\ tree \in Seq(Frames) /\ Paths \subseteq Seq(Spellings)
      /\ given \cup {0} \subseteq 0 .. NSlots
  BY Slots1, PathsAssumption DEF IInv, TypeInv
<1>1. ASSUME Called PROVE InCall
  BY <1>1 DEF Called, Calls, InCall, process
<1>2. ASSUME NEW p \in Paths, RegCreateKeyEx(p) PROVE IInv'
  <2>1. PICK o \in Created(reg, p) : reg' = o[2] /\ Hands(o[1], p)
    BY <1>2 DEF RegCreateKeyEx
  <2>2. InCall /\ UNCHANGED tree
    BY <1>1, <1>2 DEF RegCreateKeyEx
  <2> QED BY <1>0, <2>1, <2>2, HandsOK
<1>3. ASSUME NEW p \in Paths, RegOpenKeyEx(p) PROVE IInv'
  <2>1. PICK o \in Opened(reg, p) : reg' = o[2] /\ Hands(o[1], p)
    BY <1>3 DEF RegOpenKeyEx
  <2>2. InCall /\ UNCHANGED tree
    BY <1>1, <1>3 DEF RegOpenKeyEx
  <2> QED BY <1>0, <2>1, <2>2, HandsOK
<1>4. ASSUME NEW p \in Paths, RegDeleteKey(p) PROVE IInv'
  <2>1. InCall /\ UNCHANGED <<tree, given>> /\ Forget(p)
    BY <1>1, <1>4 DEF RegDeleteKey
  <2> QED BY <1>0, <2>1, ForgetOK
<1>5. ASSUME NEW p \in Paths, RegDeleteTree(p) PROVE IInv'
  <2>1. PICK o \in Opened(reg, p) : reg' = o[2] /\ tree' = <<Frame(o[1], p, TRUE)>>
    BY <1>5 DEF RegDeleteTree
  <2>2. InCall /\ UNCHANGED <<given, names>>
    BY <1>1, <1>5 DEF RegDeleteTree
  <2>3. /\ o[1] \in 0 .. NSlots /\ o[2] \in Table /\ (OnePlace(reg) => OnePlace(o[2]))
        /\ \A s \in 0 .. NSlots : s # o[1] \/ reg[s].live => o[2][s] = reg[s]
    <3>1. p \in Seq(Spellings) /\ o \in Opened(reg, p) \union Created(reg, p)
      BY <1>0, <1>5, <2>1
    <3>2. /\ o[1] \in Slots /\ o[2] \in Table
          /\ o[2][o[1]].live /\ Same(o[2][o[1]].path, p)
          /\ \A s \in 0 .. NSlots : s # o[1] \/ reg[s].live => o[2][s] = reg[s]
          /\ OnePlace(reg) => OnePlace(o[2])
      BY <1>0, <3>1, Opening
    <3> QED BY <3>2, Slots1
  <2>4. tree' \in Seq(Frames)
    BY <1>0, <1>5, <2>1, <2>3, FrameIs
  <2>5. HandlesNameTheirKey'
    <3>1. \A h \in names : h[1] \in 0 .. NSlots
      BY <1>0, Slots1
    <3> QED BY <2>1, <2>2, <2>3, <3>1 DEF IInv, InCall, HandlesNameTheirKey
  <2> QED BY <1>0, <2>1, <2>2, <2>3, <2>4, <2>5, IInvIs, TypedCall
<1>6. ASSUME NEW s \in given \cup {0}, RegDeleteTreeOf(s) PROVE IInv'
  <2>1. InCall /\ UNCHANGED <<reg, given, names>> /\ tree' = <<Frame(s, Root, FALSE)>>
    BY <1>1, <1>6 DEF RegDeleteTreeOf
  <2>2. Root \in Seq(Spellings)
    BY DEF Root
  <2>3. tree' \in Seq(Frames)
    BY <1>0, <2>1, <2>2, FrameIs
  <2>4. HandlesNameTheirKey'
    BY <2>1 DEF IInv, InCall, HandlesNameTheirKey
  <2> QED BY <1>0, <2>1, <2>3, <2>4, IInvIs, TypedCall
<1>7. ASSUME NEW s \in given \cup {0}, NEW n \in Names, RegDeleteValue(s, n) PROVE IInv'
  <2>1. /\ InCall /\ UNCHANGED <<tree, given, names>> /\ Has(reg[s].vals, n)
        /\ reg' = [reg EXCEPT ![s].vals = Drop(reg[s].vals, n)]
    BY <1>1, <1>7 DEF RegDeleteValue
  <2>2. reg[s].vals \in Seq(ValueType) /\ s \in 0 .. NSlots
    BY <1>0 DEF Table, KeyType, ValueType
  <2>3. Drop(reg[s].vals, n) \in Seq(ValueType)
    BY <2>1, <2>2, DropIs
  <2>4. ~ twins => Distinct(Drop(reg[s].vals, n))
    BY <2>1, <2>2, DropDistinct, IInvIs DEF OnePlace
  <2> QED BY <2>1, <2>2, <2>3, <2>4, ValuesOK
<1>8. ASSUME NEW s \in given \cup {0}, NEW n \in Names, NEW d \in Datas, RegSetValueEx(s, n, d)
      PROVE  IInv'
  <2> DEFINE vs == reg[s].vals
             again == ~ Has(vs, n) /\ Has(vs, Shortened[n])
  <2>1. /\ ready /\ UNCHANGED <<ready, file, life, tree, given, names>>
        /\ reg' = [reg EXCEPT ![s].vals = Put(vs, n, d)] /\ twins' = (twins \/ again)
    BY <1>8 DEF RegSetValueEx, Calls, process
  <2>2. vs \in Seq(ValueType) /\ s \in 0 .. NSlots /\ twins \in BOOLEAN
    BY <1>0 DEF Table, KeyType, ValueType, IInv, TypeInv
  <2>3. /\ Put(vs, n, d) \in Seq(ValueType)
        /\ ~ twins /\ ~ again => Distinct(Put(vs, n, d))
    BY <2>2, PutIs, IInvIs DEF OnePlace
  <2>4. CASE again
    BY <2>1, <2>2, <2>3, <2>4, TwinOK
  <2>5. CASE ~ again
    <3>1. InCall
      BY <2>1, <2>2, <2>5 DEF InCall
    <3> QED BY <2>1, <2>2, <2>3, <2>5, <3>1, ValuesOK
  <2> QED BY <2>4, <2>5
<1> QED BY <1>2, <1>3, <1>4, <1>5, <1>6, <1>7, <1>8, ValuesAre DEF Call

LEMMA TreeOK == ASSUME IInv, DeletesTree PROVE IInv'
<1>0. /\ reg \in Table /\ given \subseteq Slots /\ names \subseteq given \X Seq(Spellings)
      /\ tree \in Seq(Frames)
  BY DEF IInv, TypeInv
<1>1. tree # <<>> /\ ready
  BY DEF DeletesTree, TreeChild, TreeStuck, TreeDone, IInv, FreshOK
<1>2. CASE TreeChild
  <2> DEFINE p == reg[FirstChild(0, Root)].path
  <2>1. PICK o \in Opened(reg, p) : tree' = Append(tree, Frame(o[1], p, TRUE))
    BY <1>2 DEF TreeChild
  <2>2. FirstChild(0, Root) \in 0 .. NSlots
    BY <1>2, FirstChildIs, Slots1 DEF TreeChild
  <2>3. p \in Seq(Spellings)
    BY <1>0, <2>2 DEF Table, KeyType
  <2> HIDE DEF p
  <2>4. o[1] \in 0 .. NSlots
    BY <1>0, <2>3, Opening, Slots1
  <2>5. tree' \in Seq(Frames)
    BY <1>0, <2>1, <2>3, <2>4, FrameIs
  <2>6. InCall /\ UNCHANGED <<reg, given, names>>
    BY <1>1, <1>2 DEF TreeChild, InCall, process
  <2>7. HandlesNameTheirKey'
    BY <2>6 DEF IInv, InCall, HandlesNameTheirKey
  <2> QED BY <1>0, <2>5, <2>6, <2>7, IInvIs, TypedCall
<1>3. CASE TreeStuck
  BY <1>3 DEF TreeStuck, vars, IInv, TypeInv, FreshOK, OneSlotPerKey, HandlesNameTheirKey
<1>4. CASE TreeDone
  <2>1. tree' \in Seq(Frames) /\ Top.path \in Seq(Spellings)
    BY <1>1, <1>4, TopIs DEF TreeDone, Frames
  <2>2. InCall /\ UNCHANGED given
    BY <1>1, <1>4 DEF TreeDone, InCall, process
  <2>3. CASE Top.self
    <3>1. Forget(Top.path)
      BY <1>4, <2>3 DEF TreeDone
    <3> QED BY <2>1, <2>2, <3>1, ForgetOK
  <2>4. CASE ~ Top.self
    <3>1. UNCHANGED <<reg, names>>
      BY <1>4, <2>4 DEF TreeDone
    <3>2. HandlesNameTheirKey'
      BY <2>2, <3>1 DEF IInv, InCall, HandlesNameTheirKey
    <3> QED BY <1>0, <2>1, <2>2, <3>1, <3>2, IInvIs, TypedCall
  <2> QED BY <2>3, <2>4
<1> QED BY <1>2, <1>3, <1>4 DEF DeletesTree

LEMMA StepOK == IInv /\ [Next]_vars => IInv'
<1> SUFFICES ASSUME IInv, [Next]_vars PROVE IInv'
  OBVIOUS
<1>0. /\ reg \in Table /\ file \in Seq(KeyType) /\ Len(file) <= NSlots
  BY DEF IInv, TypeInv
<1>1. Records \in Seq(KeyType) /\ Len(Records) <= NSlots
  BY <1>0, RecordsAre, Slots1
<1>2. CASE ExitProcess
  <2>1. TypeInv'
    BY <1>1, <1>2 DEF ExitProcess, IInv, TypeInv
  <2> QED BY <1>2, <2>1 DEF ExitProcess, IInv, FreshOK, OneSlotPerKey, HandlesNameTheirKey
<1>3. CASE Exits
  BY <1>0, <1>3, ProcessOK DEF Exits
<1>4. CASE MainReturns
  BY <1>0, <1>1, <1>4, ProcessOK DEF MainReturns
<1>5. CASE Killed
  BY <1>0, <1>5, ProcessOK DEF Killed
<1>6. CASE SaveStops
  <2>1. PICK i \in Slots :
           \/ NewProcess(SubSeq(Records, 1, i - 1))
           \/ \E k \in CutShort(reg[i]) : NewProcess(Append(SubSeq(Records, 1, i - 1), k))
    BY <1>6 DEF SaveStops
  <2> DEFINE f == SubSeq(Records, 1, i - 1)
  <2>2. f \in Seq(KeyType) /\ Len(f) = i - 1
    BY <1>0, StoppedAt
  <2>3. i \in 1 .. NSlots /\ NSlots \in Nat /\ reg[i] \in KeyType
    BY <1>0, Slots1 DEF Slots, Table
  <2> HIDE DEF f
  <2>4. CASE NewProcess(f)
    BY <2>2, <2>3, <2>4, ProcessOK
  <2>5. ASSUME NEW k \in CutShort(reg[i]), NewProcess(Append(f, k)) PROVE IInv'
    <3>1. k \in KeyType
      <4>1. reg[i] \in KeyType /\ k \in CutShort(reg[i])
        BY <2>3, <2>5
      <4> QED BY <4>1, CutIs
    <3>2. Append(f, k) \in Seq(KeyType) /\ Len(Append(f, k)) = (i - 1) + 1
      BY <2>2, <3>1
    <3>3. (i - 1) + 1 <= NSlots
      BY <2>3
    <3> QED BY <2>5, <3>2, <3>3, ProcessOK
  <2> QED BY <2>1, <2>4, <2>5 DEF f
<1>7. CASE UNCHANGED vars
  BY <1>7 DEF vars, IInv, TypeInv, FreshOK, OneSlotPerKey, HandlesNameTheirKey
<1> QED BY <1>2, <1>3, <1>4, <1>5, <1>6, <1>7, LoadOK, CallOK, TreeOK DEF Next

LEMMA IInvHolds == Spec => []IInv
<1>1. IInv /\ [Next]_vars => IInv'
  BY StepOK
<1> QED BY <1>1, StartsOK, PTL DEF Spec

(* Every slot and every record keeps its type, and no two slots hold one key *)
(* nor two values of a key one name: a key is looked for before a slot is    *)
(* claimed, a value before one is appended (loader.c 12613-12735, 12746).    *)
THEOREM TableIsRight == Spec => []KeyTableOK
<1>1. IInv => KeyTableOK
  <2> SUFFICES ASSUME IInv PROVE TypeOK
    BY DEF IInv, KeyTableOK
  <2>1. /\ reg \in [0 .. NSlots -> KeyType] /\ \A i \in DOMAIN file : file[i] \in KeyType
        /\ \A i \in DOMAIN tree : tree[i] \in Frames
    BY DEF IInv, TypeInv, Table
  <2>2. \A h \in names : h[1] \in given
    BY DEF IInv, TypeInv
  <2>3. \A i \in DOMAIN tree : tree[i].slot \in 0 .. NSlots /\ tree[i].path \in Seq(Spellings)
    BY <2>1 DEF Frames
  <2> QED BY <2>1, <2>2, <2>3 DEF IInv, TypeInv, TypeOK
<1> QED BY <1>1, IInvHolds, PTL

(* A handle, a bare slot number, names the key it was given for until that   *)
(* key is deleted, whatever is opened, created or deleted meanwhile.         *)
THEOREM HandlesStayTrue == Spec => []HandlesNameTheirKey
<1>1. IInv => HandlesNameTheirKey
  BY DEF IInv
<1> QED BY <1>1, IInvHolds, PTL
-----------------------------------------------------------------------------
(* The values of a key, as the guest sees them                               *)

LEMMA ValuedIs ==
  ASSUME NEW vs \in Seq(ValueType)
  PROVE  /\ DOMAIN Valued(vs) = {vs[i].name : i \in DOMAIN vs}
         /\ Valued(vs) = [n \in DOMAIN Valued(vs) |-> Valued(vs)[n]]
         /\ Valued(vs) \in Promise!Values
         /\ Distinct(vs) => \A i \in DOMAIN vs : Valued(vs)[vs[i].name] = vs[i].data
<1> DEFINE ns == {vs[i].name : i \in DOMAIN vs}
           First(n) == CHOOSE i \in DOMAIN vs : IsFirst(vs, i, n)
<1>1. Valued(vs) = [n \in ns |-> vs[First(n)].data]
  BY DEF Valued
<1>2. \A i \in DOMAIN vs : vs[i] \in ValueType
  OBVIOUS
<1>3. \A n \in ns : First(n) \in DOMAIN vs /\ IsFirst(vs, First(n), n)
  <2> TAKE n \in ns
  <2>1. Has(vs, n)
    BY DEF Has
  <2>2. \E i \in DOMAIN vs : IsFirst(vs, i, n)
    BY <2>1, FirstIs
  <2> QED BY <2>2
<1> HIDE DEF First
<1>4. Valued(vs) \in Promise!Values
  <2>1. ns \in SUBSET Names
    BY <1>2 DEF ValueType
  <2>2. Valued(vs) \in [ns -> Datas]
    BY <1>1, <1>2, <1>3 DEF ValueType
  <2> QED BY <2>1, <2>2 DEF Promise!Values
<1>5. ASSUME Distinct(vs), NEW i \in DOMAIN vs PROVE Valued(vs)[vs[i].name] = vs[i].data
  <2>1. vs[i].name \in ns
    BY <1>5
  <2>2. First(vs[i].name) = i
    BY <1>3, <1>5, <2>1 DEF Distinct, IsFirst
  <2> QED BY <1>1, <2>1, <2>2
<1> QED BY <1>1, <1>4, <1>5

LEMMA ValuedEmpty == Valued(<<>>) = Promise!Nil /\ Promise!Nil = <<>>
<1>1. {n \in {} : TRUE} = {} /\ DOMAIN <<>> = {}
  OBVIOUS
<1>2. {<<>>[i].name : i \in DOMAIN <<>>} = {}
  OBVIOUS
<1>3. Valued(<<>>) = Promise!Nil
  BY <1>2 DEF Valued, Promise!Nil
<1>4. Promise!Nil = <<>>
  BY DEF Promise!Nil
<1> QED BY <1>3, <1>4

(* A function is the values of a list without repetitions if it has the      *)
(* same names, and their data.                                               *)
LEMMA ValuedUnique ==
  ASSUME NEW vs \in Seq(ValueType), Distinct(vs), NEW f,
         f = [n \in DOMAIN f |-> f[n]], DOMAIN f = {vs[i].name : i \in DOMAIN vs},
         \A i \in DOMAIN vs : f[vs[i].name] = vs[i].data
  PROVE  Valued(vs) = f
<1>1. /\ DOMAIN Valued(vs) = {vs[i].name : i \in DOMAIN vs}
      /\ Valued(vs) = [n \in DOMAIN Valued(vs) |-> Valued(vs)[n]]
      /\ \A i \in DOMAIN vs : Valued(vs)[vs[i].name] = vs[i].data
  BY ValuedIs
<1>2. \A n \in DOMAIN f : Valued(vs)[n] = f[n]
  BY <1>1
<1> QED BY <1>1, <1>2

(* The value that is set: the one of that name, or of what is stored of it.  *)
NameSet(vs, n) == IF Has(vs, n) THEN n ELSE Shortened[n]

LEMMA ValuedPut ==
  ASSUME NEW vs \in Seq(ValueType), Distinct(vs), NEW n \in Names, NEW d \in Datas,
         Has(vs, n) \/ ~ Has(vs, Shortened[n])
  PROVE  Valued(Put(vs, n, d)) = Promise!With(Valued(vs), NameSet(vs, n), d)
<1> DEFINE m == NameSet(vs, n)
           w == Put(vs, n, d)
           f == Promise!With(Valued(vs), m, d)
<1>1. w \in Seq(ValueType) /\ Distinct(w)
  BY PutIs
<1>2. /\ DOMAIN Valued(vs) = {vs[i].name : i \in DOMAIN vs}
      /\ \A i \in DOMAIN vs : Valued(vs)[vs[i].name] = vs[i].data
  BY ValuedIs
<1>3. /\ DOMAIN f = DOMAIN Valued(vs) \union {m} /\ f[m] = d
      /\ \A x \in DOMAIN Valued(vs) \ {m} : f[x] = Valued(vs)[x]
      /\ f = [x \in DOMAIN f |-> f[x]]
  BY DEF Promise!With
<1>4. Value(m, d).name = m /\ Value(m, d).data = d
  BY DEF Value
<1>0. m = IF Has(vs, n) THEN n ELSE Shortened[n]
  BY DEF NameSet
<1> HIDE DEF f, m
<1>5. CASE Has(vs, n)
  <2>0. m = n /\ Has(vs, m)
    BY <1>0, <1>5
  <2>1. w = [i \in DOMAIN vs |-> IF IsFirst(vs, i, m) THEN Value(m, d) ELSE vs[i]]
    BY <1>5, <2>0 DEF Put
  <2> HIDE DEF w
  <2>2. DOMAIN w = DOMAIN vs /\ \A i \in DOMAIN vs : w[i].name = vs[i].name
    BY <1>4, <2>1 DEF IsFirst
  <2>3. m \in DOMAIN Valued(vs)
    BY <1>2, <2>0 DEF Has
  <2>4. DOMAIN f = {w[i].name : i \in DOMAIN w}
    BY <1>2, <1>3, <2>2, <2>3
  <2>5. ASSUME NEW i \in DOMAIN w PROVE f[w[i].name] = w[i].data
    <3>1. CASE vs[i].name = m
      <4>1. IsFirst(vs, i, m)
        BY <2>0, <2>2, <2>5, <3>1, FirstIs DEF IsFirst, Distinct
      <4>2. w[i] = Value(m, d)
        BY <2>1, <2>2, <2>5, <4>1
      <4> QED BY <1>3, <1>4, <4>2
    <3>2. CASE vs[i].name # m
      <4>0. ~ IsFirst(vs, i, m)
        BY <3>2 DEF IsFirst
      <4>1. w[i] = vs[i]
        BY <2>1, <2>2, <2>5, <4>0
      <4> QED BY <1>2, <1>3, <2>2, <2>5, <3>2, <4>1
    <3> QED BY <3>1, <3>2
  <2>6. Valued(w) = f
    BY <1>1, <1>3, <2>4, <2>5, ValuedUnique
  <2> QED BY <2>6 DEF w, f, m
<1>6. CASE ~ Has(vs, n)
  <2>0. m = Shortened[n] /\ ~ Has(vs, m)
    BY <1>0, <1>6
  <2>1. w = Append(vs, Value(m, d))
    BY <1>6, <2>0 DEF Put
  <2> HIDE DEF w
  <2>2. /\ DOMAIN vs = 1 .. Len(vs) /\ Len(vs) \in Nat /\ DOMAIN w = 1 .. Len(vs) + 1
        /\ \A i \in 1 .. Len(vs) : w[i] = vs[i]
        /\ w[Len(vs) + 1] = Value(m, d)
    BY <1>1, <2>1
  <2>3. \A i \in 1 .. Len(vs) + 1 : i = Len(vs) + 1 \/ i \in 1 .. Len(vs)
    BY <2>2
  <2>4. \A i \in 1 .. Len(vs) : vs[i].name # m /\ i \in 1 .. Len(vs) + 1
    BY <2>0, <2>2 DEF Has
  <2>5. DOMAIN f = {w[i].name : i \in DOMAIN w}
    <3>1. Len(vs) + 1 \in DOMAIN w
      BY <2>2
    <3>2. \A x : x \in DOMAIN f => \E i \in DOMAIN w : x = w[i].name
      BY <1>2, <1>3, <1>4, <2>2, <2>4, <3>1
    <3>3. \A i \in DOMAIN w : w[i].name \in DOMAIN f
      BY <1>2, <1>3, <1>4, <2>2, <2>3
    <3> QED BY <3>2, <3>3
  <2>6. \A i \in DOMAIN w : f[w[i].name] = w[i].data
    BY <1>2, <1>3, <1>4, <2>2, <2>3, <2>4
  <2>7. Valued(w) = f
    BY <1>1, <1>3, <2>5, <2>6, ValuedUnique
  <2> QED BY <2>7 DEF w, f, m
<1> QED BY <1>5, <1>6

LEMMA ValuedDrop ==
  ASSUME NEW vs \in Seq(ValueType), Distinct(vs), NEW n, Has(vs, n)
  PROVE  Valued(Drop(vs, n)) = Promise!Without(Valued(vs), n)
<1> DEFINE w == Drop(vs, n)
           f == Promise!Without(Valued(vs), n)
<1>1. PICK i \in DOMAIN vs :
           /\ IsFirst(vs, i, n)
           /\ w \in Seq(ValueType) /\ Len(w) = Len(vs) - 1
           /\ \A j \in 1 .. Len(vs) - 1 : w[j] = vs[IF j < i THEN j ELSE j + 1]
  BY DropIs
<1>2. /\ DOMAIN Valued(vs) = {vs[j].name : j \in DOMAIN vs}
      /\ \A j \in DOMAIN vs : Valued(vs)[vs[j].name] = vs[j].data
  BY ValuedIs
<1>3. /\ DOMAIN f = DOMAIN Valued(vs) \ {n} /\ f = [x \in DOMAIN f |-> f[x]]
      /\ \A x \in DOMAIN f : f[x] = Valued(vs)[x]
  BY DEF Promise!Without
<1>4. Distinct(w)
  BY DropDistinct
<1>5. DOMAIN vs = 1 .. Len(vs) /\ Len(vs) \in Nat /\ DOMAIN w = 1 .. Len(vs) - 1 /\ i \in Nat
  BY <1>1
<1> HIDE DEF w, f
<1>6. \A j \in DOMAIN w : \E k \in DOMAIN vs \ {i} : w[j] = vs[k]
  <2> TAKE j \in DOMAIN w
  <2> DEFINE k == IF j < i THEN j ELSE j + 1
  <2>1. k \in DOMAIN vs \ {i}
    BY <1>1, <1>5
  <2> QED BY <1>1, <1>5, <2>1
<1>7. \A k \in DOMAIN vs \ {i} : \E j \in DOMAIN w : w[j] = vs[k]
  <2> TAKE k \in DOMAIN vs \ {i}
  <2> DEFINE j == IF k < i THEN k ELSE k - 1
  <2>1. j \in DOMAIN w /\ (IF j < i THEN j ELSE j + 1) = k
    BY <1>1, <1>5
  <2> QED BY <1>1, <1>5, <2>1
<1>8. \A k \in DOMAIN vs : vs[k].name = n <=> k = i
  BY <1>1 DEF IsFirst, Distinct
<1>9. DOMAIN f = {w[j].name : j \in DOMAIN w}
  BY <1>2, <1>3, <1>6, <1>7, <1>8
<1>10. \A j \in DOMAIN w : f[w[j].name] = w[j].data
  BY <1>2, <1>3, <1>6, <1>8, <1>9
<1>11. Valued(w) = f
  BY <1>1, <1>3, <1>4, <1>9, <1>10, ValuedUnique
<1> QED BY <1>11 DEF w, f
-----------------------------------------------------------------------------
(* The keys of a table, as the guest sees them                               *)

Live(r) == {s \in DOMAIN r \ {0} : r[s].live}
Folded(r) == {Fold(r[s].path) : s \in Live(r)}
Leads(r, s) == s \in Live(r) /\ \A t \in Live(r) : Fold(r[t].path) = Fold(r[s].path) => s <= t

LEMMA KeysAre ==
  ASSUME NEW m \in Nat, NEW r \in [0 .. m -> KeyType]
  PROVE  /\ DOMAIN Keys(r) = Folded(r)
         /\ Keys(r) = [p \in DOMAIN Keys(r) |-> Keys(r)[p]]
         /\ \A s \in Live(r) : Leads(r, s) => Keys(r)[Fold(r[s].path)] = Valued(r[s].vals)
         /\ \A p \in Folded(r) : \E s \in Live(r) : Leads(r, s) /\ Fold(r[s].path) = p
<1> DEFINE First(p) == CHOOSE s \in Live(r) : /\ Fold(r[s].path) = p
                                             /\ \A t \in Live(r) : Fold(r[t].path) = p => s <= t
<1>1. Keys(r) = [p \in Folded(r) |-> Valued(r[First(p)].vals)]
  BY DEF Keys, Live, Folded
<1>2. Live(r) \in SUBSET Nat
  BY DEF Live
<1>3. \A p \in Folded(r) : \E s \in Live(r) :
        Fold(r[s].path) = p /\ \A t \in Live(r) : Fold(r[t].path) = p => s <= t
  <2> TAKE p \in Folded(r)
  <2> DEFINE T == {s \in Live(r) : Fold(r[s].path) = p}
  <2>1. T \in SUBSET Nat /\ T # {}
    BY <1>2 DEF Folded
  <2>2. PICK s \in T : \A t \in T : s <= t
    BY <2>1, Least
  <2> QED BY <2>2
<1>4. \A p \in Folded(r) : /\ First(p) \in Live(r) /\ Fold(r[First(p)].path) = p
                           /\ \A t \in Live(r) : Fold(r[t].path) = p => First(p) <= t
  <2> TAKE p \in Folded(r)
  <2> QED BY <1>3
<1> HIDE DEF First
<1>5. ASSUME NEW s \in Live(r), Leads(r, s)
      PROVE  Keys(r)[Fold(r[s].path)] = Valued(r[s].vals)
  <2>1. Fold(r[s].path) \in Folded(r)
    BY <1>5 DEF Folded
  <2>2. First(Fold(r[s].path)) <= s /\ s <= First(Fold(r[s].path))
    BY <1>4, <1>5, <2>1 DEF Leads
  <2>3. First(Fold(r[s].path)) = s
    BY <1>2, <1>4, <1>5, <2>1, <2>2
  <2> QED BY <1>1, <2>1, <2>3
<1>6. \A p \in Folded(r) : \E s \in Live(r) : Leads(r, s) /\ Fold(r[s].path) = p
  BY <1>3 DEF Leads
<1> QED BY <1>1, <1>5, <1>6

(* A function is a table's keys if it has the same paths, and the values of  *)
(* the slot that leads.                                                      *)
LEMMA KeysUnique ==
  ASSUME NEW m \in Nat, NEW r \in [0 .. m -> KeyType], NEW f,
         f = [p \in DOMAIN f |-> f[p]], DOMAIN f = Folded(r),
         \A s \in Live(r) : Leads(r, s) => f[Fold(r[s].path)] = Valued(r[s].vals)
  PROVE  Keys(r) = f
<1>1. /\ DOMAIN Keys(r) = Folded(r)
      /\ Keys(r) = [p \in DOMAIN Keys(r) |-> Keys(r)[p]]
      /\ \A s \in Live(r) : Leads(r, s) => Keys(r)[Fold(r[s].path)] = Valued(r[s].vals)
      /\ \A p \in Folded(r) : \E s \in Live(r) : Leads(r, s) /\ Fold(r[s].path) = p
  BY KeysAre
<1>2. \A p \in DOMAIN f : Keys(r)[p] = f[p]
  BY <1>1
<1> QED BY <1>1, <1>2

LEMMA SameKeys ==
  ASSUME NEW m \in Nat, NEW r \in [0 .. m -> KeyType], NEW k \in Nat, NEW q \in [0 .. k -> KeyType],
         Live(q) = Live(r), \A s \in Live(r) : q[s].path = r[s].path /\ q[s].vals = r[s].vals
  PROVE  Keys(q) = Keys(r)
<1>1. Folded(q) = Folded(r) /\ \A s \in Live(r) : Leads(q, s) <=> Leads(r, s)
  BY DEF Folded, Leads
<1>2. /\ DOMAIN Keys(r) = Folded(r)
      /\ Keys(r) = [p \in DOMAIN Keys(r) |-> Keys(r)[p]]
      /\ \A s \in Live(r) : Leads(r, s) => Keys(r)[Fold(r[s].path)] = Valued(r[s].vals)
  BY KeysAre
<1> QED BY <1>1, <1>2, KeysUnique

LEMMA LiveIs ==
  ASSUME NEW r \in Table
  PROVE  Live(r) = {s \in Slots : r[s].live}
BY Slots1 DEF Live, Table

(* In a table with one slot for a key each of them leads.                    *)
LEMMA OneLeads ==
  ASSUME NEW r \in Table, OnePlace(r)
  PROVE  /\ \A s, t \in Live(r) : Fold(r[s].path) = Fold(r[t].path) => s = t
         /\ \A s \in Live(r) : Leads(r, s)
<1>1. \A s, t \in Live(r) : Fold(r[s].path) = Fold(r[t].path) => s = t
  BY LiveIs DEF OnePlace, Same
<1>2. \A s \in Live(r) : s <= s
  <2> TAKE s \in Live(r)
  <2>1. s \in Nat
    BY LiveIs DEF Slots
  <2> QED BY <2>1
<1> QED BY <1>1, <1>2 DEF Leads

LEMMA OneKeysAre ==
  ASSUME NEW r \in Table, OnePlace(r)
  PROVE  /\ DOMAIN Keys(r) = Folded(r)
         /\ Keys(r) = [p \in DOMAIN Keys(r) |-> Keys(r)[p]]
         /\ \A s \in Live(r) : Keys(r)[Fold(r[s].path)] = Valued(r[s].vals)
BY OneLeads, KeysAre, Slots1 DEF Table

LEMMA OneKeysUnique ==
  ASSUME NEW r \in Table, OnePlace(r), NEW f,
         f = [p \in DOMAIN f |-> f[p]], DOMAIN f = Folded(r),
         \A s \in Live(r) : f[Fold(r[s].path)] = Valued(r[s].vals)
  PROVE  Keys(r) = f
<1>1. /\ DOMAIN Keys(r) = Folded(r)
      /\ Keys(r) = [p \in DOMAIN Keys(r) |-> Keys(r)[p]]
      /\ \A s \in Live(r) : Keys(r)[Fold(r[s].path)] = Valued(r[s].vals)
  BY OneKeysAre
<1>2. \A p \in DOMAIN f : Keys(r)[p] = f[p]
  BY <1>1 DEF Folded
<1> QED BY <1>1, <1>2

(* A slot more, for a key no slot held.                                      *)
LEMMA KeysMore ==
  ASSUME NEW r \in Table, NEW q \in Table, OnePlace(q), OnePlace(r),
         NEW s \in Slots, ~ r[s].live, q[s].live, \A t \in Slots \ {s} : q[t] = r[t]
  PROVE  /\ Keys(q) = Promise!With(Keys(r), Fold(q[s].path), Valued(q[s].vals))
         /\ Fold(q[s].path) \notin DOMAIN Keys(r)
<1> DEFINE f == Promise!With(Keys(r), Fold(q[s].path), Valued(q[s].vals))
           p == Fold(q[s].path)
<1>1. Live(q) = Live(r) \union {s} /\ s \notin Live(r) /\ \A t \in Live(r) : q[t] = r[t]
  BY LiveIs
<1>2. /\ DOMAIN Keys(r) = Folded(r)
      /\ \A t \in Live(r) : Keys(r)[Fold(r[t].path)] = Valued(r[t].vals)
  BY OneKeysAre
<1>3. \A t \in Live(r) : Fold(r[t].path) # p
  BY <1>1, OneLeads
<1>4. p \notin Folded(r) /\ Folded(q) = Folded(r) \union {p}
  BY <1>1, <1>3 DEF Folded
<1>5. /\ DOMAIN f = Folded(q) /\ f = [x \in DOMAIN f |-> f[x]]
      /\ f[p] = Valued(q[s].vals)
      /\ \A x \in Folded(r) : f[x] = Keys(r)[x]
  BY <1>2, <1>4 DEF Promise!With
<1> HIDE DEF f
<1>6. \A t \in Live(q) : f[Fold(q[t].path)] = Valued(q[t].vals)
  <2> TAKE t \in Live(q)
  <2>1. CASE t = s
    BY <1>5, <2>1
  <2>2. CASE t \in Live(r)
    <3>1. q[t] = r[t] /\ Fold(r[t].path) \in Folded(r)
      BY <1>1, <2>2 DEF Folded
    <3> QED BY <1>2, <1>5, <2>2, <3>1
  <2> QED BY <1>1, <2>1, <2>2
<1>7. Keys(q) = f
  BY <1>5, <1>6, OneKeysUnique
<1> QED BY <1>2, <1>4, <1>7 DEF f

(* A slot's values are others.                                               *)
LEMMA KeysChanged ==
  ASSUME NEW r \in Table, NEW q \in Table, OnePlace(q), OnePlace(r),
         NEW s \in Slots, r[s].live, \A t \in Slots \ {s} : q[t] = r[t],
         q[s].live, q[s].path = r[s].path
  PROVE  /\ Fold(r[s].path) \in DOMAIN Keys(r)
         /\ Keys(r)[Fold(r[s].path)] = Valued(r[s].vals)
         /\ Keys(q) = [Keys(r) EXCEPT ![Fold(r[s].path)] = Valued(q[s].vals)]
<1> DEFINE p == Fold(r[s].path)
           f == [Keys(r) EXCEPT ![p] = Valued(q[s].vals)]
<1>1. s \in Live(r) /\ Live(q) = Live(r) /\ \A t \in Live(r) : q[t].path = r[t].path
  BY LiveIs
<1>2. /\ DOMAIN Keys(r) = Folded(r)
      /\ \A t \in Live(r) : Keys(r)[Fold(r[t].path)] = Valued(r[t].vals)
  BY OneKeysAre
<1>3. p \in Folded(r) /\ Folded(q) = Folded(r)
  BY <1>1 DEF Folded
<1>4. /\ DOMAIN f = Folded(q) /\ f = [x \in DOMAIN f |-> f[x]]
      /\ f[p] = Valued(q[s].vals)
      /\ \A x \in Folded(r) \ {p} : f[x] = Keys(r)[x]
  BY <1>2, <1>3
<1> HIDE DEF f
<1>5. \A t \in Live(q) : f[Fold(q[t].path)] = Valued(q[t].vals)
  <2> TAKE t \in Live(q)
  <2>1. CASE t = s
    BY <1>4, <1>1, <2>1
  <2>2. CASE t # s
    <3>1. q[t] = r[t] /\ Fold(r[t].path) \in Folded(r) /\ t \in Live(r)
      BY <1>1, <2>2, LiveIs DEF Folded
    <3>2. Fold(r[t].path) # p
      BY <1>1, <2>2, <3>1, OneLeads
    <3> QED BY <1>2, <1>4, <3>1, <3>2
  <2> QED BY <2>1, <2>2
<1>6. Keys(q) = f
  BY <1>4, <1>5, OneKeysUnique
<1> QED BY <1>1, <1>2, <1>3, <1>6 DEF f

(* A slot less.                                                              *)
LEMMA KeysLess ==
  ASSUME NEW r \in Table, NEW q \in Table, OnePlace(q), OnePlace(r),
         NEW s \in Slots, r[s].live, ~ q[s].live, \A t \in Slots \ {s} : q[t] = r[t]
  PROVE  /\ Fold(r[s].path) \in DOMAIN Keys(r)
         /\ Keys(q) = Promise!Without(Keys(r), Fold(r[s].path))
<1> DEFINE p == Fold(r[s].path)
           f == Promise!Without(Keys(r), p)
<1>1. s \in Live(r) /\ Live(q) = Live(r) \ {s} /\ \A t \in Live(q) : q[t] = r[t]
  BY LiveIs
<1>2. /\ DOMAIN Keys(r) = Folded(r)
      /\ \A t \in Live(r) : Keys(r)[Fold(r[t].path)] = Valued(r[t].vals)
  BY OneKeysAre
<1>3. \A t \in Live(q) : Fold(q[t].path) # p
  BY <1>1, OneLeads
<1>4. p \in Folded(r) /\ Folded(q) = Folded(r) \ {p}
  BY <1>1, <1>3 DEF Folded
<1>5. /\ DOMAIN f = Folded(q) /\ f = [x \in DOMAIN f |-> f[x]]
      /\ \A x \in Folded(q) : f[x] = Keys(r)[x]
  BY <1>2, <1>4 DEF Promise!Without
<1> HIDE DEF f
<1>6. \A t \in Live(q) : f[Fold(q[t].path)] = Valued(q[t].vals)
  BY <1>1, <1>2, <1>5 DEF Folded
<1>7. Keys(q) = f
  BY <1>5, <1>6, OneKeysUnique
<1> QED BY <1>2, <1>4, <1>7 DEF f
-----------------------------------------------------------------------------
(* The keys of a file                                                        *)

FileTable(f) == [s \in 0 .. Len(f) |-> IF s = 0 THEN FreeSlot ELSE f[s]]

LEMMA FileTableIs ==
  ASSUME NEW f \in Seq(KeyType)
  PROVE  /\ FileKeys(f) = Keys(FileTable(f)) /\ Len(f) \in Nat
         /\ FileTable(f) \in [0 .. Len(f) -> KeyType]
         /\ Live(FileTable(f)) = {i \in DOMAIN f : f[i].live}
         /\ \A i \in DOMAIN f : FileTable(f)[i] = f[i]
<1>1. DOMAIN f = 1 .. Len(f) /\ Len(f) \in Nat /\ \A i \in DOMAIN f : f[i] \in KeyType
  OBVIOUS
<1>2. /\ FileTable(f) \in [0 .. Len(f) -> KeyType]
      /\ \A i \in 1 .. Len(f) : i \in 0 .. Len(f) /\ FileTable(f)[i] = f[i]
  <2>1. \A i \in 0 .. Len(f) : i # 0 => i \in 1 .. Len(f)
    BY <1>1
  <2>2. \A i \in 1 .. Len(f) : i \in 0 .. Len(f) /\ i # 0
    BY <1>1
  <2> QED BY <1>1, <2>1, <2>2, EmptyIs DEF FileTable
<1>3. DOMAIN FileTable(f) \ {0} = DOMAIN f
  BY <1>1, <1>2
<1>4. Live(FileTable(f)) = {i \in DOMAIN f : f[i].live}
  BY <1>1, <1>2, <1>3 DEF Live
<1>5. FileKeys(f) = Keys(FileTable(f))
  BY DEF FileKeys, FileTable
<1> QED BY <1>1, <1>2, <1>4, <1>5

(* A file with the records of a table has its keys.                          *)
LEMMA FileKeysAre ==
  ASSUME NEW f \in Seq(KeyType), NEW r \in Table,
         {i \in DOMAIN f : f[i].live} = Live(r), \A s \in Live(r) : f[s] = r[s]
  PROVE  FileKeys(f) = Keys(r)
<1> DEFINE q == FileTable(f)
<1>1. /\ FileKeys(f) = Keys(q) /\ Len(f) \in Nat /\ q \in [0 .. Len(f) -> KeyType]
      /\ Live(q) = Live(r) /\ \A i \in DOMAIN f : q[i] = f[i]
  BY FileTableIs
<1>2. \A s \in Live(r) : q[s] = r[s]
  BY <1>1
<1> HIDE DEF q
<1>3. Keys(q) = Keys(r)
  BY <1>1, <1>2, SameKeys, Slots1 DEF Table
<1> QED BY <1>1, <1>3

(* A record more: of a key the file has already, it is never seen.           *)
LEMMA FileKeysMore ==
  ASSUME NEW f \in Seq(KeyType), NEW k \in KeyType, k.live
  PROVE  FileKeys(Append(f, k)) =
           IF Fold(k.path) \in DOMAIN FileKeys(f) THEN FileKeys(f)
           ELSE Promise!With(FileKeys(f), Fold(k.path), Valued(k.vals))
<1> DEFINE g == Append(f, k)
           r == FileTable(f)
           q == FileTable(g)
           n == Len(f)
           p == Fold(k.path)
<1>1. /\ g \in Seq(KeyType) /\ Len(g) = n + 1 /\ n \in Nat /\ DOMAIN g = 1 .. n + 1
      /\ DOMAIN f = 1 .. n /\ \A i \in 1 .. n : g[i] = f[i]
      /\ g[n + 1] = k
  OBVIOUS
<1>2. /\ \A i \in 1 .. n + 1 : i = n + 1 \/ i \in 1 .. n
      /\ n + 1 \notin 1 .. n /\ 1 .. n \subseteq 1 .. n + 1
      /\ \A i \in 1 .. n : i <= n + 1 /\ ~ (n + 1 <= i)
  BY <1>1
<1> HIDE DEF g, n
<1>3. /\ FileKeys(f) = Keys(r) /\ r \in [0 .. n -> KeyType]
      /\ Live(r) = {i \in DOMAIN f : f[i].live} /\ \A i \in DOMAIN f : r[i] = f[i]
  BY FileTableIs DEF n
<1>4. /\ FileKeys(g) = Keys(q) /\ q \in [0 .. n + 1 -> KeyType]
      /\ Live(q) = {i \in DOMAIN g : g[i].live} /\ \A i \in DOMAIN g : q[i] = g[i]
  BY <1>1, FileTableIs
<1> HIDE DEF r, q
<1>5. /\ Live(q) = Live(r) \union {n + 1} /\ n + 1 \notin Live(r)
      /\ q[n + 1] = k /\ \A i \in Live(r) : q[i] = r[i] /\ i \in 1 .. n
  BY <1>1, <1>2, <1>3, <1>4
<1>6. Folded(q) = Folded(r) \union {p}
  BY <1>5 DEF Folded
<1>7. /\ DOMAIN Keys(r) = Folded(r)
      /\ Keys(r) = [x \in DOMAIN Keys(r) |-> Keys(r)[x]]
      /\ \A s \in Live(r) : Leads(r, s) => Keys(r)[Fold(r[s].path)] = Valued(r[s].vals)
  BY <1>1, <1>3, KeysAre
<1>8. \A s \in Live(r) : Leads(q, s) => Leads(r, s) /\ Fold(r[s].path) \in Folded(r)
  BY <1>5 DEF Leads, Folded
<1>9. CASE p \in Folded(r)
  <2>1. ~ Leads(q, n + 1)
    <3>1. PICK s \in Live(r) : Fold(r[s].path) = p
      BY <1>9 DEF Folded
    <3>2. s \in Live(q) /\ Fold(q[s].path) = Fold(q[n + 1].path) /\ ~ (n + 1 <= s)
      BY <1>2, <1>5, <3>1
    <3> QED BY <3>2 DEF Leads
  <2>2. \A s \in Live(q) : Leads(q, s) => Keys(r)[Fold(q[s].path)] = Valued(q[s].vals)
    BY <1>5, <1>7, <1>8, <2>1
  <2>3. Folded(q) = Folded(r)
    BY <1>6, <1>9
  <2>4. n + 1 \in Nat
    BY <1>1
  <2>5. Keys(q) = Keys(r)
    BY <1>4, <1>7, <2>2, <2>3, <2>4, KeysUnique
  <2> QED BY <1>3, <1>4, <1>7, <1>9, <2>5 DEF g
<1>10. CASE p \notin Folded(r)
  <2> DEFINE h == Promise!With(Keys(r), p, Valued(k.vals))
  <2>1. /\ DOMAIN h = Folded(q) /\ h = [x \in DOMAIN h |-> h[x]]
        /\ h[p] = Valued(k.vals) /\ \A x \in Folded(r) : h[x] = Keys(r)[x]
    BY <1>6, <1>7, <1>10 DEF Promise!With
  <2> HIDE DEF h
  <2>2. ASSUME NEW s \in Live(q), Leads(q, s) PROVE h[Fold(q[s].path)] = Valued(q[s].vals)
    <3>1. CASE s = n + 1
      BY <1>5, <2>1, <3>1
    <3>2. CASE s \in Live(r)
      BY <1>5, <1>7, <1>8, <2>1, <2>2, <3>2
    <3> QED BY <1>5, <2>2, <3>1, <3>2
  <2>3. n + 1 \in Nat
    BY <1>1
  <2>4. Keys(q) = h
    BY <1>4, <2>1, <2>2, <2>3, KeysUnique
  <2> QED BY <1>3, <1>4, <1>7, <1>10, <2>4 DEF g, h
<1> QED BY <1>9, <1>10

(* The first records of a table have some of its keys.                       *)
LEMMA FirstKeysAre ==
  ASSUME reg \in Table, OnePlace(reg), NEW i \in Slots
  PROVE  LET f == SubSeq(Records, 1, i - 1) IN
         /\ DOMAIN FileKeys(f) \subseteq DOMAIN Keys(reg)
         /\ FileKeys(f) = [p \in DOMAIN FileKeys(f) |-> Keys(reg)[p]]
<1> DEFINE f == SubSeq(Records, 1, i - 1)
           q == FileTable(f)
<1>1. f \in Seq(KeyType) /\ Len(f) = i - 1 /\ \A j \in 1 .. i - 1 : f[j] = reg[j]
  BY StoppedAt
<1>2. i - 1 \in Nat /\ DOMAIN f = 1 .. i - 1 /\ \A j \in 1 .. i - 1 : j \in Slots
  BY <1>1, Slots1 DEF Slots
<1> HIDE DEF f
<1>3. /\ FileKeys(f) = Keys(q) /\ q \in [0 .. i - 1 -> KeyType]
      /\ Live(q) = {j \in DOMAIN f : f[j].live} /\ \A j \in DOMAIN f : q[j] = f[j]
  BY <1>1, FileTableIs
<1> HIDE DEF q
<1>4. \A j \in Live(q) : j \in Live(reg) /\ q[j] = reg[j]
  BY <1>1, <1>2, <1>3, LiveIs
<1>5. /\ DOMAIN Keys(q) = Folded(q) /\ Keys(q) = [p \in DOMAIN Keys(q) |-> Keys(q)[p]]
      /\ \A s \in Live(q) : Leads(q, s) => Keys(q)[Fold(q[s].path)] = Valued(q[s].vals)
      /\ \A p \in Folded(q) : \E s \in Live(q) : Leads(q, s) /\ Fold(q[s].path) = p
  BY <1>2, <1>3, KeysAre
<1>6. /\ DOMAIN Keys(reg) = Folded(reg)
      /\ \A s \in Live(reg) : Keys(reg)[Fold(reg[s].path)] = Valued(reg[s].vals)
  BY OneKeysAre
<1>7. Folded(q) \subseteq Folded(reg)
  BY <1>4 DEF Folded
<1>8. \A p \in Folded(q) : Keys(q)[p] = Keys(reg)[p]
  BY <1>4, <1>5, <1>6
<1>9. Keys(q) = [p \in DOMAIN Keys(q) |-> Keys(reg)[p]]
  BY <1>5, <1>8
<1> QED BY <1>3, <1>5, <1>6, <1>7, <1>9 DEF f
-----------------------------------------------------------------------------
(* Every step is one of the map's                                            *)

Kept   == IF twins \/ ~ ready THEN <<>> ELSE Keys(reg)
Stored == IF twins THEN <<>> ELSE FileKeys(file)
Stays  == UNCHANGED <<Kept, Stored, twins>>

LEMMA AsCreate ==
  ASSUME ~ twins, ready, InCall, NEW p, p \notin DOMAIN Keys(reg),
         Keys(reg') = Promise!With(Keys(reg), p, Promise!Nil)
  PROVE  Promise!Next
<1>1. p \in DOMAIN Keys(reg')
  BY DEF Promise!With
<1>2. Promise!Create(p)
  BY DEF Promise!Create, InCall, FileKeys
<1> QED BY <1>1, <1>2 DEF Promise!Next, InCall

LEMMA AsSetValue ==
  ASSUME ~ twins, ready, InCall, NEW p \in DOMAIN Keys(reg), NEW n \in Names, NEW d \in Datas,
         Keys(reg') = [Keys(reg) EXCEPT ![p] = Promise!With(Keys(reg)[p], n, d)]
  PROVE  Promise!Next
<1>1. Promise!SetValue(p, n, d)
  BY DEF Promise!SetValue, InCall
<1> QED BY <1>1 DEF Promise!Next, InCall

LEMMA AsDeleteValue ==
  ASSUME ~ twins, ready, InCall, NEW p \in DOMAIN Keys(reg), NEW n \in Names,
         Keys(reg') = [Keys(reg) EXCEPT ![p] = Promise!Without(Keys(reg)[p], n)]
  PROVE  Promise!Next
<1>1. Promise!DeleteValue(p, n)
  BY DEF Promise!DeleteValue, InCall
<1> QED BY <1>1 DEF Promise!Next, InCall

LEMMA AsDeleteKey ==
  ASSUME ~ twins, ready, InCall, NEW p \in DOMAIN Keys(reg), Names # {},
         Keys(reg') = Promise!Without(Keys(reg), p)
  PROVE  Promise!Next
<1>1. Promise!DeleteKey(p)
  BY DEF Promise!DeleteKey, InCall
<1> QED BY <1>1 DEF Promise!Next, InCall

LEMMA AsStays ==
  ASSUME InCall, Keys(reg') = Keys(reg)
  PROVE  Stays
BY DEF InCall, Stays, Kept, Stored

(* Opening and creating.                                                     *)
LEMMA OpeningSteps ==
  ASSUME IInv, ~ twins, InCall,
         NEW p \in Seq(Spellings), NEW o \in Opened(reg, p) \union Created(reg, p), reg' = o[2]
  PROVE  Promise!Next \/ Stays
<1>0. reg \in Table /\ OnePlace(reg)
  BY IInvIs DEF IInv, TypeInv
<1>1. /\ o[1] \in Slots /\ o[2] \in Table /\ (OnePlace(reg) => OnePlace(o[2]))
      /\ \/ /\ o[2] = reg /\ Finds(reg, o[1], p)
         \/ /\ o[2] = NewKey(reg, o[1], p) /\ ~ Known(reg, p) /\ ~ reg[o[1]].live
  <2>1. /\ o[1] \in Slots
        /\ \/ /\ o[2] = reg /\ Finds(reg, o[1], p)
           \/ /\ o[2] = NewKey(reg, o[1], p) /\ ~ Known(reg, p) /\ ~ reg[o[1]].live
    BY <1>0, OpenedIs
  <2>2. o[2] \in Table /\ (OnePlace(reg) => OnePlace(o[2]))
    BY <1>0, Opening
  <2> QED BY <2>1, <2>2
<1>2. CASE o[2] = reg
  <2>1. Keys(reg') = Keys(reg)
    BY <1>2
  <2> QED BY <2>1, AsStays
<1>3. CASE o[2] = NewKey(reg, o[1], p) /\ ~ reg[o[1]].live
  <2> DEFINE s == o[1]
             q == o[2]
  <2>1. q[s] = Key(p) /\ \A t \in Slots \ {s} : q[t] = reg[t]
    <3>1. /\ NewKey(reg, o[1], p) \in Table /\ NewKey(reg, o[1], p)[o[1]] = Key(p)
          /\ \A t \in 0 .. NSlots \ {o[1]} : NewKey(reg, o[1], p)[t] = reg[t]
      BY <1>0, <1>1, NewKeyIs
    <3> QED BY <1>3, <3>1, Slots1
  <2>2. q[s].live /\ q[s].path = p /\ q[s].vals = <<>>
    BY <2>1, KeyIs
  <2>3. /\ Keys(q) = Promise!With(Keys(reg), Fold(q[s].path), Valued(q[s].vals))
        /\ Fold(q[s].path) \notin DOMAIN Keys(reg)
    <3>1. s \in Slots /\ q \in Table /\ OnePlace(q) /\ ~ reg[s].live
      BY <1>0, <1>1, <1>3
    <3> HIDE DEF s, q
    <3> QED BY <1>0, <2>1, <2>2, <3>1, KeysMore
  <2>4. /\ Keys(reg') = Promise!With(Keys(reg), Fold(p), Promise!Nil)
        /\ Fold(p) \notin DOMAIN Keys(reg)
    BY <2>2, <2>3, ValuedEmpty
  <2> QED BY <2>4, AsCreate DEF InCall
<1> QED BY <1>1, <1>2, <1>3

LEMMA ForgettingSteps ==
  ASSUME IInv, IInv', ~ twins, InCall, NEW p \in Seq(Spellings), Forget(p)
  PROVE  Promise!Next
<1>0. reg \in Table /\ OnePlace(reg) /\ reg' \in Table /\ OnePlace(reg')
  BY IInvIs DEF IInv, TypeInv, InCall, OneSlotPerKey, OnePlace
<1>1. PICK s \in Slots : Finds(reg, s, p) /\ reg' = [reg EXCEPT ![s].live = FALSE]
  BY DEF Forget
<1>2. reg' = WithoutKey(reg, s)
  BY <1>1 DEF WithoutKey
<1>3. /\ reg' \in Table /\ reg'[s].live = FALSE
      /\ \A t \in 0 .. NSlots : /\ reg'[t].path = reg[t].path /\ reg'[t].vals = reg[t].vals
                                /\ t # s => reg'[t] = reg[t]
      /\ OnePlace(reg) => OnePlace(reg')
  <2>1. reg \in Table /\ s \in Slots
    BY <1>0
  <2>2. IsFreed(reg, s, reg')
    BY <1>2, <2>1, Freed
  <2> QED BY <2>2 DEF IsFreed
<1>4. reg[s].live /\ Fold(reg[s].path) = Fold(p) /\ \A t \in Slots \ {s} : reg'[t] = reg[t]
  BY <1>1, <1>3, Slots1 DEF Finds, Same
<1>5. /\ Fold(reg[s].path) \in DOMAIN Keys(reg)
      /\ Keys(reg') = Promise!Without(Keys(reg), Fold(reg[s].path))
  BY <1>0, <1>3, <1>4, KeysLess
<1>6. Names # {}
  BY ValuesAre
<1> QED BY <1>5, <1>6, AsDeleteKey DEF InCall

LEMMA ValueChange ==
  ASSUME NEW r \in Table, OnePlace(r), NEW s \in 0 .. NSlots, r[s].live,
         NEW vs \in Seq(ValueType), Distinct(vs)
  PROVE  LET p == Fold(r[s].path)
             q == WithValues(r, s, vs) IN
         \/ Keys(q) = Keys(r)
         \/ /\ p \in DOMAIN Keys(r) /\ Keys(r)[p] = Valued(r[s].vals)
            /\ Keys(q) = [Keys(r) EXCEPT ![p] = Valued(vs)]
<1> DEFINE p == Fold(r[s].path)
           q == WithValues(r, s, vs)
<1>1. /\ q \in Table /\ q[s].vals = vs
      /\ \A t \in 0 .. NSlots : /\ q[t].live = r[t].live /\ q[t].path = r[t].path
                                /\ t # s => q[t] = r[t]
      /\ OnePlace(r) /\ Distinct(vs) => OnePlace(q)
  BY Revalued
<1> HIDE DEF q
<1>2. CASE s = 0
  <2>1. \A t \in Slots : t \in 0 .. NSlots /\ t # s
    BY <1>2, Slots1
  <2>2. Live(q) = Live(r)
    BY <1>1, <2>1, LiveIs
  <2>3. \A t \in Live(r) : q[t].path = r[t].path /\ q[t].vals = r[t].vals
    BY <1>1, <2>1, LiveIs
  <2>4. r \in [0 .. NSlots -> KeyType] /\ q \in [0 .. NSlots -> KeyType] /\ NSlots \in Nat
    BY <1>1, Slots1 DEF Table
  <2>5. Keys(q) = Keys(r)
    BY <2>2, <2>3, <2>4, SameKeys
  <2> QED BY <2>5 DEF q
<1>3. CASE s \in Slots
  <2>1. /\ q \in Table /\ OnePlace(q) /\ q[s].live /\ q[s].path = r[s].path
        /\ \A t \in Slots \ {s} : q[t] = r[t]
    BY <1>1, Slots1
  <2>2. /\ Fold(r[s].path) \in DOMAIN Keys(r)
        /\ Keys(r)[Fold(r[s].path)] = Valued(r[s].vals)
        /\ Keys(q) = [Keys(r) EXCEPT ![Fold(r[s].path)] = Valued(q[s].vals)]
    BY <1>3, <2>1, KeysChanged
  <2> QED BY <1>1, <2>2 DEF q
<1> QED BY <1>2, <1>3, Slots1

LEMMA ValueSteps ==
  ASSUME IInv, ~ twins, NEW s \in given \cup {0}, reg[s].live,
         NEW vs \in Seq(ValueType), Distinct(vs), reg' = [reg EXCEPT ![s].vals = vs]
  PROVE  \/ Keys(reg') = Keys(reg)
         \/ LET p == Fold(reg[s].path) IN
            /\ p \in DOMAIN Keys(reg) /\ Keys(reg)[p] = Valued(reg[s].vals)
            /\ Keys(reg') = [Keys(reg) EXCEPT ![p] = Valued(vs)]
<1>1. reg \in Table /\ OnePlace(reg) /\ s \in 0 .. NSlots
  BY IInvIs, Slots1 DEF IInv, TypeInv
<1>2. reg' = WithValues(reg, s, vs)
  BY DEF WithValues
<1>3. \/ Keys(WithValues(reg, s, vs)) = Keys(reg)
      \/ /\ Fold(reg[s].path) \in DOMAIN Keys(reg)
         /\ Keys(reg)[Fold(reg[s].path)] = Valued(reg[s].vals)
         /\ Keys(WithValues(reg, s, vs)) = [Keys(reg) EXCEPT ![Fold(reg[s].path)] = Valued(vs)]
  BY <1>1, ValueChange
<1> QED BY <1>2, <1>3

LEMMA CallSteps == ASSUME IInv, IInv', ~ twins, ~ twins', Call PROVE Promise!Next \/ Stays
<1>0. /\ reg \in Table /\ OnePlace(reg) /\ Paths \subseteq Seq(Spellings)
      /\ given \cup {0} \subseteq 0 .. NSlots
  BY Slots1, PathsAssumption, IInvIs DEF IInv, TypeInv
<1>1. ASSUME Called PROVE InCall
  BY <1>1 DEF Called, Calls, InCall, process
<1>2. ASSUME NEW p \in Paths, RegCreateKeyEx(p) PROVE Promise!Next \/ Stays
  <2>1. PICK o \in Created(reg, p) : reg' = o[2]
    BY <1>2 DEF RegCreateKeyEx
  <2>2. InCall /\ p \in Seq(Spellings) /\ o \in Opened(reg, p) \union Created(reg, p)
    BY <1>0, <1>1, <1>2, <2>1 DEF RegCreateKeyEx
  <2> QED BY <2>1, <2>2, OpeningSteps
<1>3. ASSUME NEW p \in Paths, RegOpenKeyEx(p) \/ RegDeleteTree(p) PROVE Promise!Next \/ Stays
  <2>1. PICK o \in Opened(reg, p) : reg' = o[2]
    BY <1>3 DEF RegOpenKeyEx, RegDeleteTree
  <2>2. InCall /\ p \in Seq(Spellings) /\ o \in Opened(reg, p) \union Created(reg, p)
    BY <1>0, <1>1, <1>3, <2>1 DEF RegOpenKeyEx, RegDeleteTree
  <2> QED BY <2>1, <2>2, OpeningSteps
<1>4. ASSUME NEW p \in Paths, RegDeleteKey(p) PROVE Promise!Next \/ Stays
  <2>1. InCall /\ Forget(p) /\ p \in Seq(Spellings)
    BY <1>0, <1>1, <1>4 DEF RegDeleteKey
  <2> QED BY <2>1, ForgettingSteps
<1>5. ASSUME NEW s \in given \cup {0}, RegDeleteTreeOf(s) PROVE Promise!Next \/ Stays
  <2>1. InCall /\ reg' = reg
    BY <1>1, <1>5 DEF RegDeleteTreeOf
  <2> QED BY <2>1, AsStays
<1>6. ASSUME NEW s \in given \cup {0}, NEW n \in Names, RegDeleteValue(s, n)
      PROVE  Promise!Next \/ Stays
  <2> DEFINE p == Fold(reg[s].path)
             vs == reg[s].vals
  <2>1. /\ InCall /\ reg[s].live /\ Has(vs, n)
        /\ reg' = [reg EXCEPT ![s].vals = Drop(vs, n)]
    BY <1>1, <1>6 DEF RegDeleteValue
  <2>2. vs \in Seq(ValueType) /\ Distinct(vs)
    BY <1>0, <1>6 DEF Table, KeyType, ValueType, OnePlace
  <2>3. /\ Drop(vs, n) \in Seq(ValueType) /\ Distinct(Drop(vs, n))
        /\ Valued(Drop(vs, n)) = Promise!Without(Valued(vs), n)
    BY <2>1, <2>2, DropIs, DropDistinct, ValuedDrop
  <2>4. \/ Keys(reg') = Keys(reg)
        \/ /\ p \in DOMAIN Keys(reg) /\ Keys(reg)[p] = Valued(vs)
           /\ Keys(reg') = [Keys(reg) EXCEPT ![p] = Valued(Drop(vs, n))]
    BY <1>6, <2>1, <2>3, ValueSteps
  <2>5. CASE Keys(reg') = Keys(reg)
    BY <2>1, <2>5, AsStays
  <2>6. CASE /\ p \in DOMAIN Keys(reg) /\ Keys(reg)[p] = Valued(vs)
             /\ Keys(reg') = [Keys(reg) EXCEPT ![p] = Valued(Drop(vs, n))]
    <3>1. Keys(reg') = [Keys(reg) EXCEPT ![p] = Promise!Without(Keys(reg)[p], n)]
      BY <2>3, <2>6
    <3>2. ready /\ InCall /\ p \in DOMAIN Keys(reg)
      BY <2>1, <2>6 DEF InCall
    <3> HIDE DEF p
    <3> QED BY <3>1, <3>2, AsDeleteValue
  <2> QED BY <2>4, <2>5, <2>6
<1>7. ASSUME NEW s \in given \cup {0}, NEW n \in Names, NEW d \in Datas, RegSetValueEx(s, n, d)
      PROVE  Promise!Next \/ Stays
  <2> DEFINE p == Fold(reg[s].path)
             vs == reg[s].vals
             m == NameSet(vs, n)
  <2>0. twins \in BOOLEAN /\ n \in Names /\ Shortened[n] \in Names
    BY <1>7, ValuesAre DEF IInv, TypeInv
  <2>1. /\ InCall /\ reg[s].live /\ (Has(vs, n) \/ ~ Has(vs, Shortened[n]))
        /\ reg' = [reg EXCEPT ![s].vals = Put(vs, n, d)]
    BY <1>7, <2>0 DEF RegSetValueEx, Calls, process, InCall
  <2>2. vs \in Seq(ValueType) /\ Distinct(vs)
    BY <1>0, <1>7 DEF Table, KeyType, ValueType, OnePlace
  <2>3. /\ Put(vs, n, d) \in Seq(ValueType) /\ Distinct(Put(vs, n, d))
        /\ Valued(Put(vs, n, d)) = Promise!With(Valued(vs), m, d)
    BY <1>7, <2>1, <2>2, PutIs, ValuedPut
  <2>4. \/ Keys(reg') = Keys(reg)
        \/ /\ p \in DOMAIN Keys(reg) /\ Keys(reg)[p] = Valued(vs)
           /\ Keys(reg') = [Keys(reg) EXCEPT ![p] = Valued(Put(vs, n, d))]
    BY <1>7, <2>1, <2>3, ValueSteps
  <2>5. CASE Keys(reg') = Keys(reg)
    BY <2>1, <2>5, AsStays
  <2>6. CASE /\ p \in DOMAIN Keys(reg) /\ Keys(reg)[p] = Valued(vs)
             /\ Keys(reg') = [Keys(reg) EXCEPT ![p] = Valued(Put(vs, n, d))]
    <3>1. Keys(reg') = [Keys(reg) EXCEPT ![p] = Promise!With(Keys(reg)[p], m, d)]
      BY <2>3, <2>6
    <3>2. ready /\ InCall /\ p \in DOMAIN Keys(reg)
      BY <2>1, <2>6 DEF InCall
    <3>3. m \in Names
      BY <2>0 DEF NameSet
    <3> HIDE DEF p, m
    <3> QED BY <3>1, <3>2, <3>3, AsSetValue
  <2> QED BY <2>4, <2>5, <2>6
<1> QED BY <1>2, <1>3, <1>4, <1>5, <1>6, <1>7, ValuesAre DEF Call

LEMMA TreeSteps == ASSUME IInv, IInv', ~ twins, DeletesTree PROVE Promise!Next \/ Stays
<1>1. tree # <<>> /\ ready
  BY DEF DeletesTree, TreeChild, TreeStuck, TreeDone, IInv, FreshOK
<1>2. CASE TreeChild \/ TreeStuck
  <2>1. InCall /\ Keys(reg') = Keys(reg)
    BY <1>1, <1>2 DEF TreeChild, TreeStuck, InCall, process, vars
  <2> QED BY <2>1, AsStays
<1>3. CASE TreeDone
  <2>1. InCall /\ Top.path \in Seq(Spellings)
    BY <1>1, <1>3, TopIs DEF TreeDone, InCall, process, Frames
  <2>2. CASE Top.self
    BY <1>3, <2>1, <2>2, ForgettingSteps DEF TreeDone
  <2>3. CASE ~ Top.self
    BY <1>3, <2>1, <2>3, AsStays DEF TreeDone
  <2> QED BY <2>2, <2>3
<1> QED BY <1>2, <1>3 DEF DeletesTree

(* The file is read: the standard key is there already, or is put without    *)
(* values, being an ancestor, or put and filled.                             *)
LEMMA LoadSteps == ASSUME IInv, ~ twins, ~ twins', Load PROVE Promise!Next
<1>0. /\ ~ ready /\ ready' /\ UNCHANGED file /\ twins' = twins
      /\ SeedPath \in Seq(Spellings) /\ SeedName \in Names /\ SeedData \in Datas
  <2>1. SeedPath \in Seq(Spellings)
    BY PathsAssumption
  <2> QED BY <2>1, ValuesAre DEF Load, IInv, TypeInv
<1>1. /\ Loaded \in Table /\ OnePlace(Loaded)
      /\ \A s \in Slots : IF s \in DOMAIN file /\ file[s].live THEN Loaded[s] = file[s]
                            ELSE Loaded[s] = FreeSlot
      /\ DOMAIN file \subseteq Slots /\ file \in Seq(KeyType)
  BY <1>0, LoadedIs, LoadedOnce DEF IInv, TypeInv
<1>2. FileKeys(file) = Keys(Loaded)
  <2>1. Live(Loaded) = {i \in DOMAIN file : file[i].live}
    BY <1>1, LiveIs DEF FreeSlot
  <2>2. \A s \in Live(Loaded) : file[s] = Loaded[s]
    BY <1>1, <2>1
  <2> QED BY <1>1, <2>1, <2>2, FileKeysAre
<1>3. ASSUME NEW o, o[1] \in Slots, o[2] = NewKey(Loaded, o[1], SeedPath),
             o[2] \in Table, OnePlace(o[2]), ~ Loaded[o[1]].live
      PROVE  /\ Keys(o[2]) = Promise!With(Keys(Loaded), Fold(SeedPath), Promise!Nil)
             /\ o[2][o[1]] = Key(SeedPath) /\ \A t \in Slots \ {o[1]} : o[2][t] = Loaded[t]
  <2> DEFINE s == o[1]
             q == o[2]
  <2>1. /\ NewKey(Loaded, s, SeedPath) \in Table /\ NewKey(Loaded, s, SeedPath)[s] = Key(SeedPath)
        /\ \A t \in 0 .. NSlots \ {s} : NewKey(Loaded, s, SeedPath)[t] = Loaded[t]
    BY <1>0, <1>1, <1>3, NewKeyIs
  <2>2. q[s] = Key(SeedPath) /\ \A t \in Slots \ {s} : q[t] = Loaded[t]
    BY <1>3, <2>1, Slots1
  <2>3. q[s].live /\ q[s].path = SeedPath /\ q[s].vals = <<>>
    BY <1>0, <2>2, KeyIs
  <2>4. s \in Slots /\ q \in Table /\ OnePlace(q) /\ ~ Loaded[s].live
    BY <1>3
  <2>5. Keys(q) = Promise!With(Keys(Loaded), Fold(q[s].path), Valued(q[s].vals))
    <3> HIDE DEF s, q
    <3> QED BY <1>1, <2>2, <2>3, <2>4, KeysMore
  <2> QED BY <2>2, <2>3, <2>5, ValuedEmpty
<1>4. \/ Keys(reg') = Keys(Loaded)
      \/ Keys(reg') = Promise!With(Keys(Loaded), Fold(SeedPath), Promise!Nil)
      \/ Keys(reg') = Promise!With(Keys(Loaded), Fold(SeedPath), [n \in {SeedName} |-> SeedData])
  <2>1. CASE reg' = Loaded
    BY <2>1
  <2>2. CASE reg' # Loaded /\ Opened(Loaded, SeedPath) # {}
    <3>1. PICK o \in Opened(Loaded, SeedPath) : reg' = o[2]
      BY <2>2 DEF Load, Seeded
    <3>2. o[1] \in Slots /\ o[2] = NewKey(Loaded, o[1], SeedPath) /\ ~ Loaded[o[1]].live
      BY <1>0, <1>1, <2>2, <3>1, OpenedIs
    <3>3. o[2] \in Table /\ (OnePlace(Loaded) => OnePlace(o[2]))
      BY <1>0, <1>1, <3>1, Opening
    <3> QED BY <1>1, <1>3, <3>1, <3>2, <3>3
  <2>3. CASE reg' # Loaded /\ Opened(Loaded, SeedPath) = {}
    <3>1. PICK o \in Created(Loaded, SeedPath) : reg' = Filled(o[2], o[1])
      BY <2>3 DEF Load, Seeded
    <3>2. ~ Finds(Loaded, o[1], SeedPath) \/ o[1] \notin Slots
      BY <2>3 DEF Opened
    <3>3. o[1] \in Slots /\ o[2] = NewKey(Loaded, o[1], SeedPath) /\ ~ Loaded[o[1]].live
      BY <1>0, <1>1, <3>1, <3>2, OpenedIs
    <3>4. o[2] \in Table /\ OnePlace(o[2])
      <4>1. o[2] \in Table /\ (OnePlace(Loaded) => OnePlace(o[2]))
        BY <1>0, <1>1, <3>1, Opening
      <4> QED BY <1>1, <4>1
    <3>5. o[2][o[1]] = Key(SeedPath) /\ \A t \in Slots \ {o[1]} : o[2][t] = Loaded[t]
      BY <1>3, <3>3, <3>4
    <3> DEFINE s == o[1]
               vs == Put(<<>>, SeedName, SeedData)
               q == WithValues(o[2], s, vs)
    <3>6. o[2][s].vals = <<>> /\ o[2][s].live /\ o[2][s].path = SeedPath
      BY <1>0, <3>5, KeyIs
    <3>7. reg' = q
      BY <3>1, <3>6 DEF Filled, WithValues
    <3>8. <<>> \in Seq(ValueType) /\ Distinct(<<>>)
      BY DEF Distinct
    <3>9. /\ vs \in Seq(ValueType) /\ Distinct(vs)
          /\ Valued(vs) = Promise!With(Valued(<<>>), SeedName, SeedData)
      <4>1. ~ Has(<<>>, SeedName) /\ Shortened[SeedName] = SeedName
        BY ValuesAre DEF Has
      <4> QED BY <1>0, <3>8, <4>1, PutIs, ValuedPut DEF NameSet
    <3> HIDE DEF vs
    <3>10. Valued(vs) = [n \in {SeedName} |-> SeedData]
      BY <3>9, ValuedEmpty DEF Promise!With, Promise!Nil
    <3>11. /\ q \in Table /\ q[s].vals = vs
           /\ \A t \in 0 .. NSlots : /\ q[t].live = o[2][t].live /\ q[t].path = o[2][t].path
                                     /\ t # s => q[t] = o[2][t]
           /\ OnePlace(o[2]) /\ Distinct(vs) => OnePlace(q)
      <4>1. o[2] \in Table /\ o[1] \in 0 .. NSlots /\ vs \in Seq(ValueType)
        BY <3>3, <3>4, <3>9, Slots1
      <4> QED BY <4>1, Revalued
    <3> HIDE DEF q
    <3>12. /\ OnePlace(q) /\ q \in Table /\ s \in Slots /\ ~ Loaded[s].live /\ q[s].live
           /\ q[s].path = SeedPath /\ \A t \in Slots \ {s} : q[t] = Loaded[t]
      BY <3>3, <3>4, <3>5, <3>6, <3>9, <3>11, Slots1
    <3> HIDE DEF s
    <3>13. Keys(q) = Promise!With(Keys(Loaded), Fold(q[s].path), Valued(q[s].vals))
      BY <1>1, <3>12, KeysMore
    <3> QED BY <3>7, <3>10, <3>11, <3>12, <3>13
  <2> QED BY <2>1, <2>2, <2>3
<1>5. Promise!Load
  BY <1>0, <1>2, <1>4, ValuedEmpty DEF Promise!Load
<1> QED BY <1>0, <1>5 DEF Promise!Next

LEMMA EmptyKeys == Keys(Empty) = Promise!Nil
<1>1. Live(Empty) = {}
  BY EmptyIs, LiveIs
<1>2. Promise!Nil = [p \in DOMAIN Promise!Nil |-> Promise!Nil[p]] /\ DOMAIN Promise!Nil = {}
  BY DEF Promise!Nil
<1>3. Folded(Empty) = {}
  BY <1>1 DEF Folded
<1> QED BY <1>1, <1>2, <1>3, EmptyIs, OneKeysUnique

LEMMA RecordKeys == ASSUME reg \in Table PROVE FileKeys(Records) = Keys(reg)
<1>1. /\ Records \in Seq(KeyType) /\ DOMAIN Records = Slots
      /\ \A i \in Slots : Records[i] = reg[i]
  BY RecordsAre
<1>2. {i \in DOMAIN Records : Records[i].live} = Live(reg)
  BY <1>1, LiveIs
<1>3. \A s \in Live(reg) : Records[s] = reg[s]
  BY <1>1, LiveIs
<1> QED BY <1>1, <1>2, <1>3, FileKeysAre

(* The end of a process.                                                     *)
LEMMA EndSteps ==
  ASSUME IInv, ~ twins,
         Exits \/ MainReturns \/ Killed \/ SaveStops
  PROVE  Promise!Next
<1>0. reg \in Table /\ OnePlace(reg) /\ twins \in BOOLEAN
  BY IInvIs DEF IInv, TypeInv
<1>1. PICK f : /\ NewProcess(f)
               /\ \/ f = file
                  \/ ready /\ f = Records
                  \/ \E i \in Slots : \/ f = SubSeq(Records, 1, i - 1)
                                      \/ /\ reg[i].live
                                         /\ \E k \in CutShort(reg[i]) :
                                              f = Append(SubSeq(Records, 1, i - 1), k)
  BY DEF Exits, MainReturns, Killed, SaveStops
<1>2. ready' = FALSE /\ twins' = twins /\ file' = f
  BY <1>1 DEF NewProcess
<1>3. (ready => Kept = Keys(reg)) /\ (~ ready => Kept = Promise!Nil /\ Keys(reg) = Promise!Nil)
  BY EmptyKeys, ValuedEmpty DEF Kept, IInv, FreshOK
<1>4. Kept = Keys(reg)
  BY <1>0, <1>3 DEF IInv, TypeInv
<1>5. CASE f = file
  <2>1. Promise!Dies
    BY <1>2, <1>5, ValuedEmpty DEF Promise!Dies
  <2> QED BY <1>2, <2>1 DEF Promise!Next
<1>6. ASSUME NEW ps \in SUBSET DOMAIN Keys(reg),
             \/ FileKeys(f) = [p \in ps |-> Keys(reg)[p]]
             \/ \E q \in DOMAIN Keys(reg), p \in DOMAIN FileKeys(f) \ ps :
                  /\ Promise!BeginsAs(p, q)
                  /\ DOMAIN FileKeys(f) = ps \cup {p} /\ FileKeys(f)[p] \in Promise!Values
                  /\ \A z \in ps : FileKeys(f)[z] = Keys(reg)[z]
      PROVE  Promise!Next
  <2>1. Promise!SaveDies
    <3>1. Kept' = Promise!Nil /\ Stored' = FileKeys(f)
      BY <1>2, ValuedEmpty DEF Kept, Stored
    <3>2. ps \in SUBSET DOMAIN Kept
      BY <1>4
    <3>3. \/ Stored' = [p \in ps |-> Kept[p]]
          \/ \E q \in DOMAIN Kept, p \in DOMAIN Stored' \ ps :
               /\ Promise!BeginsAs(p, q)
               /\ DOMAIN Stored' = ps \cup {p} /\ Stored'[p] \in Promise!Values
               /\ \A z \in ps : Stored'[z] = Kept[z]
      BY <1>4, <1>6, <3>1
    <3> QED BY <3>1, <3>2, <3>3 DEF Promise!SaveDies, Kept, Stored
  <2> QED BY <1>2, <2>1 DEF Promise!Next
<1>7. CASE ready /\ f = Records
  <2>1. FileKeys(f) = Keys(reg)
    BY <1>0, <1>7, RecordKeys
  <2>2. Keys(reg) = [p \in DOMAIN Keys(reg) |-> Keys(reg)[p]]
    BY <1>0, OneKeysAre
  <2> QED BY <1>6, <2>1, <2>2
<1>8. ASSUME NEW i \in Slots, f = SubSeq(Records, 1, i - 1) PROVE Promise!Next
  <2>1. /\ DOMAIN FileKeys(f) \subseteq DOMAIN Keys(reg)
        /\ FileKeys(f) = [p \in DOMAIN FileKeys(f) |-> Keys(reg)[p]]
    BY <1>0, <1>8, FirstKeysAre
  <2> QED BY <1>6, <2>1
<1>9. ASSUME NEW i \in Slots, reg[i].live, NEW k \in CutShort(reg[i]),
             f = Append(SubSeq(Records, 1, i - 1), k)
      PROVE  Promise!Next
  <2> DEFINE g == SubSeq(Records, 1, i - 1)
             ps == DOMAIN FileKeys(g)
             p == Fold(k.path)
             q == Fold(reg[i].path)
  <2>1. /\ ps \subseteq DOMAIN Keys(reg) /\ FileKeys(g) = [z \in ps |-> Keys(reg)[z]]
        /\ g \in Seq(KeyType)
    BY <1>0, <1>9, FirstKeysAre, StoppedAt
  <2>2. reg[i] \in KeyType /\ k \in CutShort(reg[i])
    BY <1>0, <1>9, Slots1 DEF Table
  <2>3. /\ k \in KeyType /\ k.live
        /\ \A j \in 1 .. Len(k.path) - 1 : j <= Len(reg[i].path) /\ k.path[j] = reg[i].path[j]
    BY <1>9, <2>2, CutIs
  <2>4. FileKeys(f) = IF p \in ps THEN FileKeys(g)
                      ELSE Promise!With(FileKeys(g), p, Valued(k.vals))
    BY <1>9, <2>1, <2>3, FileKeysMore
  <2>5. Promise!BeginsAs(p, q)
    <3>1. k.path \in Seq(Spellings) /\ reg[i].path \in Seq(Spellings)
      BY <2>2, <2>3 DEF KeyType
    <3>2. /\ Len(p) = Len(k.path) /\ Len(k.path) \in Nat
          /\ \A j \in 1 .. Len(k.path) : p[j] = Lower[k.path[j]]
      BY <3>1, FoldIs
    <3>3. /\ Len(q) = Len(reg[i].path) /\ Len(q) \in Nat
          /\ \A j \in 1 .. Len(q) : q[j] = Lower[reg[i].path[j]]
      BY <3>1, FoldIs
    <3> HIDE DEF p, q
    <3> QED BY <2>3, <3>2, <3>3 DEF Promise!BeginsAs
  <2>6. q \in DOMAIN Keys(reg)
    BY <1>0, <1>9, OneKeysAre, LiveIs DEF Folded
  <2>7. Valued(k.vals) \in Promise!Values
    BY <2>3, ValuedIs DEF KeyType, ValueType
  <2> HIDE DEF p, q, ps, g
  <2>8. CASE p \in ps
    BY <1>6, <2>1, <2>4, <2>8
  <2>9. CASE p \notin ps
    <3>1. /\ DOMAIN FileKeys(f) = ps \cup {p} /\ FileKeys(f)[p] = Valued(k.vals)
          /\ \A z \in ps : FileKeys(f)[z] = Keys(reg)[z]
      BY <2>1, <2>4, <2>9 DEF Promise!With
    <3>2. p \in DOMAIN FileKeys(f) \ ps /\ FileKeys(f)[p] \in Promise!Values
      BY <2>7, <2>9, <3>1
    <3>3. \E z \in DOMAIN Keys(reg), y \in DOMAIN FileKeys(f) \ ps :
            /\ Promise!BeginsAs(y, z)
            /\ DOMAIN FileKeys(f) = ps \cup {y} /\ FileKeys(f)[y] \in Promise!Values
            /\ \A x \in ps : FileKeys(f)[x] = Keys(reg)[x]
      BY <2>5, <2>6, <3>1, <3>2
    <3> QED BY <1>6, <2>1, <3>3
  <2> QED BY <2>8, <2>9
<1> QED BY <1>1, <1>5, <1>7, <1>8, <1>9

(* The slots, the file and the code that keeps them implement the map of     *)
(* RegistryStore: each call, each of the steps in which a tree goes, the     *)
(* reading of the file, its writing at exit, and an end in the middle of the *)
(* writing is a step of the map or changes nothing of it.                    *)
THEOREM SlotsAreAMap == Spec => IsRegistryStore
<1>1. Init => Promise!Init
  <2>1. ASSUME Init PROVE FileKeys(file) = Promise!Nil
    <3> DEFINE f == <<>>
    <3>1. f \in Seq(KeyType) /\ DOMAIN f = {} /\ {i \in DOMAIN f : f[i].live} = {}
      OBVIOUS
    <3>2. Live(Empty) = {}
      BY EmptyIs, LiveIs
    <3> HIDE DEF f
    <3>3. FileKeys(f) = Keys(Empty)
      BY <3>1, <3>2, EmptyIs, FileKeysAre
    <3>5. file = f
      BY <2>1 DEF Init, f
    <3> QED BY <3>3, <3>5, EmptyKeys
  <2> QED BY <2>1, ValuedEmpty DEF Init, Promise!Init
<1>2. IInv /\ IInv' /\ [Next]_vars => [Promise!Next]_(Promise!vars)
  <2> SUFFICES ASSUME IInv, IInv', [Next]_vars
               PROVE  Promise!Next \/ Stays
    BY DEF Promise!vars, Stays, Kept, Stored
  <2>0. twins \in BOOLEAN /\ twins' \in BOOLEAN /\ (twins => twins')
    <3>1. twins \in BOOLEAN /\ twins' \in BOOLEAN
      BY DEF IInv, TypeInv
    <3>2. twins => twins'
      BY DEF Next, Load, Call, RegCreateKeyEx, RegOpenKeyEx, RegDeleteKey, RegDeleteTree,
             RegDeleteTreeOf, RegDeleteValue, RegSetValueEx, Called, Calls, process, DeletesTree,
             TreeChild, TreeStuck, TreeDone, ExitProcess, Exits, MainReturns, Killed,
             SaveStops, NewProcess, vars
    <3> QED BY <3>1, <3>2
  <2>1. CASE twins
    BY <2>0, <2>1 DEF Stays, Kept, Stored
  <2>2. CASE ~ twins /\ twins'
    <3>1. Promise!Abandon
      BY <2>0, <2>2, ValuedEmpty DEF Promise!Abandon
    <3> QED BY <3>1 DEF Promise!Next
  <2>3. CASE ~ twins /\ ~ twins'
    <3>1. CASE Load
      BY <2>3, <3>1, LoadSteps
    <3>2. CASE Call
      BY <2>3, <3>2, CallSteps
    <3>3. CASE DeletesTree
      BY <2>3, <3>3, TreeSteps
    <3>4. CASE ExitProcess
      <4>1. FileKeys(Records) = Kept
        <5>1. FileKeys(Records) = Keys(reg)
          BY RecordKeys DEF IInv, TypeInv
        <5> QED BY <2>3, <5>1, EmptyKeys, ValuedEmpty DEF Kept, IInv, FreshOK
      <4>2. Promise!Save
        BY <2>3, <3>4, <4>1 DEF ExitProcess, Promise!Save, Kept
      <4> QED BY <2>0, <2>3, <4>2 DEF Promise!Next
    <3>5. CASE Exits \/ MainReturns \/ Killed \/ SaveStops
      BY <2>3, <3>5, EndSteps
    <3>6. CASE UNCHANGED vars
      BY <3>6 DEF vars, Stays, Kept, Stored
    <3> QED BY <3>1, <3>2, <3>3, <3>4, <3>5, <3>6 DEF Next
  <2> QED BY <2>0, <2>1, <2>2, <2>3
<1> QED BY <1>1, <1>2, IInvHolds, PTL DEF Spec, IsRegistryStore, Promise!Spec
=============================================================================
