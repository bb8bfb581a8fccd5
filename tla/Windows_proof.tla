----------------------------- MODULE Windows_proof -----------------------------
(***************************************************************************)
(* Proofs about Windows for every set of classes and tables of any size:   *)
(* handles stay distinct and cancelled creations leave nothing, however    *)
(* the creations nest; a minted window's messages go to its own procedure; *)
(* and registering a class moves nobody's.                                 *)
(***************************************************************************)
EXTENDS Windows, FiniteSetTheorems, SequenceTheorems, TLAPS

KidType == [live : BOOLEAN, proc : Classes \union {None}]
TopType == [live : BOOLEAN, proc : Classes \union {None}]
WinType == [h : Handles, cls : Classes \union {None}, sub : Subs \union {None},
            fate : {"making", "alive", "cancelled", "destroyed"}]

-----------------------------------------------------------------------------
(* The inductive invariant.  Its first parts are stated of any stack s, for  *)
(* a creation goes on with the stack below its hook.                         *)

Told(f) == f.at # "hook"
Telling(s) == {i \in DOMAIN s : s[i].at # "hook" /\ s[i].h[1] # "kid"}
Hooks(s)   == {i \in DOMAIN s : s[i].at = "hook"}

(* A window is being made exactly while its creation is on the stack, unless *)
(* the guest destroyed it there; each is there once.                         *)
MakingOK(s) ==
  /\ \A i \in DOMAIN s : Told(s[i]) =>
       /\ s[i].id \in DOMAIN win /\ win[s[i].id].h = s[i].h
       /\ win[s[i].id].fate \in {"making", "destroyed"}
  /\ \A i, j \in DOMAIN s : Told(s[i]) /\ Told(s[j]) /\ s[i].id = s[j].id => i = j
  /\ \A w \in DOMAIN win : win[w].fate = "making" =>
       \E i \in DOMAIN s : Told(s[i]) /\ s[i].id = w

CountsOK(s) ==
  /\ depth = Cardinality(Telling(s)) /\ depth <= Len(win)
  /\ Len(win) + Cardinality(Hooks(s)) <= MaxMade

(* A minted handle is never minted again, and its entry is its window's.     *)
MintedOK ==
  /\ \A v, w \in DOMAIN win : IsTop(v) /\ win[v].h = win[w].h => v = w
  /\ \A w \in DOMAIN win : IsTop(w) =>
       /\ win[w].h[2] <= Len(top)
       /\ Has(w) => LET n == win[w].h[2]
                    IN  top[n].live /\ top[n].proc = win[w].cls /\ sub[Top(n)] = win[w].sub
  /\ \A n \in Len(top) + 1 .. NTops : sub[Top(n)] = None

(* A child the guest has holds its slot alone.                               *)
KidsOK ==
  \A w \in DOMAIN win : Has(w) /\ win[w].h[1] = "kid" =>
    /\ kid[win[w].h[2]].live
    /\ \A v \in DOMAIN win : Has(v) /\ win[v].h = win[w].h => v = w

(* The main handle is taken by the window that has it, and until the minted  *)
(* handles run out one window has it at most.                                *)
MainOK ==
  /\ \A w \in DOMAIN win : win[w].h = Main /\ win[w].fate = "alive" => taken
  /\ ~ crowded => \A v, w \in DOMAIN win :
       Has(v) /\ Has(w) /\ win[v].h = Main /\ win[w].h = Main => v = w

WindowsOK == MintedOK /\ KidsOK /\ MainOK /\ CancelledTopsAreGone /\ CancelledKidsLinger

IInv == TypeOK /\ MakingOK(stack) /\ CountsOK(stack) /\ WindowsOK

-----------------------------------------------------------------------------
(* Handles, frames and stacks.                                               *)

LEMMA HandleShape ==
  /\ Main \in Handles /\ Main[1] = "main"
  /\ \A i \in 1 .. NKids : Kid(i) \in Handles /\ Kid(i)[1] = "kid" /\ Kid(i)[2] = i
  /\ \A n \in 1 .. NTops : Top(n) \in Handles /\ Top(n)[1] = "top" /\ Top(n)[2] = n
  /\ \A h \in Handles : /\ h = Main \/ (h[1] = "kid" /\ h[2] \in 1 .. NKids /\ h = Kid(h[2]))
                                   \/ (h[1] = "top" /\ h[2] \in 1 .. NTops /\ h = Top(h[2]))
                        /\ h[1] \in {"main", "kid", "top"}
                        /\ h[1] = "main" <=> h = Main
BY DEF Handles, Main, Kid, Top

LEMMA FrameShape ==
  /\ \A f \in Frames : /\ Told(f) => /\ f.h \in Handles /\ f.id \in 1 .. MaxMade
                                     /\ f.at \in {"nccreate", "create"}
                       /\ ~ Told(f) => f.cls \in Classes \union Controls /\ f.parent \in BOOLEAN
  /\ \A h \in Handles, id \in 1 .. MaxMade :
       /\ Frame(h, id) \in Frames /\ Told(Frame(h, id))
       /\ Frame(h, id).h = h /\ Frame(h, id).id = id
  /\ \A c \in Classes \union Controls, p \in BOOLEAN :
       Hook(c, p) \in Frames /\ ~ Told(Hook(c, p))
BY DEF Frames, Told, Frame, Hook

LEMMA Appended ==
  ASSUME NEW S, NEW s \in Seq(S), NEW x \in S
  PROVE  /\ Append(s, x) \in Seq(S) /\ Len(Append(s, x)) = Len(s) + 1
         /\ DOMAIN Append(s, x) = 1 .. Len(s) + 1 /\ DOMAIN s = 1 .. Len(s) /\ Len(s) \in Nat
         /\ \A i \in 1 .. Len(s) : Append(s, x)[i] = s[i]
         /\ Append(s, x)[Len(s) + 1] = x
BY AppendProperties

(* t is s without its last element.                                          *)
Extends(s, t) == /\ s \in Seq(Frames) /\ t \in Seq(Frames) /\ Len(s) = Len(t) + 1
                 /\ \A i \in 1 .. Len(t) : s[i] = t[i]

LEMMA BelowIs ==
  ASSUME stack \in Seq(Frames), stack # <<>>
  PROVE  Extends(stack, Below) /\ Len(stack) \in Nat \ {0} /\ Last = stack[Len(stack)] /\ Last \in Frames
<1>1. Len(stack) \in Nat /\ Len(stack) # 0 /\ \A i \in 1 .. Len(stack) : stack[i] \in Frames
  BY EmptySeq
<1>2. /\ Below \in Seq(Frames) /\ Len(Below) = Len(stack) - 1
      /\ \A i \in 1 .. Len(stack) - 1 : Below[i] = stack[i]
  <2>1. \A i \in 1 .. Len(stack) - 1 : stack[i] \in Frames
    BY <1>1
  <2>2. Len(stack) - 1 \in Int /\ 1 \in Int
    BY <1>1
  <2>3. /\ SubSeq(stack, 1, Len(stack) - 1) \in Seq(Frames)
        /\ Len(SubSeq(stack, 1, Len(stack) - 1))
             = IF 1 <= Len(stack) - 1 THEN Len(stack) - 1 - 1 + 1 ELSE 0
        /\ \A i \in 1 .. Len(stack) - 1 - 1 + 1 :
             SubSeq(stack, 1, Len(stack) - 1)[i] = stack[1 + i - 1]
    BY <2>1, <2>2, SubSeqProperties
  <2>4. Len(stack) - 1 - 1 + 1 = Len(stack) - 1 /\ Len(stack) - 1 \in Nat
    BY <1>1
  <2>5. Len(Below) = Len(stack) - 1
    BY <2>3, <2>4 DEF Below
  <2>6. \A i \in 1 .. Len(stack) - 1 : 1 + i - 1 = i
    BY <1>1
  <2>7. \A i \in 1 .. Len(stack) - 1 : Below[i] = stack[i]
    BY <2>3, <2>4, <2>6 DEF Below
  <2> QED BY <2>3, <2>5, <2>7 DEF Below
<1> QED BY <1>1, <1>2 DEF Extends, Last

(* Of a set of indices, what one more index adds.                            *)
LEMMA CountTop ==
  ASSUME NEW n \in Nat, NEW T \in SUBSET (1 .. n + 1)
  PROVE  /\ IsFiniteSet(T) /\ Cardinality(T) \in Nat
         /\ Cardinality(T \intersect (1 .. n)) \in Nat
         /\ Cardinality(T) = Cardinality(T \intersect (1 .. n)) + (IF n + 1 \in T THEN 1 ELSE 0)
<1> DEFINE U == T \intersect (1 .. n)
<1>0. /\ \A i \in 1 .. n + 1 : i = n + 1 \/ i \in 1 .. n
      /\ n + 1 \notin 1 .. n
  OBVIOUS
<1>1. IsFiniteSet(1 .. n + 1)
  BY FS_Interval
<1>2. IsFiniteSet(T) /\ IsFiniteSet(U)
  BY <1>1, FS_Subset
<1>3. Cardinality(T) \in Nat /\ Cardinality(U) \in Nat
  BY <1>2, FS_CardinalityType
<1>4. CASE n + 1 \in T
  <2>1. T = U \union {n + 1} /\ n + 1 \notin U
    BY <1>0, <1>4
  <2>2. Cardinality(U \union {n + 1}) = Cardinality(U) + 1
    BY <1>2, <2>1, FS_AddElement
  <2> QED BY <1>2, <1>3, <1>4, <2>1, <2>2
<1>5. CASE n + 1 \notin T
  <2>1. T = U
    BY <1>0, <1>5
  <2> QED BY <1>2, <1>3, <1>5, <2>1
<1> QED BY <1>4, <1>5

Tells(f) == f.at # "hook" /\ f.h[1] # "kid"

LEMMA CountsAre ==
  ASSUME NEW s \in Seq(Frames)
  PROVE  Cardinality(Telling(s)) \in Nat /\ Cardinality(Hooks(s)) \in Nat
<1>1. Len(s) \in Nat /\ Telling(s) \in SUBSET (1 .. Len(s)) /\ Hooks(s) \in SUBSET (1 .. Len(s))
  BY DEF Telling, Hooks
<1>2. IsFiniteSet(1 .. Len(s))
  BY <1>1, FS_Interval
<1> QED BY <1>1, <1>2, FS_Subset, FS_CardinalityType

LEMMA OneFrame ==
  ASSUME NEW s, NEW t, Extends(s, t)
  PROVE  /\ Cardinality(Telling(s)) = Cardinality(Telling(t))
                                       + (IF Tells(s[Len(s)]) THEN 1 ELSE 0)
         /\ Cardinality(Hooks(s)) = Cardinality(Hooks(t)) + (IF Told(s[Len(s)]) THEN 0 ELSE 1)
         /\ Cardinality(Telling(s)) \in Nat /\ Cardinality(Telling(t)) \in Nat
         /\ Cardinality(Hooks(s)) \in Nat /\ Cardinality(Hooks(t)) \in Nat
<1> DEFINE n == Len(t)
<1>1. /\ n \in Nat /\ Len(s) = n + 1 /\ DOMAIN s = 1 .. n + 1 /\ DOMAIN t = 1 .. n
      /\ \A i \in 1 .. n : s[i] = t[i]
  BY DEF Extends
<1> HIDE DEF n
<1>2. /\ Telling(s) \in SUBSET (1 .. n + 1) /\ Telling(s) \intersect (1 .. n) = Telling(t)
      /\ n + 1 \in Telling(s) <=> Tells(s[n + 1])
  BY <1>1 DEF Telling, Tells
<1>3. /\ Hooks(s) \in SUBSET (1 .. n + 1) /\ Hooks(s) \intersect (1 .. n) = Hooks(t)
      /\ n + 1 \in Hooks(s) <=> ~ Told(s[n + 1])
  BY <1>1 DEF Hooks, Told
<1>4. /\ Cardinality(Telling(s)) \in Nat /\ Cardinality(Telling(t)) \in Nat
      /\ Cardinality(Telling(s)) = Cardinality(Telling(t)) + (IF n + 1 \in Telling(s) THEN 1 ELSE 0)
  BY <1>1, <1>2, CountTop
<1>5. /\ Cardinality(Hooks(s)) \in Nat /\ Cardinality(Hooks(t)) \in Nat
      /\ Cardinality(Hooks(s)) = Cardinality(Hooks(t)) + (IF n + 1 \in Hooks(s) THEN 1 ELSE 0)
  BY <1>1, <1>3, CountTop
<1> QED BY <1>1, <1>2, <1>3, <1>4, <1>5

LEMMA AppendExtends ==
  ASSUME NEW s \in Seq(Frames), NEW f \in Frames
  PROVE  Extends(Append(s, f), s) /\ Append(s, f)[Len(Append(s, f))] = f
BY Appended DEF Extends

-----------------------------------------------------------------------------
(* A window more, its creation's frame on the stack if it is told of it.     *)

LEMMA Grown ==
  ASSUME win \in Seq(WinType), NEW s \in Seq(Frames), MakingOK(s),
         depth = Cardinality(Telling(s)), depth <= Len(win),
         Len(win) + Cardinality(Hooks(s)) < MaxMade,
         NEW told \in BOOLEAN, NEW r \in WinType,
         r.fate = (IF told THEN "making" ELSE "alive"), win' = Append(win, r),
         stack' = (IF told THEN Append(s, Frame(r.h, NewId)) ELSE s),
         depth' = (IF told /\ r.h[1] # "kid" THEN depth + 1 ELSE depth)
  PROVE  MakingOK(stack)' /\ CountsOK(stack)' /\ stack' \in Seq(Frames)
         /\ depth' \in 0 .. MaxMade
<1> DEFINE f == Frame(r.h, NewId)
<1>0. /\ Len(win) \in Nat /\ DOMAIN win = 1 .. Len(win) /\ win' \in Seq(WinType)
      /\ Len(win') = Len(win) + 1 /\ DOMAIN win' = 1 .. Len(win) + 1
      /\ \A w \in 1 .. Len(win) : win'[w] = win[w]
      /\ win'[Len(win) + 1] = r
  BY Appended
<1>1. Cardinality(Hooks(s)) \in Nat /\ Cardinality(Telling(s)) \in Nat
  BY CountsAre
<1>2. /\ NewId = Len(win) + 1 /\ NewId \in 1 .. MaxMade /\ MaxMade \in Nat /\ r.h \in Handles
  BY <1>0, <1>1, TablesAssumption DEF NewId, WinType
<1>3. /\ f \in Frames /\ Told(f) /\ f.h = r.h /\ f.id = NewId
  BY <1>2, FrameShape
<1>4. /\ \A i \in DOMAIN s : Told(s[i]) =>
            /\ s[i].id \in 1 .. Len(win) /\ win[s[i].id].h = s[i].h
            /\ win[s[i].id].fate \in {"making", "destroyed"}
      /\ \A i, j \in DOMAIN s : Told(s[i]) /\ Told(s[j]) /\ s[i].id = s[j].id => i = j
      /\ \A w \in 1 .. Len(win) : win[w].fate = "making" =>
            \E i \in DOMAIN s : Told(s[i]) /\ s[i].id = w
  BY <1>0 DEF MakingOK
<1> HIDE DEF f
<1>5. CASE ~ told
  <2>1. stack' = s /\ depth' = depth
    BY <1>5
  <2>2. MakingOK(stack)'
    BY <1>0, <1>4, <1>5, <2>1 DEF MakingOK
  <2>3. CountsOK(stack)'
    BY <1>0, <1>1, <1>2, <2>1 DEF CountsOK
  <2> QED BY <1>0, <1>1, <1>2, <2>1, <2>2, <2>3
<1>6. CASE told
  <2>1. stack' = Append(s, f)
    BY <1>6 DEF f
  <2>2. /\ stack' \in Seq(Frames) /\ Len(stack') = Len(s) + 1 /\ Len(s) \in Nat
        /\ DOMAIN stack' = 1 .. Len(s) + 1 /\ DOMAIN s = 1 .. Len(s)
        /\ \A i \in 1 .. Len(s) : stack'[i] = s[i]
        /\ stack'[Len(s) + 1] = f
    BY <1>3, <2>1, Appended
  <2>3. /\ \A i \in 1 .. Len(s) + 1 : i = Len(s) + 1 \/ i \in 1 .. Len(s)
        /\ \A w \in 1 .. Len(win) + 1 : w = Len(win) + 1 \/ w \in 1 .. Len(win)
        /\ Len(win) + 1 \notin 1 .. Len(win) /\ Len(s) + 1 \in 1 .. Len(s) + 1
    BY <1>0, <2>2
  <2>4. \A i \in DOMAIN stack' : Told(stack'[i]) =>
            /\ stack'[i].id \in DOMAIN win' /\ win'[stack'[i].id].h = stack'[i].h
            /\ win'[stack'[i].id].fate \in {"making", "destroyed"}
    <3> SUFFICES ASSUME NEW i \in DOMAIN stack', Told(stack'[i])
                 PROVE  /\ stack'[i].id \in DOMAIN win' /\ win'[stack'[i].id].h = stack'[i].h
                        /\ win'[stack'[i].id].fate \in {"making", "destroyed"}
      OBVIOUS
    <3>1. CASE i = Len(s) + 1
      BY <1>0, <1>2, <1>3, <1>6, <2>2, <3>1
    <3>2. CASE i \in 1 .. Len(s)
      <4>1. s[i].id \in 1 .. Len(win) /\ win'[s[i].id] = win[s[i].id]
        BY <1>0, <1>4, <2>2, <3>2
      <4> QED BY <1>0, <1>4, <2>2, <3>2, <4>1
    <3> QED BY <2>2, <2>3, <3>1, <3>2
  <2>5. \A i, j \in DOMAIN stack' :
          Told(stack'[i]) /\ Told(stack'[j]) /\ stack'[i].id = stack'[j].id => i = j
    BY <1>2, <1>3, <1>4, <2>2, <2>3
  <2>6. \A w \in DOMAIN win' : win'[w].fate = "making" =>
          \E i \in DOMAIN stack' : Told(stack'[i]) /\ stack'[i].id = w
    <3> SUFFICES ASSUME NEW w \in DOMAIN win', win'[w].fate = "making"
                 PROVE  \E i \in DOMAIN stack' : Told(stack'[i]) /\ stack'[i].id = w
      OBVIOUS
    <3>1. CASE w = Len(win) + 1
      BY <1>2, <1>3, <2>2, <2>3, <3>1
    <3>2. CASE w \in 1 .. Len(win)
      <4>1. PICK i \in DOMAIN s : Told(s[i]) /\ s[i].id = w
        BY <1>0, <1>4, <3>2
      <4>2. i \in 1 .. Len(s) /\ i \in DOMAIN stack'
        BY <2>2
      <4>3. stack'[i] = s[i]
        BY <2>2, <4>2
      <4> QED BY <4>1, <4>2, <4>3
    <3> QED BY <1>0, <2>3, <3>1, <3>2
  <2>7. MakingOK(stack)'
    BY <2>4, <2>5, <2>6 DEF MakingOK
  <2>8. /\ Cardinality(Telling(stack')) = Cardinality(Telling(s)) + (IF Tells(f) THEN 1 ELSE 0)
        /\ Cardinality(Hooks(stack')) = Cardinality(Hooks(s))
    <3>1. Extends(stack', s) /\ stack'[Len(stack')] = f
      BY <1>3, <2>1, AppendExtends
    <3>2. /\ Cardinality(Telling(stack')) = Cardinality(Telling(s))
                                       + (IF Tells(stack'[Len(stack')]) THEN 1 ELSE 0)
          /\ Cardinality(Hooks(stack')) = Cardinality(Hooks(s))
                                       + (IF Told(stack'[Len(stack')]) THEN 0 ELSE 1)
      BY <3>1, OneFrame
    <3> QED BY <1>1, <1>3, <3>1, <3>2
  <2>9. Tells(f) <=> r.h[1] # "kid"
    BY <1>3 DEF Tells, Told
  <2>10. CountsOK(stack)'
    BY <1>0, <1>1, <1>2, <1>6, <2>8, <2>9 DEF CountsOK
  <2> QED BY <1>0, <1>1, <1>2, <1>6, <2>2, <2>7, <2>10
<1> QED BY <1>5, <1>6

(* The frames below the last one are of other windows.                       *)
LEMMA Shrunk ==
  ASSUME stack \in Seq(Frames), MakingOK(stack), CountsOK(stack), stack # <<>>, Told(Last),
         Len(win) \in Nat, Len(win') = Len(win), DOMAIN win' = DOMAIN win,
         DOMAIN win = 1 .. Len(win),
         \A w \in DOMAIN win : win'[w].h = win[w].h,
         \A w \in DOMAIN win \ {Last.id} : win'[w] = win[w],
         win'[Last.id].fate # "making",
         stack' = Below, depth' = Shallower
  PROVE  MakingOK(stack)' /\ CountsOK(stack)' /\ stack' \in Seq(Frames) /\ depth' \in 0 .. MaxMade
<1> DEFINE n == Len(Below)
<1>0. /\ Extends(stack, Below) /\ Below \in Seq(Frames)
      /\ n \in Nat /\ Len(stack) = n + 1 /\ DOMAIN stack = 1 .. n + 1 /\ DOMAIN Below = 1 .. n
      /\ \A i \in 1 .. n : stack[i] = Below[i]
      /\ Last = stack[n + 1]
  BY BelowIs DEF Extends
<1> HIDE DEF n
<1>1. /\ \A i \in 1 .. n + 1 : i = n + 1 \/ i \in 1 .. n
      /\ n + 1 \notin 1 .. n /\ 1 .. n \subseteq 1 .. n + 1 /\ n + 1 \in 1 .. n + 1
  BY <1>0
<1>2. /\ \A i \in 1 .. n + 1 : Told(stack[i]) =>
            /\ stack[i].id \in DOMAIN win /\ win[stack[i].id].h = stack[i].h
            /\ win[stack[i].id].fate \in {"making", "destroyed"}
      /\ \A i, j \in 1 .. n + 1 : Told(stack[i]) /\ Told(stack[j]) /\ stack[i].id = stack[j].id => i = j
      /\ \A w \in DOMAIN win : win[w].fate = "making" =>
            \E i \in 1 .. n + 1 : Told(stack[i]) /\ stack[i].id = w
  BY <1>0 DEF MakingOK
<1>3. ASSUME NEW i \in 1 .. n, Told(Below[i])
      PROVE  /\ Below[i].id \in DOMAIN win' /\ win'[Below[i].id].h = Below[i].h
             /\ win'[Below[i].id].fate \in {"making", "destroyed"}
  <2>1. stack[i] = Below[i] /\ i \in 1 .. n + 1 /\ i # n + 1
    BY <1>0, <1>1, <1>3
  <2>2. Below[i].id # Last.id
    BY <1>0, <1>1, <1>2, <1>3, <2>1
  <2>3. Below[i].id \in DOMAIN win /\ win'[Below[i].id] = win[Below[i].id]
    BY <1>2, <1>3, <2>1, <2>2
  <2> QED BY <1>2, <1>3, <2>1, <2>3
<1>4. ASSUME NEW w \in DOMAIN win', win'[w].fate = "making"
      PROVE  \E i \in 1 .. n : Told(Below[i]) /\ Below[i].id = w
  <2>1. w # Last.id /\ w \in DOMAIN win /\ win[w].fate = "making"
    BY <1>4
  <2>2. PICK i \in 1 .. n + 1 : Told(stack[i]) /\ stack[i].id = w
    BY <1>2, <2>1
  <2> QED BY <1>0, <1>1, <2>1, <2>2
<1>5. MakingOK(stack)'
  <2>1. DOMAIN stack' = 1 .. n /\ stack' = Below
    BY <1>0
  <2>2. \A i, j \in 1 .. n : Told(Below[i]) /\ Told(Below[j]) /\ Below[i].id = Below[j].id => i = j
    BY <1>0, <1>1, <1>2
  <2> QED BY <1>3, <1>4, <2>1, <2>2 DEF MakingOK
<1>6. /\ Cardinality(Telling(stack)) = Cardinality(Telling(Below)) + (IF Tells(Last) THEN 1 ELSE 0)
      /\ Cardinality(Hooks(stack)) = Cardinality(Hooks(Below))
      /\ Cardinality(Telling(Below)) \in Nat /\ Cardinality(Hooks(Below)) \in Nat
  <2>1. /\ Cardinality(Telling(stack)) = Cardinality(Telling(Below))
                                           + (IF Tells(stack[Len(stack)]) THEN 1 ELSE 0)
        /\ Cardinality(Hooks(stack)) = Cardinality(Hooks(Below))
                                         + (IF Told(stack[Len(stack)]) THEN 0 ELSE 1)
        /\ Cardinality(Telling(Below)) \in Nat /\ Cardinality(Hooks(Below)) \in Nat
    BY <1>0, OneFrame
  <2> QED BY <1>0, <2>1
<1>7. depth' = Cardinality(Telling(Below)) /\ depth' <= depth
  BY <1>6 DEF Shallower, Tells, Told, CountsOK
<1>8. CountsOK(stack)'
  BY <1>6, <1>7 DEF CountsOK
<1>9. depth' \in 0 .. MaxMade
  BY <1>6, <1>7, TablesAssumption DEF CountsOK
<1> QED BY <1>0, <1>5, <1>8, <1>9

(* WM_NCCREATE has been answered: the frame is that of WM_CREATE now.        *)
LEMMA Restaged ==
  ASSUME stack \in Seq(Frames), MakingOK(stack), CountsOK(stack), stack # <<>>, Told(Last),
         UNCHANGED <<win, depth>>, stack' = [stack EXCEPT ![Len(stack)].at = "create"]
  PROVE  MakingOK(stack)' /\ CountsOK(stack)' /\ stack' \in Seq(Frames)
<1>0. /\ Len(stack) \in Nat \ {0} /\ DOMAIN stack = 1 .. Len(stack) /\ Last = stack[Len(stack)]
      /\ Last \in Frames /\ \A i \in DOMAIN stack : stack[i] \in Frames
  BY BelowIs
<1>1. /\ Last.h \in Handles /\ Last.id \in 1 .. MaxMade
      /\ [Last EXCEPT !.at = "create"] \in Frames /\ [Last EXCEPT !.at = "create"].h = Last.h
      /\ [Last EXCEPT !.at = "create"].id = Last.id /\ Told([Last EXCEPT !.at = "create"])
  BY <1>0 DEF Frames, Told
<1>2. /\ DOMAIN stack' = DOMAIN stack /\ Len(stack') = Len(stack)
      /\ stack'[Len(stack)] = [Last EXCEPT !.at = "create"]
      /\ \A i \in DOMAIN stack \ {Len(stack)} : stack'[i] = stack[i]
      /\ stack' \in Seq(Frames)
  BY <1>0, <1>1
<1>3. \A i \in DOMAIN stack : /\ Told(stack'[i]) <=> Told(stack[i])
                              /\ Told(stack[i]) => stack'[i].h = stack[i].h /\ stack'[i].id = stack[i].id
  BY <1>0, <1>1, <1>2
<1>4. Telling(stack') = Telling(stack) /\ Hooks(stack') = Hooks(stack)
  BY <1>2, <1>3 DEF Telling, Hooks, Told
<1>5. MakingOK(stack)'
  BY <1>2, <1>3 DEF MakingOK
<1>6. CountsOK(stack)'
  BY <1>4 DEF CountsOK
<1> QED BY <1>2, <1>5, <1>6

(* The calls in progress, when a window is changed or destroyed meanwhile.   *)
LEMMA StackStays ==
  ASSUME MakingOK(stack), CountsOK(stack), UNCHANGED <<stack, depth>>,
         Len(win') = Len(win), DOMAIN win' = DOMAIN win,
         \A w \in DOMAIN win : /\ win'[w].h = win[w].h
                               /\ win'[w].fate = win[w].fate \/ win'[w].fate = "destroyed"
  PROVE  MakingOK(stack)' /\ CountsOK(stack)'
<1>1. MakingOK(stack)'
  BY DEF MakingOK
<1>2. CountsOK(stack)'
  BY DEF CountsOK
<1> QED BY <1>1, <1>2

Fates == {"making", "alive", "cancelled", "destroyed"}

LEMMA WinIs ==
  ASSUME TypeOK
  PROVE  /\ win \in Seq(WinType) /\ Len(win) \in Nat /\ DOMAIN win = 1 .. Len(win)
         /\ \A w \in DOMAIN win : win[w] \in WinType
         /\ top \in Seq(TopType) /\ Len(top) \in 0 .. NTops /\ DOMAIN top = 1 .. Len(top)
         /\ NTops \in Nat /\ NKids \in Nat /\ MaxMade \in Nat
         /\ kid \in [1 .. NKids -> KidType] /\ stack \in Seq(Frames)
<1>1. win \in Seq(WinType) /\ top \in Seq(TopType) /\ Len(top) <= NTops
  BY DEF TypeOK, WinType, TopType
<1>2. NTops \in Nat /\ NKids \in Nat /\ MaxMade \in Nat
  BY TablesAssumption
<1> QED BY <1>1, <1>2 DEF TypeOK, KidType

LEMMA GoneIs ==
  ASSUME TypeOK, NEW w \in DOMAIN win, NEW f \in Fates, win' = Gone(w, f)
  PROVE  /\ win' \in Seq(WinType) /\ Len(win') = Len(win) /\ DOMAIN win' = DOMAIN win
         /\ \A v \in DOMAIN win \ {w} : win'[v] = win[v]
         /\ win'[w] = [h |-> win[w].h, cls |-> None, sub |-> None, fate |-> f]
         /\ win'[w].h = win[w].h /\ win'[w].fate = f
<1>1. /\ win \in Seq(WinType) /\ win[w] \in WinType /\ w \in 1 .. Len(win) /\ Len(win) \in Nat
  BY WinIs
<1>2. [h |-> win[w].h, cls |-> None, sub |-> None, fate |-> f] \in WinType
  BY <1>1 DEF WinType, Fates
<1> QED BY <1>1, <1>2 DEF Gone

LEMMA ClassProcIs ==
  ASSUME TypeOK, NEW c
  PROVE  ClassProc(c) \in Classes \union {None} /\ ClassProc(c) \in Procs \union {None}
BY DEF TypeOK, ClassProc, Procs

-----------------------------------------------------------------------------
(* Creating a window.                                                        *)

(* The window that joins the others.                                         *)
Joins(r) == /\ r \in WinType /\ win' = Append(win, r) /\ r.fate \in {"making", "alive"}
            /\ r.sub = None

LEMMA JoinsAs ==
  ASSUME TypeOK, NEW r, Joins(r)
  PROVE  /\ win' \in Seq(WinType) /\ Len(win') = Len(win) + 1
         /\ DOMAIN win' = 1 .. Len(win) + 1 /\ DOMAIN win = 1 .. Len(win) /\ Len(win) \in Nat
         /\ \A w \in DOMAIN win : win'[w] = win[w] /\ w \in DOMAIN win' /\ w # Len(win) + 1
         /\ \A w \in DOMAIN win' : w = Len(win) + 1 \/ w \in DOMAIN win
         /\ win'[Len(win) + 1] = r /\ Len(win) + 1 \in DOMAIN win'
         /\ r.h \in Handles
<1>1. win \in Seq(WinType) /\ r \in WinType
  BY WinIs DEF Joins
<1>2. /\ win' \in Seq(WinType) /\ Len(win') = Len(win) + 1
      /\ DOMAIN win' = 1 .. Len(win) + 1 /\ DOMAIN win = 1 .. Len(win) /\ Len(win) \in Nat
      /\ \A w \in 1 .. Len(win) : win'[w] = win[w]
      /\ win'[Len(win) + 1] = r
  BY <1>1, Appended DEF Joins
<1> QED BY <1>1, <1>2 DEF WinType

(* A window that joins under a handle that is not minted.                    *)
LEMMA NotMinted ==
  ASSUME TypeOK, MintedOK, NEW r, Joins(r), r.h[1] # "top", UNCHANGED <<top, sub>>
  PROVE  MintedOK'
<1>0. /\ \A w \in DOMAIN win : win'[w] = win[w] /\ w \in DOMAIN win'
      /\ \A w \in DOMAIN win' : w = Len(win) + 1 \/ w \in DOMAIN win
      /\ win'[Len(win) + 1] = r
  BY JoinsAs
<1>1. \A w \in DOMAIN win' : IsTop(w)' => w \in DOMAIN win /\ IsTop(w) /\ win'[w] = win[w]
  BY <1>0 DEF IsTop
<1>2. \A v, w \in DOMAIN win' : IsTop(v)' /\ win'[v].h = win'[w].h => v = w
  <2> SUFFICES ASSUME NEW v \in DOMAIN win', NEW w \in DOMAIN win', IsTop(v)', win'[v].h = win'[w].h
               PROVE  v = w
    OBVIOUS
  <2>1. IsTop(w)'
    BY DEF IsTop
  <2>2. v \in DOMAIN win /\ w \in DOMAIN win /\ IsTop(v) /\ win[v].h = win[w].h
    BY <1>1, <2>1
  <2> QED BY <2>2 DEF MintedOK
<1>3. ASSUME NEW w \in DOMAIN win', IsTop(w)'
      PROVE  /\ win'[w].h[2] <= Len(top')
             /\ Has(w)' => /\ top'[win'[w].h[2]].live /\ top'[win'[w].h[2]].proc = win'[w].cls
                           /\ sub'[Top(win'[w].h[2])] = win'[w].sub
  <2>1. w \in DOMAIN win /\ IsTop(w) /\ win'[w] = win[w] /\ (Has(w)' => Has(w))
    BY <1>1, <1>3 DEF Has
  <2> QED BY <2>1 DEF MintedOK
<1>4. \A n \in Len(top') + 1 .. NTops : sub'[Top(n)] = None
  BY DEF MintedOK
<1> QED BY <1>2, <1>3, <1>4 DEF MintedOK

(* A window that joins under a handle that is no child's.                    *)
LEMMA NoChild ==
  ASSUME TypeOK, KidsOK, NEW r, Joins(r), r.h[1] # "kid", UNCHANGED kid
  PROVE  KidsOK'
<1>0. /\ \A w \in DOMAIN win : win'[w] = win[w] /\ w \in DOMAIN win'
      /\ \A w \in DOMAIN win' : w = Len(win) + 1 \/ w \in DOMAIN win
      /\ win'[Len(win) + 1] = r
  BY JoinsAs
<1>1. \A w \in DOMAIN win' : win'[w].h[1] = "kid" => w \in DOMAIN win /\ win'[w] = win[w]
  BY <1>0
<1> SUFFICES ASSUME NEW w \in DOMAIN win', Has(w)', win'[w].h[1] = "kid"
             PROVE  /\ kid'[win'[w].h[2]].live
                    /\ \A v \in DOMAIN win' : Has(v)' /\ win'[v].h = win'[w].h => v = w
  BY DEF KidsOK
<1>2. w \in DOMAIN win /\ Has(w) /\ win'[w] = win[w] /\ win[w].h[1] = "kid"
  BY <1>1 DEF Has
<1>3. ASSUME NEW v \in DOMAIN win', Has(v)', win'[v].h = win'[w].h
      PROVE  v \in DOMAIN win /\ Has(v) /\ win[v].h = win[w].h
  <2>1. v \in DOMAIN win /\ win'[v] = win[v]
    BY <1>1, <1>3
  <2> QED BY <1>2, <1>3, <2>1 DEF Has
<1> QED BY <1>2, <1>3 DEF KidsOK

(* Children keep their slots when the others come and go.                    *)
LEMMA LingerStays ==
  ASSUME CancelledKidsLinger, UNCHANGED kid, DOMAIN win' = DOMAIN win,
         \A w \in DOMAIN win : win'[w].h = win[w].h /\ (Holds(w)' <=> Holds(w))
  PROVE  CancelledKidsLinger'
BY DEF CancelledKidsLinger

LEMMA LingerJoins ==
  ASSUME TypeOK, CancelledKidsLinger, NEW r, Joins(r), r.h[1] # "kid", UNCHANGED kid
  PROVE  CancelledKidsLinger'
<1>0. /\ \A w \in DOMAIN win : win'[w] = win[w] /\ w \in DOMAIN win'
      /\ \A w \in DOMAIN win' : w = Len(win) + 1 \/ w \in DOMAIN win
      /\ win'[Len(win) + 1] = r
  BY JoinsAs
<1>1. \A w \in DOMAIN win' : win'[w].h[1] = "kid" =>
        w \in DOMAIN win /\ win'[w] = win[w] /\ (Holds(w)' <=> Holds(w))
  BY <1>0 DEF Holds
<1>2. \A w \in DOMAIN win : Holds(w)' <=> Holds(w)
  BY <1>0 DEF Holds
<1>3. ASSUME NEW i \in 1 .. NKids
      PROVE  kid'[i].live <=> \E w \in DOMAIN win' : win'[w].h = Kid(i) /\ Holds(w)'
  <2>1. Kid(i)[1] = "kid"
    BY DEF Kid
  <2>2. kid[i].live <=> \E w \in DOMAIN win : win[w].h = Kid(i) /\ Holds(w)
    BY DEF CancelledKidsLinger
  <2> QED BY <1>0, <1>1, <1>2, <2>1, <2>2
<1>4. ASSUME NEW v \in DOMAIN win', NEW w \in DOMAIN win', win'[v].h[1] = "kid", Holds(v)', Holds(w)',
             win'[v].h = win'[w].h
      PROVE  v = w
  BY <1>1, <1>4 DEF CancelledKidsLinger
<1> QED BY <1>3, <1>4 DEF CancelledKidsLinger

LEMMA ChildCreated ==
  ASSUME IInv, NEW c \in Classes \union Controls, NEW wide, CreateChild(c, wide),
         Len(win) + Cardinality(Hooks(stack)) < MaxMade
  PROVE  IInv'
<1>0. /\ TypeOK /\ MakingOK(stack) /\ CountsOK(stack) /\ MintedOK /\ KidsOK /\ MainOK
      /\ CancelledTopsAreGone /\ CancelledKidsLinger /\ win \in Seq(WinType) /\ stack \in Seq(Frames)
      /\ NKids \in Nat /\ kid \in [1 .. NKids -> KidType]
      /\ UNCHANGED <<eventsOn, registered, top, taken, mainProc, lastProc, sub, words, depth, hooked, crowded>>
  BY WinIs DEF IInv, WindowsOK, CreateChild
<1>1. PICK i \in 1 .. NKids :
        LET proc == IF wide /\ c \in registered THEN c ELSE kid[i].proc
            silent == proc = None \/ c \in Tooltips
        IN  /\ FreeKid(i)
            /\ kid' = [kid EXCEPT ![i] = [live |-> TRUE, proc |-> proc]]
            /\ NewWin(Kid(i), None, IF silent THEN "alive" ELSE "making")
            /\ stack' = IF silent THEN stack ELSE Append(stack, Frame(Kid(i), NewId))
  BY DEF CreateChild
<1> DEFINE proc == IF wide /\ c \in registered THEN c ELSE kid[i].proc
           told == ~ (proc = None \/ c \in Tooltips)
           r == [h |-> Kid(i), cls |-> None, sub |-> None,
                 fate |-> IF told THEN "making" ELSE "alive"]
<1>2. /\ FreeKid(i) /\ kid' = [kid EXCEPT ![i] = [live |-> TRUE, proc |-> proc]]
      /\ win' = Append(win, r) /\ stack' = IF told THEN Append(stack, Frame(r.h, NewId)) ELSE stack
      /\ told \in BOOLEAN
  BY <1>1 DEF NewWin
<1>3. /\ r \in WinType /\ r.h = Kid(i) /\ r.h[1] = "kid" /\ r.sub = None
      /\ r.fate = (IF told THEN "making" ELSE "alive")
  BY <1>0, HandleShape, ClassProcIs DEF WinType
<1>4. proc \in Classes \union {None}
  BY <1>0 DEF TypeOK, KidType
<1> HIDE DEF proc, told, r
<1>5. MakingOK(stack)' /\ CountsOK(stack)' /\ stack' \in Seq(Frames) /\ depth' \in 0 .. MaxMade
  BY <1>0, <1>2, <1>3, Grown DEF CountsOK
<1>6. Joins(r)
  BY <1>2, <1>3 DEF Joins
<1>7. TypeOK'
  <2>1. win' \in Seq(WinType)
    BY <1>0, <1>6, JoinsAs
  <2>2. kid' \in [1 .. NKids -> KidType]
    BY <1>0, <1>2, <1>4 DEF KidType
  <2> QED BY <1>0, <1>5, <2>1, <2>2 DEF TypeOK, WinType, KidType
<1>8. /\ ~ kid[i].live /\ kid'[i].live
      /\ \A j \in 1 .. NKids \ {i} : kid'[j] = kid[j]
  BY <1>0, <1>2 DEF FreeKid
<1>9. MintedOK'
  <2>0. r.h[1] # "top" /\ UNCHANGED <<top, sub>>
    BY <1>0, <1>3
  <2> QED BY <1>0, <1>6, <2>0, NotMinted
<1>10. KidsOK'
  <2>1. ASSUME NEW w \in DOMAIN win, Has(w), win[w].h[1] = "kid"
        PROVE  win[w].h # Kid(i) /\ kid'[win[w].h[2]].live
    <3>1. kid[win[w].h[2]].live
      BY <1>0, <2>1 DEF KidsOK
    <3>2. win[w].h \in Handles
      BY <1>0, WinIs DEF WinType
    <3>3. win[w].h[2] \in 1 .. NKids /\ win[w].h = Kid(win[w].h[2])
      BY <2>1, <3>2, HandleShape
    <3> QED BY <1>8, <3>1, <3>3, HandleShape
  <2>2. ASSUME NEW w \in DOMAIN win', Has(w)', win'[w].h[1] = "kid"
        PROVE  /\ kid'[win'[w].h[2]].live
               /\ \A v \in DOMAIN win' : Has(v)' /\ win'[v].h = win'[w].h => v = w
    <3>1. CASE w = Len(win) + 1
      BY <1>0, <1>3, <1>6, <1>8, <2>1, <3>1, JoinsAs, HandleShape DEF Has
    <3>2. CASE w \in DOMAIN win
      <4>1. win'[w] = win[w] /\ Has(w)
        BY <1>0, <1>6, <2>2, <3>2, JoinsAs DEF Has
      <4>2. win[w].h # Kid(i) /\ kid'[win[w].h[2]].live
        BY <2>1, <2>2, <3>2, <4>1
      <4>3. \A v \in DOMAIN win : Has(v) /\ win[v].h = win[w].h => v = w
        BY <1>0, <2>2, <3>2, <4>1 DEF KidsOK
      <4> QED BY <1>0, <1>3, <1>6, <4>1, <4>2, <4>3, JoinsAs DEF Has
    <3> QED BY <1>0, <1>6, <3>1, <3>2, JoinsAs
  <2> QED BY <2>2 DEF KidsOK
<1>11. MainOK'
  <2>1. r.h # Main
    BY <1>3, HandleShape
  <2> QED BY <1>0, <1>6, <2>1, JoinsAs DEF MainOK, Has
<1>12. CancelledTopsAreGone'
  <2>1. DOMAIN win \subseteq DOMAIN win' /\ \A w \in DOMAIN win : win'[w] = win[w]
    BY <1>0, <1>6, JoinsAs
  <2> QED BY <1>0, <2>1 DEF CancelledTopsAreGone
<1>13. CancelledKidsLinger'
  <2>0. /\ \A w \in DOMAIN win : win'[w] = win[w] /\ w \in DOMAIN win'
        /\ \A w \in DOMAIN win' : w = Len(win) + 1 \/ w \in DOMAIN win
        /\ win'[Len(win) + 1] = r /\ Len(win) + 1 \in DOMAIN win'
        /\ \A w \in DOMAIN win : w # Len(win) + 1
    BY <1>0, <1>6, JoinsAs
  <2>1. \A w \in DOMAIN win : Holds(w)' <=> Holds(w)
    BY <2>0 DEF Holds
  <2>2. \A w \in DOMAIN win : Holds(w) => win[w].h # Kid(i)
    BY <1>0, <1>8 DEF CancelledKidsLinger
  <2>3. \A w \in DOMAIN win' : w = Len(win) + 1 => Holds(w)' /\ win'[w].h = Kid(i)
    <3>1. r.fate \in {"making", "alive", "cancelled"}
      BY <1>3
    <3> QED BY <1>3, <2>0, <3>1 DEF Holds
  <2>4. ASSUME NEW j \in 1 .. NKids
        PROVE  kid'[j].live <=> \E w \in DOMAIN win' : win'[w].h = Kid(j) /\ Holds(w)'
    <3>1. CASE j = i
      <4>1. kid'[j].live
        BY <1>8, <3>1
      <4>2. \E w \in DOMAIN win' : win'[w].h = Kid(j) /\ Holds(w)'
        BY <2>0, <2>3, <3>1
      <4> QED BY <4>1, <4>2
    <3>2. CASE j # i
      <4>1. Kid(j) # Kid(i)
        BY <3>2 DEF Kid
      <4>2. kid[j].live <=> \E w \in DOMAIN win : win[w].h = Kid(j) /\ Holds(w)
        BY <1>0 DEF CancelledKidsLinger
      <4>3. kid'[j] = kid[j]
        BY <1>8, <3>2
      <4> QED BY <2>0, <2>1, <2>3, <4>1, <4>2, <4>3
    <3> QED BY <3>1, <3>2
  <2>5. ASSUME NEW v \in DOMAIN win', NEW w \in DOMAIN win', win'[v].h[1] = "kid",
               Holds(v)', Holds(w)', win'[v].h = win'[w].h
        PROVE  v = w
    <3>1. CASE v \in DOMAIN win /\ w \in DOMAIN win
      <4>1. win'[v] = win[v] /\ win'[w] = win[w] /\ Holds(v) /\ Holds(w)
        BY <2>0, <2>1, <2>5, <3>1
      <4> QED BY <1>0, <2>5, <3>1, <4>1 DEF CancelledKidsLinger
    <3>2. CASE v = Len(win) + 1 /\ w \in DOMAIN win
      BY <2>0, <2>1, <2>2, <2>3, <2>5, <3>2
    <3>3. CASE w = Len(win) + 1 /\ v \in DOMAIN win
      BY <2>0, <2>1, <2>2, <2>3, <2>5, <3>3
    <3> QED BY <2>0, <3>1, <3>2, <3>3
  <2> QED BY <2>4, <2>5 DEF CancelledKidsLinger
<1> QED BY <1>5, <1>7, <1>9, <1>10, <1>11, <1>12, <1>13 DEF IInv, WindowsOK

(* What the creation of a top-level window is done with: the stack without   *)
(* the hook that let it pass, which counts for the window to come.           *)
Passed(s) == /\ s \in Seq(Frames) /\ MakingOK(s) /\ depth = Cardinality(Telling(s))
             /\ Len(win) + Cardinality(Hooks(s)) < MaxMade

LEMMA MintedCreated ==
  ASSUME IInv, NEW c, NEW under, Passed(under), CreateMinted(c, under), Mints,
         UNCHANGED <<eventsOn, registered, kid, lastProc, sub, words, hooked>>,
         mainProc' \in Procs \union {None}
  PROVE  IInv'
<1> DEFINE n == Len(top) + 1
<1>0. /\ TypeOK /\ MakingOK(stack) /\ CountsOK(stack) /\ MintedOK /\ KidsOK /\ MainOK
      /\ CancelledTopsAreGone /\ CancelledKidsLinger /\ win \in Seq(WinType)
      /\ top \in Seq(TopType) /\ Len(top) \in 0 .. NTops /\ DOMAIN top = 1 .. Len(top)
      /\ NTops \in Nat /\ UNCHANGED <<taken, crowded>>
  BY WinIs DEF IInv, WindowsOK, CreateMinted
<1>n. n \in 1 .. NTops /\ Len(top) \in Nat /\ n = Len(top) + 1
  BY <1>0 DEF Mints
<1> HIDE DEF n
<1> DEFINE proc == IF ClassProc(c) # None THEN ClassProc(c)
                   ELSE IF lastProc # None THEN lastProc ELSE mainProc'
           told == eventsOn /\ proc # None
           r == [h |-> Top(n), cls |-> ClassProc(c), sub |-> None,
                 fate |-> IF told THEN "making" ELSE "alive"]
           e == [live |-> TRUE, proc |-> ClassProc(c)]
<1>1. /\ top' = Append(top, e) /\ win' = Append(win, r) /\ told \in BOOLEAN
      /\ stack' = IF told THEN Append(under, Frame(r.h, NewId)) ELSE under
      /\ depth' = IF told THEN depth + 1 ELSE depth
  BY <1>0 DEF CreateMinted, NewWin, n, TypeOK
<1>2. ClassProc(c) \in Classes \union {None}
  BY <1>0, ClassProcIs
<1>3. /\ r \in WinType /\ r.h = Top(n) /\ r.h[1] = "top" /\ r.h[2] = n /\ r.cls = ClassProc(c)
      /\ r.sub = None /\ r.fate = (IF told THEN "making" ELSE "alive")
  BY <1>n, <1>2, HandleShape DEF WinType
<1>4. e \in TopType /\ e.live /\ e.proc = ClassProc(c)
  BY <1>2 DEF TopType
<1> HIDE DEF proc, told, r, e
<1>5. MakingOK(stack)' /\ CountsOK(stack)' /\ stack' \in Seq(Frames) /\ depth' \in 0 .. MaxMade
  BY <1>0, <1>1, <1>3, Grown DEF CountsOK, Passed
<1>6. Joins(r)
  BY <1>1, <1>3 DEF Joins
<1>7. /\ top' \in Seq(TopType) /\ Len(top') = n /\ DOMAIN top' = 1 .. n
      /\ \A m \in 1 .. Len(top) : top'[m] = top[m]
      /\ top'[n] = e
  BY <1>0, <1>1, <1>4, <1>n, Appended
<1>8. TypeOK'
  <2>1. win' \in Seq(WinType)
    BY <1>0, <1>6, JoinsAs
  <2>2. Len(top') <= NTops
    BY <1>7, <1>n
  <2> QED BY <1>0, <1>5, <1>7, <2>1, <2>2 DEF TypeOK, WinType, TopType
<1>w. \A w \in DOMAIN win : /\ win[w].h \in Handles /\ win[w].h # Top(n)
                            /\ IsTop(w) => /\ win[w].h[2] \in 1 .. Len(top)
                                           /\ win[w].h = Top(win[w].h[2])
  <2> SUFFICES ASSUME NEW w \in DOMAIN win
               PROVE  /\ win[w].h \in Handles /\ win[w].h # Top(n)
                      /\ IsTop(w) => win[w].h[2] \in 1 .. Len(top) /\ win[w].h = Top(win[w].h[2])
    OBVIOUS
  <2>1. win[w].h \in Handles
    BY <1>0, WinIs DEF WinType
  <2>2. IsTop(w) => /\ win[w].h[2] <= Len(top) /\ win[w].h[2] \in 1 .. NTops
                    /\ win[w].h = Top(win[w].h[2])
    BY <1>0, <2>1, HandleShape DEF MintedOK, IsTop
  <2>3. Top(n)[1] = "top" /\ Top(n)[2] = n
    BY <1>n, HandleShape
  <2> QED BY <1>n, <2>1, <2>2, <2>3 DEF IsTop
<1>9. MintedOK'
  <2>1. \A v, w \in DOMAIN win' : IsTop(v)' /\ win'[v].h = win'[w].h => v = w
    BY <1>0, <1>3, <1>6, <1>w, JoinsAs DEF MintedOK, IsTop
  <2>2. ASSUME NEW w \in DOMAIN win', IsTop(w)'
        PROVE  /\ win'[w].h[2] <= Len(top')
               /\ Has(w)' => /\ top'[win'[w].h[2]].live /\ top'[win'[w].h[2]].proc = win'[w].cls
                             /\ sub'[Top(win'[w].h[2])] = win'[w].sub
    <3>1. CASE w = Len(win) + 1
      <4>1. win'[w] = r
        BY <1>0, <1>6, <3>1, JoinsAs
      <4>2. sub[Top(n)] = None
        <5>1. n \in Len(top) + 1 .. NTops
          BY <1>n
        <5> QED BY <1>0, <5>1 DEF MintedOK
      <4> QED BY <1>n, <1>3, <1>4, <1>7, <4>1, <4>2
    <3>2. CASE w \in DOMAIN win
      <4>1. win'[w] = win[w] /\ IsTop(w) /\ win[w].h[2] \in 1 .. Len(top)
        BY <1>0, <1>6, <1>w, <2>2, <3>2, JoinsAs DEF IsTop
      <4>2. Has(w)' => Has(w)
        BY <4>1 DEF Has
      <4>3. Has(w) => /\ top[win[w].h[2]].live /\ top[win[w].h[2]].proc = win[w].cls
                      /\ sub[Top(win[w].h[2])] = win[w].sub
        BY <1>0, <3>2, <4>1 DEF MintedOK
      <4> QED BY <1>n, <1>7, <4>1, <4>2, <4>3
    <3> QED BY <1>0, <1>6, <3>1, <3>2, JoinsAs
  <2>3. \A m \in Len(top') + 1 .. NTops : sub'[Top(m)] = None
    BY <1>0, <1>7, <1>n DEF MintedOK
  <2> QED BY <2>1, <2>2, <2>3 DEF MintedOK
<1>10. KidsOK'
  <2>1. r.h[1] # "kid" /\ UNCHANGED kid
    BY <1>0, <1>3, <1>n, HandleShape
  <2> QED BY <1>0, <1>6, <2>1, NoChild
<1>11. MainOK'
  <2>1. r.h # Main
    BY <1>3, HandleShape
  <2> QED BY <1>0, <1>6, <2>1, JoinsAs DEF MainOK, Has
<1>12. CancelledTopsAreGone'
  <2>1. DOMAIN win \subseteq DOMAIN win' /\ \A w \in DOMAIN win : win'[w] = win[w]
    BY <1>0, <1>6, JoinsAs
  <2>2. ASSUME NEW m \in DOMAIN top', top'[m].live
        PROVE  \E w \in DOMAIN win' : win'[w].h = Top(m) /\ win'[w].fate # "cancelled"
    <3>1. CASE m = n
      <4>1. r.fate # "cancelled"
        BY <1>6 DEF Joins
      <4> QED BY <1>0, <1>3, <1>6, <3>1, <4>1, JoinsAs
    <3>2. CASE m # n
      <4>1. m \in DOMAIN top /\ top[m].live
        BY <1>0, <1>7, <1>n, <2>2, <3>2
      <4> QED BY <1>0, <2>1, <4>1 DEF CancelledTopsAreGone
    <3> QED BY <3>1, <3>2
  <2>3. taken' => \E w \in DOMAIN win' : win'[w].h = Main /\ win'[w].fate \in {"alive", "destroyed"}
    BY <1>0, <2>1 DEF CancelledTopsAreGone
  <2> QED BY <2>2, <2>3 DEF CancelledTopsAreGone
<1>13. CancelledKidsLinger'
  <2>1. r.h[1] # "kid" /\ UNCHANGED kid
    BY <1>3
  <2> QED BY <1>0, <1>6, <2>1, LingerJoins
<1> QED BY <1>5, <1>8, <1>9, <1>10, <1>11, <1>12, <1>13 DEF IInv, WindowsOK

LEMMA MainCreated ==
  ASSUME IInv, NEW c, NEW under, Passed(under), CreateMain(c, under), ~ Mints,
         UNCHANGED <<eventsOn, registered, kid, lastProc, sub, words, hooked>>,
         mainProc' \in Procs \union {None}
  PROVE  IInv'
<1>0. /\ TypeOK /\ MakingOK(stack) /\ CountsOK(stack) /\ MintedOK /\ KidsOK /\ MainOK
      /\ CancelledTopsAreGone /\ CancelledKidsLinger /\ win \in Seq(WinType)
      /\ top' = top /\ Len(top) \in 0 .. NTops /\ NTops \in Nat /\ taken \in BOOLEAN
      /\ crowded \in BOOLEAN
  BY WinIs DEF IInv, WindowsOK, CreateMain, TypeOK
<1> DEFINE told == sub[Main] # None \/ mainProc' # None
           r == [h |-> Main, cls |-> ClassProc(c), sub |-> None,
                 fate |-> IF told THEN "making" ELSE "alive"]
<1>1. /\ win' = Append(win, r) /\ told \in BOOLEAN
      /\ stack' = IF told THEN Append(under, Frame(r.h, NewId)) ELSE under
      /\ depth' = IF told THEN depth + 1 ELSE depth
      /\ taken' = (taken \/ ~ told) /\ crowded' = (crowded \/ Len(top) = NTops)
  BY DEF CreateMain, NewWin
<1>2. ClassProc(c) \in Classes \union {None}
  BY <1>0, ClassProcIs
<1>3. /\ r \in WinType /\ r.h = Main /\ r.h[1] = "main"
      /\ r.sub = None /\ r.fate = (IF told THEN "making" ELSE "alive")
  BY <1>2, HandleShape DEF WinType
<1> HIDE DEF told, r
<1>5. MakingOK(stack)' /\ CountsOK(stack)' /\ stack' \in Seq(Frames) /\ depth' \in 0 .. MaxMade
  BY <1>0, <1>1, <1>3, Grown DEF CountsOK, Passed
<1>6. Joins(r)
  BY <1>1, <1>3 DEF Joins
<1>8. TypeOK'
  <2>1. win' \in Seq(WinType)
    BY <1>0, <1>6, JoinsAs
  <2>2. taken' \in BOOLEAN /\ crowded' \in BOOLEAN
    BY <1>1
  <2> QED BY <1>0, <1>5, <2>1, <2>2 DEF TypeOK, WinType
<1>9. MintedOK'
  <2>0. r.h[1] # "top" /\ UNCHANGED <<top, sub>>
    BY <1>0, <1>3
  <2> QED BY <1>0, <1>6, <2>0, NotMinted
<1>10. KidsOK'
  <2>1. r.h[1] # "kid" /\ UNCHANGED kid
    BY <1>0, <1>3
  <2> QED BY <1>0, <1>6, <2>1, NoChild
<1>11. MainOK'
  <2>0. /\ \A w \in DOMAIN win : win'[w] = win[w]
        /\ \A w \in DOMAIN win' : w = Len(win) + 1 \/ w \in DOMAIN win
        /\ win'[Len(win) + 1] = r
    BY <1>0, <1>6, JoinsAs
  <2>1. ASSUME NEW w \in DOMAIN win', win'[w].h = Main, win'[w].fate = "alive"
        PROVE  taken'
    <3>1. CASE w = Len(win) + 1
      <4>1. r.fate = "alive"
        BY <2>0, <2>1, <3>1
      <4> QED BY <1>1, <1>3, <4>1
    <3>2. CASE w \in DOMAIN win
      <4>1. win[w].h = Main /\ win[w].fate = "alive"
        BY <2>0, <2>1, <3>2
      <4>2. taken
        BY <1>0, <3>2, <4>1 DEF MainOK
      <4> QED BY <1>1, <4>2
    <3> QED BY <2>0, <3>1, <3>2
  <2>2. ASSUME ~ crowded', NEW w \in DOMAIN win, Has(w), win[w].h = Main
        PROVE  FALSE
    <3>1. ~ taken /\ depth = 0
      <4>0. Len(top) # NTops
        BY <1>1, <2>2
      <4>1. Len(top) < NTops
        BY <1>0, <4>0
      <4>2. depth \in Nat
        BY <1>0 DEF TypeOK
      <4> QED BY <4>1, <4>2 DEF Mints
    <3>2. win[w].fate = "making"
      BY <1>0, <2>2, <3>1 DEF Has, MainOK
    <3>3. PICK i \in DOMAIN stack : Told(stack[i]) /\ stack[i].id = w
      BY <1>0, <3>2 DEF MakingOK
    <3>4. stack[i].h = Main
      BY <1>0, <2>2, <3>3 DEF MakingOK
    <3>5. i \in Telling(stack)
      BY <3>3, <3>4, HandleShape DEF Telling, Told
    <3>6. IsFiniteSet(Telling(stack)) /\ Cardinality(Telling(stack)) = 0
      <4>1. stack \in Seq(Frames)
        BY <1>0, WinIs
      <4>2. Len(stack) \in Nat /\ Telling(stack) \in SUBSET (1 .. Len(stack))
        BY <4>1 DEF Telling
      <4>3. IsFiniteSet(1 .. Len(stack))
        BY <4>2, FS_Interval
      <4> QED BY <1>0, <3>1, <4>2, <4>3, FS_Subset DEF CountsOK
    <3> QED BY <3>5, <3>6, FS_EmptySet
  <2>3. ~ crowded' => \A v, w \in DOMAIN win' :
          Has(v)' /\ Has(w)' /\ win'[v].h = Main /\ win'[w].h = Main => v = w
    BY <1>0, <1>6, <2>2, JoinsAs DEF Has
  <2> QED BY <2>1, <2>3 DEF MainOK
<1>12. CancelledTopsAreGone'
  <2>1. DOMAIN win \subseteq DOMAIN win' /\ \A w \in DOMAIN win : win'[w] = win[w]
    BY <1>0, <1>6, JoinsAs
  <2>2. \A m \in DOMAIN top' : top'[m].live =>
          \E w \in DOMAIN win' : win'[w].h = Top(m) /\ win'[w].fate # "cancelled"
    BY <1>0, <2>1 DEF CancelledTopsAreGone
  <2>3. taken' => \E w \in DOMAIN win' : win'[w].h = Main /\ win'[w].fate \in {"alive", "destroyed"}
    <3>1. CASE taken
      BY <1>0, <2>1, <3>1 DEF CancelledTopsAreGone
    <3>2. CASE ~ told
      BY <1>0, <1>3, <1>6, <3>2, JoinsAs
    <3> QED BY <1>1, <3>1, <3>2
  <2> QED BY <2>2, <2>3 DEF CancelledTopsAreGone
<1>13. CancelledKidsLinger'
  <2>1. r.h[1] # "kid" /\ UNCHANGED kid
    BY <1>3
  <2> QED BY <1>0, <1>6, <2>1, LingerJoins
<1> QED BY <1>5, <1>8, <1>9, <1>10, <1>11, <1>12, <1>13 DEF IInv, WindowsOK

LEMMA TopCreated ==
  ASSUME IInv, NEW c, NEW parent, NEW under, Passed(under), CreateTop(c, parent, under)
  PROVE  IInv'
<1>1. UNCHANGED <<eventsOn, registered, kid, lastProc, sub, words, hooked>>
  BY DEF CreateTop
<1>2. mainProc' \in Procs \union {None}
  BY ClassProcIs DEF CreateTop, Snapshot, IInv, TypeOK
<1>3. CASE Mints
  BY <1>1, <1>2, <1>3, MintedCreated DEF CreateTop
<1>4. CASE ~ Mints
  BY <1>1, <1>2, <1>4, MainCreated DEF CreateTop
<1> QED BY <1>3, <1>4

(* A hook's frame on top of the stack makes no window.                       *)
LEMMA HookOnTop ==
  ASSUME NEW s, NEW t, Extends(s, t), ~ Told(s[Len(s)])
  PROVE  MakingOK(s) <=> MakingOK(t)
<1>1. /\ Len(t) \in Nat /\ DOMAIN s = 1 .. Len(t) + 1 /\ DOMAIN t = 1 .. Len(t)
      /\ \A i \in 1 .. Len(t) : s[i] = t[i]
      /\ ~ Told(s[Len(t) + 1])
  BY DEF Extends
<1>2. \A i \in 1 .. Len(t) + 1 : i = Len(t) + 1 \/ i \in 1 .. Len(t)
  BY <1>1
<1>3. /\ \A i \in DOMAIN s : Told(s[i]) => i \in DOMAIN t /\ s[i] = t[i]
      /\ \A i \in DOMAIN t : i \in DOMAIN s /\ s[i] = t[i]
  BY <1>1, <1>2
<1>4. ASSUME MakingOK(t) PROVE MakingOK(s)
  <2>1. \A i \in DOMAIN s : Told(s[i]) =>
          /\ s[i].id \in DOMAIN win /\ win[s[i].id].h = s[i].h
          /\ win[s[i].id].fate \in {"making", "destroyed"}
    BY <1>3, <1>4 DEF MakingOK
  <2>2. \A i, j \in DOMAIN s : Told(s[i]) /\ Told(s[j]) /\ s[i].id = s[j].id => i = j
    BY <1>3, <1>4 DEF MakingOK
  <2>3. \A w \in DOMAIN win : win[w].fate = "making" =>
          \E i \in DOMAIN s : Told(s[i]) /\ s[i].id = w
    BY <1>3, <1>4 DEF MakingOK
  <2> QED BY <2>1, <2>2, <2>3 DEF MakingOK
<1>5. ASSUME MakingOK(s) PROVE MakingOK(t)
  <2>1. \A i \in DOMAIN t : Told(t[i]) =>
          /\ t[i].id \in DOMAIN win /\ win[t[i].id].h = t[i].h
          /\ win[t[i].id].fate \in {"making", "destroyed"}
    BY <1>3, <1>5 DEF MakingOK
  <2>2. \A i, j \in DOMAIN t : Told(t[i]) /\ Told(t[j]) /\ t[i].id = t[j].id => i = j
    BY <1>3, <1>5 DEF MakingOK
  <2>3. \A w \in DOMAIN win : win[w].fate = "making" =>
          \E i \in DOMAIN t : Told(t[i]) /\ t[i].id = w
    BY <1>3, <1>5 DEF MakingOK
  <2> QED BY <2>1, <2>2, <2>3 DEF MakingOK
<1> QED BY <1>4, <1>5

LEMMA WindowsSame ==
  ASSUME WindowsOK, UNCHANGED <<kid, top, taken, sub, win, crowded>>
  PROVE  WindowsOK'
BY DEF WindowsOK, MintedOK, KidsOK, MainOK, CancelledTopsAreGone, CancelledKidsLinger, Holds,
       IsTop, Has

LEMMA CreateStep ==
  ASSUME IInv, CreateWindowEx
  PROVE  IInv'
<1>0. /\ TypeOK /\ MakingOK(stack) /\ CountsOK(stack) /\ WindowsOK /\ stack \in Seq(Frames)
  BY WinIs DEF IInv
<1>1. PICK c \in Classes \union Controls, parent \in BOOLEAN, wide \in BOOLEAN :
        /\ Len(win) + Cardinality(Hooks(stack)) < MaxMade
        /\ \/ CreateChild(c, wide)
           \/ CreateTop(c, parent, stack)
           \/ /\ stack' = Append(stack, Hook(c, parent))
              /\ UNCHANGED <<eventsOn, registered, kid, top, taken, mainProc, lastProc,
                             sub, words, depth, hooked, win, crowded>>
  BY DEF CreateWindowEx, Hooks
<1>2. CASE CreateChild(c, wide)
  BY <1>1, <1>2, ChildCreated
<1>3. CASE CreateTop(c, parent, stack)
  BY <1>0, <1>1, <1>3, TopCreated DEF Passed, CountsOK
<1>4. CASE /\ stack' = Append(stack, Hook(c, parent))
           /\ UNCHANGED <<eventsOn, registered, kid, top, taken, mainProc, lastProc,
                          sub, words, depth, hooked, win, crowded>>
  <2> DEFINE f == Hook(c, parent)
  <2>1. f \in Frames /\ ~ Told(f)
    BY FrameShape
  <2> HIDE DEF f
  <2>2. stack' = Append(stack, f)
    BY <1>4 DEF f
  <2>3. Extends(stack', stack) /\ stack'[Len(stack')] = f
    BY <1>0, <2>1, <2>2, AppendExtends
  <2>4. MakingOK(stack')
    BY <1>0, <2>1, <2>3, HookOnTop
  <2>5. MakingOK(stack)'
    BY <1>4, <2>4 DEF MakingOK
  <2>6. /\ Cardinality(Telling(stack')) = Cardinality(Telling(stack))
                                           + (IF Tells(stack'[Len(stack')]) THEN 1 ELSE 0)
        /\ Cardinality(Hooks(stack')) = Cardinality(Hooks(stack))
                                         + (IF Told(stack'[Len(stack')]) THEN 0 ELSE 1)
        /\ Cardinality(Telling(stack)) \in Nat /\ Cardinality(Hooks(stack)) \in Nat
    BY <2>3, OneFrame
  <2>7. ~ Tells(f)
    BY <2>1 DEF Tells, Told
  <2>8. CountsOK(stack)'
    <3>1. /\ Cardinality(Telling(stack')) = Cardinality(Telling(stack))
          /\ Cardinality(Hooks(stack')) = Cardinality(Hooks(stack)) + 1
      BY <2>1, <2>3, <2>6, <2>7
    <3>2. Len(win) \in Nat /\ MaxMade \in Nat
      BY <1>0, WinIs
    <3> QED BY <1>0, <1>1, <1>4, <2>6, <3>1, <3>2 DEF CountsOK
  <2>9. TypeOK'
    BY <1>0, <1>4, <2>3 DEF TypeOK, Extends
  <2> QED BY <1>0, <1>4, <2>5, <2>8, <2>9, WindowsSame DEF IInv
<1> QED BY <1>1, <1>2, <1>3, <1>4

LEMMA HookStep ==
  ASSUME IInv, HookReturns
  PROVE  IInv'
<1>0. /\ TypeOK /\ MakingOK(stack) /\ CountsOK(stack) /\ WindowsOK /\ stack \in Seq(Frames)
      /\ stack # <<>> /\ Last.at = "hook" /\ Len(win) \in Nat /\ MaxMade \in Nat
  BY WinIs DEF IInv, HookReturns
<1>1. Extends(stack, Below) /\ Last = stack[Len(stack)] /\ ~ Told(Last)
  BY <1>0, BelowIs DEF Told
<1>2. MakingOK(Below)
  BY <1>0, <1>1, HookOnTop
<1>3. /\ Cardinality(Telling(stack)) = Cardinality(Telling(Below))
                                         + (IF Tells(stack[Len(stack)]) THEN 1 ELSE 0)
      /\ Cardinality(Hooks(stack)) = Cardinality(Hooks(Below))
                                       + (IF Told(stack[Len(stack)]) THEN 0 ELSE 1)
      /\ Cardinality(Telling(Below)) \in Nat /\ Cardinality(Hooks(Below)) \in Nat
  BY <1>1, OneFrame
<1>4. /\ Cardinality(Telling(stack)) = Cardinality(Telling(Below))
      /\ Cardinality(Hooks(stack)) = Cardinality(Hooks(Below)) + 1
  <2>1. ~ Tells(Last)
    BY <1>1 DEF Tells, Told
  <2> QED BY <1>1, <1>3, <2>1
<1>5. Passed(Below)
  <2>1. Below \in Seq(Frames)
    BY <1>1 DEF Extends
  <2> QED BY <1>0, <1>2, <1>3, <1>4, <2>1 DEF Passed, CountsOK
<1>6. CASE CreateTop(Last.cls, Last.parent, Below)
  BY <1>5, <1>6, TopCreated
<1>7. CASE /\ stack' = Below
           /\ UNCHANGED <<eventsOn, registered, kid, top, taken, mainProc, lastProc,
                          sub, words, depth, hooked, win, crowded>>
  <2>1. MakingOK(stack)'
    BY <1>2, <1>7 DEF MakingOK
  <2>2. CountsOK(stack)'
    BY <1>0, <1>3, <1>4, <1>7 DEF CountsOK
  <2>3. TypeOK'
    BY <1>0, <1>5, <1>7 DEF TypeOK, Passed
  <2> QED BY <1>0, <1>7, <2>1, <2>2, <2>3, WindowsSame DEF IInv
<1> QED BY <1>6, <1>7 DEF HookReturns

-----------------------------------------------------------------------------
(* A creation message returns.                                               *)

LEMMA MessageStep ==
  ASSUME IInv, MessageReturns
  PROVE  IInv'
<1> DEFINE w0 == Last.id
<1>0. /\ TypeOK /\ MakingOK(stack) /\ CountsOK(stack) /\ WindowsOK /\ stack \in Seq(Frames)
      /\ MintedOK /\ KidsOK /\ MainOK /\ CancelledTopsAreGone /\ CancelledKidsLinger
      /\ stack # <<>> /\ Told(Last) /\ Len(win) \in Nat /\ DOMAIN win = 1 .. Len(win)
      /\ win \in Seq(WinType) /\ \A w \in DOMAIN win : win[w] \in WinType
      /\ UNCHANGED <<eventsOn, registered, kid, mainProc, lastProc, sub, words, hooked, crowded>>
  BY WinIs DEF IInv, MessageReturns, WindowsOK, Told
<1>1. w0 \in DOMAIN win /\ win[w0].h = Last.h /\ win[w0].fate \in {"making", "destroyed"}
      /\ Last.h \in Handles
  BY <1>0, BelowIs, FrameShape DEF MakingOK
<1> HIDE DEF w0
<1>2. CASE /\ stack' = [stack EXCEPT ![Len(stack)].at = "create"]
           /\ UNCHANGED <<top, taken, depth, win>>
  <2>1. MakingOK(stack)' /\ CountsOK(stack)' /\ stack' \in Seq(Frames)
    BY <1>0, <1>2, Restaged
  <2>2. TypeOK'
    BY <1>0, <1>2, <2>1 DEF TypeOK
  <2> QED BY <1>0, <1>2, <2>1, <2>2, WindowsSame DEF IInv
<1>3. CASE /\ stack' = Below /\ depth' = Shallower /\ Made
           /\ taken' = (taken \/ Last.h = Main)
           /\ UNCHANGED top
  <2>1. /\ win' \in Seq(WinType) /\ Len(win') = Len(win) /\ DOMAIN win' = DOMAIN win
        /\ \A w \in DOMAIN win : /\ win'[w].h = win[w].h /\ win'[w].cls = win[w].cls
                                 /\ win'[w].sub = win[w].sub
        /\ \A w \in DOMAIN win \ {w0} : win'[w] = win[w]
        /\ win'[w0].fate = IF win[w0].fate = "making" THEN "alive" ELSE "destroyed"
    <3>1. CASE win[w0].fate = "making"
      <4>1. win' = [win EXCEPT ![w0].fate = "alive"]
        BY <1>3, <3>1 DEF Made, w0
      <4>2. win[w0] \in WinType /\ [win[w0] EXCEPT !.fate = "alive"] \in WinType
        BY <1>0, <1>1 DEF WinType
      <4>3. /\ win' \in Seq(WinType) /\ Len(win') = Len(win) /\ DOMAIN win' = DOMAIN win
            /\ \A w \in DOMAIN win \ {w0} : win'[w] = win[w]
            /\ win'[w0] = [win[w0] EXCEPT !.fate = "alive"]
        BY <1>0, <1>1, <4>1, <4>2
      <4>4. /\ win'[w0].h = win[w0].h /\ win'[w0].cls = win[w0].cls /\ win'[w0].sub = win[w0].sub
            /\ win'[w0].fate = "alive"
        BY <4>2, <4>3 DEF WinType
      <4> QED BY <3>1, <4>3, <4>4
    <3>2. CASE win[w0].fate = "destroyed"
      BY <1>0, <1>3, <3>2 DEF Made, w0
    <3> QED BY <1>1, <3>1, <3>2
  <2>2. \A w \in DOMAIN win : /\ Has(w)' => Has(w)
                              /\ win'[w].fate = "alive" => win[w].fate = "alive" \/ w = w0
                              /\ win'[w].fate = "cancelled" => win[w].fate = "cancelled"
                              /\ win[w].fate \in {"alive", "destroyed"} =>
                                   win'[w].fate \in {"alive", "destroyed"}
    BY <1>1, <2>1 DEF Has
  <2>3. MakingOK(stack)' /\ CountsOK(stack)' /\ stack' \in Seq(Frames) /\ depth' \in 0 .. MaxMade
    <3>1. win'[Last.id].fate # "making"
      BY <2>1 DEF w0
    <3> QED BY <1>0, <1>3, <2>1, <3>1, Shrunk DEF w0
  <2>4. TypeOK'
    BY <1>0, <1>3, <2>1, <2>3 DEF TypeOK, WinType
  <2>5. MintedOK'
    <3>1. \A v, w \in DOMAIN win' : IsTop(v)' /\ win'[v].h = win'[w].h => v = w
      BY <1>0, <2>1 DEF MintedOK, IsTop
    <3>2. ASSUME NEW w \in DOMAIN win', IsTop(w)'
          PROVE  /\ win'[w].h[2] <= Len(top')
                 /\ Has(w)' => /\ top'[win'[w].h[2]].live /\ top'[win'[w].h[2]].proc = win'[w].cls
                               /\ sub'[Top(win'[w].h[2])] = win'[w].sub
      <4>1. /\ w \in DOMAIN win /\ IsTop(w) /\ win'[w].h = win[w].h /\ win'[w].cls = win[w].cls
            /\ win'[w].sub = win[w].sub /\ (Has(w)' => Has(w))
        BY <2>1, <2>2, <3>2 DEF IsTop
      <4>2. /\ win[w].h[2] <= Len(top)
            /\ Has(w) => /\ top[win[w].h[2]].live /\ top[win[w].h[2]].proc = win[w].cls
                         /\ sub[Top(win[w].h[2])] = win[w].sub
        BY <1>0, <4>1 DEF MintedOK
      <4> QED BY <1>0, <1>3, <4>1, <4>2
    <3>3. \A m \in Len(top') + 1 .. NTops : sub'[Top(m)] = None
      BY <1>0, <1>3 DEF MintedOK
    <3> QED BY <3>1, <3>2, <3>3 DEF MintedOK
  <2>6. KidsOK'
    BY <1>0, <2>1, <2>2 DEF KidsOK
  <2>7. MainOK'
    <3>1. ASSUME NEW w \in DOMAIN win', win'[w].h = Main, win'[w].fate = "alive"
          PROVE  taken'
      <4>1. w \in DOMAIN win /\ win[w].h = Main
        BY <2>1, <3>1
      <4>2. CASE w = w0
        BY <1>1, <1>3, <4>1, <4>2
      <4>3. CASE w # w0
        <5>1. win[w].fate = "alive"
          BY <2>2, <3>1, <4>1, <4>3
        <5>2. taken
          BY <1>0, <4>1, <5>1 DEF MainOK
        <5> QED BY <1>3, <5>2
      <4> QED BY <4>2, <4>3
    <3>2. ASSUME ~ crowded', NEW v \in DOMAIN win', NEW w \in DOMAIN win', Has(v)', Has(w)',
                 win'[v].h = Main, win'[w].h = Main
          PROVE  v = w
      <4>1. /\ v \in DOMAIN win /\ Has(v) /\ win[v].h = Main
            /\ w \in DOMAIN win /\ Has(w) /\ win[w].h = Main
        BY <2>1, <2>2, <3>2
      <4>2. ~ crowded
        BY <1>0, <3>2
      <4> QED BY <1>0, <4>1, <4>2 DEF MainOK
    <3> QED BY <3>1, <3>2 DEF MainOK
  <2>8. CancelledTopsAreGone'
    <3>1. \A n \in DOMAIN top' : top'[n].live =>
            \E w \in DOMAIN win' : win'[w].h = Top(n) /\ win'[w].fate # "cancelled"
      BY <1>0, <1>3, <2>1, <2>2 DEF CancelledTopsAreGone
    <3>2. taken' => \E w \in DOMAIN win' : win'[w].h = Main /\ win'[w].fate \in {"alive", "destroyed"}
      <4>1. CASE taken
        BY <1>0, <2>1, <2>2, <4>1 DEF CancelledTopsAreGone
      <4>2. CASE Last.h = Main
        BY <1>1, <2>1, <4>2
      <4> QED BY <1>3, <4>1, <4>2
    <3> QED BY <3>1, <3>2 DEF CancelledTopsAreGone
  <2>9. CancelledKidsLinger'
    <3>1. \A w \in DOMAIN win : Holds(w)' <=> Holds(w)
      BY <1>1, <2>1 DEF Holds
    <3> QED BY <1>0, <2>1, <3>1, LingerStays
  <2> QED BY <2>3, <2>4, <2>5, <2>6, <2>7, <2>8, <2>9 DEF IInv, WindowsOK
<1>4. CASE /\ stack' = Below /\ depth' = Shallower /\ Cancelled
           /\ top' = Unregister
           /\ UNCHANGED taken
  <2>1. /\ win' \in Seq(WinType) /\ Len(win') = Len(win) /\ DOMAIN win' = DOMAIN win
        /\ \A w \in DOMAIN win : win'[w].h = win[w].h
        /\ \A w \in DOMAIN win \ {w0} : win'[w] = win[w]
        /\ win'[w0].fate \in {"cancelled", "destroyed"}
        /\ win[w0].fate = "destroyed" => win' = win
    <3>1. CASE win[w0].fate = "making"
      <4>1. win' = Gone(w0, "cancelled")
        BY <1>4, <3>1 DEF Cancelled, w0
      <4> QED BY <1>0, <1>1, <3>1, <4>1, GoneIs DEF Fates
    <3>2. CASE win[w0].fate = "destroyed"
      BY <1>0, <1>4, <3>2 DEF Cancelled, w0
    <3> QED BY <1>1, <3>1, <3>2
  <2>2. \A w \in DOMAIN win : Has(w)' => Has(w) /\ w # w0 /\ win'[w] = win[w]
    BY <2>1 DEF Has
  <2>3. MakingOK(stack)' /\ CountsOK(stack)' /\ stack' \in Seq(Frames) /\ depth' \in 0 .. MaxMade
    <3>1. win'[Last.id].fate # "making"
      BY <2>1 DEF w0
    <3> QED BY <1>0, <1>4, <2>1, <3>1, Shrunk DEF w0
  <2>4. /\ top' \in Seq(TopType) /\ Len(top') = Len(top) /\ DOMAIN top' = DOMAIN top
        /\ \A n \in DOMAIN top : Last.h # Top(n) => top'[n] = top[n]
        /\ \A n \in DOMAIN top : top'[n].live => top[n].live /\ Last.h # Top(n)
        /\ Len(top') <= NTops
    <3>0. top \in Seq(TopType) /\ Len(top) \in 0 .. NTops /\ DOMAIN top = 1 .. Len(top)
          /\ NTops \in Nat
      BY <1>0, WinIs
    <3>1. CASE Last.h[1] # "top"
      <4>1. top' = top
        BY <1>4, <3>1 DEF Unregister
      <4>2. \A n \in DOMAIN top : Last.h # Top(n)
        BY <3>1 DEF Top
      <4> QED BY <3>0, <4>1, <4>2
    <3>2. CASE Last.h[1] = "top"
      <4> DEFINE n0 == Last.h[2]
      <4>1. Last.h = Top(n0) /\ n0 \in 1 .. NTops /\ n0 <= Len(top)
        BY <1>0, <1>1, <3>2, HandleShape DEF MintedOK, IsTop
      <4>2. n0 \in DOMAIN top
        BY <3>0, <4>1
      <4>3. top' = [top EXCEPT ![n0].live = FALSE]
        BY <1>4, <3>2 DEF Unregister
      <4>5. \A n \in DOMAIN top : Last.h # Top(n) <=> n # n0
        BY <4>1 DEF Top
      <4> HIDE DEF n0
      <4> DEFINE e == [top[n0] EXCEPT !.live = FALSE]
      <4>4. e \in TopType /\ e.live = FALSE
        <5>1. top[n0] \in TopType
          BY <3>0, <4>2
        <5> QED BY <5>1 DEF TopType
      <4>6. top' = [top EXCEPT ![n0] = e]
        BY <3>0, <4>2, <4>3
      <4> HIDE DEF e
      <4>7. /\ top' \in Seq(TopType) /\ Len(top') = Len(top) /\ DOMAIN top' = DOMAIN top
            /\ \A n \in DOMAIN top : n # n0 => top'[n] = top[n]
            /\ top'[n0] = e
        BY <3>0, <4>2, <4>4, <4>6
      <4>8. \A n \in DOMAIN top : top'[n].live => top[n].live /\ n # n0
        BY <4>4, <4>7
      <4> QED BY <3>0, <4>5, <4>7, <4>8
    <3> QED BY <3>1, <3>2
  <2>5. TypeOK'
    BY <1>0, <1>4, <2>1, <2>3, <2>4 DEF TypeOK, WinType, TopType
  <2>6. MintedOK'
    <3>1. \A v, w \in DOMAIN win' : IsTop(v)' /\ win'[v].h = win'[w].h => v = w
      BY <1>0, <2>1 DEF MintedOK, IsTop
    <3>2. ASSUME NEW w \in DOMAIN win', IsTop(w)'
          PROVE  /\ win'[w].h[2] <= Len(top')
                 /\ Has(w)' => /\ top'[win'[w].h[2]].live /\ top'[win'[w].h[2]].proc = win'[w].cls
                               /\ sub'[Top(win'[w].h[2])] = win'[w].sub
      <4> DEFINE n == win[w].h[2]
      <4>1. w \in DOMAIN win /\ IsTop(w) /\ win'[w].h = win[w].h
        BY <2>1, <3>2 DEF IsTop
      <4>2. n <= Len(top) /\ n \in 1 .. NTops /\ win[w].h = Top(n)
        BY <1>0, <4>1, HandleShape DEF MintedOK, IsTop, WinType
      <4>3. n \in DOMAIN top
        BY <1>0, <4>2, WinIs
      <4>4. ASSUME Has(w)'
            PROVE  /\ top'[n].live /\ top'[n].proc = win'[w].cls /\ sub'[Top(n)] = win'[w].sub
        <5>1. Has(w) /\ w # w0 /\ win'[w] = win[w]
          BY <2>2, <4>1, <4>4
        <5>2. Last.h # Top(n)
          BY <1>0, <1>1, <4>1, <4>2, <5>1 DEF MintedOK
        <5>3. top[n].live /\ top[n].proc = win[w].cls /\ sub[Top(n)] = win[w].sub
          BY <1>0, <4>1, <5>1 DEF MintedOK
        <5> QED BY <1>0, <2>4, <4>3, <5>1, <5>2, <5>3
      <4> QED BY <2>4, <4>1, <4>2, <4>4
    <3>3. \A m \in Len(top') + 1 .. NTops : sub'[Top(m)] = None
      BY <1>0, <2>4 DEF MintedOK
    <3> QED BY <3>1, <3>2, <3>3 DEF MintedOK
  <2>7. KidsOK'
    BY <1>0, <2>1, <2>2 DEF KidsOK
  <2>8. MainOK'
    BY <1>0, <1>4, <2>1, <2>2 DEF MainOK, Has
  <2>9. CancelledTopsAreGone'
    <3>1. ASSUME NEW n \in DOMAIN top', top'[n].live
          PROVE  \E w \in DOMAIN win' : win'[w].h = Top(n) /\ win'[w].fate # "cancelled"
      <4>1. n \in DOMAIN top /\ top[n].live /\ Last.h # Top(n)
        BY <2>4, <3>1
      <4>2. PICK w \in DOMAIN win : win[w].h = Top(n) /\ win[w].fate # "cancelled"
        BY <1>0, <4>1 DEF CancelledTopsAreGone
      <4>3. w # w0
        BY <1>1, <4>1, <4>2
      <4> QED BY <2>1, <4>2, <4>3
    <3>2. taken' => \E w \in DOMAIN win' : win'[w].h = Main /\ win'[w].fate \in {"alive", "destroyed"}
      <4> SUFFICES ASSUME taken
                   PROVE  \E w \in DOMAIN win' : win'[w].h = Main /\ win'[w].fate \in {"alive", "destroyed"}
        BY <1>4
      <4>1. PICK w \in DOMAIN win : win[w].h = Main /\ win[w].fate \in {"alive", "destroyed"}
        BY <1>0 DEF CancelledTopsAreGone
      <4>2. win'[w] = win[w]
        BY <1>1, <2>1, <4>1
      <4> QED BY <2>1, <4>1, <4>2
    <3> QED BY <3>1, <3>2 DEF CancelledTopsAreGone
  <2>10. CancelledKidsLinger'
    <3>1. win[w0].fate = "making" => win'[w0].fate = "cancelled"
      BY <1>4, <1>0, <1>1, GoneIs DEF Cancelled, w0, Fates
    <3>2. \A w \in DOMAIN win : Holds(w)' <=> Holds(w)
      BY <1>1, <2>1, <3>1 DEF Holds
    <3> QED BY <1>0, <2>1, <3>2, LingerStays
  <2> QED BY <2>3, <2>5, <2>6, <2>7, <2>8, <2>9, <2>10 DEF IInv, WindowsOK
<1> QED BY <1>2, <1>3, <1>4 DEF MessageReturns

-----------------------------------------------------------------------------
(* What the guest does to the windows it has.                                *)

LEMMA DestroyStep ==
  ASSUME IInv, DestroyWindow
  PROVE  IInv'
<1>0. /\ TypeOK /\ MakingOK(stack) /\ CountsOK(stack) /\ MintedOK /\ KidsOK /\ MainOK
      /\ CancelledTopsAreGone /\ CancelledKidsLinger /\ kid \in [1 .. NKids -> KidType]
      /\ \A w \in DOMAIN win : win[w] \in WinType
  BY WinIs DEF IInv, WindowsOK
<1>1. PICK w0 \in DOMAIN win :
        /\ Has(w0)
        /\ win' = Gone(w0, "destroyed")
        /\ kid' = IF win[w0].h[1] = "kid" THEN [kid EXCEPT ![win[w0].h[2]].live = FALSE] ELSE kid
        /\ UNCHANGED <<eventsOn, registered, top, taken, mainProc, lastProc, sub, words,
                       depth, hooked, stack, crowded>>
  BY DEF DestroyWindow
<1>2. /\ win' \in Seq(WinType) /\ Len(win') = Len(win) /\ DOMAIN win' = DOMAIN win
      /\ \A w \in DOMAIN win : win'[w].h = win[w].h
      /\ \A w \in DOMAIN win \ {w0} : win'[w] = win[w]
      /\ win'[w0].fate = "destroyed"
  BY <1>0, <1>1, GoneIs DEF Fates
<1>3. \A w \in DOMAIN win : Has(w)' => Has(w) /\ w # w0 /\ win'[w] = win[w]
  BY <1>2 DEF Has
<1>4. MakingOK(stack)' /\ CountsOK(stack)'
  BY <1>0, <1>1, <1>2, StackStays
<1>5. /\ kid' \in [1 .. NKids -> KidType]
      /\ \A i \in 1 .. NKids : Kid(i) # win[w0].h => kid'[i] = kid[i]
  <2>1. CASE win[w0].h[1] = "kid"
    <3> DEFINE i0 == win[w0].h[2]
    <3>1. i0 \in 1 .. NKids /\ win[w0].h = Kid(i0)
      BY <1>0, <1>1, <2>1, HandleShape DEF WinType
    <3>2. kid' = [kid EXCEPT ![i0].live = FALSE]
      BY <1>1, <2>1
    <3> HIDE DEF i0
    <3>3. kid[i0] \in KidType /\ [kid[i0] EXCEPT !.live = FALSE] \in KidType
      BY <1>0, <3>1 DEF KidType
    <3>4. /\ kid' \in [1 .. NKids -> KidType]
          /\ \A i \in 1 .. NKids : i # i0 => kid'[i] = kid[i]
      BY <1>0, <3>1, <3>2, <3>3
    <3> QED BY <3>1, <3>4
  <2>2. CASE win[w0].h[1] # "kid"
    BY <1>0, <1>1, <2>2
  <2> QED BY <2>1, <2>2
<1>6. TypeOK'
  BY <1>0, <1>1, <1>2, <1>5 DEF TypeOK, WinType, KidType
<1>7. MintedOK'
  <2>1. \A v, w \in DOMAIN win' : IsTop(v)' /\ win'[v].h = win'[w].h => v = w
    BY <1>0, <1>2 DEF MintedOK, IsTop
  <2>2. ASSUME NEW w \in DOMAIN win', IsTop(w)'
        PROVE  /\ win'[w].h[2] <= Len(top')
               /\ Has(w)' => /\ top'[win'[w].h[2]].live /\ top'[win'[w].h[2]].proc = win'[w].cls
                             /\ sub'[Top(win'[w].h[2])] = win'[w].sub
    <3>1. w \in DOMAIN win /\ IsTop(w) /\ win'[w].h = win[w].h
      BY <1>2, <2>2 DEF IsTop
    <3>2. win[w].h[2] <= Len(top)
      BY <1>0, <3>1 DEF MintedOK
    <3>3. ASSUME Has(w)'
          PROVE  /\ top[win[w].h[2]].live /\ top[win[w].h[2]].proc = win'[w].cls
                 /\ sub[Top(win[w].h[2])] = win'[w].sub
      BY <1>0, <1>3, <3>1, <3>3 DEF MintedOK
    <3> QED BY <1>1, <3>1, <3>2, <3>3
  <2>3. \A m \in Len(top') + 1 .. NTops : sub'[Top(m)] = None
    BY <1>0, <1>1 DEF MintedOK
  <2> QED BY <2>1, <2>2, <2>3 DEF MintedOK
<1>8. KidsOK'
  <2> SUFFICES ASSUME NEW w \in DOMAIN win', Has(w)', win'[w].h[1] = "kid"
               PROVE  /\ kid'[win'[w].h[2]].live
                      /\ \A v \in DOMAIN win' : Has(v)' /\ win'[v].h = win'[w].h => v = w
    BY DEF KidsOK
  <2>1. w \in DOMAIN win /\ Has(w) /\ w # w0 /\ win'[w] = win[w] /\ win[w].h[1] = "kid"
    BY <1>2, <1>3
  <2>2. kid[win[w].h[2]].live /\ \A v \in DOMAIN win : Has(v) /\ win[v].h = win[w].h => v = w
    BY <1>0, <2>1 DEF KidsOK
  <2>3. win[w].h[2] \in 1 .. NKids /\ win[w].h = Kid(win[w].h[2])
    BY <1>0, <2>1, HandleShape DEF WinType
  <2>4. win[w].h # win[w0].h
    BY <1>1, <2>1, <2>2
  <2>5. kid'[win[w].h[2]].live
    BY <1>5, <2>2, <2>3, <2>4
  <2> QED BY <1>2, <1>3, <2>1, <2>2, <2>5
<1>9. MainOK'
  <2>1. ASSUME NEW w \in DOMAIN win', win'[w].h = Main, win'[w].fate = "alive"
        PROVE  taken'
    BY <1>0, <1>1, <1>2, <1>3, <2>1 DEF MainOK
  <2>2. ASSUME ~ crowded', NEW v \in DOMAIN win', NEW w \in DOMAIN win', Has(v)', Has(w)',
               win'[v].h = Main, win'[w].h = Main
        PROVE  v = w
    <3>1. /\ v \in DOMAIN win /\ Has(v) /\ win[v].h = Main
          /\ w \in DOMAIN win /\ Has(w) /\ win[w].h = Main
      BY <1>2, <1>3, <2>2
    <3>2. ~ crowded
      BY <1>0, <1>1, <2>2
    <3> QED BY <1>0, <3>1, <3>2 DEF MainOK
  <2> QED BY <2>1, <2>2 DEF MainOK
<1>10. CancelledTopsAreGone'
  <2>1. \A n \in DOMAIN top' : top'[n].live =>
          \E w \in DOMAIN win' : win'[w].h = Top(n) /\ win'[w].fate # "cancelled"
    BY <1>0, <1>1, <1>2 DEF CancelledTopsAreGone
  <2>2. taken' => \E w \in DOMAIN win' : win'[w].h = Main /\ win'[w].fate \in {"alive", "destroyed"}
    BY <1>0, <1>1, <1>2 DEF CancelledTopsAreGone
  <2> QED BY <2>1, <2>2 DEF CancelledTopsAreGone
<1>11. CancelledKidsLinger'
  <2>1. \A w \in DOMAIN win : Holds(w)' <=> Holds(w) /\ w # w0
    BY <1>2 DEF Holds
  <2>2. Holds(w0)
    BY <1>1 DEF Has, Holds
  <2>3. ASSUME NEW j \in 1 .. NKids
        PROVE  kid'[j].live <=> \E w \in DOMAIN win' : win'[w].h = Kid(j) /\ Holds(w)'
    <3>1. kid[j].live <=> \E w \in DOMAIN win : win[w].h = Kid(j) /\ Holds(w)
      BY <1>0 DEF CancelledKidsLinger
    <3>2. CASE win[w0].h = Kid(j)
      <4>1. win[w0].h[1] = "kid" /\ win[w0].h[2] = j
        BY <3>2 DEF Kid
      <4>2. ~ kid'[j].live
        BY <1>0, <1>1, <4>1 DEF KidType
      <4>3. \A w \in DOMAIN win : Holds(w) /\ win[w].h = Kid(j) => w = w0
        BY <1>0, <1>1, <2>2, <3>2, <4>1 DEF CancelledKidsLinger
      <4> QED BY <1>2, <2>1, <4>2, <4>3
    <3>3. CASE win[w0].h # Kid(j)
      <4>1. kid'[j] = kid[j]
        BY <1>5, <3>3
      <4> QED BY <1>2, <2>1, <3>1, <3>3, <4>1
    <3> QED BY <3>2, <3>3
  <2>4. ASSUME NEW v \in DOMAIN win', NEW w \in DOMAIN win', win'[v].h[1] = "kid",
               Holds(v)', Holds(w)', win'[v].h = win'[w].h
        PROVE  v = w
    <3>1. v \in DOMAIN win /\ w \in DOMAIN win /\ Holds(v) /\ Holds(w)
      BY <1>2, <2>1, <2>4
    <3> QED BY <1>0, <1>2, <2>4, <3>1 DEF CancelledKidsLinger
  <2> QED BY <2>3, <2>4 DEF CancelledKidsLinger
<1> QED BY <1>4, <1>6, <1>7, <1>8, <1>9, <1>10, <1>11 DEF IInv, WindowsOK

(* A step that leaves the windows, their tables and the stack alone.         *)
LEMMA OthersSame ==
  ASSUME IInv, UNCHANGED <<kid, top, taken, sub, win, crowded, stack, depth>>, TypeOK'
  PROVE  IInv'
<1>1. MakingOK(stack)' /\ CountsOK(stack)'
  BY StackStays DEF IInv
<1> QED BY <1>1, WindowsSame DEF IInv

LEMMA SubclassStep ==
  ASSUME IInv, SetWindowLongPtr
  PROVE  IInv'
<1>0. /\ TypeOK /\ MakingOK(stack) /\ CountsOK(stack) /\ MintedOK /\ KidsOK /\ MainOK
      /\ CancelledTopsAreGone /\ CancelledKidsLinger /\ sub \in [Handles -> Subs \union {None}]
      /\ win \in Seq(WinType) /\ \A w \in DOMAIN win : win[w] \in WinType
      /\ NTops \in Nat /\ Len(top) \in Nat
  BY WinIs DEF IInv, WindowsOK, TypeOK
<1>k. CASE UNCHANGED <<sub, win>>
  <2>1. UNCHANGED <<eventsOn, registered, kid, top, taken, words, depth, hooked, stack, crowded>>
        /\ mainProc' \in Procs \union {None} /\ lastProc' \in Procs \union {None}
    BY <1>0 DEF SetWindowLongPtr, TypeOK, Procs
  <2>2. TypeOK'
    BY <1>0, <1>k, <2>1 DEF TypeOK
  <2> QED BY <1>k, <2>1, <2>2, OthersSame
<1> SUFFICES ASSUME ~ UNCHANGED <<sub, win>> PROVE IInv'
  BY <1>k
<1>1. PICK w0 \in DOMAIN win, p \in Subs :
        /\ Has(w0)
        /\ sub' = [sub EXCEPT ![win[w0].h] = p]
        /\ win' = [win EXCEPT ![w0].sub = p]
        /\ mainProc' \in {p, mainProc} /\ lastProc' \in {p, lastProc}
        /\ UNCHANGED <<eventsOn, registered, kid, top, taken, words, depth, hooked, stack, crowded>>
  BY DEF SetWindowLongPtr
<1>2. /\ win' \in Seq(WinType) /\ Len(win') = Len(win) /\ DOMAIN win' = DOMAIN win
      /\ \A w \in DOMAIN win : /\ win'[w].h = win[w].h /\ win'[w].cls = win[w].cls
                               /\ win'[w].fate = win[w].fate
      /\ \A w \in DOMAIN win \ {w0} : win'[w] = win[w]
      /\ win'[w0].sub = p
  <2>1. win[w0] \in WinType /\ [win[w0] EXCEPT !.sub = p] \in WinType
    BY <1>0, <1>1 DEF WinType
  <2>2. /\ win' \in Seq(WinType) /\ Len(win') = Len(win) /\ DOMAIN win' = DOMAIN win
        /\ \A w \in DOMAIN win \ {w0} : win'[w] = win[w]
        /\ win'[w0] = [win[w0] EXCEPT !.sub = p]
    BY <1>0, <1>1, <2>1
  <2>3. /\ win'[w0].h = win[w0].h /\ win'[w0].cls = win[w0].cls
        /\ win'[w0].fate = win[w0].fate /\ win'[w0].sub = p
    BY <2>1, <2>2 DEF WinType
  <2> QED BY <2>2, <2>3
<1>3. \A w \in DOMAIN win : (Has(w)' <=> Has(w)) /\ (IsTop(w)' <=> IsTop(w))
  BY <1>2 DEF Has, IsTop
<1>4. MakingOK(stack)' /\ CountsOK(stack)'
  BY <1>0, <1>1, <1>2, StackStays
<1>5. /\ sub' \in [Handles -> Subs \union {None}] /\ win[w0].h \in Handles
      /\ sub'[win[w0].h] = p /\ \A h \in Handles \ {win[w0].h} : sub'[h] = sub[h]
  BY <1>0, <1>1 DEF WinType
<1>6. TypeOK'
  BY <1>0, <1>1, <1>2, <1>5 DEF TypeOK, WinType, Procs
<1>7. MintedOK'
  <2>1. \A v, w \in DOMAIN win' : IsTop(v)' /\ win'[v].h = win'[w].h => v = w
    BY <1>0, <1>2, <1>3 DEF MintedOK
  <2>2. ASSUME NEW w \in DOMAIN win', IsTop(w)'
        PROVE  /\ win'[w].h[2] <= Len(top')
               /\ Has(w)' => /\ top'[win'[w].h[2]].live /\ top'[win'[w].h[2]].proc = win'[w].cls
                             /\ sub'[Top(win'[w].h[2])] = win'[w].sub
    <3> DEFINE n == win[w].h[2]
    <3>1. /\ w \in DOMAIN win /\ IsTop(w) /\ win'[w].h = win[w].h /\ win'[w].cls = win[w].cls
          /\ n <= Len(top)
          /\ Has(w) => top[n].live /\ top[n].proc = win[w].cls /\ sub[Top(n)] = win[w].sub
      BY <1>0, <1>2, <1>3, <2>2 DEF MintedOK
    <3>2. Top(n) \in Handles /\ win[w].h = Top(n)
      BY <1>0, <3>1, HandleShape DEF WinType, IsTop
    <3>3. ASSUME Has(w)
          PROVE  sub'[Top(n)] = win'[w].sub
      <4>1. CASE w = w0
        BY <1>2, <1>5, <3>2, <4>1
      <4>2. CASE w # w0
        <5>1. win[w0].h # Top(n)
          BY <1>0, <3>1, <3>2, <4>2 DEF MintedOK
        <5> QED BY <1>2, <1>5, <3>1, <3>2, <3>3, <4>2, <5>1
      <4> QED BY <4>1, <4>2
    <3> QED BY <1>1, <1>3, <3>1, <3>3
  <2>3. ASSUME NEW m \in Len(top') + 1 .. NTops
        PROVE  sub'[Top(m)] = None
    <3>1. m \in 1 .. NTops /\ m > Len(top) /\ sub[Top(m)] = None
      BY <1>0, <1>1, <2>3 DEF MintedOK
    <3>2. Top(m) \in Handles /\ Top(m)[1] = "top" /\ Top(m)[2] = m
      BY <3>1, HandleShape
    <3>3. win[w0].h # Top(m)
      BY <1>0, <3>1, <3>2 DEF MintedOK, IsTop
    <3> QED BY <1>5, <3>1, <3>2, <3>3
  <2> QED BY <2>1, <2>2, <2>3 DEF MintedOK
<1>8. KidsOK'
  BY <1>0, <1>1, <1>2, <1>3 DEF KidsOK
<1>9. MainOK'
  BY <1>0, <1>1, <1>2, <1>3 DEF MainOK
<1>10. CancelledTopsAreGone'
  BY <1>0, <1>1, <1>2 DEF CancelledTopsAreGone
<1>11. CancelledKidsLinger'
  BY <1>0, <1>1, <1>2, LingerStays DEF Holds
<1> QED BY <1>4, <1>6, <1>7, <1>8, <1>9, <1>10, <1>11 DEF IInv, WindowsOK

-----------------------------------------------------------------------------
(* The whole.                                                                *)

LEMMA InitInv == Init => IInv
<1> SUFFICES ASSUME Init PROVE IInv
  OBVIOUS
<1>1. NTops \in Nat /\ NKids \in Nat /\ MaxMade \in Nat
  BY TablesAssumption
<1>e. \A S : <<>> \in Seq(S) /\ Len(<<>>) = 0 /\ DOMAIN <<>> = {}
  BY EmptySeq
<1>2. TypeOK
  <2>1. kid \in [1 .. NKids -> [live : BOOLEAN, proc : Classes \union {None}]]
    BY DEF Init, NoKid
  <2>2. /\ top = <<>> /\ win = <<>> /\ stack = <<>> /\ depth \in 0 .. MaxMade
        /\ Len(top) <= NTops
    BY <1>1, <1>e DEF Init
  <2>3. {eventsOn, taken, hooked, crowded} \subseteq BOOLEAN /\ registered \subseteq Classes
    BY DEF Init
  <2>4. {mainProc, lastProc} \subseteq Procs \union {None}
        /\ sub \in [Handles -> Subs \union {None}] /\ words \in 0 .. NLongs
    BY TablesAssumption DEF Init
  <2> QED BY <1>e, <2>1, <2>2, <2>3, <2>4 DEF TypeOK
<1>3. Telling(<<>>) = {} /\ Hooks(<<>>) = {}
  BY <1>e DEF Telling, Hooks
<1>4. CountsOK(stack)
  <2>1. stack = <<>> /\ Len(win) = 0 /\ depth = 0
    BY <1>e DEF Init
  <2>2. Cardinality(Telling(stack)) = 0 /\ Cardinality(Hooks(stack)) = 0
    BY <1>3, <2>1, FS_EmptySet
  <2> QED BY <1>1, <2>1, <2>2 DEF CountsOK
<1>5. MakingOK(stack)
  BY DEF Init, MakingOK
<1>6. WindowsOK
  <2>1. \A n \in 1 .. NTops : sub[Top(n)] = None
    BY HandleShape DEF Init
  <2>2. MintedOK
    BY <1>1, <2>1 DEF Init, MintedOK
  <2>3. KidsOK /\ MainOK /\ CancelledTopsAreGone /\ CancelledKidsLinger
    BY DEF Init, NoKid, KidsOK, MainOK, CancelledTopsAreGone, CancelledKidsLinger
  <2> QED BY <2>2, <2>3 DEF WindowsOK
<1> QED BY <1>2, <1>4, <1>5, <1>6 DEF IInv

LEMMA NextInv == IInv /\ [Next]_vars => IInv'
<1> SUFFICES ASSUME IInv, [Next]_vars PROVE IInv'
  OBVIOUS
<1>2. CASE RegisterClass
  <2>1. TypeOK'
    BY <1>2 DEF IInv, TypeOK, RegisterClass, Procs
  <2> QED BY <1>2, <2>1, OthersSame DEF RegisterClass
<1>3. CASE SetWindowsHookEx
  <2>1. TypeOK'
    BY <1>3 DEF IInv, TypeOK, SetWindowsHookEx
  <2> QED BY <1>3, <2>1, OthersSame DEF SetWindowsHookEx
<1>5. CASE SetOtherLong
  <2>1. words' \in 0 .. NLongs
    BY <1>5, TablesAssumption DEF IInv, TypeOK, SetOtherLong
  <2>2. TypeOK'
    BY <1>5, <2>1 DEF IInv, TypeOK, SetOtherLong
  <2> QED BY <1>5, <2>2, OthersSame DEF SetOtherLong
<1>4. CASE UNCHANGED vars
  <2>1. TypeOK'
    BY <1>4 DEF IInv, TypeOK, vars
  <2> QED BY <1>4, <2>1, OthersSame DEF vars
<1> QED BY <1>2, <1>3, <1>4, <1>5, CreateStep, HookStep, MessageStep, DestroyStep, SubclassStep DEF Next

LEMMA AlwaysInv == Spec => []IInv
BY InitInv, NextInv, PTL DEF Spec

(* However creations nest inside one another's messages, are cancelled there *)
(* or have their window destroyed, two windows never share a handle while    *)
(* there are handles to mint, the depth that makes nested creations mint is  *)
(* right, a cancelled creation leaves no minted handle behind, and a child's *)
(* slot is in use exactly while the guest has the child or once its creation *)
(* was cancelled.                                                            *)
THEOREM WindowsKeepTheirHandles == Spec => []WindowTablesOK
<1>1. IInv => WindowTablesOK
  <2> SUFFICES ASSUME IInv PROVE WindowTablesOK
    OBVIOUS
  <2>0. TypeOK /\ MintedOK /\ KidsOK /\ MainOK /\ CancelledTopsAreGone /\ CancelledKidsLinger
    BY DEF IInv, WindowsOK
  <2>1. DepthMatchesStack
    BY DEF IInv, CountsOK, DepthMatchesStack, Telling
  <2>2. DistinctHandles
    <3> SUFFICES ASSUME ~ crowded, NEW v \in DOMAIN win, NEW w \in DOMAIN win, Has(v), Has(w),
                        win[v].h = win[w].h
                 PROVE  v = w
      BY DEF DistinctHandles
    <3>1. win[w].h \in Handles
      BY <2>0, WinIs DEF WinType
    <3>2. CASE win[w].h = Main
      BY <2>0, <3>2 DEF MainOK
    <3>3. CASE win[w].h[1] = "kid"
      BY <2>0, <3>3 DEF KidsOK
    <3>4. CASE win[w].h[1] = "top"
      BY <2>0, <3>4 DEF MintedOK, IsTop
    <3> QED BY <3>1, <3>2, <3>3, <3>4, HandleShape
  <2> QED BY <2>0, <2>1, <2>2 DEF WindowTablesOK
<1> QED BY <1>1, AlwaysInv, PTL

(* A minted window that has a procedure of its own hears its messages there. *)
LEMMA RoutesHome ==
  ASSUME IInv, NEW w \in DOMAIN win, Has(w), IsTop(w), Own(w) # None
  PROVE  WindowProc(win[w].h) = Own(w)
<1> DEFINE n == win[w].h[2]
<1>0. TypeOK /\ MintedOK /\ win[w].h \in Handles /\ win[w] \in WinType
  BY WinIs DEF IInv, WindowsOK, WinType
<1>1. win[w].h = Top(n) /\ win[w].h # Main /\ n <= Len(top)
  BY <1>0, HandleShape DEF IsTop, MintedOK
<1>2. top[n].live /\ top[n].proc = win[w].cls /\ sub[win[w].h] = win[w].sub
  BY <1>0, <1>1 DEF MintedOK
<1>3. CASE win[w].sub # None
  BY <1>2, <1>3 DEF WindowProc, Own
<1>4. CASE win[w].sub = None
  BY <1>1, <1>2, <1>4 DEF WindowProc, Own
<1> QED BY <1>3, <1>4

(* The messages of a minted window go to the procedure the guest set on that *)
(* window, else to that of its class, whatever was registered, subclassed,   *)
(* nested or cancelled in the meantime.                                      *)
THEOREM MintedWindowsRouteHome == Spec => []TopsRouteHome
<1>1. IInv => TopsRouteHome
  BY RoutesHome DEF TopsRouteHome
<1> QED BY <1>1, AlwaysInv, PTL

(* Registering a class moves no message of a top-level window that has a     *)
(* procedure of its own.                                                     *)
THEOREM RegistrationsStealNothing == Spec => RegistrationStealsNothing
<1> DEFINE Keeps == RegisterClass =>
       \A w \in DOMAIN win :
         Has(w) /\ Own(w) # None /\ (IsTop(w) \/ (win[w].h = Main /\ mainProc # None)) =>
           WindowProc(win[w].h)' = WindowProc(win[w].h)
<1>1. IInv /\ [Next]_vars => [Keeps]_vars
  <2> SUFFICES ASSUME IInv, RegisterClass, NEW w \in DOMAIN win, Has(w), Own(w) # None,
                      IsTop(w) \/ (win[w].h = Main /\ mainProc # None)
               PROVE  WindowProc(win[w].h)' = WindowProc(win[w].h)
    OBVIOUS
  <2>1. UNCHANGED <<top, mainProc, sub, win>>
    BY DEF RegisterClass
  <2>2. CASE IsTop(w)
    <3>1. sub[win[w].h] # None \/ (LET n == win[w].h[2]
                                   IN  n <= Len(top) /\ top[n].live /\ top[n].proc # None)
      <4>1. MintedOK /\ win[w].h \in Handles
        BY WinIs DEF IInv, WindowsOK, WinType
      <4>2. win[w].h = Top(win[w].h[2])
        BY <2>2, <4>1, HandleShape DEF IsTop
      <4> QED BY <2>2, <4>1, <4>2 DEF MintedOK, Own
    <3> QED BY <2>1, <2>2, <3>1 DEF WindowProc, Main, IsTop
  <2>3. CASE win[w].h = Main
    BY <2>1, <2>3 DEF WindowProc
  <2> QED BY <2>2, <2>3
<1>2. Spec => [][Keeps]_vars
  BY <1>1, AlwaysInv, PTL DEF Spec
<1> QED BY <1>2 DEF RegistrationStealsNothing
=============================================================================
